------------------------------- MODULE Client -------------------------------
(***************************************************************************)
(* One device (src/dropboxClient.c) and the session thread that serves it  *)
(* (session_manager of src/dropboxServer.c), after the login.  On the      *)
(* device the interface thread carries out commands, the main thread       *)
(* creates a synchronisation thread from time to time, and the mutex       *)
(* lockcomunicacao is held for one request at a time: what happens between *)
(* two requests of one thread belongs to the others.  Another device of    *)
(* the same user changes the server's directory meanwhile.                 *)
(*                                                                         *)
(* A file transfer is a request, one packet FILE and its answer DONE; what *)
(* goes on inside it is the subject of FileTransfer.  The channels between *)
(* the two sides lose nothing here: a client has one request outstanding.  *)
(***************************************************************************)
EXTENDS Integers, Sequences

CONSTANTS
    Files,        \* file names
    Strandable,   \* those whose transfer strands its receiver (FileTransfer!Strands)
    SyncThreads,  \* synchronisation threads that can exist at the same time
    MaxCommands,  \* bound: commands the user gives besides exit
    MaxOther,     \* bound: uploads and deletes by the other device
    Wedges        \* whether the server can get stuck forwarding an upload

ASSUME ClientAssumption ==
    /\ Strandable \subseteq Files
    /\ "iface" \notin SyncThreads /\ "free" \notin SyncThreads
    /\ MaxCommands \in Nat /\ MaxOther \in Nat
    /\ Wedges \in BOOLEAN

NoFile == "nofile"
Threads == {"iface"} \cup SyncThreads
Requests == {"UPLOAD", "DOWNLOAD", "LIST", "DELETE", "CLOSE"}

VARIABLES
    thread,       \* the locals of the interface and the synchronisation threads
    lockcomunicacao,  \* the mutex: "free", or the thread that holds it
    is_syncing,
    mustexit,
    exited,       \* main has returned
    time_between_sync,  \* "long", or "short" as after setsynctime 0
    hurried,      \* it is short, or a synchronisation begun since then may be running
    local,        \* files in the device's sync_dir
    remote,       \* files in the user's directory on the server
    session,      \* the session thread: what it does, and for which file
    toServer,     \* packets to the session socket
    toClient,     \* packets to the device's socket
    commands, others,   \* the bounds' counters
    stranded,     \* some transfer has left its receiver waiting
    deleted       \* files the user has deleted and nobody has added since

interval == <<time_between_sync, hurried>>
device == <<is_syncing, mustexit, exited, interval>>
counters == <<commands, others>>
vars == <<thread, lockcomunicacao, device, local, remote, session, toServer,
          toClient, counters, stranded, deleted>>

NotRunning == [pc |-> "none", op |-> "LIST", f |-> NoFile, todo |-> {}]

Init ==
    /\ thread = [t \in Threads |->
                   IF t = "iface" THEN [NotRunning EXCEPT !.pc = "idle"]
                   ELSE NotRunning]
    /\ lockcomunicacao = "free"
    /\ is_syncing = FALSE /\ mustexit = FALSE /\ exited = FALSE
    /\ time_between_sync = "long" /\ hurried = FALSE
    /\ local \in SUBSET Files
    /\ remote \in SUBSET Files
    /\ session = [pc |-> "recv", f |-> NoFile]
    /\ toServer = <<>> /\ toClient = <<>>
    /\ commands = 0 /\ others = 0
    /\ stranded = FALSE
    /\ deleted = {}

-----------------------------------------------------------------------------
(* A request, by whichever thread *)

(* pthread_mutex_lock; delete_file then looks for the file in sync_dir and  *)
(* asks the server only if it is there.                                     *)
Lock_Free(t) ==
    /\ thread[t].pc = "lock"
    /\ lockcomunicacao' = t
    /\ thread' = [thread EXCEPT ![t].pc =
                    IF thread[t].op = "DELETE" /\ thread[t].f \notin local
                    THEN "unlock" ELSE "send"]
    /\ UNCHANGED <<device, local, remote, session, toServer, toClient, counters,
                   stranded, deleted>>

Lock(t) ==
    /\ thread[t].pc = "lock"
    /\ lockcomunicacao = "free"
    /\ lockcomunicacao' = t
    /\ thread' = [thread EXCEPT ![t].pc =
                    IF thread[t].op = "DELETE" /\ thread[t].f \notin local
                    THEN "unlock" ELSE "send"]
    /\ UNCHANGED <<device, local, remote, session, toServer, toClient, counters,
                   stranded, deleted>>

Send(t) ==
    /\ thread[t].pc = "send"
    /\ toServer' = Append(toServer, [op |-> thread[t].op, f |-> thread[t].f])
    /\ thread' = [thread EXCEPT ![t].pc = "ack"]
    /\ UNCHANGED <<lockcomunicacao, device, local, remote, session, toClient,
                   counters, stranded, deleted>>

(* The first ACK ends the wait, whatever it answers.  LIST takes the list   *)
(* out of it, DELETE removes the file from sync_dir, and a download to      *)
(* sync_dir (a synchronisation's) creates the file there.                   *)
TakeAck(t) ==
    LET op == thread[t].op
        f == thread[t].f
        reply == Head(toClient)
    IN  /\ thread[t].pc = "ack"
        /\ toClient # <<>> /\ reply.op = "ACK"
        /\ toClient' = Tail(toClient)
        /\ thread' = [thread EXCEPT ![t] =
                        [@ EXCEPT !.pc = CASE op = "UPLOAD" -> "put"
                                           [] op = "DOWNLOAD" -> "get"
                                           [] OTHER -> "unlock",
                                  !.todo = IF op = "LIST" THEN reply.list
                                           ELSE thread[t].todo]]
        /\ local' = CASE op = "DELETE" -> local \ {f}
                      [] op = "DOWNLOAD" /\ t \in SyncThreads -> local \cup {f}
                      [] OTHER -> local
        /\ UNCHANGED <<lockcomunicacao, device, remote, session, toServer,
                       counters, stranded, deleted>>

(* send_file_to: the path is in sync_dir for a synchronisation, anywhere    *)
(* for the upload command.  If open fails it returns without sending.       *)
Put(t) ==
    /\ thread[t].pc = "put"
    /\ \/ /\ thread[t].f \in local \/ t = "iface"
          /\ thread[t].f \notin Strandable
          /\ toServer' = Append(toServer, [op |-> "FILE", f |-> thread[t].f])
          /\ thread' = [thread EXCEPT ![t].pc = "putting"]
          /\ UNCHANGED stranded
       \/ /\ thread[t].f \notin local \/ t = "iface" \/ thread[t].f \in Strandable
          /\ thread' = [thread EXCEPT ![t].pc = "unlock"]
          /\ stranded' = TRUE
          /\ UNCHANGED toServer
    /\ UNCHANGED <<lockcomunicacao, device, local, remote, session, toClient,
                   counters, deleted>>

EndTransfer_KeepsLock(t) ==
    /\ \/ thread[t].pc = "putting" /\ toClient # <<>> /\ Head(toClient).op = "DONE"
       \/ thread[t].pc = "get" /\ toClient # <<>> /\ Head(toClient).op = "FILE"
    /\ toClient' = Tail(toClient)
    /\ thread' = [thread EXCEPT ![t].pc = IF t = "iface" THEN "idle" ELSE "unlock"]
    /\ UNCHANGED <<lockcomunicacao, device, local, remote, session, toServer,
                   counters, stranded, deleted>>

(* The answer to the last packet of an upload, or a whole download.         *)
EndTransfer(t) ==
    /\ \/ thread[t].pc = "putting" /\ toClient # <<>> /\ Head(toClient).op = "DONE"
       \/ thread[t].pc = "get" /\ toClient # <<>> /\ Head(toClient).op = "FILE"
    /\ toClient' = Tail(toClient)
    /\ thread' = [thread EXCEPT ![t].pc = "unlock"]
    /\ UNCHANGED <<lockcomunicacao, device, local, remote, session, toServer,
                   counters, stranded, deleted>>

(* pthread_mutex_unlock, and back to the caller.                            *)
Unlock(t) ==
    /\ thread[t].pc = "unlock"
    /\ lockcomunicacao' = "free"
    /\ thread' = [thread EXCEPT ![t] =
                    [@ EXCEPT
                       !.pc = CASE t = "iface" ->
                                     IF thread[t].op = "CLOSE" THEN "done" ELSE "idle"
                                [] thread[t].op = "UPLOAD" -> "uploads"
                                [] OTHER -> "downloads",
                       !.todo = IF t = "iface" THEN {} ELSE thread[t].todo,
                       !.op = "LIST", !.f = NoFile]]
    /\ mustexit' = (mustexit \/ thread[t].op = "CLOSE")
    /\ UNCHANGED <<is_syncing, exited, interval, local, remote, session,
                   toServer, toClient, counters, stranded, deleted>>

Request(t) == Send(t) \/ TakeAck(t) \/ Put(t) \/ EndTransfer(t) \/ Unlock(t)

-----------------------------------------------------------------------------
(* The interface thread *)

(* treat_command; exit closes the session.  An upload puts back what was    *)
(* deleted.                                                                 *)
Command(op, f) ==
    /\ thread["iface"].pc = "idle"
    /\ op = "CLOSE" \/ commands < MaxCommands
    /\ thread' = [thread EXCEPT !["iface"] =
                    [@ EXCEPT !.pc = "lock", !.op = op, !.f = f]]
    /\ commands' = IF op = "CLOSE" THEN commands ELSE commands + 1
    /\ deleted' = IF op = "UPLOAD" THEN deleted \ {f} ELSE deleted
    /\ UNCHANGED <<lockcomunicacao, device, local, remote, session, toServer,
                   toClient, others, stranded>>

(* The synchronisations of S, or what is left of a short interval.          *)
StillHurried(S, time) ==
    time = "short" \/ (hurried /\ \E t \in S : thread[t].pc # "none")

(* setsynctime: any number of seconds.  It does nothing to the              *)
(* synchronisations that are running.                                       *)
SetSyncTime(time) ==
    /\ thread["iface"].pc = "idle"
    /\ time_between_sync' = time
    /\ hurried' = StillHurried(SyncThreads, time)
    /\ UNCHANGED <<thread, lockcomunicacao, is_syncing, mustexit, exited, local,
                   remote, session, toServer, toClient, counters, stranded, deleted>>

-----------------------------------------------------------------------------
(* Synchronisation *)

(* main's loop.  With a long interval a new thread has set is_syncing       *)
(* before the interval is over; with a short one it need not have.          *)
Spawn(t) ==
    /\ ~mustexit /\ ~is_syncing
    /\ thread[t].pc = "none"
    /\ time_between_sync = "long" => \A u \in SyncThreads : thread[u].pc # "new"
    /\ thread' = [thread EXCEPT ![t].pc = "new"]
    /\ UNCHANGED <<lockcomunicacao, device, local, remote, session, toServer,
                   toClient, counters, stranded, deleted>>

(* thread_sync and the opendir of sync_client.                              *)
BeginSync_NoFlag(t) ==
    /\ thread[t].pc = "new"
    /\ thread' = [thread EXCEPT ![t] = [@ EXCEPT !.pc = "uploads", !.todo = local]]
    /\ UNCHANGED <<lockcomunicacao, device, local, remote, session, toServer,
                   toClient, counters, stranded, deleted>>

BeginSync(t) ==
    /\ thread[t].pc = "new"
    /\ is_syncing' = TRUE
    /\ thread' = [thread EXCEPT ![t] = [@ EXCEPT !.pc = "uploads", !.todo = local]]
    /\ UNCHANGED <<lockcomunicacao, mustexit, exited, interval, local,
                   remote, session, toServer, toClient, counters, stranded, deleted>>

(* Every file found by readdir is sent, then the server's list is fetched,  *)
(* then every file of the list.                                             *)
NextUpload(t) ==
    /\ thread[t].pc = "uploads"
    /\ \/ \E f \in thread[t].todo :
             thread' = [thread EXCEPT ![t] =
                          [pc |-> "lock", op |-> "UPLOAD", f |-> f,
                           todo |-> thread[t].todo \ {f}]]
       \/ /\ thread[t].todo = {}
          /\ thread' = [thread EXCEPT ![t] = [@ EXCEPT !.pc = "lock", !.op = "LIST"]]
    /\ UNCHANGED <<lockcomunicacao, device, local, remote, session, toServer,
                   toClient, counters, stranded, deleted>>

NextDownload(t) ==
    /\ thread[t].pc = "downloads"
    /\ \E f \in thread[t].todo :
          thread' = [thread EXCEPT ![t] =
                       [pc |-> "lock", op |-> "DOWNLOAD", f |-> f,
                        todo |-> thread[t].todo \ {f}]]
    /\ UNCHANGED <<lockcomunicacao, device, local, remote, session, toServer,
                   toClient, counters, stranded, deleted>>

EndSync(t) ==
    /\ thread[t].pc = "downloads" /\ thread[t].todo = {}
    /\ is_syncing' = FALSE
    /\ hurried' = StillHurried(SyncThreads \ {t}, time_between_sync)
    /\ thread' = [thread EXCEPT ![t] = NotRunning]
    /\ UNCHANGED <<lockcomunicacao, mustexit, exited, time_between_sync, local,
                   remote, session, toServer, toClient, counters, stranded, deleted>>

Sync(t) == BeginSync(t) \/ NextUpload(t) \/ NextDownload(t) \/ EndSync(t)

(* main joins the interface thread and returns: the process is over.        *)
Exit ==
    /\ mustexit /\ thread["iface"].pc = "done"
    /\ exited' = TRUE
    /\ UNCHANGED <<thread, lockcomunicacao, is_syncing, mustexit, interval,
                   local, remote, session, toServer, toClient, counters, stranded,
                   deleted>>

-----------------------------------------------------------------------------
(* The session thread *)

AckOf(list, served) == [op |-> "ACK", list |-> list, served |-> served]
FileOf(op) == [op |-> op, list |-> {}, served |-> TRUE]

(* The switch.  UPLOAD creates the file before the first byte arrives; a    *)
(* DOWNLOAD that cannot be opened sends nothing after its ACK; a DELETE is  *)
(* acknowledged first and carried out then (Remove).                        *)
Serve ==
    LET p == Head(toServer)
    IN  /\ session.pc = "recv"
        /\ toServer # <<>> /\ p.op \in Requests
        /\ toServer' = Tail(toServer)
        /\ session' = CASE p.op = "UPLOAD" -> [pc |-> "receive", f |-> p.f]
                        [] p.op = "DELETE" -> [pc |-> "remove", f |-> p.f]
                        [] p.op = "CLOSE" -> [pc |-> "gone", f |-> NoFile]
                        [] OTHER -> session
        /\ remote' = IF p.op = "UPLOAD" THEN remote \cup {p.f} ELSE remote
        /\ IF p.op = "DOWNLOAD" /\ p.f \in remote \ Strandable
           THEN toClient' = toClient \o <<AckOf({}, TRUE), FileOf("FILE")>>
           ELSE toClient' = Append(toClient,
                              AckOf(IF p.op = "LIST" THEN remote ELSE {}, TRUE))
        /\ stranded' = (stranded \/ (p.op = "DOWNLOAD" /\ p.f \notin remote \ Strandable))
        /\ deleted' = IF p.op = "DELETE" THEN deleted \cup {p.f} ELSE deleted
        /\ UNCHANGED <<thread, lockcomunicacao, device, local, counters>>

Remove ==
    /\ session.pc = "remove"
    /\ remote' = remote \ {session.f}
    /\ session' = [pc |-> "recv", f |-> NoFile]
    /\ UNCHANGED <<thread, lockcomunicacao, device, local, toServer, toClient,
                   counters, stranded, deleted>>

(* receive_file_from ends with the first packet that is not a FILEPKT, be   *)
(* it a request: then the ACK that the client takes for its request's comes *)
(* from here, and what it carries besides is uninitialised.  After that the *)
(* file is forwarded to the servers of serverlist, none of which answers to *)
(* the session socket: the thread stays there unless the uninitialised      *)
(* reply of send_file_to happens to be the ACK it waits for.                *)
Store ==
    LET p == Head(toServer)
    IN  /\ session.pc = "receive"
        /\ toServer # <<>>
        /\ toServer' = Tail(toServer)
        /\ \/ p.op = "FILE" /\ toClient' = Append(toClient, FileOf("DONE"))
           \/ /\ p.op \in Requests
              /\ \E garbage \in SUBSET Files :
                    toClient' = Append(toClient, AckOf(garbage, FALSE))
        /\ \E pc \in {"recv"} \cup (IF Wedges THEN {"forward"} ELSE {}) :
              session' = [pc |-> pc, f |-> NoFile]
        /\ UNCHANGED <<thread, lockcomunicacao, device, local, remote, counters,
                       stranded, deleted>>

(* The default case, for a file packet nobody waits for; and the forwarding *)
(* loop, which drops every packet that is not the ACK it waits for.         *)
Drop ==
    /\ toServer # <<>>
    /\ \/ session.pc = "recv" /\ Head(toServer).op = "FILE"
       \/ session.pc = "forward"
    /\ toServer' = Tail(toServer)
    /\ UNCHANGED <<thread, lockcomunicacao, device, local, remote, session, toClient,
                   counters, stranded, deleted>>

Session == Serve \/ Remove \/ Store \/ Drop

(* Another device of the user, through a session of its own.                *)
Other(f) ==
    /\ others < MaxOther
    /\ others' = others + 1
    /\ \/ remote' = remote \cup {f} /\ deleted' = deleted \ {f}
       \/ remote' = remote \ {f} /\ UNCHANGED deleted
    /\ UNCHANGED <<thread, lockcomunicacao, device, local, session, toServer,
                   toClient, commands, stranded>>

-----------------------------------------------------------------------------
Device ==
    /\ ~exited
    /\ \/ \E t \in Threads : Lock(t) \/ Request(t)
       \/ \E op \in {"UPLOAD", "DOWNLOAD", "DELETE"}, f \in Files : Command(op, f)
       \/ \E op \in {"LIST", "CLOSE"} : Command(op, NoFile)
       \/ \E time \in {"short", "long"} : SetSyncTime(time)
       \/ \E t \in SyncThreads : Spawn(t) \/ Sync(t)
       \/ Exit

Next ==
    \/ Device
    \/ Session
    \/ \E f \in Files : Other(f)

Spec == Init /\ [][Next]_vars

(* Every thread that can go on does.  A thread that waits for the mutex     *)
(* gets it: when a synchronisation takes less than a long interval, the     *)
(* mutex is free from the end of one to the beginning of the next.          *)
Fairness ==
    /\ \A t \in Threads : WF_vars(~exited /\ Request(t))
    /\ \A t \in Threads : SF_vars(~exited /\ Lock(t))
    /\ \A t \in SyncThreads : WF_vars(~exited /\ Sync(t))
    /\ WF_vars(~exited /\ Exit)
    /\ WF_vars(Session)

FairSpec == Spec /\ Fairness

-----------------------------------------------------------------------------
(* Properties *)

TypeOK ==
    /\ \A t \in Threads : /\ thread[t].op \in Requests
                          /\ thread[t].f \in Files \cup {NoFile}
                          /\ thread[t].todo \subseteq Files
    /\ lockcomunicacao \in Threads \cup {"free"}
    /\ time_between_sync \in {"short", "long"}
    /\ local \subseteq Files /\ remote \subseteq Files
    /\ session.pc \in {"recv", "receive", "remove", "forward", "gone"}
    /\ Len(toServer) <= 1 /\ Len(toClient) <= 2

(* The session thread takes a request for file data, and acknowledges it    *)
(* without carrying it out, only after some transfer has stranded its       *)
(* receiver.                                                                *)
AckedIsServed ==
    \A k \in DOMAIN toClient :
        toClient[k].op = "ACK" /\ ~toClient[k].served => stranded

(* No thread takes a packet that answers another thread's request: whatever *)
(* is on its way belongs to the thread that holds the mutex.                *)
AnswersOwnRequest ==
    (toServer # <<>> \/ toClient # <<>>) =>
        \E t \in Threads : /\ lockcomunicacao = t
                           /\ thread[t].pc \in {"ack", "put", "putting", "get"}

(* A file the user has deleted is gone from the device and from the server  *)
(* until somebody uploads it again, although a synchronisation that listed  *)
(* it earlier may still be under way.  From the server's answer until the   *)
(* device's own deletion the mutex is held, and until the server's own the  *)
(* session takes no request; a synchronisation that then sends the file     *)
(* fails and strands the session.                                           *)
DeleteSticks ==
    \A f \in deleted :
        f \in local \cup remote =>
            \/ stranded
            \/ session \in [pc : {"receive", "remove"}, f : {f}]
            \/ thread["iface"] = [pc |-> "ack", op |-> "DELETE", f |-> f, todo |-> {}]

(* dropboxClient.c: main "throws a sync thread every 10 sec, if there isn't *)
(* one already".                                                            *)
OneSyncThread ==
    \A t, u \in SyncThreads :
        thread[t].pc # "none" /\ thread[u].pc # "none" => t = u

(* ... which is so with a long interval: from the start, and when a short   *)
(* one has been made long again, as soon as no synchronisation is left of   *)
(* that time.                                                               *)
OneSyncThreadUnhurried == ~hurried => OneSyncThread

(* The exit command ends the client, unless a transfer has stranded its     *)
(* receiver or the server is stuck forwarding an upload: then the mutex may *)
(* be held for ever.  Nor does it follow with a short interval, where the   *)
(* synchronisations may keep the mutex from the command.                    *)
ExitEnds ==
    (thread["iface"].op = "CLOSE" /\ thread["iface"].pc = "lock")
        ~> \/ exited \/ stranded
           \/ session.pc = "forward" \/ time_between_sync = "short"

=============================================================================
