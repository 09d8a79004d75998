------------------------------ MODULE Sessions ------------------------------
(***************************************************************************)
(* The server's client table and the threads that use it                   *)
(* (src/dropboxServer.c): the main thread takes packets from the main      *)
(* socket, finds or claims an entry of client_list for the user            *)
(* (identify_client), takes a free session slot of the entry and creates a *)
(* session thread for it (login); a session thread sets up or inherits the *)
(* slot's socket and serves requests until CLOSE (session_manager).  No    *)
(* lock protects client_list.  Each read or write of the table that        *)
(* another thread can interleave with is a step of its own.                *)
(*                                                                         *)
(* The module is open: any packet may reach the main socket and any        *)
(* request may reach a bound session socket at any time, which covers      *)
(* lost, duplicated, delayed and stray datagrams.                          *)
(***************************************************************************)
EXTENDS Integers

CONSTANTS
    Users,       \* user ids that clients put in a packet
    NoUser,      \* the empty user id: client_list is zero-initialised
    MAXCLIENTS,  \* entries of client_list
    MAIN_PORT,   \* port of the main socket
    Threads      \* session threads the process can have at the same time

ASSUME SessionsAssumption ==
    /\ MAXCLIENTS \in Nat
    /\ MAIN_PORT \in Nat
    /\ NoUser \notin Users

MAXSESSIONS == 2
ClientIds == 0 .. MAXCLIENTS - 1
SlotIds == 0 .. MAXSESSIONS - 1
Names == Users \cup {NoUser}

(* What the opcode of a packet can mean.  The main thread only asks whether *)
(* it is LOGIN.  To a session thread, as far as the table goes, a DELETE is *)
(* handled like an UPLOAD (own directory, then replication) and a LIST like *)
(* a DOWNLOAD (own directory); "OTHER" is an opcode without a case, LOGIN   *)
(* among them.                                                              *)
MainOps == {"LOGIN", "OTHER"}
Ops == {"UPLOAD", "DOWNLOAD", "CLOSE", "OTHER"}

VARIABLES
    user_id,         \* [ClientIds -> Names]
    session_active,  \* [ClientIds -> [SlotIds -> {0, 1}]]
    session_port,    \* [ClientIds -> [SlotIds -> Nat]]
    socket_set,      \* [ClientIds -> [SlotIds -> {0, 1}]]
    socket,          \* [ClientIds -> [SlotIds -> SocketStates]]
    boundPorts,      \* the UDP ports this process has bound
    main,            \* the main thread's locals in main, login, identify_client
    thread           \* [Threads -> the session thread's locals]

table == <<user_id, session_active, session_port, socket_set, socket>>
vars == <<user_id, session_active, session_port, socket_set, socket,
          boundPorts, main, thread>>

(* A socket descriptor: none yet, bound to its port, or left unbound by a *)
(* failed bind.                                                           *)
SocketStates == {"none", "bound", "unbound"}

MainStates == {"recv", "match", "scan", "check", "slots", "spawn", "ack", "nack"}
ThreadStates == {"none", "start", "bind", "publish", "recv", "path",
                 "transfer", "close", "replicate"}

MainLocals == [pc : MainStates, op : MainOps, user : Names,
               index : ClientIds \cup {-1}, i : 0 .. MAXCLIENTS,
               s : 0 .. MAXSESSIONS]
ThreadLocals == [pc : ThreadStates, c : ClientIds \cup {0}, s : SlotIds,
                 port : Nat, sock : SocketStates, op : Ops,
                 user : Names, dir : Names]

(* Not a thread: a member of the pool that pthread_create may hand out.   *)
NoThread == [pc |-> "none", c |-> 0, s |-> 0, port |-> 0, sock |-> "none",
             op |-> "OTHER", user |-> NoUser, dir |-> NoUser]

(* The main thread's locals while it waits for a packet: identify_client    *)
(* starts from index -1, every loop from 0.                                 *)
Idle == [pc |-> "recv", op |-> "OTHER", user |-> NoUser,
         index |-> -1, i |-> 0, s |-> 0]
Refused == [Idle EXCEPT !.pc = "nack"]

(* port = MAIN_PORT + (2*index) + i + 1, with the literal 2 of the code.   *)
Port_NoStride(c, s) == MAIN_PORT + c + s + 1
Port(c, s) == MAIN_PORT + (2 * c) + s + 1

Init ==
    /\ user_id = [c \in ClientIds |-> NoUser]
    /\ session_active = [c \in ClientIds |-> [s \in SlotIds |-> 0]]
    /\ session_port = [c \in ClientIds |-> [s \in SlotIds |-> 0]]
    /\ socket_set = [c \in ClientIds |-> [s \in SlotIds |-> 0]]
    /\ socket = [c \in ClientIds |-> [s \in SlotIds |-> "none"]]
    /\ boundPorts = {MAIN_PORT}
    /\ main = Idle
    /\ thread = [t \in Threads |-> NoThread]

-----------------------------------------------------------------------------
(* The main thread *)

(* recvfrom on the main socket; login copies the name out of the packet,   *)
(* whatever the opcode, before identify_client looks for it.               *)
MainRecv(op, user) ==
    /\ main.pc = "recv"
    /\ main' = [main EXCEPT !.pc = "match", !.op = op, !.user = user]
    /\ UNCHANGED <<table, boundPorts, thread>>

(* identify_client, first loop: the first entry with the user's name.  Only *)
(* the main thread writes user_id, so the loop is one step.                 *)
Match_Never ==
    /\ main.pc = "match"
    /\ main' = [main EXCEPT !.pc = "scan"]
    /\ UNCHANGED <<table, boundPorts, thread>>

Match ==
    /\ main.pc = "match"
    /\ \/ \E c \in ClientIds :
             /\ user_id[c] = main.user
             /\ \A d \in ClientIds : d < c => user_id[d] # main.user
             /\ main' = [main EXCEPT !.pc = "check", !.index = c]
       \/ /\ \A c \in ClientIds : user_id[c] # main.user
          /\ main' = [main EXCEPT !.pc = "scan"]
    /\ UNCHANGED <<table, boundPorts, thread>>

(* identify_client, second loop: inactive_client reads the flags of entry i *)
(* one by one while session threads may be clearing them.                   *)
Scan_FirstFlagOnly ==
    /\ main.pc = "scan"
    /\ \/ /\ main.i = MAXCLIENTS
          /\ main' = [main EXCEPT !.pc = "check"]
       \/ /\ main.i < MAXCLIENTS /\ main.s < MAXSESSIONS
          /\ session_active[main.i][0] = 1
          /\ main' = [main EXCEPT !.i = @ + 1, !.s = 0]
       \/ /\ main.i < MAXCLIENTS /\ main.s < MAXSESSIONS
          /\ session_active[main.i][0] # 1
          /\ main' = [main EXCEPT !.s = MAXSESSIONS]
    /\ UNCHANGED <<table, boundPorts, thread>>

Scan ==
    /\ main.pc = "scan"
    /\ \/ /\ main.i = MAXCLIENTS
          /\ main' = [main EXCEPT !.pc = "check"]
       \/ /\ main.i < MAXCLIENTS /\ main.s < MAXSESSIONS
          /\ session_active[main.i][main.s] = 1
          /\ main' = [main EXCEPT !.i = @ + 1, !.s = 0]
       \/ /\ main.i < MAXCLIENTS /\ main.s < MAXSESSIONS
          /\ session_active[main.i][main.s] # 1
          /\ main' = [main EXCEPT !.s = @ + 1]
    /\ UNCHANGED <<table, boundPorts, thread>>

Claim_NextEntry ==
    /\ main.pc = "scan" /\ main.i < MAXCLIENTS /\ main.s = MAXSESSIONS
    /\ user_id' = [user_id EXCEPT ![main.i] = main.user]
    /\ main' = [main EXCEPT !.pc = "check", !.index = main.i + 1]
    /\ UNCHANGED <<session_active, session_port, socket_set, socket,
                   boundPorts, thread>>

(* Every flag of entry i was read as 0: the entry is given to the user.     *)
Claim ==
    /\ main.pc = "scan" /\ main.i < MAXCLIENTS /\ main.s = MAXSESSIONS
    /\ user_id' = [user_id EXCEPT ![main.i] = main.user]
    /\ main' = [main EXCEPT !.pc = "check", !.index = main.i]
    /\ UNCHANGED <<session_active, session_port, socket_set, socket,
                   boundPorts, thread>>

(* login refuses a packet that is not a LOGIN, or a full table, but only    *)
(* after identify_client has run.  Locals that are not read again go back   *)
(* to their initial values here and below.                                  *)
Check ==
    /\ main.pc = "check"
    /\ main' = IF main.op # "LOGIN" \/ main.index = -1
               THEN Refused
               ELSE [main EXCEPT !.pc = "slots", !.op = "OTHER", !.i = 0, !.s = 0]
    /\ UNCHANGED <<table, boundPorts, thread>>

(* login's loop over the entry's slots: skip an active one.  After the last *)
(* the login is refused.                                                    *)
SkipSlot ==
    /\ main.pc = "slots"
    /\ \/ /\ main.s = MAXSESSIONS
          /\ main' = Refused
       \/ /\ main.s < MAXSESSIONS
          /\ session_active[main.index][main.s] # 0
          /\ main' = [main EXCEPT !.s = @ + 1]
    /\ UNCHANGED <<table, boundPorts, thread>>

(* ... and take the first one that is free.  Only the main thread sets a    *)
(* flag, so the test and the assignment are one step.                       *)
TakeSlot_Any ==
    /\ main.pc = "slots" /\ main.s < MAXSESSIONS
    /\ session_active' = [session_active EXCEPT ![main.index][main.s] = 1]
    /\ session_port' = [session_port EXCEPT
                          ![main.index][main.s] = Port(main.index, main.s)]
    /\ main' = [main EXCEPT !.pc = "spawn"]
    /\ UNCHANGED <<user_id, socket_set, socket, boundPorts, thread>>

TakeSlot ==
    /\ main.pc = "slots" /\ main.s < MAXSESSIONS
    /\ session_active[main.index][main.s] = 0
    /\ session_active' = [session_active EXCEPT ![main.index][main.s] = 1]
    /\ session_port' = [session_port EXCEPT
                          ![main.index][main.s] = Port(main.index, main.s)]
    /\ main' = [main EXCEPT !.pc = "spawn"]
    /\ UNCHANGED <<user_id, socket_set, socket, boundPorts, thread>>

(* pthread_create with the pair (index, i) on the heap.  Its result is not  *)
(* looked at: with no thread to be had the login goes on all the same.      *)
(* The field user records the login for the properties.                     *)
Spawn ==
    /\ main.pc = "spawn"
    /\ \/ \E t \in Threads :
             /\ thread[t].pc = "none"
             /\ thread' = [thread EXCEPT ![t] =
                             [NoThread EXCEPT !.pc = "start", !.c = main.index,
                                              !.s = main.s, !.user = main.user]]
       \/ /\ \A t \in Threads : thread[t].pc # "none"
          /\ UNCHANGED thread
    /\ main' = [main EXCEPT !.pc = "ack"]
    /\ UNCHANGED <<table, boundPorts>>

(* The reply, and for an accepted login the packet's replication; then the  *)
(* opcode is cleared and the loop goes on.                                  *)
Reply ==
    /\ main.pc \in {"ack", "nack"}
    /\ main' = Idle
    /\ UNCHANGED <<table, boundPorts, thread>>

MainStep ==
    \/ Match \/ Scan \/ Claim \/ Check
    \/ SkipSlot \/ TakeSlot \/ Spawn \/ Reply

-----------------------------------------------------------------------------
(* A session thread *)

(* The thread reads its port and whether its slot already has a socket.     *)
Start(t) ==
    LET c == thread[t].c
        s == thread[t].s
    IN  /\ thread[t].pc = "start"
        /\ thread' = [thread EXCEPT ![t] =
                        IF socket_set[c][s] = 0
                        THEN [@ EXCEPT !.port = session_port[c][s], !.pc = "bind"]
                        ELSE [@ EXCEPT !.port = session_port[c][s], !.pc = "recv",
                                       !.sock = socket[c][s]]]
        /\ UNCHANGED <<table, boundPorts, main>>

(* A new socket.  bind fails if this process holds the port, and may fail   *)
(* because another one does.                                                *)
Bind(t) ==
    /\ thread[t].pc = "bind"
    /\ \/ /\ thread[t].port \notin boundPorts
          /\ boundPorts' = boundPorts \cup {thread[t].port}
          /\ thread' = [thread EXCEPT ![t] =
                          [@ EXCEPT !.pc = "publish", !.sock = "bound"]]
       \/ /\ thread' = [thread EXCEPT ![t] =
                          [@ EXCEPT !.pc = "publish", !.sock = "unbound"]]
          /\ UNCHANGED boundPorts
    /\ UNCHANGED <<table, main>>

(* The socket is stored in the slot even when bind failed; in that case     *)
(* active is 0, the loop is not entered and the thread ends, leaving        *)
(* session_active as it was.                                                *)
Publish_FreesSlot(t) ==
    LET c == thread[t].c
        s == thread[t].s
    IN  /\ thread[t].pc = "publish"
        /\ socket_set' = [socket_set EXCEPT ![c][s] = 1]
        /\ socket' = [socket EXCEPT ![c][s] = thread[t].sock]
        /\ IF thread[t].sock = "bound"
           THEN /\ thread' = [thread EXCEPT ![t].pc = "recv"]
                /\ UNCHANGED session_active
           ELSE /\ thread' = [thread EXCEPT ![t] = NoThread]
                /\ session_active' = [session_active EXCEPT ![c][s] = 0]
        /\ UNCHANGED <<user_id, session_port, boundPorts, main>>

Publish(t) ==
    LET c == thread[t].c
        s == thread[t].s
    IN  /\ thread[t].pc = "publish"
        /\ socket_set' = [socket_set EXCEPT ![c][s] = 1]
        /\ socket' = [socket EXCEPT ![c][s] = thread[t].sock]
        /\ thread' = IF thread[t].sock = "bound"
                     THEN [thread EXCEPT ![t].pc = "recv"]
                     ELSE [thread EXCEPT ![t] = NoThread]
        /\ UNCHANGED <<user_id, session_active, session_port, boundPorts, main>>

(* recvfrom on the session socket and the switch on the opcode, with the    *)
(* ACK that CLOSE, UPLOAD, DOWNLOAD and DELETE get before they are carried  *)
(* out.  An opcode without a case is only reported.                         *)
Receive(t, op) ==
    /\ thread[t].pc = "recv"
    /\ thread[t].sock = "bound"
    /\ thread' = [thread EXCEPT ![t] =
                    [@ EXCEPT !.op = op, !.pc = CASE op = "CLOSE" -> "close"
                                                  [] op = "OTHER" -> "recv"
                                                  [] OTHER -> "path"]]
    /\ UNCHANGED <<table, boundPorts, main>>

(* The handler builds its path from client_list[c_id].user_id as it is now. *)
BuildPath(t) ==
    /\ thread[t].pc = "path"
    /\ thread' = [thread EXCEPT ![t] =
                    [@ EXCEPT !.dir = user_id[thread[t].c], !.pc = "transfer"]]
    /\ UNCHANGED <<table, boundPorts, main>>

(* The handler returns, if it ever does; an UPLOAD or DELETE is replicated. *)
(* The opcode is forgotten as soon as nothing depends on it any more.       *)
EndTransfer(t) ==
    /\ thread[t].pc = "transfer"
    /\ thread' = [thread EXCEPT ![t] =
                    IF thread[t].op = "UPLOAD"
                    THEN [@ EXCEPT !.dir = NoUser, !.pc = "replicate"]
                    ELSE [@ EXCEPT !.dir = NoUser, !.pc = "recv", !.op = "OTHER"]]
    /\ UNCHANGED <<table, boundPorts, main>>

(* CLOSE frees the slot first and replicates afterwards: from here on the   *)
(* main thread may give the slot, and the entry, to somebody else.          *)
Close(t) ==
    /\ thread[t].pc = "close"
    /\ session_active' = [session_active EXCEPT ![thread[t].c][thread[t].s] = 0]
    /\ thread' = [thread EXCEPT ![t].pc = "replicate"]
    /\ UNCHANGED <<user_id, session_port, socket_set, socket, boundPorts, main>>

(* replication(request) does not touch the table.  After CLOSE it is        *)
(* followed by pthread_exit, otherwise by break and the next recvfrom.      *)
Replicate_NoExit(t) ==
    /\ thread[t].pc = "replicate"
    /\ thread' = [thread EXCEPT ![t] = [@ EXCEPT !.pc = "recv", !.op = "OTHER"]]
    /\ UNCHANGED <<table, boundPorts, main>>

Replicate(t) ==
    /\ thread[t].pc = "replicate"
    /\ thread' = IF thread[t].op = "CLOSE"
                 THEN [thread EXCEPT ![t] = NoThread]
                 ELSE [thread EXCEPT ![t] = [@ EXCEPT !.pc = "recv", !.op = "OTHER"]]
    /\ UNCHANGED <<table, boundPorts, main>>

ThreadStep(t) ==
    \/ Start(t) \/ Bind(t) \/ Publish(t) \/ BuildPath(t)
    \/ EndTransfer(t) \/ Close(t) \/ Replicate(t)

-----------------------------------------------------------------------------
Next ==
    \/ \E op \in MainOps, user \in Names : MainRecv(op, user)
    \/ MainStep
    \/ \E t \in Threads, op \in Ops : Receive(t, op)
    \/ \E t \in Threads : ThreadStep(t)

Spec == Init /\ [][Next]_vars

-----------------------------------------------------------------------------
(* Properties *)

(* The variables have the shapes of the structures of dropboxServer.c.      *)
TypeOK ==
    /\ user_id \in [ClientIds -> Names]
    /\ session_active \in [ClientIds -> [SlotIds -> {0, 1}]]
    /\ session_port \in [ClientIds -> [SlotIds -> Nat]]
    /\ socket_set \in [ClientIds -> [SlotIds -> {0, 1}]]
    /\ socket \in [ClientIds -> [SlotIds -> SocketStates]]
    /\ boundPorts \subseteq Nat
    /\ main \in MainLocals
    /\ thread \in [Threads -> ThreadLocals]

(* A thread owns its slot from its creation until CLOSE clears the flag.    *)
Owns(t) ==
    /\ thread[t].pc # "none"
    /\ ~(thread[t].pc = "replicate" /\ thread[t].op = "CLOSE")

(* A request is carried out in the directory of the user who logged in to   *)
(* that session, although the path is built from a table entry that the     *)
(* main thread reassigns without a lock.                                    *)
OwnDirectory ==
    \A t \in Threads : thread[t].pc = "transfer" => thread[t].dir = thread[t].user

(* No user has two entries: all sessions of a user count against the same   *)
(* MAXSESSIONS.                                                             *)
UniqueEntries ==
    \A c, d \in ClientIds : user_id[c] \in Users /\ user_id[c] = user_id[d] => c = d

(* No two threads that still own a slot take requests from the same port,   *)
(* so a request has one handler.                                            *)
OneReceiverPerPort ==
    \A t, u \in Threads :
        /\ t # u /\ Owns(t) /\ Owns(u)
        /\ thread[t].pc # "start" /\ thread[u].pc # "start"
        => thread[t].port # thread[u].port

(* A thread that inherits the socket of its slot, or goes on after setting  *)
(* one up, always has a bound one: no session is announced to a client and  *)
(* then waits on a socket that can receive nothing.                         *)
ServesBoundSocket ==
    \A t \in Threads : thread[t].pc = "recv" => thread[t].sock = "bound"

(* A new session never asks for a port that this process already holds: a   *)
(* slot reuses its own socket, and no two slots share a port.  A bind fails *)
(* only because of another process.                                         *)
BindsFreshPort ==
    \A t \in Threads : thread[t].pc = "bind" => thread[t].port \notin boundPorts

(* A slot that is taken while no thread serves it or is about to.           *)
Leaked(c, s) ==
    /\ session_active[c][s] = 1
    /\ \A t \in Threads : ~(Owns(t) /\ thread[t].c = c /\ thread[t].s = s)
    /\ ~(main.pc = "spawn" /\ main.index = c /\ main.s = s)

(* Nothing recovers a leaked slot (left by a failed bind or a failed        *)
(* pthread_create): once leaked, it is lost until the server restarts.      *)
LeakIsPermanent ==
    [][\A c \in ClientIds, s \in SlotIds : Leaked(c, s) => Leaked(c, s)']_vars

(* An entry changes its user only when none of its sessions is active, even *)
(* though identify_client reads the flags one at a time and without a lock. *)
ReassignedOnlyWhenIdle ==
    [][\A c \in ClientIds : user_id'[c] # user_id[c]
         => \A s \in SlotIds : session_active[c][s] = 0]_vars

=============================================================================
