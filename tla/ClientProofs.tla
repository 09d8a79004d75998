---------------------------- MODULE ClientProofs ----------------------------
(***************************************************************************)
(* Proofs about Client, for any files, any number of synchronisation       *)
(* threads and any number of commands.  IInv is inductive; the five        *)
(* invariants of Client follow from it.                                    *)
(***************************************************************************)
EXTENDS Client, TLAPS

Pcs == {"none", "idle", "done", "new", "uploads", "downloads", "lock", "send",
        "ack", "put", "putting", "get", "unlock"}
Holding == {"send", "ack", "put", "putting", "get", "unlock"}
FileRequests == {"UPLOAD", "DOWNLOAD", "DELETE"}

ThreadRecords == [pc : Pcs, op : Requests, f : Files \cup {NoFile}, todo : SUBSET Files]

ThreadInv ==
    /\ thread \in [Threads -> ThreadRecords]
    /\ \A t \in Threads : thread[t].op \in FileRequests => thread[t].f \in Files
    /\ \A t \in SyncThreads : thread[t].op \notin {"DELETE", "CLOSE"}
    /\ thread["iface"].todo # {} =>
         thread["iface"].pc = "unlock" /\ thread["iface"].op = "LIST"

DataInv ==
    /\ local \subseteq Files /\ remote \subseteq Files
    /\ session \in [pc : {"recv", "receive", "remove", "forward", "gone"},
                    f : Files \cup {NoFile}]

(* Whoever is between lock and unlock holds the mutex.                      *)
MutexInv ==
    /\ lockcomunicacao \in Threads \cup {"free"}
    /\ \A t \in Threads : thread[t].pc \in Holding => lockcomunicacao = t
    /\ lockcomunicacao # "free" => thread[lockcomunicacao].pc \in Holding

Quiet == toServer = <<>> /\ toClient = <<>>

(* What can be on its way while thread t is where it is.                    *)
Acked(t) ==
    \E l \in SUBSET Files, v \in BOOLEAN :
        \/ toClient = <<AckOf(l, v)>>
        \/ thread[t].op = "DOWNLOAD" /\ toClient = <<AckOf(l, v), FileOf("FILE")>>

TrafficOf(t) ==
    /\ thread[t].pc \in {"send", "put", "unlock"} => Quiet
    /\ thread[t].pc = "ack" =>
         \/ Quiet
         \/ /\ toServer = <<[op |-> thread[t].op, f |-> thread[t].f]>>
            /\ toClient = <<>>
         \/ toServer = <<>> /\ Acked(t)
    /\ thread[t].pc = "putting" =>
         \/ Quiet
         \/ toServer = <<[op |-> "FILE", f |-> thread[t].f]>> /\ toClient = <<>>
         \/ toServer = <<>> /\ toClient = <<FileOf("DONE")>>
    /\ thread[t].pc = "get" =>
         toServer = <<>> /\ toClient \in {<<>>, <<FileOf("FILE")>>}

TrafficInv ==
    /\ lockcomunicacao = "free" => Quiet
    /\ \A t \in Threads : TrafficOf(t)

(* The session thread waits for the file that the holder of the mutex is    *)
(* about to send, unless a transfer has stranded it.                        *)
UploadInv ==
    session.pc = "receive" /\ ~stranded =>
        \E t \in Threads :
            /\ thread[t].op = "UPLOAD" /\ thread[t].f = session.f
            /\ \/ thread[t].pc = "ack" /\ toServer = <<>>
               \/ thread[t].pc = "put"
               \/ thread[t].pc = "putting" /\ toServer # <<>>

SyncInv ==
    /\ time_between_sync \in {"short", "long"}
    /\ ~hurried =>
         /\ time_between_sync = "long" /\ OneSyncThread
         /\ \A t \in SyncThreads : thread[t].pc \notin {"none", "new"} => is_syncing

(* Nobody is about to bring a deleted file back.                            *)
Gone(f) ==
    /\ f \in local =>
         thread["iface"] = [pc |-> "ack", op |-> "DELETE", f |-> f, todo |-> {}]
    /\ f \in remote => session \in [pc : {"receive", "remove"}, f : {f}]
    /\ thread["iface"].op = "UPLOAD" => thread["iface"].f # f
    /\ \A t \in SyncThreads :
         \/ thread[t].pc = "putting"
         \/ thread[t].pc = "ack" /\ thread[t].op = "DOWNLOAD" /\ toClient # <<>>
         => thread[t].f # f

DeleteInv == ~stranded => \A f \in deleted : Gone(f)

IInv ==
    /\ ThreadInv /\ DataInv /\ MutexInv /\ TrafficInv
    /\ UploadInv /\ AckedIsServed /\ SyncInv /\ DeleteInv

-----------------------------------------------------------------------------
(* Steps of one thread *)

(* Thread t moves and no other does.                                        *)
Moves(t) ==
    /\ thread' \in [Threads -> ThreadRecords]
    /\ \A u \in Threads \ {t} : thread'[u] = thread[u]

(* A thread that does not hold the mutex, before or after, disturbs none of *)
(* what its holder relies on.                                               *)
LEMMA ApartStep ==
  ASSUME IInv, NEW t \in Threads, Moves(t),
         thread[t].pc \notin Holding, thread'[t].pc \notin Holding,
         thread'[t].op \in FileRequests => thread'[t].f \in Files,
         IF t = "iface" THEN thread'[t].todo = {}
         ELSE thread'[t].op \notin {"DELETE", "CLOSE"},
         UNCHANGED <<lockcomunicacao, local, remote, session, toServer, toClient, stranded>>,
         deleted' \subseteq deleted,
         t = "iface" /\ thread'[t].op = "UPLOAD" => thread'[t].f \notin deleted'
  PROVE  /\ ThreadInv' /\ DataInv' /\ MutexInv' /\ TrafficInv'
         /\ UploadInv' /\ AckedIsServed' /\ DeleteInv'
<1>0. /\ "iface" \in Threads /\ SyncThreads = Threads \ {"iface"}
      /\ "free" \notin Threads
  BY ClientAssumption DEF Threads
<1>1. ThreadInv' /\ DataInv'
  BY <1>0 DEF IInv, ThreadInv, DataInv, Moves
<1>2. MutexInv'
  BY <1>0 DEF IInv, MutexInv, Moves
<1>3. ASSUME NEW u \in Threads, thread'[u].pc \in Holding
      PROVE  thread'[u] = thread[u]
  BY <1>3 DEF Moves
<1>4. TrafficInv'
  <2>1. Quiet' <=> Quiet
    BY DEF Quiet
  <2>2. ASSUME NEW u \in Threads, thread'[u] = thread[u]
        PROVE  Acked(u)' <=> Acked(u)
    BY <2>2 DEF Acked
  <2> QED
    BY <1>3, <2>1, <2>2 DEF IInv, TrafficInv, TrafficOf, Holding
<1>5. UploadInv'
  <2>1. ASSUME NEW u \in Threads, thread[u].pc \in Holding
        PROVE  thread'[u] = thread[u]
    BY <2>1 DEF Moves
  <2> QED
    BY <2>1 DEF IInv, UploadInv, Holding
<1>6. AckedIsServed'
  BY DEF IInv, AckedIsServed
<1>7. DeleteInv'
  <2> SUFFICES ASSUME ~stranded, NEW f \in deleted, f \in deleted', Gone(f)
               PROVE  Gone(f)'
    BY DEF IInv, DeleteInv
  <2>1. f \in local => t # "iface"
    BY DEF Gone, Holding
  <2> QED
    BY <1>0, <1>3, <2>1 DEF Gone, Moves, Holding
<1> QED
  BY <1>1, <1>2, <1>4, <1>5, <1>6, <1>7

(* A synchronisation that is under way stays so.                            *)
LEMMA BusySync ==
  ASSUME IInv, NEW t \in Threads, Moves(t),
         t \in SyncThreads => /\ thread[t].pc \notin {"none", "new"}
                             /\ thread'[t].pc \notin {"none", "new"},
         UNCHANGED <<is_syncing, interval>>
  PROVE  SyncInv'
<1>1. \A u \in SyncThreads : u \in Threads
  BY DEF Threads
<1> QED
  BY <1>1 DEF IInv, SyncInv, OneSyncThread, Moves, interval

(* The interface thread between two requests.                               *)
LEMMA CommandStep ==
  ASSUME IInv, NEW op \in {"UPLOAD", "DOWNLOAD", "DELETE", "LIST", "CLOSE"},
         NEW f \in Files \cup {NoFile}, op \in FileRequests => f \in Files,
         Command(op, f)
  PROVE  IInv'
<1>0. "iface" \in Threads /\ "iface" \notin SyncThreads
  BY ClientAssumption DEF Threads
<1>1. /\ thread["iface"] \in ThreadRecords /\ thread["iface"].pc = "idle"
      /\ thread["iface"].todo = {}
  BY <1>0 DEF IInv, ThreadInv, Command
<1>2. /\ thread'["iface"] = [pc |-> "lock", op |-> op, f |-> f, todo |-> {}]
      /\ Moves("iface")
  BY <1>0, <1>1 DEF Command, Moves, IInv, ThreadInv, ThreadRecords, Pcs, Requests
<1>3. /\ ThreadInv' /\ DataInv' /\ MutexInv' /\ TrafficInv'
      /\ UploadInv' /\ AckedIsServed' /\ DeleteInv'
  <2>1. deleted' \subseteq deleted /\ (op = "UPLOAD" => f \notin deleted')
    BY DEF Command
  <2> QED
    BY <1>0, <1>1, <1>2, <2>1, ApartStep DEF Command, Holding
<1>4. SyncInv'
  BY <1>0, <1>2, BusySync DEF Command, device
<1> QED
  BY <1>3, <1>4 DEF IInv

LEMMA SetSyncTimeStep ==
  ASSUME IInv, NEW time \in {"short", "long"}, SetSyncTime(time)
  PROVE  IInv'
<1>0. "iface" \in Threads /\ "iface" \notin SyncThreads
  BY ClientAssumption DEF Threads
<1>1. /\ Moves("iface") /\ thread' = thread
      /\ thread["iface"].pc = "idle" /\ thread["iface"].todo = {}
  BY <1>0 DEF SetSyncTime, Moves, IInv, ThreadInv
<1>2. /\ ThreadInv' /\ DataInv' /\ MutexInv' /\ TrafficInv'
      /\ UploadInv' /\ AckedIsServed' /\ DeleteInv'
  <2>1. \A u \in Threads : thread[u].op \in FileRequests => thread[u].f \in Files
    BY DEF IInv, ThreadInv
  <2> QED
    BY <1>0, <1>1, <2>1 DEF SetSyncTime, IInv, ThreadInv, DataInv, MutexInv, TrafficInv,
          TrafficOf, Quiet, Acked, UploadInv, AckedIsServed, DeleteInv, Gone
<1>3. SyncInv'
  <2> SUFFICES ASSUME ~hurried'
               PROVE  /\ time_between_sync' = "long" /\ OneSyncThread'
                      /\ \A t \in SyncThreads :
                           thread'[t].pc \notin {"none", "new"} => is_syncing'
    BY DEF SyncInv, SetSyncTime
  <2>1. time_between_sync' = "long"
    BY DEF SetSyncTime, StillHurried
  <2>2. CASE hurried
    <3>1. \A t \in SyncThreads : thread[t].pc = "none"
      BY <2>2 DEF SetSyncTime, StillHurried
    <3> QED
      BY <1>1, <2>1, <3>1 DEF OneSyncThread
  <2>3. CASE ~hurried
    BY <1>1, <2>1, <2>3 DEF SetSyncTime, IInv, SyncInv, OneSyncThread
  <2> QED
    BY <2>2, <2>3
<1> QED
  BY <1>2, <1>3 DEF IInv

(* A new synchronisation.                                                   *)
LEMMA SpawnStep ==
  ASSUME IInv, NEW t \in SyncThreads, Spawn(t)
  PROVE  IInv'
<1>0. t \in Threads /\ t # "iface" /\ SyncThreads \subseteq Threads
  BY ClientAssumption DEF Threads
<1>1. /\ thread[t] \in ThreadRecords /\ thread[t].pc = "none"
      /\ thread[t].op \notin {"DELETE", "CLOSE"}
      /\ thread[t].op \in FileRequests => thread[t].f \in Files
  BY <1>0 DEF IInv, ThreadInv, Spawn
<1>2. /\ thread'[t].pc = "new" /\ thread'[t].op = thread[t].op
      /\ thread'[t].f = thread[t].f /\ Moves(t)
  BY <1>0, <1>1 DEF Spawn, Moves, IInv, ThreadInv, ThreadRecords, Pcs
<1>3. /\ ThreadInv' /\ DataInv' /\ MutexInv' /\ TrafficInv'
      /\ UploadInv' /\ AckedIsServed' /\ DeleteInv'
  BY <1>0, <1>1, <1>2, ApartStep DEF Spawn, Holding
<1>4. SyncInv'
  BY <1>0, <1>2 DEF Spawn, IInv, SyncInv, OneSyncThread, Moves, device, interval
<1> QED
  BY <1>3, <1>4 DEF IInv

(* A synchronisation between two requests.                                  *)
LEMMA SyncStep ==
  ASSUME IInv, NEW t \in SyncThreads, Sync(t)
  PROVE  IInv'
<1>0. t \in Threads /\ t # "iface" /\ SyncThreads \subseteq Threads
  BY ClientAssumption DEF Threads
<1>1. /\ thread \in [Threads -> ThreadRecords] /\ thread[t] \in ThreadRecords
      /\ local \subseteq Files
      /\ thread[t].op \notin {"DELETE", "CLOSE"}
      /\ thread[t].op \in FileRequests => thread[t].f \in Files
  BY <1>0 DEF IInv, ThreadInv, DataInv
<1>2. /\ Moves(t)
      /\ thread[t].pc \in {"new", "uploads", "downloads"}
      /\ thread'[t].pc \in {"uploads", "lock", "none"}
      /\ thread'[t].op \in FileRequests => thread'[t].f \in Files
      /\ thread'[t].op \notin {"DELETE", "CLOSE"}
  <2>1. CASE BeginSync(t)
    BY <1>0, <1>1, <2>1 DEF BeginSync, Moves, ThreadRecords, Pcs
  <2>2. CASE NextUpload(t)
    <3>1. CASE thread[t].todo = {}
      <4>1. thread' = [thread EXCEPT ![t] =
                         [thread[t] EXCEPT !.pc = "lock", !.op = "LIST"]]
        BY <2>2, <3>1 DEF NextUpload
      <4>2. [thread[t] EXCEPT !.pc = "lock", !.op = "LIST"] \in ThreadRecords
        BY <1>1 DEF ThreadRecords, Pcs, Requests
      <4>3. Moves(t)
        BY <1>0, <1>1, <4>1, <4>2 DEF Moves
      <4>4. thread'[t] = [thread[t] EXCEPT !.pc = "lock", !.op = "LIST"]
        BY <1>0, <1>1, <4>1
      <4>5. thread'[t].pc = "lock" /\ thread'[t].op = "LIST"
        BY <1>1, <4>4 DEF ThreadRecords
      <4> QED
        BY <2>2, <4>3, <4>5 DEF NextUpload, FileRequests
    <3>2. ASSUME NEW f \in thread[t].todo,
                 thread' = [thread EXCEPT ![t] =
                              [pc |-> "lock", op |-> "UPLOAD", f |-> f,
                               todo |-> thread[t].todo \ {f}]]
          PROVE  /\ Moves(t) /\ thread'[t].pc = "lock"
                 /\ thread'[t].op = "UPLOAD" /\ thread'[t].f \in Files
      BY <1>0, <1>1, <3>2 DEF Moves, ThreadRecords, Pcs, Requests
    <3> QED
      BY <2>2, <3>1, <3>2 DEF NextUpload
  <2>3. CASE NextDownload(t)
    BY <1>0, <1>1, <2>3 DEF NextDownload, Moves, ThreadRecords, Pcs, Requests
  <2>4. CASE EndSync(t)
    BY <1>0, <1>1, <2>4
       DEF EndSync, Moves, NotRunning, ThreadRecords, Pcs, Requests, FileRequests
  <2> QED
    BY <2>1, <2>2, <2>3, <2>4 DEF Sync
<1>3. /\ ThreadInv' /\ DataInv' /\ MutexInv' /\ TrafficInv'
      /\ UploadInv' /\ AckedIsServed' /\ DeleteInv'
  <2>1. UNCHANGED <<lockcomunicacao, local, remote, session, toServer, toClient,
                    stranded, deleted>>
    BY DEF Sync, BeginSync, NextUpload, NextDownload, EndSync
  <2> QED
    BY <1>0, <1>2, <2>1, ApartStep DEF Holding
<1>4. SyncInv'
  <2>1. CASE BeginSync(t)
    BY <1>0, <1>1, <2>1 DEF BeginSync, IInv, SyncInv, OneSyncThread, interval
  <2>2. CASE NextUpload(t) \/ NextDownload(t)
    <3>1. thread[t].pc \in {"uploads", "downloads"}
      BY <2>2 DEF NextUpload, NextDownload
    <3>2. thread'[t].pc = "lock"
      <4>1. CASE NextUpload(t)
        <5>1. CASE thread' = [thread EXCEPT ![t] = [@ EXCEPT !.pc = "lock", !.op = "LIST"]]
          BY <1>0, <1>1, <5>1 DEF ThreadRecords
        <5>2. ASSUME NEW f \in thread[t].todo,
                     thread' = [thread EXCEPT ![t] =
                                  [pc |-> "lock", op |-> "UPLOAD", f |-> f,
                                   todo |-> thread[t].todo \ {f}]]
              PROVE  thread'[t].pc = "lock"
          BY <1>0, <1>1, <5>2
        <5> QED
          BY <4>1, <5>1, <5>2 DEF NextUpload
      <4>2. CASE NextDownload(t)
        BY <1>0, <1>1, <4>2 DEF NextDownload, ThreadRecords
      <4> QED
        BY <2>2, <4>1, <4>2
    <3> QED
      BY <1>0, <1>2, <2>2, <3>1, <3>2, BusySync DEF NextUpload, NextDownload, device
  <2>3. CASE EndSync(t)
    <3>1. thread'[t].pc = "none" /\ thread[t].pc = "downloads"
      BY <1>0, <1>1, <2>3 DEF EndSync, NotRunning
    <3>2. \A u \in SyncThreads : ~hurried' => thread'[u].pc = "none"
      BY <1>0, <1>2, <2>3, <3>1
         DEF EndSync, StillHurried, IInv, SyncInv, OneSyncThread, Moves
    <3>3. /\ time_between_sync' \in {"short", "long"}
          /\ ~hurried' => time_between_sync' = "long"
      BY <2>3 DEF EndSync, StillHurried, IInv, SyncInv
    <3> QED
      BY <3>2, <3>3 DEF SyncInv, OneSyncThread
  <2> QED
    BY <2>1, <2>2, <2>3 DEF Sync
<1> QED
  BY <1>3, <1>4 DEF IInv

-----------------------------------------------------------------------------
(* Steps of the thread whose turn it is *)

LEMMA Short ==
  /\ \A x : /\ <<x>> # <<>> /\ Head(<<x>>) = x /\ Tail(<<x>>) = <<>>
            /\ Len(<<x>>) = 1 /\ Append(<<>>, x) = <<x>>
  /\ \A x, y : /\ <<x, y>> # <<>> /\ Head(<<x, y>>) = x /\ Tail(<<x, y>>) = <<y>>
               /\ Len(<<x, y>>) = 2 /\ <<>> \o <<x, y>> = <<x, y>>
  OBVIOUS

(* A step of the thread that has the mutex, takes it or gives it back.      *)
LEMMA TurnStep ==
  ASSUME IInv, NEW t \in Threads, lockcomunicacao \in {"free", t}, Moves(t),
         IF thread'[t].pc \in Holding THEN lockcomunicacao' = t
         ELSE lockcomunicacao' = "free" /\ Quiet',
         thread'[t].op \in FileRequests => thread'[t].f \in Files,
         t # "iface" => thread'[t].op \notin {"DELETE", "CLOSE"},
         t = "iface" /\ thread'[t].todo # {} =>
             thread'[t].pc = "unlock" /\ thread'[t].op = "LIST",
         TrafficOf(t)'
  PROVE  /\ ThreadInv' /\ MutexInv' /\ TrafficInv'
         /\ \A u \in Threads \ {t} : thread[u].pc \notin Holding
<1>0. /\ "iface" \in Threads /\ SyncThreads = Threads \ {"iface"}
      /\ "free" \notin Threads
  BY ClientAssumption DEF Threads
<1>1. \A u \in Threads \ {t} : thread[u].pc \notin Holding
  BY <1>0 DEF IInv, MutexInv
<1>2. ThreadInv'
  BY <1>0 DEF IInv, ThreadInv, Moves
<1>3. MutexInv'
  BY <1>0, <1>1 DEF MutexInv, Moves
<1>4. TrafficInv'
  <2>1. ASSUME NEW u \in Threads \ {t}
        PROVE  TrafficOf(u)'
    BY <1>1, <2>1 DEF Moves, TrafficOf, Holding
  <2>2. lockcomunicacao' = "free" => Quiet'
    BY <1>0
  <2> QED
    BY <2>1, <2>2 DEF TrafficInv
<1> QED
  BY <1>1, <1>2, <1>3, <1>4

LEMMA LockStep ==
  ASSUME IInv, NEW t \in Threads, Lock(t)
  PROVE  IInv'
<1>0. /\ thread \in [Threads -> ThreadRecords] /\ thread[t] \in ThreadRecords
      /\ thread[t].op \in FileRequests => thread[t].f \in Files
      /\ t # "iface" => thread[t].op \notin {"DELETE", "CLOSE"}
      /\ t = "iface" => thread[t].todo = {}
  BY DEF IInv, ThreadInv, Threads, Lock
<1>1. /\ Moves(t) /\ thread'[t].pc \in {"send", "unlock"}
      /\ thread'[t].op = thread[t].op /\ thread'[t].f = thread[t].f
      /\ thread'[t].todo = thread[t].todo
  BY <1>0 DEF Lock, Moves, ThreadRecords, Pcs
<1>2. Quiet /\ Quiet' /\ lockcomunicacao = "free" /\ lockcomunicacao' = t
  BY DEF IInv, TrafficInv, Lock, Quiet
<1>3. TrafficOf(t)'
  BY <1>1, <1>2 DEF TrafficOf
<1>4. /\ ThreadInv' /\ MutexInv' /\ TrafficInv'
      /\ \A u \in Threads : thread[u].pc \notin Holding
  <2>1. thread[t].pc \notin Holding
    BY DEF Lock, Holding
  <2> QED
    BY <1>0, <1>1, <1>2, <1>3, <2>1, TurnStep DEF Holding
<1>5. DataInv' /\ AckedIsServed'
  BY DEF Lock, IInv, DataInv, AckedIsServed
<1>6. UploadInv'
  BY <1>4 DEF Lock, IInv, UploadInv, Holding
<1>7. SyncInv'
  BY <1>1, BusySync DEF Lock, device
<1>8. DeleteInv'
  <2> SUFFICES ASSUME ~stranded, NEW f \in deleted, Gone(f)
               PROVE  Gone(f)'
    BY DEF Lock, IInv, DeleteInv
  <2>0. "iface" \in Threads /\ SyncThreads \subseteq Threads
    BY DEF Threads
  <2>1. f \notin local
    BY <1>4, <2>0 DEF Gone, Holding
  <2> QED
    BY <1>1, <2>0, <2>1 DEF Lock, Gone, Moves
<1> QED
  BY <1>4, <1>5, <1>6, <1>7, <1>8 DEF IInv

LEMMA SendStep ==
  ASSUME IInv, NEW t \in Threads, Send(t)
  PROVE  IInv'
<1>0. /\ thread \in [Threads -> ThreadRecords] /\ thread[t] \in ThreadRecords
      /\ thread[t].op \in FileRequests => thread[t].f \in Files
      /\ t # "iface" => thread[t].op \notin {"DELETE", "CLOSE"}
      /\ t = "iface" => thread[t].todo = {}
  BY DEF IInv, ThreadInv, Threads, Send
<1>1. /\ Moves(t) /\ thread'[t].pc = "ack"
      /\ thread'[t].op = thread[t].op /\ thread'[t].f = thread[t].f
      /\ thread'[t].todo = thread[t].todo
  BY <1>0 DEF Send, Moves, ThreadRecords, Pcs
<1>2. Quiet /\ lockcomunicacao = t /\ lockcomunicacao' = t
  BY DEF IInv, TrafficInv, TrafficOf, MutexInv, Send, Holding
<1>3. /\ toServer' = <<[op |-> thread[t].op, f |-> thread[t].f]>>
      /\ toClient' = <<>>
  BY <1>2, Short DEF Send, Quiet
<1>4. /\ ThreadInv' /\ MutexInv' /\ TrafficInv'
      /\ \A u \in Threads \ {t} : thread[u].pc \notin Holding
  <2>1. TrafficOf(t)'
    BY <1>1, <1>3 DEF TrafficOf
  <2> QED
    BY <1>0, <1>1, <1>2, <2>1, TurnStep DEF Holding
<1>5. DataInv' /\ AckedIsServed'
  BY DEF Send, IInv, DataInv, AckedIsServed
<1>6. UploadInv'
  BY <1>4 DEF Send, IInv, UploadInv, Holding
<1>7. SyncInv'
  BY <1>1, BusySync DEF Send, device
<1>8. DeleteInv'
  <2> SUFFICES ASSUME ~stranded, NEW f \in deleted, Gone(f)
               PROVE  Gone(f)'
    BY DEF Send, IInv, DeleteInv
  <2>0. "iface" \in Threads /\ SyncThreads \subseteq Threads
    BY DEF Threads
  <2>1. f \notin local
    BY <1>4, <2>0 DEF Gone, Holding, Send
  <2> QED
    BY <1>1, <1>3, <2>0, <2>1 DEF Send, Gone, Moves
<1> QED
  BY <1>4, <1>5, <1>6, <1>7, <1>8 DEF IInv

(* What a thread that waits for an ACK finds.                               *)
LEMMA AckFound ==
  ASSUME IInv, NEW t \in Threads, thread[t].pc = "ack",
         toClient # <<>>, Head(toClient).op = "ACK"
  PROVE  /\ toServer = <<>> /\ Head(toClient).list \in SUBSET Files
         /\ Tail(toClient) \in {<<>>, <<FileOf("FILE")>>}
         /\ thread[t].op # "DOWNLOAD" => Tail(toClient) = <<>>
<1>1. toServer = <<>> /\ Acked(t)
  BY DEF IInv, TrafficInv, TrafficOf, Quiet
<1>2. PICK l \in SUBSET Files, v \in BOOLEAN :
        \/ toClient = <<AckOf(l, v)>>
        \/ thread[t].op = "DOWNLOAD" /\ toClient = <<AckOf(l, v), FileOf("FILE")>>
  BY <1>1 DEF Acked
<1>3. Head(toClient) = AckOf(l, v)
  BY <1>2, Short
<1>4. Head(toClient).list = l
  BY <1>3 DEF AckOf
<1>5. CASE toClient = <<AckOf(l, v)>>
  BY <1>1, <1>4, <1>5, Short
<1>6. CASE thread[t].op = "DOWNLOAD" /\ toClient = <<AckOf(l, v), FileOf("FILE")>>
  <2>1. Tail(toClient) = <<FileOf("FILE")>>
    BY <1>6, Short
  <2> QED
    BY <1>1, <1>4, <1>6, <2>1
<1> QED
  BY <1>2, <1>5, <1>6

LEMMA TakeAckStep ==
  ASSUME IInv, NEW t \in Threads, TakeAck(t)
  PROVE  IInv'
<1> DEFINE op == thread[t].op
           f == thread[t].f
           list == Head(toClient).list
<1>0. /\ thread \in [Threads -> ThreadRecords] /\ thread[t] \in ThreadRecords
      /\ op \in FileRequests => f \in Files
      /\ t # "iface" => op \notin {"DELETE", "CLOSE"}
      /\ t = "iface" => thread[t].todo = {}
      /\ t # "iface" <=> t \in SyncThreads
  BY ClientAssumption DEF IInv, ThreadInv, Threads, TakeAck
<1>1. /\ toServer = <<>> /\ list \in SUBSET Files /\ thread[t].pc = "ack"
      /\ toClient' \in {<<>>, <<FileOf("FILE")>>}
      /\ op # "DOWNLOAD" => toClient' = <<>>
      /\ UNCHANGED toServer
  BY AckFound DEF TakeAck
<1>2. /\ Moves(t)
      /\ thread'[t].pc = IF op = "UPLOAD" THEN "put"
                         ELSE IF op = "DOWNLOAD" THEN "get" ELSE "unlock"
      /\ thread'[t].op = op /\ thread'[t].f = f
      /\ thread'[t].todo = IF op = "LIST" THEN list ELSE thread[t].todo
  <2> DEFINE pc == IF op = "UPLOAD" THEN "put"
                   ELSE IF op = "DOWNLOAD" THEN "get" ELSE "unlock"
             todo == IF op = "LIST" THEN list ELSE thread[t].todo
  <2>1. thread' = [thread EXCEPT ![t] = [thread[t] EXCEPT !.pc = pc, !.todo = todo]]
    BY DEF TakeAck
  <2>2. pc \in Pcs /\ todo \in SUBSET Files
    BY <1>0, <1>1 DEF Pcs, ThreadRecords
  <2> HIDE DEF pc, todo, list
  <2>3. [thread[t] EXCEPT !.pc = pc, !.todo = todo] \in ThreadRecords
    BY <1>0, <2>2 DEF ThreadRecords
  <2>4. thread'[t] = [thread[t] EXCEPT !.pc = pc, !.todo = todo] /\ Moves(t)
    BY <1>0, <2>1, <2>3 DEF Moves
  <2>5. /\ thread'[t].pc = pc /\ thread'[t].todo = todo
        /\ thread'[t].op = op /\ thread'[t].f = f
    BY <1>0, <2>4 DEF ThreadRecords
  <2> QED
    BY <2>4, <2>5 DEF pc, todo
<1> HIDE DEF list
<1>3. lockcomunicacao = t /\ lockcomunicacao' = t
  BY <1>1 DEF IInv, MutexInv, Holding, TakeAck
<1>4. /\ ThreadInv' /\ MutexInv' /\ TrafficInv'
      /\ \A u \in Threads \ {t} : thread[u].pc \notin Holding
  <2>1. TrafficOf(t)'
    BY <1>1, <1>2 DEF TrafficOf, Quiet
  <2>2. t = "iface" /\ thread'[t].todo # {} =>
            thread'[t].pc = "unlock" /\ thread'[t].op = "LIST"
    BY <1>0, <1>2
  <2> QED
    BY <1>0, <1>2, <1>3, <2>1, <2>2, TurnStep DEF Holding
<1>5. DataInv'
  BY <1>0 DEF TakeAck, IInv, DataInv, FileRequests
<1>6. AckedIsServed'
  <2>1. \A k \in DOMAIN toClient' : toClient'[k].op # "ACK"
    BY <1>1 DEF FileOf
  <2> QED
    BY <2>1 DEF AckedIsServed
<1>7. UploadInv'
  BY <1>1, <1>2, <1>4 DEF TakeAck, IInv, UploadInv, Holding
<1>8. SyncInv'
  BY <1>1, <1>2, BusySync DEF TakeAck, device
<1>9. DeleteInv'
  <2> SUFFICES ASSUME ~stranded, NEW g \in deleted, Gone(g)
               PROVE  Gone(g)'
    BY DEF TakeAck, IInv, DeleteInv
  <2>0. "iface" \in Threads /\ SyncThreads \subseteq Threads
    BY DEF Threads
  <2>1. g \notin local'
    <3>1. CASE t = "iface"
      <4>1. g \in local => op = "DELETE" /\ f = g
        BY <3>1 DEF Gone
      <4> QED
        BY <1>0, <3>1, <4>1 DEF TakeAck
    <3>2. CASE t # "iface"
      <4>1. g \notin local
        BY <1>4, <2>0, <3>2 DEF Gone, Holding
      <4>2. op = "DOWNLOAD" => f # g
        BY <1>0, <1>1, <3>2 DEF Gone, TakeAck
      <4> QED
        BY <1>0, <4>1, <4>2 DEF TakeAck
    <3> QED
      BY <3>1, <3>2
  <2>2. UNCHANGED <<remote, session>>
    BY DEF TakeAck
  <2>3. ASSUME NEW u \in SyncThreads,
               thread'[u].pc = "putting" \/ thread'[u].pc = "ack"
        PROVE  FALSE
    BY <1>2, <1>4, <2>0, <2>3 DEF Moves, Holding
  <2>4. thread'["iface"].op = thread["iface"].op /\ thread'["iface"].f = thread["iface"].f
    BY <1>2, <2>0 DEF Moves
  <2> QED
    BY <2>1, <2>2, <2>3, <2>4 DEF Gone
<1> QED
  BY <1>4, <1>5, <1>6, <1>7, <1>8, <1>9 DEF IInv

LEMMA PutStep ==
  ASSUME IInv, NEW t \in Threads, Put(t)
  PROVE  IInv'
<1>0. /\ thread \in [Threads -> ThreadRecords] /\ thread[t] \in ThreadRecords
      /\ thread[t].op \in FileRequests => thread[t].f \in Files
      /\ t # "iface" => thread[t].op \notin {"DELETE", "CLOSE"}
      /\ t = "iface" => thread[t].todo = {}
      /\ thread[t].pc = "put"
  BY DEF IInv, ThreadInv, Threads, Put
<1>1. /\ Moves(t) /\ thread'[t].pc \in {"putting", "unlock"}
      /\ thread'[t].op = thread[t].op /\ thread'[t].f = thread[t].f
      /\ thread'[t].todo = thread[t].todo
  BY <1>0 DEF Put, Moves, ThreadRecords, Pcs
<1>2. /\ Quiet /\ lockcomunicacao = t /\ lockcomunicacao' = t /\ toClient' = <<>>
      /\ \/ /\ thread'[t].pc = "putting" /\ UNCHANGED stranded
            /\ t # "iface" => thread[t].f \in local
            /\ toServer' = <<[op |-> "FILE", f |-> thread[t].f]>>
         \/ thread'[t].pc = "unlock" /\ stranded' /\ toServer' = <<>>
  <2>1. Quiet /\ lockcomunicacao = t
    BY <1>0 DEF IInv, TrafficInv, TrafficOf, MutexInv, Holding
  <2> QED
    BY <1>0, <2>1, Short DEF Put, Quiet, ThreadRecords
<1>3. /\ ThreadInv' /\ MutexInv' /\ TrafficInv'
      /\ \A u \in Threads \ {t} : thread[u].pc \notin Holding
  <2>1. TrafficOf(t)'
    BY <1>1, <1>2 DEF TrafficOf, Quiet
  <2> QED
    BY <1>0, <1>1, <1>2, <2>1, TurnStep DEF Holding
<1>4. DataInv'
  BY DEF Put, IInv, DataInv
<1>5. AckedIsServed'
  BY <1>2 DEF AckedIsServed
<1>6. UploadInv'
  <2>1. <<[op |-> "FILE", f |-> thread[t].f]>> # <<>>
    BY Short
  <2> QED
    BY <1>0, <1>1, <1>2, <1>3, <2>1 DEF Put, IInv, UploadInv, Holding
<1>7. SyncInv'
  BY <1>0, <1>1, BusySync DEF Put, device
<1>8. DeleteInv'
  <2> SUFFICES ASSUME ~stranded', NEW g \in deleted, Gone(g), ~stranded
               PROVE  Gone(g)'
    BY <1>2 DEF Put, IInv, DeleteInv
  <2>0. "iface" \in Threads /\ SyncThreads \subseteq Threads
    BY DEF Threads
  <2>1. g \notin local /\ UNCHANGED <<local, remote, session>>
    BY <1>0, <1>3, <2>0 DEF Gone, Holding, Put
  <2>2. ASSUME NEW u \in SyncThreads, thread'[u].pc \in {"putting", "ack"}
        PROVE  thread'[u].f # g
    <3>1. u = t /\ u # "iface"
      BY <1>1, <1>3, <2>0, <2>2, ClientAssumption DEF Moves, Holding
    <3> QED
      BY <1>1, <1>2, <2>1, <3>1
  <2>3. thread'["iface"].op = thread["iface"].op /\ thread'["iface"].f = thread["iface"].f
    BY <1>1, <2>0 DEF Moves
  <2> QED
    BY <2>1, <2>2, <2>3 DEF Gone
<1> QED
  BY <1>3, <1>4, <1>5, <1>6, <1>7, <1>8 DEF IInv

LEMMA EndTransferStep ==
  ASSUME IInv, NEW t \in Threads, EndTransfer(t)
  PROVE  IInv'
<1>0. /\ thread \in [Threads -> ThreadRecords] /\ thread[t] \in ThreadRecords
      /\ thread[t].op \in FileRequests => thread[t].f \in Files
      /\ t # "iface" => thread[t].op \notin {"DELETE", "CLOSE"}
      /\ t = "iface" => thread[t].todo = {}
      /\ thread[t].pc \in {"putting", "get"}
  BY DEF IInv, ThreadInv, Threads, EndTransfer
<1>1. /\ Moves(t) /\ thread'[t].pc = "unlock"
      /\ thread'[t].op = thread[t].op /\ thread'[t].f = thread[t].f
      /\ thread'[t].todo = thread[t].todo
  BY <1>0 DEF EndTransfer, Moves, ThreadRecords, Pcs
<1>2. lockcomunicacao = t /\ lockcomunicacao' = t
  BY <1>0 DEF IInv, MutexInv, Holding, EndTransfer
<1>3. toServer = <<>> /\ Quiet'
  <2>1. /\ toServer = <<>> /\ toClient # <<>>
        /\ toClient \in {<<>>, <<FileOf("FILE")>>, <<FileOf("DONE")>>}
    BY <1>0 DEF IInv, TrafficInv, TrafficOf, EndTransfer, Quiet
  <2> QED
    BY <2>1, Short DEF EndTransfer, Quiet
<1>4. /\ ThreadInv' /\ MutexInv' /\ TrafficInv'
      /\ \A u \in Threads \ {t} : thread[u].pc \notin Holding
  <2>1. TrafficOf(t)'
    BY <1>1, <1>3 DEF TrafficOf
  <2> QED
    BY <1>0, <1>1, <1>2, <1>3, <2>1, TurnStep DEF Holding
<1>5. DataInv' /\ AckedIsServed'
  BY <1>3 DEF EndTransfer, IInv, DataInv, AckedIsServed, Quiet
<1>6. UploadInv'
  BY <1>0, <1>3, <1>4 DEF EndTransfer, IInv, UploadInv, Holding
<1>7. SyncInv'
  BY <1>0, <1>1, BusySync DEF EndTransfer, device
<1>8. DeleteInv'
  <2> SUFFICES ASSUME ~stranded, NEW g \in deleted, Gone(g)
               PROVE  Gone(g)'
    BY DEF EndTransfer, IInv, DeleteInv
  <2>0. "iface" \in Threads /\ SyncThreads \subseteq Threads
    BY DEF Threads
  <2>1. g \notin local /\ UNCHANGED <<local, remote, session>>
    BY <1>0, <1>4, <2>0 DEF Gone, Holding, EndTransfer
  <2>2. \A u \in SyncThreads : thread'[u].pc \notin {"putting", "ack"}
    BY <1>1, <1>4, <2>0 DEF Moves, Holding
  <2>3. thread'["iface"].op = thread["iface"].op /\ thread'["iface"].f = thread["iface"].f
    BY <1>1, <2>0 DEF Moves
  <2> QED
    BY <2>1, <2>2, <2>3 DEF Gone
<1> QED
  BY <1>4, <1>5, <1>6, <1>7, <1>8 DEF IInv

LEMMA UnlockStep ==
  ASSUME IInv, NEW t \in Threads, Unlock(t)
  PROVE  IInv'
<1>0. /\ thread \in [Threads -> ThreadRecords] /\ thread[t] \in ThreadRecords
      /\ thread[t].pc = "unlock"
  BY DEF IInv, ThreadInv, Unlock
<1>1. /\ Moves(t) /\ thread'[t].pc \in {"done", "idle", "uploads", "downloads"}
      /\ thread'[t].op = "LIST"
      /\ t = "iface" => thread'[t].todo = {}
  <2> DEFINE pc == CASE t = "iface" -> IF thread[t].op = "CLOSE" THEN "done" ELSE "idle"
                     [] thread[t].op = "UPLOAD" -> "uploads"
                     [] OTHER -> "downloads"
             todo == IF t = "iface" THEN {} ELSE thread[t].todo
  <2>1. thread' = [thread EXCEPT ![t] = [thread[t] EXCEPT !.pc = pc, !.todo = todo,
                                                         !.op = "LIST", !.f = NoFile]]
    BY DEF Unlock
  <2>2. /\ pc \in {"done", "idle", "uploads", "downloads"} /\ todo \in SUBSET Files
        /\ t = "iface" => todo = {}
    BY <1>0 DEF ThreadRecords
  <2> HIDE DEF pc, todo
  <2>3. [thread[t] EXCEPT !.pc = pc, !.todo = todo, !.op = "LIST", !.f = NoFile]
          \in ThreadRecords
    BY <1>0, <2>2 DEF ThreadRecords, Pcs, Requests
  <2>4. /\ Moves(t)
        /\ thread'[t] = [thread[t] EXCEPT !.pc = pc, !.todo = todo,
                                          !.op = "LIST", !.f = NoFile]
    BY <1>0, <2>1, <2>3 DEF Moves
  <2>5. thread'[t].pc = pc /\ thread'[t].todo = todo /\ thread'[t].op = "LIST"
    BY <1>0, <2>4 DEF ThreadRecords
  <2> QED
    BY <2>2, <2>4, <2>5
<1>2. /\ lockcomunicacao = t /\ lockcomunicacao' = "free"
      /\ Quiet /\ Quiet'
  BY <1>0 DEF IInv, MutexInv, Holding, TrafficInv, TrafficOf, Quiet, Unlock
<1>3. /\ ThreadInv' /\ MutexInv' /\ TrafficInv'
      /\ \A u \in Threads \ {t} : thread[u].pc \notin Holding
  <2>1. TrafficOf(t)' /\ thread'[t].pc \notin Holding
    BY <1>1 DEF TrafficOf, Holding
  <2>2. thread'[t].op \notin {"DELETE", "CLOSE"} \cup FileRequests
    BY <1>1 DEF FileRequests
  <2> QED
    BY <1>1, <1>2, <2>1, <2>2, TurnStep
<1>4. DataInv' /\ AckedIsServed'
  BY DEF Unlock, IInv, DataInv, AckedIsServed
<1>5. UploadInv'
  BY <1>0, <1>3 DEF Unlock, IInv, UploadInv, Holding
<1>6. SyncInv'
  BY <1>0, <1>1, BusySync DEF Unlock
<1>7. DeleteInv'
  <2> SUFFICES ASSUME ~stranded, NEW g \in deleted, Gone(g)
               PROVE  Gone(g)'
    BY DEF Unlock, IInv, DeleteInv
  <2>0. "iface" \in Threads /\ SyncThreads \subseteq Threads
    BY DEF Threads
  <2>1. g \notin local /\ UNCHANGED <<local, remote, session>>
    BY <1>0, <1>3, <2>0 DEF Gone, Holding, Unlock
  <2>2. \A u \in SyncThreads : thread'[u].pc \notin {"putting", "ack"}
    BY <1>1, <1>3, <2>0 DEF Moves, Holding
  <2>3. \/ thread'["iface"].op = "LIST"
        \/ thread'["iface"] = thread["iface"]
    BY <1>1, <2>0 DEF Moves
  <2> QED
    BY <2>1, <2>2, <2>3 DEF Gone
<1> QED
  BY <1>3, <1>4, <1>5, <1>6, <1>7 DEF IInv

-----------------------------------------------------------------------------
(* Steps of the session thread and of the other device *)

(* What the session thread takes comes from the thread whose turn it is.    *)
LEMMA ServerHead ==
  ASSUME IInv, toServer # <<>>
  PROVE  \E t \in Threads :
            /\ lockcomunicacao = t /\ toClient = <<>> /\ Tail(toServer) = <<>>
            /\ \A u \in Threads \ {t} : thread[u].pc \notin Holding
            /\ \/ /\ thread[t].pc = "ack"
                  /\ Head(toServer) = [op |-> thread[t].op, f |-> thread[t].f]
               \/ /\ thread[t].pc = "putting"
                  /\ Head(toServer) = [op |-> "FILE", f |-> thread[t].f]
<1>1. PICK t \in Threads : lockcomunicacao = t /\ thread[t].pc \in Holding
  BY DEF IInv, TrafficInv, MutexInv, Quiet
<1>2. \A u \in Threads \ {t} : thread[u].pc \notin Holding
  BY <1>1 DEF IInv, MutexInv
<1>3. \/ /\ thread[t].pc = "ack" /\ toClient = <<>>
         /\ toServer = <<[op |-> thread[t].op, f |-> thread[t].f]>>
      \/ /\ thread[t].pc = "putting" /\ toClient = <<>>
         /\ toServer = <<[op |-> "FILE", f |-> thread[t].f]>>
  BY <1>1 DEF IInv, TrafficInv, TrafficOf, Quiet, Holding
<1>4. Tail(toServer) = <<>>
  BY <1>3, Short
<1>5. CASE thread[t].pc = "ack" /\ toServer = <<[op |-> thread[t].op, f |-> thread[t].f]>>
  BY <1>1, <1>2, <1>3, <1>4, <1>5, Short
<1>6. CASE thread[t].pc = "putting" /\ toServer = <<[op |-> "FILE", f |-> thread[t].f]>>
  BY <1>1, <1>2, <1>3, <1>4, <1>6, Short
<1> QED
  BY <1>3, <1>5, <1>6

(* The threads and the mutex stay as they are, and the holder may find what *)
(* is on its way then.                                                      *)
LEMMA SessionStep ==
  ASSUME IInv, UNCHANGED <<thread, lockcomunicacao, device>>,
         NEW t \in Threads, lockcomunicacao = t, TrafficOf(t)',
         \A u \in Threads \ {t} : thread[u].pc \notin Holding
  PROVE  ThreadInv' /\ MutexInv' /\ TrafficInv' /\ SyncInv'
<1>0. "free" \notin Threads
  BY ClientAssumption DEF Threads
<1>1. ThreadInv' /\ MutexInv' /\ SyncInv'
  BY DEF IInv, ThreadInv, MutexInv, SyncInv, OneSyncThread, device, interval
<1>2. ASSUME NEW u \in Threads \ {t}
      PROVE  TrafficOf(u)'
  BY <1>2 DEF TrafficOf, Holding
<1> QED
  BY <1>0, <1>1, <1>2 DEF TrafficInv

LEMMA DropStep ==
  ASSUME IInv, Drop
  PROVE  IInv'
<1>1. PICK t \in Threads :
        /\ lockcomunicacao = t /\ toClient = <<>> /\ Tail(toServer) = <<>>
        /\ \A u \in Threads \ {t} : thread[u].pc \notin Holding
        /\ thread[t].pc \in {"ack", "putting"}
  BY ServerHead DEF Drop
<1>2. Quiet'
  BY <1>1 DEF Drop, Quiet
<1>3. ThreadInv' /\ MutexInv' /\ TrafficInv' /\ SyncInv'
  <2>1. TrafficOf(t)'
    BY <1>1, <1>2 DEF TrafficOf, Drop
  <2> QED
    BY <1>1, <2>1, SessionStep DEF Drop
<1>4. DataInv' /\ AckedIsServed'
  BY DEF Drop, IInv, DataInv, AckedIsServed
<1>5. UploadInv'
  BY DEF Drop, IInv, UploadInv
<1>6. DeleteInv'
  BY DEF Drop, IInv, DeleteInv, Gone
<1> QED
  BY <1>3, <1>4, <1>5, <1>6 DEF IInv

LEMMA OtherStep ==
  ASSUME IInv, NEW f \in Files, Other(f)
  PROVE  IInv'
<1>1. ThreadInv' /\ MutexInv' /\ SyncInv'
  BY DEF Other, IInv, ThreadInv, MutexInv, SyncInv, OneSyncThread, device, interval
<1>2. TrafficInv'
  BY DEF Other, IInv, TrafficInv, TrafficOf, Acked, Quiet
<1>3. DataInv' /\ AckedIsServed' /\ UploadInv'
  BY DEF Other, IInv, DataInv, AckedIsServed, UploadInv
<1>4. DeleteInv'
  BY DEF Other, IInv, DeleteInv, Gone
<1> QED
  BY <1>1, <1>2, <1>3, <1>4 DEF IInv

(* A request that is served.                                                *)
LEMMA ServeStep ==
  ASSUME IInv, Serve
  PROVE  IInv'
<1> DEFINE p == Head(toServer)
           ok == p.op = "DOWNLOAD" /\ p.f \in remote \ Strandable
           list == IF p.op = "LIST" THEN remote ELSE {}
<1>1. PICK t \in Threads :
        /\ lockcomunicacao = t /\ toClient = <<>> /\ Tail(toServer) = <<>>
        /\ \A u \in Threads \ {t} : thread[u].pc \notin Holding
        /\ thread[t].pc = "ack" /\ p = [op |-> thread[t].op, f |-> thread[t].f]
  BY ServerHead DEF Serve, Requests
<1>2. /\ p.op = thread[t].op /\ p.f = thread[t].f
      /\ p.op \in FileRequests => p.f \in Files
      /\ t # "iface" => p.op \notin {"DELETE", "CLOSE"}
      /\ t = "iface" => thread[t].todo = {}
      /\ t # "iface" <=> t \in SyncThreads
      /\ thread[t] \in ThreadRecords /\ p.f \in Files \cup {NoFile}
  BY <1>1, ClientAssumption DEF IInv, ThreadInv, Threads, ThreadRecords
<1>3. /\ UNCHANGED <<thread, lockcomunicacao, device, local>>
      /\ session.pc = "recv" /\ toServer' = <<>>
      /\ \/ p.op = "UPLOAD" /\ session' = [pc |-> "receive", f |-> p.f]
         \/ p.op = "DELETE" /\ session' = [pc |-> "remove", f |-> p.f]
         \/ p.op = "CLOSE" /\ session' = [pc |-> "gone", f |-> NoFile]
         \/ p.op \notin {"UPLOAD", "DELETE", "CLOSE"} /\ session' = session
      /\ remote' = IF p.op = "UPLOAD" THEN remote \cup {p.f} ELSE remote
      /\ stranded' = (stranded \/ (p.op = "DOWNLOAD" /\ ~ok))
      /\ deleted' = IF p.op = "DELETE" THEN deleted \cup {p.f} ELSE deleted
  BY <1>1 DEF Serve
<1>4. \/ ok /\ toClient' = <<AckOf({}, TRUE), FileOf("FILE")>>
      \/ ~ok /\ toClient' = <<AckOf(list, TRUE)>>
  BY <1>1, Short DEF Serve
<1> HIDE DEF p
<1>5. ThreadInv' /\ MutexInv' /\ TrafficInv' /\ SyncInv'
  <2>1. Acked(t)'
    <3>1. {} \in SUBSET Files /\ list \in SUBSET Files /\ TRUE \in BOOLEAN
      BY DEF IInv, DataInv
    <3> HIDE DEF list
    <3> QED
      BY <1>2, <1>3, <1>4, <3>1 DEF Acked
  <2>2. TrafficOf(t)'
    BY <1>1, <1>3, <2>1 DEF TrafficOf
  <2> QED
    BY <1>1, <1>3, <2>2, SessionStep
<1>6. DataInv'
  BY <1>2, <1>3 DEF IInv, DataInv, FileRequests
<1>7. AckedIsServed'
  <2>1. \A l : AckOf(l, TRUE).served = TRUE
    BY DEF AckOf
  <2>2. FileOf("FILE").op # "ACK"
    BY DEF FileOf
  <2>3. \A x : \A k \in DOMAIN <<x>> : <<x>>[k] = x
    OBVIOUS
  <2>4. \A x, y : \A k \in DOMAIN <<x, y>> : <<x, y>>[k] \in {x, y}
    OBVIOUS
  <2> SUFFICES ASSUME NEW k \in DOMAIN toClient'
               PROVE  toClient'[k].op = "ACK" => toClient'[k].served = TRUE
    BY DEF AckedIsServed
  <2>5. CASE toClient' = <<AckOf({}, TRUE), FileOf("FILE")>>
    <3>1. toClient'[k] = AckOf({}, TRUE) \/ toClient'[k] = FileOf("FILE")
      BY <2>4, <2>5
    <3> QED
      BY <2>1, <2>2, <3>1
  <2>6. CASE toClient' = <<AckOf(list, TRUE)>>
    <3>1. toClient'[k] = AckOf(list, TRUE)
      BY <2>3, <2>6
    <3> QED
      BY <2>1, <3>1
  <2> QED
    BY <1>4, <2>5, <2>6
<1>8. UploadInv'
  BY <1>1, <1>2, <1>3 DEF UploadInv
<1>9. DeleteInv'
  <2> SUFFICES ASSUME ~stranded', NEW g \in deleted'
               PROVE  Gone(g)'
    BY DEF DeleteInv
  <2>0. /\ "iface" \in Threads /\ SyncThreads \subseteq Threads
        /\ "iface" \notin SyncThreads
    BY ClientAssumption DEF Threads
  <2>1. ~stranded /\ (p.op = "DOWNLOAD" => p.f \in remote)
    BY <1>3
  <2>2. ASSUME g \in deleted
        PROVE  Gone(g) /\ g \notin remote
    BY <1>3, <2>1, <2>2 DEF IInv, DeleteInv, Gone
  <2>3. CASE p.op = "DELETE" /\ g = p.f
    <3>1. t = "iface" /\ thread[t].todo = {}
      BY <1>2, <2>3
    <3>2. thread["iface"] = [pc |-> "ack", op |-> "DELETE", f |-> g, todo |-> {}]
      BY <1>1, <1>2, <2>3, <3>1 DEF ThreadRecords
    <3>3. session' = [pc |-> "remove", f |-> g]
      BY <1>3, <2>3
    <3>4. \A u \in SyncThreads : thread[u].pc \notin Holding
      BY <1>1, <2>0, <3>1
    <3> QED
      BY <1>3, <3>2, <3>3, <3>4 DEF Gone, Holding
  <2>4. CASE g \in deleted
    <3>1. g \in remote' => session' = [pc |-> "receive", f |-> g]
      BY <1>3, <2>2, <2>4
    <3>2. ASSUME NEW u \in SyncThreads,
                 \/ thread[u].pc = "putting"
                 \/ thread[u].pc = "ack" /\ thread[u].op = "DOWNLOAD"
          PROVE  thread[u].f # g
      <4>1. u = t
        BY <1>1, <2>0, <3>2 DEF Holding
      <4> QED
        BY <1>1, <1>2, <2>1, <2>2, <2>4, <3>2, <4>1
    <3> QED
      BY <1>3, <2>2, <2>4, <3>1, <3>2 DEF Gone
  <2> QED
    BY <1>3, <2>3, <2>4
<1> QED
  BY <1>5, <1>6, <1>7, <1>8, <1>9 DEF IInv

(* A deletion that has been acknowledged is carried out.                    *)
LEMMA RemoveStep ==
  ASSUME IInv, Remove
  PROVE  IInv'
<1>1. /\ UNCHANGED <<thread, lockcomunicacao, device, local, toServer, toClient,
                     stranded, deleted>>
      /\ session' = [pc |-> "recv", f |-> NoFile]
      /\ remote' = remote \ {session.f}
  BY DEF Remove
<1>2. ThreadInv' /\ MutexInv' /\ SyncInv'
  BY <1>1 DEF IInv, ThreadInv, MutexInv, SyncInv, OneSyncThread, device, interval
<1>3. TrafficInv'
  BY <1>1 DEF IInv, TrafficInv, TrafficOf, Acked, Quiet
<1>4. DataInv' /\ AckedIsServed' /\ UploadInv'
  BY <1>1 DEF IInv, DataInv, AckedIsServed, UploadInv
<1>5. DeleteInv'
  <2> SUFFICES ASSUME ~stranded, NEW g \in deleted, Gone(g)
               PROVE  Gone(g)'
    BY <1>1 DEF IInv, DeleteInv
  <2>1. g \notin remote'
    <3>1. CASE g \in remote
      BY <1>1, <3>1 DEF Gone, Remove
    <3>2. CASE g \notin remote
      BY <1>1, <3>2
    <3> QED
      BY <3>1, <3>2
  <2> QED
    BY <1>1, <2>1 DEF Gone
<1> QED
  BY <1>2, <1>3, <1>4, <1>5 DEF IInv

(* The end of a file that is received, or a request taken for it.           *)
LEMMA StoreStep ==
  ASSUME IInv, Store
  PROVE  IInv'
<1> DEFINE p == Head(toServer)
<1>1. PICK t \in Threads :
        /\ lockcomunicacao = t /\ toClient = <<>> /\ Tail(toServer) = <<>>
        /\ \A u \in Threads \ {t} : thread[u].pc \notin Holding
        /\ \/ thread[t].pc = "ack" /\ p = [op |-> thread[t].op, f |-> thread[t].f]
           \/ thread[t].pc = "putting" /\ p = [op |-> "FILE", f |-> thread[t].f]
  BY ServerHead DEF Store
<1>2. thread[t].op \in Requests
  BY DEF IInv, ThreadInv, ThreadRecords
<1>3. /\ UNCHANGED <<thread, lockcomunicacao, device, local, remote, stranded, deleted>>
      /\ session.pc = "receive" /\ session'.pc \in {"recv", "forward"}
      /\ session'.f = NoFile /\ toServer' = <<>>
      /\ session' \in [pc : {"recv", "receive", "remove", "forward", "gone"},
                       f : Files \cup {NoFile}]
  BY <1>1 DEF Store
<1>4. \/ thread[t].pc = "putting" /\ toClient' = <<FileOf("DONE")>>
      \/ /\ thread[t].pc = "ack"
         /\ \E l \in SUBSET Files : toClient' = <<AckOf(l, FALSE)>>
  <2>1. \/ p.op = "FILE" /\ toClient' = <<FileOf("DONE")>>
        \/ /\ p.op \in Requests
           /\ \E l \in SUBSET Files : toClient' = <<AckOf(l, FALSE)>>
    BY <1>1, Short DEF Store
  <2>2. p.op = "FILE" <=> thread[t].pc = "putting"
    BY <1>1, <1>2 DEF Requests
  <2> QED
    BY <1>1, <2>1, <2>2 DEF Requests
<1>5. thread[t].pc = "ack" => stranded
  <2> SUFFICES ASSUME thread[t].pc = "ack", ~stranded
               PROVE  FALSE
    OBVIOUS
  <2>1. PICK u \in Threads :
          \/ thread[u].pc = "ack" /\ toServer = <<>>
          \/ thread[u].pc \in {"put", "putting"}
    BY <1>3 DEF IInv, UploadInv
  <2> QED
    BY <1>1, <2>1 DEF Holding, Store
<1>6. ThreadInv' /\ MutexInv' /\ TrafficInv' /\ SyncInv'
  <2>1. thread[t].pc = "ack" => Acked(t)'
    <3>1. FALSE \in BOOLEAN
      OBVIOUS
    <3> QED
      BY <1>4, <3>1 DEF Acked
  <2>2. TrafficOf(t)'
    BY <1>3, <1>4, <2>1 DEF TrafficOf
  <2> QED
    BY <1>1, <1>3, <2>2, SessionStep
<1>7. DataInv'
  BY <1>3 DEF IInv, DataInv
<1>8. AckedIsServed'
  <2>1. FileOf("DONE").op # "ACK"
    BY DEF FileOf
  <2>2. CASE toClient' = <<FileOf("DONE")>>
    BY <2>1, <2>2 DEF AckedIsServed
  <2>3. CASE thread[t].pc = "ack"
    BY <1>3, <1>5, <2>3 DEF AckedIsServed
  <2> QED
    BY <1>4, <2>2, <2>3
<1>9. UploadInv'
  BY <1>3 DEF UploadInv
<1>10. DeleteInv'
  <2> SUFFICES ASSUME ~stranded, NEW g \in deleted, Gone(g)
               PROVE  Gone(g)'
    BY <1>3 DEF IInv, DeleteInv
  <2>0. /\ SyncThreads \subseteq Threads /\ (t # "iface" => t \in SyncThreads)
    BY DEF Threads
  <2>1. PICK u \in Threads :
          /\ thread[u].op = "UPLOAD" /\ thread[u].f = session.f
          /\ \/ thread[u].pc = "ack" /\ toServer = <<>>
             \/ thread[u].pc \in {"put", "putting"}
    BY <1>3 DEF IInv, UploadInv
  <2>2. u = t /\ thread[t].pc = "putting"
    BY <1>1, <2>1 DEF Holding, Store
  <2>3. thread[t].f # g
    BY <2>0, <2>1, <2>2 DEF Gone
  <2>4. g \notin remote
    BY <2>1, <2>2, <2>3 DEF Gone
  <2>5. \A v \in SyncThreads : thread[v].pc # "ack"
    BY <1>1, <2>0, <2>2 DEF Holding
  <2> QED
    BY <1>3, <2>4, <2>5 DEF Gone
<1> QED
  BY <1>6, <1>7, <1>8, <1>9, <1>10 DEF IInv

-----------------------------------------------------------------------------
(* The invariant and what follows from it *)

LEMMA InitIInv ==
  ASSUME Init
  PROVE  IInv
<1>0. /\ "iface" \in Threads /\ "iface" \notin SyncThreads /\ SyncThreads \subseteq Threads
      /\ \A t \in Threads : t # "iface" => t \in SyncThreads
  BY ClientAssumption DEF Threads
<1>1. ASSUME NEW t \in Threads
      PROVE  /\ thread[t] \in ThreadRecords
             /\ thread[t].pc = IF t = "iface" THEN "idle" ELSE "none"
             /\ thread[t].op = "LIST" /\ thread[t].todo = {}
  <2>1. thread[t] = IF t = "iface" THEN [NotRunning EXCEPT !.pc = "idle"] ELSE NotRunning
    BY DEF Init
  <2>2. NotRunning \in ThreadRecords
    BY DEF NotRunning, ThreadRecords, Pcs, Requests
  <2> QED
    BY <2>1, <2>2 DEF NotRunning, ThreadRecords, Pcs
<1>2. ThreadInv
  <2>1. thread = [t \in Threads |-> thread[t]]
    BY DEF Init
  <2> QED
    BY <1>0, <1>1, <2>1 DEF ThreadInv, FileRequests
<1>3. DataInv
  BY DEF Init, DataInv
<1>4. \A t \in Threads : thread[t].pc \notin Holding
  BY <1>1 DEF Holding
<1>5. MutexInv
  BY <1>4 DEF Init, MutexInv
<1>6. TrafficInv /\ AckedIsServed
  BY <1>4 DEF Init, TrafficInv, TrafficOf, AckedIsServed, Quiet, Holding
<1>7. UploadInv /\ DeleteInv
  BY DEF Init, UploadInv, DeleteInv
<1>8. SyncInv
  BY <1>0, <1>1 DEF Init, SyncInv, OneSyncThread
<1> QED
  BY <1>2, <1>3, <1>5, <1>6, <1>7, <1>8 DEF IInv

LEMMA NextIInv ==
  ASSUME IInv, [Next]_vars
  PROVE  IInv'
<1>1. CASE Device
  <2>1. ASSUME NEW t \in Threads, Lock(t) \/ Request(t)
        PROVE  IInv'
    BY <2>1, LockStep, SendStep, TakeAckStep, PutStep, EndTransferStep, UnlockStep
       DEF Request
  <2>2. ASSUME NEW op \in {"UPLOAD", "DOWNLOAD", "DELETE"}, NEW f \in Files, Command(op, f)
        PROVE  IInv'
    BY <2>2, CommandStep
  <2>3. ASSUME NEW op \in {"LIST", "CLOSE"}, Command(op, NoFile)
        PROVE  IInv'
    BY <2>3, CommandStep DEF FileRequests
  <2>4. ASSUME NEW t \in SyncThreads, Spawn(t) \/ Sync(t)
        PROVE  IInv'
    BY <2>4, SpawnStep, SyncStep
  <2>5. CASE Exit
    BY <2>5 DEF Exit, IInv, ThreadInv, DataInv, MutexInv, TrafficInv, TrafficOf, Acked,
          Quiet, UploadInv, AckedIsServed, SyncInv, OneSyncThread, DeleteInv, Gone,
          interval
  <2> QED
    BY <1>1, <2>1, <2>2, <2>3, <2>4, <2>5, SetSyncTimeStep DEF Device
<1>2. CASE Session
  BY <1>2, ServeStep, RemoveStep, StoreStep, DropStep DEF Session
<1>3. ASSUME NEW f \in Files, Other(f)
      PROVE  IInv'
  BY <1>3, OtherStep
<1>4. CASE UNCHANGED vars
  BY <1>4 DEF vars, device, interval, IInv, ThreadInv, DataInv, MutexInv, TrafficInv, TrafficOf,
        Acked, Quiet, UploadInv, AckedIsServed, SyncInv, OneSyncThread, DeleteInv, Gone
<1> QED
  BY <1>1, <1>2, <1>3, <1>4 DEF Next

(* IInv holds in every reachable state of the device and its session.       *)
THEOREM Invariance == Spec => []IInv
<1>1. Init => IInv
  BY InitIInv
<1>2. IInv /\ [Next]_vars => IInv'
  BY NextIInv
<1> QED
  BY <1>1, <1>2, PTL DEF Spec

(* The variables have their types, and never more than one request and two  *)
(* answers are on their way between the device and its session thread.      *)
THEOREM TypeCorrect == Spec => []TypeOK
<1>1. IInv => TypeOK
  <2> SUFFICES ASSUME IInv PROVE TypeOK
    OBVIOUS
  <2>1. \A t \in Threads : thread[t] \in ThreadRecords
    BY DEF IInv, ThreadInv
  <2>2. Len(toServer) <= 1 /\ Len(toClient) <= 2
    <3>1. \/ toServer = <<>> \/ \E x : toServer = <<x>>
      BY DEF IInv, TrafficInv, TrafficOf, MutexInv, Quiet, Holding
    <3>2. \/ toClient = <<>> \/ \E x : toClient = <<x>> \/ \E y : toClient = <<x, y>>
      BY DEF IInv, TrafficInv, TrafficOf, Acked, MutexInv, Quiet, Holding
    <3>3. /\ Len(<<>>) = 0
          /\ \A x, y : Len(<<x>>) = 1 /\ Len(<<x, y>>) = 2
      OBVIOUS
    <3>4. Len(toServer) \in {0, 1}
      BY <3>1, <3>3, Zenon
    <3>5. Len(toClient) \in {0, 1, 2}
      BY <3>2, <3>3, Zenon
    <3>6. \A n \in {0, 1} : n <= 1
      OBVIOUS
    <3>7. \A n \in {0, 1, 2} : n <= 2
      OBVIOUS
    <3> QED
      BY <3>4, <3>5, <3>6, <3>7, Zenon
  <2> QED
    BY <2>1, <2>2 DEF IInv, DataInv, MutexInv, SyncInv, TypeOK, ThreadRecords
<1> QED
  BY <1>1, Invariance, PTL

(* The session thread acknowledges a request without carrying it out only   *)
(* after some transfer has stranded its receiver.                           *)
THEOREM ServedCorrect == Spec => []AckedIsServed
<1>1. IInv => AckedIsServed
  BY DEF IInv
<1> QED
  BY <1>1, Invariance, PTL

(* The mutex keeps the answers of the threads apart: whatever is on its way *)
(* belongs to the thread that holds lockcomunicacao.                        *)
THEOREM AnswersApart == Spec => []AnswersOwnRequest
<1>1. IInv => AnswersOwnRequest
  <2> SUFFICES ASSUME IInv, ~Quiet
               PROVE  \E t \in Threads :
                         /\ lockcomunicacao = t
                         /\ thread[t].pc \in {"ack", "put", "putting", "get"}
    BY DEF AnswersOwnRequest, Quiet
  <2>1. PICK t \in Threads : lockcomunicacao = t /\ thread[t].pc \in Holding
    BY DEF IInv, TrafficInv, MutexInv
  <2>2. thread[t].pc \notin {"send", "unlock"}
    BY DEF IInv, TrafficInv, TrafficOf
  <2> QED
    BY <2>1, <2>2 DEF Holding
<1> QED
  BY <1>1, Invariance, PTL

(* A file the user has deleted is not brought back by a synchronisation     *)
(* that listed it earlier, unless a transfer has gone wrong.                *)
THEOREM DeletedStays == Spec => []DeleteSticks
<1>1. IInv => DeleteSticks
  BY DEF IInv, DeleteInv, Gone, DeleteSticks
<1> QED
  BY <1>1, Invariance, PTL

(* With a long interval main creates a synchronisation thread only when     *)
(* there is none, unless some are left of a time when it was short.         *)
THEOREM OneSync == Spec => []OneSyncThreadUnhurried
<1>1. IInv => OneSyncThreadUnhurried
  BY DEF IInv, SyncInv, OneSyncThreadUnhurried
<1> QED
  BY <1>1, Invariance, PTL

=============================================================================
