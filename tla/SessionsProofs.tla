--------------------------- MODULE SessionsProofs ---------------------------
(***************************************************************************)
(* Proofs about Sessions, for any number of users, entries and threads.    *)
(* TypeOK and the three invariants below are inductive together; the       *)
(* properties of Sessions follow from them.                                *)
(***************************************************************************)
EXTENDS Sessions, TLAPS

Serving == {"recv", "path", "transfer", "close", "replicate"}

(* What the main thread may rely on between its reads of the table and its *)
(* writes, although session threads clear flags in between.                *)
MainInv ==
    /\ main.pc \in {"recv", "match"} => main.index = -1 /\ main.s = 0
    /\ main.pc = "scan" =>
         /\ main.index = -1
         /\ \A c \in ClientIds : user_id[c] # main.user
         /\ main.i < MAXCLIENTS =>
              \A s \in SlotIds : s < main.s => session_active[main.i][s] = 0
    /\ main.pc = "check" /\ main.index # -1 => user_id[main.index] = main.user
    /\ main.pc \in {"slots", "spawn"} =>
         main.index \in ClientIds /\ user_id[main.index] = main.user
    /\ main.pc = "spawn" =>
         /\ main.s \in SlotIds
         /\ session_active[main.index][main.s] = 1
         /\ session_port[main.index][main.s] = Port(main.index, main.s)

(* What owning a slot gives a thread: the slot is taken, its entry belongs  *)
(* to the thread's user, and the main thread is not about to give it away.  *)
OwnsSlot(t) ==
    /\ session_active[thread[t].c][thread[t].s] = 1
    /\ user_id[thread[t].c] = thread[t].user
    /\ session_port[thread[t].c][thread[t].s] = Port(thread[t].c, thread[t].s)
    /\ thread[t].pc # "start" => thread[t].port = Port(thread[t].c, thread[t].s)
    /\ ~(main.pc = "spawn" /\ main.index = thread[t].c /\ main.s = thread[t].s)

OwnerInv ==
    /\ \A t \in Threads : thread[t].pc # "none" => thread[t].c \in ClientIds
    /\ \A t \in Threads : thread[t].pc = "close" => thread[t].op = "CLOSE"
    /\ \A t \in Threads : Owns(t) => OwnsSlot(t)
    /\ \A t, u \in Threads : t # u /\ Owns(t) /\ Owns(u) =>
         thread[t].c # thread[u].c \/ thread[t].s # thread[u].s

(* The life of a slot's socket.  A free slot has none or a bound one, which *)
(* the next owner inherits; an unbound one is only left behind in a slot    *)
(* that stays taken.                                                        *)
FreeSockets ==
    \A c \in ClientIds, s \in SlotIds :
        /\ socket_set[c][s] = 1
        /\ \/ session_active[c][s] = 0
           \/ main.pc = "spawn" /\ main.index = c /\ main.s = s
        => socket[c][s] = "bound"

ThreadSocket(t) ==
    /\ thread[t].pc = "start" /\ socket_set[thread[t].c][thread[t].s] = 1
         => socket[thread[t].c][thread[t].s] = "bound"
    /\ thread[t].pc \in {"bind", "publish"}
         => socket_set[thread[t].c][thread[t].s] = 0
    /\ thread[t].pc \in Serving /\ Owns(t) =>
         /\ thread[t].sock = "bound"
         /\ socket[thread[t].c][thread[t].s] = "bound"

(* Whose sockets hold the ports of this process.                            *)
HeldPorts ==
    \A c \in ClientIds, s \in SlotIds : Port(c, s) \in boundPorts =>
        \/ socket_set[c][s] = 1
        \/ \E t \in Threads :
             thread[t].pc = "publish" /\ thread[t].c = c /\ thread[t].s = s

SocketInv ==
    /\ FreeSockets
    /\ \A t \in Threads : ThreadSocket(t)
    /\ HeldPorts

DirInv == OwnDirectory /\ UniqueEntries

IInv == TypeOK /\ MainInv /\ OwnerInv /\ SocketInv /\ DirInv

(* No two slots have the same port: the literal 2 of login's formula is     *)
(* MAXSESSIONS.                                                             *)
LEMMA PortInjective ==
  ASSUME NEW c \in ClientIds, NEW s \in SlotIds,
         NEW d \in ClientIds, NEW z \in SlotIds,
         Port(c, s) = Port(d, z)
  PROVE  c = d /\ s = z
  BY SessionsAssumption DEF Port, ClientIds, SlotIds, MAXSESSIONS

(* A member of the thread pool that is not a thread has the type of one.    *)
LEMMA NoThreadType == NoThread \in ThreadLocals
  BY DEF NoThread, ThreadLocals, ThreadStates, SocketStates, Ops, Names, SlotIds,
         MAXSESSIONS

-----------------------------------------------------------------------------
(* Steps of the main thread *)

(* A new packet touches only the main thread's locals.                      *)
LEMMA MainRecvStep ==
  ASSUME NEW op \in MainOps, NEW user \in Names, IInv, MainRecv(op, user)
  PROVE  IInv'
<1>1. main \in MainLocals
  BY DEF IInv, TypeOK
<1>2. /\ main' \in MainLocals
      /\ main'.pc = "match"
      /\ main'.index = main.index
      /\ main'.s = main.s
  BY <1>1 DEF MainRecv, MainLocals, MainStates
<1>3. main.pc = "recv" /\ UNCHANGED <<table, boundPorts, thread>>
  BY DEF MainRecv
<1>4. TypeOK'
  BY <1>1, <1>2, <1>3 DEF IInv, TypeOK, table
<1>5. MainInv'
  BY <1>1, <1>2, <1>3 DEF IInv, MainInv, table
<1>6. OwnerInv'
  BY <1>1, <1>2, <1>3 DEF IInv, OwnerInv, OwnsSlot, Owns, table
<1>7. SocketInv'
  BY <1>1, <1>2, <1>3 DEF IInv, SocketInv, FreeSockets, ThreadSocket, HeldPorts, Owns, table
<1>8. DirInv'
  BY <1>1, <1>2, <1>3 DEF IInv, DirInv, OwnDirectory, UniqueEntries, table
<1> QED
  BY <1>4, <1>5, <1>6, <1>7, <1>8 DEF IInv

(* Match finds the entry, or knows that no entry has the name.             *)
LEMMA MatchStep ==
  ASSUME IInv, Match
  PROVE  IInv'
<1>1. main \in MainLocals
  BY DEF IInv, TypeOK
<1>2. main.pc = "match" /\ UNCHANGED <<table, boundPorts, thread>>
  BY DEF Match
<1>3. /\ main' \in MainLocals
      /\ main'.pc \in {"check", "scan"}
      /\ main'.s = main.s
      /\ main'.pc = "check" => user_id[main'.index] = main'.user
      /\ main'.pc = "scan" => /\ main'.index = main.index
                              /\ \A c \in ClientIds : user_id[c] # main'.user
  <2>1. CASE \E c \in ClientIds :
               user_id[c] = main.user /\ main' = [main EXCEPT !.pc = "check", !.index = c]
    BY <1>1, <2>1 DEF MainLocals, MainStates
  <2>2. CASE /\ \A c \in ClientIds : user_id[c] # main.user
             /\ main' = [main EXCEPT !.pc = "scan"]
    BY <1>1, <2>2 DEF MainLocals, MainStates
  <2> QED
    BY <2>1, <2>2 DEF Match
<1>4. TypeOK'
  BY <1>1, <1>2, <1>3 DEF IInv, TypeOK, table
<1>5. MainInv'
  BY <1>1, <1>2, <1>3 DEF IInv, MainInv, table, SlotIds
<1>6. OwnerInv'
  BY <1>1, <1>2, <1>3 DEF IInv, OwnerInv, OwnsSlot, Owns, table
<1>7. SocketInv'
  BY <1>1, <1>2, <1>3 DEF IInv, SocketInv, FreeSockets, ThreadSocket, HeldPorts, Owns, table
<1>8. DirInv'
  BY <1>1, <1>2, <1>3 DEF IInv, DirInv, OwnDirectory, UniqueEntries, table
<1> QED
  BY <1>4, <1>5, <1>6, <1>7, <1>8 DEF IInv

(* A flag read as 0 stays 0: only the main thread sets flags.              *)
LEMMA ScanStep ==
  ASSUME IInv, Scan
  PROVE  IInv'
<1>1. main \in MainLocals
  BY DEF IInv, TypeOK
<1>2. main.pc = "scan" /\ UNCHANGED <<table, boundPorts, thread>>
  BY DEF Scan
<1>3. /\ main' \in MainLocals
      /\ main'.pc \in {"check", "scan"}
      /\ main'.index = main.index
      /\ main'.user = main.user
      /\ main'.pc = "scan" /\ main'.i < MAXCLIENTS =>
           \/ main'.s = 0
           \/ /\ main'.i = main.i
              /\ main.i < MAXCLIENTS
              /\ main.s < MAXSESSIONS
              /\ main'.s = main.s + 1
              /\ session_active[main.i][main.s] # 1
  <2>1. CASE main' = [main EXCEPT !.pc = "check"]
    BY <1>1, <2>1 DEF MainLocals, MainStates
  <2>2. CASE /\ main.i < MAXCLIENTS
             /\ main' = [main EXCEPT !.i = @ + 1, !.s = 0]
    <3>1. main.i + 1 \in 0 .. MAXCLIENTS /\ 0 \in 0 .. MAXSESSIONS
      BY <1>1, <2>2, SessionsAssumption DEF MainLocals, MAXSESSIONS
    <3> QED
      BY <1>1, <1>2, <2>2, <3>1, Zenon DEF MainLocals
  <2>3. CASE /\ main.i < MAXCLIENTS /\ main.s < MAXSESSIONS
             /\ session_active[main.i][main.s] # 1
             /\ main' = [main EXCEPT !.s = @ + 1]
    BY <1>1, <1>2, <2>3 DEF MainLocals, MainStates, MAXSESSIONS
  <2> QED
    BY <2>1, <2>2, <2>3 DEF Scan
<1>4. TypeOK'
  BY <1>1, <1>2, <1>3 DEF IInv, TypeOK, table
<1>5. MainInv'
  <2>1. session_active \in [ClientIds -> [SlotIds -> {0, 1}]]
    BY DEF IInv, TypeOK
  <2>2. ASSUME main'.pc = "scan", main'.i < MAXCLIENTS,
               NEW s \in SlotIds, s < main'.s
        PROVE  session_active[main'.i][s] = 0
    <3>1. main.i \in ClientIds
      BY <1>1, <1>3, <2>2, SessionsAssumption DEF MainLocals, ClientIds, SlotIds
    <3> QED
      BY <1>1, <1>2, <1>3, <2>1, <2>2, <3>1
         DEF IInv, MainInv, MainLocals, SlotIds, MAXSESSIONS
  <2> QED
    BY <1>2, <1>3, <2>2 DEF IInv, MainInv, table
<1>6. OwnerInv'
  BY <1>1, <1>2, <1>3 DEF IInv, OwnerInv, OwnsSlot, Owns, table
<1>7. SocketInv'
  BY <1>1, <1>2, <1>3 DEF IInv, SocketInv, FreeSockets, ThreadSocket, HeldPorts, Owns, table
<1>8. DirInv'
  BY <1>1, <1>2, <1>3 DEF IInv, DirInv, OwnDirectory, UniqueEntries, table
<1> QED
  BY <1>4, <1>5, <1>6, <1>7, <1>8 DEF IInv

(* The entry that changes its user has no owner: an owner's flag is 1, and   *)
(* all flags of this entry were read as 0 and are still 0.                  *)
LEMMA ClaimStep ==
  ASSUME IInv, Claim
  PROVE  IInv'
<1>1. main \in MainLocals
  BY DEF IInv, TypeOK
<1>2. /\ main.pc = "scan"
      /\ UNCHANGED <<session_active, session_port, socket_set, socket,
                     boundPorts, thread>>
  BY DEF Claim
<1>3. /\ main.i \in ClientIds
      /\ user_id' = [user_id EXCEPT ![main.i] = main.user]
  BY <1>1, SessionsAssumption DEF Claim, MainLocals, ClientIds
<1>4. /\ main' \in MainLocals
      /\ main'.pc = "check"
      /\ main'.index = main.i
      /\ main'.user = main.user
  BY <1>1, <1>3 DEF Claim, MainLocals, MainStates
<1>5. user_id \in [ClientIds -> Names] /\ main.user \in Names
  BY <1>1 DEF IInv, TypeOK, MainLocals
<1>6. \A s \in SlotIds : session_active[main.i][s] = 0
  BY SMT DEF Claim, IInv, MainInv, SlotIds, MAXSESSIONS
<1>7. \A c \in ClientIds : user_id[c] # main.user
  BY <1>2 DEF IInv, MainInv
<1>8. \A t \in Threads : Owns(t) => thread[t].c # main.i
  BY <1>6 DEF IInv, TypeOK, OwnerInv, OwnsSlot, ThreadLocals
<1>9. TypeOK'
  BY <1>1, <1>2, <1>3, <1>4, <1>5, <1>6, <1>7, <1>8 DEF IInv, TypeOK, table
<1>10. MainInv'
  BY <1>1, <1>2, <1>3, <1>4, <1>5, <1>6, <1>7, <1>8 DEF IInv, MainInv, table
<1>11. OwnerInv'
  BY <1>1, <1>2, <1>3, <1>4, <1>5, <1>6, <1>7, <1>8 DEF IInv, OwnerInv, OwnsSlot, Owns, table
<1>12. SocketInv'
  BY <1>1, <1>2, <1>3, <1>4, <1>5, <1>6, <1>7, <1>8 DEF IInv, SocketInv, FreeSockets, ThreadSocket, HeldPorts, Owns, table
<1>13. DirInv'
  BY <1>1, <1>2, <1>3, <1>4, <1>5, <1>6, <1>7, <1>8 DEF IInv, DirInv, OwnDirectory, UniqueEntries, table, Owns
<1> QED
  BY <1>9, <1>10, <1>11, <1>12, <1>13 DEF IInv

(* The opcode check refuses, or lets an entry of the user through.          *)
LEMMA CheckStep ==
  ASSUME IInv, Check
  PROVE  IInv'
<1>1. main \in MainLocals
  BY DEF IInv, TypeOK
<1>2. main.pc = "check" /\ UNCHANGED <<table, boundPorts, thread>>
  BY DEF Check
<1>3. /\ main' \in MainLocals
      /\ \/ main' = Refused
         \/ /\ main'.pc = "slots"
            /\ main'.index = main.index
            /\ main'.user = main.user
            /\ main.index # -1
  <2>1. CASE main' = Refused
    BY <2>1, SessionsAssumption
       DEF Refused, Idle, MainLocals, MainStates, MainOps, Names, MAXSESSIONS
  <2>2. CASE /\ main.index # -1
             /\ main' = [main EXCEPT !.pc = "slots", !.op = "OTHER", !.i = 0, !.s = 0]
    <3>1. 0 \in 0 .. MAXCLIENTS /\ 0 \in 0 .. MAXSESSIONS
      BY SessionsAssumption DEF MAXSESSIONS
    <3> QED
      BY <1>1, <2>2, <3>1 DEF MainLocals, MainStates, MainOps
  <2> QED
    BY <2>1, <2>2 DEF Check
<1>4. main.index # -1 => main.index \in ClientIds
  BY <1>1 DEF MainLocals
<1>5. TypeOK'
  BY <1>1, <1>2, <1>3, <1>4 DEF IInv, TypeOK, table
<1>6. MainInv'
  BY <1>1, <1>2, <1>3, <1>4 DEF IInv, MainInv, table, Refused, Idle
<1>7. OwnerInv'
  BY <1>1, <1>2, <1>3, <1>4 DEF IInv, OwnerInv, OwnsSlot, Owns, table, Refused, Idle
<1>8. SocketInv'
  BY <1>1, <1>2, <1>3, <1>4 DEF IInv, SocketInv, FreeSockets, ThreadSocket, HeldPorts, Owns, table, Refused, Idle
<1>9. DirInv'
  BY <1>1, <1>2, <1>3, <1>4 DEF IInv, DirInv, OwnDirectory, UniqueEntries, table
<1> QED
  BY <1>5, <1>6, <1>7, <1>8, <1>9 DEF IInv

(* Skipping a slot changes no slot.                                         *)
LEMMA SkipSlotStep ==
  ASSUME IInv, SkipSlot
  PROVE  IInv'
<1>1. main \in MainLocals
  BY DEF IInv, TypeOK
<1>2. main.pc = "slots" /\ UNCHANGED <<table, boundPorts, thread>>
  BY DEF SkipSlot
<1>3. /\ main' \in MainLocals
      /\ \/ main' = Refused
         \/ /\ main'.pc = "slots"
            /\ main'.index = main.index
            /\ main'.user = main.user
  BY <1>1, SessionsAssumption
     DEF SkipSlot, Refused, Idle, MainLocals, MainStates, MainOps, Names, MAXSESSIONS
<1>4. TypeOK'
  BY <1>1, <1>2, <1>3 DEF IInv, TypeOK, table
<1>5. MainInv'
  BY <1>1, <1>2, <1>3 DEF IInv, MainInv, table, Refused, Idle
<1>6. OwnerInv'
  BY <1>1, <1>2, <1>3 DEF IInv, OwnerInv, OwnsSlot, Owns, table, Refused, Idle
<1>7. SocketInv'
  BY <1>1, <1>2, <1>3 DEF IInv, SocketInv, FreeSockets, ThreadSocket, HeldPorts, Owns, table, Refused, Idle
<1>8. DirInv'
  BY <1>1, <1>2, <1>3 DEF IInv, DirInv, OwnDirectory, UniqueEntries, table
<1> QED
  BY <1>4, <1>5, <1>6, <1>7, <1>8 DEF IInv

(* A free slot has no owner, so the new thread will be its only one.       *)
LEMMA TakeSlotStep ==
  ASSUME IInv, TakeSlot
  PROVE  IInv'
<1>1. main \in MainLocals
  BY DEF IInv, TypeOK
<1>2. /\ main.pc = "slots"
      /\ UNCHANGED <<user_id, socket_set, socket, boundPorts, thread>>
  BY DEF TakeSlot
<1>3. /\ main.index \in ClientIds
      /\ main.s \in SlotIds
      /\ session_active[main.index][main.s] = 0
  BY <1>1 DEF TakeSlot, IInv, MainInv, MainLocals, SlotIds, MAXSESSIONS
<1>4. /\ main' \in MainLocals
      /\ main'.pc = "spawn"
      /\ main'.index = main.index
      /\ main'.s = main.s
      /\ main'.user = main.user
  BY <1>1 DEF TakeSlot, MainLocals, MainStates
<1>5. /\ session_active' \in [ClientIds -> [SlotIds -> {0, 1}]]
      /\ \A c \in ClientIds, s \in SlotIds :
           session_active'[c][s] = IF c = main.index /\ s = main.s
                                   THEN 1 ELSE session_active[c][s]
  BY <1>3 DEF TakeSlot, IInv, TypeOK
<1>6. Port(main.index, main.s) \in Nat
  BY <1>3, SessionsAssumption DEF Port, ClientIds, SlotIds, MAXSESSIONS
<1>7. /\ session_port' \in [ClientIds -> [SlotIds -> Nat]]
      /\ \A c \in ClientIds, s \in SlotIds :
           session_port'[c][s] = IF c = main.index /\ s = main.s
                                 THEN Port(c, s) ELSE session_port[c][s]
  BY <1>3, <1>6 DEF TakeSlot, IInv, TypeOK
<1>8. \A t \in Threads : Owns(t) =>
        /\ thread[t].c \in ClientIds /\ thread[t].s \in SlotIds
        /\ ~(thread[t].c = main.index /\ thread[t].s = main.s)
  BY <1>3 DEF IInv, TypeOK, OwnerInv, OwnsSlot, ThreadLocals, Owns
<1>9. TypeOK'
  BY <1>1, <1>2, <1>3, <1>4, <1>5, <1>6, <1>7, <1>8 DEF IInv, TypeOK, table
<1>10. MainInv'
  BY <1>1, <1>2, <1>3, <1>4, <1>5, <1>6, <1>7, <1>8 DEF IInv, MainInv, table
<1>11. OwnerInv'
  BY <1>1, <1>2, <1>3, <1>4, <1>5, <1>6, <1>7, <1>8 DEF IInv, OwnerInv, OwnsSlot, Owns, table
<1>12. SocketInv'
  BY <1>1, <1>2, <1>3, <1>4, <1>5, <1>6, <1>7, <1>8 DEF IInv, SocketInv, FreeSockets, ThreadSocket, HeldPorts, Owns, table
<1>13. DirInv'
  BY <1>1, <1>2, <1>3, <1>4, <1>5, <1>6, <1>7, <1>8 DEF IInv, DirInv, OwnDirectory, UniqueEntries, table
<1> QED
  BY <1>9, <1>10, <1>11, <1>12, <1>13 DEF IInv

(* The new thread becomes the owner of the slot just taken, or, if none can *)
(* be created, nobody does.                                                 *)
LEMMA SpawnStep ==
  ASSUME IInv, Spawn
  PROVE  IInv'
<1>1. main \in MainLocals
  BY DEF IInv, TypeOK
<1>2. /\ main.pc = "spawn"
      /\ main.index \in ClientIds
      /\ main.s \in SlotIds
      /\ user_id[main.index] = main.user
      /\ session_active[main.index][main.s] = 1
      /\ session_port[main.index][main.s] = Port(main.index, main.s)
      /\ UNCHANGED <<table, boundPorts>>
  BY DEF Spawn, IInv, MainInv
<1>3. main' \in MainLocals /\ main'.pc = "ack"
  BY <1>1 DEF Spawn, MainLocals, MainStates
<1>4. thread \in [Threads -> ThreadLocals]
  BY DEF IInv, TypeOK
<1>5. \/ UNCHANGED thread
      \/ \E t \in Threads :
           /\ thread[t].pc = "none"
           /\ thread' \in [Threads -> ThreadLocals]
           /\ \A u \in Threads : u # t => thread'[u] = thread[u]
           /\ thread'[t].pc = "start"
           /\ thread'[t].c = main.index
           /\ thread'[t].s = main.s
           /\ thread'[t].user = main.user
  <2>1. CASE \E t \in Threads :
               /\ thread[t].pc = "none"
               /\ thread' = [thread EXCEPT ![t] =
                               [NoThread EXCEPT !.pc = "start", !.c = main.index,
                                                !.s = main.s, !.user = main.user]]
    <3> DEFINE r == [NoThread EXCEPT !.pc = "start", !.c = main.index,
                                     !.s = main.s, !.user = main.user]
    <3>1. /\ r \in ThreadLocals
          /\ r.pc = "start"
          /\ r.c = main.index
          /\ r.s = main.s
          /\ r.user = main.user
      BY <1>1, <1>2, SessionsAssumption
         DEF NoThread, MainLocals, ThreadLocals, ThreadStates, SocketStates,
             Ops, Names, SlotIds, MAXSESSIONS
    <3> HIDE DEF r
    <3>2. \E t \in Threads : thread[t].pc = "none" /\ thread' = [thread EXCEPT ![t] = r]
      BY <2>1 DEF r
    <3> QED
      BY <1>4, <3>1, <3>2
  <2> QED
    BY <2>1 DEF Spawn
<1>6. TypeOK'
  BY <1>1, <1>2, <1>3, <1>4, <1>5 DEF IInv, TypeOK, table
<1>7. MainInv'
  BY <1>1, <1>2, <1>3, <1>4, <1>5 DEF IInv, MainInv, table
<1>8. OwnerInv'
  BY <1>1, <1>2, <1>3, <1>4, <1>5 DEF IInv, OwnerInv, OwnsSlot, Owns, table
<1>9. SocketInv'
  <2>1. CASE UNCHANGED thread
    BY <1>2, <1>3, <2>1 DEF IInv, SocketInv, FreeSockets, ThreadSocket, HeldPorts, Owns, table
  <2>2. ASSUME NEW t \in Threads,
               thread[t].pc = "none",
               \A u \in Threads : u # t => thread'[u] = thread[u],
               thread'[t].pc = "start",
               thread'[t].c = main.index,
               thread'[t].s = main.s
        PROVE  SocketInv'
    <3>1. \A c \in ClientIds, s \in SlotIds : Port(c, s) \in boundPorts =>
            \/ socket_set[c][s] = 1
            \/ \E u \in Threads : /\ thread'[u].pc = "publish"
                                  /\ thread'[u].c = c /\ thread'[u].s = s
      BY <2>2 DEF IInv, SocketInv, HeldPorts
    <3>2. /\ thread'[t].pc \notin {"bind", "publish"} \cup Serving
          /\ socket_set[main.index][main.s] = 1 => socket[main.index][main.s] = "bound"
      BY <1>2, <2>2 DEF IInv, SocketInv, FreeSockets, ThreadSocket, Serving
    <3> QED
      BY <1>2, <1>3, <2>2, <3>1, <3>2 DEF IInv, SocketInv, FreeSockets, ThreadSocket, HeldPorts, Owns, Serving, table
  <2> QED
    BY <1>5, <2>1, <2>2
<1>10. DirInv'
  BY <1>1, <1>2, <1>3, <1>4, <1>5 DEF IInv, DirInv, OwnDirectory, UniqueEntries, table
<1> QED
  BY <1>6, <1>7, <1>8, <1>9, <1>10 DEF IInv

(* The main thread forgets everything when it replies.                      *)
LEMMA ReplyStep ==
  ASSUME IInv, Reply
  PROVE  IInv'
<1>1. main \in MainLocals
  BY DEF IInv, TypeOK
<1>2. main.pc \in {"ack", "nack"} /\ UNCHANGED <<table, boundPorts, thread>>
  BY DEF Reply
<1>3. /\ main' \in MainLocals
      /\ main'.pc = "recv"
      /\ main'.index = -1
      /\ main'.s = 0
  BY SessionsAssumption
     DEF Reply, Idle, MainLocals, MainStates, MainOps, Names, MAXSESSIONS
<1>4. TypeOK'
  BY <1>1, <1>2, <1>3 DEF IInv, TypeOK, table
<1>5. MainInv'
  BY <1>1, <1>2, <1>3 DEF IInv, MainInv, table
<1>6. OwnerInv'
  BY <1>1, <1>2, <1>3 DEF IInv, OwnerInv, OwnsSlot, Owns, table
<1>7. SocketInv'
  BY <1>1, <1>2, <1>3 DEF IInv, SocketInv, FreeSockets, ThreadSocket, HeldPorts, Owns, table
<1>8. DirInv'
  BY <1>1, <1>2, <1>3 DEF IInv, DirInv, OwnDirectory, UniqueEntries, table
<1> QED
  BY <1>4, <1>5, <1>6, <1>7, <1>8 DEF IInv

-----------------------------------------------------------------------------
(* Steps of a session thread *)

(* The slot of a thread that starts has no socket, or a bound one.          *)
LEMMA StartStep ==
  ASSUME NEW t \in Threads, IInv, Start(t)
  PROVE  IInv'
<1>1. thread[t] \in ThreadLocals /\ thread \in [Threads -> ThreadLocals]
  BY DEF IInv, TypeOK
<1>2. /\ thread[t].pc = "start"
      /\ thread[t].c \in ClientIds
      /\ session_port[thread[t].c][thread[t].s] \in Nat
      /\ socket_set[thread[t].c][thread[t].s] \in {0, 1}
      /\ socket[thread[t].c][thread[t].s] \in SocketStates
      /\ session_port[thread[t].c][thread[t].s] = Port(thread[t].c, thread[t].s)
      /\ UNCHANGED <<table, boundPorts, main>>
  BY <1>1 DEF Start, IInv, TypeOK, OwnerInv, OwnsSlot, Owns, ThreadLocals
<1> DEFINE set == socket_set[thread[t].c][thread[t].s]
<1> DEFINE port == session_port[thread[t].c][thread[t].s]
<1> DEFINE sock == socket[thread[t].c][thread[t].s]
<1> DEFINE r == IF set = 0
                THEN [thread[t] EXCEPT !.port = port, !.pc = "bind"]
                ELSE [thread[t] EXCEPT !.port = port, !.pc = "recv", !.sock = sock]
<1>3. thread' = [thread EXCEPT ![t] = r]
  BY DEF Start
<1> HIDE DEF set, port, sock
<1>4. /\ r \in ThreadLocals
      /\ r.c = thread[t].c
      /\ r.s = thread[t].s
      /\ r.user = thread[t].user
      /\ r.port = port
      /\ r.pc = IF set = 0 THEN "bind" ELSE "recv"
      /\ set # 0 => r.sock = sock
  <2>1. port \in Nat /\ sock \in SocketStates
    BY <1>2 DEF port, sock
  <2>2. CASE set = 0
    BY <1>1, <2>1, <2>2 DEF ThreadLocals, ThreadStates
  <2>3. CASE set # 0
    BY <1>1, <2>1, <2>3 DEF ThreadLocals, ThreadStates
  <2> QED
    BY <2>2, <2>3
<1> HIDE DEF r
<1>5. /\ thread' \in [Threads -> ThreadLocals]
      /\ thread'[t] = r
      /\ \A u \in Threads : u # t => thread'[u] = thread[u]
  BY <1>1, <1>3, <1>4
<1>6. TypeOK'
  BY <1>1, <1>2, <1>3, <1>4, <1>5 DEF IInv, TypeOK, table
<1>7. MainInv'
  BY <1>1, <1>2, <1>3, <1>4, <1>5 DEF IInv, MainInv, table
<1>8. OwnerInv'
  BY <1>1, <1>2, <1>3, <1>4, <1>5 DEF IInv, OwnerInv, OwnsSlot, Owns, table, port, set, sock
<1>9. SocketInv'
  BY <1>1, <1>2, <1>3, <1>4, <1>5 DEF IInv, SocketInv, FreeSockets, ThreadSocket, HeldPorts, Owns, Serving, table, port, set, sock
<1>10. DirInv'
  BY <1>1, <1>2, <1>3, <1>4, <1>5 DEF IInv, DirInv, OwnDirectory, UniqueEntries, table
<1> QED
  BY <1>6, <1>7, <1>8, <1>9, <1>10 DEF IInv

(* A port that was free is bound; a failed bind leaves an unbound socket.   *)
LEMMA BindStep ==
  ASSUME NEW t \in Threads, IInv, Bind(t)
  PROVE  IInv'
<1>1. thread[t] \in ThreadLocals /\ thread \in [Threads -> ThreadLocals]
  BY DEF IInv, TypeOK
<1>2. /\ thread[t].pc = "bind"
      /\ thread[t].c \in ClientIds
      /\ thread[t].s \in SlotIds
      /\ thread[t].port = Port(thread[t].c, thread[t].s)
      /\ socket_set[thread[t].c][thread[t].s] = 0
      /\ UNCHANGED <<table, main>>
  BY <1>1 DEF Bind, IInv, OwnerInv, OwnsSlot, SocketInv, ThreadSocket, Owns, ThreadLocals
<1>3. PICK k \in {"bound", "unbound"} :
        thread' = [thread EXCEPT ![t] = [thread[t] EXCEPT !.pc = "publish", !.sock = k]]
  BY DEF Bind
<1>4. boundPorts' \subseteq boundPorts \cup {thread[t].port}
  BY DEF Bind
<1> DEFINE r == [thread[t] EXCEPT !.pc = "publish", !.sock = k]
<1>5. /\ r \in ThreadLocals
      /\ r.pc = "publish"
      /\ r.c = thread[t].c
      /\ r.s = thread[t].s
      /\ r.user = thread[t].user
      /\ r.port = thread[t].port
  BY <1>1 DEF ThreadLocals, ThreadStates, SocketStates
<1> HIDE DEF r
<1>6. /\ thread' \in [Threads -> ThreadLocals]
      /\ thread'[t] = r
      /\ \A u \in Threads : u # t => thread'[u] = thread[u]
  BY <1>1, <1>3, <1>5 DEF r
<1>7. TypeOK'
  BY <1>1, <1>2, <1>3, <1>4, <1>5, <1>6 DEF IInv, TypeOK, table, ThreadLocals
<1>8. MainInv'
  BY <1>1, <1>2, <1>3, <1>4, <1>5, <1>6 DEF IInv, MainInv, table
<1>9. OwnerInv'
  BY <1>1, <1>2, <1>3, <1>4, <1>5, <1>6 DEF IInv, OwnerInv, OwnsSlot, Owns, table
<1>10. SocketInv'
  <2>1. ASSUME NEW c \in ClientIds, NEW s \in SlotIds, Port(c, s) \in boundPorts'
        PROVE  \/ socket_set[c][s] = 1
               \/ \E u \in Threads : /\ thread'[u].pc = "publish"
                                     /\ thread'[u].c = c /\ thread'[u].s = s
    <3>1. CASE Port(c, s) \in boundPorts
      BY <1>2, <1>6, <3>1 DEF IInv, SocketInv, HeldPorts
    <3>2. CASE Port(c, s) = Port(thread[t].c, thread[t].s)
      BY <1>2, <1>5, <1>6, <3>2, PortInjective
    <3> QED
      BY <1>2, <1>4, <2>1, <3>1, <3>2
  <2> QED
    BY <1>1, <1>2, <1>5, <1>6, <2>1 DEF IInv, SocketInv, FreeSockets, ThreadSocket, HeldPorts, Owns, Serving, table
<1>11. DirInv'
  BY <1>1, <1>2, <1>3, <1>4, <1>5, <1>6 DEF IInv, DirInv, OwnDirectory, UniqueEntries, table
<1> QED
  BY <1>7, <1>8, <1>9, <1>10, <1>11 DEF IInv

(* Either the socket is bound and the thread serves it, or it is unbound and *)
(* the thread ends, leaving the slot taken.                                 *)
LEMMA PublishStep ==
  ASSUME NEW t \in Threads, IInv, Publish(t)
  PROVE  IInv'
<1>1. thread[t] \in ThreadLocals /\ thread \in [Threads -> ThreadLocals]
  BY DEF IInv, TypeOK
<1>2. /\ thread[t].pc = "publish"
      /\ thread[t].c \in ClientIds
      /\ thread[t].s \in SlotIds
      /\ session_active[thread[t].c][thread[t].s] = 1
      /\ UNCHANGED <<user_id, session_active, session_port, boundPorts, main>>
  BY <1>1 DEF Publish, IInv, OwnerInv, OwnsSlot, Owns, ThreadLocals
<1>3. /\ socket_set' \in [ClientIds -> [SlotIds -> {0, 1}]]
      /\ socket' \in [ClientIds -> [SlotIds -> SocketStates]]
      /\ \A c \in ClientIds, s \in SlotIds :
           IF c = thread[t].c /\ s = thread[t].s
           THEN socket_set'[c][s] = 1 /\ socket'[c][s] = thread[t].sock
           ELSE socket_set'[c][s] = socket_set[c][s] /\ socket'[c][s] = socket[c][s]
  BY <1>1, <1>2 DEF Publish, IInv, TypeOK, ThreadLocals
<1>4. /\ thread' \in [Threads -> ThreadLocals]
      /\ \A u \in Threads : u # t => thread'[u] = thread[u]
      /\ \/ /\ thread[t].sock = "bound"
            /\ thread'[t].pc = "recv"
            /\ thread'[t].c = thread[t].c
            /\ thread'[t].s = thread[t].s
            /\ thread'[t].port = thread[t].port
            /\ thread'[t].user = thread[t].user
            /\ thread'[t].sock = "bound"
         \/ thread'[t].pc = "none"
  <2>1. CASE thread[t].sock = "bound"
    BY <1>1, <2>1 DEF Publish, ThreadLocals, ThreadStates
  <2>2. CASE thread[t].sock # "bound"
    <3>1. NoThread \in ThreadLocals
      BY NoThreadType
    <3> QED
      BY <1>1, <2>2, <3>1 DEF Publish, NoThread
  <2> QED
    BY <2>1, <2>2
<1>5. \A u \in Threads : u # t /\ Owns(u) =>
        /\ thread[u].c \in ClientIds /\ thread[u].s \in SlotIds
        /\ ~(thread[u].c = thread[t].c /\ thread[u].s = thread[t].s)
  BY <1>1, <1>2 DEF IInv, TypeOK, OwnerInv, Owns, ThreadLocals
<1>6. TypeOK'
  BY <1>1, <1>2, <1>3, <1>4, <1>5 DEF IInv, TypeOK, table
<1>7. MainInv'
  BY <1>1, <1>2, <1>3, <1>4, <1>5 DEF IInv, MainInv, table
<1>8. OwnerInv'
  <2>1. \A u \in Threads : thread'[u].pc # "none" => thread'[u].c \in ClientIds
    BY <1>2, <1>4 DEF IInv, OwnerInv
  <2>2. ASSUME NEW u \in Threads, Owns(u)'
        PROVE  OwnsSlot(u)'
    <3>1. Owns(u) /\ OwnsSlot(u) /\ OwnsSlot(t)
      BY <1>2, <1>4, <2>2 DEF IInv, OwnerInv, Owns
    <3> QED
      BY <1>2, <1>4, <2>2, <3>1 DEF OwnsSlot, Owns
  <2>3. ASSUME NEW u \in Threads, NEW v \in Threads, u # v, Owns(u)', Owns(v)'
        PROVE  thread'[u].c # thread'[v].c \/ thread'[u].s # thread'[v].s
    BY <1>2, <1>4, <2>3 DEF IInv, OwnerInv, Owns
  <2> QED
    BY <1>4, <2>1, <2>2, <2>3 DEF IInv, OwnerInv
<1>9. SocketInv'
  <2>1. FreeSockets'
    BY <1>1, <1>2, <1>3 DEF IInv, SocketInv, FreeSockets, OwnerInv, OwnsSlot, Owns
  <2>2. ASSUME NEW u \in Threads
        PROVE  ThreadSocket(u)'
    BY <1>2, <1>3, <1>4, <1>5 DEF IInv, SocketInv, ThreadSocket, Owns, Serving
  <2>3. ASSUME NEW c \in ClientIds, NEW s \in SlotIds, Port(c, s) \in boundPorts
        PROVE  \/ socket_set'[c][s] = 1
               \/ \E u \in Threads : /\ thread'[u].pc = "publish"
                                     /\ thread'[u].c = c /\ thread'[u].s = s
    <3>1. CASE c = thread[t].c /\ s = thread[t].s
      BY <1>3, <3>1
    <3>2. CASE ~(c = thread[t].c /\ s = thread[t].s)
      <4>1. socket_set'[c][s] = socket_set[c][s]
        BY <1>3, <3>2
      <4>2. CASE socket_set[c][s] = 1
        BY <4>1, <4>2
      <4>3. ASSUME NEW u \in Threads,
                   thread[u].pc = "publish" /\ thread[u].c = c /\ thread[u].s = s
            PROVE  u # t /\ thread'[u] = thread[u]
        BY <1>4, <3>2, <4>3
      <4> QED
        BY <2>3, <4>2, <4>3 DEF IInv, SocketInv, HeldPorts
    <3> QED
      BY <3>1, <3>2
  <2> QED
    BY <1>2, <2>1, <2>2, <2>3 DEF SocketInv, HeldPorts
<1>10. DirInv'
  BY <1>1, <1>2, <1>3, <1>4, <1>5 DEF IInv, DirInv, OwnDirectory, UniqueEntries, table
<1> QED
  BY <1>6, <1>7, <1>8, <1>9, <1>10 DEF IInv

(* Receiving a request changes nothing that others see.                     *)
LEMMA ReceiveStep ==
  ASSUME NEW t \in Threads, NEW op \in Ops, IInv, Receive(t, op)
  PROVE  IInv'
<1>1. thread[t] \in ThreadLocals /\ thread \in [Threads -> ThreadLocals]
  BY DEF IInv, TypeOK
<1> DEFINE r == [thread[t] EXCEPT
               !.op = op, !.pc = CASE op = "CLOSE" -> "close"
                                   [] op = "OTHER" -> "recv"
                                   [] OTHER -> "path"]
<1>2. /\ r \in ThreadLocals
      /\ r.pc \in {"close", "recv", "path"}
      /\ r.pc = "close" => r.op = "CLOSE"
      /\ r.c = thread[t].c
      /\ r.s = thread[t].s
      /\ r.user = thread[t].user
      /\ r.port = thread[t].port
      /\ r.sock = thread[t].sock
  BY <1>1 DEF ThreadLocals, ThreadStates
<1>3. thread' = [thread EXCEPT ![t] = r]
  BY DEF Receive
<1> HIDE DEF r
<1>4. /\ thread' \in [Threads -> ThreadLocals]
      /\ thread'[t] = r
      /\ \A u \in Threads : u # t => thread'[u] = thread[u]
  BY <1>1, <1>2, <1>3
<1>5. thread[t].pc = "recv" /\ UNCHANGED <<table, boundPorts, main>>
  BY DEF Receive
<1>6. TypeOK'
  BY <1>1, <1>2, <1>3, <1>4, <1>5 DEF IInv, TypeOK, table
<1>7. MainInv'
  BY <1>1, <1>2, <1>3, <1>4, <1>5 DEF IInv, MainInv, table
<1>8. OwnerInv'
  BY <1>1, <1>2, <1>3, <1>4, <1>5 DEF IInv, OwnerInv, OwnsSlot, Owns, table
<1>9. SocketInv'
  BY <1>1, <1>2, <1>3, <1>4, <1>5 DEF IInv, SocketInv, FreeSockets, ThreadSocket, HeldPorts, Owns, Serving, table
<1>10. DirInv'
  BY <1>1, <1>2, <1>3, <1>4, <1>5 DEF IInv, DirInv, OwnDirectory, UniqueEntries, table
<1> QED
  BY <1>6, <1>7, <1>8, <1>9, <1>10 DEF IInv

(* The entry still belongs to the user of the session.                      *)
LEMMA BuildPathStep ==
  ASSUME NEW t \in Threads, IInv, BuildPath(t)
  PROVE  IInv'
<1>1. thread[t] \in ThreadLocals /\ thread \in [Threads -> ThreadLocals]
  BY DEF IInv, TypeOK
<1>2. /\ thread[t].pc = "path"
      /\ user_id[thread[t].c] = thread[t].user
      /\ thread[t].user \in Names
      /\ UNCHANGED <<table, boundPorts, main>>
  BY <1>1 DEF BuildPath, IInv, OwnerInv, OwnsSlot, Owns, ThreadLocals
<1> DEFINE r == [thread[t] EXCEPT !.dir = thread[t].user, !.pc = "transfer"]
<1>3. /\ r \in ThreadLocals
      /\ r.pc = "transfer"
      /\ r.dir = thread[t].user
      /\ r.c = thread[t].c
      /\ r.s = thread[t].s
      /\ r.user = thread[t].user
      /\ r.port = thread[t].port
      /\ r.sock = thread[t].sock
  BY <1>1, <1>2 DEF ThreadLocals, ThreadStates
<1>4. thread' = [thread EXCEPT ![t] = r]
  BY <1>2 DEF BuildPath
<1> HIDE DEF r
<1>5. /\ thread' \in [Threads -> ThreadLocals]
      /\ thread'[t] = r
      /\ \A u \in Threads : u # t => thread'[u] = thread[u]
  BY <1>1, <1>3, <1>4
<1>6. TypeOK'
  BY <1>1, <1>2, <1>3, <1>4, <1>5 DEF IInv, TypeOK, table
<1>7. MainInv'
  BY <1>1, <1>2, <1>3, <1>4, <1>5 DEF IInv, MainInv, table
<1>8. OwnerInv'
  BY <1>1, <1>2, <1>3, <1>4, <1>5 DEF IInv, OwnerInv, OwnsSlot, Owns, table
<1>9. SocketInv'
  BY <1>1, <1>2, <1>3, <1>4, <1>5 DEF IInv, SocketInv, FreeSockets, ThreadSocket, HeldPorts, Owns, Serving, table
<1>10. DirInv'
  BY <1>1, <1>2, <1>3, <1>4, <1>5 DEF IInv, DirInv, OwnDirectory, UniqueEntries, table
<1> QED
  BY <1>6, <1>7, <1>8, <1>9, <1>10 DEF IInv

(* The end of a request changes nothing that others see.                    *)
LEMMA EndTransferStep ==
  ASSUME NEW t \in Threads, IInv, EndTransfer(t)
  PROVE  IInv'
<1>1. thread[t] \in ThreadLocals /\ thread \in [Threads -> ThreadLocals]
  BY DEF IInv, TypeOK
<1>2. thread[t].pc = "transfer" /\ UNCHANGED <<table, boundPorts, main>>
  BY DEF EndTransfer
<1> DEFINE r == IF thread[t].op = "UPLOAD"
                THEN [thread[t] EXCEPT !.dir = NoUser, !.pc = "replicate"]
                ELSE [thread[t] EXCEPT !.dir = NoUser, !.pc = "recv", !.op = "OTHER"]
<1>3. /\ r \in ThreadLocals
      /\ r.pc = "recv" \/ (r.pc = "replicate" /\ r.op = "UPLOAD")
      /\ r.c = thread[t].c
      /\ r.s = thread[t].s
      /\ r.user = thread[t].user
      /\ r.port = thread[t].port
      /\ r.sock = thread[t].sock
  <2>1. CASE thread[t].op = "UPLOAD"
    BY <1>1, <2>1 DEF ThreadLocals, ThreadStates, Names
  <2>2. CASE thread[t].op # "UPLOAD"
    <3>1. "recv" \in ThreadStates /\ "OTHER" \in Ops /\ NoUser \in Names
      BY DEF ThreadStates, Ops, Names
    <3>2. r = [thread[t] EXCEPT !.dir = NoUser, !.pc = "recv", !.op = "OTHER"]
      BY <2>2
    <3> HIDE DEF r
    <3>3. r \in ThreadLocals
      BY <1>1, <3>1, <3>2 DEF ThreadLocals
    <3> QED
      BY <1>1, <3>2, <3>3 DEF ThreadLocals
  <2> QED
    BY <2>1, <2>2
<1>4. thread' = [thread EXCEPT ![t] = r]
  BY DEF EndTransfer
<1> HIDE DEF r
<1>5. /\ thread' \in [Threads -> ThreadLocals]
      /\ thread'[t] = r
      /\ \A u \in Threads : u # t => thread'[u] = thread[u]
  BY <1>1, <1>3, <1>4
<1>6. TypeOK'
  BY <1>1, <1>2, <1>3, <1>4, <1>5 DEF IInv, TypeOK, table
<1>7. MainInv'
  BY <1>1, <1>2, <1>3, <1>4, <1>5 DEF IInv, MainInv, table
<1>8. OwnerInv'
  BY <1>1, <1>2, <1>3, <1>4, <1>5 DEF IInv, OwnerInv, OwnsSlot, Owns, table
<1>9. SocketInv'
  BY <1>1, <1>2, <1>3, <1>4, <1>5 DEF IInv, SocketInv, FreeSockets, ThreadSocket, HeldPorts, Owns, Serving, table
<1>10. DirInv'
  BY <1>1, <1>2, <1>3, <1>4, <1>5 DEF IInv, DirInv, OwnDirectory, UniqueEntries, table
<1> QED
  BY <1>6, <1>7, <1>8, <1>9, <1>10 DEF IInv

(* A thread stops owning its slot in the step that clears the flag, and     *)
(* leaves a bound socket behind.  At this point its opcode is CLOSE.        *)
LEMMA CloseStep ==
  ASSUME NEW t \in Threads, IInv, Close(t)
  PROVE  IInv'
<1>1. thread[t] \in ThreadLocals /\ thread \in [Threads -> ThreadLocals]
  BY DEF IInv, TypeOK
<1>2. /\ thread[t].pc = "close"
      /\ thread[t].op = "CLOSE"
      /\ Owns(t)
      /\ thread[t].c \in ClientIds
      /\ thread[t].s \in SlotIds
      /\ socket[thread[t].c][thread[t].s] = "bound"
      /\ UNCHANGED <<user_id, session_port, socket_set, socket, boundPorts, main>>
  BY <1>1 DEF Close, IInv, OwnerInv, OwnsSlot, SocketInv, ThreadSocket, Owns, Serving, ThreadLocals
<1>3. /\ session_active' \in [ClientIds -> [SlotIds -> {0, 1}]]
      /\ \A c \in ClientIds, s \in SlotIds :
           session_active'[c][s] = IF c = thread[t].c /\ s = thread[t].s
                                   THEN 0 ELSE session_active[c][s]
  BY <1>2 DEF Close, IInv, TypeOK
<1>4. /\ thread' \in [Threads -> ThreadLocals]
      /\ \A u \in Threads : u # t => thread'[u] = thread[u]
      /\ thread'[t].pc = "replicate"
      /\ thread'[t].op = "CLOSE"
      /\ thread'[t].c = thread[t].c
  BY <1>1, <1>2 DEF Close, ThreadLocals, ThreadStates
<1>5. \A u \in Threads : u # t /\ Owns(u) =>
        /\ thread[u].c \in ClientIds /\ thread[u].s \in SlotIds
        /\ ~(thread[u].c = thread[t].c /\ thread[u].s = thread[t].s)
  BY <1>1, <1>2 DEF IInv, TypeOK, OwnerInv, Owns, ThreadLocals
<1>6. /\ ~(main.pc = "spawn" /\ main.index = thread[t].c /\ main.s = thread[t].s)
      /\ main.pc = "scan" => main.i \in 0 .. MAXCLIENTS
  BY <1>2 DEF IInv, OwnerInv, OwnsSlot, TypeOK, MainLocals
<1>7. TypeOK'
  BY <1>1, <1>2, <1>3, <1>4, <1>5, <1>6 DEF IInv, TypeOK, table
<1>8. MainInv'
  <2>1. ASSUME NEW s \in SlotIds, main.pc = "scan", main.i < MAXCLIENTS, s < main.s
        PROVE  session_active'[main.i][s] = 0
    <3>1. main.i \in ClientIds
      BY <1>6, <2>1, SessionsAssumption DEF ClientIds
    <3> QED
      BY <1>3, <2>1, <3>1 DEF IInv, MainInv
  <2>2. ASSUME main.pc = "spawn"
        PROVE  session_active'[main.index][main.s] = 1
    BY <1>3, <1>6, <2>2 DEF IInv, MainInv
  <2> QED
    BY <1>2, <2>1, <2>2 DEF IInv, MainInv
<1>9. OwnerInv'
  <2>1. \A u \in Threads : /\ thread'[u].pc # "none" => thread'[u].c \in ClientIds
                           /\ thread'[u].pc = "close" => thread'[u].op = "CLOSE"
    BY <1>2, <1>4 DEF IInv, OwnerInv
  <2>2. ASSUME NEW u \in Threads, Owns(u)'
        PROVE  u # t /\ thread'[u] = thread[u] /\ Owns(u)
    BY <1>4, <2>2 DEF Owns
  <2>3. ASSUME NEW u \in Threads, Owns(u)'
        PROVE  OwnsSlot(u)'
    <3>1. u # t /\ thread'[u] = thread[u] /\ Owns(u) /\ OwnsSlot(u)
      BY <2>2, <2>3 DEF IInv, OwnerInv
    <3> QED
      BY <1>2, <1>3, <1>5, <3>1 DEF OwnsSlot
  <2> QED
    BY <2>1, <2>2, <2>3 DEF IInv, OwnerInv
<1>10. SocketInv'
  <2>1. FreeSockets'
    BY <1>2, <1>3 DEF IInv, SocketInv, FreeSockets
  <2>2. ASSUME NEW u \in Threads
        PROVE  ThreadSocket(u)'
    BY <1>1, <1>2, <1>4 DEF IInv, SocketInv, ThreadSocket, Owns, Serving
  <2>3. HeldPorts'
    BY <1>2, <1>4 DEF IInv, SocketInv, HeldPorts
  <2> QED
    BY <2>1, <2>2, <2>3 DEF SocketInv
<1>11. DirInv'
  BY <1>1, <1>2, <1>3, <1>4, <1>5, <1>6 DEF IInv, DirInv, OwnDirectory, UniqueEntries, table
<1> QED
  BY <1>7, <1>8, <1>9, <1>10, <1>11 DEF IInv

(* A closed session ends, any other goes on with the same slot.             *)
LEMMA ReplicateStep ==
  ASSUME NEW t \in Threads, IInv, Replicate(t)
  PROVE  IInv'
<1>1. thread[t] \in ThreadLocals /\ thread \in [Threads -> ThreadLocals]
  BY DEF IInv, TypeOK
<1>2. thread[t].pc = "replicate" /\ UNCHANGED <<table, boundPorts, main>>
  BY DEF Replicate
<1>3. /\ thread' \in [Threads -> ThreadLocals]
      /\ \A u \in Threads : u # t => thread'[u] = thread[u]
      /\ \/ thread'[t].pc = "none"
         \/ /\ thread[t].op # "CLOSE"
            /\ thread'[t].pc = "recv"
            /\ thread'[t].c = thread[t].c
            /\ thread'[t].s = thread[t].s
            /\ thread'[t].port = thread[t].port
            /\ thread'[t].user = thread[t].user
            /\ thread'[t].sock = thread[t].sock
  <2>1. CASE thread[t].op = "CLOSE"
    <3>1. NoThread \in ThreadLocals
      BY NoThreadType
    <3> QED
      BY <1>1, <2>1, <3>1 DEF Replicate, NoThread
  <2>2. CASE thread[t].op # "CLOSE"
    <3> DEFINE r == [thread[t] EXCEPT !.pc = "recv", !.op = "OTHER"]
    <3>1. /\ r \in ThreadLocals
          /\ r.pc = "recv"
          /\ r.c = thread[t].c
          /\ r.s = thread[t].s
          /\ r.user = thread[t].user
          /\ r.port = thread[t].port
          /\ r.sock = thread[t].sock
      BY <1>1 DEF ThreadLocals, ThreadStates, Ops
    <3>2. thread' = [thread EXCEPT ![t] = r]
      BY <2>2 DEF Replicate
    <3> HIDE DEF r
    <3> QED
      BY <1>1, <2>2, <3>1, <3>2
  <2> QED
    BY <2>1, <2>2
<1>4. TypeOK'
  BY <1>1, <1>2, <1>3 DEF IInv, TypeOK, table
<1>5. MainInv'
  BY <1>1, <1>2, <1>3 DEF IInv, MainInv, table
<1>6. OwnerInv'
  BY <1>1, <1>2, <1>3 DEF IInv, OwnerInv, OwnsSlot, Owns, table
<1>7. SocketInv'
  BY <1>1, <1>2, <1>3 DEF IInv, SocketInv, FreeSockets, ThreadSocket, HeldPorts, Owns, Serving, table
<1>8. DirInv'
  BY <1>1, <1>2, <1>3 DEF IInv, DirInv, OwnDirectory, UniqueEntries, table
<1> QED
  BY <1>4, <1>5, <1>6, <1>7, <1>8 DEF IInv

-----------------------------------------------------------------------------
(* The invariant *)

(* Nothing is owned, bound or taken at the start.                           *)
LEMMA InitInv ==
  ASSUME Init
  PROVE  IInv
<1>1. main.pc = "recv" /\ main.index = -1 /\ main.s = 0
  BY DEF Init, Idle
<1>2. \A t \in Threads : thread[t] = NoThread /\ thread[t].pc = "none"
  BY DEF Init, NoThread
<1>3. TypeOK
  <2>1. main \in MainLocals
    BY SessionsAssumption
       DEF Init, Idle, MainLocals, MainStates, MainOps, Names, MAXSESSIONS
  <2>2. thread \in [Threads -> ThreadLocals]
    BY NoThreadType DEF Init
  <2> QED
    BY <2>1, <2>2, SessionsAssumption DEF Init, TypeOK, Names, SocketStates
<1>4. MainInv
  BY <1>1 DEF MainInv
<1>5. OwnerInv
  BY <1>2 DEF OwnerInv, Owns
<1>6. SocketInv
  <2>1. FreeSockets
    BY DEF Init, FreeSockets
  <2>2. \A t \in Threads : ThreadSocket(t)
    BY <1>2 DEF ThreadSocket, Serving
  <2>3. HeldPorts
    BY SessionsAssumption DEF Init, HeldPorts, Port, ClientIds, SlotIds, MAXSESSIONS
  <2> QED
    BY <2>1, <2>2, <2>3 DEF SocketInv
<1>7. DirInv
  <2>1. UniqueEntries
    BY SessionsAssumption DEF Init, UniqueEntries
  <2> QED
    BY <1>2, <2>1 DEF DirInv, OwnDirectory
<1> QED
  BY <1>3, <1>4, <1>5, <1>6, <1>7 DEF IInv

(* Every step preserves the inductive invariant, action by action.          *)
LEMMA NextInv ==
  ASSUME IInv, [Next]_vars
  PROVE  IInv'
<1>1. CASE UNCHANGED vars
  BY <1>1 DEF vars, IInv, TypeOK, MainInv, OwnerInv, OwnsSlot, Owns, SocketInv,
              FreeSockets, ThreadSocket, HeldPorts, DirInv, OwnDirectory,
              UniqueEntries
<1>2. ASSUME NEW op \in MainOps, NEW user \in Names, MainRecv(op, user)
      PROVE  IInv'
  BY <1>2, MainRecvStep
<1>3. CASE MainStep
  BY <1>3, MatchStep, ScanStep, ClaimStep, CheckStep, SkipSlotStep,
     TakeSlotStep, SpawnStep, ReplyStep DEF MainStep
<1>4. ASSUME NEW t \in Threads, NEW op \in Ops, Receive(t, op)
      PROVE  IInv'
  BY <1>4, ReceiveStep
<1>5. ASSUME NEW t \in Threads, ThreadStep(t)
      PROVE  IInv'
  BY <1>5, StartStep, BindStep, PublishStep, BuildPathStep, EndTransferStep,
     CloseStep, ReplicateStep DEF ThreadStep
<1> QED
  BY <1>1, <1>2, <1>3, <1>4, <1>5 DEF Next

(* The inductive invariant holds of dropboxServer.c's table and threads     *)
(* throughout.                                                              *)
THEOREM Invariance == Spec => []IInv
<1>1. Init => IInv
  BY InitInv
<1>2. IInv /\ [Next]_vars => IInv'
  BY NextInv
<1> QED
  BY <1>1, <1>2, PTL DEF Spec

-----------------------------------------------------------------------------
(* What follows from it *)

(* The table, the main thread and the session threads keep their types.     *)
THEOREM TypeCorrect == Spec => []TypeOK
<1>1. IInv => TypeOK
  BY DEF IInv
<1> QED
  BY <1>1, Invariance, PTL

(* A request is carried out in the directory of the session's own user.     *)
THEOREM DirectoryCorrect == Spec => []OwnDirectory
<1>1. IInv => OwnDirectory
  BY DEF IInv, DirInv
<1> QED
  BY <1>1, Invariance, PTL

(* No user has two entries of client_list.                                  *)
THEOREM EntriesUnique == Spec => []UniqueEntries
<1>1. IInv => UniqueEntries
  BY DEF IInv, DirInv
<1> QED
  BY <1>1, Invariance, PTL

(* Two threads that own a slot never take requests from the same port.      *)
THEOREM ReceiverUnique == Spec => []OneReceiverPerPort
<1>1. ASSUME IInv, NEW t \in Threads, NEW u \in Threads, t # u,
             Owns(t), Owns(u), thread[t].pc # "start", thread[u].pc # "start"
      PROVE  thread[t].port # thread[u].port
  <2>1. /\ thread[t].c \in ClientIds /\ thread[t].s \in SlotIds
        /\ thread[u].c \in ClientIds /\ thread[u].s \in SlotIds
    BY <1>1 DEF IInv, TypeOK, ThreadLocals, OwnerInv, Owns
  <2>2. /\ thread[t].port = Port(thread[t].c, thread[t].s)
        /\ thread[u].port = Port(thread[u].c, thread[u].s)
    BY <1>1 DEF IInv, OwnerInv, OwnsSlot
  <2>3. thread[t].c # thread[u].c \/ thread[t].s # thread[u].s
    BY <1>1 DEF IInv, OwnerInv
  <2> QED
    BY <2>1, <2>2, <2>3, PortInjective
<1>2. IInv => OneReceiverPerPort
  BY <1>1 DEF OneReceiverPerPort
<1> QED
  BY <1>2, Invariance, PTL

(* A thread that takes requests takes them from a bound socket.             *)
THEOREM SocketBound == Spec => []ServesBoundSocket
<1>1. IInv => ServesBoundSocket
  BY DEF IInv, SocketInv, ThreadSocket, ServesBoundSocket, Serving, Owns
<1> QED
  BY <1>1, Invariance, PTL

(* A new session never asks for a port this process already holds.          *)
THEOREM PortFresh == Spec => []BindsFreshPort
<1>1. ASSUME IInv, NEW t \in Threads, thread[t].pc = "bind"
      PROVE  thread[t].port \notin boundPorts
  <2>1. thread[t].c \in ClientIds /\ thread[t].s \in SlotIds /\ Owns(t)
    BY <1>1 DEF IInv, TypeOK, ThreadLocals, OwnerInv, Owns
  <2>2. /\ thread[t].port = Port(thread[t].c, thread[t].s)
        /\ socket_set[thread[t].c][thread[t].s] = 0
    BY <1>1, <2>1 DEF IInv, OwnerInv, OwnsSlot, SocketInv, ThreadSocket
  <2>3. ASSUME NEW u \in Threads, thread[u].pc = "publish"
        PROVE  thread[u].c # thread[t].c \/ thread[u].s # thread[t].s
    BY <1>1, <2>1, <2>3 DEF IInv, OwnerInv, Owns
  <2> QED
    BY <2>1, <2>2, <2>3, <1>1 DEF IInv, SocketInv, HeldPorts
<1>2. IInv => BindsFreshPort
  BY <1>1 DEF BindsFreshPort
<1> QED
  BY <1>2, Invariance, PTL

(* An entry changes its user only when none of its sessions is active: the  *)
(* flags that Claim relies on were read earlier, one at a time.             *)
THEOREM ReassignedIdle == Spec => ReassignedOnlyWhenIdle
<1> DEFINE A == \A c \in ClientIds : user_id'[c] # user_id[c]
                  => \A s \in SlotIds : session_active[c][s] = 0
<1>1. ASSUME IInv, Next
      PROVE  A
  <2>1. CASE Claim
    <3>1. /\ main.i \in ClientIds
          /\ \A s \in SlotIds : session_active[main.i][s] = 0
      BY <2>1, <1>1, SessionsAssumption
         DEF Claim, IInv, TypeOK, MainLocals, MainInv, ClientIds, SlotIds, MAXSESSIONS
    <3> QED
      BY <1>1, <2>1, <3>1 DEF Claim, IInv, TypeOK
  <2>2. CASE ~Claim
    <3>1. user_id' = user_id
      BY <1>1, <2>2
         DEF Next, MainStep, ThreadStep, table, MainRecv, Match, Scan, Check,
             SkipSlot, TakeSlot, Spawn, Reply, Receive, Start, Bind, Publish,
             BuildPath, EndTransfer, Close, Replicate
    <3> QED
      BY <3>1
  <2> QED
    BY <2>1, <2>2
<1>2. IInv /\ [Next]_vars => [A]_vars
  BY <1>1
<1> QED
  BY <1>2, Invariance, PTL DEF Spec, ReassignedOnlyWhenIdle

(* A step of a session thread gives no thread a slot.                       *)
LEMMA NoNewOwner ==
  ASSUME IInv, NEW t \in Threads, NEW op \in Ops,
         Receive(t, op) \/ ThreadStep(t), NEW u \in Threads, Owns(u)'
  PROVE  Owns(u) /\ thread'[u].c = thread[u].c /\ thread'[u].s = thread[u].s
<1>1. thread \in [Threads -> ThreadLocals] /\ thread[t] \in ThreadLocals
  BY DEF IInv, TypeOK
<1>2. CASE Receive(t, op)
  BY <1>1, <1>2 DEF Receive, Owns, ThreadLocals
<1>3. CASE Start(t)
  BY <1>1, <1>3 DEF Start, Owns, ThreadLocals, NoThread
<1>4. CASE Bind(t)
  <2>1. PICK k \in {"bound", "unbound"} :
          thread' = [thread EXCEPT ![t] = [thread[t] EXCEPT !.pc = "publish", !.sock = k]]
    BY <1>4 DEF Bind
  <2>2. thread[t].pc = "bind"
    BY <1>4 DEF Bind
  <2> QED
    BY <1>1, <2>1, <2>2 DEF Owns, ThreadLocals
<1>5. CASE Publish(t)
  BY <1>1, <1>5 DEF Publish, Owns, ThreadLocals, NoThread
<1>6. CASE BuildPath(t)
  BY <1>1, <1>6 DEF BuildPath, Owns, ThreadLocals, NoThread
<1>7. CASE EndTransfer(t)
  BY <1>1, <1>7 DEF EndTransfer, Owns, ThreadLocals, NoThread
<1>8. CASE Close(t)
  BY <1>1, <1>8 DEF Close, Owns, ThreadLocals, NoThread
<1>9. CASE Replicate(t)
  BY <1>1, <1>9 DEF Replicate, Owns, ThreadLocals, NoThread
<1> QED
  BY <1>2, <1>3, <1>4, <1>5, <1>6, <1>7, <1>8, <1>9 DEF ThreadStep

(* A slot once leaked stays leaked.                                         *)
THEOREM LeakPermanent == Spec => LeakIsPermanent
<1> DEFINE A == \A c \in ClientIds, s \in SlotIds : Leaked(c, s) => Leaked(c, s)'
<1>1. ASSUME IInv, Next, NEW c \in ClientIds, NEW s \in SlotIds, Leaked(c, s)
      PROVE  Leaked(c, s)'
  <2>0. main \in MainLocals /\ thread \in [Threads -> ThreadLocals]
    BY <1>1 DEF IInv, TypeOK
  <2>1. ASSUME NEW t \in Threads, NEW op \in Ops, Receive(t, op) \/ ThreadStep(t)
        PROVE  Leaked(c, s)'
    <3>1. main' = main
      BY <2>1 DEF ThreadStep, Receive, Start, Bind, Publish, BuildPath,
                  EndTransfer, Close, Replicate
    <3>2. session_active'[c][s] = 1
      <4>1. CASE Close(t)
        <5>1. Owns(t) /\ thread[t].c \in ClientIds /\ thread[t].s \in SlotIds
          BY <1>1, <2>0, <4>1 DEF Close, Owns, IInv, OwnerInv, ThreadLocals
        <5> QED
          BY <1>1, <4>1, <5>1 DEF Close, Leaked, IInv, TypeOK
      <4>2. CASE ~Close(t)
        BY <1>1, <2>1, <4>2 DEF ThreadStep, Receive, Start, Bind, Publish,
           BuildPath, EndTransfer, Replicate, Leaked, table
      <4> QED
        BY <4>1, <4>2
    <3> QED
      BY <1>1, <2>1, <3>1, <3>2, NoNewOwner DEF Leaked
  <2>2. CASE TakeSlot
    <3>1. main.index \in ClientIds /\ main.s \in SlotIds
      BY <1>1, <2>0, <2>2
         DEF TakeSlot, IInv, MainInv, MainLocals, SlotIds, MAXSESSIONS
    <3>2. main' = [main EXCEPT !.pc = "spawn"] /\ UNCHANGED thread
      BY <2>2 DEF TakeSlot
    <3>3. session_active'[c][s] = 1 /\ ~(main.index = c /\ main.s = s)
      BY <1>1, <2>2, <3>1 DEF TakeSlot, Leaked, IInv, TypeOK
    <3> QED
      BY <1>1, <2>0, <3>2, <3>3 DEF Leaked, Owns, MainLocals
  <2>3. CASE Spawn
    <3>1. /\ main.pc = "spawn"
          /\ main' = [main EXCEPT !.pc = "ack"]
          /\ UNCHANGED session_active
      BY <2>3 DEF Spawn, table
    <3>2. ASSUME NEW u \in Threads, Owns(u)'
          PROVE  \/ Owns(u) /\ thread'[u].c = thread[u].c /\ thread'[u].s = thread[u].s
                 \/ thread'[u].c = main.index /\ thread'[u].s = main.s
      BY <2>0, <2>3, <3>2 DEF Spawn, Owns, NoThread, ThreadLocals
    <3> QED
      BY <1>1, <2>0, <3>1, <3>2 DEF Leaked, MainLocals
  <2>4. ASSUME ~TakeSlot, ~Spawn,
               \/ MainStep
               \/ \E op \in MainOps, user \in Names : MainRecv(op, user)
        PROVE  Leaked(c, s)'
    <3>1. UNCHANGED <<session_active, thread>>
      BY <2>4 DEF MainStep, MainRecv, Match, Scan, Claim, Check, SkipSlot, Reply,
                  table
    <3>2. main'.pc # "spawn"
      <4>1. ASSUME NEW op \in MainOps, NEW user \in Names, MainRecv(op, user)
            PROVE  main'.pc # "spawn"
        BY <2>0, <4>1 DEF MainRecv, MainLocals
      <4>2. CASE Match
        BY <2>0, <4>2 DEF Match, MainLocals
      <4>3. CASE Scan
        BY <2>0, <4>3 DEF Scan, MainLocals
      <4>4. CASE Claim
        BY <2>0, <4>4 DEF Claim, MainLocals
      <4>5. CASE Check
        BY <2>0, <4>5 DEF Check, Refused, Idle, MainLocals
      <4>6. CASE SkipSlot
        BY <2>0, <4>6 DEF SkipSlot, Refused, Idle, MainLocals
      <4>7. CASE Reply
        BY <4>7 DEF Reply, Idle
      <4> QED
        BY <2>4, <4>1, <4>2, <4>3, <4>4, <4>5, <4>6, <4>7 DEF MainStep
    <3> QED
      BY <1>1, <3>1, <3>2 DEF Leaked, Owns
  <2> QED
    BY <1>1, <2>1, <2>2, <2>3, <2>4 DEF Next, Ops
<1>2. IInv /\ [Next]_vars => [A]_vars
  BY <1>1
<1> QED
  BY <1>2, Invariance, PTL DEF Spec, LeakIsPermanent

=============================================================================
