-------------------------- MODULE SessionNetProofs --------------------------
(***************************************************************************)
(* Proofs about SessionNet, for any number of devices, users, entries and  *)
(* threads and any number of faults: a device that has logged in has its   *)
(* slot to itself, and a session serves the device that logged in to it.   *)
(* The steps of the composition are steps of Sessions, or leave the table  *)
(* alone, by construction, so that IInv of SessionsProofs holds here.      *)
(***************************************************************************)
EXTENDS SessionNet, SessionsProofs

SlotOf(t, c, s) == Owns(t) /\ thread[t].c = c /\ thread[t].s = s
Occupied(c, s) == \E t \in Threads : SlotOf(t, c, s)

(* The slot is taken, and only a session of d can be at it.                 *)
Reserved(d, c, s) ==
    /\ session_active[c][s] = 1
    /\ \A t \in Threads : SlotOf(t, c, s) => owner[t] = d

(* The main thread has taken the slot and has not answered yet.             *)
Announcing(c, s) == main.pc \in {"spawn", "ack"} /\ main.index = c /\ main.s = s

Finished == {"closing", "closed", "exited"}

(* Who knows a port has its slot.                                           *)
PortInv ==
    \A d \in Devices, c \in ClientIds, s \in SlotIds :
        Knows(d, c, s) => Reserved(d, c, s) /\ ~Announcing(c, s)

(* What waits at a session's socket is from the device that has the slot,   *)
(* and nothing follows its CLOSE.                                           *)
QueueInv ==
    \A c \in ClientIds, s \in SlotIds, m \in Messages :
        \A i \in 1 .. Len(queue[Port(c, s)]) : queue[Port(c, s)][i] = m =>
            /\ Reserved(m.from, c, s) /\ ~Announcing(c, s)
            /\ m.op = "CLOSE" /\ Occupied(c, s) =>
                 i = Len(queue[Port(c, s)]) /\ device[m.from].pc \in Finished

(* The thread that login has created belongs to the device to be answered.  *)
AnnounceInv ==
    main.pc = "ack" =>
        /\ Reserved(mainClient, main.index, main.s)
        /\ \A t \in Threads : SlotOf(t, main.index, main.s) => thread[t].pc # "close"

(* When a session closes, its device sends no more and its socket is empty. *)
CloseInv ==
    \A t \in Threads : thread[t].pc = "close" =>
        /\ owner[t] \in Devices /\ device[owner[t]].pc \in Finished
        /\ queue[Port(thread[t].c, thread[t].s)] = <<>>

(* No two devices know the same port.                                       *)
ApartInv ==
    \A d, e \in Devices, c \in ClientIds, s \in SlotIds :
        Knows(d, c, s) /\ Knows(e, c, s) => d = e

ClientInv ==
    \A t \in Threads : /\ client[t] \in {NoDevice, owner[t]}
                       /\ thread[t].pc = "none" => client[t] = NoDevice

NoStray == faults["dup"] = 0 /\ faults["late"] = 0

OwnInv == PortInv /\ QueueInv /\ AnnounceInv /\ CloseInv /\ ClientInv

AckSlot == main.pc = "ack" => main.index \in ClientIds /\ main.s \in SlotIds

NetInv == IInv /\ NetTypeOK /\ AckSlot /\ (NoStray => OwnInv /\ ApartInv)

-----------------------------------------------------------------------------
(* Steps of the table *)

(* The thread that takes a packet listens at its own slot's port.           *)
LEMMA ReceiverAt ==
  ASSUME IInv, NEW t \in Threads, thread[t].pc = "recv"
  PROVE  /\ Owns(t)
         /\ thread[t].c \in ClientIds /\ thread[t].s \in SlotIds
         /\ thread[t].port = Port(thread[t].c, thread[t].s)
         /\ thread[t].port \in SessionPorts
<1>1. /\ Owns(t)
      /\ thread[t].c \in ClientIds /\ thread[t].s \in SlotIds
  BY DEF IInv, OwnerInv, TypeOK, ThreadLocals, Owns
<1>2. thread[t].port = Port(thread[t].c, thread[t].s)
  BY <1>1 DEF IInv, OwnerInv, OwnsSlot
<1> QED
  BY <1>1, <1>2 DEF SessionPorts

(* What is left of a queue when its head is taken.                         *)
LEMMA HeadTail ==
  ASSUME NEW S, NEW q \in Seq(S), q # <<>>
  PROVE  /\ Head(q) \in S /\ Head(q) = q[1] /\ 1 \in 1 .. Len(q)
         /\ Tail(q) \in Seq(S) /\ Len(Tail(q)) = Len(q) - 1
         /\ \A i \in 1 .. Len(Tail(q)) : i + 1 \in 1 .. Len(q) /\ Tail(q)[i] = q[i + 1]
  OBVIOUS

(* The packets it can take, and what they are to the table.                 *)
LEMMA HeadTyped ==
  ASSUME NetTypeOK, NEW p \in SessionPorts, queue[p] # <<>>
  PROVE  /\ queue[p] \in Seq(Messages) /\ Head(queue[p]) \in Messages
         /\ Class(Head(queue[p]).op) \in Ops
         /\ Class(Head(queue[p]).op) = "CLOSE" <=> Head(queue[p]).op = "CLOSE"
<1>1. queue[p] \in Seq(Messages)
  BY DEF NetTypeOK
<1>2. Head(queue[p]) \in Messages
  BY <1>1, HeadTail
<1>3. Head(queue[p]).op \in {"DELETE", "LIST", "CLOSE"}
  BY <1>2 DEF Messages
<1> QED
  BY <1>1, <1>2, <1>3 DEF Class, Ops

(* Every step of the composition is a step of Sessions or leaves it alone.  *)
LEMMA TableStep ==
  ASSUME IInv, NetTypeOK, NetNext
  PROVE  [Next]_vars
<1>1. CASE NetMain
  <2>1. CASE NetMainRecv
    <3>1. Head(mainQueue) \in Devices
      BY <2>1 DEF NetMainRecv, NetTypeOK
    <3>2. user[Head(mainQueue)] \in Names
      BY <3>1 DEF NetTypeOK, Names
    <3> QED
      BY <2>1, <3>2 DEF NetMainRecv, Next, MainOps
  <2> QED
    BY <1>1, <2>1 DEF NetMain, NetSpawn, NetReply, Next, MainStep
<1>2. ASSUME NEW t \in Threads, NetThread(t)
      PROVE  [Next]_vars
  <2>1. CASE NetReceive(t)
    <3>1. thread[t].port \in SessionPorts
      BY <2>1, ReceiverAt DEF NetReceive
    <3>2. Class(Head(queue[thread[t].port]).op) \in Ops
      BY <2>1, <3>1, HeadTyped DEF NetReceive
    <3> QED
      BY <2>1, <3>2 DEF NetReceive, Next
  <2> QED
    BY <1>2, <2>1
       DEF NetThread, NetEndTransfer, NetBind, NetEnd, Next, ThreadStep
<1>3. ASSUME NEW d \in Devices, Device(d) \/ Vanish(d)
      PROVE  UNCHANGED vars
  BY <1>3 DEF Device, Login, LoginReply, TakeAck, Exit, Ask, Vanish
<1>4. ASSUME NEW kind \in {"lost", "dup"}, Disturb(kind)
      PROVE  UNCHANGED vars
  BY <1>4 DEF Disturb
<1> QED
  BY <1>1, <1>2, <1>3, <1>4 DEF NetNext

-----------------------------------------------------------------------------
(* Types *)

(* Queues of one kind of thing, indexed by who reads them.                  *)
LEMMA QueuesTyped ==
  ASSUME NEW D, NEW S, NEW f \in [D -> Seq(S)], NEW d \in D
  PROVE  /\ \A e \in S : [f EXCEPT ![d] = Append(@, e)] \in [D -> Seq(S)]
         /\ f[d] # <<>> => [f EXCEPT ![d] = Tail(@)] \in [D -> Seq(S)]
         /\ [f EXCEPT ![d] = <<>>] \in [D -> Seq(S)]
<1>1. f[d] \in Seq(S)
  OBVIOUS
<1>2. \A e \in S : Append(f[d], e) \in Seq(S)
  BY <1>1
<1>3. f[d] # <<>> => Tail(f[d]) \in Seq(S)
  BY <1>1, HeadTail
<1>4. <<>> \in Seq(S)
  OBVIOUS
<1> QED
  BY <1>2, <1>3, <1>4

(* Where the main thread answers from.                                      *)
LEMMA AckSlotStep ==
  ASSUME IInv, AckSlot, [Next]_vars
  PROVE  AckSlot'
<1>0. main \in MainLocals
  BY DEF IInv, TypeOK
<1>1. ASSUME NEW op \in MainOps, NEW u \in Names, MainRecv(op, u)
      PROVE  AckSlot'
  BY <1>0, <1>1 DEF AckSlot, MainRecv, MainLocals
<1>2. CASE Match
  BY <1>0, <1>2 DEF AckSlot, Match, MainLocals
<1>3. CASE Scan
  BY <1>0, <1>3 DEF AckSlot, Scan, MainLocals
<1>4. CASE Claim
  BY <1>0, <1>4 DEF AckSlot, Claim, MainLocals
<1>5. CASE Check
  BY <1>0, <1>5 DEF AckSlot, Check, Refused, Idle, MainLocals
<1>6. CASE SkipSlot
  BY <1>0, <1>6 DEF AckSlot, SkipSlot, Refused, Idle, MainLocals
<1>7. CASE TakeSlot
  BY <1>0, <1>7 DEF AckSlot, TakeSlot, MainLocals
<1>8. CASE Spawn
  BY <1>0, <1>8 DEF AckSlot, Spawn, IInv, MainInv, MainLocals
<1>9. CASE Reply
  BY <1>9 DEF AckSlot, Reply, Idle
<1>10. CASE UNCHANGED main
  BY <1>10 DEF AckSlot
<1>11. ASSUME NEW t \in Threads, NEW op \in Ops, Receive(t, op) \/ ThreadStep(t)
       PROVE  UNCHANGED main
  BY <1>11 DEF Receive, ThreadStep, Start, Bind, Publish, BuildPath, EndTransfer,
               Close, Replicate
<1> QED
  BY <1>1, <1>2, <1>3, <1>4, <1>5, <1>6, <1>7, <1>8, <1>9, <1>10, <1>11
     DEF Next, MainStep, vars, Ops

(* A device keeps the types.                                                *)
LEMMA DeviceTypes ==
  ASSUME NetTypeOK, NEW d \in Devices, Device(d) \/ Vanish(d)
  PROVE  NetTypeOK'
<1> DEFINE States == [pc : {"start", "login", "in", "asked", "closing", "closed", "exited"},
                      port : SessionPorts \cup {0}, asked : 0 .. MaxRequests]
           Answers == SessionPorts \cup {NACK}
<1>0. /\ device \in [Devices -> States] /\ device[d] \in States
      /\ mainQueue \in Seq(Devices)
      /\ queue \in [SessionPorts -> Seq(Messages)]
      /\ loginReplies \in [Devices -> Seq(Answers)]
      /\ replies \in [Devices -> Nat]
      /\ faults \in [Kinds -> Nat]
      /\ MaxRequests \in Nat
  BY NetAssumption DEF NetTypeOK
<1>1. ASSUME NEW kind \in Kinds, Count(kind)
      PROVE  faults' \in [Kinds -> Nat]
  BY <1>0, <1>1 DEF Count
<1>2. ASSUME SendLogin(d)
      PROVE  mainQueue' \in Seq(Devices)
  BY <1>0, <1>2 DEF SendLogin
<1>3. ASSUME Gone(d)
      PROVE  /\ device' \in [Devices -> States]
             /\ loginReplies' \in [Devices -> Seq(Answers)]
             /\ replies' \in [Devices -> Nat]
  <2>1. [device[d] EXCEPT !.pc = "exited", !.port = 0] \in States
    BY <1>0
  <2> HIDE DEF States, Answers
  <2>2. loginReplies' \in [Devices -> Seq(Answers)]
    BY <1>0, <1>3, QueuesTyped DEF Gone
  <2> QED
    BY <1>0, <1>3, <2>1, <2>2 DEF Gone
<1>4. ASSUME NEW op \in {"DELETE", "LIST", "CLOSE"}, device[d].port \in SessionPorts,
             queue' = [queue EXCEPT ![device[d].port] = Append(@, [op |-> op, from |-> d])]
      PROVE  queue' \in [SessionPorts -> Seq(Messages)]
  <2>1. [op |-> op, from |-> d] \in Messages
    BY DEF Messages
  <2> QED
    BY <1>0, <1>4, <2>1, QueuesTyped
<1>5. CASE Login(d)
  <2>1. [device[d] EXCEPT !.pc = "login"] \in States
    BY <1>0
  <2>2. device' \in [Devices -> States]
    BY <1>0, <1>5, <2>1 DEF Login
  <2> HIDE DEF States
  <2> QED
    BY <1>2, <1>5, <2>2 DEF Login, NetTypeOK, peers
<1>6. CASE LoginReply(d)
  <2>1. loginReplies[d] \in Seq(Answers) /\ loginReplies[d] # <<>>
    BY <1>0, <1>6 DEF LoginReply
  <2>2. Head(loginReplies[d]) \in Answers
    <3> HIDE DEF Answers
    <3> QED
      BY <2>1, HeadTail
  <2>3. loginReplies' \in [Devices -> Seq(Answers)]
    <3> HIDE DEF Answers
    <3> QED
      BY <1>0, <1>6, <2>1, QueuesTyped DEF LoginReply
  <2>4. Head(loginReplies[d]) # NACK =>
          [device[d] EXCEPT !.pc = "in", !.port = Head(loginReplies[d])] \in States
    BY <1>0, <2>2
  <2>5. device' \in [Devices -> States] /\ mainQueue' \in Seq(Devices)
    <3> HIDE DEF States
    <3> QED
      BY <1>0, <1>2, <1>6, <2>4 DEF LoginReply
  <2> QED
    BY <1>6, <2>3, <2>5 DEF LoginReply, NetTypeOK, peers
<1>7. CASE TakeAck(d)
  <2>1. replies' \in [Devices -> Nat]
    BY <1>0, <1>7 DEF TakeAck
  <2>2. \A pc \in {"in", "closed"} : [device[d] EXCEPT !.pc = pc] \in States
    BY <1>0
  <2>3. device' \in [Devices -> States]
    <3> HIDE DEF States
    <3> QED
      BY <1>0, <1>7, <2>2 DEF TakeAck
  <2> QED
    BY <1>7, <2>1, <2>3 DEF TakeAck, NetTypeOK, peers
<1>8. CASE Exit(d)
  <2>1. faults' \in [Kinds -> Nat]
    BY <1>0, <1>1, <1>8 DEF Exit, Kinds
  <2>2. queue' \in [SessionPorts -> Seq(Messages)]
    <3>1. CASE device[d].port \in SessionPorts
      BY <1>0, <1>4, <1>8, <3>1 DEF Exit
    <3>2. CASE device[d].port \notin SessionPorts
      BY <1>0, <1>8, <3>2 DEF Exit
    <3> QED
      BY <3>1, <3>2
  <2> QED
    BY <1>3, <1>8, <2>1, <2>2 DEF Exit, NetTypeOK, peers
<1>9. ASSUME NEW op \in {"DELETE", "LIST", "CLOSE"}, Ask(d, op)
      PROVE  NetTypeOK'
  <2>0. UNCHANGED <<user, mainQueue, loginReplies, replies, peers>>
    BY <1>9 DEF Ask
  <2>1. faults' \in [Kinds -> Nat]
    BY <1>0, <1>1, <1>9 DEF Ask, SendRequest, Kinds
  <2>2. queue' \in [SessionPorts -> Seq(Messages)]
    <3>1. CASE device[d].port \in SessionPorts
      BY <1>0, <1>4, <1>9, <3>1 DEF Ask, SendRequest
    <3>2. CASE device[d].port \notin SessionPorts
      BY <1>0, <1>9, <3>2 DEF Ask, SendRequest
    <3> QED
      BY <3>1, <3>2
  <2>3. CASE op = "CLOSE"
    <3> DEFINE r == [device[d] EXCEPT !.pc = "closing"]
    <3>1. r \in States
      BY <1>0
    <3>2. device' = [device EXCEPT ![d] = r]
      BY <1>9, <2>3 DEF Ask
    <3> HIDE DEF States, r
    <3>3. device' \in [Devices -> States]
      BY <1>0, <3>1, <3>2
    <3> QED
      BY <2>0, <2>1, <2>2, <3>3 DEF NetTypeOK, peers, States
  <2>4. CASE op # "CLOSE"
    <3> DEFINE r == [device[d] EXCEPT !.pc = "asked", !.asked = device[d].asked + 1]
    <3>1. r \in States
      <4>1. device[d].asked + 1 \in 0 .. MaxRequests
        BY <1>0, <1>9, <2>4 DEF Ask
      <4> QED
        BY <1>0, <4>1
    <3>2. device' = [device EXCEPT ![d] = r]
      BY <1>9, <2>4 DEF Ask
    <3> HIDE DEF States, r
    <3>3. device' \in [Devices -> States]
      BY <1>0, <3>1, <3>2
    <3> QED
      BY <2>0, <2>1, <2>2, <3>3 DEF NetTypeOK, peers, States
  <2> QED
    BY <2>3, <2>4
<1>10. CASE Vanish(d)
  <2>1. faults' \in [Kinds -> Nat]
    BY <1>0, <1>1, <1>10 DEF Vanish, Kinds
  <2> QED
    BY <1>3, <1>10, <2>1 DEF Vanish, NetTypeOK, peers
<1> QED
  BY <1>5, <1>6, <1>7, <1>8, <1>9, <1>10 DEF Device

(* The server keeps the types.                                              *)
LEMMA ServerTypes ==
  ASSUME IInv, NetTypeOK, AckSlot, NetMain \/ \E t \in Threads : NetThread(t)
  PROVE  NetTypeOK'
<1> DEFINE Answers == SessionPorts \cup {NACK}
           Devs == Devices \cup {NoDevice}
<1>0. /\ mainQueue \in Seq(Devices)
      /\ queue \in [SessionPorts -> Seq(Messages)]
      /\ loginReplies \in [Devices -> Seq(Answers)]
      /\ replies \in [Devices -> Nat]
      /\ mainClient \in Devs
      /\ client \in [Threads -> Devs]
      /\ owner \in [Threads -> Devs]
      /\ faults \in [Kinds -> Nat]
  BY DEF NetTypeOK
<1>1. ASSUME NEW kind \in Kinds, Count(kind)
      PROVE  faults' \in [Kinds -> Nat]
  BY <1>0, <1>1 DEF Count
<1>2. ASSUME NEW d \in Devs, SendAck(d)
      PROVE  replies' \in [Devices -> Nat]
  <2>1. CASE d \in Devices
    BY <1>0, <1>2, <2>1 DEF SendAck
  <2>2. CASE d \notin Devices
    BY <1>0, <1>2, <2>2 DEF SendAck
  <2> QED
    BY <2>1, <2>2
<1>3. CASE NetMainRecv
  <2>1. Head(mainQueue) \in Devices /\ Tail(mainQueue) \in Seq(Devices)
    BY <1>0, <1>3, HeadTail DEF NetMainRecv
  <2> QED
    BY <1>3, <2>1 DEF NetMainRecv, NetTypeOK
<1>4. CASE NetSpawn
  <2>1. faults' \in [Kinds -> Nat]
    BY <1>0, <1>1, <1>4 DEF NetSpawn, Kinds
  <2>2. owner' \in [Threads -> Devs]
    <3> HIDE DEF Devs
    <3> QED
      BY <1>0, <1>4 DEF NetSpawn
  <2> QED
    BY <1>4, <2>1, <2>2 DEF NetSpawn, NetTypeOK, net
<1>5. CASE NetReply
  <2>1. ASSUME NEW a \in Answers, Answer(a)
        PROVE  loginReplies' \in [Devices -> Seq(Answers)]
    <3> HIDE DEF Answers
    <3>1. CASE mainClient \in Devices
      BY <1>0, <2>1, <3>1, QueuesTyped DEF Answer
    <3>2. CASE mainClient \notin Devices
      BY <1>0, <2>1, <3>2 DEF Answer
    <3> QED
      BY <3>1, <3>2
  <2>2. (IF main.pc = "ack" THEN Port(main.index, main.s) ELSE NACK) \in Answers
    BY DEF AckSlot, SessionPorts
  <2> QED
    BY <1>0, <1>5, <2>1, <2>2 DEF NetReply, NetTypeOK
<1>6. CASE /\ Match \/ Scan \/ Claim \/ Check \/ SkipSlot \/ TakeSlot
           /\ UNCHANGED <<user, device, net, peers, faults>>
  BY <1>6 DEF NetTypeOK, net, peers
<1>7. ASSUME NEW t \in Threads, NetReceive(t)
      PROVE  NetTypeOK'
  <2> DEFINE p == thread[t].port
  <2>1. p \in SessionPorts /\ queue[p] # <<>>
    BY <1>7, ReceiverAt DEF NetReceive
  <2>2. queue' \in [SessionPorts -> Seq(Messages)]
    BY <1>0, <1>7, <2>1, QueuesTyped DEF NetReceive
  <2>3. Head(queue[p]).from \in Devices
    BY <2>1, HeadTyped DEF Messages
  <2>4. replies' \in [Devices -> Nat]
    BY <1>0, <1>2, <1>7, <2>3 DEF NetReceive
  <2>5. client' \in [Threads -> Devs]
    BY <1>0, <1>7, <2>3 DEF NetReceive
  <2> QED
    BY <1>7, <2>2, <2>4, <2>5 DEF NetReceive, NetTypeOK
<1>8. ASSUME NEW t \in Threads, NetEndTransfer(t)
      PROVE  NetTypeOK'
  <2>1. replies' \in [Devices -> Nat]
    BY <1>0, <1>2, <1>8 DEF NetEndTransfer
  <2> QED
    BY <1>8, <2>1 DEF NetEndTransfer, NetTypeOK, peers
<1>9. ASSUME NEW t \in Threads, NetBind(t)
      PROVE  NetTypeOK'
  <2>1. faults' \in [Kinds -> Nat]
    BY <1>0, <1>1, <1>9 DEF NetBind, Kinds
  <2> QED
    BY <1>9, <2>1 DEF NetBind, NetTypeOK, net, peers
<1>10. ASSUME NEW t \in Threads, NetEnd(t)
       PROVE  NetTypeOK'
  <2>1. client' \in [Threads -> Devs] /\ owner' \in [Threads -> Devs]
    BY <1>0, <1>10 DEF NetEnd
  <2> QED
    BY <1>10, <2>1 DEF NetEnd, NetTypeOK, net
<1>11. ASSUME NEW t \in Threads, Start(t) \/ BuildPath(t) \/ Close(t),
              UNCHANGED <<user, device, net, peers, faults>>
       PROVE  NetTypeOK'
  BY <1>11 DEF NetTypeOK, net, peers
<1> QED
  BY <1>3, <1>4, <1>5, <1>6, <1>7, <1>8, <1>9, <1>10, <1>11 DEF NetMain, NetThread

(* What the network does keeps the types.                                   *)
LEMMA DisturbTypes ==
  ASSUME NetTypeOK, NEW kind \in {"lost", "dup"}, Disturb(kind)
  PROVE  NetTypeOK'
<1> DEFINE Answers == SessionPorts \cup {NACK}
<1>0. /\ mainQueue \in Seq(Devices)
      /\ queue \in [SessionPorts -> Seq(Messages)]
      /\ loginReplies \in [Devices -> Seq(Answers)]
      /\ replies \in [Devices -> Nat]
      /\ faults \in [Kinds -> Nat]
  BY DEF NetTypeOK
<1>1. faults' \in [Kinds -> Nat]
  BY <1>0 DEF Disturb, Count, Kinds
<1>2. ASSUME NEW S, NEW q \in Seq(S), q # <<>>
      PROVE  Disturbed(kind, q) \in Seq(S)
  BY <1>2, HeadTail DEF Disturbed
<1> HIDE DEF Answers
<1>3. mainQueue' \in Seq(Devices)
  BY <1>0, <1>2 DEF Disturb
<1>4. queue' \in [SessionPorts -> Seq(Messages)]
  <2>1. ASSUME NEW p \in SessionPorts, queue[p] # <<>>,
               queue' = [queue EXCEPT ![p] = Disturbed(kind, @)]
        PROVE  queue' \in [SessionPorts -> Seq(Messages)]
    BY <1>0, <1>2, <2>1
  <2> QED
    BY <1>0, <2>1 DEF Disturb
<1>5. loginReplies' \in [Devices -> Seq(Answers)]
  <2>1. ASSUME NEW d \in Devices, loginReplies[d] # <<>>,
               loginReplies' = [loginReplies EXCEPT ![d] = Disturbed(kind, @)]
        PROVE  loginReplies' \in [Devices -> Seq(Answers)]
    BY <1>0, <1>2, <2>1
  <2> QED
    BY <1>0, <2>1 DEF Disturb
<1>6. replies' \in [Devices -> Nat]
  BY <1>0 DEF Disturb
<1> QED
  BY <1>1, <1>3, <1>4, <1>5, <1>6 DEF Disturb, NetTypeOK, peers, Answers

-----------------------------------------------------------------------------
(* Who has a slot *)

(* A step that changes nothing of a slot.                                   *)
LEMMA SameSlot ==
  ASSUME UNCHANGED <<vars, owner>>, NEW c, NEW s
  PROVE  /\ \A t \in Threads : SlotOf(t, c, s)' <=> SlotOf(t, c, s)
         /\ \A d : Reserved(d, c, s)' <=> Reserved(d, c, s)
         /\ Occupied(c, s)' <=> Occupied(c, s)
         /\ Announcing(c, s)' <=> Announcing(c, s)
  BY DEF vars, SlotOf, Occupied, Owns, Reserved, Announcing

(* A device that has finished sends no more.                                *)
LEMMA FinishedForGood ==
  ASSUME NetTypeOK, NEW d \in Devices, Device(d) \/ Vanish(d),
         NEW x \in Devices, device[x].pc \in Finished
  PROVE  device'[x].pc \in Finished
<1>0. device[x].pc \in {"closing", "closed", "exited"} /\ device[d] = device[d]
  BY DEF Finished
<1>1. device \in [Devices -> [pc : {"start", "login", "in", "asked", "closing",
                                    "closed", "exited"},
                              port : SessionPorts \cup {0}, asked : 0 .. MaxRequests]]
  BY DEF NetTypeOK
<1>2. CASE Login(d) \/ LoginReply(d)
  BY <1>0, <1>1, <1>2 DEF Login, LoginReply, Finished
<1>3. CASE TakeAck(d)
  BY <1>0, <1>1, <1>3 DEF TakeAck, Finished
<1>4. CASE Exit(d) \/ Vanish(d)
  BY <1>0, <1>1, <1>4 DEF Exit, Vanish, Gone, Finished
<1>5. ASSUME NEW op \in {"DELETE", "LIST", "CLOSE"}, Ask(d, op)
      PROVE  device'[x].pc \in Finished
  BY <1>0, <1>1, <1>5 DEF Ask, Finished
<1> QED
  BY <1>2, <1>3, <1>4, <1>5 DEF Device

(* A device learns of a port from an answer to its login only.              *)
LEMMA NothingLearnt ==
  ASSUME NetTypeOK, NEW d \in Devices, Device(d) \/ Vanish(d),
         NEW x \in Devices, NEW c \in ClientIds, NEW s \in SlotIds, Knows(x, c, s)'
  PROVE  Knows(x, c, s)
<1>0. /\ device \in [Devices -> [pc : {"start", "login", "in", "asked", "closing",
                                       "closed", "exited"},
                                 port : SessionPorts \cup {0}, asked : 0 .. MaxRequests]]
      /\ loginReplies \in [Devices -> Seq(SessionPorts \cup {NACK})]
  BY DEF NetTypeOK
<1>1. CASE Login(d)
  BY <1>0, <1>1 DEF Login, Knows
<1>2. CASE LoginReply(d)
  <2>1. CASE x # d
    BY <1>0, <1>2, <2>1 DEF LoginReply, Knows
  <2>2. CASE x = d
    <3> DEFINE q == loginReplies[d]
    <3>1. q \in Seq(SessionPorts \cup {NACK}) /\ q # <<>> /\ device[d].pc = "login"
      BY <1>0, <1>2 DEF LoginReply
    <3>2. /\ Head(q) = q[1] /\ 1 \in 1 .. Len(q)
          /\ \A i \in 1 .. Len(Tail(q)) : i + 1 \in 1 .. Len(q) /\ Tail(q)[i] = q[i + 1]
      BY <3>1, HeadTail
    <3>3. loginReplies'[d] = Tail(q)
      BY <1>0, <1>2 DEF LoginReply
    <3>4. \/ device'[d].pc = "in" /\ device'[d].port = Head(q)
          \/ device'[d] = device[d]
      BY <1>0, <1>2 DEF LoginReply
    <3>5. CASE device'[d].pc = "in" /\ device'[d].port = Head(q)
      BY <2>2, <3>1, <3>2, <3>5 DEF Knows
    <3>6. CASE device'[d] = device[d]
      BY <2>2, <3>1, <3>2, <3>3, <3>6 DEF Knows
    <3> QED
      BY <3>4, <3>5, <3>6
  <2> QED
    BY <2>1, <2>2
<1>3. CASE TakeAck(d)
  BY <1>0, <1>3 DEF TakeAck, Knows
<1>4. CASE Exit(d) \/ Vanish(d)
  <2>1. Gone(d)
    BY <1>4 DEF Exit, Vanish
  <2>2. x # d => device'[x] = device[x] /\ loginReplies'[x] = loginReplies[x]
    BY <1>0, <2>1 DEF Gone
  <2>3. device'[d].pc = "exited"
    BY <1>0, <2>1 DEF Gone
  <2> QED
    BY <2>2, <2>3 DEF Knows
<1>5. ASSUME NEW op \in {"DELETE", "LIST", "CLOSE"}, Ask(d, op)
      PROVE  Knows(x, c, s)
  <2>1. x # d => device'[x] = device[x]
    BY <1>0, <1>5 DEF Ask
  <2>2. /\ device[d].pc = "in" /\ device'[d].port = device[d].port
        /\ device'[d].pc \in {"asked", "closing"}
    BY <1>0, <1>5 DEF Ask
  <2>3. UNCHANGED loginReplies
    BY <1>5 DEF Ask
  <2> QED
    BY <2>1, <2>2, <2>3 DEF Knows
<1> QED
  BY <1>1, <1>2, <1>3, <1>4, <1>5 DEF Device

-----------------------------------------------------------------------------
(* Steps of the devices *)

(* A request goes to the port of the slot that its device has.              *)
LEMMA AskOwn ==
  ASSUME IInv, NetTypeOK, OwnInv, NEW d \in Devices,
         NEW op \in {"DELETE", "LIST", "CLOSE"}, Ask(d, op)
  PROVE  QueueInv' /\ CloseInv'
<1> DEFINE p == device[d].port
           m == [op |-> op, from |-> d]
<1>0. /\ device \in [Devices -> [pc : {"start", "login", "in", "asked", "closing",
                                       "closed", "exited"},
                                 port : SessionPorts \cup {0}, asked : 0 .. MaxRequests]]
      /\ queue \in [SessionPorts -> Seq(Messages)]
      /\ device[d].pc = "in"
  BY DEF NetTypeOK, Ask
<1>1. UNCHANGED <<vars, owner>>
  BY DEF Ask, peers
<1>2. \A x \in Devices : device[x].pc \in Finished => device'[x].pc \in Finished
  BY FinishedForGood DEF Device
<1>3. op = "CLOSE" => device'[d].pc \in Finished
  BY <1>0 DEF Ask, Finished
<1>4. ASSUME NEW c \in ClientIds, NEW s \in SlotIds
      PROVE  /\ Port(c, s) \in SessionPorts
             /\ \/ queue'[Port(c, s)] = queue[Port(c, s)]
                \/ p = Port(c, s) /\ queue'[p] = Append(queue[p], m)
  <2>1. Port(c, s) \in SessionPorts
    BY DEF SessionPorts
  <2>2. CASE queue' = queue
    BY <2>1, <2>2
  <2>3. CASE queue' = [queue EXCEPT ![p] = Append(@, m)]
    BY <1>0, <2>1, <2>3
  <2> QED
    BY <2>1, <2>2, <2>3 DEF Ask, SendRequest
<1>5. ASSUME NEW c \in ClientIds, NEW s \in SlotIds, p = Port(c, s)
      PROVE  /\ Reserved(d, c, s) /\ ~Announcing(c, s)
             /\ \A t \in Threads : SlotOf(t, c, s) => thread[t].pc # "close"
  <2>1. Reserved(d, c, s) /\ ~Announcing(c, s)
    BY <1>0, <1>5 DEF OwnInv, PortInv, Knows
  <2>2. \A t \in Threads : SlotOf(t, c, s) => owner[t] = d
    BY <2>1 DEF Reserved
  <2> QED
    BY <1>0, <2>1, <2>2 DEF OwnInv, CloseInv, Finished
<1>6. QueueInv'
  <2> SUFFICES ASSUME NEW c \in ClientIds, NEW s \in SlotIds, NEW x \in Messages,
                      NEW i \in 1 .. Len(queue'[Port(c, s)]), queue'[Port(c, s)][i] = x
               PROVE  /\ Reserved(x.from, c, s)' /\ ~Announcing(c, s)'
                      /\ x.op = "CLOSE" /\ Occupied(c, s)' =>
                           /\ i = Len(queue'[Port(c, s)])
                           /\ device'[x.from].pc \in Finished
    BY DEF QueueInv
  <2>0. /\ Reserved(x.from, c, s)' <=> Reserved(x.from, c, s)
        /\ Occupied(c, s)' <=> Occupied(c, s)
        /\ Announcing(c, s)' <=> Announcing(c, s)
    BY <1>1, SameSlot
  <2>1. queue[Port(c, s)] \in Seq(Messages) /\ x.from \in Devices
    BY <1>0, <1>4 DEF Messages
  <2>2. CASE queue'[Port(c, s)] = queue[Port(c, s)]
    BY <1>2, <2>0, <2>1, <2>2 DEF OwnInv, QueueInv
  <2>3. CASE p = Port(c, s) /\ queue'[p] = Append(queue[p], m)
    <3>1. /\ Len(queue'[p]) = Len(queue[p]) + 1 /\ Len(queue[p]) \in Nat
          /\ queue'[p][Len(queue[p]) + 1] = m
          /\ \A j \in 1 .. Len(queue[p]) : queue'[p][j] = queue[p][j]
      BY <2>1, <2>3
    <3>2. CASE i = Len(queue[p]) + 1
      <4>1. x.from = d /\ x.op = op
        BY <2>3, <3>1, <3>2
      <4> QED
        BY <1>3, <1>5, <2>0, <2>3, <3>1, <3>2, <4>1
    <3>3. CASE i \in 1 .. Len(queue[p])
      <4>1. /\ Reserved(x.from, c, s)
            /\ x.op = "CLOSE" /\ Occupied(c, s) => device[x.from].pc \in Finished
        BY <2>3, <3>1, <3>3 DEF OwnInv, QueueInv
      <4>2. Occupied(c, s) => x.from = d
        BY <1>5, <2>3, <4>1 DEF Reserved, Occupied
      <4>3. Occupied(c, s) => x.op # "CLOSE"
        BY <1>0, <4>1, <4>2 DEF Finished
      <4> QED
        BY <1>5, <2>0, <2>3, <4>1, <4>3
    <3> QED
      BY <2>3, <3>1, <3>2, <3>3
  <2> QED
    BY <1>4, <2>2, <2>3
<1>7. CloseInv'
  <2> SUFFICES ASSUME NEW t \in Threads, thread[t].pc = "close"
               PROVE  /\ owner[t] \in Devices /\ device'[owner[t]].pc \in Finished
                      /\ queue'[Port(thread[t].c, thread[t].s)] = <<>>
    BY <1>1 DEF CloseInv, vars
  <2>1. /\ owner[t] \in Devices /\ device[owner[t]].pc \in Finished
        /\ queue[Port(thread[t].c, thread[t].s)] = <<>>
    BY DEF OwnInv, CloseInv
  <2>2. thread[t].c \in ClientIds /\ thread[t].s \in SlotIds
        /\ SlotOf(t, thread[t].c, thread[t].s)
    BY DEF IInv, TypeOK, ThreadLocals, OwnerInv, SlotOf, Owns
  <2>3. p # Port(thread[t].c, thread[t].s)
    BY <1>5, <2>2
  <2>4. owner[t] # d
    BY <1>0, <2>1 DEF Finished
  <2>5. device'[owner[t]] = device[owner[t]]
    BY <1>0, <2>4 DEF Ask
  <2> QED
    BY <1>4, <2>1, <2>2, <2>3, <2>5
<1> QED
  BY <1>6, <1>7

(* Every step of a device.                                                  *)
LEMMA DeviceOwn ==
  ASSUME IInv, NetTypeOK, OwnInv, NoStray', NEW d \in Devices, Device(d) \/ Vanish(d)
  PROVE  OwnInv'
<1>1. UNCHANGED <<vars, owner, client, mainClient>>
  BY DEF Device, Login, LoginReply, TakeAck, Exit, Ask, Vanish, peers
<1>2. \A x \in Devices : device[x].pc \in Finished => device'[x].pc \in Finished
  BY FinishedForGood
<1>3. PortInv'
  <2> SUFFICES ASSUME NEW x \in Devices, NEW c \in ClientIds, NEW s \in SlotIds,
                      Knows(x, c, s)'
               PROVE  Reserved(x, c, s)' /\ ~Announcing(c, s)'
    BY DEF PortInv
  <2>1. Knows(x, c, s)
    BY NothingLearnt
  <2> QED
    BY <1>1, <2>1, SameSlot DEF OwnInv, PortInv
<1>4. ASSUME UNCHANGED queue
      PROVE  QueueInv' /\ CloseInv'
  <2>1. QueueInv'
    <3> SUFFICES ASSUME NEW c \in ClientIds, NEW s \in SlotIds, NEW m \in Messages,
                        NEW i \in 1 .. Len(queue[Port(c, s)]), queue[Port(c, s)][i] = m
                 PROVE  /\ Reserved(m.from, c, s)' /\ ~Announcing(c, s)'
                        /\ m.op = "CLOSE" /\ Occupied(c, s)' =>
                             i = Len(queue[Port(c, s)]) /\ device'[m.from].pc \in Finished
      BY <1>4 DEF QueueInv
    <3>1. m.from \in Devices
      BY DEF Messages
    <3> QED
      BY <1>1, <1>2, <3>1, SameSlot DEF OwnInv, QueueInv
  <2>2. CloseInv'
    <3> SUFFICES ASSUME NEW t \in Threads, thread[t].pc = "close"
                 PROVE  /\ owner[t] \in Devices /\ device'[owner[t]].pc \in Finished
                        /\ queue[Port(thread[t].c, thread[t].s)] = <<>>
      BY <1>1, <1>4 DEF CloseInv, vars
    <3> QED
      BY <1>2 DEF OwnInv, CloseInv
  <2> QED
    BY <2>1, <2>2
<1>5. QueueInv' /\ CloseInv'
  <2>1. ASSUME NEW op \in {"DELETE", "LIST", "CLOSE"}, Ask(d, op)
        PROVE  QueueInv' /\ CloseInv'
    BY <2>1, AskOwn
  <2>2. CASE Login(d) \/ LoginReply(d) \/ TakeAck(d) \/ Vanish(d)
    BY <1>4, <2>2 DEF Login, LoginReply, TakeAck, Vanish
  <2>3. CASE Exit(d)
    <3>1. ~Count("late")
      BY DEF NoStray, Count, NetTypeOK, Kinds
    <3> QED
      BY <1>4, <2>3, <3>1 DEF Exit
  <2> QED
    BY <2>1, <2>2, <2>3 DEF Device
<1>6. AnnounceInv'
  BY <1>1, SameSlot DEF OwnInv, AnnounceInv, vars
<1>7. ClientInv'
  BY <1>1 DEF OwnInv, ClientInv, vars
<1> QED
  BY <1>3, <1>5, <1>6, <1>7 DEF OwnInv

-----------------------------------------------------------------------------
(* What the network does *)

(* No device learns anything from a datagram that is lost.                  *)
LEMMA NothingLearntLost ==
  ASSUME NetTypeOK, Disturb("lost"),
         NEW d \in Devices, NEW c \in ClientIds, NEW s \in SlotIds, Knows(d, c, s)'
  PROVE  Knows(d, c, s)
<1>0. loginReplies \in [Devices -> Seq(SessionPorts \cup {NACK})] /\ UNCHANGED device
  BY DEF NetTypeOK, Disturb
<1>1. \/ loginReplies'[d] = loginReplies[d]
      \/ loginReplies[d] # <<>> /\ loginReplies'[d] = Tail(loginReplies[d])
  BY <1>0 DEF Disturb, Disturbed
<1>2. CASE loginReplies'[d] = loginReplies[d]
  BY <1>0, <1>2 DEF Knows
<1>3. CASE loginReplies[d] # <<>> /\ loginReplies'[d] = Tail(loginReplies[d])
  <2>1. loginReplies[d] \in Seq(SessionPorts \cup {NACK})
    BY <1>0
  <2>2. \A i \in 1 .. Len(Tail(loginReplies[d])) :
          /\ i + 1 \in 1 .. Len(loginReplies[d])
          /\ Tail(loginReplies[d])[i] = loginReplies[d][i + 1]
    BY <1>3, <2>1, HeadTail
  <2> QED
    BY <1>0, <1>3, <2>2 DEF Knows
<1> QED
  BY <1>1, <1>2, <1>3

(* A lost datagram leaves the others in their order.                        *)
LEMMA LostOwn ==
  ASSUME IInv, NetTypeOK, OwnInv, Disturb("lost")
  PROVE  OwnInv'
<1>0. /\ queue \in [SessionPorts -> Seq(Messages)]
      /\ loginReplies \in [Devices -> Seq(SessionPorts \cup {NACK})]
  BY DEF NetTypeOK
<1>1. UNCHANGED <<vars, owner, client, mainClient, device>>
  BY DEF Disturb, peers
<1>2. ASSUME NEW p \in SessionPorts
      PROVE  \/ queue'[p] = queue[p]
             \/ queue[p] # <<>> /\ queue'[p] = Tail(queue[p])
  BY <1>0, <1>2 DEF Disturb, Disturbed
<1>3. ASSUME NEW d \in Devices
      PROVE  \/ loginReplies'[d] = loginReplies[d]
             \/ loginReplies[d] # <<>> /\ loginReplies'[d] = Tail(loginReplies[d])
  BY <1>0, <1>3 DEF Disturb, Disturbed
<1>4. ASSUME NEW d \in Devices, NEW c \in ClientIds, NEW s \in SlotIds, Knows(d, c, s)'
      PROVE  Knows(d, c, s)
  BY <1>4, NothingLearntLost
<1>5. PortInv'
  <2> SUFFICES ASSUME NEW x \in Devices, NEW c \in ClientIds, NEW s \in SlotIds,
                      Knows(x, c, s)'
               PROVE  Reserved(x, c, s)' /\ ~Announcing(c, s)'
    BY DEF PortInv
  <2> QED
    BY <1>1, <1>4, SameSlot DEF OwnInv, PortInv
<1>6. QueueInv'
  <2> SUFFICES ASSUME NEW c \in ClientIds, NEW s \in SlotIds, NEW m \in Messages,
                      NEW i \in 1 .. Len(queue'[Port(c, s)]), queue'[Port(c, s)][i] = m
               PROVE  /\ Reserved(m.from, c, s)' /\ ~Announcing(c, s)'
                      /\ m.op = "CLOSE" /\ Occupied(c, s)' =>
                           i = Len(queue'[Port(c, s)]) /\ device'[m.from].pc \in Finished
    BY DEF QueueInv
  <2> DEFINE p == Port(c, s)
  <2>0. p \in SessionPorts
    BY DEF SessionPorts
  <2>1. CASE queue'[p] = queue[p]
    BY <1>1, <2>1, SameSlot DEF OwnInv, QueueInv
  <2>2. CASE queue[p] # <<>> /\ queue'[p] = Tail(queue[p])
    <3>1. queue[p] \in Seq(Messages)
      BY <1>0, <2>0
    <3>2. /\ i + 1 \in 1 .. Len(queue[p]) /\ queue[p][i + 1] = m
          /\ Len(queue'[p]) = Len(queue[p]) - 1
      BY <2>2, <3>1, HeadTail
    <3>3. /\ Reserved(m.from, c, s) /\ ~Announcing(c, s)
          /\ m.op = "CLOSE" /\ Occupied(c, s) =>
               i + 1 = Len(queue[p]) /\ device[m.from].pc \in Finished
      BY <3>2 DEF OwnInv, QueueInv
    <3>4. i \in Nat /\ Len(queue[p]) \in Nat
      BY <3>1
    <3> QED
      BY <1>1, <3>2, <3>3, <3>4, SameSlot
  <2> QED
    BY <1>2, <2>0, <2>1, <2>2
<1>7. CloseInv'
  <2> SUFFICES ASSUME NEW t \in Threads, thread[t].pc = "close"
               PROVE  queue'[Port(thread[t].c, thread[t].s)] = <<>>
    BY <1>1 DEF OwnInv, CloseInv, vars
  <2>1. thread[t].c \in ClientIds /\ thread[t].s \in SlotIds
    BY DEF IInv, TypeOK, ThreadLocals, OwnerInv
  <2>2. Port(thread[t].c, thread[t].s) \in SessionPorts
    BY <2>1 DEF SessionPorts
  <2> QED
    BY <1>2, <2>2 DEF OwnInv, CloseInv
<1>8. AnnounceInv'
  BY <1>1, SameSlot DEF OwnInv, AnnounceInv, vars
<1>9. ClientInv'
  BY <1>1 DEF OwnInv, ClientInv, vars
<1> QED
  BY <1>5, <1>6, <1>7, <1>8, <1>9 DEF OwnInv

-----------------------------------------------------------------------------
(* Steps of the main thread *)

(* A step that changes nothing but the main thread's locals and the types   *)
(* of its packet, and announces nothing.                                    *)
LEMMA QuietOwn ==
  ASSUME OwnInv, main'.pc \notin {"spawn", "ack"},
         UNCHANGED <<session_active, thread, device, queue, client, owner>>,
         UNCHANGED loginReplies
  PROVE  OwnInv'
<1>1. \A c, s : ~Announcing(c, s)'
  BY DEF Announcing
<1>2. \A c, s : /\ \A t \in Threads : SlotOf(t, c, s)' <=> SlotOf(t, c, s)
                /\ Occupied(c, s)' <=> Occupied(c, s)
                /\ \A d : Reserved(d, c, s)' <=> Reserved(d, c, s)
                /\ \A d : Knows(d, c, s)' <=> Knows(d, c, s)
  BY DEF SlotOf, Occupied, Owns, Reserved, Knows
<1>3. PortInv'
  BY <1>1, <1>2 DEF OwnInv, PortInv
<1>4. QueueInv'
  <2> SUFFICES ASSUME NEW c \in ClientIds, NEW s \in SlotIds, NEW m \in Messages,
                      NEW i \in 1 .. Len(queue[Port(c, s)]), queue[Port(c, s)][i] = m
               PROVE  /\ Reserved(m.from, c, s)' /\ ~Announcing(c, s)'
                      /\ m.op = "CLOSE" /\ Occupied(c, s)' =>
                           i = Len(queue[Port(c, s)]) /\ device[m.from].pc \in Finished
    BY DEF QueueInv
  <2> QED
    BY <1>1, <1>2 DEF OwnInv, QueueInv
<1>5. CloseInv' /\ ClientInv'
  BY DEF OwnInv, CloseInv, ClientInv
<1>6. AnnounceInv'
  BY DEF AnnounceInv
<1> QED
  BY <1>3, <1>4, <1>5, <1>6 DEF OwnInv

(* The slot that is taken was free, so nobody knows its port yet and its    *)
(* socket is empty.                                                         *)
LEMMA TakeSlotOwn ==
  ASSUME IInv, OwnInv, TakeSlot, UNCHANGED <<device, net, peers>>
  PROVE  OwnInv'
<1>0. /\ main \in MainLocals
      /\ session_active \in [ClientIds -> [SlotIds -> {0, 1}]]
  BY DEF IInv, TypeOK
<1>1. /\ main.index \in ClientIds /\ main.s \in SlotIds
      /\ session_active[main.index][main.s] = 0
      /\ UNCHANGED thread
  BY <1>0 DEF TakeSlot, IInv, MainInv, MainLocals, SlotIds, MAXSESSIONS
<1>2. main'.pc = "spawn" /\ main'.index = main.index /\ main'.s = main.s
  BY <1>0 DEF TakeSlot, MainLocals
<1>3. ASSUME NEW c \in ClientIds, NEW s \in SlotIds,
             c # main.index \/ s # main.s
      PROVE  session_active'[c][s] = session_active[c][s]
  BY <1>0, <1>1, <1>3 DEF TakeSlot
<1>4. ASSUME NEW c \in ClientIds, NEW s \in SlotIds, NEW d, Reserved(d, c, s)
      PROVE  Reserved(d, c, s)' /\ ~Announcing(c, s)'
  <2>1. c # main.index \/ s # main.s
    BY <1>1, <1>4 DEF Reserved
  <2> QED
    BY <1>1, <1>2, <1>3, <1>4, <2>1 DEF Reserved, Announcing, SlotOf, Owns, peers
<1>5. \A c, s, d : /\ Knows(d, c, s)' <=> Knows(d, c, s)
                   /\ Occupied(c, s)' <=> Occupied(c, s)
  BY <1>1 DEF Knows, Occupied, SlotOf, Owns, net
<1>6. PortInv'
  BY <1>4, <1>5 DEF OwnInv, PortInv
<1>7. QueueInv'
  <2> SUFFICES ASSUME NEW c \in ClientIds, NEW s \in SlotIds, NEW m \in Messages,
                      NEW i \in 1 .. Len(queue[Port(c, s)]), queue[Port(c, s)][i] = m
               PROVE  /\ Reserved(m.from, c, s)' /\ ~Announcing(c, s)'
                      /\ m.op = "CLOSE" /\ Occupied(c, s)' =>
                           i = Len(queue[Port(c, s)]) /\ device[m.from].pc \in Finished
    BY DEF QueueInv, net
  <2> QED
    BY <1>4, <1>5 DEF OwnInv, QueueInv
<1>8. CloseInv' /\ ClientInv'
  BY <1>1 DEF OwnInv, CloseInv, ClientInv, net, peers
<1>9. AnnounceInv'
  BY <1>2 DEF AnnounceInv
<1> QED
  BY <1>6, <1>7, <1>8, <1>9 DEF OwnInv

(* The new thread is the slot's first and belongs to the device that will   *)
(* be answered.                                                             *)
LEMMA SpawnOwn ==
  ASSUME IInv, OwnInv, NetSpawn
  PROVE  OwnInv'
<1>0. /\ main \in MainLocals /\ thread \in [Threads -> ThreadLocals]
      /\ main.pc = "spawn" /\ main.index \in ClientIds /\ main.s \in SlotIds
      /\ session_active[main.index][main.s] = 1
  BY DEF IInv, TypeOK, MainInv, NetSpawn, Spawn
<1>1. /\ main'.pc = "ack" /\ main'.index = main.index /\ main'.s = main.s
      /\ UNCHANGED <<session_active, device, queue, client, loginReplies, mainClient>>
  BY <1>0 DEF NetSpawn, Spawn, MainLocals, table, net
<1>2. ASSUME NEW u \in Threads
      PROVE  \/ thread'[u] = thread[u] /\ owner'[u] = owner[u]
             \/ /\ thread[u].pc = "none" /\ thread'[u].pc = "start"
                /\ thread'[u].c = main.index /\ thread'[u].s = main.s
                /\ owner'[u] = mainClient
  <2>1. \/ thread'[u] = thread[u]
        \/ /\ thread[u].pc = "none" /\ thread'[u].pc = "start"
           /\ thread'[u].c = main.index /\ thread'[u].s = main.s
    BY <1>0 DEF NetSpawn, Spawn, NoThread
  <2>2. owner'[u] = IF thread'[u] # thread[u] THEN mainClient ELSE owner[u]
    BY DEF NetSpawn
  <2> QED
    BY <2>1, <2>2
<1>3. ASSUME NEW c \in ClientIds, NEW s \in SlotIds, ~Announcing(c, s)
      PROVE  /\ ~Announcing(c, s)'
             /\ Occupied(c, s)' => Occupied(c, s)
             /\ \A d : Reserved(d, c, s) => Reserved(d, c, s)'
  <2>1. ~Announcing(c, s)' /\ (c # main.index \/ s # main.s)
    BY <1>0, <1>1, <1>3 DEF Announcing
  <2>2. \A u \in Threads : SlotOf(u, c, s)' => SlotOf(u, c, s) /\ owner'[u] = owner[u]
    BY <1>2, <2>1 DEF SlotOf, Owns
  <2> QED
    BY <1>1, <2>1, <2>2 DEF Occupied, Reserved
<1>4. PortInv'
  <2>1. \A d, c, s : Knows(d, c, s)' <=> Knows(d, c, s)
    BY <1>1 DEF Knows
  <2> QED
    BY <1>3, <2>1 DEF OwnInv, PortInv
<1>5. QueueInv'
  <2> SUFFICES ASSUME NEW c \in ClientIds, NEW s \in SlotIds, NEW m \in Messages,
                      NEW i \in 1 .. Len(queue[Port(c, s)]), queue[Port(c, s)][i] = m
               PROVE  /\ Reserved(m.from, c, s)' /\ ~Announcing(c, s)'
                      /\ m.op = "CLOSE" /\ Occupied(c, s)' =>
                           i = Len(queue[Port(c, s)]) /\ device[m.from].pc \in Finished
    BY <1>1 DEF QueueInv
  <2> QED
    BY <1>3 DEF OwnInv, QueueInv
<1>6. CloseInv'
  BY <1>1, <1>2 DEF OwnInv, CloseInv
<1>7. ClientInv'
  BY <1>1, <1>2 DEF OwnInv, ClientInv
<1>8. AnnounceInv'
  <2>1. ASSUME NEW u \in Threads, SlotOf(u, main.index, main.s)'
        PROVE  owner'[u] = mainClient /\ thread'[u].pc # "close"
    <3>1. ~SlotOf(u, main.index, main.s)
      BY <1>0 DEF IInv, OwnerInv, OwnsSlot, SlotOf
    <3>2. SlotOf(u, main.index, main.s) <=> Owns(u) /\ thread[u].c = main.index
                                                   /\ thread[u].s = main.s
      BY DEF SlotOf
    <3>3. thread'[u] # thread[u]
      BY <1>1, <2>1, <3>1, <3>2 DEF SlotOf, Owns
    <3> QED
      BY <1>2, <3>3
  <2> QED
    BY <1>0, <1>1, <2>1 DEF AnnounceInv, Reserved
<1> QED
  BY <1>4, <1>5, <1>6, <1>7, <1>8 DEF OwnInv

(* The answer to a login tells its device the port of the slot it has been  *)
(* given, and nobody anything else.                                         *)
LEMMA ReplyLearnt ==
  ASSUME NetTypeOK, AckSlot, NetReply,
         NEW d \in Devices, NEW c \in ClientIds, NEW s \in SlotIds, Knows(d, c, s)'
  PROVE  \/ Knows(d, c, s)
         \/ d = mainClient /\ main.pc = "ack" /\ c = main.index /\ s = main.s
<1> SUFFICES ASSUME ~Knows(d, c, s)
             PROVE  d = mainClient /\ main.pc = "ack" /\ c = main.index /\ s = main.s
  OBVIOUS
<1> DEFINE a == IF main.pc = "ack" THEN Port(main.index, main.s) ELSE NACK
<1>0. UNCHANGED device
  BY DEF NetReply
<1>1. loginReplies[d] \in Seq(SessionPorts \cup {NACK})
  BY DEF NetTypeOK
<1>2. \/ loginReplies'[d] = loginReplies[d]
      \/ d = mainClient /\ loginReplies'[d] = Append(loginReplies[d], a)
  BY DEF NetReply, Answer, NetTypeOK
<1>3. d = mainClient /\ a = Port(c, s)
  <2> HIDE DEF a
  <2>1. CASE loginReplies'[d] = loginReplies[d]
    BY <1>0, <2>1 DEF Knows
  <2>2. CASE d = mainClient /\ loginReplies'[d] = Append(loginReplies[d], a)
    BY <1>0, <1>1, <2>2 DEF Knows
  <2> QED
    BY <1>2, <2>1, <2>2
<1>4. Port(c, s) # NACK
  BY SessionsAssumption DEF Port, NACK, ClientIds, SlotIds, MAXSESSIONS
<1>5. main.pc = "ack" /\ Port(c, s) = Port(main.index, main.s)
  BY <1>3, <1>4
<1>6. c = main.index /\ s = main.s
  BY <1>5, PortInjective DEF AckSlot
<1> QED
  BY <1>3, <1>5, <1>6

(* The answer goes to the device that has the slot.                         *)
LEMMA ReplyOwn ==
  ASSUME IInv, NetTypeOK, AckSlot, OwnInv, NetReply
  PROVE  OwnInv'
<1>0. /\ loginReplies \in [Devices -> Seq(SessionPorts \cup {NACK})]
      /\ main' = Idle /\ main'.pc = "recv"
      /\ UNCHANGED <<session_active, thread, device, queue, client, owner>>
  BY DEF NetTypeOK, NetReply, Reply, table, Idle
<1>1. \A c, s : /\ ~Announcing(c, s)'
                /\ Occupied(c, s)' <=> Occupied(c, s)
                /\ \A d : Reserved(d, c, s)' <=> Reserved(d, c, s)
  BY <1>0 DEF Announcing, SlotOf, Occupied, Owns, Reserved
<1>2. ASSUME NEW d \in Devices, NEW c \in ClientIds, NEW s \in SlotIds, Knows(d, c, s)'
      PROVE  Reserved(d, c, s)
  <2>1. CASE Knows(d, c, s)
    BY <2>1 DEF OwnInv, PortInv
  <2>2. CASE /\ d = mainClient /\ main.pc = "ack" /\ c = main.index /\ s = main.s
    BY <2>2 DEF OwnInv, AnnounceInv
  <2> QED
    BY <1>2, <2>1, <2>2, ReplyLearnt
<1>3. PortInv'
  BY <1>1, <1>2 DEF PortInv
<1>4. QueueInv'
  <2> SUFFICES ASSUME NEW c \in ClientIds, NEW s \in SlotIds, NEW m \in Messages,
                      NEW i \in 1 .. Len(queue[Port(c, s)]), queue[Port(c, s)][i] = m
               PROVE  /\ Reserved(m.from, c, s)' /\ ~Announcing(c, s)'
                      /\ m.op = "CLOSE" /\ Occupied(c, s)' =>
                           i = Len(queue[Port(c, s)]) /\ device[m.from].pc \in Finished
    BY <1>0 DEF QueueInv
  <2> QED
    BY <1>1 DEF OwnInv, QueueInv
<1>5. CloseInv' /\ ClientInv'
  BY <1>0 DEF OwnInv, CloseInv, ClientInv
<1>6. AnnounceInv'
  BY <1>0 DEF AnnounceInv
<1> QED
  BY <1>3, <1>4, <1>5, <1>6 DEF OwnInv

(* Every step of the main thread.                                           *)
LEMMA MainOwn ==
  ASSUME IInv, NetTypeOK, AckSlot, OwnInv, NetMain
  PROVE  OwnInv'
<1>0. main \in MainLocals
  BY DEF IInv, TypeOK
<1>1. CASE NetMainRecv
  <2>1. main'.pc = "match"
    BY <1>0, <1>1 DEF NetMainRecv, MainRecv, MainLocals
  <2> QED
    BY <1>1, <2>1, QuietOwn DEF NetMainRecv, MainRecv, table
<1>2. CASE Match \/ Scan \/ Claim \/ Check \/ SkipSlot
  <2>1. main'.pc \notin {"spawn", "ack"}
    <3>1. CASE Match
      BY <1>0, <3>1 DEF Match, MainLocals
    <3>2. CASE Scan
      BY <1>0, <3>2 DEF Scan, MainLocals
    <3>3. CASE Claim
      BY <1>0, <3>3 DEF Claim, MainLocals
    <3>4. CASE Check
      BY <1>0, <3>4 DEF Check, Refused, Idle, MainLocals
    <3>5. CASE SkipSlot
      BY <1>0, <3>5 DEF SkipSlot, Refused, Idle, MainLocals
    <3> QED
      BY <1>2, <3>1, <3>2, <3>3, <3>4, <3>5
  <2>2. UNCHANGED <<session_active, thread>>
    BY <1>2 DEF Match, Scan, Claim, Check, SkipSlot, table
  <2>3. UNCHANGED <<device, net, peers>>
    BY <1>2, <2>1 DEF NetMain, NetMainRecv, MainRecv, NetSpawn, Spawn, NetReply, Reply,
                 Match, Scan, Claim, Check, SkipSlot
  <2> QED
    BY <2>1, <2>2, <2>3, QuietOwn DEF net, peers
<1>3. CASE TakeSlot
  <2>1. main'.pc = "spawn"
    BY <1>0, <1>3 DEF TakeSlot, MainLocals
  <2>2. UNCHANGED <<device, net, peers>>
    BY <1>3, <2>1 DEF NetMain, NetMainRecv, MainRecv, NetSpawn, Spawn, NetReply, Reply,
                 TakeSlot
  <2> QED
    BY <1>3, <2>2, TakeSlotOwn
<1>4. CASE NetSpawn
  BY <1>4, SpawnOwn
<1>5. CASE NetReply
  BY <1>5, ReplyOwn
<1> QED
  BY <1>1, <1>2, <1>3, <1>4, <1>5 DEF NetMain

-----------------------------------------------------------------------------
(* Steps of a session thread *)

(* What a step of thread t does to the things that who has a slot rests on. *)
LEMMA ThreadEffect ==
  ASSUME IInv, NetTypeOK, NEW t \in Threads, NetThread(t)
  PROVE  /\ UNCHANGED <<main, device, loginReplies, mainClient>>
         /\ \A u \in Threads \ {t} : /\ thread'[u] = thread[u]
                                     /\ owner'[u] = owner[u] /\ client'[u] = client[u]
         /\ thread'[t].pc # "none" => owner'[t] = owner[t]
         /\ thread'[t].pc = "none" => client'[t] = NoDevice
         /\ \/ NetReceive(t)
            \/ /\ UNCHANGED queue /\ thread'[t].pc # "close"
               /\ client'[t] \in {client[t], NoDevice}
         /\ \/ UNCHANGED session_active
            \/ /\ thread[t].pc = "close"
               /\ session_active' =
                    [session_active EXCEPT ![thread[t].c][thread[t].s] = 0]
<1>0. /\ thread \in [Threads -> ThreadLocals] /\ thread[t] \in ThreadLocals
      /\ client \in [Threads -> Devices \cup {NoDevice}]
      /\ owner \in [Threads -> Devices \cup {NoDevice}]
  BY DEF IInv, TypeOK, NetTypeOK
<1>1. CASE NetReceive(t)
  <2>1. thread'[t].pc # "none"
    BY <1>0, <1>1 DEF NetReceive, Receive, ThreadLocals
  <2> QED
    BY <1>0, <1>1, <2>1 DEF NetReceive, Receive, table
<1>2. CASE NetEndTransfer(t)
  <2>1. thread'[t].pc \in {"replicate", "recv"}
    BY <1>0, <1>2 DEF NetEndTransfer, EndTransfer, ThreadLocals
  <2> QED
    BY <1>0, <1>2, <2>1 DEF NetEndTransfer, EndTransfer, table, peers
<1>3. CASE NetBind(t)
  <2>1. thread'[t].pc = "publish"
    BY ZenonT(60), <1>0, <1>3 DEF NetBind, Bind, ThreadLocals
  <2> QED
    BY <1>0, <1>3, <2>1 DEF NetBind, Bind, table, net, peers
<1>4. CASE NetEnd(t)
  <2>1. /\ thread'[t].pc \in {"recv", "none"}
        /\ \A u \in Threads \ {t} : thread'[u] = thread[u]
        /\ UNCHANGED <<main, session_active>>
    <3>1. CASE Publish(t)
      BY <1>0, <3>1 DEF Publish, NoThread, ThreadLocals
    <3>2. CASE Replicate(t)
      BY <1>0, <3>2 DEF Replicate, NoThread, ThreadLocals, table
    <3> QED
      BY <1>4, <3>1, <3>2 DEF NetEnd
  <2> QED
    BY <1>0, <1>4, <2>1 DEF NetEnd, net
<1>5. CASE /\ Start(t) \/ BuildPath(t) \/ Close(t)
           /\ UNCHANGED <<user, device, net, peers, faults>>
  <2>1. /\ thread'[t].pc \notin {"none", "close"} /\ UNCHANGED main
        /\ \A u \in Threads \ {t} : thread'[u] = thread[u]
    <3>1. CASE Start(t)
      BY <1>0, <3>1 DEF Start, ThreadLocals
    <3>2. CASE BuildPath(t) \/ Close(t)
      BY <1>0, <3>2 DEF BuildPath, Close, ThreadLocals
    <3> QED
      BY <1>5, <3>1, <3>2
  <2> QED
    BY <1>0, <1>5, <2>1 DEF Start, BuildPath, Close, table, net, peers
<1> QED
  BY <1>1, <1>2, <1>3, <1>4, <1>5 DEF NetThread

(* Threads leave slots and do not enter them; a slot is freed by the CLOSE  *)
(* of the thread at it.                                                     *)
LEMMA ThreadSlots ==
  ASSUME IInv, NetTypeOK, NEW t \in Threads, NetThread(t),
         NEW c \in ClientIds, NEW s \in SlotIds
  PROVE  /\ \A u \in Threads : SlotOf(u, c, s)' => SlotOf(u, c, s) /\ owner'[u] = owner[u]
         /\ Occupied(c, s)' => Occupied(c, s)
         /\ Announcing(c, s)' <=> Announcing(c, s)
         /\ ~(thread[t].pc = "close" /\ SlotOf(t, c, s)) =>
               \A d : Reserved(d, c, s) => Reserved(d, c, s)'
<1>1. \E op \in Ops : Receive(t, op) \/ ThreadStep(t)
  <2>1. CASE NetReceive(t)
    <3>1. thread[t].port \in SessionPorts
      BY <2>1, ReceiverAt DEF NetReceive
    <3> QED
      BY <2>1, <3>1, HeadTyped DEF NetReceive
  <2> QED
    BY <2>1 DEF NetThread, NetEndTransfer, NetBind, NetEnd, ThreadStep, Ops
<1>2. ASSUME NEW u \in Threads, SlotOf(u, c, s)'
      PROVE  SlotOf(u, c, s) /\ owner'[u] = owner[u]
  <2>1. Owns(u) /\ thread'[u].c = thread[u].c /\ thread'[u].s = thread[u].s
    BY <1>1, <1>2, NoNewOwner DEF SlotOf
  <2>2. thread'[u].pc # "none"
    BY <1>2 DEF SlotOf, Owns
  <2> QED
    BY <1>2, <2>1, <2>2, ThreadEffect DEF SlotOf
<1>3. Announcing(c, s)' <=> Announcing(c, s)
  BY ThreadEffect DEF Announcing
<1>4. ASSUME ~(thread[t].pc = "close" /\ SlotOf(t, c, s)), NEW d, Reserved(d, c, s)
      PROVE  Reserved(d, c, s)'
  <2>1. session_active'[c][s] = session_active[c][s]
    <3>1. session_active \in [ClientIds -> [SlotIds -> {0, 1}]]
      BY DEF IInv, TypeOK
    <3>2. thread[t].pc = "close" => thread[t].c # c \/ thread[t].s # s
      BY <1>4 DEF SlotOf, Owns
    <3>3. CASE UNCHANGED session_active
      BY <3>3
    <3>4. CASE /\ thread[t].pc = "close"
               /\ session_active' =
                    [session_active EXCEPT ![thread[t].c][thread[t].s] = 0]
      <4>1. thread[t].c \in ClientIds
        BY <3>4 DEF IInv, OwnerInv
      <4> QED
        BY <3>1, <3>2, <3>4, <4>1
    <3> QED
      BY <3>3, <3>4, ThreadEffect
  <2> QED
    BY <1>2, <1>4, <2>1 DEF Reserved
<1> QED
  BY <1>2, <1>3, <1>4 DEF Occupied

(* The packet a thread takes is its own device's, and after a CLOSE its     *)
(* socket is empty.                                                         *)
LEMMA TakenPacket ==
  ASSUME IInv, NetTypeOK, OwnInv, NEW t \in Threads, NetReceive(t)
  PROVE  LET p == Port(thread[t].c, thread[t].s)
         IN  /\ SlotOf(t, thread[t].c, thread[t].s)
             /\ thread[t].c \in ClientIds /\ thread[t].s \in SlotIds
             /\ p \in SessionPorts /\ queue[p] # <<>> /\ queue[p] \in Seq(Messages)
             /\ queue' = [queue EXCEPT ![p] = Tail(@)]
             /\ ~Announcing(thread[t].c, thread[t].s)
             /\ owner[t] \in Devices /\ client'[t] = owner[t]
             /\ thread'[t].pc # "none"
             /\ thread'[t].pc = "close" =>
                  device[owner[t]].pc \in Finished /\ Tail(queue[p]) = <<>>
<1> DEFINE c == thread[t].c
           s == thread[t].s
           p == Port(c, s)
           m == Head(queue[p])
<1>1. /\ SlotOf(t, c, s) /\ c \in ClientIds /\ s \in SlotIds
      /\ thread[t].port = p /\ p \in SessionPorts
  BY ReceiverAt DEF NetReceive, SlotOf
<1>2. /\ queue[p] # <<>> /\ queue[p] \in Seq(Messages) /\ m \in Messages
      /\ Class(m.op) = "CLOSE" <=> m.op = "CLOSE"
  BY <1>1, HeadTyped DEF NetReceive
<1>3. queue' = [queue EXCEPT ![p] = Tail(@)] /\ client'[t] = m.from
  BY <1>1 DEF NetReceive, NetTypeOK
<1>4. /\ thread'[t].pc \in {"recv", "path", "close"}
      /\ thread'[t].pc = "close" => m.op = "CLOSE"
  <2>1. thread \in [Threads -> ThreadLocals]
    BY DEF IInv, TypeOK
  <2>2. thread' = [thread EXCEPT ![t] =
                    [@ EXCEPT !.op = Class(m.op),
                              !.pc = CASE Class(m.op) = "CLOSE" -> "close"
                                       [] Class(m.op) = "OTHER" -> "recv"
                                       [] OTHER -> "path"]]
    BY <1>1 DEF NetReceive, Receive
  <2> HIDE DEF m
  <2> QED
    BY <1>2, <2>1, <2>2 DEF ThreadLocals
<1>5. m = queue[p][1] /\ 1 \in 1 .. Len(queue[p])
  BY <1>2, HeadTail
<1>6. /\ Reserved(m.from, c, s) /\ ~Announcing(c, s)
      /\ m.op = "CLOSE" /\ Occupied(c, s) =>
           1 = Len(queue[p]) /\ device[m.from].pc \in Finished
  BY <1>1, <1>2, <1>5 DEF OwnInv, QueueInv
<1>7. m.from \in Devices /\ owner[t] = m.from
  BY <1>1, <1>2, <1>6 DEF Reserved, Messages
<1>8. 1 = Len(queue[p]) => Tail(queue[p]) = <<>>
  <2> HIDE DEF p
  <2>1. \A q \in Seq(Messages) : Len(q) = 0 => q = <<>>
    OBVIOUS
  <2>2. Tail(queue[p]) \in Seq(Messages) /\ Len(Tail(queue[p])) = Len(queue[p]) - 1
    BY <1>2, HeadTail
  <2>3. 1 = Len(queue[p]) => Len(Tail(queue[p])) = 0
    BY <2>2
  <2> QED
    BY <2>1, <2>2, <2>3, Zenon
<1>9. Occupied(c, s)
  BY <1>1 DEF Occupied
<1> HIDE DEF m, p
<1> QED
  BY <1>1, <1>2, <1>3, <1>4, <1>6, <1>7, <1>8, <1>9 DEF p

(* Every step of a session thread.                                          *)
LEMMA ThreadOwn ==
  ASSUME IInv, NetTypeOK, AckSlot, OwnInv, NEW t \in Threads, NetThread(t)
  PROVE  OwnInv'
<1>1. ASSUME NEW c \in ClientIds, NEW s \in SlotIds,
             thread[t].pc = "close", SlotOf(t, c, s)
      PROVE  /\ owner[t] \in Devices /\ device[owner[t]].pc \in Finished
             /\ queue[Port(c, s)] = <<>>
  BY <1>1 DEF OwnInv, CloseInv, SlotOf
<1>2. ASSUME NEW p \in SessionPorts
      PROVE  \/ queue'[p] = queue[p]
             \/ queue[p] # <<>> /\ queue'[p] = Tail(queue[p])
  <2>1. CASE NetReceive(t)
    BY <2>1, TakenPacket DEF NetTypeOK
  <2> QED
    BY <2>1, ThreadEffect
<1>3. PortInv'
  <2> SUFFICES ASSUME NEW d \in Devices, NEW c \in ClientIds, NEW s \in SlotIds,
                      Knows(d, c, s)'
               PROVE  Reserved(d, c, s)' /\ ~Announcing(c, s)'
    BY DEF PortInv
  <2>1. Knows(d, c, s)
    BY ThreadEffect DEF Knows
  <2>2. Reserved(d, c, s) /\ ~Announcing(c, s)
    BY <2>1 DEF OwnInv, PortInv
  <2>3. ~(thread[t].pc = "close" /\ SlotOf(t, c, s))
    <3>1. device[d].pc \notin Finished
      BY <2>1 DEF Knows, Finished
    <3> QED
      BY <1>1, <2>2, <3>1 DEF Reserved
  <2> QED
    BY <2>2, <2>3, ThreadSlots
<1>4. QueueInv'
  <2> SUFFICES ASSUME NEW c \in ClientIds, NEW s \in SlotIds, NEW m \in Messages,
                      NEW i \in 1 .. Len(queue'[Port(c, s)]), queue'[Port(c, s)][i] = m
               PROVE  /\ Reserved(m.from, c, s)' /\ ~Announcing(c, s)'
                      /\ m.op = "CLOSE" /\ Occupied(c, s)' =>
                           i = Len(queue'[Port(c, s)]) /\ device'[m.from].pc \in Finished
    BY DEF QueueInv
  <2> DEFINE p == Port(c, s)
  <2>0. p \in SessionPorts
    BY DEF SessionPorts
  <2>1. /\ Reserved(m.from, c, s) /\ ~Announcing(c, s) /\ queue[p] # <<>>
        /\ m.op = "CLOSE" /\ Occupied(c, s) =>
             i = Len(queue'[p]) /\ device[m.from].pc \in Finished
    <3>1. CASE queue'[p] = queue[p]
      BY <3>1 DEF OwnInv, QueueInv
    <3>2. CASE queue[p] # <<>> /\ queue'[p] = Tail(queue[p])
      <4>1. queue[p] \in Seq(Messages)
        BY <2>0 DEF NetTypeOK
      <4>2. /\ i + 1 \in 1 .. Len(queue[p]) /\ queue[p][i + 1] = m
            /\ Len(queue'[p]) = Len(queue[p]) - 1
        BY <3>2, <4>1, HeadTail
      <4>3. /\ Reserved(m.from, c, s) /\ ~Announcing(c, s)
            /\ m.op = "CLOSE" /\ Occupied(c, s) =>
                 i + 1 = Len(queue[p]) /\ device[m.from].pc \in Finished
        BY <4>2 DEF OwnInv, QueueInv
      <4>4. i \in Nat /\ Len(queue[p]) \in Nat
        BY <4>1
      <4> QED
        BY <3>2, <4>2, <4>3, <4>4
    <3> QED
      BY <1>2, <2>0, <3>1, <3>2
  <2>2. ~(thread[t].pc = "close" /\ SlotOf(t, c, s))
    BY <1>1, <2>1
  <2>3. /\ Reserved(m.from, c, s)' /\ ~Announcing(c, s)'
        /\ Occupied(c, s)' => Occupied(c, s)
    BY <2>1, <2>2, ThreadSlots
  <2>4. UNCHANGED device
    BY ThreadEffect
  <2> QED
    BY <2>1, <2>3, <2>4
<1>5. AnnounceInv'
  <2> SUFFICES ASSUME main.pc = "ack", NEW c \in ClientIds, NEW s \in SlotIds,
                      c = main.index, s = main.s
               PROVE  /\ Reserved(mainClient, c, s)'
                      /\ \A u \in Threads : SlotOf(u, c, s)' => thread'[u].pc # "close"
    BY ThreadEffect DEF AnnounceInv, AckSlot
  <2>1. /\ Reserved(mainClient, c, s)
        /\ \A u \in Threads : SlotOf(u, c, s) => thread[u].pc # "close"
    BY DEF OwnInv, AnnounceInv
  <2>2. Reserved(mainClient, c, s)'
    <3>1. \A d : Reserved(d, c, s) => Reserved(d, c, s)'
      BY <2>1, ThreadSlots
    <3> QED
      BY <2>1, <3>1, ThreadEffect
  <2>3. ASSUME NEW u \in Threads, SlotOf(u, c, s)'
        PROVE  thread'[u].pc # "close"
    <3>1. SlotOf(u, c, s)
      BY <2>3, ThreadSlots
    <3>2. CASE u # t
      BY <2>1, <3>1, <3>2, ThreadEffect
    <3>3. CASE u = t
      <4>1. Announcing(c, s)
        BY DEF Announcing
      <4>2. ~NetReceive(t)
        BY <3>1, <3>3, <4>1, TakenPacket DEF SlotOf
      <4> QED
        BY <3>3, <4>2, ThreadEffect
    <3> QED
      BY <3>2, <3>3
  <2> QED
    BY <2>2, <2>3
<1>6. CloseInv'
  <2> SUFFICES ASSUME NEW u \in Threads, thread'[u].pc = "close"
               PROVE  /\ owner'[u] \in Devices /\ device[owner'[u]].pc \in Finished
                      /\ queue'[Port(thread'[u].c, thread'[u].s)] = <<>>
    BY ThreadEffect DEF CloseInv
  <2>1. CASE u = t
    <3>1. NetReceive(t) /\ owner'[t] = owner[t]
      BY <2>1, ThreadEffect
    <3>2. thread'[t].c = thread[t].c /\ thread'[t].s = thread[t].s
      BY <3>1 DEF NetReceive, Receive, IInv, TypeOK, ThreadLocals
    <3>3. /\ owner[t] \in Devices /\ device[owner[t]].pc \in Finished
          /\ queue'[Port(thread[t].c, thread[t].s)] = <<>>
      BY <2>1, <3>1, TakenPacket DEF NetTypeOK
    <3> QED
      BY <2>1, <3>1, <3>2, <3>3
  <2>2. CASE u # t
    <3>1. thread'[u] = thread[u] /\ owner'[u] = owner[u]
      BY <2>2, ThreadEffect
    <3>2. Port(thread[u].c, thread[u].s) \in SessionPorts
      BY <3>1 DEF IInv, OwnerInv, TypeOK, ThreadLocals, SessionPorts
    <3> QED
      BY <1>2, <3>1, <3>2 DEF OwnInv, CloseInv
  <2> QED
    BY <2>1, <2>2
<1>7. ClientInv'
  <2> SUFFICES ASSUME NEW u \in Threads
               PROVE  /\ client'[u] \in {NoDevice, owner'[u]}
                      /\ thread'[u].pc = "none" => client'[u] = NoDevice
    BY DEF ClientInv
  <2>1. CASE u = t /\ NetReceive(t)
    BY <2>1, TakenPacket, ThreadEffect
  <2>2. CASE u # t \/ ~NetReceive(t)
    BY <2>2, ThreadEffect DEF OwnInv, ClientInv
  <2> QED
    BY <2>1, <2>2
<1> QED
  BY <1>3, <1>4, <1>5, <1>6, <1>7 DEF OwnInv

-----------------------------------------------------------------------------
(* The invariant and what follows from it *)

(* A device learns a port only from the main thread, which is announcing it *)
(* then, so that nobody knows it yet.                                       *)
LEMMA ApartStep ==
  ASSUME IInv, NetTypeOK, AckSlot, OwnInv, ApartInv, NetNext, ~Disturb("dup")
  PROVE  ApartInv'
<1>1. ASSUME NEW d \in Devices, NEW c \in ClientIds, NEW s \in SlotIds, Knows(d, c, s)'
      PROVE  \/ Knows(d, c, s)
             \/ d = mainClient /\ main.pc = "ack" /\ c = main.index /\ s = main.s
  <2>1. CASE UNCHANGED <<device, loginReplies>>
    BY <1>1, <2>1 DEF Knows
  <2>2. CASE NetMain
    <3>1. NetReply \/ UNCHANGED <<device, loginReplies>>
      BY <2>2 DEF NetMain, NetMainRecv, NetSpawn, net
    <3> QED
      BY <1>1, <2>1, <3>1, ReplyLearnt
  <2>3. ASSUME NEW t \in Threads, NetThread(t)
        PROVE  UNCHANGED <<device, loginReplies>>
    BY <2>3, ThreadEffect
  <2>4. ASSUME NEW x \in Devices, Device(x) \/ Vanish(x)
        PROVE  Knows(d, c, s)
    BY <1>1, <2>4, NothingLearnt
  <2>5. CASE Disturb("lost")
    BY <1>1, <2>5, NothingLearntLost
  <2> QED
    BY <2>1, <2>2, <2>3, <2>4, <2>5 DEF NetNext
<1> SUFFICES ASSUME NEW d \in Devices, NEW e \in Devices,
                    NEW c \in ClientIds, NEW s \in SlotIds,
                    Knows(d, c, s)', Knows(e, c, s)'
             PROVE  d = e
  BY DEF ApartInv
<1>2. Knows(d, c, s) \/ Knows(e, c, s) =>
        ~(main.pc = "ack" /\ c = main.index /\ s = main.s)
  BY DEF OwnInv, PortInv, Announcing
<1> QED
  BY <1>1, <1>2 DEF ApartInv

(* A datagram delivered twice or sent too late is never undone.             *)
LEMMA StrayForGood ==
  ASSUME NetTypeOK, NetNext, NoStray'
  PROVE  /\ NoStray
         /\ ~Disturb("dup")
<1>0. faults \in [Kinds -> Nat] /\ {"dup", "late"} \subseteq Kinds
  BY DEF NetTypeOK, Kinds
<1>1. \/ UNCHANGED faults
      \/ \E k \in Kinds : Count(k)
  <2>1. CASE NetMain
    BY <2>1 DEF NetMain, NetMainRecv, NetSpawn, NetReply, Kinds
  <2>2. ASSUME NEW t \in Threads, NetThread(t)
        PROVE  UNCHANGED faults \/ \E k \in Kinds : Count(k)
    BY <2>2 DEF NetThread, NetReceive, NetEndTransfer, NetBind, NetEnd, Kinds
  <2>3. ASSUME NEW d \in Devices, Device(d) \/ Vanish(d)
        PROVE  UNCHANGED faults \/ \E k \in Kinds : Count(k)
    BY <2>3 DEF Device, Login, LoginReply, TakeAck, Exit, Ask, SendRequest, Vanish, Kinds
  <2>4. ASSUME NEW kind \in {"lost", "dup"}, Disturb(kind)
        PROVE  \E k \in Kinds : Count(k)
    BY <2>4 DEF Disturb, Kinds
  <2> QED
    BY <2>1, <2>2, <2>3, <2>4 DEF NetNext
<1>2. NoStray
  BY <1>0, <1>1 DEF Count, NoStray
<1>3. ~Disturb("dup")
  BY <1>0, <1>2 DEF Disturb, Count, NoStray
<1> QED
  BY <1>2, <1>3

LEMMA NetInitInv ==
  ASSUME NetInit
  PROVE  NetInv
<1>1. IInv
  BY InitInv DEF NetInit
<1>2. NetTypeOK
  <2>1. \A S : <<>> \in Seq(S)
    OBVIOUS
  <2>2. MaxRequests \in Nat
    BY NetAssumption
  <2> QED
    BY <2>1, <2>2 DEF NetInit, NetTypeOK, NoDevice
<1>3. main.pc = "recv" /\ \A t \in Threads : thread[t].pc = "none"
  BY DEF NetInit, Init, Idle, NoThread
<1>4. PortInv
  BY DEF NetInit, PortInv, Knows
<1>5. QueueInv
  <2>1. \A c \in ClientIds, s \in SlotIds : Port(c, s) \in SessionPorts
    BY DEF SessionPorts
  <2> QED
    BY <2>1 DEF NetInit, QueueInv
<1>6. AnnounceInv /\ CloseInv /\ AckSlot
  BY <1>3 DEF AnnounceInv, CloseInv, AckSlot
<1>7. ClientInv
  BY DEF NetInit, ClientInv
<1>8. ApartInv
  BY DEF NetInit, ApartInv, Knows
<1> QED
  BY <1>1, <1>2, <1>4, <1>5, <1>6, <1>7, <1>8 DEF NetInv, OwnInv

LEMMA NetNextInv ==
  ASSUME NetInv, [NetNext]_netVars
  PROVE  NetInv'
<1>1. CASE UNCHANGED netVars
  <2>1. UNCHANGED <<vars, user, device, mainQueue, queue, loginReplies, replies,
                    mainClient, client, owner, faults>>
    BY <1>1 DEF netVars, net, peers
  <2>2. IInv'
    BY <2>1, NextInv DEF NetInv
  <2>3. NetTypeOK' /\ AckSlot' /\ (NoStray' <=> NoStray)
    BY <2>1 DEF NetInv, NetTypeOK, AckSlot, NoStray, vars
  <2>4. OwnInv => OwnInv'
    <3> SUFFICES ASSUME OwnInv PROVE OwnInv'
      OBVIOUS
    <3>1. \A c, s : /\ Occupied(c, s)' <=> Occupied(c, s)
                    /\ Announcing(c, s)' <=> Announcing(c, s)
                    /\ \A d : Reserved(d, c, s)' <=> Reserved(d, c, s)
                    /\ \A d : Knows(d, c, s)' <=> Knows(d, c, s)
      BY <2>1, SameSlot DEF Knows
    <3>2. PortInv'
      BY <3>1 DEF OwnInv, PortInv
    <3>3. QueueInv'
      BY <2>1, <3>1 DEF OwnInv, QueueInv
    <3>4. AnnounceInv'
      BY <2>1, <3>1 DEF OwnInv, AnnounceInv, vars, SlotOf, Owns
    <3>5. CloseInv' /\ ClientInv'
      BY <2>1 DEF OwnInv, CloseInv, ClientInv, vars
    <3> QED
      BY <3>2, <3>3, <3>4, <3>5 DEF OwnInv
  <2>5. ApartInv => ApartInv'
    BY <2>1 DEF ApartInv, Knows
  <2> QED
    BY <2>2, <2>3, <2>4, <2>5 DEF NetInv
<1>2. CASE NetNext
  <2>1. IInv /\ NetTypeOK /\ AckSlot
    BY DEF NetInv
  <2>2. [Next]_vars
    BY <1>2, <2>1, TableStep
  <2>3. IInv'
    BY <2>1, <2>2, NextInv
  <2>4. AckSlot'
    BY <2>1, <2>2, AckSlotStep
  <2>5. NetTypeOK'
    BY <1>2, <2>1, ServerTypes, DeviceTypes, DisturbTypes DEF NetNext
  <2>6. ASSUME NoStray'
        PROVE  OwnInv' /\ ApartInv'
    <3>1. OwnInv /\ ApartInv /\ ~Disturb("dup")
      BY <1>2, <2>1, <2>6, StrayForGood DEF NetInv
    <3>2. OwnInv'
      BY <1>2, <2>1, <2>6, <3>1, MainOwn, ThreadOwn, DeviceOwn, LostOwn DEF NetNext
    <3> QED
      BY <1>2, <2>1, <3>1, <3>2, ApartStep
  <2> QED
    BY <2>3, <2>4, <2>5, <2>6 DEF NetInv
<1> QED
  BY <1>1, <1>2

(* NetInv holds in every reachable state of the server, its devices and     *)
(* the sockets between them.                                                *)
THEOREM NetInvariance == NetSpec => []NetInv
<1>1. NetInit => NetInv
  BY NetInitInv
<1>2. NetInv /\ [NetNext]_netVars => NetInv'
  BY NetNextInv
<1> QED
  BY <1>1, <1>2, PTL DEF NetSpec

(* The queues hold what devices and server send, and the main thread        *)
(* answers a device.                                                        *)
THEOREM NetTypeCorrect == NetSpec => []NetTypeOK
<1>1. NetInv => NetTypeOK
  BY DEF NetInv
<1> QED
  BY <1>1, NetInvariance, PTL

(* However many datagrams are lost and devices vanish, a session thread     *)
(* takes requests of the device that logged in to it only, although it      *)
(* inherits its slot's socket and checks no request's source.               *)
THEOREM OwnDevice == NetSpec => []ServesOwnDevice
<1>1. NetInv => ServesOwnDevice
  BY DEF NetInv, NoStray, OwnInv, ClientInv, ServesOwnDevice
<1> QED
  BY <1>1, NetInvariance, PTL

(* From the answer to its login until its CLOSE a device has its slot to    *)
(* itself: the main thread announces a port to nobody else, however many    *)
(* datagrams are lost and devices vanish.                                   *)
THEOREM OwnSlot == NetSpec => []SlotToItself
<1>1. NetInv => SlotToItself
  BY DEF NetInv, NoStray, OwnInv, PortInv, Reserved, ApartInv, SlotToItself
<1> QED
  BY <1>1, NetInvariance, PTL

=============================================================================
