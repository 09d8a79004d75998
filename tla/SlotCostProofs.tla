--------------------------- MODULE SlotCostProofs ---------------------------
(***************************************************************************)
(* The proof about SessionNet that counts: a fault costs the server one    *)
(* slot at most, for any number of devices, users, entries, threads and    *)
(* faults.  DebtInv relates the slots that nobody will free, and those     *)
(* that logins under way and answers nobody has asked for are going to     *)
(* cost, to the faults so far; OneSlotPerFault follows.                    *)
(***************************************************************************)
EXTENDS SessionNetProofs, FiniteSetTheorems, WellFoundedInduction

Slots == ClientIds \X SlotIds
PortOf(x) == Port(x[1], x[2])
One(b) == IF b THEN 1 ELSE 0
Less(m, n) == IF m <= n THEN 0 ELSE m - n
Places(q, S) == {i \in 1 .. Len(q) : q[i] \in S}
Times(q, S) == Cardinality(Places(q, S))
From(d) == {m \in Messages : m.from = d}

(* A session of d is at slot x and is going to stay there.                  *)
Serves(d, x) ==
    \E t \in Threads : /\ SlotOf(t, x[1], x[2]) /\ owner[t] = d
                       /\ thread[t].pc # "close" /\ thread[t].sock # "unbound"

(* Slot x is taken, and no session will ever free it.                       *)
Wasted(x) ==
    /\ session_active[x[1]][x[2]] = 1
    /\ ~(main.pc = "spawn" /\ main.index = x[1] /\ main.s = x[2])
    /\ \A t \in Threads : SlotOf(t, x[1], x[2]) => thread[t].sock = "unbound"

(* An answer to d names slot x.                                             *)
Announced(d, x) ==
    \/ main.pc = "ack" /\ mainClient = d /\ main.index = x[1] /\ main.s = x[2]
    \/ \E i \in 1 .. Len(loginReplies[d]) : loginReplies[d][i] = PortOf(x)

(* LOGINs of d that may get a slot yet, and answers on their way to it.     *)
Waiting(d) ==
    Times(mainQueue, {d}) + One(mainClient = d /\ main.pc \notin {"recv", "ack", "nack"})
Answering(d) ==
    One(mainClient = d /\ main.pc \in {"ack", "nack"}) + Len(loginReplies[d])

(* ACKs that d has got or will get for what waits at its session's socket,  *)
(* and for the listings that are being made for it.                         *)
ListsFor(t, d) ==
    client[t] = d /\ thread[t].pc \in {"path", "transfer"} /\ thread[t].op = "DOWNLOAD"
Listing(d) == {x \in Slots : \E t \in Threads : SlotOf(t, x[1], x[2]) /\ ListsFor(t, d)}
Answers(d) ==
    replies[d] + Times(queue[device[d].port], From(d)) + Cardinality(Listing(d))

Closing(d) == \E i \in 1 .. Len(queue[device[d].port]) :
                 queue[device[d].port][i] = [op |-> "CLOSE", from |-> d]

(* One of them is the answer d waits for, unless d waits for a CLOSE that   *)
(* is lost while its session goes on.                                       *)
Expects(d) ==
    \/ device[d].pc = "asked"
    \/ /\ device[d].pc = "closing"
       /\ Closing(d) \/ \A x \in Slots : Serves(d, x) => PortOf(x) # device[d].port
Surplus(d) == Less(Answers(d), One(Expects(d)))

Connected == {"in", "asked", "closing"}

(* The slots that d may cost besides those that are lost already.  While d  *)
(* logs in, one slot is its own; when it is connected, an answer too many   *)
(* may make it leave before its session ends.                               *)
Extra(d) ==
    IF device[d].pc = "login" THEN Less(Waiting(d) + Answering(d), 1)
    ELSE Waiting(d) + IF device[d].pc \in Connected THEN Surplus(d) ELSE 0

(* A session of d that d will not close: it does not know of it, or knows   *)
(* another one, or has left.  Of those that d will not hear of while it     *)
(* waits in vain, one is not counted (that with the least port).            *)
Costs(d, x) ==
    /\ Serves(d, x)
    /\ device[d].pc = "login" =>
         /\ ~Announced(d, x)
         /\ \/ Waiting(d) + Answering(d) > 0
            \/ \E y \in Slots : Serves(d, y) /\ PortOf(y) < PortOf(x)
    /\ device[d].pc \in Connected => PortOf(x) # device[d].port

LostSlots == {x \in Slots : Wasted(x) \/ \E d \in Devices : Costs(d, x)}
Pairs(f) == {p \in Devices \X (Nat \ {0}) : p[2] <= f[p[1]]}
Extras == [d \in Devices |-> Extra(d)]
Blame == faults["vanish"] + faults["dup"] + faults["bind"] + faults["thread"]

DebtInv ==
    /\ IsFiniteSet(Pairs(Extras))
    /\ Cardinality(LostSlots) + Cardinality(Pairs(Extras)) <= Blame

(* What a device has not done has left no trace.                            *)
MainTrace == main.pc # "recv" => mainClient \in Devices
OwnerTrace == \A t \in Threads : thread[t].pc # "none" => owner[t] \in Devices
StartTrace ==
    \A d \in Devices : device[d].pc = "start" =>
        /\ \A i \in 1 .. Len(mainQueue) : mainQueue[i] # d
        /\ main.pc # "recv" => mainClient # d
        /\ loginReplies[d] = <<>>
PortTrace ==
    \A d \in Devices : device[d].pc \in Connected \cup {"closed"} =>
        device[d].port \in SessionPorts
PacketTrace ==
    \A d \in Devices, p \in SessionPorts : Alive(d) =>
        \A i \in 1 .. Len(queue[p]) : queue[p][i].from = d =>
            /\ device[d].pc \in Connected \cup {"closed"} /\ device[d].port = p
            /\ queue[p][i].op = "CLOSE" => device[d].pc \in {"closing", "closed"}
AnswerTrace ==
    \A d \in Devices : device[d].pc \in {"start", "login"} =>
        /\ replies[d] = 0
        /\ \A t \in Threads : thread[t].pc # "none" => ~ListsFor(t, d)

SocketTrace ==
    \A t \in Threads : /\ thread[t].pc \in {"start", "bind"} => thread[t].sock = "none"
                       /\ thread[t].pc = "publish" => thread[t].sock # "none"

TraceInv == /\ MainTrace /\ OwnerTrace /\ StartTrace /\ SocketTrace
            /\ PortTrace /\ PacketTrace /\ AnswerTrace

-----------------------------------------------------------------------------
(* Counting *)

LEMMA TimesTyped ==
  ASSUME NEW T, NEW q \in Seq(T), NEW S
  PROVE  Times(q, S) \in Nat /\ IsFiniteSet(Places(q, S))
<1>1. Len(q) \in Int /\ 1 \in Int
  OBVIOUS
<1>2. IsFiniteSet(1 .. Len(q))
  BY <1>1, FS_Interval
<1>3. Places(q, S) \subseteq 1 .. Len(q)
  BY DEF Places
<1>4. IsFiniteSet(Places(q, S))
  BY <1>2, <1>3, FS_Subset
<1> QED
  BY <1>4, FS_CardinalityType DEF Times

LEMMA TimesAppend ==
  ASSUME NEW T, NEW q \in Seq(T), NEW e \in T, NEW S
  PROVE  Times(Append(q, e), S) = Times(q, S) + One(e \in S)
<1> DEFINE n == Len(q) + 1
<1>1. /\ Len(Append(q, e)) = n /\ Append(q, e)[n] = e
      /\ \A i \in 1 .. Len(q) : Append(q, e)[i] = q[i]
      /\ 1 .. n = (1 .. Len(q)) \cup {n} /\ n \notin 1 .. Len(q)
  OBVIOUS
<1>2. IsFiniteSet(Places(q, S)) /\ n \notin Places(q, S) /\ Times(q, S) \in Nat
  BY <1>1, TimesTyped DEF Places
<1> HIDE DEF n
<1>3. CASE e \in S
  <2>1. Places(Append(q, e), S) = Places(q, S) \cup {n}
    BY <1>1, <1>3 DEF Places
  <2> QED
    BY <1>2, <1>3, <2>1, FS_AddElement DEF Times, One
<1>4. CASE e \notin S
  <2>1. Places(Append(q, e), S) = Places(q, S)
    BY <1>1, <1>4 DEF Places
  <2> QED
    BY <1>2, <1>4, <2>1 DEF Times, One
<1> QED
  BY <1>3, <1>4

LEMMA TimesTail ==
  ASSUME NEW T, NEW q \in Seq(T), q # <<>>, NEW S
  PROVE  Times(q, S) = Times(Tail(q), S) + One(Head(q) \in S)
<1> DEFINE A == Places(Tail(q), S)
           B == Places(q, S) \ {1}
           f == [i \in A |-> i + 1]
<1>1. /\ Tail(q) \in Seq(T) /\ Head(q) = q[1] /\ 1 \in 1 .. Len(q)
      /\ Len(Tail(q)) = Len(q) - 1 /\ Len(q) \in Nat
      /\ \A i \in 1 .. Len(Tail(q)) : Tail(q)[i] = q[i + 1]
  BY HeadTail
<1>2. \A i \in A : i \in 1 .. Len(q) - 1 /\ i + 1 \in B
  BY <1>1 DEF Places
<1>3. \A j \in B : j - 1 \in A
  <2> SUFFICES ASSUME NEW j \in B PROVE j - 1 \in A
    OBVIOUS
  <2>1. j \in 1 .. Len(q) /\ j # 1 /\ q[j] \in S
    BY DEF Places
  <2>2. j - 1 \in 1 .. Len(Tail(q)) /\ (j - 1) + 1 = j
    BY <1>1, <2>1
  <2>3. Tail(q)[j - 1] = q[j]
    BY <1>1, <2>2
  <2> QED
    BY <2>1, <2>2, <2>3 DEF Places
<1>4. f \in Bijection(A, B)
  <2>1. f \in [A -> B] /\ \A i, j \in A : f[i] = f[j] => i = j
    BY <1>2
  <2>2. \A j \in B : j \in 1 .. Len(q) /\ (j - 1) + 1 = j
    BY <1>1 DEF Places
  <2>3. \A j \in B : f[j - 1] = j
    BY <1>3, <2>2
  <2> HIDE DEF A, B, f
  <2> QED
    BY <1>3, <2>1, <2>3 DEF Bijection, Injection, Surjection, IsInjective
<1>5. IsFiniteSet(A) /\ IsFiniteSet(Places(q, S))
  BY <1>1, TimesTyped
<1> HIDE DEF f, A, B
<1>6. Cardinality(B) = Cardinality(A)
  BY <1>4, <1>5, FS_Bijection DEF ExistsBijection
<1>7. /\ Cardinality(B) = IF 1 \in Places(q, S) THEN Cardinality(Places(q, S)) - 1
                          ELSE Cardinality(Places(q, S))
      /\ Cardinality(Places(q, S)) \in Nat
  BY <1>5, FS_RemoveElement, FS_CardinalityType DEF B
<1>8. 1 \in Places(q, S) <=> Head(q) \in S
  BY <1>1 DEF Places
<1> QED
  BY <1>6, <1>7, <1>8 DEF Times, One, A

LEMMA SlotsFinite == IsFiniteSet(Slots)
<1>1. IsFiniteSet(ClientIds) /\ IsFiniteSet(SlotIds)
  <2>1. 0 \in Int /\ MAXCLIENTS - 1 \in Int /\ MAXSESSIONS - 1 \in Int
    BY SessionsAssumption DEF MAXSESSIONS
  <2> QED
    BY <2>1, FS_Interval DEF ClientIds, SlotIds
<1> QED
  BY <1>1, FS_Product DEF Slots

LEMMA SlotSets ==
  ASSUME NEW L \in SUBSET Slots
  PROVE  IsFiniteSet(L) /\ Cardinality(L) \in Nat
<1>1. IsFiniteSet(L)
  BY SlotsFinite, FS_Subset
<1> QED
  BY <1>1, FS_CardinalityType

(* More slots, and one slot for another.                                    *)
LEMMA SlotsGrow ==
  ASSUME NEW L \in SUBSET Slots, NEW M \in SUBSET Slots, NEW B \in SUBSET Slots,
         M \subseteq L \cup B
  PROVE  Cardinality(M) <= Cardinality(L) + Cardinality(B)
<1>1. /\ IsFiniteSet(L) /\ IsFiniteSet(B) /\ IsFiniteSet(L \cap B)
      /\ Cardinality(L) \in Nat /\ Cardinality(B) \in Nat /\ Cardinality(L \cap B) \in Nat
      /\ Cardinality(M) \in Nat
  <2>1. L \cap B \in SUBSET Slots
    OBVIOUS
  <2> QED
    BY <2>1, SlotSets
<1>2. IsFiniteSet(L \cup B) /\ Cardinality(L \cup B) <= Cardinality(L) + Cardinality(B)
  <2>1. /\ IsFiniteSet(L \cup B)
        /\ Cardinality(L \cup B) = Cardinality(L) + Cardinality(B) - Cardinality(L \cap B)
    BY <1>1, FS_Union
  <2> QED
    BY <1>1, <2>1
<1>3. Cardinality(M) <= Cardinality(L \cup B) /\ Cardinality(L \cup B) \in Nat
  BY <1>2, FS_Subset, FS_CardinalityType
<1> QED
  BY <1>1, <1>2, <1>3

LEMMA OneMoreSlot ==
  ASSUME NEW L \in SUBSET Slots, NEW M \in SUBSET Slots, NEW x \in Slots,
         M \subseteq L \cup {x}
  PROVE  Cardinality(M) <= Cardinality(L) + 1
<1>1. {x} \in SUBSET Slots /\ Cardinality({x}) = 1
  BY FS_Singleton
<1> QED
  BY <1>1, SlotsGrow

LEMMA SlotSwapped ==
  ASSUME NEW L \in SUBSET Slots, NEW M \in SUBSET Slots, NEW x \in Slots,
         NEW y \in L \cup {x}, M \subseteq (L \cup {x}) \ {y}
  PROVE  Cardinality(M) <= Cardinality(L)
<1>1. /\ IsFiniteSet(L) /\ Cardinality(L) \in Nat /\ Cardinality(M) \in Nat
  BY SlotSets
<1>2. /\ IsFiniteSet(L \cup {x})
      /\ Cardinality(L \cup {x}) \in {Cardinality(L), Cardinality(L) + 1}
  BY <1>1, FS_AddElement
<1>3. /\ IsFiniteSet((L \cup {x}) \ {y})
      /\ Cardinality((L \cup {x}) \ {y}) = Cardinality(L \cup {x}) - 1
  BY <1>2, FS_RemoveElement
<1>4. Cardinality(M) <= Cardinality((L \cup {x}) \ {y})
  BY <1>3, FS_Subset
<1> QED
  BY <1>1, <1>2, <1>3, <1>4

(* A sequence of ports names at most as many slots.                         *)
LEMMA NamedSlots ==
  ASSUME NEW T, NEW q \in Seq(T), NEW B \in SUBSET Slots,
         \A x \in B : \E i \in 1 .. Len(q) : q[i] = PortOf(x)
  PROVE  Cardinality(B) <= Len(q)
<1> DEFINE f == [x \in B |-> CHOOSE i \in 1 .. Len(q) : q[i] = PortOf(x)]
<1>1. \A x \in B : f[x] \in 1 .. Len(q) /\ q[f[x]] = PortOf(x)
  OBVIOUS
<1>2. f \in [B -> 1 .. Len(q)]
  BY <1>1
<1>3. \A x, y \in Slots : PortOf(x) = PortOf(y) => x = y
  BY PortInjective DEF PortOf, Slots
<1> HIDE DEF f
<1>4. \A x, y \in B : f[x] = f[y] => x = y
  BY <1>1, <1>3
<1>5. f \in Injection(B, 1 .. Len(q))
  BY <1>2, <1>4 DEF Injection, IsInjective
<1>6. /\ IsFiniteSet(1 .. Len(q)) /\ Len(q) \in Nat
      /\ Cardinality(1 .. Len(q)) = IF 1 > Len(q) THEN 0 ELSE Len(q) - 1 + 1
  BY FS_Interval
<1>7. Cardinality(B) <= Cardinality(1 .. Len(q))
  BY <1>5, <1>6, FS_Injection
<1> QED
  BY <1>6, <1>7, SlotSets

(* What the pairs of one device add up to.                                  *)
LEMMA PairsChange ==
  ASSUME NEW f \in [Devices -> Nat], NEW g \in [Devices -> Nat], NEW d \in Devices,
         \A e \in Devices \ {d} : g[e] <= f[e], IsFiniteSet(Pairs(f))
  PROVE  /\ IsFiniteSet(Pairs(g))
         /\ Cardinality(Pairs(f)) \in Nat /\ Cardinality(Pairs(g)) \in Nat
         /\ Cardinality(Pairs(g)) + f[d] <= Cardinality(Pairs(f)) + g[d]
<1> DEFINE R(h) == {p \in Pairs(h) : p[1] # d}
           C(h) == {p \in Pairs(h) : p[1] = d}
<1>1. ASSUME NEW h \in [Devices -> Nat]
      PROVE  IsFiniteSet(C(h)) /\ Cardinality(C(h)) = h[d]
  <2> DEFINE k == [i \in 1 .. h[d] |-> <<d, i>>]
  <2>1. \A i \in 1 .. h[d] : <<d, i>> \in C(h)
    BY DEF Pairs
  <2>2. \A p \in C(h) : p[2] \in 1 .. h[d] /\ p = <<d, p[2]>>
    BY DEF Pairs
  <2>3. k \in [1 .. h[d] -> C(h)] /\ \A i, j \in 1 .. h[d] : k[i] = k[j] => i = j
    BY <2>1
  <2>4. \A p \in C(h) : k[p[2]] = p
    BY <2>2
  <2> HIDE DEF k, C
  <2>5. k \in Bijection(1 .. h[d], C(h))
    BY <2>2, <2>3, <2>4 DEF Bijection, Injection, Surjection, IsInjective
  <2>6. IsFiniteSet(1 .. h[d]) /\ Cardinality(1 .. h[d]) = h[d]
    <3>1. h[d] \in Nat
      OBVIOUS
    <3> QED
      BY <3>1, FS_Interval
  <2> QED
    BY <2>5, <2>6, FS_Bijection DEF ExistsBijection
<1>2. R(g) \subseteq R(f)
  BY DEF Pairs
<1>3. \A h : Pairs(h) = R(h) \cup C(h) /\ R(h) \cap C(h) = {} /\ R(h) \subseteq Pairs(h)
  OBVIOUS
<1> HIDE DEF R, C
<1>4. IsFiniteSet(R(f)) /\ IsFiniteSet(R(g)) /\ Cardinality(R(g)) <= Cardinality(R(f))
  BY <1>2, <1>3, FS_Subset
<1>5. Cardinality(R(f)) \in Nat /\ Cardinality(R(g)) \in Nat
  BY <1>4, FS_CardinalityType
<1>6. Cardinality({}) = 0
  BY FS_EmptySet
<1>7. ASSUME NEW h \in [Devices -> Nat], IsFiniteSet(R(h)), Cardinality(R(h)) \in Nat
      PROVE  IsFiniteSet(Pairs(h)) /\ Cardinality(Pairs(h)) = Cardinality(R(h)) + h[d]
  <2>1. /\ IsFiniteSet(R(h) \cup C(h))
        /\ Cardinality(R(h) \cup C(h))
             = Cardinality(R(h)) + Cardinality(C(h)) - Cardinality(R(h) \cap C(h))
    BY <1>1, <1>7, FS_Union
  <2>2. h[d] \in Nat /\ Cardinality(C(h)) = h[d]
    BY <1>1
  <2>3. R(h) \cup C(h) = Pairs(h) /\ Cardinality(R(h) \cap C(h)) = 0
    BY <1>3, <1>6
  <2>4. /\ IsFiniteSet(Pairs(h))
        /\ Cardinality(Pairs(h)) = Cardinality(R(h)) + h[d] - 0
    BY <2>1, <2>2, <2>3, Zenon
  <2> HIDE DEF Pairs
  <2> QED
    BY <1>7, <2>2, <2>4
<1> QED
  BY <1>4, <1>5, <1>7

LEMMA FewerPairs ==
  ASSUME NEW f \in [Devices -> Nat], NEW g \in [Devices -> Nat],
         \A e \in Devices : g[e] <= f[e], IsFiniteSet(Pairs(f))
  PROVE  /\ IsFiniteSet(Pairs(g))
         /\ Cardinality(Pairs(f)) \in Nat /\ Cardinality(Pairs(g)) \in Nat
         /\ Cardinality(Pairs(g)) <= Cardinality(Pairs(f))
<1>1. Pairs(g) \subseteq Pairs(f)
  BY DEF Pairs
<1>2. IsFiniteSet(Pairs(g)) /\ Cardinality(Pairs(g)) <= Cardinality(Pairs(f))
  BY <1>1, FS_Subset
<1> QED
  BY <1>2, FS_CardinalityType

-----------------------------------------------------------------------------
(* What devices and packets leave behind them *)

LEMMA Appended ==
  ASSUME NEW T, NEW q \in Seq(T), NEW e \in T, NEW i \in 1 .. Len(Append(q, e))
  PROVE  \/ Append(q, e)[i] = e
         \/ i \in 1 .. Len(q) /\ Append(q, e)[i] = q[i]
  OBVIOUS

(* The step of a device.                                                    *)
LEMMA DeviceEffect ==
  ASSUME NetTypeOK, NEW d \in Devices, Device(d) \/ Vanish(d)
  PROVE  /\ UNCHANGED <<vars, peers>> /\ device'[d].pc # "start"
         /\ \A e \in Devices \ {d} : /\ device'[e] = device[e]
                                     /\ loginReplies'[e] = loginReplies[e]
                                     /\ replies'[e] = replies[e]
         /\ \A i \in 1 .. Len(mainQueue') :
               mainQueue'[i] = d \/ (i \in 1 .. Len(mainQueue) /\ mainQueue'[i] = mainQueue[i])
         /\ \A p \in SessionPorts : \A i \in 1 .. Len(queue'[p]) :
               \/ i \in 1 .. Len(queue[p]) /\ queue'[p][i] = queue[p][i]
               \/ /\ queue'[p][i].from = d /\ p = device[d].port
                  /\ Ask(d, queue'[p][i].op) \/ Exit(d)
<1>0. /\ device \in [Devices -> [pc : {"start", "login", "in", "asked", "closing",
                                       "closed", "exited"},
                                 port : SessionPorts \cup {0}, asked : 0 .. MaxRequests]]
      /\ mainQueue \in Seq(Devices) /\ queue \in [SessionPorts -> Seq(Messages)]
      /\ loginReplies \in [Devices -> Seq(SessionPorts \cup {NACK})]
      /\ replies \in [Devices -> Nat]
  BY DEF NetTypeOK
<1>1. ASSUME NEW op \in {"DELETE", "LIST", "CLOSE"}, Ask(d, op) \/ Exit(d),
             \/ UNCHANGED queue
             \/ queue' = [queue EXCEPT ![device[d].port] = Append(@, [op |-> op, from |-> d])]
      PROVE  \A p \in SessionPorts : \A i \in 1 .. Len(queue'[p]) :
               \/ i \in 1 .. Len(queue[p]) /\ queue'[p][i] = queue[p][i]
               \/ /\ queue'[p][i].from = d /\ p = device[d].port
                  /\ Ask(d, queue'[p][i].op) \/ Exit(d)
  <2> DEFINE m == [op |-> op, from |-> d]
  <2>1. m.op = op /\ m.from = d
    OBVIOUS
  <2> HIDE DEF m
  <2> TAKE p \in SessionPorts
  <2>2. CASE queue'[p] = queue[p]
    BY <2>2
  <2>3. CASE queue'[p] # queue[p]
    <3>1. p = device[d].port /\ queue'[p] = Append(queue[p], m) /\ queue[p] \in Seq(Messages)
      BY <1>0, <1>1, <2>3 DEF m
    <3>2. \A i \in 1 .. Len(queue'[p]) :
             (i \in 1 .. Len(queue[p]) /\ queue'[p][i] = queue[p][i]) \/ queue'[p][i] = m
      BY <3>1
    <3> QED
      BY <1>1, <2>1, <3>1, <3>2
  <2> QED
    BY <2>2, <2>3
<1>2. ASSUME SendLogin(d)
      PROVE  \A i \in 1 .. Len(mainQueue') :
               mainQueue'[i] = d \/ (i \in 1 .. Len(mainQueue) /\ mainQueue'[i] = mainQueue[i])
  <2>1. mainQueue' = Append(mainQueue, d) /\ mainQueue \in Seq(Devices)
    BY <1>0, <1>2 DEF SendLogin
  <2> QED
    BY <2>1, Appended
<1>3. CASE Login(d)
  BY <1>0, <1>2, <1>3 DEF Login
<1>4. CASE LoginReply(d)
  BY <1>0, <1>2, <1>4 DEF LoginReply
<1>5. CASE TakeAck(d)
  BY <1>0, <1>5 DEF TakeAck
<1>6. CASE Exit(d)
  <2>1. \E op \in {"DELETE", "LIST", "CLOSE"} :
           \/ UNCHANGED queue
           \/ queue' = [queue EXCEPT ![device[d].port] = Append(@, [op |-> op, from |-> d])]
    BY <1>6 DEF Exit
  <2> QED
    BY <1>0, <1>1, <1>6, <2>1 DEF Exit, Gone
<1>7. ASSUME NEW op \in {"DELETE", "LIST", "CLOSE"}, Ask(d, op)
      PROVE  /\ UNCHANGED <<vars, peers, loginReplies, replies, mainQueue>>
             /\ device'[d].pc # "start"
             /\ \A e \in Devices \ {d} : device'[e] = device[e]
  BY <1>0, <1>7 DEF Ask
<1>8. ASSUME NEW op \in {"DELETE", "LIST", "CLOSE"}, Ask(d, op)
      PROVE  \/ UNCHANGED queue
             \/ queue' = [queue EXCEPT ![device[d].port] = Append(@, [op |-> op, from |-> d])]
  BY <1>8 DEF Ask, SendRequest
<1>9. CASE Vanish(d)
  BY <1>0, <1>9 DEF Vanish, Gone
<1> QED
  BY <1>1, <1>3, <1>4, <1>5, <1>6, <1>7, <1>8, <1>9 DEF Device

LEMMA DeviceTrace ==
  ASSUME NetTypeOK, TraceInv, NEW d \in Devices, Device(d) \/ Vanish(d)
  PROVE  TraceInv'
<1>0. /\ device \in [Devices -> [pc : {"start", "login", "in", "asked", "closing",
                                       "closed", "exited"},
                                 port : SessionPorts \cup {0}, asked : 0 .. MaxRequests]]
      /\ loginReplies \in [Devices -> Seq(SessionPorts \cup {NACK})]
      /\ replies \in [Devices -> Nat]
  BY DEF NetTypeOK
<1>1. UNCHANGED <<main, mainClient, owner, client, thread>>
  BY DeviceEffect DEF vars, peers
<1>2. MainTrace' /\ OwnerTrace' /\ SocketTrace'
  BY <1>1 DEF TraceInv, MainTrace, OwnerTrace, SocketTrace
<1>3. StartTrace'
  BY <1>1, DeviceEffect DEF TraceInv, StartTrace
(* What the device itself may be from now on.                               *)
<1>4. /\ device'[d].pc \in Connected \cup {"closed"} =>
            /\ device'[d].port \in SessionPorts
            /\ \/ device[d].pc = "login"
               \/ device[d].pc \in Connected \cup {"closed"} /\ device'[d].port = device[d].port
      /\ device[d].pc \in {"closing", "closed"} =>
            device'[d].pc \in {"closing", "closed", "exited"}
      /\ device'[d].pc = "login" => device[d].pc \in {"start", "login"} /\ replies'[d] = replies[d]
      /\ device[d].pc \in Connected \cup {"closed"} =>
            device'[d].pc \in Connected \cup {"closed", "exited"}
      /\ \A op \in {"DELETE", "LIST", "CLOSE"} : Ask(d, op) =>
            device'[d].pc \in Connected /\ (op = "CLOSE" => device'[d].pc = "closing")
      /\ Exit(d) => device'[d].pc = "exited"
  <2>1. CASE Login(d)
    BY <1>0, <2>1 DEF Login, Connected, Ask, Exit
  <2>2. CASE LoginReply(d)
    <3>1. Head(loginReplies[d]) \in SessionPorts \cup {NACK}
      BY <1>0, <2>2, HeadTail DEF LoginReply
    <3> QED
      BY <1>0, <2>2, <3>1 DEF LoginReply, Connected, Ask, Exit
  <2>3. CASE TakeAck(d)
    BY <1>0, <2>3 DEF TakeAck, Connected, TraceInv, PortTrace, Ask, Exit
  <2>4. CASE Exit(d)
    BY <1>0, <2>4 DEF Exit, Gone, Connected, Ask
  <2>5. ASSUME NEW op \in {"DELETE", "LIST", "CLOSE"}, Ask(d, op)
        PROVE  /\ device[d].pc = "in" /\ device'[d].port = device[d].port
               /\ device'[d].pc \in {"asked", "closing"}
               /\ op = "CLOSE" <=> device'[d].pc = "closing"
    BY <1>0, <2>5 DEF Ask
  <2>6. CASE Vanish(d)
    <3>1. device'[d].pc = "exited"
      BY <1>0, <2>6 DEF Vanish, Gone
    <3>2. \A op : Ask(d, op) => device'[d].pc \in {"asked", "closing"}
      BY <1>0 DEF Ask
    <3>3. device[d].pc \in {"login", "in", "asked", "closing"}
      BY <2>6 DEF Vanish
    <3> QED
      BY <3>1, <3>2, <3>3 DEF Connected
  <2> QED
    BY <2>1, <2>2, <2>3, <2>4, <2>5, <2>6 DEF Device, Connected, TraceInv, PortTrace, Exit
<1>5. PortTrace'
  BY <1>4, DeviceEffect DEF TraceInv, PortTrace
<1>6. PacketTrace'
  <2> SUFFICES ASSUME NEW e \in Devices, NEW p \in SessionPorts, Alive(e)',
                      NEW i \in 1 .. Len(queue'[p]), queue'[p][i].from = e
               PROVE  /\ device'[e].pc \in Connected \cup {"closed"} /\ device'[e].port = p
                      /\ queue'[p][i].op = "CLOSE" => device'[e].pc \in {"closing", "closed"}
    BY DEF PacketTrace
  <2>1. CASE i \in 1 .. Len(queue[p]) /\ queue'[p][i] = queue[p][i]
    <3>1. CASE e # d
      BY <2>1, <3>1, DeviceEffect DEF TraceInv, PacketTrace, Alive
    <3>2. CASE e = d
      <4>1. Alive(d)
        <5>1. ~(Device(d) /\ device[d].pc = "exited") /\ ~(Vanish(d) /\ device[d].pc = "exited")
          BY DEF Device, Login, LoginReply, TakeAck, Exit, Ask, Vanish
        <5> QED
          BY <5>1 DEF Alive
      <4>2. /\ device[d].pc \in Connected \cup {"closed"} /\ device[d].port = p
            /\ queue[p][i].op = "CLOSE" => device[d].pc \in {"closing", "closed"}
        BY <2>1, <3>2, <4>1 DEF TraceInv, PacketTrace
      <4> QED
        BY <1>4, <2>1, <3>2, <4>2 DEF Alive, Connected
    <3> QED
      BY <3>1, <3>2
  <2>2. CASE /\ queue'[p][i].from = d /\ p = device[d].port
             /\ Ask(d, queue'[p][i].op) \/ Exit(d)
    <3>1. e = d /\ ~Exit(d) /\ Ask(d, queue'[p][i].op)
      BY <1>4, <2>2 DEF Alive
    <3>2. device[d].pc = "in" /\ device'[d].pc \in {"asked", "closing"}
          /\ (queue'[p][i].op = "CLOSE" => device'[d].pc = "closing")
      BY <1>0, <3>1 DEF Ask
    <3> QED
      BY <1>4, <2>2, <3>1, <3>2 DEF Connected
  <2> QED
    BY <2>1, <2>2, DeviceEffect
<1>7. AnswerTrace'
  <2> SUFFICES ASSUME NEW e \in Devices, device'[e].pc \in {"start", "login"}
               PROVE  /\ replies'[e] = 0
                      /\ \A t \in Threads : thread[t].pc # "none" => ~ListsFor(t, e)
    BY <1>1 DEF AnswerTrace, ListsFor
  <2>1. device[e].pc \in {"start", "login"} /\ replies'[e] = replies[e]
    BY <1>4, DeviceEffect
  <2> QED
    BY <2>1 DEF TraceInv, AnswerTrace
<1> QED
  BY <1>2, <1>3, <1>5, <1>6, <1>7 DEF TraceInv

LEMMA Disarranged ==
  ASSUME NEW T, NEW q \in Seq(T), q # <<>>, NEW kind \in {"lost", "dup"},
         NEW i \in 1 .. Len(Disturbed(kind, q))
  PROVE  \E j \in 1 .. Len(q) : Disturbed(kind, q)[i] = q[j]
<1>1. CASE kind = "lost"
  BY <1>1, HeadTail DEF Disturbed
<1>2. CASE kind = "dup"
  <2>1. Head(q) \in T /\ Head(q) = q[1] /\ 1 \in 1 .. Len(q)
    BY HeadTail
  <2>2. Disturbed(kind, q) = Append(q, Head(q))
    BY <1>2 DEF Disturbed
  <2> QED
    BY <2>1, <2>2, Appended
<1> QED
  BY <1>1, <1>2

LEMMA MainTraceStep ==
  ASSUME IInv, NetTypeOK, TraceInv, NetMain
  PROVE  TraceInv'
<1>0. /\ mainQueue \in Seq(Devices)
      /\ loginReplies \in [Devices -> Seq(SessionPorts \cup {NACK})]
      /\ owner \in [Threads -> Devices \cup {NoDevice}]
      /\ thread \in [Threads -> ThreadLocals] /\ main \in MainLocals
  BY DEF IInv, TypeOK, NetTypeOK
<1>1. UNCHANGED <<device, replies, queue, client>>
  BY DEF NetMain, NetMainRecv, NetSpawn, NetReply, net, peers
<1>2. PortTrace' /\ PacketTrace'
  BY <1>1 DEF TraceInv, PortTrace, PacketTrace, Alive
<1>3. CASE NetSpawn
  <2>1. /\ main.pc = "spawn" /\ main'.pc = "ack"
        /\ UNCHANGED <<mainClient, mainQueue, loginReplies>>
    BY <1>0, <1>3 DEF NetSpawn, Spawn, net, MainLocals
  <2>2. mainClient \in Devices
    BY <2>1 DEF TraceInv, MainTrace
  <2>3. \A t \in Threads : thread'[t] # thread[t] =>
           thread'[t].pc = "start" /\ thread'[t].sock = "none"
    BY <1>0, <1>3 DEF NetSpawn, Spawn, NoThread
  <2>4. MainTrace' /\ StartTrace'
    BY <1>1, <2>1, <2>2 DEF TraceInv, MainTrace, StartTrace
  <2>5. OwnerTrace'
    BY <1>0, <1>3, <2>2 DEF NetSpawn, TraceInv, OwnerTrace
  <2>7. SocketTrace'
    BY <2>3 DEF TraceInv, SocketTrace
  <2>6. AnswerTrace'
    BY <1>1, <2>3 DEF TraceInv, AnswerTrace, ListsFor
  <2> QED
    BY <1>2, <2>4, <2>5, <2>6, <2>7 DEF TraceInv
<1>4. ASSUME UNCHANGED <<thread, owner>>
      PROVE  OwnerTrace' /\ AnswerTrace' /\ SocketTrace'
  BY <1>1, <1>4 DEF TraceInv, OwnerTrace, AnswerTrace, ListsFor, SocketTrace
<1>5. CASE NetMainRecv
  <2>1. Head(mainQueue) = mainQueue[1] /\ 1 \in 1 .. Len(mainQueue) /\ Head(mainQueue) \in Devices
    BY <1>0, <1>5, HeadTail DEF NetMainRecv
  <2>2. \A i \in 1 .. Len(mainQueue') : i + 1 \in 1 .. Len(mainQueue) /\ mainQueue'[i] = mainQueue[i + 1]
    BY <1>0, <1>5, HeadTail DEF NetMainRecv
  <2>3. mainClient' = mainQueue[1] /\ UNCHANGED <<thread, owner, loginReplies>>
    BY <1>5, <2>1 DEF NetMainRecv, MainRecv
  <2>4. MainTrace' /\ StartTrace'
    BY <1>1, <2>1, <2>2, <2>3 DEF TraceInv, MainTrace, StartTrace
  <2> QED
    BY <1>2, <1>4, <2>3, <2>4 DEF TraceInv
<1>6. CASE NetReply
  <2>1. /\ main.pc # "recv" /\ main'.pc = "recv"
        /\ UNCHANGED <<thread, owner, mainQueue>>
    BY <1>6 DEF NetReply, Reply, Idle
  <2>2. \A d \in Devices : mainClient # d => loginReplies'[d] = loginReplies[d]
    BY <1>0, <1>6 DEF NetReply, Answer
  <2>3. MainTrace' /\ StartTrace'
    BY <1>1, <2>1, <2>2 DEF TraceInv, MainTrace, StartTrace
  <2> QED
    BY <1>2, <1>4, <2>1, <2>3 DEF TraceInv
<1>7. CASE /\ Match \/ Scan \/ Claim \/ Check \/ SkipSlot \/ TakeSlot
           /\ UNCHANGED <<user, device, net, peers, faults>>
  <2>1. main.pc # "recv" /\ UNCHANGED <<thread, owner, mainQueue, mainClient, loginReplies>>
    BY <1>7 DEF Match, Scan, Claim, Check, SkipSlot, TakeSlot, net, peers
  <2>3. MainTrace' /\ StartTrace'
    BY <1>1, <2>1 DEF TraceInv, MainTrace, StartTrace
  <2> QED
    BY <1>2, <1>4, <2>1, <2>3 DEF TraceInv
<1> QED
  BY <1>3, <1>5, <1>6, <1>7 DEF NetMain

(* The packet that thread t takes.                                          *)
LEMMA Taken ==
  ASSUME IInv, NetTypeOK, NEW t \in Threads, NetReceive(t)
  PROVE  LET p == Port(thread[t].c, thread[t].s)
             m == Head(queue[p])
         IN  /\ SlotOf(t, thread[t].c, thread[t].s) /\ thread[t].pc = "recv"
             /\ thread[t].c \in ClientIds /\ thread[t].s \in SlotIds
             /\ p \in SessionPorts /\ queue[p] # <<>> /\ queue[p] \in Seq(Messages)
             /\ m \in Messages /\ m = queue[p][1] /\ m.from \in Devices
             /\ queue' = [queue EXCEPT ![p] = Tail(@)] /\ client'[t] = m.from
             /\ thread' = [thread EXCEPT ![t] = thread'[t]]
             /\ thread'[t].c = thread[t].c /\ thread'[t].s = thread[t].s
             /\ thread'[t].sock = thread[t].sock /\ thread[t].sock = "bound"
             /\ IF m.op = "CLOSE" THEN thread'[t].pc = "close" ELSE thread'[t].pc = "path"
             /\ thread'[t].op = "DOWNLOAD" <=> m.op = "LIST"
             /\ replies' = IF m.op # "LIST" /\ Alive(m.from)
                           THEN [replies EXCEPT ![m.from] = @ + 1] ELSE replies
<1> DEFINE p == Port(thread[t].c, thread[t].s)
           m == Head(queue[p])
<1>1. /\ SlotOf(t, thread[t].c, thread[t].s) /\ thread[t].pc = "recv"
      /\ thread[t].c \in ClientIds /\ thread[t].s \in SlotIds
      /\ thread[t].port = p /\ p \in SessionPorts
  BY ReceiverAt DEF NetReceive, SlotOf
<1>2. /\ queue[p] # <<>> /\ queue[p] \in Seq(Messages) /\ m \in Messages
      /\ Class(m.op) = "CLOSE" <=> m.op = "CLOSE"
  BY <1>1, HeadTyped DEF NetReceive
<1>3. m = queue[p][1]
  BY <1>2, HeadTail
<1>4. /\ queue' = [queue EXCEPT ![p] = Tail(@)] /\ client'[t] = m.from
      /\ Receive(t, Class(m.op))
      /\ IF m.op = "LIST" THEN UNCHANGED replies ELSE SendAck(m.from)
  BY <1>1 DEF NetReceive, NetTypeOK
<1>5. m.op \in {"DELETE", "LIST", "CLOSE"} /\ m.from \in Devices
  BY <1>2 DEF Messages
<1>6. /\ Class(m.op) \in {"UPLOAD", "DOWNLOAD", "CLOSE"}
      /\ Class(m.op) = "DOWNLOAD" <=> m.op = "LIST"
  BY <1>5 DEF Class
<1>7. thread \in [Threads -> ThreadLocals]
  BY DEF IInv, TypeOK
<1> HIDE DEF m, p
<1>8. /\ thread[t].sock = "bound" /\ thread' = [thread EXCEPT ![t] = thread'[t]]
      /\ thread'[t] = [thread[t] EXCEPT !.op = Class(m.op),
                         !.pc = IF m.op = "CLOSE" THEN "close" ELSE "path"]
  BY <1>2, <1>4, <1>6, <1>7 DEF Receive
<1>9. /\ thread'[t].c = thread[t].c /\ thread'[t].s = thread[t].s
      /\ thread'[t].sock = thread[t].sock
      /\ IF m.op = "CLOSE" THEN thread'[t].pc = "close" ELSE thread'[t].pc = "path"
      /\ thread'[t].op = Class(m.op)
  BY <1>7, <1>8 DEF ThreadLocals
<1>10. replies' = IF m.op # "LIST" /\ Alive(m.from)
                  THEN [replies EXCEPT ![m.from] = @ + 1] ELSE replies
  BY <1>4 DEF SendAck
<1> QED
  BY <1>1, <1>2, <1>3, <1>4, <1>5, <1>6, <1>8, <1>9, <1>10 DEF m, p

(* Listings begin with a packet.                                            *)
LEMMA NoNewListing ==
  ASSUME IInv, NetTypeOK, NEW t \in Threads, NetThread(t), ~NetReceive(t)
  PROVE  \A d \in Devices : ListsFor(t, d)' => ListsFor(t, d)
<1>0. thread \in [Threads -> ThreadLocals] /\ thread[t] \in ThreadLocals
  BY DEF IInv, TypeOK
<1>1. CASE BuildPath(t) /\ UNCHANGED <<user, device, net, peers, faults>>
  BY <1>0, <1>1 DEF BuildPath, peers, ListsFor, ThreadLocals
<1>2. CASE ~BuildPath(t)
  <2>1. CASE NetEndTransfer(t)
    BY <1>0, <2>1 DEF NetEndTransfer, EndTransfer, ThreadLocals, ListsFor
  <2>2. CASE NetBind(t)
    BY <1>0, <2>2 DEF NetBind, Bind, ThreadLocals, ListsFor
  <2>3. CASE NetEnd(t)
    <3>1. CASE Publish(t)
      BY <1>0, <3>1 DEF Publish, NoThread, ThreadLocals, ListsFor
    <3>2. CASE Replicate(t)
      BY <1>0, <3>2 DEF Replicate, NoThread, ThreadLocals, ListsFor
    <3> QED
      BY <2>3, <3>1, <3>2 DEF NetEnd
  <2>4. CASE Start(t) \/ Close(t)
    BY <1>0, <2>4 DEF Start, Close, ThreadLocals, ListsFor
  <2> QED
    BY <1>2, <2>1, <2>2, <2>3, <2>4 DEF NetThread
<1> QED
  BY <1>1, <1>2 DEF NetThread, NetEndTransfer, NetBind, NetEnd, EndTransfer, Bind,
                    Publish, Replicate, BuildPath

(* What a step does to the thread's slot and to its socket, which is        *)
(* unbound after a bind only.                                               *)
LEMMA ThreadSockets ==
  ASSUME IInv, NetTypeOK, SocketTrace, NEW t \in Threads, NetThread(t)
  PROVE  /\ thread'[t].pc \in {"start", "bind"} => thread'[t].sock = "none"
         /\ thread'[t].pc = "publish" => thread'[t].sock # "none"
         /\ thread'[t].sock = "unbound" /\ thread'[t].pc # "none" =>
               thread[t].sock = "unbound" \/ NetBind(t)
         /\ thread[t].sock = "unbound" =>
               \/ thread'[t].sock = "unbound" \/ thread'[t].pc = "none"
               \/ ~Owns(t)
         /\ thread[t].pc = "close" => ~Owns(t)'
         /\ Owns(t) /\ ~Owns(t)' => thread[t].pc = "close" \/ thread[t].sock = "unbound"
<1>0. /\ thread \in [Threads -> ThreadLocals] /\ thread[t] \in ThreadLocals
      /\ thread[t].pc = "start" => thread[t].c \in ClientIds
      /\ socket_set[thread[t].c][thread[t].s] \in {0, 1} \/ thread[t].pc # "start"
      /\ thread[t].pc = "close" => thread[t].op = "CLOSE"
  BY DEF IInv, TypeOK, OwnerInv, ThreadLocals
<1>1. CASE NetReceive(t)
  BY <1>1, Taken DEF Owns
<1>2. CASE NetEndTransfer(t)
  BY <1>0, <1>2 DEF NetEndTransfer, EndTransfer, ThreadLocals, Owns
<1>3. CASE NetBind(t)
  <2>1. /\ thread'[t].pc = "publish" /\ thread'[t].sock \in {"bound", "unbound"}
        /\ thread[t].pc = "bind"
    BY <1>0, <1>3 DEF NetBind, Bind, ThreadLocals
  <2> QED
    BY <1>3, <2>1 DEF SocketTrace, Owns
<1>4. CASE NetEnd(t)
  <2>1. CASE Publish(t)
    <3>1. /\ thread[t].pc = "publish" /\ thread[t].sock \in {"bound", "unbound"}
          /\ thread[t].sock = "bound" =>
                thread'[t].pc = "recv" /\ thread'[t].sock = thread[t].sock
          /\ thread[t].sock = "unbound" => thread'[t].pc = "none"
      BY <1>0, <2>1 DEF Publish, NoThread, ThreadLocals, SocketTrace, SocketStates
    <3> QED
      BY <3>1 DEF Owns
  <2>2. CASE Replicate(t)
    BY <1>0, <2>2 DEF Replicate, NoThread, ThreadLocals, Owns
  <2> QED
    BY <1>4, <2>1, <2>2 DEF NetEnd
<1>5. CASE BuildPath(t)
  BY <1>0, <1>5 DEF BuildPath, ThreadLocals, Owns
<1>6. CASE Close(t)
  BY <1>0, <1>6 DEF Close, ThreadLocals, Owns
<1>7. CASE Start(t)
  <2>1. /\ thread[t].pc = "start" /\ thread[t].sock = "none"
        /\ \/ thread'[t].pc = "bind" /\ thread'[t].sock = thread[t].sock
           \/ /\ thread'[t].pc = "recv" /\ thread'[t].sock = socket[thread[t].c][thread[t].s]
              /\ socket_set[thread[t].c][thread[t].s] = 1
    BY <1>0, <1>7 DEF Start, ThreadLocals, SocketTrace
  <2>2. thread'[t].pc = "recv" => thread'[t].sock = "bound"
    BY <2>1 DEF IInv, SocketInv, ThreadSocket
  <2> QED
    BY <2>1, <2>2 DEF Owns
<1> QED
  BY <1>1, <1>2, <1>3, <1>4, <1>5, <1>6, <1>7 DEF NetThread

LEMMA ThreadTraceStep ==
  ASSUME IInv, NetTypeOK, TraceInv, NEW t \in Threads, NetThread(t)
  PROVE  TraceInv'
<1>0. /\ thread \in [Threads -> ThreadLocals] /\ thread[t] \in ThreadLocals
      /\ queue \in [SessionPorts -> Seq(Messages)] /\ replies \in [Devices -> Nat]
  BY DEF IInv, TypeOK, NetTypeOK
<1>1. /\ UNCHANGED <<main, device, loginReplies, mainClient, mainQueue>>
      /\ \A u \in Threads \ {t} : /\ thread'[u] = thread[u]
                                  /\ owner'[u] = owner[u] /\ client'[u] = client[u]
      /\ thread'[t].pc # "none" => owner'[t] = owner[t]
      /\ thread[t].pc # "none"
  <2>1. UNCHANGED mainQueue /\ thread[t].pc # "none"
    BY DEF NetThread, NetReceive, NetEndTransfer, NetBind, NetEnd, net, Receive, EndTransfer,
           Bind, Publish, Replicate, Start, BuildPath, Close
  <2> QED
    BY <2>1, ThreadEffect
<1>2. MainTrace' /\ StartTrace' /\ PortTrace'
  BY <1>1 DEF TraceInv, MainTrace, StartTrace, PortTrace
<1>3. OwnerTrace' /\ SocketTrace'
  BY <1>1, ThreadSockets DEF TraceInv, OwnerTrace, SocketTrace
<1>4. CASE NetReceive(t)
  <2> DEFINE p == Port(thread[t].c, thread[t].s)
             m == Head(queue[p])
  <2>1. /\ p \in SessionPorts /\ queue[p] # <<>> /\ queue[p] \in Seq(Messages)
        /\ m = queue[p][1] /\ m.from \in Devices
        /\ queue' = [queue EXCEPT ![p] = Tail(@)] /\ client'[t] = m.from
        /\ replies' = IF m.op # "LIST" /\ Alive(m.from)
                      THEN [replies EXCEPT ![m.from] = @ + 1] ELSE replies
    BY <1>4, Taken
  <2>2. 1 \in 1 .. Len(queue[p])
    BY <2>1, HeadTail
  <2> HIDE DEF m, p
  <2>3. \A s \in SessionPorts : \A i \in 1 .. Len(queue'[s]) :
           \E j \in 1 .. Len(queue[s]) : queue'[s][i] = queue[s][j]
    <3> TAKE s \in SessionPorts
    <3>1. CASE s = p
      BY <1>0, <2>1, <3>1, HeadTail
    <3>2. CASE s # p
      BY <1>0, <2>1, <3>2
    <3> QED
      BY <3>1, <3>2
  <2>4. PacketTrace'
    BY <1>1, <2>3 DEF TraceInv, PacketTrace, Alive
  <2>5. ASSUME NEW d \in Devices, device[d].pc \in {"start", "login"}
        PROVE  m.from # d
    BY <2>1, <2>2, <2>5 DEF TraceInv, PacketTrace, Alive, Connected
  <2>6. AnswerTrace'
    BY <1>0, <1>1, <2>1, <2>5 DEF TraceInv, AnswerTrace, ListsFor
  <2> QED
    BY <1>2, <1>3, <2>4, <2>6 DEF TraceInv
<1>5. CASE ~NetReceive(t)
  <2>1. UNCHANGED queue
    BY <1>5, ThreadEffect
  <2>2. PacketTrace'
    BY <1>1, <2>1 DEF TraceInv, PacketTrace, Alive
  <2>3. \A d \in Devices : ListsFor(t, d)' => ListsFor(t, d)
    BY <1>5, NoNewListing
  <2>4. ASSUME NEW d \in Devices, device[d].pc \in {"start", "login"}
        PROVE  replies'[d] = replies[d]
    <3>1. CASE NetEndTransfer(t) /\ thread[t].op = "DOWNLOAD"
      <4>1. thread[t].pc = "transfer"
        BY <3>1 DEF NetEndTransfer, EndTransfer
      <4>2. client[t] # d
        BY <1>1, <2>4, <3>1, <4>1 DEF TraceInv, AnswerTrace, ListsFor
      <4> QED
        BY <1>0, <3>1, <4>2 DEF NetEndTransfer, SendAck
    <3> QED
      BY <1>5, <3>1 DEF NetThread, NetEndTransfer, NetBind, NetEnd, net
  <2>5. AnswerTrace'
    BY <1>1, <2>3, <2>4 DEF TraceInv, AnswerTrace, ListsFor
  <2> QED
    BY <1>2, <1>3, <2>2, <2>5 DEF TraceInv
<1> QED
  BY <1>4, <1>5

LEMMA DisturbTrace ==
  ASSUME NetTypeOK, TraceInv, NEW kind \in {"lost", "dup"}, Disturb(kind)
  PROVE  TraceInv'
<1>0. /\ mainQueue \in Seq(Devices) /\ queue \in [SessionPorts -> Seq(Messages)]
      /\ loginReplies \in [Devices -> Seq(SessionPorts \cup {NACK})]
      /\ replies \in [Devices -> Nat]
  BY DEF NetTypeOK
<1>1. UNCHANGED <<vars, device, peers>>
  BY DEF Disturb
<1>2. \A i \in 1 .. Len(mainQueue') : \E j \in 1 .. Len(mainQueue) : mainQueue'[i] = mainQueue[j]
  <2>1. CASE mainQueue # <<>> /\ mainQueue' = Disturbed(kind, mainQueue)
    BY <1>0, <2>1, Disarranged
  <2>2. CASE UNCHANGED mainQueue
    BY <2>2
  <2> QED
    BY <2>1, <2>2 DEF Disturb
<1>3. \A p \in SessionPorts : \A i \in 1 .. Len(queue'[p]) :
         \E j \in 1 .. Len(queue[p]) : queue'[p][i] = queue[p][j]
  <2> TAKE p \in SessionPorts
  <2>1. CASE queue[p] # <<>> /\ queue'[p] = Disturbed(kind, queue[p])
    <3>1. queue[p] \in Seq(Messages)
      BY <1>0
    <3>2. \A i \in 1 .. Len(Disturbed(kind, queue[p])) :
             \E j \in 1 .. Len(queue[p]) : Disturbed(kind, queue[p])[i] = queue[p][j]
      BY <2>1, <3>1, Disarranged
    <3> QED
      BY <2>1, <3>2, Zenon
  <2>2. CASE queue'[p] = queue[p]
    BY <2>2
  <2> QED
    BY <1>0, <2>1, <2>2 DEF Disturb
<1>4. \A d \in Devices : /\ loginReplies[d] = <<>> => loginReplies'[d] = <<>>
                         /\ replies[d] = 0 => replies'[d] = 0
  BY <1>0 DEF Disturb
<1>5. MainTrace' /\ OwnerTrace' /\ SocketTrace' /\ PortTrace'
  BY <1>1 DEF vars, peers, TraceInv, MainTrace, OwnerTrace, SocketTrace, PortTrace
<1>6. StartTrace'
  BY <1>1, <1>2, <1>4 DEF vars, peers, TraceInv, StartTrace
<1>7. PacketTrace'
  BY <1>1, <1>3 DEF vars, peers, TraceInv, PacketTrace, Alive
<1>8. AnswerTrace'
  BY <1>1, <1>4 DEF vars, peers, TraceInv, AnswerTrace, ListsFor
<1> QED
  BY <1>5, <1>6, <1>7, <1>8 DEF TraceInv

-----------------------------------------------------------------------------
(* The sums, and what a step may do to them *)

(* The numbers are numbers.                                                 *)
LEMMA NumbersTyped ==
  NetTypeOK /\ PortTrace =>
    \A d \in Devices :
        /\ Waiting(d) \in Nat /\ Answering(d) \in Nat /\ Extra(d) \in Nat
        /\ device[d].pc \in Connected => Answers(d) \in Nat /\ Surplus(d) \in Nat
<1> SUFFICES ASSUME NetTypeOK, PortTrace, NEW d \in Devices
             PROVE  /\ Waiting(d) \in Nat /\ Answering(d) \in Nat /\ Extra(d) \in Nat
                    /\ device[d].pc \in Connected => Answers(d) \in Nat /\ Surplus(d) \in Nat
  OBVIOUS
<1>0. \A b : One(b) \in {0, 1}
  BY DEF One
<1>1. Waiting(d) \in Nat
  <2>1. Times(mainQueue, {d}) \in Nat
    BY TimesTyped DEF NetTypeOK
  <2> QED
    BY <1>0, <2>1 DEF Waiting
<1>2. Answering(d) \in Nat
  <2>1. Len(loginReplies[d]) \in Nat
    BY DEF NetTypeOK
  <2> QED
    BY <1>0, <2>1 DEF Answering
<1>3. ASSUME device[d].pc \in Connected
      PROVE  Answers(d) \in Nat /\ Surplus(d) \in Nat
  <2>1. device[d].port \in SessionPorts
    BY <1>3 DEF PortTrace
  <2>2. queue[device[d].port] \in Seq(Messages) /\ replies[d] \in Nat
    BY <2>1 DEF NetTypeOK
  <2>3. Times(queue[device[d].port], From(d)) \in Nat
    BY <2>2, TimesTyped
  <2>4. Cardinality(Listing(d)) \in Nat
    BY SlotSets DEF Listing
  <2>5. Answers(d) \in Nat
    BY <2>2, <2>3, <2>4 DEF Answers
  <2> QED
    BY <1>0, <2>5 DEF Surplus, Less
<1>4. Extra(d) \in Nat
  BY <1>1, <1>2, <1>3 DEF Extra, Less
<1> QED
  BY <1>1, <1>2, <1>3, <1>4

(* What the steps of the system start from and keep.                        *)
Sound == IInv /\ NetTypeOK /\ AckSlot /\ TraceInv
Sums == /\ Extras \in [Devices -> Nat] /\ Blame \in Nat
        /\ \A d \in Devices :
              /\ Extras[d] = Extra(d)
              /\ Waiting(d) \in Nat /\ Answering(d) \in Nat /\ Extra(d) \in Nat
              /\ device[d].pc \in Connected => Answers(d) \in Nat /\ Surplus(d) \in Nat

LEMMA SumsTyped == Sound => Sums
<1> SUFFICES ASSUME Sound PROVE Sums
  OBVIOUS
<1>1. \A d \in Devices :
        /\ Waiting(d) \in Nat /\ Answering(d) \in Nat /\ Extra(d) \in Nat
        /\ device[d].pc \in Connected => Answers(d) \in Nat /\ Surplus(d) \in Nat
  BY NumbersTyped DEF Sound, TraceInv
<1>2. Blame \in Nat
  BY DEF Sound, NetTypeOK, Kinds, Blame
<1> QED
  BY <1>1, <1>2 DEF Sums, Extras

LEMMA SumsTypedBoth ==
  ASSUME Sound, Sound'
  PROVE  Sums /\ Sums'
<1>1. Sound' => Sums'
  BY SumsTyped, PTL
<1> QED
  BY <1>1, SumsTyped

LEMMA Blamed ==
  ASSUME NetTypeOK, NEW kind \in Kinds, Count(kind)
  PROVE  Blame' = Blame + One(kind \in {"vanish", "dup", "bind", "thread"})
<1>1. faults \in [Kinds -> Nat] /\ faults' = [faults EXCEPT ![kind] = @ + 1]
  BY DEF NetTypeOK, Count
<1>2. \A k \in Kinds : faults[k] \in Nat /\ faults'[k] = faults[k] + One(k = kind)
  BY <1>1 DEF One
<1>3. /\ "vanish" \in Kinds /\ "dup" \in Kinds /\ "bind" \in Kinds /\ "thread" \in Kinds
  BY DEF Kinds
<1> QED
  BY <1>2, <1>3 DEF Blame, One

(* A step that costs no more slots than there are new faults.               *)
LEMMA DebtKept ==
  ASSUME Sound, Sound', DebtInv, \A d \in Devices : Extra(d)' <= Extra(d),
         Cardinality(LostSlots') + Blame <= Cardinality(LostSlots) + Blame'
  PROVE  DebtInv'
<1>1. Sums /\ Sums'
  BY SumsTypedBoth
<1>2. /\ Cardinality(LostSlots) \in Nat /\ Cardinality(LostSlots') \in Nat
  BY SlotSets DEF LostSlots
<1>3. \A d \in Devices : Extras'[d] <= Extras[d]
  BY <1>1 DEF Sums
<1>4. /\ IsFiniteSet(Pairs(Extras'))
      /\ Cardinality(Pairs(Extras)) \in Nat /\ Cardinality(Pairs(Extras')) \in Nat
      /\ Cardinality(Pairs(Extras')) <= Cardinality(Pairs(Extras))
  BY <1>1, <1>3, FewerPairs DEF Sums, DebtInv
<1> QED
  BY <1>1, <1>2, <1>4 DEF Sums, DebtInv

(* The same when one device gains what is lost elsewhere, or pays for it.   *)
LEMMA DebtMoved ==
  ASSUME Sound, Sound', DebtInv, NEW d \in Devices,
         \A e \in Devices \ {d} : Extra(e)' <= Extra(e),
         Cardinality(LostSlots') + Extra(d)' + Blame
             <= Cardinality(LostSlots) + Extra(d) + Blame'
  PROVE  DebtInv'
<1>1. Sums /\ Sums'
  BY SumsTypedBoth
<1>2. /\ Cardinality(LostSlots) \in Nat /\ Cardinality(LostSlots') \in Nat
  BY SlotSets DEF LostSlots
<1>3. \A e \in Devices \ {d} : Extras'[e] <= Extras[e]
  BY <1>1 DEF Sums
<1>4. /\ IsFiniteSet(Pairs(Extras'))
      /\ Cardinality(Pairs(Extras)) \in Nat /\ Cardinality(Pairs(Extras')) \in Nat
      /\ Cardinality(Pairs(Extras')) + Extras[d] <= Cardinality(Pairs(Extras)) + Extras'[d]
  BY <1>1, <1>3, PairsChange DEF Sums, DebtInv
<1> QED
  BY <1>1, <1>2, <1>4 DEF Sums, DebtInv

(* A device that the step leaves as it was, or with less.                   *)
LEMMA Settled ==
  ASSUME Sound, Sound', NEW d \in Devices, device'[d] = device[d],
         \A x \in Slots : Serves(d, x)' => Serves(d, x),
         IF device[d].pc = "login"
         THEN /\ Waiting(d)' + Answering(d)' = Waiting(d) + Answering(d)
              /\ \A x \in Slots : Announced(d, x) => Announced(d, x)'
         ELSE Waiting(d)' <= Waiting(d),
         device[d].pc \in Connected => Surplus(d)' <= Surplus(d)
  PROVE  Extra(d)' <= Extra(d) /\ \A x \in Slots : Costs(d, x)' => Costs(d, x)
<1>1. Sums /\ Sums'
  BY SumsTypedBoth
<1>2. Extra(d)' <= Extra(d)
  BY <1>1 DEF Sums, Extra, Less, Connected
<1>3. ASSUME NEW x \in Slots, Costs(d, x)'
      PROVE  Costs(d, x)
  BY <1>3 DEF Costs
<1> QED
  BY <1>2, <1>3

(* Answers that do not change, and the answer a device waits for.           *)
LEMMA LessExpected ==
  ASSUME NEW m \in Nat, NEW n \in Nat, NEW b, NEW c, n <= m, b => c
  PROVE  Less(n, One(c)) <= Less(m, One(b))
  BY DEF Less, One

-----------------------------------------------------------------------------
(* Session threads *)

(* A session thread gives up slots and takes none.                          *)
LEMMA ThreadServes ==
  ASSUME Sound, NEW t \in Threads, NetThread(t)
  PROVE  /\ UNCHANGED <<main, mainClient, mainQueue, loginReplies, device>>
         /\ \A x \in Slots, u \in Threads :
               SlotOf(u, x[1], x[2])' => SlotOf(u, x[1], x[2]) /\ owner'[u] = owner[u]
         /\ \A x \in Slots, d \in Devices : Serves(d, x)' => Serves(d, x)
         /\ \A d \in Devices : /\ Waiting(d)' = Waiting(d) /\ Answering(d)' = Answering(d)
                               /\ \A x \in Slots : Announced(d, x)' <=> Announced(d, x)
<1>1. /\ UNCHANGED <<main, mainClient, mainQueue, loginReplies, device>>
      /\ \A u \in Threads \ {t} : thread'[u] = thread[u] /\ client'[u] = client[u]
  <2>1. UNCHANGED mainQueue
    BY DEF NetThread, NetReceive, NetEndTransfer, NetBind, NetEnd, net
  <2> QED
    BY <2>1, ThreadEffect DEF Sound
<1>2. \A x \in Slots, u \in Threads :
         SlotOf(u, x[1], x[2])' => SlotOf(u, x[1], x[2]) /\ owner'[u] = owner[u]
  <2> TAKE x \in Slots, u \in Threads
  <2>1. x[1] \in ClientIds /\ x[2] \in SlotIds
    BY DEF Slots
  <2> QED
    BY <2>1, ThreadSlots DEF Sound
<1>3. ASSUME NEW x \in Slots, NEW d \in Devices, Serves(d, x)'
      PROVE  Serves(d, x)
  <2>1. PICK u \in Threads : /\ SlotOf(u, x[1], x[2])' /\ owner'[u] = d
                             /\ thread'[u].pc # "close" /\ thread'[u].sock # "unbound"
    BY <1>3 DEF Serves
  <2>2. SlotOf(u, x[1], x[2]) /\ owner[u] = d
    BY <1>2, <2>1
  <2>3. CASE u # t
    BY <1>1, <2>1, <2>2, <2>3 DEF Serves
  <2>4. CASE u = t
    <3>1. Owns(t) /\ Owns(t)'
      BY <2>1, <2>2, <2>4 DEF SlotOf
    <3>2. thread[t].pc # "close" /\ thread[t].sock # "unbound"
      <4>1. thread'[t].pc # "none"
        BY <3>1 DEF Owns
      <4> QED
        BY <2>1, <2>4, <3>1, <4>1, ThreadSockets DEF Sound, TraceInv
    <3> QED
      BY <2>2, <2>4, <3>2 DEF Serves
  <2> QED
    BY <2>3, <2>4
<1>4. \A d \in Devices : /\ Waiting(d)' = Waiting(d) /\ Answering(d)' = Answering(d)
                         /\ \A x \in Slots : Announced(d, x)' <=> Announced(d, x)
  BY <1>1 DEF Waiting, Answering, Announced
<1> QED
  BY <1>1, <1>2, <1>3, <1>4

(* A slot is wasted by a bind that fails.                                   *)
LEMMA ThreadWastes ==
  ASSUME Sound, NEW t \in Threads, NetThread(t), NEW x \in Slots, Wasted(x)'
  PROVE  \/ Wasted(x)
         \/ NetBind(t) /\ thread'[t].sock = "unbound" /\ SlotOf(t, x[1], x[2])
<1>1. /\ UNCHANGED main
      /\ \A u \in Threads \ {t} : thread'[u] = thread[u]
      /\ \/ UNCHANGED session_active
         \/ /\ thread[t].pc = "close"
            /\ session_active' = [session_active EXCEPT ![thread[t].c][thread[t].s] = 0]
  BY ThreadEffect DEF Sound
<1>2. x[1] \in ClientIds /\ x[2] \in SlotIds
  BY DEF Slots
<1>3. /\ session_active \in [ClientIds -> [SlotIds -> {0, 1}]]
      /\ thread[t].pc = "close" => thread[t].c \in ClientIds
      /\ thread[t].s \in SlotIds
  BY DEF Sound, IInv, TypeOK, OwnerInv, ThreadLocals
<1>4. /\ session_active[x[1]][x[2]] = 1
      /\ SlotOf(t, x[1], x[2]) => thread[t].pc # "close"
  <2> DEFINE c == x[1]
             s == x[2]
  <2>1. session_active'[c][s] = 1
    BY DEF Wasted
  <2> HIDE DEF c, s
  <2>2. CASE UNCHANGED session_active
    <3>1. SlotOf(t, c, s) => thread[t].pc # "close"
      <4>1. SlotOf(t, c, s) /\ thread[t].pc = "close" => Close(t)
        BY DEF SlotOf, NetThread, NetReceive, NetEndTransfer, NetBind, NetEnd, Receive,
               EndTransfer, Bind, Publish, Replicate, Start, BuildPath, Close
      <4>2. Close(t) => session_active'[thread[t].c][thread[t].s] = 0
        BY <1>3 DEF Close
      <4> QED
        BY <2>1, <4>1, <4>2 DEF SlotOf
    <3> QED
      BY <2>1, <2>2, <3>1 DEF c, s
  <2>3. CASE /\ thread[t].pc = "close"
             /\ session_active' = [session_active EXCEPT ![thread[t].c][thread[t].s] = 0]
    <3>1. c \in ClientIds /\ s \in SlotIds
      BY <1>2 DEF c, s
    <3>2. ~(thread[t].c = c /\ thread[t].s = s)
      BY <1>3, <2>1, <2>3, <3>1
    <3>3. session_active[c][s] = 1
      BY <1>3, <2>1, <2>3, <3>1, <3>2
    <3> QED
      BY <3>2, <3>3 DEF c, s, SlotOf
  <2> QED
    BY <1>1, <2>2, <2>3
<1>5. ~(main.pc = "spawn" /\ main.index = x[1] /\ main.s = x[2])
  BY <1>1 DEF Wasted
<1>6. ASSUME NEW u \in Threads, SlotOf(u, x[1], x[2]), thread[u].sock # "unbound"
      PROVE  NetBind(t) /\ thread'[t].sock = "unbound" /\ SlotOf(t, x[1], x[2])
  <2>1. CASE u # t
    <3>1. SlotOf(u, x[1], x[2])' /\ thread'[u].sock # "unbound"
      BY <1>1, <1>6, <2>1 DEF SlotOf, Owns
    <3> QED
      BY <3>1 DEF Wasted
  <2>2. CASE u = t
    <3>1. Owns(t) /\ Owns(t)'
      BY <1>4, <1>6, <2>2, ThreadSockets DEF Sound, TraceInv, SlotOf
    <3>2. thread'[t].c = thread[t].c /\ thread'[t].s = thread[t].s
      <4>1. thread'[t].pc # "none"
        BY <3>1 DEF Owns
      <4>2. \E op \in Ops : Receive(t, op) \/ ThreadStep(t)
        <5>1. CASE NetReceive(t)
          <6>1. thread[t].port \in SessionPorts
            BY <5>1, ReceiverAt DEF NetReceive, Sound
          <6> QED
            BY <5>1, <6>1, HeadTyped DEF NetReceive, Sound
        <5> QED
          BY <5>1 DEF NetThread, NetEndTransfer, NetBind, NetEnd, ThreadStep, Ops
      <4> QED
        BY <3>1, <4>2, NoNewOwner DEF Sound
    <3>3. thread'[t].sock = "unbound"
      BY <1>6, <2>2, <3>1, <3>2 DEF Wasted, SlotOf
    <3> QED
      BY <1>6, <2>2, <3>1, <3>3, ThreadSockets DEF Sound, TraceInv, Owns
  <2> QED
    BY <2>1, <2>2
<1> QED
  BY <1>4, <1>5, <1>6 DEF Wasted

(* Who lists at a slot has it alone.                                        *)
LEMMA OneAt ==
  ASSUME IInv, NEW x, NEW t \in Threads, NEW u \in Threads,
         SlotOf(t, x[1], x[2]), SlotOf(u, x[1], x[2])
  PROVE  t = u
  BY DEF IInv, OwnerInv, SlotOf

LEMMA ThreadListing ==
  ASSUME Sound, NEW t \in Threads, NetThread(t), NEW d \in Devices
  PROVE  /\ ~NetReceive(t) => Listing(d)' \subseteq Listing(d)
         /\ \A x \in Listing(d)' : x \in Listing(d) \/ (SlotOf(t, x[1], x[2]) /\ ListsFor(t, d)')
         /\ \A x \in Listing(d)' : SlotOf(t, x[1], x[2]) => ListsFor(t, d)'
<1>1. /\ \A u \in Threads \ {t} : thread'[u] = thread[u] /\ client'[u] = client[u]
  BY ThreadEffect DEF Sound
<1>2. ASSUME NEW x \in Listing(d)'
      PROVE  \E u \in Threads : SlotOf(u, x[1], x[2]) /\ SlotOf(u, x[1], x[2])' /\ ListsFor(u, d)'
  BY ThreadServes DEF Listing
<1>3. \A u \in Threads \ {t} : ListsFor(u, d)' <=> ListsFor(u, d)
  BY <1>1 DEF ListsFor
<1>4. Listing(d)' \subseteq Slots
  BY DEF Listing
<1>5. \A x \in Listing(d)' : x \in Listing(d) \/ (SlotOf(t, x[1], x[2]) /\ ListsFor(t, d)')
  BY <1>2, <1>3, <1>4 DEF Listing
<1>6. ASSUME NEW x \in Listing(d)', SlotOf(t, x[1], x[2])
      PROVE  ListsFor(t, d)'
  <2>1. PICK u \in Threads : SlotOf(u, x[1], x[2]) /\ ListsFor(u, d)'
    BY <1>2
  <2>2. u = t
    BY <1>6, <2>1, OneAt DEF Sound
  <2> QED
    BY <2>1, <2>2
<1>7. ASSUME ~NetReceive(t) PROVE Listing(d)' \subseteq Listing(d)
  <2>1. ListsFor(t, d)' => ListsFor(t, d)
    BY <1>7, NoNewListing DEF Sound
  <2> QED
    BY <1>4, <1>5, <2>1 DEF Listing
<1> QED
  BY <1>5, <1>6, <1>7

LEMMA FewerSlots ==
  ASSUME NEW A \in SUBSET Slots, NEW B \in SUBSET Slots
  PROVE  /\ A \subseteq B => Cardinality(A) <= Cardinality(B)
         /\ Cardinality(A) \in Nat /\ Cardinality(B) \in Nat
<1>1. A \subseteq B => A \subseteq B \cup {}
  OBVIOUS
<1>2. {} \in SUBSET Slots /\ Cardinality({}) = 0
  BY FS_EmptySet
<1>3. Cardinality(A) \in Nat /\ Cardinality(B) \in Nat
  BY SlotSets
<1> QED
  BY <1>1, <1>2, <1>3, SlotsGrow

(* A step of the server that neither takes a packet nor answers one.        *)
LEMMA QuietSurplus ==
  ASSUME Sound, Sound', NEW t \in Threads, NetThread(t), ~NetReceive(t),
         NEW d \in Devices, device[d].pc \in Connected, replies'[d] = replies[d]
  PROVE  Surplus(d)' <= Surplus(d)
<1>1. Sums /\ Sums' /\ UNCHANGED device
  BY SumsTypedBoth, ThreadServes
<1>2. UNCHANGED queue
  BY ThreadEffect DEF Sound
<1>3. Cardinality(Listing(d)') <= Cardinality(Listing(d))
  <2>1. Listing(d)' \subseteq Listing(d) /\ Listing(d)' \in SUBSET Slots /\ Listing(d) \in SUBSET Slots
    BY ThreadListing DEF Listing
  <2> QED
    BY <2>1, FewerSlots
<1>4. Answers(d)' <= Answers(d)
  <2>1. /\ Cardinality(Listing(d)) \in Nat /\ Cardinality(Listing(d)') \in Nat
        /\ replies[d] \in Nat
        /\ Times(queue[device[d].port], From(d)) \in Nat
    <3>1. queue[device[d].port] \in Seq(Messages) /\ replies[d] \in Nat
      BY DEF Sound, NetTypeOK, TraceInv, PortTrace
    <3> QED
      BY <3>1, TimesTyped, SlotSets DEF Listing
  <2> QED
    BY <1>1, <1>2, <1>3, <2>1 DEF Answers
<1>5. Expects(d) => Expects(d)'
  <2>1. Closing(d)' <=> Closing(d)
    BY <1>1, <1>2 DEF Closing
  <2>2. \A x \in Slots : Serves(d, x)' => Serves(d, x)
    BY ThreadServes
  <2> QED
    BY <1>1, <2>1, <2>2 DEF Expects
<1>6. Answers(d) \in Nat /\ Answers(d)' \in Nat
  BY <1>1 DEF Sums
<1> QED
  BY <1>4, <1>5, <1>6, LessExpected DEF Surplus

(* A listing ends with its answer.                                          *)
LEMMA ListedSurplus ==
  ASSUME Sound, Sound', NEW t \in Threads, NetEndTransfer(t),
         NEW d \in Devices, device[d].pc \in Connected
  PROVE  Surplus(d)' <= Surplus(d)
<1>0. /\ NetThread(t) /\ ~NetReceive(t)
  BY DEF NetThread, NetEndTransfer, EndTransfer, NetReceive
<1>1. Sums /\ Sums' /\ UNCHANGED device
  BY <1>0, SumsTypedBoth, ThreadServes
<1>2. CASE replies'[d] = replies[d]
  BY <1>0, <1>2, QuietSurplus
<1>3. CASE replies'[d] # replies[d]
  <2>0. replies \in [Devices -> Nat] /\ UNCHANGED queue
    BY DEF NetEndTransfer, Sound, NetTypeOK
  <2>1. /\ thread[t].op = "DOWNLOAD" /\ client[t] = d /\ thread[t].pc = "transfer"
        /\ replies'[d] = replies[d] + 1
    BY <1>3, <2>0 DEF NetEndTransfer, EndTransfer, SendAck
  <2> DEFINE x == <<thread[t].c, thread[t].s>>
  <2>2. SlotOf(t, x[1], x[2]) /\ x \in Slots
    BY <2>1 DEF Sound, IInv, TypeOK, OwnerInv, ThreadLocals, SlotOf, Owns, Slots
  <2>3. x \in Listing(d)
    BY <2>1, <2>2 DEF Listing, ListsFor
  <2>4. thread'[t].pc # "transfer" /\ thread'[t].pc # "path"
    <3>1. thread \in [Threads -> ThreadLocals]
      BY DEF Sound, IInv, TypeOK
    <3> QED
      BY <3>1 DEF NetEndTransfer, EndTransfer, ThreadLocals
  <2>5. x \notin Listing(d)' /\ Listing(d)' \subseteq Listing(d)
    <3>1. ~ListsFor(t, d)'
      BY <2>4 DEF ListsFor
    <3> QED
      BY <1>0, <2>2, <3>1, ThreadListing
  <2> HIDE DEF x
  <2>6. /\ IsFiniteSet(Listing(d)) /\ Cardinality(Listing(d)) \in Nat
        /\ IsFiniteSet(Listing(d)') /\ Cardinality(Listing(d)') \in Nat
    BY SlotSets DEF Listing
  <2>7. Cardinality(Listing(d) \ {x}) = Cardinality(Listing(d)) - 1 /\ IsFiniteSet(Listing(d) \ {x})
    BY <2>3, <2>6, FS_RemoveElement
  <2>8. Cardinality(Listing(d)') <= Cardinality(Listing(d)) - 1
    <3>1. Listing(d)' \in SUBSET (Listing(d) \ {x})
      BY <2>5
    <3> QED
      BY <2>7, <3>1, FS_Subset
  <2>9. Answers(d)' <= Answers(d)
    <3>1. Times(queue[device[d].port], From(d)) \in Nat /\ replies[d] \in Nat
      <4>1. queue[device[d].port] \in Seq(Messages) /\ replies[d] \in Nat
        BY DEF Sound, NetTypeOK, TraceInv, PortTrace
      <4> QED
        BY <4>1, TimesTyped
    <3> QED
      BY <1>1, <2>0, <2>1, <2>6, <2>8, <3>1 DEF Answers
  <2>10. Expects(d) => Expects(d)'
    <3>1. Closing(d)' <=> Closing(d)
      BY <1>1, <2>0 DEF Closing
    <3>2. \A y \in Slots : Serves(d, y)' => Serves(d, y)
      BY <1>0, ThreadServes
    <3> QED
      BY <1>1, <3>1, <3>2 DEF Expects
  <2>11. Answers(d) \in Nat /\ Answers(d)' \in Nat
    BY <1>1 DEF Sums
  <2> QED
    BY <2>9, <2>10, <2>11, LessExpected DEF Surplus
<1> QED
  BY <1>2, <1>3

(* A packet that is taken is answered or becomes a listing, and a CLOSE     *)
(* ends the session at its port.                                            *)
LEMMA TakenSurplus ==
  ASSUME Sound, Sound', NEW t \in Threads, NetReceive(t),
         NEW d \in Devices, device[d].pc \in Connected
  PROVE  Surplus(d)' <= Surplus(d)
<1> DEFINE x == <<thread[t].c, thread[t].s>>
           p == Port(thread[t].c, thread[t].s)
           m == Head(queue[p])
           o == device[d].port
<1>0. NetThread(t)
  BY DEF NetThread
<1>1. Sums /\ Sums' /\ UNCHANGED device
  BY <1>0, SumsTypedBoth, ThreadServes
<1>2. /\ SlotOf(t, x[1], x[2]) /\ x \in Slots /\ PortOf(x) = p
      /\ p \in SessionPorts /\ queue[p] # <<>> /\ queue[p] \in Seq(Messages)
      /\ m \in Messages /\ m = queue[p][1] /\ m.from \in Devices
      /\ queue' = [queue EXCEPT ![p] = Tail(@)] /\ client'[t] = m.from
      /\ IF m.op = "CLOSE" THEN thread'[t].pc = "close" ELSE thread'[t].pc = "path"
      /\ thread'[t].op = "DOWNLOAD" <=> m.op = "LIST"
      /\ replies' = IF m.op # "LIST" /\ Alive(m.from)
                    THEN [replies EXCEPT ![m.from] = @ + 1] ELSE replies
  BY Taken DEF Sound, Slots, PortOf
<1>3. queue \in [SessionPorts -> Seq(Messages)] /\ replies \in [Devices -> Nat]
  BY DEF Sound, NetTypeOK
<1>4. o \in SessionPorts /\ Alive(d)
  BY DEF Sound, TraceInv, PortTrace, Connected, Alive
<1>5. m.from = d => p = o
  <2>1. 1 \in 1 .. Len(queue[p])
    BY <1>2, HeadTail
  <2> QED
    BY <1>2, <1>4, <2>1 DEF Sound, TraceInv, PacketTrace
<1>6. /\ \A y \in Listing(d)' : y \in Listing(d) \/ (SlotOf(t, y[1], y[2]) /\ ListsFor(t, d)')
      /\ Listing(d)' \subseteq Slots
  BY <1>0, ThreadListing DEF Listing
<1>7. m \in From(d) <=> m.from = d
  BY <1>2 DEF From
<1> HIDE DEF m, p, o, x
<1>8. queue'[o] = IF o = p THEN Tail(queue[o]) ELSE queue[o]
  BY <1>2, <1>3, <1>4
<1>9. /\ queue[o] \in Seq(Messages) /\ queue'[o] \in Seq(Messages)
      /\ Times(queue[o], From(d)) \in Nat /\ Times(queue'[o], From(d)) \in Nat
      /\ Times(queue[o], From(d)) = Times(queue'[o], From(d)) + One(m.from = d)
  <2>1. CASE o = p
    <3>1. queue[o] \in Seq(Messages) /\ queue[o] # <<>> /\ Head(queue[o]) = m
      BY <1>2, <2>1 DEF m
    <3>2. Times(queue[o], From(d)) = Times(Tail(queue[o]), From(d)) + One(m \in From(d))
      BY <3>1, TimesTail
    <3>3. Tail(queue[o]) \in Seq(Messages)
      BY <3>1
    <3>4. One(m \in From(d)) = One(m.from = d)
      BY <1>7 DEF One
    <3> QED
      BY <1>8, <2>1, <3>1, <3>2, <3>3, <3>4, TimesTyped
  <2>2. CASE o # p
    <3>1. m.from # d /\ queue[o] \in Seq(Messages)
      BY <1>3, <1>4, <1>5, <2>2
    <3> QED
      BY <1>8, <2>2, <3>1, TimesTyped DEF One
  <2> QED
    BY <2>1, <2>2
<1>10. /\ Cardinality(Listing(d)) \in Nat /\ Cardinality(Listing(d)') \in Nat
       /\ Cardinality(Listing(d)') <= Cardinality(Listing(d)) + One(m.from = d /\ m.op = "LIST")
  <2>1. CASE m.from = d /\ m.op = "LIST"
    <3>1. \A y \in Slots : SlotOf(t, y[1], y[2]) => y = x
      BY <1>2 DEF SlotOf, x, Slots
    <3>2. Listing(d)' \subseteq Listing(d) \cup {x}
      BY <1>6, <3>1
    <3> QED
      BY <1>2, <1>6, <2>1, <3>2, OneMoreSlot, SlotSets DEF One, Listing
  <2>2. CASE ~(m.from = d /\ m.op = "LIST")
    <3>1. ~ListsFor(t, d)'
      BY <1>2, <2>2 DEF ListsFor
    <3>2. Listing(d)' \subseteq Listing(d) /\ Listing(d) \subseteq Slots
      BY <1>6, <3>1 DEF Listing
    <3> QED
      BY <1>6, <2>2, <3>2, FewerSlots DEF One
  <2> QED
    BY <2>1, <2>2
<1>11. replies[d] \in Nat /\ replies'[d] = replies[d] + One(m.from = d /\ m.op # "LIST")
  BY <1>2, <1>3, <1>4 DEF One
<1>12. Answers(d)' <= Answers(d)
  <2>1. /\ One(m.from = d) = One(m.from = d /\ m.op = "LIST") + One(m.from = d /\ m.op # "LIST")
        /\ One(m.from = d /\ m.op = "LIST") \in Nat /\ One(m.from = d /\ m.op # "LIST") \in Nat
    BY DEF One
  <2>2. /\ Answers(d) = replies[d] + Times(queue[o], From(d)) + Cardinality(Listing(d))
        /\ Answers(d)' = replies'[d] + Times(queue'[o], From(d)) + Cardinality(Listing(d)')
    BY <1>1 DEF Answers, o
  <2> QED
    BY <1>9, <1>10, <1>11, <2>1, <2>2
<1>13. Expects(d) => Expects(d)'
  <2>1. ASSUME device[d].pc = "closing", Closing(d), ~Closing(d)',
               NEW y \in Slots, Serves(d, y)'
        PROVE  PortOf(y) # o
    <3>1. PICK i \in 1 .. Len(queue[o]) : queue[o][i] = [op |-> "CLOSE", from |-> d]
      BY <2>1 DEF Closing, o
    <3>2. \A j \in 1 .. Len(queue'[o]) : queue'[o][j] # [op |-> "CLOSE", from |-> d]
      BY <1>1, <2>1 DEF Closing, o
    <3>3. o = p
      BY <1>8, <3>1, <3>2
    <3>4. i = 1
      <4>1. i # 1 => i - 1 \in 1 .. Len(Tail(queue[o])) /\ Tail(queue[o])[i - 1] = queue[o][i]
        BY <1>9, <3>1
      <4> QED
        BY <1>8, <3>1, <3>2, <3>3, <4>1
    <3>5. m.op = "CLOSE"
      BY <1>2, <3>1, <3>3, <3>4
    <3>6. PICK u \in Threads : SlotOf(u, y[1], y[2])' /\ thread'[u].pc # "close"
      BY <2>1 DEF Serves
    <3>7. u # t /\ SlotOf(u, y[1], y[2])
      BY <1>0, <1>2, <3>5, <3>6, ThreadServes
    <3>8. y # x
      BY <1>2, <3>7, OneAt DEF Sound
    <3>9. x[1] \in ClientIds /\ x[2] \in SlotIds /\ y[1] \in ClientIds /\ y[2] \in SlotIds
          /\ x = <<x[1], x[2]>> /\ y = <<y[1], y[2]>>
      BY <1>2 DEF Slots
    <3> QED
      BY <1>2, <3>3, <3>8, <3>9, PortInjective DEF PortOf
  <2>2. \A y \in Slots : Serves(d, y)' => Serves(d, y)
    BY <1>0, ThreadServes
  <2> QED
    BY <1>1, <2>1, <2>2 DEF Expects, o
<1>14. Answers(d) \in Nat /\ Answers(d)' \in Nat
  BY <1>1 DEF Sums
<1> QED
  BY <1>12, <1>13, <1>14, LessExpected DEF Surplus

LEMMA ThreadDebt ==
  ASSUME Sound, Sound', DebtInv, NEW t \in Threads, NetThread(t)
  PROVE  DebtInv'
<1>1. Sums /\ Sums' /\ UNCHANGED device
  BY SumsTypedBoth, ThreadServes
<1>2. ASSUME NEW d \in Devices, device[d].pc \in Connected
      PROVE  Surplus(d)' <= Surplus(d)
  <2>1. CASE NetReceive(t)
    BY <1>2, <2>1, TakenSurplus
  <2>2. CASE NetEndTransfer(t)
    BY <1>2, <2>2, ListedSurplus
  <2>3. CASE ~NetReceive(t) /\ ~NetEndTransfer(t)
    <3>1. UNCHANGED replies
      BY <2>3 DEF NetThread, NetBind, NetEnd, net
    <3> QED
      BY <1>2, <2>3, <3>1, QuietSurplus
  <2> QED
    BY <2>1, <2>2, <2>3
<1>3. \A d \in Devices : Extra(d)' <= Extra(d) /\ \A x \in Slots : Costs(d, x)' => Costs(d, x)
  <2> TAKE d \in Devices
  <2>1. Waiting(d) \in Nat /\ Answering(d) \in Nat
    BY <1>1 DEF Sums
  <2>2. Waiting(d)' <= Waiting(d)
    BY <2>1, ThreadServes
  <2> QED
    BY <1>1, <1>2, <2>1, <2>2, ThreadServes, Settled
<1>4. CASE NetBind(t) /\ thread'[t].sock = "unbound"
  <2> DEFINE x == <<thread[t].c, thread[t].s>>
  <2>1. x \in Slots
    BY <1>4 DEF NetBind, Bind, Sound, IInv, TypeOK, OwnerInv, ThreadLocals, Slots
  <2>2. \A y \in Slots : SlotOf(t, y[1], y[2]) => y = x
    BY DEF SlotOf, Slots
  <2> HIDE DEF x
  <2>3. LostSlots' \subseteq LostSlots \cup {x}
    BY <1>3, <2>2, ThreadWastes DEF LostSlots
  <2>4. Cardinality(LostSlots') <= Cardinality(LostSlots) + 1
    BY <2>1, <2>3, OneMoreSlot DEF LostSlots
  <2>5. Blame' = Blame + 1
    <3>1. Count("bind")
      BY <1>4 DEF NetBind
    <3> QED
      BY <3>1, Blamed DEF Sound, Kinds, One
  <2>6. Cardinality(LostSlots) \in Nat /\ Cardinality(LostSlots') \in Nat
    BY SlotSets DEF LostSlots
  <2> QED
    BY <1>1, <1>3, <2>4, <2>5, <2>6, DebtKept DEF Sums
<1>5. CASE ~(NetBind(t) /\ thread'[t].sock = "unbound")
  <2>1. LostSlots' \subseteq LostSlots /\ LostSlots \subseteq Slots
    BY <1>3, <1>5, ThreadWastes DEF LostSlots
  <2>2. Cardinality(LostSlots') <= Cardinality(LostSlots)
    BY <2>1, FewerSlots
  <2>3. UNCHANGED faults
    BY <1>5 DEF NetThread, NetReceive, NetEndTransfer, NetBind, NetEnd
  <2>4. Cardinality(LostSlots) \in Nat /\ Cardinality(LostSlots') \in Nat
    BY SlotSets DEF LostSlots
  <2> QED
    BY <1>1, <1>3, <2>2, <2>3, <2>4, DebtKept DEF Sums, Blame
<1> QED
  BY <1>4, <1>5

-----------------------------------------------------------------------------
(* The main thread *)

LEMMA SameSessions ==
  ASSUME UNCHANGED <<device, thread, owner, client, queue, replies>>, NEW d \in Devices
  PROVE  /\ Surplus(d)' = Surplus(d)
         /\ \A x \in Slots : Serves(d, x)' <=> Serves(d, x)
         /\ \A x, t : SlotOf(t, x[1], x[2])' <=> SlotOf(t, x[1], x[2])
<1>1. \A x, t : SlotOf(t, x[1], x[2])' <=> SlotOf(t, x[1], x[2])
  BY DEF SlotOf, Owns
<1>2. \A x \in Slots : Serves(d, x)' <=> Serves(d, x)
  BY <1>1 DEF Serves
<1>3. Listing(d)' = Listing(d)
  BY <1>1 DEF Listing, ListsFor
<1>4. Answers(d)' = Answers(d) /\ (Expects(d)' <=> Expects(d))
  BY <1>2, <1>3 DEF Answers, Expects, Closing
<1>5. One(Expects(d)') = One(Expects(d))
  BY <1>4 DEF One
<1> QED
  BY <1>1, <1>2, <1>4, <1>5 DEF Surplus

(* A step of the server after which no device is worse off.                 *)
LEMMA DebtSettled ==
  ASSUME Sound, Sound', DebtInv, UNCHANGED faults,
         \A d \in Devices : Extra(d)' <= Extra(d) /\ \A x \in Slots : Costs(d, x)' => Costs(d, x),
         \A x \in Slots : Wasted(x)' => Wasted(x)
  PROVE  DebtInv'
<1>1. LostSlots' \subseteq LostSlots /\ LostSlots \subseteq Slots
  BY DEF LostSlots
<1>2. Cardinality(LostSlots') <= Cardinality(LostSlots)
  BY <1>1, FewerSlots
<1>3. Cardinality(LostSlots) \in Nat /\ Cardinality(LostSlots') \in Nat
  BY <1>1, SlotSets
<1>4. Blame' = Blame /\ Blame \in Nat
  BY SumsTyped DEF Blame, Sums
<1> QED
  BY <1>2, <1>3, <1>4, DebtKept

LEMMA ReceivedDebt ==
  ASSUME Sound, Sound', DebtInv, NetMainRecv
  PROVE  DebtInv'
<1>0. /\ main \in MainLocals /\ mainQueue \in Seq(Devices)
  BY DEF Sound, IInv, TypeOK, NetTypeOK
<1>1. /\ main.pc = "recv" /\ main'.pc = "match" /\ mainQueue # <<>>
      /\ mainClient' = Head(mainQueue) /\ mainQueue' = Tail(mainQueue)
      /\ UNCHANGED <<device, thread, owner, client, queue, replies, loginReplies, faults,
                     session_active>>
  BY <1>0 DEF NetMainRecv, MainRecv, MainLocals, table
<1>2. Sums /\ Sums'
  BY SumsTypedBoth
<1>3. ASSUME NEW d \in Devices
      PROVE  /\ Waiting(d)' = Waiting(d) /\ Answering(d)' = Answering(d)
             /\ \A x \in Slots : Announced(d, x) => Announced(d, x)'
  <2>1. Times(mainQueue, {d}) = Times(mainQueue', {d}) + One(Head(mainQueue) \in {d})
    BY <1>0, <1>1, TimesTail
  <2>2. Times(mainQueue', {d}) \in Nat
    <3>1. mainQueue' \in Seq(Devices)
      BY <1>0, <1>1
    <3> QED
      BY <3>1, TimesTyped
  <2>3. Waiting(d)' = Waiting(d)
    BY <1>1, <2>1, <2>2 DEF Waiting, One
  <2>4. Answering(d)' = Answering(d)
    BY <1>1 DEF Answering, One
  <2>5. \A x \in Slots : Announced(d, x) => Announced(d, x)'
    BY <1>1 DEF Announced
  <2> QED
    BY <2>3, <2>4, <2>5
<1>4. \A d \in Devices : Extra(d)' <= Extra(d) /\ \A x \in Slots : Costs(d, x)' => Costs(d, x)
  <2> TAKE d \in Devices
  <2>1. /\ Surplus(d)' = Surplus(d) /\ \A x \in Slots : Serves(d, x)' <=> Serves(d, x)
    BY <1>1, SameSessions
  <2>2. device[d].pc \in Connected => Surplus(d) \in Nat
    BY <1>2 DEF Sums
  <2>3. Waiting(d) \in Nat
    BY <1>2 DEF Sums
  <2> QED
    BY <1>1, <1>3, <2>1, <2>2, <2>3, Settled
<1>5. \A x \in Slots : Wasted(x)' => Wasted(x)
  BY <1>1 DEF Wasted, SlotOf, Owns
<1> QED
  BY <1>1, <1>4, <1>5, DebtSettled

LEMMA LookedUpDebt ==
  ASSUME Sound, Sound', DebtInv,
         Match \/ Scan \/ Claim \/ Check \/ SkipSlot \/ TakeSlot,
         UNCHANGED <<user, device, net, peers, faults>>
  PROVE  DebtInv'
<1>0. /\ main \in MainLocals /\ session_active \in [ClientIds -> [SlotIds -> {0, 1}]]
  BY DEF Sound, IInv, TypeOK
<1>1. UNCHANGED <<device, thread, owner, client, queue, replies, loginReplies, faults,
                  mainQueue, mainClient>>
  BY DEF Match, Scan, Claim, Check, SkipSlot, TakeSlot, net, peers
<1>2. Sums /\ Sums'
  BY SumsTypedBoth
<1>3. /\ main.pc \in {"match", "scan", "check", "slots"}
      /\ main'.pc \in {"scan", "check", "slots", "spawn", "nack"}
  <2>1. CASE Match \/ Scan \/ Claim
    BY <1>0, <2>1 DEF Match, Scan, Claim, MainLocals
  <2>2. CASE Check \/ SkipSlot \/ TakeSlot
    BY <1>0, <2>2 DEF Check, SkipSlot, TakeSlot, Refused, Idle, MainLocals
  <2> QED
    BY <2>1, <2>2
<1>4. ASSUME NEW d \in Devices
      PROVE  /\ Waiting(d)' <= Waiting(d)
             /\ Waiting(d)' + Answering(d)' = Waiting(d) + Answering(d)
             /\ \A x \in Slots : Announced(d, x) => Announced(d, x)'
  <2>1. Times(mainQueue, {d}) \in Nat /\ Len(loginReplies[d]) \in Nat
    <3>1. mainQueue \in Seq(Devices) /\ loginReplies[d] \in Seq(SessionPorts \cup {NACK})
      BY DEF Sound, NetTypeOK
    <3> QED
      BY <3>1, TimesTyped
  <2>2. \A x \in Slots : Announced(d, x) => Announced(d, x)'
    BY <1>1, <1>3 DEF Announced
  <2>3. /\ Waiting(d) = Times(mainQueue, {d}) + One(mainClient = d)
        /\ Answering(d) = 0 + Len(loginReplies[d])
    BY <1>3 DEF Waiting, Answering, One
  <2>4. \/ /\ Waiting(d)' = Times(mainQueue, {d}) + One(mainClient = d)
           /\ Answering(d)' = 0 + Len(loginReplies[d])
        \/ /\ Waiting(d)' = Times(mainQueue, {d}) + 0
           /\ Answering(d)' = One(mainClient = d) + Len(loginReplies[d])
    <3>1. CASE main'.pc = "nack"
      BY <1>1, <3>1 DEF Waiting, Answering, One
    <3>2. CASE main'.pc # "nack"
      BY <1>1, <1>3, <3>2 DEF Waiting, Answering, One
    <3> QED
      BY <3>1, <3>2
  <2>5. One(mainClient = d) \in Nat
    BY DEF One
  <2> QED
    BY <2>1, <2>2, <2>3, <2>4, <2>5
<1>5. \A d \in Devices : Extra(d)' <= Extra(d) /\ \A x \in Slots : Costs(d, x)' => Costs(d, x)
  <2> TAKE d \in Devices
  <2>1. /\ Surplus(d)' = Surplus(d) /\ \A x \in Slots : Serves(d, x)' <=> Serves(d, x)
    BY <1>1, SameSessions
  <2>2. device[d].pc \in Connected => Surplus(d) \in Nat
    BY <1>2 DEF Sums
  <2> QED
    BY <1>1, <1>4, <2>1, <2>2, Settled
<1>6. ASSUME NEW x \in Slots, Wasted(x)'
      PROVE  Wasted(x)
  <2>1. \A t \in Threads : SlotOf(t, x[1], x[2]) => thread[t].sock = "unbound"
    BY <1>1, <1>6 DEF Wasted, SlotOf, Owns
  <2>2. session_active[x[1]][x[2]] = 1
    <3>1. CASE TakeSlot
      <4>1. /\ main'.pc = "spawn" /\ main'.index = main.index /\ main'.s = main.s
            /\ session_active' = [session_active EXCEPT ![main.index][main.s] = 1]
        BY <1>0, <3>1 DEF TakeSlot, MainLocals
      <4>2. session_active'[x[1]][x[2]] = 1 /\ ~(main.index = x[1] /\ main.s = x[2])
        BY <1>6, <4>1 DEF Wasted
      <4>3. x[1] \in ClientIds /\ x[2] \in SlotIds
        BY DEF Slots
      <4> QED
        BY <1>0, <4>1, <4>2, <4>3
    <3>2. CASE ~TakeSlot
      <4>1. UNCHANGED session_active
        BY <3>2 DEF Match, Scan, Claim, Check, SkipSlot, table
      <4> QED
        BY <1>6, <4>1 DEF Wasted
    <3> QED
      BY <3>1, <3>2
  <2> QED
    BY <1>3, <2>1, <2>2 DEF Wasted
<1> QED
  BY <1>1, <1>5, <1>6, DebtSettled

LEMMA RepliedDebt ==
  ASSUME Sound, Sound', DebtInv, NetReply
  PROVE  DebtInv'
<1>0. /\ loginReplies \in [Devices -> Seq(SessionPorts \cup {NACK})]
      /\ main.pc \in {"ack", "nack"} /\ mainClient \in Devices
  BY DEF Sound, NetTypeOK, NetReply, Reply, TraceInv, MainTrace
<1>1. /\ main'.pc = "recv"
      /\ UNCHANGED <<device, thread, owner, client, queue, replies, mainQueue, faults,
                     session_active>>
  BY DEF NetReply, Reply, Idle, table
<1>2. Sums /\ Sums'
  BY SumsTypedBoth
<1> DEFINE a == IF main.pc = "ack" THEN Port(main.index, main.s) ELSE NACK
<1>3. loginReplies' = IF ~Alive(mainClient) THEN loginReplies
                      ELSE [loginReplies EXCEPT ![mainClient] = Append(@, a)]
  BY DEF NetReply, Answer
<1>4. a \in SessionPorts \cup {NACK}
  BY DEF Sound, AckSlot, SessionPorts
<1>5. ASSUME NEW d \in Devices
      PROVE  /\ Waiting(d)' = Waiting(d)
             /\ device[d].pc = "login" =>
                  /\ Answering(d)' = Answering(d)
                  /\ \A x \in Slots : Announced(d, x) => Announced(d, x)'
  <2>1. Waiting(d)' = Waiting(d)
    BY <1>0, <1>1 DEF Waiting, One
  <2>2. ASSUME device[d].pc = "login", d = mainClient
        PROVE  /\ Answering(d)' = Answering(d)
               /\ \A x \in Slots : Announced(d, x) => Announced(d, x)'
    <3> DEFINE q == loginReplies[d]
               r == loginReplies'[d]
    <3>1. r = Append(q, a) /\ q \in Seq(SessionPorts \cup {NACK})
      BY <1>0, <1>3, <2>2 DEF Alive
    <3> HIDE DEF q, r, a
    <3>2. /\ Len(r) = Len(q) + 1 /\ r[Len(q) + 1] = a /\ Len(q) \in Nat
          /\ \A i \in 1 .. Len(q) : r[i] = q[i]
      BY <1>4, <3>1
    <3>3. Answering(d)' = Answering(d)
      BY <1>0, <1>1, <2>2, <3>2 DEF Answering, One, q, r
    <3>4. ASSUME NEW x \in Slots, Announced(d, x)
          PROVE  \E i \in 1 .. Len(r) : r[i] = PortOf(x)
      <4>1. CASE main.pc = "ack" /\ main.index = x[1] /\ main.s = x[2]
        <5>1. Len(q) + 1 \in 1 .. Len(r) /\ r[Len(q) + 1] = PortOf(x)
          BY <3>2, <4>1 DEF a, PortOf
        <5> QED
          BY <5>1
      <4>2. CASE \E i \in 1 .. Len(q) : q[i] = PortOf(x)
        BY <3>2, <4>2
      <4> QED
        BY <3>4, <4>1, <4>2 DEF Announced, q
    <3> QED
      BY <3>3, <3>4 DEF Announced, r
  <2>3. ASSUME d # mainClient
        PROVE  /\ Answering(d)' = Answering(d)
               /\ \A x \in Slots : Announced(d, x) => Announced(d, x)'
    <3>1. loginReplies'[d] = loginReplies[d]
      BY <1>0, <1>3, <2>3
    <3>2. \A x \in Slots : Announced(d, x) => Announced(d, x)'
      BY <2>3, <3>1 DEF Announced
    <3> QED
      BY <1>1, <2>3, <3>1, <3>2 DEF Answering, One
  <2> QED
    BY <2>1, <2>2, <2>3
<1>6. \A d \in Devices : Extra(d)' <= Extra(d) /\ \A x \in Slots : Costs(d, x)' => Costs(d, x)
  <2> TAKE d \in Devices
  <2>1. /\ Surplus(d)' = Surplus(d) /\ \A x \in Slots : Serves(d, x)' <=> Serves(d, x)
    BY <1>1, SameSessions
  <2>2. device[d].pc \in Connected => Surplus(d) \in Nat
    BY <1>2 DEF Sums
  <2>3. Waiting(d) \in Nat
    BY <1>2 DEF Sums
  <2> QED
    BY <1>1, <1>5, <2>1, <2>2, <2>3, Settled
<1>7. \A x \in Slots : Wasted(x)' => Wasted(x)
  BY <1>0, <1>1 DEF Wasted, SlotOf, Owns
<1> QED
  BY <1>1, <1>6, <1>7, DebtSettled

(* What creating a thread leaves alone, whether there is one or not.        *)
LEMMA SpawnEffect ==
  ASSUME Sound, Sound', NetSpawn
  PROVE  /\ main.pc = "spawn" /\ main'.pc = "ack"
         /\ main'.index = main.index /\ main'.s = main.s
         /\ mainClient \in Devices /\ <<main.index, main.s>> \in Slots
         /\ UNCHANGED <<device, client, queue, replies, loginReplies, mainQueue, mainClient,
                        session_active>>
         /\ \A e \in Devices :
               /\ Waiting(e) = Waiting(e)' + One(e = mainClient)
               /\ Answering(e)' = Answering(e) + One(e = mainClient)
               /\ \A x \in Slots : Announced(e, x) => Announced(e, x)'
<1>0. main \in MainLocals
  BY DEF Sound, IInv, TypeOK
<1>1. /\ main.pc = "spawn" /\ main'.pc = "ack"
      /\ main'.index = main.index /\ main'.s = main.s
      /\ UNCHANGED <<device, client, queue, replies, loginReplies, mainQueue, mainClient,
                     session_active>>
  BY <1>0 DEF NetSpawn, Spawn, net, table, MainLocals
<1>2. mainClient \in Devices /\ <<main.index, main.s>> \in Slots
  BY <1>1 DEF Sound, TraceInv, MainTrace, IInv, MainInv, Slots
<1>3. ASSUME NEW e \in Devices
      PROVE  /\ Waiting(e) = Waiting(e)' + One(e = mainClient)
             /\ Answering(e)' = Answering(e) + One(e = mainClient)
             /\ \A x \in Slots : Announced(e, x) => Announced(e, x)'
  <2>1. Times(mainQueue, {e}) \in Nat /\ Len(loginReplies[e]) \in Nat
    <3>1. mainQueue \in Seq(Devices) /\ loginReplies[e] \in Seq(SessionPorts \cup {NACK})
      BY DEF Sound, NetTypeOK
    <3> QED
      BY <3>1, TimesTyped
  <2>2. Waiting(e) = Waiting(e)' + One(e = mainClient)
    BY <1>1, <2>1 DEF Waiting, One
  <2>3. Answering(e)' = Answering(e) + One(e = mainClient)
    <3>1. /\ Answering(e) = 0 + Len(loginReplies[e])
          /\ Answering(e)' = One(e = mainClient) + Len(loginReplies[e])
      BY <1>1 DEF Answering, One
    <3>2. One(e = mainClient) \in Nat
      BY DEF One
    <3> QED
      BY <2>1, <3>1, <3>2
  <2>4. \A x \in Slots : Announced(e, x) => Announced(e, x)'
    BY <1>1 DEF Announced
  <2> QED
    BY <2>2, <2>3, <2>4
<1> QED
  BY <1>1, <1>2, <1>3

LEMMA NotCreatedDebt ==
  ASSUME Sound, Sound', DebtInv, NetSpawn, UNCHANGED thread
  PROVE  DebtInv'
<1> DEFINE x == <<main.index, main.s>>
<1>1. Sums /\ Sums' /\ UNCHANGED owner /\ Count("thread")
  <2>1. UNCHANGED owner
    BY DEF NetSpawn, Sound, NetTypeOK
  <2> QED
    BY <2>1, SumsTypedBoth DEF NetSpawn
<1>2. \A d \in Devices : Extra(d)' <= Extra(d) /\ \A y \in Slots : Costs(d, y)' => Costs(d, y)
  <2> TAKE d \in Devices
  <2>1. /\ Surplus(d)' = Surplus(d) /\ \A y \in Slots : Serves(d, y)' <=> Serves(d, y)
    BY <1>1, SpawnEffect, SameSessions
  <2>2. device[d].pc \in Connected => Surplus(d) \in Nat
    BY <1>1 DEF Sums
  <2>3. /\ Waiting(d) \in Nat /\ Waiting(d)' \in Nat
        /\ Answering(d) \in Nat /\ Answering(d)' \in Nat
    BY <1>1 DEF Sums
  <2>4. Waiting(d)' <= Waiting(d) /\ Waiting(d)' + Answering(d)' = Waiting(d) + Answering(d)
    BY <2>3, SpawnEffect DEF One
  <2> QED
    BY <2>1, <2>2, <2>4, SpawnEffect, Settled
<1>3. x \in Slots
  BY SpawnEffect
<1>4. ASSUME NEW y \in Slots, Wasted(y)', y # x
      PROVE  Wasted(y)
  <2>1. ~(main.index = y[1] /\ main.s = y[2])
    BY <1>4 DEF Slots
  <2> QED
    BY <1>4, <2>1, SpawnEffect DEF Wasted, SlotOf, Owns
<1> HIDE DEF x
<1>5. LostSlots' \subseteq LostSlots \cup {x}
  BY <1>2, <1>4 DEF LostSlots
<1>6. Cardinality(LostSlots') <= Cardinality(LostSlots) + 1
  BY <1>3, <1>5, OneMoreSlot DEF LostSlots
<1>7. Blame' = Blame + 1
  BY <1>1, Blamed DEF Sound, Kinds, One
<1>8. Cardinality(LostSlots) \in Nat /\ Cardinality(LostSlots') \in Nat
  BY SlotSets DEF LostSlots
<1> QED
  BY <1>1, <1>2, <1>6, <1>7, <1>8, DebtKept DEF Sums

(* The new session is announced to a device that logs in; to any other it   *)
(* is one too many, unless the device happens to use its port.              *)
LEMMA CreatedDebt ==
  ASSUME Sound, Sound', DebtInv, NetSpawn, thread' # thread
  PROVE  DebtInv'
<1>d. PICK d \in Devices : d = mainClient /\ d = mainClient'
  BY SpawnEffect
<1>x. PICK x \in Slots : /\ main.index = x[1] /\ main.s = x[2]
                        /\ main'.index = x[1] /\ main'.s = x[2]
  <2>1. /\ main.index = (<<main.index, main.s>>)[1] /\ main.s = (<<main.index, main.s>>)[2]
        /\ <<main.index, main.s>> \in Slots
    BY SpawnEffect
  <2> QED
    BY <2>1, SpawnEffect
<1>0. /\ Sums /\ Sums' /\ UNCHANGED faults
  BY SumsTypedBoth, SpawnEffect DEF NetSpawn
<1>1. PICK t \in Threads : /\ thread[t].pc = "none"
                           /\ thread' = [thread EXCEPT ![t] =
                                  [NoThread EXCEPT !.pc = "start", !.c = main.index,
                                                   !.s = main.s, !.user = main.user]]
  BY DEF NetSpawn, Spawn
<1>2. /\ thread'[t].pc = "start" /\ thread'[t].c = x[1] /\ thread'[t].s = x[2]
      /\ thread'[t].sock = "none" /\ \A u \in Threads \ {t} : thread'[u] = thread[u]
      /\ thread'[t] # thread[t]
  <2>1. thread \in [Threads -> ThreadLocals]
    BY DEF Sound, IInv, TypeOK
  <2> QED
    BY <1>x, <1>1, <2>1 DEF NoThread
<1>3. /\ owner'[t] = d /\ \A u \in Threads \ {t} : owner'[u] = owner[u]
      /\ client' = client
  <2>1. owner' = [u \in Threads |-> IF thread'[u] # thread[u] THEN mainClient ELSE owner[u]]
    BY DEF NetSpawn
  <2> QED
    BY <1>d, <1>2, <2>1, SpawnEffect
<1>4. /\ \A y \in Slots : ~SlotOf(t, y[1], y[2])
      /\ \A y \in Slots : SlotOf(t, y[1], y[2])' <=> y = x
      /\ \A y \in Slots, u \in Threads \ {t} : SlotOf(u, y[1], y[2])' <=> SlotOf(u, y[1], y[2])
  <2>1. \A y \in Slots : ~SlotOf(t, y[1], y[2])
    BY <1>1 DEF SlotOf, Owns
  <2>2. \A y \in Slots : SlotOf(t, y[1], y[2])' <=> y = x
    BY <1>0, <1>2 DEF SlotOf, Owns, Slots
  <2>3. \A y \in Slots, u \in Threads \ {t} : SlotOf(u, y[1], y[2])' <=> SlotOf(u, y[1], y[2])
    BY <1>2 DEF SlotOf, Owns
  <2> QED
    BY <2>1, <2>2, <2>3
<1>5. \A e \in Devices, y \in Slots :
         Serves(e, y)' <=> Serves(e, y) \/ (e = d /\ y = x)
  <2> TAKE e \in Devices, y \in Slots
  <2>1. Serves(e, y)' => Serves(e, y) \/ (e = d /\ y = x)
    BY <1>2, <1>3, <1>4 DEF Serves
  <2>2. Serves(e, y) => Serves(e, y)'
    BY <1>2, <1>3, <1>4 DEF Serves
  <2>3. e = d /\ y = x => Serves(e, y)'
    BY <1>2, <1>3, <1>4 DEF Serves
  <2> QED
    BY <2>1, <2>2, <2>3
<1>6. \A e \in Devices : Listing(e)' = Listing(e)
  <2> TAKE e \in Devices
  <2>1. /\ ~ListsFor(t, e)' /\ ~ListsFor(t, e)
        /\ \A u \in Threads \ {t} : ListsFor(u, e)' <=> ListsFor(u, e)
    BY <1>1, <1>2, <1>3 DEF ListsFor
  <2> QED
    BY <1>4, <2>1 DEF Listing
<1>7. \A e \in Devices : /\ Answers(e)' = Answers(e) /\ (Closing(e)' <=> Closing(e))
                         /\ device'[e] = device[e]
  BY <1>6, SpawnEffect DEF Answers, Closing
<1>8. ASSUME NEW y \in Slots, Wasted(y)'
      PROVE  Wasted(y)
  <2>1. y # x
    BY <1>2, <1>4, <1>8 DEF Wasted
  <2>2. ~(main.index = y[1] /\ main.s = y[2])
    BY <1>x, <2>1 DEF Slots
  <2> QED
    BY <1>2, <1>4, <1>8, <2>2, SpawnEffect DEF Wasted
<1>9. \A e \in Devices \ {d} :
         Extra(e)' <= Extra(e) /\ \A y \in Slots : Costs(e, y)' => Costs(e, y)
  <2> TAKE e \in Devices \ {d}
  <2>1. \A y \in Slots : Serves(e, y)' <=> Serves(e, y)
    BY <1>5
  <2>2. Expects(e)' <=> Expects(e)
    BY <1>7, <2>1 DEF Expects
  <2>3. Surplus(e)' = Surplus(e)
    BY <1>7, <2>2 DEF Surplus, One
  <2>4. /\ Waiting(e) \in Nat /\ Waiting(e)' \in Nat /\ Answering(e) \in Nat
        /\ device[e].pc \in Connected => Surplus(e) \in Nat
    BY <1>0 DEF Sums
  <2>5. Waiting(e)' = Waiting(e) /\ Answering(e)' = Answering(e)
    BY <1>d, <2>4, SpawnEffect DEF One
  <2> QED
    BY <1>7, <2>1, <2>3, <2>4, <2>5, SpawnEffect, Settled
<1>10. /\ Waiting(d) \in Nat /\ Waiting(d)' \in Nat /\ Waiting(d) = Waiting(d)' + 1
       /\ Answering(d) \in Nat /\ Answering(d)' = Answering(d) + 1
       /\ device[d].pc \in Connected =>
            /\ Answers(d) \in Nat /\ Surplus(d) \in Nat /\ Surplus(d)' \in Nat
       /\ device'[d] = device[d]
  <2>1. One(d = mainClient) = 1
    BY <1>d DEF One
  <2>2. /\ Waiting(d) = Waiting(d)' + One(d = mainClient)
        /\ Answering(d)' = Answering(d) + One(d = mainClient)
    BY SpawnEffect
  <2> QED
    BY <1>0, <1>7, <2>1, <2>2 DEF Sums
<1>11. CASE device[d].pc = "login"
  <2>1. Extra(d)' = Extra(d)
    BY <1>10, <1>11 DEF Extra, Less
  <2>2. ASSUME NEW y \in Slots, Costs(d, y)'
        PROVE  Costs(d, y)
    <3>1. ~Announced(d, y)' /\ Serves(d, y)'
      BY <1>10, <1>11, <2>2 DEF Costs
    <3>2. Announced(d, x)'
      BY <1>d, <1>x, SpawnEffect DEF Announced
    <3>3. Serves(d, y) /\ ~Announced(d, y)
      BY <1>0, <1>5, <3>1, <3>2, SpawnEffect
    <3>4. Waiting(d) + Answering(d) > 0
      BY <1>10
    <3> QED
      BY <1>11, <3>3, <3>4 DEF Costs, Connected
  <2>3. \A e \in Devices : Extra(e)' <= Extra(e) /\ \A y \in Slots : Costs(e, y)' => Costs(e, y)
    <3>1. Extra(d)' <= Extra(d)
      BY <1>0, <2>1 DEF Sums
    <3> QED
      BY <1>9, <2>2, <3>1
  <2> QED
    BY <1>0, <1>8, <2>3, DebtSettled
<1>12. CASE device[d].pc # "login"
  <2>1. ASSUME NEW y \in Slots, Costs(d, y)'
        PROVE  Costs(d, y) \/ (y = x /\ (device[d].pc \in Connected => PortOf(x) # device[d].port))
    BY <1>0, <1>5, <1>10, <1>12, <2>1 DEF Costs
  <2>2. CASE device[d].pc \in Connected /\ PortOf(x) = device[d].port
    <3>1. Surplus(d)' <= Surplus(d) + 1
      <4>1. One(Expects(d)) \in {0, 1} /\ One(Expects(d)') \in {0, 1}
        BY DEF One
      <4> QED
        BY <1>0, <1>7, <1>10, <2>2, <4>1 DEF Surplus, Less
    <3>2. Extra(d)' <= Extra(d)
      BY <1>10, <1>12, <2>2, <3>1 DEF Extra
    <3>3. \A e \in Devices : Extra(e)' <= Extra(e) /\ \A y \in Slots : Costs(e, y)' => Costs(e, y)
      BY <1>9, <2>1, <2>2, <3>2
    <3> QED
      BY <1>0, <1>8, <3>3, DebtSettled
  <2>3. CASE ~(device[d].pc \in Connected /\ PortOf(x) = device[d].port)
    <3>1. device[d].pc \in Connected => Surplus(d)' = Surplus(d)
      <4>1. ASSUME device[d].pc \in Connected
            PROVE  Expects(d)' <=> Expects(d)
        BY <1>0, <1>5, <1>7, <2>3, <4>1 DEF Expects
      <4> QED
        BY <1>0, <1>7, <4>1 DEF Surplus, One
    <3>2. Extra(d)' + 1 = Extra(d)
      BY <1>10, <1>12, <3>1 DEF Extra
    <3>3. LostSlots' \subseteq LostSlots \cup {x}
      BY <1>8, <1>9, <2>1 DEF LostSlots
    <3>4. Cardinality(LostSlots') <= Cardinality(LostSlots) + 1
      BY <1>0, <3>3, OneMoreSlot DEF LostSlots
    <3>5. Cardinality(LostSlots) \in Nat /\ Cardinality(LostSlots') \in Nat
      BY SlotSets DEF LostSlots
    <3>6. Blame' = Blame /\ Blame \in Nat /\ Extra(d)' \in Nat
      BY <1>0 DEF Sums, Blame
    <3>7. Cardinality(LostSlots') + Extra(d)' + Blame <= Cardinality(LostSlots) + Extra(d) + Blame'
      BY <3>2, <3>4, <3>5, <3>6
    <3> QED
      BY <1>0, <1>9, <3>7, DebtMoved
  <2> QED
    BY <2>2, <2>3
<1> QED
  BY <1>11, <1>12

LEMMA MainDebt ==
  ASSUME Sound, Sound', DebtInv, NetMain
  PROVE  DebtInv'
<1>1. CASE NetSpawn
  BY <1>1, NotCreatedDebt, CreatedDebt
<1> QED
  BY <1>1, ReceivedDebt, RepliedDebt, LookedUpDebt DEF NetMain

-----------------------------------------------------------------------------
(* Devices *)

(* What does not depend on devices and sockets.                             *)
LEMMA SameThreads ==
  ASSUME UNCHANGED <<vars, peers>>
  PROVE  /\ UNCHANGED <<main, thread, mainClient, client, owner, session_active>>
         /\ \A x, t : SlotOf(t, x[1], x[2])' <=> SlotOf(t, x[1], x[2])
         /\ \A e, x : Serves(e, x)' <=> Serves(e, x)
         /\ \A e : Listing(e)' = Listing(e)
         /\ \A x : Wasted(x)' <=> Wasted(x)
<1>1. UNCHANGED <<main, thread, mainClient, client, owner, session_active>>
  BY DEF vars, table, peers
<1>2. \A x, t : SlotOf(t, x[1], x[2])' <=> SlotOf(t, x[1], x[2])
  BY <1>1 DEF SlotOf, Owns
<1>3. \A e, x : Serves(e, x)' <=> Serves(e, x)
  BY <1>1, <1>2 DEF Serves
<1>4. \A e : Listing(e)' = Listing(e)
  BY <1>1, <1>2 DEF Listing, ListsFor
<1>5. \A x : Wasted(x)' <=> Wasted(x)
  BY <1>1, <1>2 DEF Wasted
<1> QED
  BY <1>1, <1>2, <1>3, <1>4, <1>5

LEMMA TimesNone ==
  ASSUME NEW q, NEW S, \A i \in 1 .. Len(q) : q[i] \notin S
  PROVE  Times(q, S) = 0
<1>1. Places(q, S) = {}
  BY DEF Places
<1> QED
  BY <1>1, FS_EmptySet DEF Times

LEMMA TimesSome ==
  ASSUME NEW T, NEW q \in Seq(T), NEW S, NEW i \in 1 .. Len(q), q[i] \in S
  PROVE  Times(q, S) >= 1
<1>1. Times(q, S) \in Nat /\ IsFiniteSet(Places(q, S))
  BY TimesTyped
<1>2. Places(q, S) # {}
  BY DEF Places
<1>3. Times(q, S) # 0
  BY <1>1, <1>2, FS_EmptySet DEF Times
<1> QED
  BY <1>1, <1>3

LEMMA AtMostOneSlot ==
  ASSUME NEW B \in SUBSET Slots, \A x, y \in B : x = y
  PROVE  Cardinality(B) <= 1
<1>1. CASE B = {}
  BY <1>1, FS_EmptySet
<1>2. CASE B # {}
  <2>1. PICK x \in B : TRUE
    BY <1>2
  <2>2. B = {x}
    BY <2>1
  <2> QED
    BY <2>2, FS_Singleton
<1> QED
  BY <1>1, <1>2

LEMMA PortsDiffer ==
  /\ \A x, y \in Slots : PortOf(x) = PortOf(y) => x = y
  /\ \A x \in Slots : PortOf(x) \in Nat /\ PortOf(x) # NACK /\ PortOf(x) \in SessionPorts
<1>1. \A x, y \in Slots : PortOf(x) = PortOf(y) => x = y
  BY PortInjective DEF PortOf, Slots
<1>2. ASSUME NEW x \in Slots
      PROVE  PortOf(x) \in Nat /\ PortOf(x) # NACK /\ PortOf(x) \in SessionPorts
  <2>1. x[1] \in ClientIds /\ x[2] \in SlotIds
    BY DEF Slots
  <2>2. Port(x[1], x[2]) \in Nat /\ Port(x[1], x[2]) # 0
    BY <2>1, SessionsAssumption DEF Port, ClientIds, SlotIds, MAXSESSIONS
  <2> QED
    BY <2>1, <2>2 DEF PortOf, NACK, SessionPorts
<1> QED
  BY <1>1, <1>2

(* A device answers for the slots that its step loses.                      *)
LEMMA DebtPaid ==
  ASSUME Sound, Sound', DebtInv, UNCHANGED <<vars, peers>>, NEW d \in Devices,
         \A e \in Devices \ {d} :
            Extra(e)' <= Extra(e) /\ \A x \in Slots : Costs(e, x)' => Costs(e, x),
         NEW B \in SUBSET Slots, \A x \in Slots : Costs(d, x)' => Costs(d, x) \/ x \in B,
         Cardinality(B) + Extra(d)' + Blame <= Extra(d) + Blame'
  PROVE  DebtInv'
<1>1. Sums /\ Sums'
  BY SumsTypedBoth
<1>2. LostSlots \in SUBSET Slots /\ LostSlots' \in SUBSET Slots
  BY DEF LostSlots
<1>3. LostSlots' \subseteq LostSlots \cup B
  <2> SUFFICES ASSUME NEW x \in Slots, Wasted(x)' \/ \E e \in Devices : Costs(e, x)'
               PROVE  Wasted(x) \/ (\E e \in Devices : Costs(e, x)) \/ x \in B
    BY DEF LostSlots
  <2>1. CASE Wasted(x)'
    BY <2>1, SameThreads
  <2>2. ASSUME NEW e \in Devices, Costs(e, x)'
        PROVE  Costs(e, x) \/ x \in B
    BY <2>2
  <2> QED
    BY <2>1, <2>2
<1>4. Cardinality(LostSlots') <= Cardinality(LostSlots) + Cardinality(B)
  BY <1>2, <1>3, SlotsGrow
<1>5. /\ Cardinality(LostSlots) \in Nat /\ Cardinality(LostSlots') \in Nat
      /\ Cardinality(B) \in Nat
  BY <1>2, SlotSets
<1>6. Extra(d) \in Nat /\ Extra(d)' \in Nat /\ Blame \in Nat /\ Blame' \in Nat
  BY <1>1 DEF Sums
<1>7. Cardinality(LostSlots') + Extra(d)' + Blame <= Cardinality(LostSlots) + Extra(d) + Blame'
  BY <1>4, <1>5, <1>6
<1> QED
  BY <1>7, DebtMoved

(* The other devices: their packets are where they were.                    *)
LEMMA OthersDebt ==
  ASSUME Sound, Sound', UNCHANGED <<vars, peers>>, NEW e \in Devices,
         /\ device'[e] = device[e] /\ loginReplies'[e] = loginReplies[e]
         /\ replies'[e] = replies[e] /\ Times(mainQueue', {e}) = Times(mainQueue, {e}),
         device[e].pc \in Connected =>
            /\ Times(queue'[device[e].port], From(e)) = Times(queue[device[e].port], From(e))
            /\ Closing(e) => Closing(e)'
  PROVE  Extra(e)' <= Extra(e) /\ \A x \in Slots : Costs(e, x)' => Costs(e, x)
<1>1. Sums /\ Sums'
  BY SumsTypedBoth
<1>2. /\ Waiting(e)' = Waiting(e) /\ Answering(e)' = Answering(e)
      /\ \A x \in Slots : Announced(e, x)' <=> Announced(e, x)
      /\ \A x \in Slots : Serves(e, x)' <=> Serves(e, x)
  BY SameThreads DEF Waiting, Answering, Announced, One
<1>3. ASSUME device[e].pc \in Connected
      PROVE  Surplus(e)' <= Surplus(e)
  <2>1. Answers(e)' = Answers(e)
    BY <1>3, SameThreads DEF Answers
  <2>2. Expects(e) => Expects(e)'
    BY <1>2, <1>3 DEF Expects
  <2>3. Answers(e) \in Nat /\ Answers(e)' \in Nat
    BY <1>1, <1>3, <2>1 DEF Sums
  <2>4. Answers(e)' <= Answers(e)
    BY <2>1, <2>3
  <2> QED
    BY <2>2, <2>3, <2>4, LessExpected DEF Surplus
<1>4. Waiting(e) \in Nat
  BY <1>1 DEF Sums
<1> QED
  BY <1>2, <1>3, <1>4, Settled

LEMMA OtherDevices ==
  ASSUME Sound, Sound', NEW d \in Devices, Device(d) \/ Vanish(d)
  PROVE  \A e \in Devices \ {d} :
            Extra(e)' <= Extra(e) /\ \A x \in Slots : Costs(e, x)' => Costs(e, x)
<1> TAKE e \in Devices \ {d}
<1>0. /\ mainQueue \in Seq(Devices) /\ queue \in [SessionPorts -> Seq(Messages)]
      /\ device[e].pc \in Connected => device[e].port \in SessionPorts
  BY DEF Sound, NetTypeOK, TraceInv, PortTrace
<1>1. /\ UNCHANGED <<vars, peers>> /\ device'[e] = device[e]
      /\ loginReplies'[e] = loginReplies[e] /\ replies'[e] = replies[e]
  BY DeviceEffect DEF Sound
<1>2. Times(mainQueue', {e}) = Times(mainQueue, {e})
  <2>1. UNCHANGED mainQueue \/ mainQueue' = Append(mainQueue, d)
    BY DEF Device, Login, LoginReply, SendLogin, TakeAck, Exit, Ask, Vanish
  <2>2. ASSUME mainQueue' = Append(mainQueue, d)
        PROVE  Times(mainQueue', {e}) = Times(mainQueue, {e})
    <3>1. Times(mainQueue', {e}) = Times(mainQueue, {e}) + One(d \in {e})
      BY <1>0, <2>2, TimesAppend
    <3>2. One(d \in {e}) = 0 /\ Times(mainQueue, {e}) \in Nat
      BY <1>0, TimesTyped DEF One
    <3> QED
      BY <3>1, <3>2
  <2> QED
    BY <2>1, <2>2
<1>3. ASSUME device[e].pc \in Connected
      PROVE  /\ Times(queue'[device[e].port], From(e)) = Times(queue[device[e].port], From(e))
             /\ Closing(e) => Closing(e)'
  <2>1. PICK op \in {"DELETE", "LIST", "CLOSE"} :
           \/ UNCHANGED queue
           \/ queue' = [queue EXCEPT ![device[d].port] = Append(@, [op |-> op, from |-> d])]
    BY DEF Device, Login, LoginReply, TakeAck, Exit, Ask, Vanish, SendRequest
  <2>2. PICK m \in Messages : m = [op |-> op, from |-> d] /\ m.from = d
    <3> DEFINE n == [op |-> op, from |-> d]
    <3>1. n \in Messages /\ n.from = d
      BY DEF Messages
    <3> QED
      BY <3>1
  <2>3. m \notin From(e)
    BY <2>2 DEF From
  <2>4. PICK q \in Seq(Messages) : q = queue[device[e].port]
    BY <1>0, <1>3
  <2>5. queue'[device[e].port] = q \/ queue'[device[e].port] = Append(q, m)
    BY <1>0, <1>3, <2>1, <2>2, <2>4
  <2>6. Times(queue'[device[e].port], From(e)) = Times(q, From(e))
    <3>1. Times(Append(q, m), From(e)) = Times(q, From(e)) + One(m \in From(e))
      BY TimesAppend
    <3>2. One(m \in From(e)) = 0 /\ Times(q, From(e)) \in Nat
      BY <2>3, TimesTyped DEF One
    <3>3. Times(Append(q, m), From(e)) = Times(q, From(e))
      BY <3>1, <3>2
    <3> QED
      BY <2>5, <3>3, Zenon
  <2>7. ASSUME Closing(e) PROVE Closing(e)'
    <3>1. PICK i \in 1 .. Len(q) : q[i] = [op |-> "CLOSE", from |-> e]
      BY <2>4, <2>7 DEF Closing
    <3>2. i \in 1 .. Len(queue'[device[e].port]) /\ queue'[device[e].port][i] = q[i]
      BY <2>5
    <3> QED
      BY <1>1, <3>1, <3>2 DEF Closing
  <2> QED
    BY <2>4, <2>6, <2>7
<1> QED
  BY <1>1, <1>2, <1>3, OthersDebt

LEMMA LoginDebt ==
  ASSUME Sound, Sound', DebtInv, NEW d \in Devices, Login(d)
  PROVE  DebtInv'
<1>1. Sums /\ Sums' /\ UNCHANGED <<vars, peers>> /\ device[d].pc = "start"
  BY SumsTypedBoth DEF Login
<1>2. /\ device'[d].pc = "login" /\ UNCHANGED <<loginReplies, faults>>
      /\ mainQueue' = Append(mainQueue, d) /\ mainQueue \in Seq(Devices)
  BY DEF Sound, NetTypeOK, Login, SendLogin
<1>3. loginReplies[d] = <<>> /\ (main.pc # "recv" => mainClient # d)
  BY <1>1 DEF Sound, TraceInv, StartTrace
<1>4. Answering(d)' = 0
  BY <1>1, <1>2, <1>3, SameThreads DEF Answering, One
<1>5. Waiting(d)' = Waiting(d) + 1
  <2>1. Times(mainQueue', {d}) = Times(mainQueue, {d}) + One(d \in {d})
    BY <1>2, TimesAppend
  <2>2. PICK a \in {0, 1} :
           /\ a = One(mainClient = d /\ main.pc \notin {"recv", "ack", "nack"})
           /\ a = One(mainClient = d /\ main.pc \notin {"recv", "ack", "nack"})'
    BY <1>1, SameThreads DEF One
  <2>3. One(d \in {d}) = 1 /\ Times(mainQueue, {d}) \in Nat
    BY <1>2, TimesTyped DEF One
  <2>4. Waiting(d) = Times(mainQueue, {d}) + a /\ Waiting(d)' = Times(mainQueue', {d}) + a
    BY <2>2 DEF Waiting
  <2> QED
    BY <2>1, <2>2, <2>3, <2>4
<1>6. Waiting(d) \in Nat /\ Extra(d) = Waiting(d) + 0 /\ Extra(d)' = Less(Waiting(d)' + Answering(d)', 1)
  BY <1>1, <1>2 DEF Sums, Extra, Connected
<1>7. Extra(d)' = Extra(d) /\ Extra(d) \in Nat /\ Blame' = Blame /\ Blame \in Nat
  BY <1>1, <1>2, <1>4, <1>5, <1>6 DEF Less, Sums, Blame
<1>8. \A x \in Slots : Costs(d, x)' => Costs(d, x) \/ x \in {}
  BY <1>1, SameThreads DEF Costs, Connected
<1>9. {} \in SUBSET Slots /\ Cardinality({}) + Extra(d)' + Blame <= Extra(d) + Blame'
  BY <1>7, FS_EmptySet
<1>10. \A e \in Devices \ {d} :
          Extra(e)' <= Extra(e) /\ \A x \in Slots : Costs(e, x)' => Costs(e, x)
  BY OtherDevices DEF Device
<1> QED
  BY <1>1, <1>8, <1>9, <1>10, DebtPaid

(* A NACK, and the LOGIN that follows it.                                   *)
LEMMA RefusedDebt ==
  ASSUME Sound, Sound', DebtInv, NEW d \in Devices, LoginReply(d),
         Head(loginReplies[d]) = NACK
  PROVE  DebtInv'
<1>1. Sums /\ Sums' /\ UNCHANGED <<vars, peers>> /\ device[d].pc = "login"
  BY SumsTypedBoth DEF LoginReply
<1> DEFINE q == loginReplies[d]
<1>2. /\ UNCHANGED <<device, faults>> /\ loginReplies'[d] = Tail(q)
      /\ mainQueue' = Append(mainQueue, d) /\ mainQueue \in Seq(Devices)
      /\ q \in Seq(SessionPorts \cup {NACK}) /\ q # <<>>
  BY DEF Sound, NetTypeOK, LoginReply, SendLogin
<1>3. /\ Len(Tail(q)) = Len(q) - 1 /\ Len(q) \in Nat /\ q[1] = NACK
      /\ \A i \in 1 .. Len(q) : i = 1 \/ (i - 1 \in 1 .. Len(Tail(q)) /\ Tail(q)[i - 1] = q[i])
  <2>1. \A i \in 1 .. Len(Tail(q)) : Tail(q)[i] = q[i + 1]
    BY <1>2, HeadTail
  <2>2. Len(Tail(q)) = Len(q) - 1 /\ Len(q) \in Nat /\ q[1] = NACK
    BY <1>2, HeadTail
  <2>3. \A i \in 1 .. Len(q) : i = 1 \/ (i - 1 \in 1 .. Len(Tail(q)) /\ (i - 1) + 1 = i)
    BY <2>2
  <2> QED
    BY <2>1, <2>2, <2>3
<1>4. Waiting(d)' + Answering(d)' = Waiting(d) + Answering(d)
  <2>1. Times(mainQueue', {d}) = Times(mainQueue, {d}) + One(d \in {d})
    BY <1>2, TimesAppend
  <2>2. PICK a \in {0, 1} :
           /\ a = One(mainClient = d /\ main.pc \notin {"recv", "ack", "nack"})
           /\ a = One(mainClient = d /\ main.pc \notin {"recv", "ack", "nack"})'
    BY <1>1, SameThreads DEF One
  <2>3. PICK b \in {0, 1} :
           /\ b = One(mainClient = d /\ main.pc \in {"ack", "nack"})
           /\ b = One(mainClient = d /\ main.pc \in {"ack", "nack"})'
    BY <1>1, SameThreads DEF One
  <2>4. One(d \in {d}) = 1 /\ Times(mainQueue, {d}) \in Nat
    BY <1>2, TimesTyped DEF One
  <2>5. Waiting(d) = Times(mainQueue, {d}) + a /\ Waiting(d)' = Times(mainQueue', {d}) + a
    BY <2>2 DEF Waiting
  <2>6. Answering(d) = b + Len(q) /\ Answering(d)' = b + Len(Tail(q))
    BY <1>2, <2>3 DEF Answering
  <2>7. Waiting(d)' = Waiting(d) + 1 /\ Waiting(d) \in Nat
    BY <2>1, <2>2, <2>4, <2>5
  <2>8. Answering(d) = Answering(d)' + 1 /\ Answering(d)' \in Nat
    <3> HIDE DEF q
    <3>1. PICK m \in Nat : m = Len(q)
      BY <1>3
    <3>2. m - 1 \in Nat /\ Len(Tail(q)) = m - 1
      BY <1>1, <1>2, <1>3, <3>1
    <3> QED
      BY <2>3, <2>6, <3>1, <3>2
  <2> QED
    BY <2>7, <2>8
<1>5. ASSUME NEW x \in Slots, Announced(d, x)
      PROVE  Announced(d, x)'
  <2>1. CASE main.pc = "ack" /\ mainClient = d /\ main.index = x[1] /\ main.s = x[2]
    BY <1>1, <2>1, SameThreads DEF Announced
  <2>2. ASSUME NEW i \in 1 .. Len(q), q[i] = PortOf(x)
        PROVE  Announced(d, x)'
    <3>1. i # 1
      BY <1>3, <2>2, PortsDiffer
    <3>2. i - 1 \in 1 .. Len(Tail(q)) /\ Tail(q)[i - 1] = PortOf(x)
      BY <1>3, <2>2, <3>1
    <3> QED
      BY <1>2, <3>2 DEF Announced
  <2> QED
    BY <1>5, <2>1, <2>2 DEF Announced
<1>6. Extra(d)' <= Extra(d) /\ \A x \in Slots : Costs(d, x)' => Costs(d, x)
  <2>1. \A x \in Slots : Serves(d, x)' => Serves(d, x)
    BY <1>1, SameThreads
  <2>2. device'[d] = device[d] /\ device[d].pc \notin Connected
    BY <1>1, <1>2 DEF Connected
  <2> QED
    BY <1>1, <1>4, <1>5, <2>1, <2>2, Settled
<1>7. \A e \in Devices \ {d} :
          Extra(e)' <= Extra(e) /\ \A x \in Slots : Costs(e, x)' => Costs(e, x)
  BY OtherDevices DEF Device
<1>8. \A e \in Devices :
          Extra(e)' <= Extra(e) /\ \A x \in Slots : Costs(e, x)' => Costs(e, x)
  BY <1>6, <1>7
<1>9. \A x \in Slots : Wasted(x)' => Wasted(x)
  BY <1>1, SameThreads
<1> QED
  BY <1>2, <1>8, <1>9, DebtSettled

(* The slots that answers name, at most one each.                           *)
LEMMA AnnouncedSlots ==
  ASSUME Sound, NEW d \in Devices, NEW q \in Seq(SessionPorts \cup {NACK}),
         NEW B \in SUBSET Slots,
         \A x \in B : \/ main.pc = "ack" /\ mainClient = d /\ main.index = x[1] /\ main.s = x[2]
                      \/ \E i \in 1 .. Len(q) : q[i] = PortOf(x)
  PROVE  Cardinality(B) <= Len(q) + One(mainClient = d /\ main.pc \in {"ack", "nack"})
<1> DEFINE C == {x \in B : \E i \in 1 .. Len(q) : q[i] = PortOf(x)}
           D == {x \in B : main.pc = "ack" /\ mainClient = d /\ main.index = x[1] /\ main.s = x[2]}
<1>1. C \in SUBSET Slots /\ D \in SUBSET Slots /\ B \subseteq C \cup D
  OBVIOUS
<1>2. Cardinality(C) <= Len(q)
  BY <1>1, NamedSlots
<1>3. Cardinality(D) <= One(mainClient = d /\ main.pc \in {"ack", "nack"})
  <2>1. CASE main.pc = "ack" /\ mainClient = d
    <3>1. \A x, y \in D : x = y
      BY <1>1 DEF Slots
    <3>2. Cardinality(D) <= 1
      BY <1>1, <3>1, AtMostOneSlot
    <3> QED
      BY <2>1, <3>2 DEF One
  <2>2. CASE ~(main.pc = "ack" /\ mainClient = d)
    <3>1. D = {}
      BY <2>2
    <3>2. Cardinality(D) = 0
      BY <3>1, FS_EmptySet
    <3>3. One(mainClient = d /\ main.pc \in {"ack", "nack"}) \in {0, 1}
      BY DEF One
    <3> QED
      BY <3>2, <3>3
  <2> QED
    BY <2>1, <2>2
<1>4. /\ Cardinality(B) <= Cardinality(C) + Cardinality(D)
      /\ Cardinality(B) \in Nat /\ Cardinality(C) \in Nat /\ Cardinality(D) \in Nat
  BY <1>1, SlotsGrow, SlotSets
<1>5. Len(q) \in Nat /\ One(mainClient = d /\ main.pc \in {"ack", "nack"}) \in Nat
  BY DEF One
<1> HIDE DEF C, D
<1> QED
  BY <1>2, <1>3, <1>4, <1>5

(* An ACK: the device takes the slot it names, and the other answers are    *)
(* never read.                                                              *)
LEMMA AdmittedDebt ==
  ASSUME Sound, Sound', DebtInv, NEW d \in Devices, LoginReply(d),
         Head(loginReplies[d]) # NACK
  PROVE  DebtInv'
<1>1. Sums /\ Sums' /\ UNCHANGED <<vars, peers>> /\ device[d].pc = "login"
  BY SumsTypedBoth DEF LoginReply
<1>q. PICK q \in Seq(SessionPorts \cup {NACK}) : q = loginReplies[d] /\ q # <<>>
  BY DEF Sound, NetTypeOK, LoginReply
<1>2. /\ UNCHANGED <<mainQueue, queue, replies, faults>>
      /\ device'[d].pc = "in" /\ device'[d].port = Head(q)
  <2>1. /\ UNCHANGED <<mainQueue, queue, replies, faults>>
        /\ device' = [device EXCEPT ![d] =
                        [@ EXCEPT !.pc = "in", !.port = Head(loginReplies[d])]]
    BY DEF LoginReply
  <2>2. device \in [Devices -> [pc : {"start", "login", "in", "asked", "closing",
                                     "closed", "exited"},
                               port : SessionPorts \cup {0}, asked : 0 .. MaxRequests]]
    BY DEF Sound, NetTypeOK
  <2> QED
    BY <1>q, <2>1, <2>2
<1>3. /\ Len(Tail(q)) = Len(q) - 1 /\ Len(q) \in Nat /\ Len(q) >= 1 /\ q[1] = Head(q)
      /\ Tail(q) \in Seq(SessionPorts \cup {NACK})
      /\ \A i \in 1 .. Len(q) : i = 1 \/ (i - 1 \in 1 .. Len(Tail(q)) /\ Tail(q)[i - 1] = q[i])
  <2>1. \A i \in 1 .. Len(Tail(q)) : Tail(q)[i] = q[i + 1]
    BY <1>q, HeadTail
  <2>2. /\ Len(Tail(q)) = Len(q) - 1 /\ Len(q) \in Nat /\ Len(q) >= 1 /\ q[1] = Head(q)
        /\ Tail(q) \in Seq(SessionPorts \cup {NACK})
    BY <1>q, HeadTail
  <2>3. \A i \in 1 .. Len(q) : i = 1 \/ (i - 1 \in 1 .. Len(Tail(q)) /\ (i - 1) + 1 = i)
    BY <2>2
  <2> QED
    BY <2>1, <2>2, <2>3
<1>b. PICK b \in {0, 1} : b = One(mainClient = d /\ main.pc \in {"ack", "nack"})
  BY DEF One
<1>4. Answering(d) = b + Len(q) /\ Waiting(d)' = Waiting(d) /\ Waiting(d) \in Nat
  BY <1>1, <1>2, <1>q, <1>b, SameThreads DEF Answering, Waiting, One, Sums
<1>5. Extra(d) = Waiting(d) + b + Len(q) - 1
  BY <1>1, <1>3, <1>4, <1>b DEF Extra, Less
<1>6. Surplus(d)' = 0
  <2>1. replies'[d] = 0
    BY <1>1, <1>2 DEF Sound, TraceInv, AnswerTrace
  <2>2. Listing(d)' = {}
    <3>1. \A t \in Threads, x \in Slots : SlotOf(t, x[1], x[2]) => ~ListsFor(t, d)
      BY <1>1 DEF Sound, TraceInv, AnswerTrace, SlotOf, Owns
    <3>2. Listing(d) = {}
      BY <3>1 DEF Listing
    <3> QED
      BY <1>1, <3>2, SameThreads
  <2>3. Times(queue'[device'[d].port], From(d)) = 0
    <3>1. device'[d].port \in SessionPorts
      BY <1>2 DEF Sound, TraceInv, PortTrace, Connected
    <3>2. \A i \in 1 .. Len(queue[device'[d].port]) : queue[device'[d].port][i].from # d
      BY <1>1, <3>1 DEF Sound, TraceInv, PacketTrace, Alive, Connected
    <3>3. Times(queue[device'[d].port], From(d)) = 0
      BY <3>2, TimesNone DEF From
    <3> QED
      BY <1>2, <3>3
  <2>4. Answers(d)' = 0
    BY <2>1, <2>2, <2>3, FS_EmptySet DEF Answers
  <2> QED
    BY <2>4 DEF Surplus, Less, One
<1>7. Extra(d)' = Waiting(d)
  BY <1>2, <1>4, <1>6 DEF Extra, Connected
<1> DEFINE B == {x \in Slots : Announced(d, x) /\ PortOf(x) # Head(q)}
<1>8. Cardinality(B) <= Len(q) - 1 + b /\ B \in SUBSET Slots
  <2>1. ASSUME NEW x \in B
        PROVE  \/ main.pc = "ack" /\ mainClient = d /\ main.index = x[1] /\ main.s = x[2]
               \/ \E i \in 1 .. Len(Tail(q)) : Tail(q)[i] = PortOf(x)
    <3>1. ASSUME NEW i \in 1 .. Len(q), q[i] = PortOf(x)
          PROVE  \E j \in 1 .. Len(Tail(q)) : Tail(q)[j] = PortOf(x)
      BY <1>3, <3>1
    <3> QED
      BY <1>q, <3>1 DEF Announced
  <2>2. B \in SUBSET Slots
    OBVIOUS
  <2> HIDE DEF B
  <2>3. Cardinality(B) <= Len(Tail(q)) + One(mainClient = d /\ main.pc \in {"ack", "nack"})
    BY <1>3, <2>1, <2>2, AnnouncedSlots
  <2> QED
    BY <1>3, <1>b, <2>2, <2>3
<1>9. \A x \in Slots : Costs(d, x)' => Costs(d, x) \/ x \in B
  <2> SUFFICES ASSUME NEW x \in Slots, Costs(d, x)', ~Announced(d, x)
               PROVE  Costs(d, x)
    BY <1>2 DEF Costs, Connected
  <2>1. Serves(d, x)
    BY <1>1, SameThreads DEF Costs
  <2>2. Waiting(d) + Answering(d) > 0
    BY <1>3, <1>4, <1>b
  <2> QED
    BY <1>1, <2>1, <2>2 DEF Costs, Connected
<1> HIDE DEF B
<1>10. Cardinality(B) + Extra(d)' + Blame <= Extra(d) + Blame'
  <2>1. Cardinality(B) \in Nat /\ Blame \in Nat /\ Blame' = Blame
    BY <1>1, <1>2, <1>8, SlotSets DEF Sums, Blame
  <2> QED
    BY <1>3, <1>4, <1>5, <1>7, <1>8, <1>b, <2>1
<1>11. \A e \in Devices \ {d} :
          Extra(e)' <= Extra(e) /\ \A x \in Slots : Costs(e, x)' => Costs(e, x)
  BY OtherDevices DEF Device
<1> QED
  BY <1>1, <1>8, <1>9, <1>10, <1>11, DebtPaid

(* One request more, and it is the one whose answer the device waits for.   *)
LEMMA AskedDebt ==
  ASSUME Sound, Sound', DebtInv, NEW d \in Devices,
         NEW op \in {"DELETE", "LIST", "CLOSE"}, Ask(d, op)
  PROVE  DebtInv'
<1>1. Sums /\ Sums' /\ UNCHANGED <<vars, peers>> /\ device[d].pc = "in" /\ Device(d)
  BY SumsTypedBoth DEF Ask, Device
<1>2. /\ UNCHANGED <<mainQueue, loginReplies, replies>>
      /\ device'[d].pc = IF op = "CLOSE" THEN "closing" ELSE "asked"
      /\ device'[d].port = device[d].port
      /\ SendRequest(d, op)
  BY DEF Sound, NetTypeOK, Ask
<1>3. /\ device[d].port \in SessionPorts /\ queue \in [SessionPorts -> Seq(Messages)]
      /\ replies[d] \in Nat
  BY <1>1 DEF Sound, TraceInv, PortTrace, Connected, NetTypeOK
<1>q. PICK q \in Seq(Messages), p \in SessionPorts : p = device[d].port /\ q = queue[p]
  BY <1>3
<1>m. PICK m \in Messages : m = [op |-> op, from |-> d] /\ m \in From(d)
  <2> DEFINE n == [op |-> op, from |-> d]
  <2>1. n \in Messages /\ n \in From(d)
    BY DEF Messages, From
  <2> QED
    BY <2>1
<1>n. PICK n \in Nat : /\ Times(q, From(d)) = n /\ Times(Append(q, m), From(d)) = n + 1
  <2>1. Times(Append(q, m), From(d)) = Times(q, From(d)) + One(m \in From(d))
    BY TimesAppend
  <2>2. One(m \in From(d)) = 1 /\ Times(q, From(d)) \in Nat
    BY <1>m, TimesTyped DEF One
  <2> QED
    BY <2>1, <2>2
<1>c. PICK c \in Nat : c = Cardinality(Listing(d))
  BY SlotSets DEF Listing
<1>a. PICK a \in Nat : a = replies[d] + c
  BY <1>3
<1>4. Answers(d) = a + n
  BY <1>3, <1>c, <1>q, <1>n, <1>a DEF Answers
<1>5. Answers(d)' = replies[d] + Times(queue'[p], From(d)) + c
  BY <1>1, <1>2, <1>c, <1>q, SameThreads DEF Answers
<1>6. Surplus(d) = a + n
  <2>1. ~Expects(d)
    BY <1>1 DEF Expects
  <2> QED
    BY <1>4, <2>1 DEF Surplus, Less, One
<1>7. Surplus(d)' <= Surplus(d)
  <2>1. CASE p \in boundPorts
    <3>1. queue'[p] = Append(q, m)
      BY <1>2, <1>3, <1>q, <1>m, <2>1 DEF SendRequest
    <3>2. Answers(d)' = a + n + 1
      <4>1. Times(queue'[p], From(d)) = n + 1
        BY <1>n, <3>1, Zenon
      <4>2. PICK r \in Nat : r = replies[d]
        BY <1>3
      <4>3. Answers(d)' = r + (n + 1) + c
        BY <1>5, <4>1, <4>2
      <4>4. a = r + c
        BY <1>a, <4>2
      <4>5. r + (n + 1) + c = a + n + 1
        BY <4>4
      <4> QED
        BY <4>3, <4>5
    <3>3. Expects(d)'
      <4>1. CASE op = "CLOSE"
        <5>1. Len(Append(q, m)) = Len(q) + 1 /\ Append(q, m)[Len(q) + 1] = m /\ Len(q) \in Nat
          OBVIOUS
        <5>2. Len(q) + 1 \in 1 .. Len(queue'[p]) /\ queue'[p][Len(q) + 1] = [op |-> "CLOSE", from |-> d]
          BY <1>m, <3>1, <4>1, <5>1
        <5>3. Closing(d)'
          BY <1>2, <1>q, <5>2 DEF Closing
        <5> QED
          BY <1>2, <4>1, <5>3 DEF Expects
      <4>2. CASE op # "CLOSE"
        BY <1>2, <4>2 DEF Expects
      <4> QED
        BY <4>1, <4>2
    <3> QED
      BY <1>6, <3>2, <3>3 DEF Surplus, Less, One
  <2>2. CASE p \notin boundPorts
    <3>1. queue'[p] = q
      BY <1>2, <1>q, <2>2 DEF SendRequest
    <3>2. Answers(d)' = a + n
      BY <1>3, <1>5, <1>a, <1>n, <3>1
    <3> QED
      BY <1>6, <3>2 DEF Surplus, Less, One
  <2> QED
    BY <2>1, <2>2
<1>8. Extra(d)' <= Extra(d)
  <2>1. /\ Waiting(d) \in Nat /\ Waiting(d)' = Waiting(d) /\ Surplus(d) \in Nat
        /\ Surplus(d)' \in Nat
    BY <1>1, <1>2, SameThreads DEF Waiting, One, Sums, Connected
  <2>2. Extra(d) = Waiting(d) + Surplus(d) /\ Extra(d)' = Waiting(d)' + Surplus(d)'
    BY <1>1, <1>2 DEF Extra, Connected
  <2> QED
    BY <1>7, <2>1, <2>2
<1>9. \A x \in Slots : Costs(d, x)' => Costs(d, x) \/ x \in {}
  BY <1>1, <1>2, SameThreads DEF Costs, Connected
<1>10. {} \in SUBSET Slots /\ Cardinality({}) + Extra(d)' + Blame <= Extra(d) + Blame'
  <2>1. Blame' = Blame
    <3>1. CASE UNCHANGED faults
      BY <3>1 DEF Blame
    <3>2. CASE Count("unbound")
      BY <1>1, <3>2, Blamed DEF Sound, Kinds, One, Sums
    <3> QED
      BY <1>2, <3>1, <3>2 DEF SendRequest
  <2>2. Extra(d) \in Nat /\ Extra(d)' \in Nat /\ Blame \in Nat /\ Cardinality({}) = 0
    BY <1>1, FS_EmptySet DEF Sums
  <2> QED
    BY <1>8, <2>1, <2>2
<1> QED
  BY <1>1, <1>9, <1>10, OtherDevices, DebtPaid

(* An answer that ends the wait; if the device then leaves a session that   *)
(* goes on, there was an answer too many.                                   *)
LEMMA AckedDebt ==
  ASSUME Sound, Sound', DebtInv, NEW d \in Devices, TakeAck(d)
  PROVE  DebtInv'
<1>1. /\ Sums /\ Sums' /\ UNCHANGED <<vars, peers>> /\ Device(d)
      /\ device[d].pc \in {"asked", "closing"}
  BY SumsTypedBoth DEF TakeAck, Device
<1>2. /\ UNCHANGED <<mainQueue, loginReplies, queue, faults>>
      /\ device'[d].pc = IF device[d].pc = "asked" THEN "in" ELSE "closed"
      /\ device'[d].port = device[d].port
      /\ replies[d] \in Nat /\ replies[d] > 0 /\ replies'[d] = replies[d] - 1
  BY DEF Sound, NetTypeOK, TakeAck
<1>3. device[d].port \in SessionPorts /\ queue[device[d].port] \in Seq(Messages)
  BY <1>1 DEF Sound, TraceInv, PortTrace, Connected, NetTypeOK
<1>n. PICK n \in Nat : n = Times(queue[device[d].port], From(d))
  BY <1>3, TimesTyped
<1>c. PICK c \in Nat : c = Cardinality(Listing(d))
  BY SlotSets DEF Listing
<1>4. /\ Answers(d) = replies[d] + n + c /\ Answers(d)' = replies[d] - 1 + n + c
  BY <1>1, <1>2, <1>n, <1>c, SameThreads DEF Answers
<1>5. /\ Waiting(d) \in Nat /\ Waiting(d)' = Waiting(d)
      /\ Extra(d) = Waiting(d) + Surplus(d) /\ Surplus(d) \in Nat
      /\ Blame' = Blame /\ Blame \in Nat
  BY <1>1, <1>2, SameThreads DEF Waiting, One, Sums, Connected, Extra, Blame
<1>6. CASE device[d].pc = "asked"
  <2>1. Surplus(d) = replies[d] - 1 + n + c
    BY <1>2, <1>4, <1>6 DEF Surplus, Less, One, Expects
  <2>2. Surplus(d)' = replies[d] - 1 + n + c
    <3>1. ~Expects(d)'
      BY <1>2, <1>6 DEF Expects
    <3> QED
      BY <1>2, <1>4, <3>1 DEF Surplus, Less, One
  <2>3. Extra(d)' = Extra(d)
    BY <1>2, <1>5, <1>6, <2>1, <2>2 DEF Extra, Connected
  <2>4. \A x \in Slots : Costs(d, x)' => Costs(d, x) \/ x \in {}
    BY <1>1, <1>2, <1>6, SameThreads DEF Costs, Connected
  <2>5. {} \in SUBSET Slots /\ Cardinality({}) + Extra(d)' + Blame <= Extra(d) + Blame'
    BY <1>5, <2>3, FS_EmptySet
  <2> QED
    BY <1>1, <2>4, <2>5, OtherDevices, DebtPaid
<1>7. CASE device[d].pc = "closing"
  <2> DEFINE B == {x \in Slots : Serves(d, x) /\ PortOf(x) = device[d].port}
  <2>1. B \in SUBSET Slots /\ \A x, y \in B : x = y
    BY PortsDiffer
  <2>2. \A x \in Slots : Costs(d, x)' => Costs(d, x) \/ x \in B
    BY <1>1, <1>7, SameThreads DEF Costs, Connected
  <2>3. Cardinality(B) <= Surplus(d)
    <3>1. CASE B = {}
      <4> HIDE DEF B
      <4>1. Cardinality(B) = 0
        BY <3>1, FS_EmptySet
      <4> QED
        BY <1>5, <4>1
    <3>2. CASE B # {} /\ ~Expects(d)
      <4>1. Surplus(d) >= 1
        BY <1>2, <1>4, <3>2 DEF Surplus, Less, One
      <4>2. Cardinality(B) <= 1
        BY <2>1, AtMostOneSlot
      <4> QED
        BY <1>5, <2>1, <4>1, <4>2, SlotSets
    <3>3. CASE B # {} /\ Expects(d)
      <4>1. Closing(d)
        BY <1>7, <3>3 DEF Expects
      <4>2. PICK i \in 1 .. Len(queue[device[d].port]) :
                   queue[device[d].port][i] \in From(d)
        <5>1. PICK i \in 1 .. Len(queue[device[d].port]) :
                     queue[device[d].port][i] = [op |-> "CLOSE", from |-> d]
          BY <4>1 DEF Closing
        <5>2. queue[device[d].port][i] \in Messages
          BY <1>3
        <5> QED
          BY <5>1, <5>2 DEF From
      <4>3. n >= 1
        BY <1>3, <1>n, <4>2, TimesSome
      <4>4. Surplus(d) >= 1
        BY <1>2, <1>4, <3>3, <4>3 DEF Surplus, Less, One
      <4>5. Cardinality(B) <= 1
        BY <2>1, AtMostOneSlot
      <4> QED
        BY <1>5, <2>1, <4>4, <4>5, SlotSets
    <3> QED
      BY <3>1, <3>2, <3>3
  <2> HIDE DEF B
  <2>4. Extra(d)' = Waiting(d)
    BY <1>2, <1>5, <1>7 DEF Extra, Connected
  <2>5. Cardinality(B) + Extra(d)' + Blame <= Extra(d) + Blame'
    <3>1. Cardinality(B) \in Nat
      BY <2>1, SlotSets
    <3> QED
      BY <1>5, <2>3, <2>4, <3>1
  <2> QED
    BY <1>1, <2>1, <2>2, <2>5, OtherDevices, DebtPaid
<1> QED
  BY <1>1, <1>6, <1>7

LEMMA ExitedDebt ==
  ASSUME Sound, Sound', DebtInv, NEW d \in Devices, Exit(d)
  PROVE  DebtInv'
<1>1. /\ Sums /\ Sums' /\ UNCHANGED <<vars, peers>> /\ Device(d)
      /\ device[d].pc = "closed" /\ UNCHANGED mainQueue
  BY SumsTypedBoth DEF Exit, Device
<1>2. device'[d].pc = "exited"
  BY DEF Sound, NetTypeOK, Exit, Gone
<1>3. Extra(d) = Waiting(d) + 0 /\ Extra(d)' = Waiting(d)' + 0
  BY <1>1, <1>2 DEF Extra, Connected
<1>4. Waiting(d)' = Waiting(d) /\ Waiting(d) \in Nat
  BY <1>1, SameThreads DEF Waiting, One, Sums
<1>5. \A x \in Slots : Costs(d, x)' => Costs(d, x) \/ x \in {}
  BY <1>1, <1>2, SameThreads DEF Costs, Connected
<1>6. Blame' = Blame /\ Blame \in Nat
  <2>1. CASE UNCHANGED faults
    BY <1>1, <2>1 DEF Blame, Sums
  <2>2. CASE Count("late")
    BY <1>1, <2>2, Blamed DEF Sound, Kinds, One, Sums
  <2> QED
    BY <2>1, <2>2 DEF Exit
<1>7. {} \in SUBSET Slots /\ Cardinality({}) + Extra(d)' + Blame <= Extra(d) + Blame'
  BY <1>3, <1>4, <1>6, FS_EmptySet
<1> QED
  BY <1>1, <1>5, <1>7, OtherDevices, DebtPaid

(* A device that vanishes leaves one slot more than it could have cost.     *)
LEMMA VanishedDebt ==
  ASSUME Sound, Sound', DebtInv, NEW d \in Devices, Vanish(d)
  PROVE  DebtInv'
<1>1. /\ Sums /\ Sums' /\ UNCHANGED <<vars, peers>>
      /\ device[d].pc \in {"login", "in", "asked", "closing"} /\ UNCHANGED mainQueue
  BY SumsTypedBoth DEF Vanish
<1>2. device'[d].pc = "exited"
  BY DEF Sound, NetTypeOK, Vanish, Gone
<1>3. Blame' = Blame + 1 /\ Blame \in Nat
  BY <1>1, Blamed DEF Vanish, Sound, Kinds, One, Sums
<1>4. Waiting(d)' = Waiting(d) /\ Waiting(d) \in Nat /\ Answering(d) \in Nat
  BY <1>1, SameThreads DEF Waiting, One, Sums
<1>5. Extra(d)' = Waiting(d)
  BY <1>2, <1>4 DEF Extra, Connected
<1>6. \A e \in Devices \ {d} :
         Extra(e)' <= Extra(e) /\ \A x \in Slots : Costs(e, x)' => Costs(e, x)
  BY OtherDevices
<1>7. \A x \in Slots : Costs(d, x)' => Serves(d, x)
  BY <1>1, SameThreads DEF Costs
(* Logging in, it may cost what is announced to it, and one slot.           *)
<1>8. CASE device[d].pc = "login"
  <2> DEFINE A == {x \in Slots : Announced(d, x)}
             L == {x \in Slots : Serves(d, x) /\ ~\E y \in Slots : Serves(d, y) /\ PortOf(y) < PortOf(x)}
  <2>1. Cardinality(A) <= Answering(d) /\ A \in SUBSET Slots /\ Cardinality(A) \in Nat
    <3>1. PICK q \in Seq(SessionPorts \cup {NACK}) : q = loginReplies[d]
      BY DEF Sound, NetTypeOK
    <3>2. A \in SUBSET Slots
      OBVIOUS
    <3>3. \A x \in A : \/ main.pc = "ack" /\ mainClient = d /\ main.index = x[1] /\ main.s = x[2]
                       \/ \E i \in 1 .. Len(q) : q[i] = PortOf(x)
      BY <3>1 DEF Announced
    <3> HIDE DEF A
    <3>4. Cardinality(A) <= Len(q) + One(mainClient = d /\ main.pc \in {"ack", "nack"})
      BY <3>2, <3>3, AnnouncedSlots
    <3>5. PICK b \in {0, 1} : b = One(mainClient = d /\ main.pc \in {"ack", "nack"})
      BY DEF One
    <3>6. Answering(d) = b + Len(q) /\ Cardinality(A) <= Len(q) + b /\ Len(q) \in Nat
      BY <3>1, <3>4, <3>5 DEF Answering
    <3>7. Cardinality(A) \in Nat
      BY <3>2, SlotSets
    <3> QED
      BY <3>2, <3>6, <3>7
  <2>2. CASE Waiting(d) + Answering(d) > 0
    <3>1. \A x \in Slots : Costs(d, x)' => Costs(d, x) \/ x \in A
      BY <1>7, <1>8, <2>2 DEF Costs, Connected
    <3> HIDE DEF A
    <3>2. Extra(d) = Waiting(d) + Answering(d) - 1
      BY <1>4, <1>8, <2>2 DEF Extra, Less
    <3>3. Cardinality(A) + Extra(d)' + Blame <= Extra(d) + Blame'
      BY <1>3, <1>4, <1>5, <2>1, <3>2
    <3> QED
      BY <1>1, <1>6, <2>1, <3>1, <3>3, DebtPaid
  <2>3. CASE ~(Waiting(d) + Answering(d) > 0)
    <3>1. Waiting(d) = 0 /\ Answering(d) = 0 /\ Extra(d) = 0
      <4>1. Waiting(d) = 0 /\ Answering(d) = 0
        BY <1>4, <2>3
      <4> QED
        BY <1>8, <4>1 DEF Extra, Less
    <3>2. A = {}
      <4> HIDE DEF A
      <4>1. Cardinality(A) = 0
        BY <2>1, <3>1
      <4> QED
        BY <2>1, <4>1, SlotSets, FS_EmptySet
    <3>3. \A x \in Slots : Costs(d, x)' => Costs(d, x) \/ x \in L
      BY <1>7, <1>8, <3>2 DEF Costs, Connected
    <3>4. L \in SUBSET Slots /\ \A x, y \in L : x = y
      <4>1. \A x, y \in L : PortOf(x) = PortOf(y)
        BY PortsDiffer
      <4> QED
        BY <4>1, PortsDiffer
    <3> HIDE DEF L
    <3>5. Cardinality(L) <= 1 /\ Cardinality(L) \in Nat
      BY <3>4, AtMostOneSlot, SlotSets
    <3>6. Cardinality(L) + Extra(d)' + Blame <= Extra(d) + Blame'
      BY <1>3, <1>5, <3>1, <3>5
    <3> QED
      BY <1>1, <1>6, <3>3, <3>4, <3>6, DebtPaid
  <2> QED
    BY <2>2, <2>3
(* Connected, it leaves the session at its port.                            *)
<1>9. CASE device[d].pc # "login"
  <2> DEFINE B == {x \in Slots : Serves(d, x) /\ PortOf(x) = device[d].port}
  <2>1. B \in SUBSET Slots /\ \A x, y \in B : x = y
    BY PortsDiffer
  <2>2. \A x \in Slots : Costs(d, x)' => Costs(d, x) \/ x \in B
    BY <1>7, <1>9 DEF Costs
  <2> HIDE DEF B
  <2>3. Cardinality(B) <= 1 /\ Cardinality(B) \in Nat
    BY <2>1, AtMostOneSlot, SlotSets
  <2>4. Extra(d) = Waiting(d) + Surplus(d) /\ Surplus(d) \in Nat
    BY <1>1, <1>9 DEF Extra, Connected, Sums
  <2>5. Cardinality(B) + Extra(d)' + Blame <= Extra(d) + Blame'
    BY <1>3, <1>4, <1>5, <2>3, <2>4
  <2> QED
    BY <1>1, <1>6, <2>1, <2>2, <2>5, DebtPaid
<1> QED
  BY <1>8, <1>9

LEMMA DeviceDebt ==
  ASSUME Sound, Sound', DebtInv, NEW d \in Devices, Device(d) \/ Vanish(d)
  PROVE  DebtInv'
<1>1. CASE Login(d)
  BY <1>1, LoginDebt
<1>2. CASE LoginReply(d)
  BY <1>2, RefusedDebt, AdmittedDebt
<1>3. CASE TakeAck(d)
  BY <1>3, AckedDebt
<1>4. CASE Exit(d)
  BY <1>4, ExitedDebt
<1>5. ASSUME NEW op \in {"DELETE", "LIST", "CLOSE"}, Ask(d, op)
      PROVE  DebtInv'
  BY <1>5, AskedDebt
<1>6. CASE Vanish(d)
  BY <1>6, VanishedDebt
<1> QED
  BY <1>1, <1>2, <1>3, <1>4, <1>5, <1>6 DEF Device

-----------------------------------------------------------------------------
(* Lost and repeated datagrams *)

LEMMA TimesDisturbed ==
  ASSUME NEW T, NEW q \in Seq(T), q # <<>>, NEW S
  PROVE  /\ Times(Disturbed("lost", q), S) + One(Head(q) \in S) = Times(q, S)
         /\ Times(Disturbed("dup", q), S) = Times(q, S) + One(Head(q) \in S)
<1>1. Disturbed("lost", q) = Tail(q) /\ Disturbed("dup", q) = Append(q, Head(q))
  BY DEF Disturbed
<1>2. Head(q) \in T
  BY HeadTail
<1>3. Times(q, S) = Times(Tail(q), S) + One(Head(q) \in S)
  BY TimesTail
<1>4. Times(Append(q, Head(q)), S) = Times(q, S) + One(Head(q) \in S)
  BY <1>2, TimesAppend
<1> QED
  BY <1>1, <1>3, <1>4

(* What a disturbance leaves alone.                                         *)
LEMMA DisturbEffect ==
  ASSUME Sound, Sound', NEW kind \in {"lost", "dup"}, Disturb(kind)
  PROVE  /\ Sums /\ Sums' /\ UNCHANGED <<vars, device, peers>>
         /\ UNCHANGED <<main, thread, mainClient, client, owner>>
         /\ Blame' = Blame + One(kind = "dup")
         /\ \A e \in Devices, x \in Slots : Serves(e, x)' <=> Serves(e, x)
<1>1. UNCHANGED <<vars, device, peers>> /\ Count(kind)
  BY DEF Disturb
<1>2. Blame' = Blame + One(kind \in {"vanish", "dup", "bind", "thread"})
  BY <1>1, Blamed DEF Sound, Kinds
<1>3. One(kind \in {"vanish", "dup", "bind", "thread"}) = One(kind = "dup")
  BY DEF One
<1> QED
  BY <1>1, <1>2, <1>3, SumsTypedBoth, SameThreads

(* A disturbance costs its device nothing if it is a loss, and at most one  *)
(* slot to come if it is a delivery too many.                               *)
LEMMA DisturbedOne ==
  ASSUME Sound, Sound', DebtInv, NEW kind \in {"lost", "dup"}, Disturb(kind),
         NEW d \in Devices,
         \A e \in Devices \ {d} :
            Extra(e)' <= Extra(e) /\ \A x \in Slots : Costs(e, x)' => Costs(e, x),
         \A x \in Slots : Costs(d, x)' => Costs(d, x),
         Extra(d)' <= Extra(d) + One(kind = "dup")
  PROVE  DebtInv'
<1>1. /\ Sums /\ Sums' /\ UNCHANGED <<vars, peers>> /\ Blame' = Blame + One(kind = "dup")
  BY DisturbEffect
<1>2. \A x \in Slots : Costs(d, x)' => Costs(d, x) \/ x \in {}
  OBVIOUS
<1>3. /\ Extra(d) \in Nat /\ Extra(d)' \in Nat /\ Blame \in Nat
      /\ One(kind = "dup") \in {0, 1} /\ Cardinality({}) = 0 /\ {} \in SUBSET Slots
  BY <1>1, FS_EmptySet DEF Sums, One
<1>4. Cardinality({}) + Extra(d)' + Blame <= Extra(d) + Blame'
  BY <1>1, <1>3
<1> QED
  BY <1>1, <1>2, <1>3, <1>4, DebtPaid

LEMMA DisturbedLogin ==
  ASSUME Sound, Sound', DebtInv, NEW kind \in {"lost", "dup"}, Disturb(kind),
         mainQueue # <<>>, mainQueue' = Disturbed(kind, mainQueue),
         UNCHANGED <<queue, loginReplies, replies>>
  PROVE  DebtInv'
<1>1. /\ Sums /\ Sums' /\ UNCHANGED <<vars, device, peers>>
      /\ UNCHANGED <<main, thread, mainClient, client, owner>>
      /\ \A e \in Devices, x \in Slots : Serves(e, x)' <=> Serves(e, x)
  BY DisturbEffect
<1>2. mainQueue \in Seq(Devices)
  BY DEF Sound, NetTypeOK
<1>3. PICK d \in Devices : d = Head(mainQueue)
  BY <1>2, HeadTail
<1>4. \A e \in Devices :
         /\ kind = "lost" => Times(mainQueue', {e}) + One(d \in {e}) = Times(mainQueue, {e})
         /\ kind = "dup" => Times(mainQueue', {e}) = Times(mainQueue, {e}) + One(d \in {e})
         /\ Times(mainQueue, {e}) \in Nat /\ Times(mainQueue', {e}) \in Nat
  <2>1. \A e \in Devices :
           /\ kind = "lost" => Times(mainQueue', {e}) + One(d \in {e}) = Times(mainQueue, {e})
           /\ kind = "dup" => Times(mainQueue', {e}) = Times(mainQueue, {e}) + One(d \in {e})
    BY <1>2, <1>3, TimesDisturbed
  <2>2. mainQueue' \in Seq(Devices)
    BY DEF Sound, NetTypeOK
  <2> QED
    BY <1>2, <2>1, <2>2, TimesTyped
<1>5. ASSUME NEW e \in Devices \ {d}
      PROVE  Extra(e)' <= Extra(e) /\ \A x \in Slots : Costs(e, x)' => Costs(e, x)
  <2>1. Times(mainQueue', {e}) = Times(mainQueue, {e})
    <3>1. One(d \in {e}) = 0
      BY DEF One
    <3> QED
      BY <1>4, <3>1
  <2>2. Closing(e) => Closing(e)'
    BY <1>1 DEF Closing
  <2> QED
    BY <1>1, <2>1, <2>2, OthersDebt
<1>6. PICK a \in {0, 1} : a = One(mainClient = d /\ main.pc \notin {"recv", "ack", "nack"})
  BY DEF One
<1>7. /\ Waiting(d) = Times(mainQueue, {d}) + a /\ Waiting(d)' = Times(mainQueue', {d}) + a
      /\ Waiting(d) \in Nat /\ Waiting(d)' \in Nat /\ Answering(d) \in Nat
      /\ kind = "lost" => Waiting(d)' = Waiting(d) - 1
      /\ kind = "dup" => Waiting(d)' = Waiting(d) + 1
  <2>1. Waiting(d) = Times(mainQueue, {d}) + a /\ Waiting(d)' = Times(mainQueue', {d}) + a
    BY <1>1, <1>6 DEF Waiting
  <2>2. One(d \in {d}) = 1
    BY DEF One
  <2>3. Waiting(d) \in Nat /\ Waiting(d)' \in Nat /\ Answering(d) \in Nat
    BY <1>1 DEF Sums
  <2> QED
    BY <1>4, <2>1, <2>2, <2>3
<1>8. /\ Answering(d)' = Answering(d)
      /\ \A x \in Slots : Announced(d, x)' <=> Announced(d, x)
  BY <1>1 DEF Answering, Announced, One
<1>9. \A x \in Slots : Costs(d, x)' => Costs(d, x)
  <2> SUFFICES ASSUME NEW x \in Slots, Costs(d, x)' PROVE Costs(d, x)
    OBVIOUS
  <2>1. Waiting(d) + Answering(d) > 0 \/ kind = "lost"
    <3>1. mainQueue[1] \in {d} /\ 1 \in 1 .. Len(mainQueue)
      BY <1>2, <1>3, HeadTail
    <3>2. Times(mainQueue, {d}) >= 1
      BY <1>2, <3>1, TimesSome
    <3>3. Times(mainQueue, {d}) \in Nat
      BY <1>4
    <3>4. Waiting(d) >= 1
      BY <1>6, <1>7, <3>2, <3>3
    <3> QED
      BY <1>7, <3>4
  <2>2. Waiting(d)' + Answering(d)' > 0 => Waiting(d) + Answering(d) > 0
    BY <1>7, <1>8, <2>1
  <2> QED
    BY <1>1, <1>8, <2>2 DEF Costs
<1>10. Extra(d)' <= Extra(d) + One(kind = "dup")
  <2>1. device[d].pc \in Connected => Surplus(d)' = Surplus(d) /\ Surplus(d) \in Nat
    <3>1. /\ Closing(d)' <=> Closing(d)
          /\ Answers(d)' = Answers(d)
      BY <1>1, SameThreads DEF Closing, Answers
    <3>2. Expects(d)' <=> Expects(d)
      BY <1>1, <3>1 DEF Expects
    <3> QED
      BY <1>1, <3>1, <3>2 DEF Surplus, One, Sums
  <2>2. \/ kind = "lost" /\ One(kind = "dup") = 0
        \/ kind = "dup" /\ One(kind = "dup") = 1
    BY DEF One
  <2>3. CASE device[d].pc = "login"
    BY <1>1, <1>7, <1>8, <2>2, <2>3 DEF Extra, Less
  <2>4. CASE device[d].pc # "login" /\ device[d].pc \in Connected
    <3>1. Extra(d) = Waiting(d) + Surplus(d) /\ Extra(d)' = Waiting(d)' + Surplus(d)'
      BY <1>1, <2>4 DEF Extra
    <3> QED
      BY <1>7, <2>1, <2>2, <2>4, <3>1
  <2>5. CASE device[d].pc # "login" /\ device[d].pc \notin Connected
    BY <1>1, <1>7, <2>2, <2>5 DEF Extra
  <2> QED
    BY <2>3, <2>4, <2>5
<1> QED
  BY <1>5, <1>9, <1>10, DisturbedOne

(* What a device may cost when only its answers change, and they are no     *)
(* more than before, or one more.                                           *)
LEMMA SurplusDisturbed ==
  ASSUME Sound, Sound', DebtInv, NEW kind \in {"lost", "dup"}, Disturb(kind),
         UNCHANGED <<mainQueue, loginReplies>>, NEW d \in Devices,
         \A e \in Devices \ {d} :
            Extra(e)' <= Extra(e) /\ \A x \in Slots : Costs(e, x)' => Costs(e, x),
         device[d].pc \in Connected => Surplus(d)' <= Surplus(d) + One(kind = "dup")
  PROVE  DebtInv'
<1>1. /\ Sums /\ Sums' /\ UNCHANGED <<vars, device, peers>>
      /\ UNCHANGED <<main, thread, mainClient, client, owner>>
      /\ \A e \in Devices, x \in Slots : Serves(e, x)' <=> Serves(e, x)
  BY DisturbEffect
<1>2. /\ Waiting(d)' = Waiting(d) /\ Answering(d)' = Answering(d)
      /\ \A x \in Slots : Announced(d, x)' <=> Announced(d, x)
  BY <1>1 DEF Waiting, Answering, Announced, One
<1>3. \A x \in Slots : Costs(d, x)' => Costs(d, x)
  BY <1>1, <1>2 DEF Costs
<1>4. One(kind = "dup") \in {0, 1} /\ Waiting(d) \in Nat /\ Extra(d) \in Nat
  BY <1>1 DEF One, Sums
<1>5. Extra(d)' <= Extra(d) + One(kind = "dup")
  <2>1. CASE device[d].pc \notin Connected
    <3>1. Extra(d)' = Extra(d)
      BY <1>1, <1>2, <2>1 DEF Extra
    <3> QED
      BY <1>4, <3>1
  <2>2. CASE device[d].pc \in Connected
    <3>1. Extra(d) = Waiting(d) + Surplus(d) /\ Extra(d)' = Waiting(d) + Surplus(d)'
      BY <1>1, <1>2, <2>2 DEF Extra, Connected
    <3>2. Surplus(d) \in Nat /\ Surplus(d)' \in Nat
      BY <1>1, <2>2 DEF Sums
    <3> QED
      BY <1>4, <2>2, <3>1, <3>2
  <2> QED
    BY <2>1, <2>2
<1> QED
  BY <1>3, <1>5, DisturbedOne

LEMMA SurplusBound ==
  ASSUME NEW m \in Nat, NEW n \in Nat, NEW b, NEW c
  PROVE  /\ m + 1 = n => Less(m, One(c)) <= Less(n, One(b))
         /\ m = n + 1 /\ (b => c) => Less(m, One(c)) <= Less(n, One(b)) + 1
         /\ Less(n, One(b)) <= Less(n, One(b)) + 1 /\ Less(n, One(b)) \in Nat
  BY DEF Less, One

LEMMA DisturbedAck ==
  ASSUME Sound, Sound', DebtInv, NEW kind \in {"lost", "dup"}, Disturb(kind),
         NEW d \in Devices, replies[d] > 0,
         replies' = [replies EXCEPT ![d] = IF kind = "lost" THEN @ - 1 ELSE @ + 1],
         UNCHANGED <<mainQueue, queue, loginReplies>>
  PROVE  DebtInv'
<1>1. /\ Sums /\ Sums' /\ UNCHANGED <<vars, device, peers>>
      /\ UNCHANGED <<main, thread, mainClient, client, owner>>
      /\ \A e \in Devices, x \in Slots : Serves(e, x)' <=> Serves(e, x)
  BY DisturbEffect
<1>2. replies \in [Devices -> Nat]
  BY DEF Sound, NetTypeOK
<1>3. \A e \in Devices : Closing(e)' <=> Closing(e)
  BY <1>1 DEF Closing
<1>4. \A e \in Devices \ {d} :
         Extra(e)' <= Extra(e) /\ \A x \in Slots : Costs(e, x)' => Costs(e, x)
  <2> TAKE e \in Devices \ {d}
  <2>1. replies'[e] = replies[e]
    BY <1>2
  <2> QED
    BY <1>1, <1>3, <2>1, OthersDebt
<1>5. ASSUME device[d].pc \in Connected
      PROVE  Surplus(d)' <= Surplus(d) + One(kind = "dup")
  <2>1. PICK r \in Nat : r = replies[d] /\ r > 0
    BY <1>2
  <2>2. PICK n \in Nat : n = Times(queue[device[d].port], From(d))
    <3>1. queue[device[d].port] \in Seq(Messages)
      BY <1>5 DEF Sound, NetTypeOK, TraceInv, PortTrace
    <3> QED
      BY <3>1, TimesTyped
  <2>3. PICK c \in Nat : c = Cardinality(Listing(d))
    BY SlotSets DEF Listing
  <2>4. Answers(d) = r + n + c
    BY <2>1, <2>2, <2>3 DEF Answers
  <2>5. Answers(d)' = (IF kind = "lost" THEN r - 1 ELSE r + 1) + n + c
    <3>1. replies'[d] = IF kind = "lost" THEN r - 1 ELSE r + 1
      BY <1>2, <2>1
    <3> QED
      BY <1>1, <2>2, <2>3, <3>1, SameThreads DEF Answers
  <2>6. Expects(d) => Expects(d)'
    BY <1>1, <1>3 DEF Expects
  <2>7. Answers(d) \in Nat /\ Answers(d)' \in Nat
    BY <1>1, <1>5 DEF Sums
  <2>8. CASE kind = "lost"
    <3>1. Answers(d)' + 1 = Answers(d) /\ One(kind = "dup") = 0
      BY <2>1, <2>4, <2>5, <2>8 DEF One
    <3>2. Surplus(d)' <= Surplus(d)
      BY <2>7, <3>1, SurplusBound DEF Surplus
    <3>3. Surplus(d) \in Nat
      BY <1>1, <1>5 DEF Sums
    <3> QED
      BY <3>1, <3>2, <3>3
  <2>9. CASE kind = "dup"
    <3>1. Answers(d)' = Answers(d) + 1 /\ One(kind = "dup") = 1
      BY <2>1, <2>4, <2>5, <2>9 DEF One
    <3>2. Surplus(d)' <= Surplus(d) + 1
      BY <2>6, <2>7, <3>1, SurplusBound DEF Surplus
    <3> QED
      BY <3>1, <3>2
  <2> QED
    BY <2>8, <2>9
<1> QED
  BY <1>1, <1>4, <1>5, SurplusDisturbed

LEMMA DisturbedPacket ==
  ASSUME Sound, Sound', DebtInv, NEW kind \in {"lost", "dup"}, Disturb(kind),
         NEW p \in SessionPorts, queue[p] # <<>>,
         queue' = [queue EXCEPT ![p] = Disturbed(kind, @)],
         UNCHANGED <<mainQueue, loginReplies, replies>>
  PROVE  DebtInv'
<1>1. /\ Sums /\ Sums' /\ UNCHANGED <<vars, device, peers>>
      /\ UNCHANGED <<main, thread, mainClient, client, owner>>
      /\ \A e \in Devices, x \in Slots : Serves(e, x)' <=> Serves(e, x)
  BY DisturbEffect
<1>2. queue \in [SessionPorts -> Seq(Messages)]
  BY DEF Sound, NetTypeOK
<1>q. PICK q \in Seq(Messages) : q = queue[p] /\ q # <<>>
  BY <1>2
<1>m. PICK m \in Messages, d \in Devices : m = Head(q) /\ m = q[1] /\ m.from = d
  <2>1. Head(q) \in Messages /\ Head(q) = q[1]
    BY <1>q, HeadTail
  <2>2. Head(q).from \in Devices
    BY <2>1 DEF Messages
  <2> QED
    BY <2>1, <2>2
<1>3. queue'[p] = Disturbed(kind, q) /\ \A s \in SessionPorts \ {p} : queue'[s] = queue[s]
  BY <1>2, <1>q
<1>4. ASSUME NEW e \in Devices
      PROVE  /\ kind = "lost" => Times(queue'[p], From(e)) + One(e = d) = Times(q, From(e))
             /\ kind = "dup" => Times(queue'[p], From(e)) = Times(q, From(e)) + One(e = d)
             /\ Times(q, From(e)) \in Nat /\ Times(queue'[p], From(e)) \in Nat
  <2>1. One(Head(q) \in From(e)) = One(e = d)
    BY <1>m DEF From, One
  <2>2. /\ Times(Disturbed("lost", q), From(e)) + One(Head(q) \in From(e)) = Times(q, From(e))
        /\ Times(Disturbed("dup", q), From(e)) = Times(q, From(e)) + One(Head(q) \in From(e))
    BY <1>q, TimesDisturbed
  <2>3. queue'[p] \in Seq(Messages)
    BY DEF Sound, NetTypeOK
  <2>4. Times(q, From(e)) \in Nat /\ Times(queue'[p], From(e)) \in Nat
    BY <2>3, TimesTyped
  <2> QED
    BY <1>3, <2>1, <2>2, <2>4
(* Only the loss of a CLOSE makes a difference to its device.               *)
<1>5. ASSUME NEW e \in Devices, device[e].pc \in Connected, e # d \/ kind = "dup", Closing(e)
      PROVE  Closing(e)'
  <2>1. device[e].port \in SessionPorts
    BY <1>5 DEF Sound, TraceInv, PortTrace
  <2>2. CASE device[e].port = p
    <3>1. PICK i \in 1 .. Len(q) : q[i] = [op |-> "CLOSE", from |-> e]
      BY <1>5, <1>q, <2>2 DEF Closing
    <3>2. \E j \in 1 .. Len(queue'[p]) : queue'[p][j] = q[i]
      <4>1. CASE kind = "dup"
        <5>1. queue'[p] = Append(q, m)
          BY <1>3, <1>m, <4>1 DEF Disturbed
        <5> QED
          BY <5>1
      <4>2. CASE kind = "lost"
        <5>1. i # 1
          <6>1. q[i].from = e
            BY <3>1
          <6> QED
            BY <1>5, <1>m, <4>2, <6>1
        <5>2. queue'[p] = Tail(q)
          BY <1>3, <4>2 DEF Disturbed
        <5>3. i - 1 \in 1 .. Len(Tail(q)) /\ Tail(q)[i - 1] = q[i]
          <6>1. /\ Len(Tail(q)) = Len(q) - 1 /\ Len(q) \in Nat
                /\ \A j \in 1 .. Len(Tail(q)) : Tail(q)[j] = q[j + 1]
            BY <1>q, HeadTail
          <6>2. i - 1 \in 1 .. Len(Tail(q)) /\ (i - 1) + 1 = i
            BY <5>1, <6>1
          <6> QED
            BY <6>1, <6>2
        <5> QED
          BY <5>2, <5>3
      <4> QED
        BY <4>1, <4>2
    <3> QED
      BY <1>1, <2>2, <3>1, <3>2 DEF Closing
  <2>3. CASE device[e].port # p
    BY <1>1, <1>3, <1>5, <2>1, <2>3 DEF Closing
  <2> QED
    BY <2>2, <2>3
<1>6. \A e \in Devices \ {d} :
         Extra(e)' <= Extra(e) /\ \A x \in Slots : Costs(e, x)' => Costs(e, x)
  <2> TAKE e \in Devices \ {d}
  <2>1. ASSUME device[e].pc \in Connected
        PROVE  Times(queue'[device[e].port], From(e)) = Times(queue[device[e].port], From(e))
    <3>1. device[e].port \in SessionPorts
      BY <2>1 DEF Sound, TraceInv, PortTrace
    <3>2. Times(queue'[p], From(e)) = Times(q, From(e))
      <4>1. One(e = d) = 0
        BY DEF One
      <4> QED
        BY <1>4, <4>1
    <3> QED
      BY <1>3, <1>q, <3>1, <3>2
  <2> QED
    BY <1>1, <1>5, <2>1, OthersDebt
<1>7. ASSUME device[d].pc \in Connected
      PROVE  Surplus(d)' <= Surplus(d) + One(kind = "dup")
  <2>1. PICK o \in SessionPorts : o = device[d].port
    BY <1>7 DEF Sound, TraceInv, PortTrace
  <2>2. PICK a \in Nat : a = replies[d]
    BY DEF Sound, NetTypeOK
  <2>3. PICK c \in Nat : c = Cardinality(Listing(d))
    BY SlotSets DEF Listing
  <2>4. /\ Answers(d) = a + Times(queue[o], From(d)) + c
        /\ Answers(d)' = a + Times(queue'[o], From(d)) + c
    BY <1>1, <2>1, <2>2, <2>3, SameThreads DEF Answers
  <2>5. Answers(d) \in Nat /\ Answers(d)' \in Nat /\ Surplus(d) \in Nat
    BY <1>1, <1>7 DEF Sums
  <2>6. One(kind = "dup") = IF kind = "dup" THEN 1 ELSE 0
    BY DEF One
  <2>7. CASE o # p
    <3>1. Answers(d)' = Answers(d) /\ (Expects(d)' <=> Expects(d))
      <4>1. queue'[o] = queue[o]
        BY <1>3, <2>7
      <4>2. Closing(d)' <=> Closing(d)
        BY <1>1, <2>1, <4>1 DEF Closing
      <4> QED
        BY <1>1, <2>4, <4>1, <4>2 DEF Expects
    <3>2. Surplus(d)' = Surplus(d)
      BY <3>1 DEF Surplus, One
    <3> QED
      BY <2>5, <2>6, <3>2
  <2>8. CASE o = p
    <3>1. One(d = d) = 1
      BY DEF One
    <3>2. PICK k \in Nat, l \in Nat : k = Times(queue[o], From(d)) /\ l = Times(queue'[o], From(d))
      BY <1>4, <1>q, <2>8
    <3>3. /\ kind = "lost" => l + 1 = k
          /\ kind = "dup" => l = k + 1
      BY <1>4, <1>q, <2>8, <3>1, <3>2
    <3>4. Answers(d) = a + k + c /\ Answers(d)' = a + l + c
      BY <2>4, <3>2
    <3>5. CASE kind = "lost"
      <4>0. a + l + c + 1 = a + k + c
        <5>1. l + 1 = k
          BY <3>3, <3>5
        <5> QED
          BY <5>1
      <4>1. Answers(d)' + 1 = Answers(d)
        BY <3>4, <4>0
      <4>2. Surplus(d)' <= Surplus(d)
        BY <2>5, <4>1, SurplusBound DEF Surplus
      <4> QED
        BY <2>5, <2>6, <3>5, <4>2
    <3>6. CASE kind = "dup"
      <4>0. a + l + c = a + k + c + 1
        <5>1. l = k + 1
          BY <3>3, <3>6
        <5> QED
          BY <5>1
      <4>1. Answers(d)' = Answers(d) + 1
        BY <3>4, <4>0
      <4>2. Expects(d) => Expects(d)'
        <5>1. Closing(d) => Closing(d)'
          BY <1>5, <1>7, <3>6
        <5> QED
          BY <1>1, <5>1 DEF Expects
      <4>3. Surplus(d)' <= Surplus(d) + 1
        BY <2>5, <4>1, <4>2, SurplusBound DEF Surplus
      <4> QED
        BY <2>6, <3>6, <4>3
    <3> QED
      BY <3>5, <3>6
  <2> QED
    BY <2>7, <2>8
<1> QED
  BY <1>1, <1>6, <1>7, SurplusDisturbed

LEMMA LeastPort ==
  ASSUME NEW S \in SUBSET Slots, S # {}
  PROVE  \E y \in S : \A z \in S : ~(PortOf(z) < PortOf(y))
<1> DEFINE R == OpToRel(<, Nat)
           Q == {PortOf(y) : y \in S}
<1>1. IsWellFoundedOn(R, Nat)
  BY NatLessThanWellFounded
<1>2. Q \subseteq Nat /\ Q # {}
  BY PortsDiffer
<1>3. PICK p \in Q : \A r \in Q : <<r, p>> \notin R
  <2> HIDE DEF R, Q
  <2> QED
    BY <1>1, <1>2, WFMin
<1>4. \A r \in Q : ~(r < p)
  BY <1>2, <1>3 DEF OpToRel
<1> QED
  BY <1>4

(* An answer that is lost.  It may have been the last that told the device  *)
(* of a session: then the device waits in vain, for the session that takes  *)
(* the place of its own, which was not counted.                             *)
LEMMA LastAnswerLost ==
  ASSUME Sound, Sound', DebtInv, Disturb("lost"), NEW d \in Devices,
         device[d].pc = "login", Waiting(d)' + Answering(d)' = 0,
         Extra(d)' <= Extra(d),
         \A e \in Devices \ {d} :
            Extra(e)' <= Extra(e) /\ \A x \in Slots : Costs(e, x)' => Costs(e, x),
         NEW x \in Slots, Serves(d, x), Waiting(d) + Answering(d) > 0,
         \A y \in Slots : Announced(d, y) => y = x
  PROVE  DebtInv'
<1>1. /\ Sums /\ Sums' /\ UNCHANGED <<vars, device, peers>>
      /\ UNCHANGED <<main, thread, mainClient, client, owner>>
      /\ Blame' = Blame + One(FALSE)
      /\ \A e \in Devices, y \in Slots : Serves(e, y)' <=> Serves(e, y)
  <2>1. One("lost" = "dup") = One(FALSE)
    BY DEF One
  <2> QED
    BY <2>1, DisturbEffect
<1> DEFINE S == {y \in Slots : Serves(d, y)}
<1>2. PICK y \in S : \A z \in S : ~(PortOf(z) < PortOf(y))
  <2>1. S \in SUBSET Slots /\ S # {}
    OBVIOUS
  <2> HIDE DEF S
  <2> QED
    BY <2>1, LeastPort
<1>3. LostSlots \in SUBSET Slots /\ LostSlots' \in SUBSET Slots
  BY DEF LostSlots
<1>4. ~Costs(d, y)'
  <2>1. ~(Waiting(d)' + Answering(d)' > 0)
    BY <1>1
  <2>2. ~\E z \in Slots : Serves(d, z)' /\ PortOf(z) < PortOf(y)
    BY <1>1, <1>2
  <2> QED
    BY <1>1, <2>1, <2>2 DEF Costs
<1>5. PICK t \in Threads : /\ SlotOf(t, y[1], y[2]) /\ owner[t] = d
                           /\ thread[t].pc # "close" /\ thread[t].sock # "unbound"
  BY <1>2 DEF Serves
<1>6. ~Wasted(y)'
  <2>1. ~Wasted(y)
    BY <1>5 DEF Wasted
  <2> QED
    BY <1>1, <2>1, SameThreads
<1>7. \A e \in Devices \ {d} : ~Costs(e, y)'
  <2> SUFFICES ASSUME NEW e \in Devices, Costs(e, y)' PROVE e = d
    OBVIOUS
  <2>1. Serves(e, y)
    BY <1>1 DEF Costs
  <2>2. PICK u \in Threads : SlotOf(u, y[1], y[2]) /\ owner[u] = e
    BY <2>1 DEF Serves
  <2>3. u = t
    BY <1>5, <2>2, OneAt DEF Sound
  <2> QED
    BY <1>5, <2>2, <2>3
<1>8. y \notin LostSlots'
  BY <1>4, <1>6, <1>7 DEF LostSlots
<1>9. \A z \in Slots : Serves(d, z) /\ z # x => Costs(d, z)
  BY DEF Costs, Connected
<1>10. y \in LostSlots \cup {x}
  BY <1>2, <1>9 DEF LostSlots
<1>11. LostSlots' \subseteq LostSlots \cup {x}
  <2> SUFFICES ASSUME NEW z \in Slots, Wasted(z)' \/ \E e \in Devices : Costs(e, z)', z # x
               PROVE  Wasted(z) \/ \E e \in Devices : Costs(e, z)
    BY DEF LostSlots
  <2>1. CASE Wasted(z)'
    BY <1>1, <2>1, SameThreads
  <2>2. CASE Costs(d, z)'
    <3>1. Serves(d, z)
      BY <1>1, <2>2 DEF Costs
    <3> QED
      BY <1>9, <3>1
  <2>3. ASSUME NEW e \in Devices \ {d}, Costs(e, z)'
        PROVE  Costs(e, z)
    BY <2>3
  <2> QED
    BY <2>1, <2>2, <2>3
<1>12. LostSlots' \subseteq (LostSlots \cup {x}) \ {y}
  BY <1>8, <1>11
<1> HIDE DEF S
<1>13. Cardinality(LostSlots') <= Cardinality(LostSlots)
  BY <1>3, <1>10, <1>12, SlotSwapped
<1>14. /\ Cardinality(LostSlots) \in Nat /\ Cardinality(LostSlots') \in Nat
       /\ Blame' = Blame /\ Blame \in Nat
  <2>1. One(FALSE) = 0 /\ Blame \in Nat
    BY <1>1 DEF One, Sums
  <2>2. Cardinality(LostSlots) \in Nat /\ Cardinality(LostSlots') \in Nat
    BY <1>3, SlotSets
  <2>3. Blame' = Blame + 0
    BY <1>1, <2>1, Zenon
  <2>4. Blame' = Blame
    BY <2>1, <2>3
  <2> QED
    BY <2>1, <2>2, <2>4
<1>15. \A e \in Devices : Extra(e)' <= Extra(e)
  OBVIOUS
<1> QED
  BY <1>13, <1>14, <1>15, DebtKept

LEMMA DisturbedAnswer ==
  ASSUME Sound, Sound', DebtInv, NEW kind \in {"lost", "dup"}, Disturb(kind),
         NEW d \in Devices, loginReplies[d] # <<>>,
         loginReplies' = [loginReplies EXCEPT ![d] = Disturbed(kind, @)],
         UNCHANGED <<mainQueue, queue, replies>>
  PROVE  DebtInv'
<1>1. /\ Sums /\ Sums' /\ UNCHANGED <<vars, device, peers>>
      /\ UNCHANGED <<main, thread, mainClient, client, owner>>
      /\ Blame' = Blame + One(kind = "dup")
      /\ \A e \in Devices, x \in Slots : Serves(e, x)' <=> Serves(e, x)
  BY DisturbEffect
<1>2. loginReplies \in [Devices -> Seq(SessionPorts \cup {NACK})]
  BY DEF Sound, NetTypeOK
<1>3. \A e \in Devices \ {d} :
         Extra(e)' <= Extra(e) /\ \A x \in Slots : Costs(e, x)' => Costs(e, x)
  <2> TAKE e \in Devices \ {d}
  <2>1. loginReplies'[e] = loginReplies[e]
    BY <1>2
  <2>2. Closing(e) => Closing(e)'
    BY <1>1 DEF Closing
  <2> QED
    BY <1>1, <2>1, <2>2, OthersDebt
<1>q. PICK q \in Seq(SessionPorts \cup {NACK}) : q = loginReplies[d] /\ q # <<>>
  BY <1>2
<1>4. loginReplies'[d] = Disturbed(kind, q)
  BY <1>2, <1>q
<1>b. PICK b \in {0, 1} : /\ b = One(mainClient = d /\ main.pc \in {"ack", "nack"})
                          /\ b = 0 => ~(mainClient = d /\ main.pc \in {"ack", "nack"})
  BY DEF One
<1>5. /\ Waiting(d)' = Waiting(d) /\ Waiting(d) \in Nat
      /\ Answering(d) = b + Len(q) /\ Answering(d)' = b + Len(Disturbed(kind, q))
  BY <1>1, <1>4, <1>q, <1>b DEF Waiting, Answering, One, Sums
<1>6. /\ Len(q) \in Nat /\ Len(q) >= 1 /\ q[1] = Head(q) /\ Head(q) \in SessionPorts \cup {NACK}
      /\ Len(Tail(q)) = Len(q) - 1
      /\ \A i \in 1 .. Len(q) : i = 1 \/ (i - 1 \in 1 .. Len(Tail(q)) /\ Tail(q)[i - 1] = q[i])
  <2>1. \A i \in 1 .. Len(Tail(q)) : Tail(q)[i] = q[i + 1]
    BY <1>q, HeadTail
  <2>2. /\ Len(q) \in Nat /\ Len(q) >= 1 /\ q[1] = Head(q)
        /\ Head(q) \in SessionPorts \cup {NACK} /\ Len(Tail(q)) = Len(q) - 1
    BY <1>q, HeadTail
  <2>3. \A i \in 1 .. Len(q) : i = 1 \/ (i - 1 \in 1 .. Len(Tail(q)) /\ (i - 1) + 1 = i)
    BY <2>2
  <2> QED
    BY <2>1, <2>2, <2>3
<1>7. CASE device[d].pc # "login"
  <2>1. \A x \in Slots : Costs(d, x)' => Costs(d, x)
    BY <1>1, <1>7 DEF Costs
  <2>2. Extra(d)' <= Extra(d) + One(kind = "dup")
    <3>1. device[d].pc \in Connected => Surplus(d)' = Surplus(d)
      <4>1. (Closing(d)' <=> Closing(d)) /\ Answers(d)' = Answers(d)
        BY <1>1, SameThreads DEF Closing, Answers
      <4>2. Expects(d)' <=> Expects(d)
        BY <1>1, <4>1 DEF Expects
      <4> QED
        BY <4>1, <4>2 DEF Surplus, One
    <3>2. Extra(d)' = Extra(d)
      BY <1>1, <1>5, <1>7, <3>1 DEF Extra
    <3>3. Extra(d) \in Nat /\ One(kind = "dup") \in {0, 1}
      BY <1>1 DEF Sums, One
    <3> QED
      BY <3>2, <3>3
  <2> QED
    BY <1>3, <2>1, <2>2, DisturbedOne
<1>8. CASE device[d].pc = "login" /\ kind = "dup"
  <2>1. Disturbed(kind, q) = Append(q, Head(q))
    BY <1>8 DEF Disturbed
  <2>2. /\ Len(Append(q, Head(q))) = Len(q) + 1
        /\ \A i \in 1 .. Len(q) : i \in 1 .. Len(Append(q, Head(q))) /\ Append(q, Head(q))[i] = q[i]
    BY <1>6
  <2>3. \A x \in Slots : Announced(d, x) => Announced(d, x)'
    BY <1>1, <1>4, <1>q, <2>1, <2>2 DEF Announced
  <2>4. Waiting(d) + Answering(d) \in Nat /\ Waiting(d) + Answering(d) > 0
    BY <1>5, <1>6, <1>b
  <2>5. \A x \in Slots : Costs(d, x)' => Costs(d, x)
    BY <1>1, <1>8, <2>3, <2>4 DEF Costs, Connected
  <2>6. Extra(d)' <= Extra(d) + One(kind = "dup")
    <3>1. Waiting(d)' + Answering(d)' = Waiting(d) + Answering(d) + 1
      BY <1>5, <1>6, <1>b, <2>1, <2>2
    <3>2. PICK n \in Nat : n = Waiting(d) + Answering(d) /\ n > 0
      BY <2>4
    <3>3. Extra(d) = n - 1 /\ Extra(d)' = n + 1 - 1
      BY <1>1, <1>8, <3>1, <3>2 DEF Extra, Less
    <3>4. One(kind = "dup") = 1
      BY <1>8 DEF One
    <3> QED
      BY <3>3, <3>4
  <2> QED
    BY <1>3, <2>5, <2>6, DisturbedOne
<1>9. CASE device[d].pc = "login" /\ kind = "lost"
  <2> DEFINE B == {x \in Slots : PortOf(x) = Head(q)}
  <2>1. B \in SUBSET Slots /\ \A x, y \in B : x = y
    BY PortsDiffer
  <2>2. Disturbed(kind, q) = Tail(q)
    BY <1>9 DEF Disturbed
  <2>3. \A x \in Slots : Announced(d, x) => Announced(d, x)' \/ x \in B
    <3> SUFFICES ASSUME NEW x \in Slots, Announced(d, x), x \notin B
                 PROVE  Announced(d, x)'
      OBVIOUS
    <3>1. CASE main.pc = "ack" /\ mainClient = d /\ main.index = x[1] /\ main.s = x[2]
      BY <1>1, <3>1 DEF Announced
    <3>2. ASSUME NEW i \in 1 .. Len(q), q[i] = PortOf(x)
          PROVE  Announced(d, x)'
      <4>1. i # 1
        BY <1>6, <3>2
      <4>2. i - 1 \in 1 .. Len(Tail(q)) /\ Tail(q)[i - 1] = PortOf(x)
        BY <1>6, <3>2, <4>1
      <4> QED
        BY <1>4, <2>2, <4>2 DEF Announced
    <3> QED
      BY <1>q, <3>1, <3>2 DEF Announced
  <2>4. PICK n \in Nat : /\ n > 0 /\ n = Waiting(d) + Answering(d)
                         /\ n - 1 = Waiting(d)' + Answering(d)'
    <3>1. PICK w \in Nat, l \in Nat : w = Waiting(d) /\ l = Len(q) /\ l >= 1
      BY <1>5, <1>6
    <3>2. Waiting(d) + Answering(d) = w + (b + l)
      BY <1>5, <3>1
    <3>3. Waiting(d)' + Answering(d)' = w + (b + (l - 1))
      BY <1>5, <1>6, <2>2, <3>1
    <3>4. w + (b + l) \in Nat /\ w + (b + l) > 0 /\ w + (b + l) - 1 = w + (b + (l - 1))
      BY <1>b, <3>1
    <3> QED
      BY <3>2, <3>3, <3>4
  <2>5. Extra(d) = n - 1 /\ Extra(d)' = Less(n - 1, 1)
    BY <1>1, <1>9, <2>4 DEF Extra, Less
  <2>6. Blame' = Blame /\ Blame \in Nat
    <3>1. One(kind = "dup") = 0 /\ Blame \in Nat
      BY <1>1, <1>9 DEF One, Sums
    <3>2. Blame' = Blame + 0
      BY <1>1, <3>1, Zenon
    <3> QED
      BY <3>1, <3>2
  <2>7. CASE n > 1
    <3>1. \A x \in Slots : Costs(d, x)' => Costs(d, x) \/ x \in B
      BY <1>1, <1>9, <2>3, <2>4 DEF Costs, Connected
    <3> HIDE DEF B
    <3>2. Cardinality(B) <= 1 /\ Cardinality(B) \in Nat
      BY <2>1, AtMostOneSlot, SlotSets
    <3>3. Extra(d)' = n - 2
      BY <2>5, <2>7 DEF Less
    <3>4. Cardinality(B) + Extra(d)' + Blame <= Extra(d) + Blame'
      BY <2>5, <2>6, <3>2, <3>3
    <3> QED
      BY <1>1, <1>3, <2>1, <3>1, <3>4, DebtPaid
  <2>8. CASE n = 1
    <3>1. /\ Waiting(d)' + Answering(d)' = 0 /\ Waiting(d) + Answering(d) > 0
          /\ Extra(d) = 0 /\ Extra(d)' = 0
      BY <2>4, <2>5, <2>8 DEF Less
    <3>2. b = 0 /\ Len(q) = 1
      <4>1. PICK w \in Nat, l \in Nat : w = Waiting(d) /\ l = Len(q) /\ l >= 1
        BY <1>5, <1>6
      <4>2. w + (b + l) = 1
        BY <1>5, <2>4, <2>8, <4>1
      <4> QED
        BY <1>b, <4>1, <4>2
    <3>3. \A y \in Slots : Announced(d, y) => PortOf(y) = Head(q)
      BY <1>6, <1>b, <1>q, <3>2 DEF Announced
    <3>4. CASE \E x \in Slots : Serves(d, x) /\ PortOf(x) = Head(q)
      <4>1. PICK x \in Slots : Serves(d, x) /\ PortOf(x) = Head(q)
        BY <3>4
      <4>2. \A y \in Slots : Announced(d, y) => y = x
        BY <3>3, <4>1, PortsDiffer
      <4>3. Disturb("lost") /\ Extra(d)' <= Extra(d)
        BY <1>9, <3>1
      <4> QED
        BY <1>3, <1>9, <3>1, <4>1, <4>2, <4>3, LastAnswerLost
    <3>5. CASE ~\E x \in Slots : Serves(d, x) /\ PortOf(x) = Head(q)
      <4>1. \A x \in Slots : Costs(d, x)' => Costs(d, x)
        BY <1>1, <1>9, <3>1, <3>3, <3>5 DEF Costs, Connected
      <4>2. Extra(d)' <= Extra(d) + One(kind = "dup")
        BY <1>9, <3>1 DEF One
      <4> QED
        BY <1>3, <4>1, <4>2, DisturbedOne
    <3> QED
      BY <3>4, <3>5
  <2> QED
    BY <2>4, <2>7, <2>8
<1> QED
  BY <1>7, <1>8, <1>9

LEMMA DisturbDebt ==
  ASSUME Sound, Sound', DebtInv, NEW kind \in {"lost", "dup"}, Disturb(kind)
  PROVE  DebtInv'
<1>1. CASE /\ mainQueue # <<>> /\ mainQueue' = Disturbed(kind, mainQueue)
           /\ UNCHANGED <<queue, loginReplies, replies>>
  BY <1>1, DisturbedLogin
<1>2. ASSUME NEW p \in SessionPorts, queue[p] # <<>>,
             queue' = [queue EXCEPT ![p] = Disturbed(kind, @)],
             UNCHANGED <<mainQueue, loginReplies, replies>>
      PROVE  DebtInv'
  BY <1>2, DisturbedPacket
<1>3. ASSUME NEW d \in Devices, loginReplies[d] # <<>>,
             loginReplies' = [loginReplies EXCEPT ![d] = Disturbed(kind, @)],
             UNCHANGED <<mainQueue, queue, replies>>
      PROVE  DebtInv'
  BY <1>3, DisturbedAnswer
<1>4. ASSUME NEW d \in Devices, replies[d] > 0,
             replies' = [replies EXCEPT ![d] = IF kind = "lost" THEN @ - 1 ELSE @ + 1],
             UNCHANGED <<mainQueue, queue, loginReplies>>
      PROVE  DebtInv'
  BY <1>4, DisturbedAck
<1> QED
  BY <1>1, <1>2, <1>3, <1>4 DEF Disturb

-----------------------------------------------------------------------------
(* The invariant and what follows from it *)

CostInv == NetInv /\ TraceInv /\ DebtInv

LEMMA InitTrace ==
  ASSUME NetInit
  PROVE  TraceInv
<1>1. /\ main.pc = "recv" /\ \A t \in Threads : thread[t].pc = "none"
      /\ mainQueue = <<>> /\ \A p \in SessionPorts : queue[p] = <<>>
      /\ \A d \in Devices : /\ device[d].pc = "start"
                            /\ loginReplies[d] = <<>> /\ replies[d] = 0
  BY DEF NetInit, Init, Idle, NoThread
<1>2. MainTrace /\ OwnerTrace /\ StartTrace /\ SocketTrace
  BY <1>1 DEF MainTrace, OwnerTrace, StartTrace, SocketTrace
<1>3. PortTrace /\ PacketTrace /\ AnswerTrace
  BY <1>1 DEF PortTrace, PacketTrace, AnswerTrace, Connected
<1> QED
  BY <1>2, <1>3 DEF TraceInv

LEMMA InitDebt ==
  ASSUME NetInit
  PROVE  DebtInv
<1>1. /\ main.pc = "recv" /\ mainQueue = <<>>
      /\ \A d \in Devices : device[d].pc = "start"
      /\ \A t \in Threads : thread[t].pc = "none"
      /\ \A x \in Slots : session_active[x[1]][x[2]] = 0
  BY DEF NetInit, Init, Idle, NoThread, Slots
<1>2. LostSlots = {}
  BY <1>1 DEF LostSlots, Wasted, Costs, Serves, SlotOf, Owns
<1>3. \A d \in Devices : Extra(d) = 0
  <2> TAKE d \in Devices
  <2>1. Times(mainQueue, {d}) = 0
    BY <1>1, TimesNone
  <2>2. Waiting(d) = 0
    BY <1>1, <2>1 DEF Waiting, One
  <2> QED
    BY <1>1, <2>2 DEF Extra, Connected
<1>4. Pairs(Extras) = {}
  BY <1>3 DEF Pairs, Extras
<1>5. Blame = 0
  BY DEF NetInit, Blame, Kinds
<1>6. IsFiniteSet({}) /\ Cardinality({}) = 0
  BY FS_EmptySet
<1> QED
  BY <1>2, <1>4, <1>5, <1>6 DEF DebtInv

LEMMA NextTrace ==
  ASSUME NetInv, TraceInv, NetNext
  PROVE  TraceInv'
BY MainTraceStep, ThreadTraceStep, DeviceTrace, DisturbTrace DEF NetInv, NetNext

LEMMA NextDebt ==
  ASSUME NetInv, TraceInv, DebtInv, NetNext, NetInv', TraceInv'
  PROVE  DebtInv'
<1>1. Sound /\ Sound'
  BY DEF NetInv, Sound
<1> QED
  BY <1>1, MainDebt, ThreadDebt, DeviceDebt, DisturbDebt DEF NetNext

LEMMA StutterCost ==
  ASSUME TraceInv, DebtInv, UNCHANGED netVars
  PROVE  TraceInv' /\ DebtInv'
<1>1. /\ UNCHANGED <<vars, peers>>
      /\ UNCHANGED <<main, thread, device, mainQueue, queue, loginReplies, replies,
                     mainClient, client, owner, faults>>
  BY DEF netVars, vars, net, peers
<1>2. TraceInv'
  BY <1>1 DEF TraceInv, MainTrace, OwnerTrace, StartTrace, SocketTrace, PortTrace,
              PacketTrace, AnswerTrace, ListsFor, Alive
<1>3. /\ \A e, x : Serves(e, x)' <=> Serves(e, x)
      /\ \A e : Listing(e)' = Listing(e)
      /\ \A x : Wasted(x)' <=> Wasted(x)
  BY <1>1, SameThreads
<1>4. ASSUME NEW d
      PROVE  /\ Waiting(d)' = Waiting(d) /\ Answering(d)' = Answering(d)
             /\ \A x : Announced(d, x)' <=> Announced(d, x)
             /\ Surplus(d)' = Surplus(d)
  <2>1. Answers(d)' = Answers(d) /\ (Closing(d)' <=> Closing(d))
    BY <1>1, <1>3 DEF Answers, Closing
  <2>2. Expects(d)' <=> Expects(d)
    BY <1>1, <1>3, <2>1 DEF Expects
  <2>3. Surplus(d)' = Surplus(d)
    BY <2>1, <2>2 DEF Surplus, One
  <2>4. Waiting(d)' = Waiting(d) /\ Answering(d)' = Answering(d)
    BY <1>1 DEF Waiting, Answering
  <2>5. \A x : Announced(d, x)' <=> Announced(d, x)
    BY <1>1 DEF Announced
  <2> QED
    BY <2>3, <2>4, <2>5
<1>5. \A d, x : Costs(d, x)' <=> Costs(d, x)
  BY <1>1, <1>3, <1>4 DEF Costs
<1>6. LostSlots' = LostSlots
  BY <1>3, <1>5 DEF LostSlots
<1>7. Extras' = Extras
  BY <1>1, <1>4 DEF Extras, Extra
<1> QED
  BY <1>1, <1>2, <1>6, <1>7 DEF DebtInv, Blame

LEMMA OrphansLost ==
  ASSUME TraceInv
  PROVE  Orphans \subseteq LostSlots
<1> SUFFICES ASSUME NEW x \in Slots, Orphan(x[1], x[2])
             PROVE  Wasted(x) \/ \E d \in Devices : Costs(d, x)
  BY DEF Orphans, LostSlots, Slots
<1>1. CASE \A t \in Threads : SlotOf(t, x[1], x[2]) => thread[t].sock = "unbound"
  BY <1>1 DEF Orphan, Wasted
<1>2. ASSUME NEW t \in Threads, SlotOf(t, x[1], x[2]), thread[t].sock # "unbound"
      PROVE  \E d \in Devices : Costs(d, x)
  <2>1. ~Alive(owner[t]) /\ thread[t].pc # "close"
    BY <1>2 DEF Orphan, SlotOf
  <2>2. owner[t] \in Devices
    BY <1>2 DEF TraceInv, OwnerTrace, SlotOf, Owns
  <2>3. Serves(owner[t], x)
    BY <1>2, <2>1 DEF Serves
  <2>4. Costs(owner[t], x)
    BY <2>1, <2>3 DEF Costs, Alive, Connected
  <2> QED
    BY <2>2, <2>4
<1> QED
  BY <1>1, <1>2

LEMMA CostInvHolds == NetSpec => []CostInv
<1>1. NetInit => CostInv
  BY NetInitInv, InitTrace, InitDebt DEF CostInv
<1>2. CostInv /\ [NetNext]_netVars => CostInv'
  <2> SUFFICES ASSUME CostInv, [NetNext]_netVars
               PROVE  CostInv'
    OBVIOUS
  <2>1. NetInv'
    BY NetNextInv DEF CostInv
  <2>2. CASE NetNext
    <3>1. TraceInv'
      BY <2>2, NextTrace DEF CostInv
    <3> QED
      BY <2>1, <2>2, <3>1, NextDebt DEF CostInv
  <2>3. CASE UNCHANGED netVars
    BY <2>1, <2>3, StutterCost DEF CostInv
  <2> QED
    BY <2>2, <2>3
<1> QED
  BY <1>1, <1>2, PTL DEF NetSpec

(* Whatever is lost, delivered twice or sent too late, and however many     *)
(* devices vanish: the slots of the table that no session will ever free    *)
(* are no more than the vanished devices, the datagrams that arrived twice, *)
(* and the calls of bind and pthread_create that failed.                    *)
THEOREM FaultsCost == NetSpec => []OneSlotPerFault
<1>1. CostInv => OneSlotPerFault
  <2> SUFFICES ASSUME CostInv PROVE OneSlotPerFault
    OBVIOUS
  <2>1. Orphans \subseteq LostSlots /\ LostSlots \in SUBSET Slots
    BY OrphansLost DEF CostInv, LostSlots
  <2>2. Cardinality(Orphans) <= Cardinality(LostSlots)
    <3>1. IsFiniteSet(LostSlots)
      BY <2>1, SlotSets
    <3> QED
      BY <2>1, <3>1, FS_Subset
  <2>3. /\ Cardinality(Orphans) \in Nat /\ Cardinality(LostSlots) \in Nat
        /\ Cardinality(Pairs(Extras)) \in Nat
    <3>1. Orphans \in SUBSET Slots
      BY <2>1
    <3>2. IsFiniteSet(Pairs(Extras))
      BY DEF CostInv, DebtInv
    <3>3. Cardinality(Pairs(Extras)) \in Nat
      BY <3>2, FS_CardinalityType
    <3> QED
      BY <2>1, <3>1, <3>3, SlotSets
  <2>4. Blame \in Nat
    BY DEF CostInv, NetInv, NetTypeOK, Kinds, Blame
  <2>5. Cardinality(Orphans) <= Blame
    BY <2>2, <2>3, <2>4 DEF CostInv, DebtInv
  <2> QED
    BY <2>5 DEF Blame, OneSlotPerFault
<1> QED
  BY <1>1, CostInvHolds, PTL

=============================================================================
