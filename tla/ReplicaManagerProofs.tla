------------------------ MODULE ReplicaManagerProofs ------------------------
(***************************************************************************)
(* Proofs about ReplicaManager, for any number of replicas, crashes and    *)
(* replicated packets and any size of the list.  IInv is inductive; its    *)
(* first two parts give TypeOK, the third NeverOrphaned and the fourth     *)
(* OnePrimary.  IdInv gives DistinctIds, and SlotInv SlotReachesServer.    *)
(***************************************************************************)
EXTENDS ReplicaManager, FiniteSetTheorems, WellFoundedInduction, TLAPS

Addresses == Servers \cup {NoAddr}
Bytes == BOOLEAN \X BOOLEAN
Ids == Seqs \ {NONE}

Managers ==
    [pc : {"send", "wait"}, is_primary : BOOLEAN, server_id : Ids, primary_id : Ids,
     primary_rm : {Host, NoAddr}, active : [Slots -> BOOLEAN],
     addr : [Slots -> Addresses],
     ping : [op : {"PING", "ACK", "REPLICATED"}, seq : Seqs],
     reply : [seq : Ids, data : Bytes], from : Addresses, len : Lengths]

Packets ==
    [op : {"PING", "ACK", "REPLICATED"}, from : Addresses, to : Servers,
     seq : Seqs, data : Bytes]

(* The types, and what they rest on: only the host is pinged, it is always  *)
(* a primary, and a server that is none knows no addresses.                 *)
TypeInv ==
    /\ rm \in [Servers -> Managers]
    /\ up \in [Servers -> BOOLEAN]
    /\ inFlight \subseteq Packets
    /\ restarted \subseteq Servers /\ misread \subseteq Servers

LinkInv ==
    /\ rm[Host].is_primary
    /\ \A r \in Servers : ~rm[r].is_primary => \A i \in Slots : rm[r].addr[i] = NoAddr
    /\ \A p \in inFlight : p.op = "PING" => p.to = Host
    /\ \A p \in inFlight : p.op # "PING" => p.seq # NONE

(* A replica that nobody has misled knows of entry 0 only.                  *)
FollowOf(r) ==
    r \notin misread /\ ~rm[r].is_primary =>
        /\ rm[r].primary_rm = Host /\ rm[r].primary_id = 0
        /\ \A i \in Slots : rm[r].active[i] => i = 0

FollowInv ==
    /\ \A p \in inFlight : p.op # "REPLICATED" => ~p.data[2]
    /\ \A r \in Servers : FollowOf(r)

(* The condition of OnePrimary.  Once it is false it stays so.              *)
Steady == Patient /\ up[Host] /\ HostKept /\ ~Unrecorded

(* Nobody has been registered yet: what the host forwards comes back to it. *)
Fresh ==
    /\ \A p \in inFlight : \/ p.op = "PING" /\ p.seq = NONE
                           \/ p.op = "REPLICATED" /\ p.to = Host
    /\ \A r \in Servers : rm[r].from = NoAddr
    /\ \A r \in Replicas : rm[r].ping.seq = NONE /\ \A i \in Slots : rm[r].addr[i] = NoAddr
    /\ rm[Host].ping.op = "PING" => rm[Host].ping.seq = 0
    /\ rm[Host].server_id = 0
    /\ \A i \in Slots : /\ rm[Host].active[i] <=> i = 0
                        /\ rm[Host].addr[i] = IF i = 0 THEN Host ELSE NoAddr

(* What the replica waits for is on its way: its ping, or some packet.      *)
Expects(r) == \E p \in inFlight : p.to = r \/ (p.op = "PING" /\ p.from = r)

Follows(r) ==
    /\ ~rm[r].is_primary /\ rm[r].primary_rm = Host
    /\ rm[r].pc = "wait" => Expects(r)

OneInv ==
    Steady =>
        /\ rm[Host].len = "ok" \/ Fresh
        /\ \A r \in Replicas : up[r] /\ rm[r].len # "negative" => Follows(r)

(* Server r has given entry i to address a.                                 *)
Entered(r, a, i) == i \in Slots /\ rm[r].active[i] /\ rm[r].addr[i] = a

(* The id of replica r is its entry.  Until r has heard of an id, what is   *)
(* on its way to it names an entry of its own, and whatever the host may    *)
(* still answer, or answer once more, is a first ping.                      *)
IdOf(r) ==
    /\ r \notin misread /\ rm[r].server_id # -1 => Entered(Host, r, rm[r].server_id)
    /\ rm[r].ping.seq = NONE =>
         /\ \A p \in inFlight :
              /\ p.op = "ACK" /\ p.to = r => p.seq = -1 \/ Entered(Host, r, p.seq)
              /\ p.op = "PING" /\ p.from = r => p.seq = NONE
         /\ rm[Host].from = r /\ rm[Host].ping.op = "PING" => rm[Host].ping.seq = NONE

IdInv ==
    HostKept =>
        /\ rm[Host].server_id = 0 /\ Entered(Host, Host, 0)
        /\ rm[Host].len # "ok" => rm[Host].from = NoAddr
        /\ \A r \in Replicas : rm[r].from \notin Replicas
        /\ \A p \in inFlight : p.to \in Replicas => p.from \notin Replicas
        /\ \A r \in Replicas \ restarted : IdOf(r)

IInv == TypeInv /\ LinkInv /\ FollowInv /\ OneInv

-----------------------------------------------------------------------------
(* The numbers, and the entry that Least chooses *)

LEMMA Numbers ==
  /\ 0 \in Slots /\ 1 \in Slots /\ Slots \subseteq Ids /\ Slots \subseteq Int
  /\ -1 \in Ids \ Slots /\ LOGIN \in Ids /\ 0 \in Ids
  /\ Ids \subseteq Seqs /\ NONE \in Seqs /\ NONE \notin Ids
  /\ Host \in Servers /\ Replicas = Servers \ {Host} /\ NoAddr \notin Servers
BY ReplicaAssumption DEF Slots, Seqs, Ids, NONE, LOGIN, Servers

(* A nonempty set of entries has a least one: the sets 0 .. i for the       *)
(* entries i have a smallest among them.                                    *)
LEMMA LeastIn ==
  ASSUME NEW S \in SUBSET Slots, S # {}
  PROVE  Least(S) \in S
<1> DEFINE All == Slots
           T == {0 .. i : i \in S}
<1>0. MAXSERVERS - 1 \in Int /\ IsFiniteSet(All)
  BY ReplicaAssumption, FS_Interval DEF Slots
<1>1. IsWellFoundedOn(StrictSubsetOrdering(All), SUBSET All)
  <2>1. SUBSET All = FiniteSubsetsOf(All)
    BY <1>0, FS_FiniteSubsetsOfFinite
  <2> HIDE DEF All
  <2> QED  BY <2>1, FS_StrictSubsetOrderingWellFounded
<1>2. \A i \in S : 0 .. i \subseteq All
  BY ReplicaAssumption DEF Slots
<1>3. T \subseteq SUBSET All
  BY <1>2
<1>4. T # {}
  OBVIOUS
<1>5. PICK x \in T : \A y \in T : <<y, x>> \notin StrictSubsetOrdering(All)
  <2> HIDE DEF T, All
  <2> QED  BY <1>1, <1>3, <1>4, WFMin
<1>6. PICK i \in S : x = 0 .. i
  OBVIOUS
<1>7. ASSUME NEW j \in S, ~(i <= j)  PROVE FALSE
  <2>1. i \in Nat /\ j \in Nat /\ j < i
    BY <1>7 DEF Slots
  <2>2. 0 .. j \subseteq 0 .. i /\ 0 .. j # 0 .. i
    <3>1. i \in 0 .. i /\ i \notin 0 .. j
      BY <2>1
    <3> QED  BY <2>1, <3>1
  <2>3. 0 .. j \in T /\ 0 .. j \in SUBSET All /\ 0 .. i \in SUBSET All
    BY <1>2
  <2>4. <<0 .. j, 0 .. i>> \in StrictSubsetOrdering(All)
    BY <2>2, <2>3 DEF StrictSubsetOrdering
  <2> QED  BY <1>5, <1>6, <2>3, <2>4
<1> QED  BY <1>6, <1>7 DEF Least

-----------------------------------------------------------------------------
(* What the steps do to one replica manager *)

(* Server r moves and no other does.                                        *)
Moves(r) ==
    /\ rm' \in [Servers -> Managers]
    /\ \A s \in Servers \ {r} : rm'[s] = rm[s]

Replies == [seq : Ids, data : Bytes]

(* Insert takes a free entry, if there is one, and leaves the others alone. *)
LEMMA InsertIn ==
  ASSUME NEW m \in Managers, NEW from \in Addresses,
         NEW e, e = Insert(m, from)
  PROVE  /\ e.slot \in Ids
         /\ e.active \in [Slots -> BOOLEAN] /\ e.addr \in [Slots -> Addresses]
         /\ \A i \in Slots : m.active[i] => e.active[i] /\ e.addr[i] = m.addr[i]
         /\ \A i \in Slots : e.addr[i] \in {m.addr[i], from}
         /\ \A i \in Slots : ~m.active[i] =>
              \E j \in Slots : ~m.active[j] /\ e.active[j] /\ e.addr[j] = from
         /\ e.slot = -1 \/ (e.slot \in Slots /\ e.active[e.slot] /\ e.addr[e.slot] = from)
<1> DEFINE free == {i \in Slots : ~m.active[i]}
           k == IF free = {} THEN -1 ELSE Least(free)
<1>1. /\ e.slot = k
      /\ e.active = [j \in Slots |-> m.active[j] \/ j = k]
      /\ e.addr = [j \in Slots |-> IF j = k THEN from ELSE m.addr[j]]
  BY DEF Insert
<1>2. IF free = {} THEN k = -1 ELSE k \in free
  BY LeastIn
<1>3. m.active \in [Slots -> BOOLEAN] /\ m.addr \in [Slots -> Addresses]
  BY DEF Managers
<1>4. k \in Ids
  <2> HIDE DEF k
  <2> QED  BY <1>2, Numbers
<1> HIDE DEF k
<1>5. \A i \in Slots : m.active[i] => i # k
  BY <1>2, Numbers
<1>6. \A i \in Slots : ~m.active[i] => k \in Slots /\ ~m.active[k]
  BY <1>2
<1>7. e.active \in [Slots -> BOOLEAN] /\ e.addr \in [Slots -> Addresses]
  BY <1>1, <1>3
<1>9. k = -1 \/ k \in Slots
  BY <1>2
<1>8. \A i \in Slots : /\ e.active[i] = (m.active[i] \/ i = k)
                       /\ e.addr[i] = IF i = k THEN from ELSE m.addr[i]
  BY <1>1
<1>10. e.slot = -1 \/ (e.slot \in Slots /\ e.active[e.slot] /\ e.addr[e.slot] = from)
  BY <1>1, <1>8, <1>9
<1>11. \A i \in Slots : /\ m.active[i] => e.active[i] /\ e.addr[i] = m.addr[i]
                        /\ e.addr[i] \in {m.addr[i], from}
  BY <1>5, <1>8
<1>12. \A i \in Slots : ~m.active[i] =>
         \E j \in Slots : ~m.active[j] /\ e.active[j] /\ e.addr[j] = from
  BY <1>6, <1>8
<1> QED  BY <1>1, <1>4, <1>7, <1>10, <1>11, <1>12

LEMMA UpdateListIn ==
  ASSUME NEW active \in [Slots -> BOOLEAN], NEW data \in Bytes
  PROVE  /\ UpdateList(active, data) \in [Slots -> BOOLEAN]
         /\ (\A i \in Slots : active[i] => i = 0) /\ ~data[2] =>
              \A i \in Slots : UpdateList(active, data)[i] => i = 0
BY Numbers DEF UpdateList, Bytes

LEMMA AnswerStep ==
  ASSUME TypeInv, LinkInv, NEW r \in Servers, NEW p \in inFlight, Answer(r, p)
  PROVE  /\ Moves(r) /\ r \in Replicas /\ p.op # "PING"
         /\ ~rm[r].is_primary /\ ~rm'[r].is_primary
         /\ rm'[r].primary_id = rm[r].primary_id
         /\ rm'[r].primary_rm = rm[r].primary_rm
         /\ rm'[r].addr = rm[r].addr
         /\ rm'[r].pc = "send" /\ rm'[r].len = "ok"
         /\ rm[r].len # "negative"
         /\ rm'[r].active = UpdateList(rm[r].active, p.data)
         /\ rm'[r].from \in {p.from, rm[r].from}
         /\ rm'[r].ping.seq # NONE
         /\ rm'[r].server_id = IF rm[r].ping.seq = NONE THEN p.seq ELSE rm[r].server_id
<1>1. r \in Replicas /\ p.op # "PING" /\ p.seq # NONE /\ p \in Packets
  BY Numbers DEF Answer, LinkInv, TypeInv
<1> DEFINE new == rm[r].ping.seq = NONE
           seq == IF new THEN p.seq ELSE rm[r].ping.seq
           m == [rm[r] EXCEPT !.pc = "send", !.from = From(r, p), !.len = "ok",
                              !.reply = [seq |-> p.seq, data |-> p.data],
                              !.ping = [op |-> rm[r].ping.op, seq |-> seq],
                              !.server_id = IF new THEN p.seq ELSE rm[r].server_id,
                              !.active = UpdateList(rm[r].active, p.data)]
<1>2. rm' = [rm EXCEPT ![r] = m] /\ ~rm[r].is_primary /\ rm[r].len # "negative"
  BY DEF Answer
<1>3. rm[r] \in Managers /\ rm \in [Servers -> Managers]
  BY DEF TypeInv
<1>4. /\ From(r, p) \in Addresses /\ p.data \in Bytes /\ p.seq \in Ids
  BY <1>1, <1>3, Numbers DEF From, Packets, Managers, Addresses, Ids
<1>5. UpdateList(rm[r].active, p.data) \in [Slots -> BOOLEAN]
  BY <1>3, <1>4, UpdateListIn DEF Managers
<1>6. m \in Managers
  BY <1>3, <1>4, <1>5, Numbers DEF Managers, Lengths
<1>7. rm'[r] = m
  BY <1>2, <1>3
<1>8. /\ m.is_primary = rm[r].is_primary /\ m.primary_id = rm[r].primary_id
      /\ m.primary_rm = rm[r].primary_rm /\ m.addr = rm[r].addr /\ m.pc = "send"
      /\ m.len = "ok"
      /\ m.active = UpdateList(rm[r].active, p.data)
      /\ m.from = From(r, p) /\ m.ping.seq = seq
      /\ m.server_id = IF new THEN p.seq ELSE rm[r].server_id
  BY <1>3 DEF Managers
<1>10. From(r, p) \in {p.from, rm[r].from} /\ seq # NONE
  BY <1>1 DEF From
<1> HIDE DEF m
<1>9. Moves(r)
  BY <1>2, <1>3, <1>6 DEF Moves
<1> QED  BY <1>1, <1>2, <1>7, <1>8, <1>9, <1>10

LEMMA GiveUpStep ==
  ASSUME TypeInv, LinkInv, NEW r \in Servers, ~rm[r].is_primary,
         NEW reply \in Replies, GiveUp(r, reply)
  PROVE  /\ Moves(r) /\ r \in Replicas
         /\ rm'[r].addr = rm[r].addr /\ rm'[r].from = rm[r].from
         /\ rm'[r].ping = rm[r].ping /\ rm'[r].len = rm[r].len
         /\ rm'[r].server_id = rm[r].server_id
         /\ rm[r].primary_id = 0 /\ (\A i \in Slots : rm[r].active[i] => i = 0) =>
              rm'[r].is_primary
<1>1. r \in Replicas /\ \A i \in Slots : rm[r].addr[i] = NoAddr
  BY Numbers DEF LinkInv
<1>2. rm[r] \in Managers /\ rm \in [Servers -> Managers]
  BY DEF TypeInv
<1> DEFINE struck == [rm[r].active EXCEPT ![rm[r].primary_id] = FALSE]
           b == [rm[r] EXCEPT !.active = struck]
           on == {i \in Slots : b.active[i]}
           self == on = {} \/ Least(on) = b.server_id
           e == [b EXCEPT !.primary_id = IF self THEN b.server_id ELSE Least(on),
                          !.is_primary = self]
           m == [e EXCEPT !.pc = "send", !.reply = reply,
                          !.primary_rm = AddrOf(e, e.primary_id),
                          !.active = UpdateList(e.active, reply.data)]
<1>3. b = [rm[r] EXCEPT !.active[rm[r].primary_id] = FALSE]
  BY <1>2 DEF Managers
<1>4. rm' = [rm EXCEPT ![r] = m]
  BY <1>3 DEF GiveUp, Elect
<1>5. struck \in [Slots -> BOOLEAN] /\ b \in Managers /\ b.active = struck
  BY <1>2 DEF Managers
<1>6. self \in BOOLEAN /\ (on # {} => Least(on) \in Ids) /\ b.server_id \in Ids
  <2>1. self \in BOOLEAN
    OBVIOUS
  <2>2. b.server_id \in Ids
    BY <1>5 DEF Managers
  <2>3. on \in SUBSET Slots
    OBVIOUS
  <2> HIDE DEF on
  <2>4. on # {} => Least(on) \in Ids
    BY <2>3, LeastIn, Numbers
  <2> QED  BY <2>1, <2>2, <2>4
<1>7. rm[r].primary_id = 0 /\ (\A i \in Slots : rm[r].active[i] => i = 0) => self
  BY <1>2, <1>5 DEF Managers
<1> HIDE DEF struck, on, self
<1>8. /\ e \in Managers /\ e.active = struck /\ e.addr = rm[r].addr
      /\ e.is_primary = self
  <2>1. b.addr = rm[r].addr
    BY <1>2 DEF Managers
  <2>2. (IF self THEN b.server_id ELSE Least(on)) \in Ids
    BY <1>6 DEF self
  <2> DEFINE id == IF self THEN b.server_id ELSE Least(on)
  <2> HIDE DEF b, id
  <2> QED  BY <2>1, <2>2, <1>5, <1>6 DEF Managers
<1>9. AddrOf(e, e.primary_id) = NoAddr
  BY <1>1, <1>8 DEF AddrOf
<1>10. UpdateList(e.active, reply.data) \in [Slots -> BOOLEAN]
  BY <1>5, <1>8, UpdateListIn DEF Replies
<1>11. /\ e.from = rm[r].from /\ e.ping = rm[r].ping /\ e.len = rm[r].len
       /\ e.server_id = rm[r].server_id
  BY <1>2, <1>5 DEF Managers
<1> HIDE DEF b, e
<1>12. m \in Managers
  BY <1>8, <1>9, <1>10, Numbers DEF Managers, Replies
<1>13. /\ m.addr = e.addr /\ m.from = e.from /\ m.ping = e.ping /\ m.len = e.len
       /\ m.server_id = e.server_id /\ m.is_primary = e.is_primary
  BY <1>8 DEF Managers
<1> HIDE DEF m
<1>14. rm'[r] = m /\ Moves(r)
  BY <1>2, <1>4, <1>12 DEF Moves
<1> QED  BY <1>1, <1>7, <1>8, <1>11, <1>13, <1>14

Heard == [op : {"PING", "ACK", "REPLICATED"}, seq : Seqs]

(* The answers that server r may send to address a.                         *)
AcksTo(r, a) ==
    {p \in Packets : /\ p.op = "ACK" /\ p.from = r /\ p.to = a
                     /\ p.seq \in Ids /\ ~p.data[2]}

LEMMA HandleStep ==
  ASSUME TypeInv, NEW r \in Servers, NEW ping \in Heard,
         NEW from \in Addresses, NEW len \in Lengths, NEW others,
         Handle(r, ping, from, len, others)
  PROVE  /\ Moves(r)
         /\ rm'[r].is_primary = rm[r].is_primary
         /\ rm'[r].server_id = rm[r].server_id
         /\ rm'[r].from = from /\ rm'[r].len = len /\ rm'[r].ping = ping
         /\ \A i \in Slots : rm[r].active[i] =>
              rm'[r].active[i] /\ rm'[r].addr[i] = rm[r].addr[i]
         /\ \A i \in Slots : rm'[r].addr[i] \in {rm[r].addr[i], from}
         /\ IF ping.op = "PING" /\ ping.seq = NONE
              THEN \A i \in Slots : ~rm[r].active[i] =>
                     \E j \in Slots : /\ ~rm[r].active[j] /\ rm'[r].active[j]
                                      /\ rm'[r].addr[j] = from
              ELSE rm'[r].active = rm[r].active /\ rm'[r].addr = rm[r].addr
         /\ IF ping.op = "PING" /\ from # NoAddr
              THEN \E p \in AcksTo(r, from) :
                     /\ inFlight' = others \cup {p}
                     /\ ping.seq = NONE => p.seq = -1 \/ Entered(r, from, p.seq)'
              ELSE inFlight' = others
<1> DEFINE me == [rm[r] EXCEPT !.ping = ping, !.from = from, !.len = len]
           entry == Entry(r, ping, from)
           m == [me EXCEPT !.active = entry.active, !.addr = entry.addr,
                           !.reply = [seq |-> entry.slot,
                                      data |-> Copied(entry.active)]]
           now == IF ping.op = "PING" THEN m ELSE me
<1>1. rm[r] \in Managers /\ rm \in [Servers -> Managers]
  BY DEF TypeInv
<1>2. /\ entry.slot \in Ids
      /\ entry.active \in [Slots -> BOOLEAN] /\ entry.addr \in [Slots -> Addresses]
      /\ \A i \in Slots : rm[r].active[i] => entry.active[i] /\ entry.addr[i] = rm[r].addr[i]
      /\ \A i \in Slots : entry.addr[i] \in {rm[r].addr[i], from}
      /\ IF ping.seq = NONE
           THEN \A i \in Slots : ~rm[r].active[i] =>
                  \E j \in Slots : /\ ~rm[r].active[j] /\ entry.active[j]
                                   /\ entry.addr[j] = from
           ELSE entry.active = rm[r].active /\ entry.addr = rm[r].addr
      /\ ping.seq = NONE =>
           \/ entry.slot = -1
           \/ entry.slot \in Slots /\ entry.active[entry.slot] /\ entry.addr[entry.slot] = from
  <2>1. CASE ping.seq = NONE
    <3>1. entry = Insert(rm[r], from)
      BY <2>1 DEF Entry
    <3> HIDE DEF entry
    <3> QED  BY <1>1, <2>1, <3>1, InsertIn
  <2>2. CASE ping.seq # NONE
    <3>1. /\ entry.slot = rm[r].reply.seq /\ entry.active = rm[r].active
          /\ entry.addr = rm[r].addr
      BY <2>2 DEF Entry
    <3> HIDE DEF entry
    <3> QED  BY <1>1, <2>2, <3>1 DEF Managers
  <2> QED  BY <2>1, <2>2
<1>3. rm' = [rm EXCEPT ![r] = now]
  BY DEF Handle
<1>4. inFlight' = IF ping.op = "PING" THEN others \cup AckTo(r, from, entry) ELSE others
  BY DEF Handle
<1> HIDE DEF entry
<1>5. Copied(entry.active) \in Bytes /\ ~Copied(entry.active)[2]
  BY <1>2, Numbers DEF Copied, Bytes
<1>6. IF ping.op = "PING" /\ from # NoAddr
        THEN \E p \in AcksTo(r, from) : inFlight' = others \cup {p} /\ p.seq = entry.slot
        ELSE inFlight' = others
  <2> DEFINE ack == Packet("ACK", r, from, entry.slot, Copied(entry.active))
  <2>1. CASE from # NoAddr
    <3>1. ack \in AcksTo(r, from) /\ ack.seq = entry.slot
      BY <1>2, <1>5, <2>1, Numbers DEF AcksTo, Packet, Packets, Addresses
    <3>2. AckTo(r, from, entry) = {ack}
      BY <2>1 DEF AckTo
    <3> HIDE DEF ack
    <3> QED  BY <1>4, <2>1, <3>1, <3>2
  <2>2. CASE from = NoAddr
    <3>1. AckTo(r, from, entry) = {}
      BY <2>2 DEF AckTo
    <3> QED  BY <1>4, <2>2, <3>1
  <2> QED  BY <2>1, <2>2
<1>7. /\ me \in Managers /\ me.is_primary = rm[r].is_primary
      /\ me.server_id = rm[r].server_id
      /\ me.from = from /\ me.len = len /\ me.ping = ping
      /\ me.active = rm[r].active /\ me.addr = rm[r].addr
  BY <1>1 DEF Managers, Heard
<1> HIDE DEF me
<1>8. /\ m \in Managers /\ m.is_primary = me.is_primary
      /\ m.server_id = me.server_id
      /\ m.from = me.from /\ m.len = me.len /\ m.ping = me.ping
      /\ m.active = entry.active /\ m.addr = entry.addr
  BY <1>2, <1>5, <1>7 DEF Managers, Bytes
<1> HIDE DEF m
<1>9. rm'[r] = now /\ Moves(r)
  BY <1>1, <1>3, <1>7, <1>8 DEF Moves
<1> QED
  <2>1. CASE ping.op = "PING"
    <3>0. PICK k \in Ids : k = entry.slot
      BY <1>2
    <3>1. ping.seq = NONE => k = -1 \/ Entered(r, from, k)'
      BY <1>2, <1>8, <1>9, <2>1, <3>0 DEF Entered
    <3>2. from # NoAddr =>
            \E p \in AcksTo(r, from) :
              /\ inFlight' = others \cup {p}
              /\ ping.seq = NONE => p.seq = -1 \/ Entered(r, from, p.seq)'
      <4> SUFFICES ASSUME from # NoAddr
                   PROVE  \E p \in AcksTo(r, from) :
                            /\ inFlight' = others \cup {p}
                            /\ ping.seq = NONE => p.seq = -1 \/ Entered(r, from, p.seq)'
        OBVIOUS
      <4>1. PICK p \in AcksTo(r, from) : inFlight' = others \cup {p} /\ p.seq = entry.slot
        BY <1>6, <2>1
      <4>2. ping.seq = NONE => p.seq = -1 \/ Entered(r, from, p.seq)'
        BY <3>0, <3>1, <4>1
      <4> QED  BY <4>1, <4>2
    <3>3. from = NoAddr => inFlight' = others
      BY <1>6
    <3> QED  BY <1>2, <1>7, <1>8, <1>9, <2>1, <3>2, <3>3
  <2>2. CASE ping.op # "PING"
    BY <1>1, <1>6, <1>7, <1>9, <2>2
  <2> QED  BY <2>1, <2>2

LEMMA PingStep ==
  ASSUME TypeInv, NEW r \in Servers, Ping(r)
  PROVE  /\ Moves(r) /\ ~rm[r].is_primary
         /\ rm'[r] = [rm[r] EXCEPT !.pc = "wait"]
         /\ inFlight' = inFlight \cup
              (IF rm[r].primary_rm = NoAddr THEN {}
               ELSE {Packet("PING", r, rm[r].primary_rm, rm[r].ping.seq,
                            <<FALSE, FALSE>>)})
<1>1. rm[r] \in Managers /\ rm \in [Servers -> Managers]
  BY DEF TypeInv
<1> DEFINE m == [rm[r] EXCEPT !.pc = "wait"]
<1>2. m \in Managers
  BY <1>1 DEF Managers
<1>3. rm' = [rm EXCEPT ![r] = m] /\ ~rm[r].is_primary
  BY <1>1 DEF Ping
<1> HIDE DEF m
<1>4. Moves(r) /\ rm'[r] = m
  BY <1>1, <1>2, <1>3 DEF Moves
<1> QED  BY <1>3, <1>4 DEF Ping, m

LEMMA StartedIn ==
  ASSUME NEW r \in Servers, NEW m \in Started(r)
  PROVE  /\ m \in Managers /\ m.pc = "send" /\ (m.is_primary <=> r = Host)
         /\ m.primary_id = 0 /\ m.primary_rm = Host
         /\ m.from = NoAddr /\ \E g \in Garbage : m.reply.data = g.data
         /\ \A i \in Slots : (m.active[i] <=> r = Host /\ i = 0)
         /\ \A i \in Slots : m.addr[i] = IF r = Host /\ i = 0 THEN Host ELSE NoAddr
         /\ m.ping.seq = IF r = Host THEN 0 ELSE NONE
         /\ m.server_id = IF r = Host THEN 0 ELSE -1
<1>1. PICK g \in Garbage :
        m = [pc |-> "send", is_primary |-> r = Host,
             server_id |-> IF r = Host THEN 0 ELSE -1, primary_id |-> 0,
             primary_rm |-> Host,
             active |-> [i \in Slots |-> r = Host /\ i = 0],
             addr |-> [i \in Slots |-> IF r = Host /\ i = 0 THEN Host ELSE NoAddr],
             ping |-> [op |-> "PING", seq |-> IF r = Host THEN 0 ELSE NONE],
             reply |-> [seq |-> -1, data |-> g.data],
             from |-> NoAddr, len |-> g.len]
  BY DEF Started
<1>2. g.data \in Bytes /\ g.len \in Lengths
  BY ReplicaAssumption DEF Bytes
<1>3. [i \in Slots |-> r = Host /\ i = 0] \in [Slots -> BOOLEAN]
  OBVIOUS
<1>4. [i \in Slots |-> IF r = Host /\ i = 0 THEN Host ELSE NoAddr] \in [Slots -> Addresses]
  BY Numbers DEF Addresses
<1>5. (r = Host) \in BOOLEAN
  OBVIOUS
<1>6. m \in Managers
  BY <1>1, <1>2, <1>3, <1>4, <1>5, Numbers DEF Managers, Addresses
<1> QED  BY <1>1, <1>6

LEMMA RestartStep ==
  ASSUME TypeInv, NEW r \in Servers, Restart(r)
  PROVE  Moves(r) /\ rm'[r] \in Started(r)
<1>1. PICK m \in Started(r) : rm' = [rm EXCEPT ![r] = m]
  BY DEF Restart
<1>2. m \in Managers
  BY StartedIn
<1> QED  BY <1>1, <1>2 DEF Moves, TypeInv

(* A server that gives up gets its buffer from the answer before, or from   *)
(* the packet that it failed to receive.                                    *)
LEMMA LostStep ==
  ASSUME TypeInv, LinkInv, NEW r \in Servers,
         Timeout(r) \/ \E p \in inFlight : FailedReceive(r, p)
  PROVE  /\ ~rm[r].is_primary
         /\ \E reply \in Replies :
              /\ GiveUp(r, reply)
              /\ \/ Timeout(r) /\ reply = rm[r].reply
                 \/ \E p \in inFlight : /\ FailedReceive(r, p) /\ p.op # "PING"
                                        /\ reply = [seq |-> p.seq, data |-> p.data]
<1>1. CASE Timeout(r)
  <2>1. rm[r].reply \in Replies
    BY DEF TypeInv, Managers, Replies
  <2> QED  BY <1>1, <2>1 DEF Timeout
<1>2. CASE \E p \in inFlight : FailedReceive(r, p)
  <2>1. PICK p \in inFlight : FailedReceive(r, p)
    BY <1>2
  <2>2. p.op # "PING" /\ p.seq # NONE /\ p \in Packets
    BY <2>1 DEF FailedReceive, LinkInv, TypeInv
  <2>3. [seq |-> p.seq, data |-> p.data] \in Replies
    BY <2>2 DEF Packets, Replies, Ids
  <2> QED  BY <2>1, <2>2, <2>3 DEF FailedReceive
<1> QED  BY <1>1, <1>2

(* What a primary handles: a packet, or the packet before once more.        *)
LEMMA PrimaryStep ==
  ASSUME TypeInv, NEW r \in Servers, Primary(r)
  PROVE  /\ rm[r].is_primary /\ up[r]
         /\ UNCHANGED <<up, crashes, replications, restarted, misread>>
         /\ \E ping \in Heard, from \in Addresses, len \in Lengths, others \in SUBSET inFlight :
              /\ Handle(r, ping, from, len, others)
              /\ rm[r].len = "negative" => len = "negative"
              /\ \/ /\ Silence(r) /\ ping = rm[r].ping /\ from = rm[r].from
                    /\ len = rm[r].len /\ others = inFlight
                 \/ \E p \in inFlight :
                      /\ p.to = r /\ others = inFlight \ {p}
                      /\ ping = [op |-> p.op, seq |-> p.seq]
                      /\ from = From(r, p) /\ len = LenAfter(r)
<1>1. rm[r] \in Managers
  BY DEF TypeInv
<1>2. CASE Silence(r)
  <2>1. rm[r].ping \in Heard /\ rm[r].from \in Addresses /\ rm[r].len \in Lengths
    BY <1>1 DEF Managers, Heard
  <2>2. inFlight \in SUBSET inFlight
    OBVIOUS
  <2>3. Handle(r, rm[r].ping, rm[r].from, rm[r].len, inFlight)
    BY <1>2 DEF Silence
  <2> QED  BY <1>2, <2>1, <2>2, <2>3 DEF Silence, history
<1>3. CASE \E p \in inFlight : Serve(r, p)
  <2>1. PICK p \in inFlight : Serve(r, p)
    BY <1>3
  <2>2. p \in Packets
    BY DEF TypeInv
  <2>3. [op |-> p.op, seq |-> p.seq] \in Heard
    BY <2>2 DEF Packets, Heard
  <2>4. From(r, p) \in Addresses
    BY <1>1, <2>2 DEF From, Packets, Managers
  <2>5. /\ LenAfter(r) \in Lengths
        /\ rm[r].len = "negative" => LenAfter(r) = "negative"
    BY DEF LenAfter, Lengths
  <2>6. inFlight \ {p} \in SUBSET inFlight
    OBVIOUS
  <2> QED  BY <2>1, <2>3, <2>4, <2>5, <2>6 DEF Serve, history
<1> QED  BY <1>2, <1>3 DEF Primary

LEMMA ReplicationStep ==
  ASSUME TypeInv, NEW r \in Servers, Replication(r)
  PROVE  /\ UNCHANGED <<rm, up, crashes, restarted, misread>>
         /\ inFlight \subseteq inFlight'
         /\ \A p \in inFlight' \ inFlight :
              /\ p \in Packets /\ p.op = "REPLICATED" /\ p.seq # NONE
              /\ p.from = NoAddr
              /\ \E i \in Slots : p.to = rm[r].addr[i] /\ rm[r].addr[i] # NoAddr
<1>1. rm[r] \in Managers
  BY DEF TypeInv
<1> DEFINE Copy(i, seq, data) == Packet("REPLICATED", NoAddr, rm[r].addr[i], seq, data)
<1>2. ASSUME NEW i \in Slots, rm[r].addr[i] # NoAddr,
             NEW seq \in Seqs \ {NONE}, NEW data \in BOOLEAN \X BOOLEAN
      PROVE  /\ Copy(i, seq, data) \in Packets /\ Copy(i, seq, data).op = "REPLICATED"
             /\ Copy(i, seq, data).seq # NONE /\ Copy(i, seq, data).from = NoAddr
             /\ Copy(i, seq, data).to = rm[r].addr[i]
  <2>1. rm[r].addr[i] \in Servers
    BY <1>1, <1>2 DEF Managers, Addresses
  <2> QED  BY <1>2, <2>1 DEF Packet, Packets, Addresses, Bytes
<1>3. CASE \E seq \in {0, LOGIN}, long \in BOOLEAN : Replicate(r, seq, long)
  <2>1. PICK seq \in {0, LOGIN}, long \in BOOLEAN : Replicate(r, seq, long)
    BY <1>3
  <2>2. PICK data \in BOOLEAN \X BOOLEAN : data = <<TRUE, long>>
    OBVIOUS
  <2>3. seq \in Seqs \ {NONE}
    BY Numbers
  <2>4. ASSUME NEW p \in inFlight' \ inFlight
        PROVE  \E i \in Slots : rm[r].addr[i] # NoAddr /\ p = Copy(i, seq, data)
    BY <2>1, <2>2, <2>4 DEF Replicate
  <2>5. UNCHANGED <<rm, up, crashes, restarted, misread>> /\ inFlight \subseteq inFlight'
    BY <2>1 DEF Replicate
  <2> HIDE DEF Copy
  <2> QED  BY <1>2, <2>3, <2>4, <2>5
<1>4. CASE \E i \in Slots, file \in FilePackets : Forward(r, i, file)
  <2>1. PICK i \in Slots, file \in FilePackets : Forward(r, i, file)
    BY <1>4
  <2>2. file.seq \in Seqs \ {NONE} /\ file.data \in BOOLEAN \X BOOLEAN
    <3>1. /\ file.seq \in Slots \cup {LOGIN} /\ file.data \in BOOLEAN \X BOOLEAN
      BY ReplicaAssumption
    <3> QED  BY <3>1, Numbers DEF Ids
  <2>3. rm[r].addr[i] # NoAddr /\ inFlight' = inFlight \cup {Copy(i, file.seq, file.data)}
    BY <2>1 DEF Forward
  <2>4. UNCHANGED <<rm, up, crashes, restarted, misread>>
    BY <2>1 DEF Forward
  <2> HIDE DEF Copy
  <2> QED  BY <1>2, <2>2, <2>3, <2>4
<1> QED  BY <1>3, <1>4 DEF Replication

Lost(r) == Timeout(r) \/ \E p \in inFlight : FailedReceive(r, p)

LEMMA NextCases ==
  ASSUME [Next]_vars
  PROVE  \/ UNCHANGED vars
         \/ \E r \in Servers :
              \/ Ping(r) \/ Lost(r) \/ Primary(r) \/ Crash(r) \/ Restart(r)
              \/ \E p \in inFlight : Answer(r, p)
              \/ Replication(r)
BY DEF Next, Replica, Lost

-----------------------------------------------------------------------------
(* Types and links *)

LEMMA TypeInit == Init => TypeInv /\ LinkInv
<1> SUFFICES ASSUME Init  PROVE TypeInv /\ LinkInv
  OBVIOUS
<1>1. \A r \in Servers : rm[r] \in Started(r)
  BY DEF Init
<1>2. \A r \in Servers : rm[r] \in Managers
  BY <1>1, StartedIn
<1>3. rm \in [Servers -> Managers]
  BY <1>2 DEF Init
<1>4. TypeInv
  BY <1>3 DEF Init, TypeInv
<1>5. /\ rm[Host].is_primary
      /\ \A r \in Servers : ~rm[r].is_primary => \A i \in Slots : rm[r].addr[i] = NoAddr
  BY <1>1, StartedIn, Numbers
<1> QED  BY <1>4, <1>5 DEF Init, LinkInv

(* The part of LinkInv that is about one server.                            *)
LinkOf(r) ==
    /\ r = Host => rm[r].is_primary
    /\ ~rm[r].is_primary => \A i \in Slots : rm[r].addr[i] = NoAddr

LEMMA LinkMoves ==
  ASSUME LinkInv, NEW r \in Servers, Moves(r), LinkOf(r)',
         \A p \in inFlight' \ inFlight :
            /\ p.op = "PING" => p.to = Host
            /\ p.op # "PING" => p.seq # NONE
  PROVE  LinkInv'
<1>1. rm'[Host].is_primary
  BY Numbers DEF LinkInv, LinkOf, Moves
<1>2. ASSUME NEW s \in Servers, ~rm'[s].is_primary, NEW i \in Slots
      PROVE  rm'[s].addr[i] = NoAddr
  BY <1>2 DEF LinkInv, LinkOf, Moves
<1>3. \A p \in inFlight' : /\ p.op = "PING" => p.to = Host
                          /\ p.op # "PING" => p.seq # NONE
  BY DEF LinkInv
<1> QED  BY <1>1, <1>2, <1>3 DEF LinkInv

LEMMA TypeNext == TypeInv /\ LinkInv /\ [Next]_vars => TypeInv' /\ LinkInv'
<1> SUFFICES ASSUME TypeInv, LinkInv, [Next]_vars  PROVE TypeInv' /\ LinkInv'
  OBVIOUS
<1>1. CASE UNCHANGED vars
  BY <1>1 DEF vars, history, TypeInv, LinkInv
<1> SUFFICES ASSUME NEW r \in Servers,
                    \/ Ping(r) \/ Lost(r) \/ Primary(r) \/ Crash(r) \/ Restart(r)
                    \/ \E p \in inFlight : Answer(r, p)
                    \/ Replication(r)
             PROVE  TypeInv' /\ LinkInv'
  BY <1>1, NextCases
<1>2. LinkOf(r)
  BY DEF LinkInv, LinkOf
<1>3. rm[r] \in Managers
  BY DEF TypeInv
<1>4. CASE Ping(r)
  <2>1. /\ Moves(r) /\ rm'[r] = [rm[r] EXCEPT !.pc = "wait"]
        /\ UNCHANGED <<up, restarted, misread>>
    BY <1>4, PingStep DEF Ping, history
  <2>2. \A p \in inFlight' \ inFlight :
          p \in Packets /\ p.op = "PING" /\ p.to = Host
    <3> DEFINE ping == Packet("PING", r, rm[r].primary_rm, rm[r].ping.seq, <<FALSE, FALSE>>)
    <3>1. rm[r].primary_rm # NoAddr => rm[r].primary_rm = Host
      BY <1>3 DEF Managers
    <3>2. rm[r].primary_rm = Host => ping \in Packets /\ ping.op = "PING" /\ ping.to = Host
      BY <1>3, Numbers DEF Packet, Packets, Managers, Addresses, Bytes
    <3>3. \A p \in inFlight' \ inFlight : rm[r].primary_rm # NoAddr /\ p = ping
      BY <1>4, PingStep
    <3> HIDE DEF ping
    <3> QED  BY <3>1, <3>2, <3>3
  <2>3. LinkOf(r)'
    BY <1>2, <1>3, <2>1 DEF LinkOf, Managers
  <2>4. TypeInv'
    BY <2>1, <2>2 DEF TypeInv, Moves
  <2> QED  BY <2>1, <2>2, <2>3, <2>4, LinkMoves
<1>5. CASE Lost(r)
  <2>1. PICK reply \in Replies : GiveUp(r, reply)
    BY <1>5, LostStep DEF Lost
  <2>2. ~rm[r].is_primary
    BY <1>5, LostStep DEF Lost
  <2>3. Moves(r) /\ r \in Replicas /\ rm'[r].addr = rm[r].addr
    BY <2>1, <2>2, GiveUpStep
  <2>4. /\ inFlight' \subseteq inFlight /\ misread' \subseteq Servers
        /\ up' \in [Servers -> BOOLEAN] /\ restarted' \subseteq Servers
    BY <1>5 DEF Lost, Timeout, FailedReceive, Misread, TypeInv, history
  <2>5. LinkOf(r)'
    BY <1>2, <2>2, <2>3, Numbers DEF LinkOf
  <2>6. TypeInv'
    BY <2>3, <2>4 DEF TypeInv, Moves
  <2> QED  BY <2>3, <2>4, <2>5, <2>6, LinkMoves
<1>6. CASE Primary(r)
  <2>1. PICK ping \in Heard, from \in Addresses, len \in Lengths, others \in SUBSET inFlight :
          Handle(r, ping, from, len, others)
    BY <1>6, PrimaryStep
  <2>2. rm[r].is_primary /\ UNCHANGED <<up, restarted, misread>>
    BY <1>6, PrimaryStep
  <2>3. Moves(r) /\ rm'[r].is_primary
    BY <2>1, <2>2, HandleStep
  <2>4. \A p \in inFlight' \ inFlight : p \in Packets /\ p.op = "ACK" /\ p.seq # NONE
    BY <2>1, HandleStep, Numbers DEF AcksTo
  <2>5. LinkOf(r)'
    BY <2>3 DEF LinkOf
  <2>6. TypeInv'
    BY <2>2, <2>3, <2>4 DEF TypeInv, Moves
  <2> QED  BY <2>3, <2>4, <2>5, <2>6, LinkMoves
<1>7. CASE Crash(r)
  BY <1>7 DEF Crash, TypeInv, LinkInv
<1>8. CASE Restart(r)
  <2>1. Moves(r) /\ rm'[r] \in Started(r)
    BY <1>8, RestartStep
  <2>2. /\ inFlight' = inFlight /\ misread' \subseteq Servers
        /\ up' \in [Servers -> BOOLEAN] /\ restarted' \subseteq Servers
    BY <1>8 DEF Restart, TypeInv
  <2>3. LinkOf(r)'
    BY <2>1, StartedIn DEF LinkOf
  <2>4. TypeInv'
    BY <2>1, <2>2 DEF TypeInv, Moves
  <2> QED  BY <2>1, <2>2, <2>3, <2>4, LinkMoves
<1>9. CASE \E p \in inFlight : Answer(r, p)
  <2>1. PICK p \in inFlight : Answer(r, p)
    BY <1>9
  <2>2. /\ Moves(r) /\ r \in Replicas /\ rm'[r].addr = rm[r].addr
        /\ ~rm[r].is_primary /\ ~rm'[r].is_primary
    BY <2>1, AnswerStep
  <2>3. /\ inFlight' \subseteq inFlight /\ misread' \subseteq Servers
        /\ up' \in [Servers -> BOOLEAN] /\ restarted' \subseteq Servers
    BY <2>1 DEF Answer, Misread, TypeInv
  <2>4. LinkOf(r)'
    BY <1>2, <2>2, Numbers DEF LinkOf
  <2>5. TypeInv'
    BY <2>2, <2>3 DEF TypeInv, Moves
  <2> QED  BY <2>2, <2>3, <2>4, <2>5, LinkMoves
<1>10. CASE Replication(r)
  <2>1. /\ UNCHANGED <<rm, up, restarted, misread>>
        /\ \A p \in inFlight' \ inFlight :
             p \in Packets /\ p.op = "REPLICATED" /\ p.seq # NONE
    BY <1>10, ReplicationStep
  <2> QED  BY <2>1 DEF TypeInv, LinkInv
<1> QED  BY <1>4, <1>5, <1>6, <1>7, <1>8, <1>9, <1>10

(* The types, for any number of servers, crashes and packets.               *)
THEOREM TypeInvariant == Spec => [](TypeInv /\ LinkInv)
<1>1. Init => TypeInv /\ LinkInv
  BY TypeInit
<1>2. (TypeInv /\ LinkInv) /\ [Next]_vars => (TypeInv /\ LinkInv)'
  BY TypeNext
<1> QED  BY <1>1, <1>2, PTL DEF Spec

(* TypeOK: ids, entries and addresses keep their ranges whatever packets    *)
(* are taken for answers.                                                   *)
THEOREM TypeCorrect == Spec => []TypeOK
<1>1. TypeInv /\ LinkInv => TypeOK
  <2> SUFFICES ASSUME TypeInv  PROVE TypeOK
    OBVIOUS
  <2>1. \A r \in Servers : rm[r] \in Managers
    BY DEF TypeInv
  <2>2. \A p \in inFlight : p.to \in Servers /\ p.seq \in Seqs
    BY DEF TypeInv, Packets
  <2>3. ASSUME NEW r \in Servers
        PROVE  /\ rm[r].pc \in {"send", "wait"} /\ rm[r].is_primary \in BOOLEAN
               /\ rm[r].server_id \in Seqs \ {NONE}
               /\ rm[r].primary_id \in Seqs \ {NONE}
               /\ rm[r].primary_rm \in Servers \cup {NoAddr}
               /\ rm[r].active \in [Slots -> BOOLEAN]
               /\ rm[r].addr \in [Slots -> Servers \cup {NoAddr}]
               /\ rm[r].ping.seq \in Seqs /\ rm[r].reply.seq \in Seqs
    <3>1. Host \in Servers
      BY Numbers
    <3> QED  BY <2>1, <3>1 DEF Managers, Ids, Addresses
  <2> QED  BY <2>2, <2>3 DEF TypeOK
<1> QED  BY <1>1, TypeInvariant, PTL

-----------------------------------------------------------------------------
(* A replica follows the host until it elects itself *)

LEMMA FollowInit == Init => FollowInv
<1> SUFFICES ASSUME Init  PROVE FollowInv
  OBVIOUS
<1>1. ASSUME NEW r \in Servers  PROVE FollowOf(r)
  <2>1. rm[r] \in Started(r)
    BY DEF Init
  <2> QED  BY <2>1, StartedIn DEF FollowOf
<1>2. inFlight = {}
  BY DEF Init
<1> QED  BY <1>1, <1>2 DEF FollowInv

LEMMA FollowMoves ==
  ASSUME FollowInv, NEW r \in Servers, Moves(r), FollowOf(r)',
         \A p \in inFlight' \ inFlight : p.op # "REPLICATED" => ~p.data[2],
         misread \ {r} \subseteq misread'
  PROVE  FollowInv'
<1>1. ASSUME NEW s \in Servers, s # r  PROVE FollowOf(s)'
  BY <1>1 DEF FollowInv, FollowOf, Moves
<1> QED  BY <1>1 DEF FollowInv

LEMMA FollowNext == TypeInv /\ LinkInv /\ FollowInv /\ [Next]_vars => FollowInv'
<1> SUFFICES ASSUME TypeInv, LinkInv, FollowInv, [Next]_vars  PROVE FollowInv'
  OBVIOUS
<1>1. CASE UNCHANGED vars
  BY <1>1 DEF vars, history, FollowInv, FollowOf
<1> SUFFICES ASSUME NEW r \in Servers,
                    \/ Ping(r) \/ Lost(r) \/ Primary(r) \/ Crash(r) \/ Restart(r)
                    \/ \E p \in inFlight : Answer(r, p)
                    \/ Replication(r)
             PROVE  FollowInv'
  BY <1>1, NextCases
<1>2. FollowOf(r)
  BY DEF FollowInv
<1>3. rm[r] \in Managers
  BY DEF TypeInv
<1>4. CASE Ping(r)
  <2>1. Moves(r) /\ rm'[r] = [rm[r] EXCEPT !.pc = "wait"] /\ misread' = misread
    BY <1>4, PingStep DEF Ping, history
  <2>2. \A p \in inFlight' \ inFlight : ~p.data[2]
    <3> DEFINE d == <<FALSE, FALSE>>
    <3>1. ~d[2]
      OBVIOUS
    <3>2. \A p \in inFlight' \ inFlight :
            p = Packet("PING", r, rm[r].primary_rm, rm[r].ping.seq, d)
      BY <1>4, PingStep
    <3> HIDE DEF d
    <3>3. \A p \in inFlight' \ inFlight : p.data = d
      BY <3>2 DEF Packet
    <3> QED  BY <3>1, <3>3
  <2>3. FollowOf(r)'
    BY <1>2, <1>3, <2>1 DEF FollowOf, Managers
  <2> QED  BY <2>1, <2>2, <2>3, FollowMoves
<1>5. CASE Lost(r)
  <2>1. PICK reply \in Replies : GiveUp(r, reply)
    BY <1>5, LostStep DEF Lost
  <2>2. ~rm[r].is_primary
    BY <1>5, LostStep DEF Lost
  <2>3. inFlight' \subseteq inFlight /\ misread \subseteq misread'
    BY <1>5 DEF Lost, Timeout, FailedReceive, Misread, history
  <2>4. FollowOf(r)'
    BY <1>2, <2>1, <2>2, <2>3, GiveUpStep DEF FollowOf
  <2>5. Moves(r)
    BY <2>1, <2>2, GiveUpStep
  <2> QED  BY <2>3, <2>4, <2>5, FollowMoves
<1>6. CASE Primary(r)
  <2>1. PICK ping \in Heard, from \in Addresses, len \in Lengths, others \in SUBSET inFlight :
          Handle(r, ping, from, len, others)
    BY <1>6, PrimaryStep
  <2>2. Moves(r) /\ rm'[r].is_primary /\ misread' = misread
    BY <1>6, <2>1, PrimaryStep, HandleStep
  <2>3. \A p \in inFlight' \ inFlight : ~p.data[2]
    BY <2>1, HandleStep DEF AcksTo
  <2> QED  BY <2>2, <2>3, FollowMoves DEF FollowOf
<1>7. CASE Crash(r)
  BY <1>7 DEF Crash, FollowInv, FollowOf
<1>8. CASE Restart(r)
  <2>1. Moves(r) /\ FollowOf(r)'
    BY <1>8, RestartStep, StartedIn DEF FollowOf
  <2> QED  BY <1>8, <2>1, FollowMoves DEF Restart
<1>9. CASE \E p \in inFlight : Answer(r, p)
  <2>1. PICK p \in inFlight : Answer(r, p)
    BY <1>9
  <2>2. Moves(r) /\ inFlight' \subseteq inFlight /\ misread \subseteq misread'
    BY <2>1, AnswerStep DEF Answer, Misread
  <2>3. ASSUME r \notin misread', ~rm'[r].is_primary
        PROVE  \A i \in Slots : rm'[r].active[i] => i = 0
    <3>1. r \notin misread /\ p.op # "REPLICATED"
      BY <2>1, <2>3 DEF Answer, Misread
    <3>2. ~p.data[2] /\ p.data \in Bytes /\ rm[r].active \in [Slots -> BOOLEAN]
      BY <1>3, <3>1 DEF FollowInv, TypeInv, Packets, Managers
    <3>3. \A i \in Slots : rm[r].active[i] => i = 0
      BY <1>2, <2>1, <3>1, AnswerStep DEF FollowOf
    <3>4. \A i \in Slots : UpdateList(rm[r].active, p.data)[i] => i = 0
      BY <3>2, <3>3, UpdateListIn
    <3> QED  BY <2>1, <3>4, AnswerStep
  <2>4. FollowOf(r)'
    BY <1>2, <2>1, <2>2, <2>3, AnswerStep DEF FollowOf
  <2> QED  BY <2>2, <2>4, FollowMoves
<1>10. CASE Replication(r)
  <2>1. /\ UNCHANGED <<rm, misread>>
        /\ \A p \in inFlight' \ inFlight : p.op = "REPLICATED"
    BY <1>10, ReplicationStep
  <2> QED  BY <2>1 DEF FollowInv, FollowOf
<1> QED  BY <1>4, <1>5, <1>6, <1>7, <1>8, <1>9, <1>10

(* NeverOrphaned: a replica that no replicated packet has misled, and that  *)
(* has not elected itself, follows the host, whatever it receives, however  *)
(* late, and whatever its buffers hold at first.                            *)
THEOREM Followed == Spec => []NeverOrphaned
<1> DEFINE Inv == TypeInv /\ LinkInv /\ FollowInv
<1>1. Init => Inv
  BY TypeInit, FollowInit
<1>2. Inv /\ [Next]_vars => Inv'
  BY TypeNext, FollowNext
<1>3. Inv => NeverOrphaned
  BY Numbers DEF FollowInv, FollowOf, NeverOrphaned, Sound
<1> QED  BY <1>1, <1>2, <1>3, PTL DEF Spec

-----------------------------------------------------------------------------
(* One primary *)

LEMMA OneInit == Init => OneInv
<1> SUFFICES ASSUME Init  PROVE Fresh /\ \A r \in Replicas : Follows(r)
  BY DEF OneInv
<1>1. \A r \in Servers : rm[r] \in Started(r)
  BY DEF Init
<1>2. \A r \in Replicas : Follows(r)
  BY <1>1, StartedIn, Numbers DEF Follows
<1>3. inFlight = {}
  BY DEF Init
<1>4. \A r \in Servers : rm[r].from = NoAddr
  BY <1>1, StartedIn
<1>5. \A r \in Replicas : rm[r].ping.seq = NONE /\ \A i \in Slots : rm[r].addr[i] = NoAddr
  BY <1>1, StartedIn, Numbers
<1>6. /\ rm[Host].ping.seq = 0 /\ rm[Host].server_id = 0
      /\ \A i \in Slots : /\ rm[Host].active[i] <=> i = 0
                          /\ rm[Host].addr[i] = IF i = 0 THEN Host ELSE NoAddr
  BY <1>1, StartedIn, Numbers
<1> QED  BY <1>2, <1>3, <1>4, <1>5, <1>6 DEF Fresh

(* The host gives an entry away for ever, as long as it runs.               *)
LEMMA HostKeeps ==
  ASSUME TypeInv, LinkInv, [Next]_vars, HostKept'
  PROVE  /\ HostKept /\ (up'[Host] => up[Host])
         /\ \A i \in Slots : rm[Host].active[i] =>
              rm'[Host].active[i] /\ rm'[Host].addr[i] = rm[Host].addr[i]
         /\ rm'[Host].server_id = rm[Host].server_id
<1>1. CASE UNCHANGED vars
  BY <1>1 DEF vars, history, HostKept
<1> SUFFICES ASSUME NEW r \in Servers,
                    \/ Ping(r) \/ Lost(r) \/ Primary(r) \/ Crash(r) \/ Restart(r)
                    \/ \E p \in inFlight : Answer(r, p)
                    \/ Replication(r)
             PROVE  /\ HostKept /\ (up'[Host] => up[Host])
                    /\ \A i \in Slots : rm[Host].active[i] =>
                         rm'[Host].active[i] /\ rm'[Host].addr[i] = rm[Host].addr[i]
                    /\ rm'[Host].server_id = rm[Host].server_id
  BY <1>1, NextCases
<1>2. HostKept
  <2>1. restarted \subseteq restarted'
    BY PrimaryStep, ReplicationStep
       DEF Ping, Lost, Timeout, FailedReceive, Crash, Restart, Answer, history
  <2> QED  BY <2>1 DEF HostKept
<1>3. ~Restart(Host)
  BY DEF Restart, HostKept
<1>4. up'[Host] => up[Host]
  <2>1. CASE Crash(r)
    BY <2>1 DEF Crash, TypeInv
  <2>2. CASE Restart(r)
    BY <1>3, <2>2, Numbers DEF Restart, TypeInv
  <2>3. CASE ~Crash(r) /\ ~Restart(r)
    <3>1. up' = up
      BY <2>3, PrimaryStep, ReplicationStep
         DEF Ping, Lost, Timeout, FailedReceive, Answer, history
    <3> QED  BY <3>1
  <2> QED  BY <2>1, <2>2, <2>3
<1>5. CASE r = Host /\ Primary(r)
  <2>1. PICK ping \in Heard, from \in Addresses, len \in Lengths, others \in SUBSET inFlight :
          Handle(r, ping, from, len, others)
    BY <1>5, PrimaryStep
  <2> QED  BY <1>2, <1>4, <1>5, <2>1, HandleStep
<1>6. CASE ~(r = Host /\ Primary(r))
  <2>1. rm[Host].is_primary /\ Host \in Servers
    BY Numbers DEF LinkInv
  <2>2. r = Host => ~Ping(r) /\ ~Lost(r) /\ \A p \in inFlight : ~Answer(r, p)
    BY <2>1 DEF Ping, Lost, Timeout, FailedReceive, Answer
  <2>3. Moves(r) /\ r # Host => rm'[Host] = rm[Host]
    BY <2>1 DEF Moves
  <2>4. CASE Crash(r) \/ Replication(r)
    BY <1>2, <1>4, <2>4, ReplicationStep DEF Crash
  <2>5. CASE Ping(r)
    BY <1>2, <1>4, <2>2, <2>3, <2>5, PingStep
  <2>6. CASE Lost(r)
    BY <1>2, <1>4, <2>2, <2>3, <2>6, LostStep, GiveUpStep DEF Lost
  <2>7. CASE Primary(r)
    <3>1. PICK ping \in Heard, from \in Addresses, len \in Lengths, others \in SUBSET inFlight :
            Handle(r, ping, from, len, others)
      BY <2>7, PrimaryStep
    <3> QED  BY <1>2, <1>4, <1>6, <2>3, <2>7, <3>1, HandleStep
  <2>8. CASE Restart(r)
    BY <1>2, <1>3, <1>4, <2>3, <2>8, RestartStep
  <2>9. CASE \E p \in inFlight : Answer(r, p)
    BY <1>2, <1>4, <2>2, <2>3, <2>9, AnswerStep
  <2> QED  BY <2>4, <2>5, <2>6, <2>7, <2>8, <2>9
<1> QED  BY <1>5, <1>6

(* A registration without an address is never repaired.                     *)
LEMMA SteadyBefore ==
  ASSUME TypeInv, LinkInv, [Next]_vars, Steady'
  PROVE  Steady
BY HostKeeps DEF Steady, Unrecorded

(* While the host cannot store addresses, its first ping registers nobody.  *)
LEMMA FreshHost ==
  ASSUME TypeInv, LinkInv, Fresh, rm[Host].len # "ok", Primary(Host), ~Unrecorded'
  PROVE  Fresh'
<1>1. Host \in Servers /\ Replicas = Servers \ {Host} /\ 1 \in Slots
  BY Numbers
<1>2. PICK ping \in Heard, from \in Addresses, len \in Lengths, others \in SUBSET inFlight :
        /\ Handle(Host, ping, from, len, others)
        /\ \/ /\ Silence(Host) /\ ping = rm[Host].ping /\ from = rm[Host].from
              /\ others = inFlight
           \/ \E p \in inFlight :
                /\ ping = [op |-> p.op, seq |-> p.seq]
                /\ from = From(Host, p)
  BY <1>1, PrimaryStep
<1>3. from = NoAddr
  BY <1>1, <1>2 DEF From, Fresh
<1>4. ~(ping.op = "PING" /\ ping.seq = NONE)
  <2> SUFFICES ASSUME ping.op = "PING", ping.seq = NONE  PROVE FALSE
    OBVIOUS
  <2>1. ~rm[Host].active[1]
    BY <1>1 DEF Fresh
  <2>2. \E j \in Slots : rm'[Host].active[j] /\ rm'[Host].addr[j] = NoAddr
    BY <1>1, <1>2, <1>3, <2>1, HandleStep
  <2> QED  BY <2>2 DEF Unrecorded
<1>5. ping.op = "PING" => ping.seq = 0
  BY <1>2, <1>4 DEF Fresh
<1>6. /\ Moves(Host) /\ rm'[Host].from = NoAddr /\ rm'[Host].ping = ping
      /\ rm'[Host].server_id = rm[Host].server_id
      /\ rm'[Host].active = rm[Host].active /\ rm'[Host].addr = rm[Host].addr
      /\ inFlight' \subseteq inFlight
  BY <1>1, <1>2, <1>3, <1>4, HandleStep
<1>7. \A r \in Replicas : rm'[r] = rm[r]
  BY <1>1, <1>6 DEF Moves
<1> QED  BY <1>1, <1>5, <1>6, <1>7 DEF Fresh

(* Only one server moves, and it is not the host.                           *)
LEMMA FreshMoves ==
  ASSUME Fresh, NEW r \in Replicas, Moves(r),
         rm'[r].from = NoAddr /\ rm'[r].ping.seq = NONE,
         \A i \in Slots : rm'[r].addr[i] = NoAddr,
         \A p \in inFlight' \ inFlight : p.op = "PING" /\ p.seq = NONE
  PROVE  Fresh'
<1>1. rm'[Host] = rm[Host] /\ r \in Servers
  BY Numbers DEF Moves
<1>2. \A s \in Servers : rm'[s].from = NoAddr
  BY <1>1 DEF Moves, Fresh
<1>3. \A s \in Replicas : rm'[s].ping.seq = NONE /\ \A i \in Slots : rm'[s].addr[i] = NoAddr
  BY Numbers DEF Moves, Fresh
<1> QED  BY <1>1, <1>2, <1>3 DEF Fresh

LEMMA HostNext ==
  ASSUME TypeInv, LinkInv, [Next]_vars, Steady', rm[Host].len = "ok" \/ Fresh
  PROVE  rm'[Host].len = "ok" \/ Fresh'
<1>1. CASE UNCHANGED vars
  BY <1>1 DEF vars, Fresh
<1> SUFFICES ASSUME NEW r \in Servers,
                    \/ Ping(r) \/ Lost(r) \/ Primary(r) \/ Crash(r) \/ Restart(r)
                    \/ \E p \in inFlight : Answer(r, p)
                    \/ Replication(r)
             PROVE  rm'[Host].len = "ok" \/ Fresh'
  BY <1>1, NextCases
<1>2. rm[Host].is_primary /\ Host \in Servers /\ Replicas = Servers \ {Host}
  BY Numbers DEF LinkInv
<1>3. rm[r] \in Managers
  BY DEF TypeInv
<1>4. r = Host => \/ Primary(r) \/ Crash(r)
                  \/ Replication(r)
  BY <1>2 DEF Ping, Lost, Timeout, FailedReceive, Answer, Restart, Steady, HostKept
<1>5. CASE Ping(r)
  <2>1. /\ Moves(r) /\ rm'[r] = [rm[r] EXCEPT !.pc = "wait"] /\ r \in Replicas
    BY <1>2, <1>5, PingStep
  <2>2. Fresh => rm[r].ping.seq = NONE
    BY <2>1 DEF Fresh
  <2>3. \A p \in inFlight' \ inFlight : p.op = "PING" /\ p.seq = rm[r].ping.seq
    <3> DEFINE d == <<FALSE, FALSE>>
    <3>1. \A p \in inFlight' \ inFlight :
            p = Packet("PING", r, rm[r].primary_rm, rm[r].ping.seq, d)
      BY <1>5, PingStep
    <3> HIDE DEF d
    <3> QED  BY <3>1 DEF Packet
  <2>4. /\ rm'[r].from = rm[r].from /\ rm'[r].ping = rm[r].ping /\ rm'[r].addr = rm[r].addr
    BY <1>3, <2>1 DEF Managers
  <2>5. ASSUME Fresh  PROVE Fresh'
    <3>1. rm[r].from = NoAddr /\ \A i \in Slots : rm[r].addr[i] = NoAddr
      BY <2>1, <2>5 DEF Fresh
    <3>2. /\ rm'[r].from = NoAddr /\ rm'[r].ping.seq = NONE
          /\ \A i \in Slots : rm'[r].addr[i] = NoAddr
      BY <2>2, <2>4, <2>5, <3>1
    <3>3. \A p \in inFlight' \ inFlight : p.op = "PING" /\ p.seq = NONE
      BY <2>2, <2>3, <2>5
    <3>4. Moves(r) /\ r \in Replicas
      BY <2>1
    <3> QED  BY <2>5, <3>2, <3>3, <3>4, FreshMoves
  <2> QED  BY <1>2, <2>1, <2>5 DEF Moves
<1>6. CASE Lost(r)
  <2>1. PICK reply \in Replies : GiveUp(r, reply)
    BY <1>6, LostStep DEF Lost
  <2>2. ~rm[r].is_primary
    BY <1>6, LostStep DEF Lost
  <2>3. /\ Moves(r) /\ r \in Replicas
        /\ rm'[r].addr = rm[r].addr /\ rm'[r].from = rm[r].from /\ rm'[r].ping = rm[r].ping
    BY <2>1, <2>2, GiveUpStep
  <2>4. inFlight' \subseteq inFlight
    BY <1>6 DEF Lost, Timeout, FailedReceive
  <2>5. Fresh => Fresh'
    BY <2>3, <2>4, FreshMoves DEF Fresh
  <2> QED  BY <1>2, <2>3, <2>5 DEF Moves
<1>7. CASE Primary(r)
  <2>1. PICK ping \in Heard, from \in Addresses, len \in Lengths, others \in SUBSET inFlight :
          /\ Handle(r, ping, from, len, others)
          /\ \/ /\ Silence(r) /\ ping = rm[r].ping /\ from = rm[r].from
                /\ len = rm[r].len /\ others = inFlight
             \/ \E p \in inFlight : p.to = r /\ len = LenAfter(r)
    BY <1>7, PrimaryStep
  <2>2. Moves(r) /\ rm'[r].len = len
    BY <2>1, HandleStep
  <2>3. CASE r = Host
    <3>1. rm[Host].len = "ok" => len = "ok"
      BY <2>1, <2>3 DEF LenAfter
    <3>2. rm[Host].len # "ok" => Fresh'
      BY <1>7, <2>3, FreshHost DEF Steady
    <3> QED  BY <2>2, <2>3, <3>1, <3>2
  <2>4. CASE r # Host
    <3>1. r \in Replicas /\ rm'[Host] = rm[Host]
      BY <1>2, <2>2, <2>4 DEF Moves
    <3>2. ASSUME Fresh  PROVE Fresh'
      <4>1. ping = rm[r].ping /\ from = NoAddr /\ others = inFlight
        BY <2>1, <2>4, <3>2 DEF Fresh, LinkInv
      <4>2. /\ rm'[r].from = NoAddr /\ rm'[r].ping.seq = NONE
        BY <2>1, <3>1, <3>2, <4>1, HandleStep DEF Fresh
      <4>3. \A i \in Slots : rm'[r].addr[i] = NoAddr
        <5>1. \A i \in Slots : rm[r].addr[i] = NoAddr
          BY <3>1, <3>2 DEF Fresh
        <5>2. \A i \in Slots : rm'[r].addr[i] \in {rm[r].addr[i], from}
          BY <2>1, HandleStep
        <5> QED  BY <4>1, <5>1, <5>2
      <4>4. inFlight' = inFlight
        BY <2>1, <4>1, HandleStep
      <4> QED  BY <2>2, <3>1, <3>2, <4>2, <4>3, <4>4, FreshMoves
    <3> QED  BY <3>1, <3>2
  <2> QED  BY <2>3, <2>4
<1>8. CASE Crash(r)
  BY <1>8 DEF Crash, Fresh
<1>9. CASE Restart(r)
  <2>1. Moves(r) /\ rm'[r] \in Started(r) /\ r \in Replicas /\ inFlight' = inFlight
    BY <1>2, <1>4, <1>9, RestartStep DEF Restart, Steady, HostKept
  <2>2. r # Host
    BY <1>2, <2>1
  <2>3. /\ rm'[r].from = NoAddr /\ rm'[r].ping.seq = NONE
        /\ \A i \in Slots : rm'[r].addr[i] = NoAddr
    BY <2>1, <2>2, StartedIn
  <2>4. Fresh => Fresh'
    BY <2>1, <2>3, FreshMoves
  <2> QED  BY <1>2, <2>1, <2>2, <2>4 DEF Moves
<1>10. CASE \E p \in inFlight : Answer(r, p)
  <2>1. PICK p \in inFlight : Answer(r, p)
    BY <1>10
  <2>2. Moves(r) /\ r # Host /\ p.op # "PING" /\ p.to = r
    BY <1>2, <2>1, AnswerStep DEF Answer
  <2> QED  BY <1>2, <2>2 DEF Moves, Fresh
<1>11. CASE Replication(r)
  <2>1. rm' = rm /\ inFlight \subseteq inFlight'
    BY <1>11, ReplicationStep
  <2>2. Fresh => \A p \in inFlight' \ inFlight : p.op = "REPLICATED" /\ p.to = Host
    <3>1. Fresh => \A i \in Slots : rm[r].addr[i] \in {NoAddr, Host}
      <4>1. CASE r = Host
        BY <4>1 DEF Fresh
      <4>2. CASE r # Host
        BY <1>2, <4>2 DEF Fresh
      <4> QED  BY <4>1, <4>2
    <3> QED  BY <1>11, <3>1, ReplicationStep
  <2> QED  BY <2>1, <2>2 DEF Fresh
<1> QED  BY <1>5, <1>6, <1>7, <1>8, <1>9, <1>10, <1>11

(* A replica's expectation outlives every step that leaves it alone, unless *)
(* the packet taken was its ping.                                           *)
LEMMA FollowsStill ==
  ASSUME NEW s \in Servers, rm'[s] = rm[s], Follows(s),
         \A p \in inFlight \ inFlight' : p.to # s /\ ~(p.op = "PING" /\ p.from = s)
  PROVE  Follows(s)'
<1>1. Expects(s) => Expects(s)'
  BY DEF Expects
<1> QED  BY <1>1 DEF Follows

LEMMA FollowsNext ==
  ASSUME IInv, [Next]_vars, Steady, Steady',
         NEW s \in Replicas, up'[s], rm'[s].len # "negative"
  PROVE  Follows(s)'
<1> USE DEF IInv
<1>0. /\ \A r \in Replicas : up[r] /\ rm[r].len # "negative" => Follows(r)
      /\ rm[Host].len = "ok" \/ Fresh
  BY DEF OneInv
<1>1. CASE UNCHANGED vars
  <2>1. Follows(s)
    BY <1>0, <1>1 DEF vars
  <2> QED  BY <1>1, <2>1 DEF vars, Follows, Expects
<1> SUFFICES ASSUME NEW r \in Servers,
                    \/ Ping(r) \/ Lost(r) \/ Primary(r) \/ Crash(r) \/ Restart(r)
                    \/ \E p \in inFlight : Answer(r, p)
                    \/ Replication(r)
             PROVE  Follows(s)'
  BY <1>1, NextCases
<1>2. /\ rm[Host].is_primary /\ Host \in Servers /\ Replicas = Servers \ {Host}
      /\ NoAddr \notin Servers /\ s \in Servers
  BY Numbers DEF LinkInv
<1>3. rm[r] \in Managers
  BY DEF TypeInv
<1>4. ASSUME s # r, Moves(r), up'[s] => up[s],
             \A p \in inFlight \ inFlight' : p.to # s /\ ~(p.op = "PING" /\ p.from = s)
      PROVE  Follows(s)'
  <2>1. rm'[s] = rm[s]
    BY <1>2, <1>4 DEF Moves
  <2> QED  BY <1>0, <1>2, <1>4, <2>1, FollowsStill
<1>5. CASE Ping(r)
  <2>1. /\ Moves(r) /\ rm'[r] = [rm[r] EXCEPT !.pc = "wait"] /\ up' = up
        /\ inFlight \subseteq inFlight'
    BY <1>5, PingStep DEF Ping
  <2>2. CASE s # r
    BY <1>4, <2>1, <2>2
  <2>3. CASE s = r
    <3>1. /\ rm'[r].is_primary = rm[r].is_primary /\ rm'[r].len = rm[r].len
          /\ rm'[r].primary_rm = rm[r].primary_rm
      BY <1>3, <2>1 DEF Managers
    <3>2. Follows(r)
      BY <1>0, <2>1, <2>3, <3>1
    <3> DEFINE p == Packet("PING", r, rm[r].primary_rm, rm[r].ping.seq, <<FALSE, FALSE>>)
    <3>3. p \in inFlight'
      BY <1>2, <1>5, <3>2, PingStep DEF Follows
    <3>4. p.op = "PING" /\ p.from = r
      BY DEF Packet
    <3>5. Expects(r)'
      BY <3>3, <3>4 DEF Expects
    <3> QED  BY <2>3, <3>1, <3>2, <3>5 DEF Follows
  <2> QED  BY <2>2, <2>3
<1>6. CASE Lost(r)
  <2>1. PICK reply \in Replies :
          /\ GiveUp(r, reply)
          /\ Timeout(r) \/ \E p \in inFlight : FailedReceive(r, p) /\ p.op # "PING"
    BY <1>6, LostStep DEF Lost
  <2>2. ~rm[r].is_primary
    BY <1>6, LostStep DEF Lost
  <2>3. Moves(r) /\ rm'[r].len = rm[r].len /\ up' = up
    BY <1>6, <2>1, <2>2, GiveUpStep DEF Lost, Timeout, FailedReceive
  <2>4. CASE s # r
    <3>1. \A p \in inFlight \ inFlight' : p.to = r /\ p.op # "PING"
      BY <2>1 DEF Timeout, FailedReceive
    <3> QED  BY <1>4, <2>3, <2>4, <3>1
  <2>5. CASE s = r
    <3>1. Follows(r) /\ rm[r].len # "negative"
      BY <1>0, <2>3, <2>5
    <3>2. Timeout(r) /\ Expects(r)
      BY <2>1, <3>1 DEF Timeout, FailedReceive, Follows
    <3>3. PICK p \in inFlight : p.to = r \/ (p.op = "PING" /\ p.from = r)
      BY <3>2 DEF Expects
    <3>4. p.to # r /\ ~(p.from = r /\ p.op = "PING" /\ up[p.to])
      BY <3>2 DEF Timeout, Steady
    <3> QED  BY <3>3, <3>4 DEF LinkInv, Steady
  <2> QED  BY <2>4, <2>5
<1>7. CASE Primary(r)
  <2>1. PICK ping \in Heard, from \in Addresses, len \in Lengths, others \in SUBSET inFlight :
          /\ Handle(r, ping, from, len, others)
          /\ rm[r].len = "negative" => len = "negative"
          /\ \/ others = inFlight
             \/ \E p \in inFlight :
                  /\ p.to = r /\ others = inFlight \ {p}
                  /\ ping = [op |-> p.op, seq |-> p.seq]
                  /\ from = From(r, p)
    BY <1>7, PrimaryStep
  <2>2. rm[r].is_primary /\ up[r] /\ up' = up
    BY <1>7, PrimaryStep
  <2>3. /\ Moves(r) /\ rm'[r].len = len /\ others \subseteq inFlight'
    BY <2>1, HandleStep
  <2>4. CASE s = r
    BY <1>0, <2>1, <2>2, <2>3, <2>4 DEF Follows
  <2>5. CASE s # r /\ \A p \in inFlight \ inFlight' : ~(p.op = "PING" /\ p.from = s)
    <3>1. \A p \in inFlight \ inFlight' : p.to = r
      BY <2>1, <2>3
    <3> QED  BY <1>4, <2>2, <2>3, <2>5, <3>1
  <2>6. CASE s # r /\ \E p \in inFlight \ inFlight' : p.op = "PING" /\ p.from = s
    <3>1. PICK p \in inFlight : /\ p.op = "PING" /\ p.from = s
                                /\ p.to = r /\ ping = [op |-> p.op, seq |-> p.seq]
                                /\ from = From(r, p)
      BY <2>1, <2>3, <2>6
    <3>2. r = Host
      BY <3>1 DEF LinkInv
    <3>3. rm[Host].len = "ok" \/ p.seq = NONE
      BY <1>0, <3>1 DEF Fresh
    <3>4. rm[Host].len = "ok"
      <4> SUFFICES ASSUME rm[Host].len # "ok"  PROVE FALSE
        OBVIOUS
      <4>1. Fresh /\ from = NoAddr /\ ping.op = "PING" /\ ping.seq = NONE
        BY <1>0, <1>2, <3>1, <3>2, <3>3 DEF Fresh, From
      <4>2. 1 \in Slots /\ ~rm[Host].active[1]
        BY <4>1, Numbers DEF Fresh
      <4>3. \E j \in Slots : rm'[Host].active[j] /\ rm'[Host].addr[j] = NoAddr
        BY <2>1, <3>2, <4>1, <4>2, HandleStep
      <4> QED  BY <4>3 DEF Steady, Unrecorded
    <3>5. from = s /\ ping.op = "PING" /\ from # NoAddr
      BY <1>2, <3>1, <3>2, <3>4 DEF From
    <3>6. PICK a \in AcksTo(Host, s) : inFlight' = others \cup {a}
      BY <2>1, <3>2, <3>5, HandleStep
    <3>7. Expects(s)'
      BY <3>6 DEF Expects, AcksTo
    <3>8. rm'[s] = rm[s] /\ Follows(s)
      BY <1>0, <1>2, <2>2, <2>3, <2>6 DEF Moves
    <3> QED  BY <3>7, <3>8 DEF Follows
  <2> QED  BY <2>4, <2>5, <2>6
<1>8. CASE Crash(r)
  <2>1. rm' = rm /\ inFlight' = inFlight /\ up[s]
    BY <1>8 DEF Crash, TypeInv
  <2> QED  BY <1>0, <1>2, <2>1, FollowsStill
<1>9. CASE Restart(r)
  <2>1. Moves(r) /\ rm'[r] \in Started(r) /\ inFlight' = inFlight
    BY <1>9, RestartStep DEF Restart
  <2>2. CASE s # r
    <3>1. up'[s] = up[s]
      BY <1>2, <1>9, <2>2 DEF Restart, TypeInv
    <3> QED  BY <1>4, <2>1, <2>2, <3>1
  <2>3. CASE s = r
    BY <1>2, <2>1, <2>3, StartedIn DEF Follows
  <2> QED  BY <2>2, <2>3
<1>10. CASE \E p \in inFlight : Answer(r, p)
  <2>1. PICK p \in inFlight : Answer(r, p)
    BY <1>10
  <2>2. /\ Moves(r) /\ p.op # "PING" /\ ~rm'[r].is_primary
        /\ rm'[r].primary_rm = rm[r].primary_rm
        /\ rm'[r].pc = "send" /\ rm[r].len # "negative"
    BY <2>1, AnswerStep
  <2>3. up' = up /\ up[r] /\ inFlight' = inFlight \ {p} /\ p.to = r
    BY <2>1 DEF Answer
  <2>4. CASE s # r
    BY <1>4, <2>2, <2>3, <2>4
  <2>5. CASE s = r
    BY <1>0, <2>2, <2>3, <2>5 DEF Follows
  <2> QED  BY <2>4, <2>5
<1>11. CASE Replication(r)
  <2>1. rm' = rm /\ up' = up /\ inFlight \subseteq inFlight'
    BY <1>11, ReplicationStep
  <2> QED  BY <1>0, <1>2, <2>1, FollowsStill
<1> QED  BY <1>5, <1>6, <1>7, <1>8, <1>9, <1>10, <1>11

LEMMA OneNext == IInv /\ [Next]_vars => OneInv'
<1> SUFFICES ASSUME IInv, [Next]_vars, Steady'
             PROVE  /\ rm'[Host].len = "ok" \/ Fresh'
                    /\ \A r \in Replicas :
                         up'[r] /\ rm'[r].len # "negative" => Follows(r)'
  BY DEF OneInv
<1>1. Steady
  BY SteadyBefore DEF IInv
<1>2. rm[Host].len = "ok" \/ Fresh
  BY <1>1 DEF IInv, OneInv
<1> QED  BY <1>1, <1>2, HostNext, FollowsNext DEF IInv

(* IInv: what packets in flight carry, what a replica waits for and whom    *)
(* the host knows.                                                          *)
THEOREM InductiveInvariant == Spec => []IInv
<1>1. Init => IInv
  BY TypeInit, FollowInit, OneInit DEF IInv
<1>2. IInv /\ [Next]_vars => IInv'
  BY TypeNext, FollowNext, OneNext DEF IInv
<1> QED  BY <1>1, <1>2, PTL DEF Spec

(* OnePrimary: while the host that was started first runs and has recorded  *)
(* every registration, no replica elects itself, if timeouts are patient.   *)
THEOREM OnePrimaryCorrect == ASSUME Patient PROVE Spec => []OnePrimary
<1>1. IInv => OnePrimary
  BY DEF IInv, OneInv, Steady, Follows, OnePrimary
<1> QED  BY <1>1, InductiveInvariant, PTL

-----------------------------------------------------------------------------
(* Ids *)

LEMMA IdInit == Init => IdInv
<1> SUFFICES ASSUME Init  PROVE IdInv
  OBVIOUS
<1>1. \A r \in Servers : rm[r] \in Started(r)
  BY DEF Init
<1>2. rm[Host].server_id = 0 /\ Entered(Host, Host, 0) /\ rm[Host].from = NoAddr
  BY <1>1, StartedIn, Numbers DEF Entered
<1>3. \A r \in Replicas : /\ rm[r].from = NoAddr /\ rm[r].server_id = -1
  BY <1>1, StartedIn, Numbers
<1>4. \A r \in Replicas : IdOf(r)
  BY <1>2, <1>3, Numbers DEF IdOf, Init
<1> QED  BY <1>2, <1>3, <1>4, Numbers DEF IdInv, Init

(* What a step may do without disturbing the id of replica s.               *)
LEMMA IdStep ==
  ASSUME NEW s \in Replicas, IdOf(s),
         \A i \in Slots : Entered(Host, s, i) => Entered(Host, s, i)',
         rm'[s].server_id = rm[s].server_id, s \in misread => s \in misread',
         rm'[s].ping.seq = NONE =>
            /\ rm[s].ping.seq = NONE
            /\ \A p \in inFlight' \ inFlight :
                 /\ p.op = "ACK" /\ p.to = s => p.seq = -1 \/ Entered(Host, s, p.seq)'
                 /\ p.op = "PING" /\ p.from = s => p.seq = NONE
            /\ rm'[Host].from = s /\ rm'[Host].ping.op = "PING" => rm'[Host].ping.seq = NONE
  PROVE  IdOf(s)'
<1>1. \A i : Entered(Host, s, i) => Entered(Host, s, i)'
  BY DEF Entered
<1>2. s \notin misread' /\ rm'[s].server_id # -1 => Entered(Host, s, rm[s].server_id)'
  <2> SUFFICES ASSUME s \notin misread', rm'[s].server_id # -1
               PROVE  Entered(Host, s, rm[s].server_id)'
    OBVIOUS
  <2> QED  BY <1>1 DEF IdOf, Entered
<1> QED  BY <1>1 DEF IdOf, Entered

LEMMA IdNext == TypeInv /\ LinkInv /\ IdInv /\ [Next]_vars => IdInv'
<1> SUFFICES ASSUME TypeInv, LinkInv, IdInv, [Next]_vars, HostKept'  PROVE IdInv'
  BY DEF IdInv
<1> DEFINE Hosts == /\ rm[Host].len # "ok" => rm[Host].from = NoAddr
                    /\ \A r \in Replicas : rm[r].from \notin Replicas
                    /\ \A p \in inFlight : p.to \in Replicas => p.from \notin Replicas
<1>1. HostKept /\ Hosts /\ \A s \in Replicas \ restarted : IdOf(s)
  BY HostKeeps DEF IdInv
<1>2. rm'[Host].server_id = 0 /\ Entered(Host, Host, 0)'
  BY <1>1, HostKeeps DEF IdInv, Entered
<1>3. \A s \in Replicas, i \in Slots : Entered(Host, s, i) => Entered(Host, s, i)'
  BY HostKeeps DEF Entered
<1> HIDE DEF Hosts
<1> SUFFICES Hosts' /\ \A s \in Replicas \ restarted' : IdOf(s)'
  BY <1>2 DEF IdInv, Hosts
<1>4. CASE UNCHANGED vars
  BY <1>1, <1>4 DEF vars, history, Hosts, IdOf, Entered
<1> SUFFICES ASSUME NEW r \in Servers,
                    \/ Ping(r) \/ Lost(r) \/ Primary(r) \/ Crash(r) \/ Restart(r)
                    \/ \E p \in inFlight : Answer(r, p)
                    \/ Replication(r)
             PROVE  Hosts' /\ \A s \in Replicas \ restarted' : IdOf(s)'
  BY <1>4, NextCases
<1>5. /\ rm[Host].is_primary /\ Host \in Servers /\ Replicas = Servers \ {Host}
      /\ NoAddr \notin Servers
  BY Numbers DEF LinkInv
<1>6. rm[r] \in Managers
  BY DEF TypeInv
<1>7. CASE Ping(r)
  <2>1. /\ Moves(r) /\ rm'[r] = [rm[r] EXCEPT !.pc = "wait"] /\ r \in Replicas
        /\ misread' = misread /\ restarted' = restarted
    BY <1>5, <1>7, PingStep DEF Ping, history
  <2>2. /\ rm'[r].from = rm[r].from /\ rm'[r].ping = rm[r].ping
        /\ rm'[r].server_id = rm[r].server_id
    BY <1>6, <2>1 DEF Managers
  <2>3. \A p \in inFlight' \ inFlight : /\ p.op = "PING" /\ p.seq = rm[r].ping.seq
                                        /\ p.from = r /\ p.to = rm[r].primary_rm
    <3> DEFINE d == <<FALSE, FALSE>>
    <3>1. \A p \in inFlight' \ inFlight :
            p = Packet("PING", r, rm[r].primary_rm, rm[r].ping.seq, d)
      BY <1>7, PingStep
    <3> HIDE DEF d
    <3> QED  BY <3>1 DEF Packet
  <2>4. \A s \in Servers \ {r} : rm'[s] = rm[s]
    BY <2>1 DEF Moves
  <2>5. \A p \in inFlight' \ inFlight : p.to \notin Replicas
    BY <1>5, <1>6, <2>3 DEF Managers
  <2>6. Hosts'
    BY <1>1, <1>5, <2>1, <2>2, <2>4, <2>5 DEF Hosts
  <2>7. ASSUME NEW s \in Replicas \ restarted'  PROVE IdOf(s)'
    <3>1. /\ rm'[s].ping = rm[s].ping /\ rm'[s].server_id = rm[s].server_id
          /\ rm'[Host] = rm[Host] /\ IdOf(s)
      BY <1>1, <1>5, <2>1, <2>2, <2>4
    <3> QED  BY <1>3, <2>1, <2>3, <3>1, IdStep DEF IdOf
  <2> QED  BY <2>6, <2>7
<1>8. CASE Lost(r)
  <2>1. PICK reply \in Replies : GiveUp(r, reply)
    BY <1>8, LostStep DEF Lost
  <2>2. ~rm[r].is_primary
    BY <1>8, LostStep DEF Lost
  <2>3. /\ Moves(r) /\ r \in Replicas /\ rm'[r].from = rm[r].from
        /\ rm'[r].ping = rm[r].ping /\ rm'[r].server_id = rm[r].server_id
    BY <2>1, <2>2, GiveUpStep
  <2>4. inFlight' \subseteq inFlight /\ misread \subseteq misread' /\ restarted' = restarted
    BY <1>8 DEF Lost, Timeout, FailedReceive, Misread, history
  <2>5. \A s \in Servers \ {r} : rm'[s] = rm[s]
    BY <2>3 DEF Moves
  <2>6. Hosts'
    BY <1>1, <1>5, <2>3, <2>4, <2>5 DEF Hosts
  <2>7. ASSUME NEW s \in Replicas \ restarted'  PROVE IdOf(s)'
    <3>1. /\ rm'[s].ping = rm[s].ping /\ rm'[s].server_id = rm[s].server_id
          /\ rm'[Host] = rm[Host] /\ IdOf(s)
      BY <1>1, <1>5, <2>3, <2>4, <2>5
    <3> QED  BY <1>3, <2>4, <3>1, IdStep DEF IdOf
  <2> QED  BY <2>6, <2>7
<1>9. CASE Crash(r)
  BY <1>1, <1>9 DEF Crash, Hosts, IdOf, Entered
<1>10. CASE Restart(r)
  <2>1. /\ Moves(r) /\ rm'[r] \in Started(r) /\ inFlight' = inFlight
        /\ restarted' = restarted \cup {r} /\ misread' = misread \ {r}
    BY <1>10, RestartStep DEF Restart
  <2>2. r # Host /\ rm'[r].from = NoAddr
    BY <2>1, StartedIn DEF HostKept
  <2>3. \A s \in Servers \ {r} : rm'[s] = rm[s]
    BY <2>1 DEF Moves
  <2>4. Hosts'
    BY <1>1, <1>5, <2>1, <2>2, <2>3 DEF Hosts
  <2>5. ASSUME NEW s \in Replicas \ restarted'  PROVE IdOf(s)'
    <3>1. rm'[s] = rm[s] /\ rm'[Host] = rm[Host] /\ IdOf(s) /\ s # r
      BY <1>1, <1>5, <2>1, <2>2, <2>3
    <3> QED  BY <1>3, <2>1, <3>1, IdStep DEF IdOf
  <2> QED  BY <2>4, <2>5
<1>11. CASE \E p \in inFlight : Answer(r, p)
  <2>1. PICK p \in inFlight : Answer(r, p)
    BY <1>11
  <2>2. /\ Moves(r) /\ r \in Replicas /\ p.op # "PING"
        /\ rm'[r].from \in {p.from, rm[r].from} /\ rm'[r].ping.seq # NONE
        /\ rm'[r].server_id = IF rm[r].ping.seq = NONE THEN p.seq ELSE rm[r].server_id
    BY <2>1, AnswerStep
  <2>3. /\ inFlight' \subseteq inFlight /\ misread \subseteq misread' /\ restarted' = restarted
        /\ p.op = "REPLICATED" => r \in misread'
        /\ p.to = r
    BY <2>1 DEF Answer, Misread
  <2>4. \A s \in Servers \ {r} : rm'[s] = rm[s]
    BY <2>2 DEF Moves
  <2>5. Hosts'
    BY <1>1, <1>5, <2>2, <2>3, <2>4 DEF Hosts
  <2>6. ASSUME NEW s \in Replicas \ restarted', s # r  PROVE IdOf(s)'
    <3>1. rm'[s] = rm[s] /\ rm'[Host] = rm[Host] /\ IdOf(s)
      BY <1>1, <1>5, <2>2, <2>3, <2>4, <2>6
    <3> QED  BY <1>3, <2>3, <3>1, IdStep DEF IdOf
  <2>7. ASSUME r \notin restarted'  PROVE IdOf(r)'
    <3> SUFFICES ASSUME r \notin misread', rm'[r].server_id # -1
                 PROVE  \E i \in Slots : Entered(Host, r, i)' /\ i = rm'[r].server_id
      BY <2>2 DEF IdOf, Entered
    <3>1. IdOf(r) /\ r \notin misread
      BY <1>1, <2>2, <2>3, <2>7
    <3>2. p.op = "ACK"
      BY <2>2, <2>3 DEF TypeInv, Packets
    <3>3. Entered(Host, r, rm'[r].server_id)
      <4>1. CASE rm[r].ping.seq = NONE
        BY <2>2, <2>3, <3>1, <3>2, <4>1 DEF IdOf
      <4>2. CASE rm[r].ping.seq # NONE
        BY <2>2, <3>1, <4>2 DEF IdOf
      <4> QED  BY <4>1, <4>2
    <3>4. PICK i \in Slots : i = rm'[r].server_id
      BY <3>3 DEF Entered
    <3> QED  BY <1>3, <2>2, <3>3, <3>4
  <2> QED  BY <2>5, <2>6, <2>7
<1>12. CASE Replication(r)
  <2>1. /\ rm' = rm /\ misread' = misread /\ restarted' = restarted
        /\ \A p \in inFlight' \ inFlight : p.op = "REPLICATED" /\ p.from = NoAddr
    BY <1>12, ReplicationStep
  <2>2. Hosts'
    BY <1>1, <1>5, <2>1 DEF Hosts
  <2>3. ASSUME NEW s \in Replicas \ restarted'  PROVE IdOf(s)'
    <3>1. IdOf(s)
      BY <1>1, <2>1
    <3> QED  BY <1>3, <2>1, <3>1, IdStep DEF IdOf
  <2> QED  BY <2>2, <2>3
<1>13. CASE Primary(r)
  <2>1. PICK ping \in Heard, from \in Addresses, len \in Lengths, others \in SUBSET inFlight :
          /\ Handle(r, ping, from, len, others)
          /\ \/ /\ ping = rm[r].ping /\ from = rm[r].from
                /\ len = rm[r].len
             \/ \E p \in inFlight :
                  /\ p.to = r /\ ping = [op |-> p.op, seq |-> p.seq]
                  /\ from = From(r, p) /\ len = LenAfter(r)
    BY <1>13, PrimaryStep
  <2>2. UNCHANGED <<restarted, misread>>
    BY <1>13, PrimaryStep
  <2>3. /\ Moves(r) /\ rm'[r].server_id = rm[r].server_id
        /\ rm'[r].from = from /\ rm'[r].len = len /\ rm'[r].ping = ping
    BY <2>1, HandleStep
  <2>4. \A p \in inFlight' \ inFlight :
          /\ p \in AcksTo(r, from) /\ ping.op = "PING" /\ from # NoAddr
          /\ ping.seq = NONE => p.seq = -1 \/ Entered(r, from, p.seq)'
    BY <2>1, HandleStep
  <2>5. \A s \in Servers \ {r} : rm'[s] = rm[s]
    BY <2>3 DEF Moves
  <2>6. CASE r # Host
    <3>1. from \notin Replicas
      BY <1>1, <1>5, <2>1, <2>6 DEF Hosts, From
    <3>2. Hosts'
      BY <1>1, <1>5, <2>3, <2>4, <2>5, <2>6, <3>1 DEF Hosts, AcksTo
    <3>3. rm'[r].ping.seq = NONE => rm[r].ping.seq = NONE
      BY <2>1, <2>3, <2>6 DEF LinkInv
    <3>4. ASSUME NEW s \in Replicas \ restarted'  PROVE IdOf(s)'
      <4>1. /\ rm'[s].server_id = rm[s].server_id
            /\ rm'[s].ping.seq = NONE => rm[s].ping.seq = NONE
            /\ rm'[Host] = rm[Host] /\ IdOf(s)
        BY <1>1, <1>5, <2>2, <2>3, <2>5, <2>6, <3>3
      <4>2. \A p \in inFlight' \ inFlight : p.op = "ACK" /\ p.to # s
        BY <2>4, <3>1 DEF AcksTo
      <4> QED  BY <1>3, <2>2, <4>1, <4>2, IdStep DEF IdOf
    <3> QED  BY <3>2, <3>4
  <2>7. CASE r = Host
    <3>1. Hosts'
      <4>1. rm'[Host].len # "ok" => rm'[Host].from = NoAddr
        BY <1>1, <2>1, <2>3, <2>7 DEF Hosts, From, LenAfter
      <4>2. \A p \in inFlight' \ inFlight : p.from \notin Replicas
        BY <1>5, <2>4, <2>7 DEF AcksTo
      <4> QED  BY <1>1, <1>5, <2>5, <2>7, <4>1, <4>2 DEF Hosts
    <3>2. ASSUME NEW s \in Replicas \ restarted'  PROVE IdOf(s)'
      <4>1. rm'[s] = rm[s] /\ IdOf(s)
        BY <1>1, <1>5, <2>2, <2>5, <2>7
      <4>2. rm[s].ping.seq = NONE /\ from = s /\ ping.op = "PING" => ping.seq = NONE
        BY <1>1, <1>5, <2>1, <2>7, <4>1 DEF Hosts, From, IdOf
      <4>3. rm[s].ping.seq = NONE =>
              \A p \in inFlight' \ inFlight :
                 /\ p.op = "ACK"
                 /\ p.to = s => p.seq = -1 \/ Entered(Host, s, p.seq)'
        BY <2>4, <2>7, <4>2 DEF AcksTo
      <4> QED  BY <1>3, <2>2, <2>3, <2>7, <4>1, <4>2, <4>3, IdStep
    <3> QED  BY <3>1, <3>2
  <2> QED  BY <2>6, <2>7
<1> QED  BY <1>7, <1>8, <1>9, <1>10, <1>11, <1>12, <1>13

(* DistinctIds: however late the answers are and however often a silence    *)
(* makes the host register a replica once more, two servers that got their  *)
(* ids from the host never have the same one.                               *)
THEOREM DistinctCorrect == Spec => []DistinctIds
<1> DEFINE Inv == TypeInv /\ LinkInv /\ IdInv
<1>1. Init => Inv
  BY TypeInit, IdInit
<1>2. Inv /\ [Next]_vars => Inv'
  BY TypeNext, IdNext
<1>3. Inv => DistinctIds
  <2> SUFFICES ASSUME IdInv, HostKept,
                      NEW r \in Servers \ restarted, NEW s \in Servers \ restarted,
                      r # s, Sound(r), Sound(s), rm[r].server_id # -1
               PROVE  rm[r].server_id # rm[s].server_id
    BY DEF DistinctIds
  <2>1. \A q \in Servers \ restarted :
          Sound(q) /\ rm[q].server_id # -1 => Entered(Host, q, rm[q].server_id)
    BY Numbers DEF IdInv, IdOf, Sound
  <2> QED  BY <2>1 DEF Entered
<1> QED  BY <1>1, <1>2, <1>3, PTL DEF Spec

-----------------------------------------------------------------------------
(* Replication reaches everybody, with patient timeouts: SlotInv gives      *)
(* SlotReachesServer.                                                       *)

(* Pings differ in their source and seqnum only.                            *)
PingInv == \A p \in inFlight : p.op = "PING" => p.data = <<FALSE, FALSE>>

(* A ping that registers r is on its way.                                   *)
FirstPing(r) == \E p \in inFlight : p.op = "PING" /\ p.from = r /\ p.seq = NONE

Unlisted(r) == \A i \in Slots : rm[Host].addr[i] # r

(* Replica r has elected itself without ever having had an id.              *)
Alone(r) == rm[r].is_primary /\ rm[r].server_id = -1

(* Otherwise the host registers it once: while it runs the replica gets its *)
(* answers, and goes on pinging.                                            *)
SlotOf(r) ==
    /\ rm[r].is_primary => ~up[Host]
    /\ \A i, j \in Slots : rm[Host].addr[i] = r /\ rm[Host].addr[j] = r => i = j
    /\ FirstPing(r) => Unlisted(r)
    /\ rm[r].pc = "send" /\ rm[r].ping.seq = NONE /\ ~rm[r].is_primary =>
         Unlisted(r) /\ ~FirstPing(r)
    /\ rm[r].server_id # -1 /\ rm[r].pc = "wait" /\ ~rm[r].is_primary /\ up[Host] => Expects(r)
    /\ rm[r].len = "negative" => rm[r].server_id = -1

SlotInv ==
    HostKept =>
        /\ rm[Host].len # "ok" => \A r \in Replicas : Unlisted(r)
        /\ \A r \in Replicas \ restarted :
             up[r] /\ r \notin misread => Alone(r) \/ SlotOf(r)

-----------------------------------------------------------------------------
LEMMA PingNext == TypeInv /\ PingInv /\ [Next]_vars => PingInv'
<1> SUFFICES ASSUME TypeInv, PingInv, [Next]_vars  PROVE PingInv'
  OBVIOUS
<1>1. CASE UNCHANGED vars
  BY <1>1 DEF vars, PingInv
<1> SUFFICES ASSUME NEW r \in Servers,
                    \/ Ping(r) \/ Lost(r) \/ Primary(r) \/ Crash(r) \/ Restart(r)
                    \/ \E p \in inFlight : Answer(r, p)
                    \/ Replication(r)
             PROVE  \A p \in inFlight' \ inFlight : p.op = "PING" => p.data = <<FALSE, FALSE>>
  BY <1>1, NextCases DEF PingInv
<1>2. CASE Ping(r)
  <2> DEFINE d == <<FALSE, FALSE>>
  <2>1. \A p \in inFlight' \ inFlight :
          p = Packet("PING", r, rm[r].primary_rm, rm[r].ping.seq, d)
    BY <1>2, PingStep
  <2> HIDE DEF d
  <2>2. \A p \in inFlight' \ inFlight : p.data = d
    BY <2>1 DEF Packet
  <2> QED  BY <2>2 DEF d
<1>3. CASE Primary(r)
  BY <1>3, PrimaryStep, HandleStep DEF AcksTo
<1>4. CASE Lost(r) \/ Crash(r) \/ Restart(r) \/ \E p \in inFlight : Answer(r, p)
  BY <1>4 DEF Lost, Timeout, FailedReceive, Crash, Restart, Answer
<1>5. CASE Replication(r)
  BY <1>5, ReplicationStep
<1> QED  BY <1>2, <1>3, <1>4, <1>5

(* A primary changes one entry at most.                                     *)
LEMMA OneEntry ==
  ASSUME TypeInv, NEW r \in Servers, NEW ping \in Heard,
         NEW from \in Addresses, NEW len \in Lengths, NEW others,
         Handle(r, ping, from, len, others)
  PROVE  \E k : \A i \in Slots : i # k => rm'[r].addr[i] = rm[r].addr[i]
<1> DEFINE me == [rm[r] EXCEPT !.ping = ping, !.from = from, !.len = len]
           entry == Entry(r, ping, from)
           m == [me EXCEPT !.active = entry.active, !.addr = entry.addr,
                           !.reply = [seq |-> entry.slot,
                                      data |-> Copied(entry.active)]]
<1>1. rm[r] \in Managers /\ rm \in [Servers -> Managers]
  BY DEF TypeInv
<1>2. \E k : \A i \in Slots : i # k => entry.addr[i] = rm[r].addr[i]
  BY DEF Entry, Insert
<1>3. rm' = [rm EXCEPT ![r] = me] \/ rm' = [rm EXCEPT ![r] = m]
  BY DEF Handle
<1> HIDE DEF entry
<1>4. me \in Managers /\ me.addr = rm[r].addr
  BY <1>1 DEF Managers, Heard
<1> HIDE DEF me
<1>5. m.addr = entry.addr
  BY <1>4 DEF Managers
<1> HIDE DEF m
<1>6. rm'[r] = me \/ rm'[r] = m
  BY <1>1, <1>3
<1> QED  BY <1>2, <1>4, <1>5, <1>6

LEMMA SlotInit == Init => PingInv /\ SlotInv
<1> SUFFICES ASSUME Init  PROVE PingInv /\ SlotInv
  OBVIOUS
<1>1. inFlight = {} /\ \A r \in Servers : rm[r] \in Started(r)
  BY DEF Init
<1>2. ASSUME NEW r \in Replicas
      PROVE  /\ Unlisted(r) /\ ~rm[r].is_primary
             /\ rm[r].server_id = -1
  <2>1. rm[Host] \in Started(Host) /\ rm[r] \in Started(r) /\ r # Host /\ r # NoAddr
    BY <1>1, Numbers
  <2>2. \A i \in Slots : rm[Host].addr[i] \in {Host, NoAddr}
    BY <2>1, StartedIn, Numbers
  <2>3. ~rm[r].is_primary /\ rm[r].server_id = -1
    BY <2>1, StartedIn, Numbers
  <2> QED  BY <2>1, <2>2, <2>3 DEF Unlisted
<1>3. \A r \in Replicas : ~FirstPing(r)
  BY <1>1 DEF FirstPing
<1> QED  BY <1>1, <1>2, <1>3 DEF PingInv, SlotInv, SlotOf, Unlisted

(* What a step leaves alone.                                                *)
LEMMA SlotStill ==
  ASSUME NEW s \in Replicas, Alone(s) \/ SlotOf(s), rm'[s] = rm[s],
         \A i \in Slots : rm'[Host].addr[i] = s => rm[Host].addr[i] = s,
         up'[Host] => up[Host],
         \A p \in inFlight' \ inFlight : p.op = "PING" => p.from # s,
         \A p \in inFlight \ inFlight' : p.to # s /\ ~(p.op = "PING" /\ p.from = s)
  PROVE  Alone(s)' \/ SlotOf(s)'
<1>1. Expects(s) => Expects(s)'
  BY DEF Expects
<1>2. (FirstPing(s)' => FirstPing(s)) /\ (Unlisted(s) => Unlisted(s)')
  BY DEF FirstPing, Unlisted
<1>3. CASE Alone(s)
  BY <1>3 DEF Alone
<1>4. CASE SlotOf(s)
  BY <1>1, <1>2, <1>4 DEF SlotOf
<1> QED  BY <1>3, <1>4

(* While it does not store addresses the host lists no replica.             *)
LEMMA StoreNext ==
  ASSUME TypeInv, LinkInv, IdInv, SlotInv, [Next]_vars, HostKept', rm'[Host].len # "ok"
  PROVE  \A q \in Replicas : Unlisted(q)'
<1>1. /\ HostKept /\ rm[Host].is_primary /\ Host \in Servers /\ NoAddr \notin Servers
      /\ Replicas = Servers \ {Host}
  BY Numbers, HostKeeps DEF LinkInv
<1>2. /\ rm[Host].len # "ok" => rm[Host].from = NoAddr /\ \A q \in Replicas : Unlisted(q)
  BY <1>1 DEF IdInv, SlotInv
<1>3. CASE rm'[Host] = rm[Host]
  BY <1>2, <1>3 DEF Unlisted
<1>4. CASE Primary(Host)
  <2>1. PICK ping \in Heard, from \in Addresses, len \in Lengths, others \in SUBSET inFlight :
          /\ Handle(Host, ping, from, len, others)
          /\ \/ from = rm[Host].from /\ len = rm[Host].len
             \/ \E p \in inFlight : from = From(Host, p) /\ len = LenAfter(Host)
    BY <1>1, <1>4, PrimaryStep
  <2>2. rm'[Host].len = len /\ \A i \in Slots : rm'[Host].addr[i] \in {rm[Host].addr[i], from}
    BY <1>1, <2>1, HandleStep
  <2>3. rm[Host].len # "ok" /\ from = rm[Host].from
    BY <2>1, <2>2 DEF From, LenAfter
  <2> QED  BY <1>1, <1>2, <2>2, <2>3 DEF Unlisted
<1>5. rm'[Host] = rm[Host] \/ Primary(Host)
  <2>1. CASE UNCHANGED vars
    BY <2>1 DEF vars
  <2> SUFFICES ASSUME NEW r \in Servers,
                      \/ Ping(r) \/ Lost(r) \/ Primary(r) \/ Crash(r) \/ Restart(r)
                      \/ \E p \in inFlight : Answer(r, p)
                      \/ Replication(r)
               PROVE  rm'[Host] = rm[Host] \/ Primary(Host)
    BY <2>1, NextCases
  <2>2. CASE Ping(r)
    BY <1>1, <2>2, PingStep DEF Moves
  <2>3. CASE Lost(r)
    BY <1>1, <2>3, LostStep, GiveUpStep DEF Lost, Moves
  <2>4. CASE Primary(r)
    BY <1>1, <2>4, PrimaryStep, HandleStep DEF Moves
  <2>5. CASE Crash(r) \/ Replication(r)
    BY <2>5, ReplicationStep DEF Crash, IInv
  <2>6. CASE Restart(r)
    <3>1. Moves(r) /\ r # Host
      BY <2>6, RestartStep DEF Restart, HostKept
    <3> QED  BY <1>1, <3>1 DEF Moves
  <2>7. CASE \E p \in inFlight : Answer(r, p)
    BY <1>1, <2>7, AnswerStep DEF Moves
  <2> QED  BY <2>2, <2>3, <2>4, <2>5, <2>6, <2>7
<1> QED  BY <1>3, <1>4, <1>5

(* A step of the host: only the first ping of s concerns s.                 *)
LEMMA SlotHost ==
  ASSUME Patient, TypeInv, LinkInv, FollowInv, IdInv, PingInv, HostKept, Primary(Host),
         rm[Host].len # "ok" => \A r \in Replicas : Unlisted(r),
         NEW s \in Replicas \ restarted, up[s], s \notin misread,
         Alone(s) \/ SlotOf(s)
  PROVE  Alone(s)' \/ SlotOf(s)'
<1>1. /\ Host \in Servers /\ s \in Servers \ {Host} /\ NoAddr \notin Servers
      /\ rm[Host].is_primary
  BY Numbers DEF LinkInv
<1>2. PICK ping \in Heard, from \in Addresses, len \in Lengths, others \in SUBSET inFlight :
        /\ Handle(Host, ping, from, len, others)
        /\ \/ Silence(Host)
           \/ \E p \in inFlight :
                /\ p.to = Host /\ others = inFlight \ {p}
                /\ ping = [op |-> p.op, seq |-> p.seq]
                /\ from = From(Host, p)
  BY <1>1, PrimaryStep
<1>3. up' = up /\ up[Host]
  BY <1>1, PrimaryStep
<1>4. Moves(Host) /\ rm'[s] = rm[s]
  BY <1>1, <1>2, HandleStep DEF Moves
<1>5. CASE Alone(s)
  BY <1>4, <1>5 DEF Alone
<1>6. CASE SlotOf(s)
  <2>1. ~rm[s].is_primary
    BY <1>3, <1>6 DEF SlotOf
  <2>2. rm[s].primary_rm = Host
    BY <1>1, <2>1 DEF FollowInv, FollowOf
  <2>3. ~Silence(Host)
    BY <2>1, <2>2 DEF Silence
  <2>4. PICK p \in inFlight :
          /\ p.to = Host /\ others = inFlight \ {p}
          /\ ping = [op |-> p.op, seq |-> p.seq]
          /\ from = From(Host, p)
    BY <1>2, <2>3
  <2>5. /\ from \in {p.from, NoAddr}
        /\ rm[Host].len = "ok" => from = p.from
        /\ ping.op = p.op /\ ping.seq = p.seq
    BY <2>4 DEF IdInv, From
  <2>6. \A q \in inFlight' \ others : q.op = "ACK"
    BY <1>1, <1>2, HandleStep DEF AcksTo
  <2>7. \A i \in Slots : rm'[Host].addr[i] \in {rm[Host].addr[i], from}
    BY <1>1, <1>2, HandleStep
  <2>8. FirstPing(s)' => FirstPing(s)
    BY <2>4, <2>6 DEF FirstPing
  <2>9. rm[s].server_id # -1 => ~Unlisted(s)
    BY DEF IdInv, IdOf, Entered, Unlisted
  <2>10. CASE p.op = "PING" /\ p.from = s
    <3>1. ASSUME rm[Host].len = "ok"  PROVE \E a \in inFlight' : a.to = s
      <4>1. from = s /\ from # NoAddr /\ ping.op = "PING"
        BY <1>1, <2>5, <2>10, <3>1
      <4>2. PICK a \in AcksTo(Host, s) : inFlight' = others \cup {a}
        BY <1>1, <1>2, <4>1, HandleStep
      <4> QED  BY <4>2 DEF AcksTo
    <3>2. rm[s].server_id # -1 => Expects(s)'
      BY <2>9, <3>1 DEF Expects
    <3>3. CASE p.seq # NONE
      <4>1. rm'[Host].addr = rm[Host].addr
        BY <1>1, <1>2, <2>5, <3>3, HandleStep
      <4>2. Unlisted(s)' <=> Unlisted(s)
        BY <4>1 DEF Unlisted
      <4> QED  BY <1>4, <1>6, <2>1, <2>8, <3>2, <4>1, <4>2 DEF SlotOf
    <3>4. CASE p.seq = NONE
      <4>1. FirstPing(s)
        BY <2>10, <3>4 DEF FirstPing
      <4>2. Unlisted(s) /\ ~(rm[s].pc = "send" /\ rm[s].ping.seq = NONE)
        BY <1>6, <2>1, <4>1 DEF SlotOf
      <4>3. \A q \in inFlight :
              q.op = "PING" /\ q.from = s /\ q.seq = NONE => q = p
        <5>1. PICK d : \A q \in inFlight : q.op = "PING" => q.data = d
          BY DEF PingInv
        <5> QED  BY <2>10, <3>4, <5>1 DEF TypeInv, Packets, LinkInv
      <4>4. ~FirstPing(s)'
        BY <2>4, <2>6, <4>3 DEF FirstPing
      <4>5. PICK k : \A i \in Slots : i # k => rm'[Host].addr[i] = rm[Host].addr[i]
        BY <1>1, <1>2, OneEntry
      <4>6. \A i, j \in Slots : rm'[Host].addr[i] = s /\ rm'[Host].addr[j] = s => i = j
        BY <4>2, <4>5 DEF Unlisted
      <4>7. rm[s].server_id = -1
        BY <2>9, <4>2
      <4> QED  BY <1>4, <2>1, <4>2, <4>4, <4>6, <4>7 DEF SlotOf
    <3> QED  BY <3>3, <3>4
  <2>11. CASE ~(p.op = "PING" /\ p.from = s)
    <3>1. \A i \in Slots : rm'[Host].addr[i] = s => rm[Host].addr[i] = s
      <4>1. CASE p.op = "PING"
        <5>1. from # s
          BY <1>1, <2>5, <2>11, <4>1
        <5> QED  BY <2>7, <5>1
      <4>2. CASE p.op # "PING"
        BY <1>1, <1>2, <2>5, <4>2, HandleStep
      <4> QED  BY <4>1, <4>2
    <3>2. \A q \in inFlight' \ inFlight : q.op # "PING"
      BY <2>6
    <3>3. others \subseteq inFlight'
      BY <1>1, <1>2, HandleStep
    <3>4. \A q \in inFlight \ inFlight' : q = p
      BY <2>4, <3>3
    <3> QED  BY <1>1, <1>3, <1>4, <1>6, <2>4, <2>11, <3>1, <3>2, <3>4, SlotStill
  <2> QED  BY <2>10, <2>11
<1> QED  BY <1>5, <1>6

LEMMA SlotNext ==
  ASSUME Patient, TypeInv, LinkInv, FollowInv, IdInv, PingInv, SlotInv, [Next]_vars, HostKept',
         NEW s \in Replicas \ restarted', up'[s], s \notin misread'
  PROVE  Alone(s)' \/ SlotOf(s)'
<1>1. CASE UNCHANGED vars
  <2>1. Alone(s) \/ SlotOf(s)
    BY <1>1 DEF vars, history, SlotInv, HostKept
  <2> QED  BY <1>1, <2>1, SlotStill DEF vars, history
<1> SUFFICES ASSUME NEW r \in Servers,
                    \/ Ping(r) \/ Lost(r) \/ Primary(r) \/ Crash(r) \/ Restart(r)
                    \/ \E p \in inFlight : Answer(r, p)
                    \/ Replication(r)
             PROVE  Alone(s)' \/ SlotOf(s)'
  BY <1>1, NextCases
<1>2. /\ HostKept /\ (up'[Host] => up[Host])
      /\ rm[Host].is_primary /\ Host \in Servers /\ Replicas = Servers \ {Host}
      /\ NoAddr \notin Servers /\ s \in Servers /\ s # Host
  BY HostKeeps, Numbers DEF LinkInv
<1>3. s \notin restarted /\ up[s] /\ s \notin misread
  <2>1. CASE Ping(r)
    BY <2>1 DEF Ping, history
  <2>2. CASE Lost(r)
    BY <2>2 DEF Lost, Timeout, FailedReceive, Misread, history
  <2>3. CASE Primary(r)
    BY <2>3, PrimaryStep
  <2>4. CASE Crash(r)
    BY <2>4 DEF Crash, TypeInv
  <2>5. CASE Restart(r)
    BY <2>5 DEF Restart, TypeInv
  <2>6. CASE \E p \in inFlight : Answer(r, p)
    BY <2>6 DEF Answer, Misread
  <2>7. CASE Replication(r)
    BY <2>7, ReplicationStep
  <2> QED  BY <2>1, <2>2, <2>3, <2>4, <2>5, <2>6, <2>7
<1>4. Alone(s) \/ SlotOf(s)
  BY <1>2, <1>3 DEF SlotInv
<1>5. FollowOf(s) /\ IdOf(s)
  BY <1>2, <1>3 DEF FollowInv, IdInv
<1>6. ASSUME r # Host, r # s, Moves(r),
             \A p \in inFlight' \ inFlight : p.op = "PING" => p.from # s,
             \A p \in inFlight \ inFlight' : p.to # s /\ ~(p.op = "PING" /\ p.from = s)
      PROVE  Alone(s)' \/ SlotOf(s)'
  <2>1. rm'[s] = rm[s] /\ rm'[Host] = rm[Host]
    BY <1>2, <1>6 DEF Moves
  <2> QED  BY <1>2, <1>4, <1>6, <2>1, SlotStill
<1>7. CASE Ping(r)
  <2>1. Moves(r) /\ r # Host /\ rm'[r] = [rm[r] EXCEPT !.pc = "wait"] /\ ~rm[r].is_primary
    BY <1>2, <1>7, PingStep
  <2>2. rm[r].pc = "send" /\ rm[r] \in Managers /\ inFlight \subseteq inFlight'
    BY <1>7, PingStep DEF Ping, TypeInv
  <2>3. \A p \in inFlight' \ inFlight : p.op = "PING" /\ p.from = r /\ p.seq = rm[r].ping.seq
    <3> DEFINE d == <<FALSE, FALSE>>
    <3>1. \A p \in inFlight' \ inFlight :
            p = Packet("PING", r, rm[r].primary_rm, rm[r].ping.seq, d)
      BY <1>7, PingStep
    <3> HIDE DEF d
    <3> QED  BY <3>1 DEF Packet
  <2>4. CASE r # s
    BY <1>6, <2>1, <2>2, <2>3, <2>4
  <2>5. CASE r = s
    <3>1. SlotOf(s)
      BY <1>4, <2>1, <2>5 DEF Alone
    <3>2. rm[r].primary_rm = Host
      BY <1>3, <1>5, <2>1, <2>5 DEF FollowOf
    <3>3. Expects(s)'
      <4> DEFINE p == Packet("PING", r, rm[r].primary_rm, rm[r].ping.seq, <<FALSE, FALSE>>)
      <4>1. p \in inFlight'
        <5>1. rm[r].primary_rm # NoAddr
          BY <1>2, <3>2
        <5> HIDE DEF p
        <5>2. inFlight' = inFlight \cup {p}
          BY <1>7, <5>1, PingStep DEF p
        <5> QED  BY <5>2
      <4>2. p.op = "PING" /\ p.from = s
        BY <2>5 DEF Packet
      <4> QED  BY <4>1, <4>2 DEF Expects
    <3>4. rm'[Host] = rm[Host] /\ (Unlisted(s) <=> Unlisted(s)')
      BY <1>2, <2>1 DEF Moves, Unlisted
    <3>5. FirstPing(s)' => Unlisted(s)
      <4>1. FirstPing(s)' => FirstPing(s) \/ rm[s].ping.seq = NONE
        BY <2>3, <2>5 DEF FirstPing
      <4> QED  BY <2>1, <2>2, <2>5, <3>1, <4>1 DEF SlotOf
    <3>6. /\ rm'[s].pc = "wait" /\ ~rm'[s].is_primary
          /\ rm'[s].len = rm[s].len /\ rm'[s].server_id = rm[s].server_id
      BY <2>1, <2>2, <2>5 DEF Managers
    <3> QED  BY <3>1, <3>3, <3>4, <3>5, <3>6 DEF SlotOf
  <2> QED  BY <2>4, <2>5
<1>8. CASE Lost(r)
  <2>1. PICK reply \in Replies :
          /\ GiveUp(r, reply)
          /\ Timeout(r) \/ \E p \in inFlight : FailedReceive(r, p) /\ p.op # "PING"
    BY <1>8, LostStep DEF Lost
  <2>2. ~rm[r].is_primary
    BY <1>8, LostStep DEF Lost
  <2>3. /\ Moves(r) /\ r # Host /\ rm'[r].len = rm[r].len
        /\ rm'[r].server_id = rm[r].server_id /\ up' = up
    BY <1>2, <1>8, <2>1, <2>2, GiveUpStep DEF Lost, Timeout, FailedReceive
  <2>4. inFlight' \subseteq inFlight /\ \A p \in inFlight \ inFlight' : p.to = r /\ p.op # "PING"
    BY <2>1 DEF Timeout, FailedReceive
  <2>5. CASE r # s
    BY <1>6, <2>3, <2>4, <2>5
  <2>6. CASE r = s
    <3>1. SlotOf(s)
      BY <1>4, <2>2, <2>6 DEF Alone
    <3>2. rm'[s].is_primary
      BY <1>3, <1>5, <2>1, <2>2, <2>6, GiveUpStep DEF FollowOf
    <3>3. CASE rm[s].server_id = -1
      BY <2>3, <2>6, <3>2, <3>3 DEF Alone
    <3>4. CASE rm[s].server_id # -1
      <4>1. Timeout(s) /\ rm[s].pc = "wait"
        BY <2>1, <2>6, <3>1, <3>4 DEF SlotOf, FailedReceive, Timeout
      <4>2. ~up[Host]
        <5> SUFFICES ASSUME up[Host]  PROVE FALSE
          OBVIOUS
        <5>1. PICK p \in inFlight : p.to = s \/ (p.op = "PING" /\ p.from = s)
          BY <2>2, <2>6, <3>1, <3>4, <4>1 DEF SlotOf, Expects
        <5>2. p.to # s /\ ~(p.from = s /\ p.op = "PING" /\ up[p.to])
          BY <4>1 DEF Timeout
        <5> QED  BY <5>1, <5>2 DEF LinkInv
      <4>3. rm'[Host] = rm[Host] /\ (Unlisted(s) <=> Unlisted(s)')
        BY <1>2, <2>3 DEF Moves, Unlisted
      <4>4. FirstPing(s)' => FirstPing(s)
        BY <2>4 DEF FirstPing
      <4> QED  BY <2>3, <2>6, <3>1, <3>2, <4>2, <4>3, <4>4 DEF SlotOf
    <3> QED  BY <3>3, <3>4
  <2> QED  BY <2>5, <2>6
<1>9. CASE Primary(r) /\ r = Host
  <2>1. rm[Host].len # "ok" => \A q \in Replicas : Unlisted(q)
    BY <1>2 DEF SlotInv
  <2> QED  BY <1>2, <1>3, <1>4, <1>9, <2>1, SlotHost
<1>10. CASE Primary(r) /\ r # Host
  <2>1. PICK ping \in Heard, from \in Addresses, len \in Lengths, others \in SUBSET inFlight :
          /\ Handle(r, ping, from, len, others)
          /\ \/ len = rm[r].len /\ others = inFlight
             \/ \E p \in inFlight : p.to = r /\ others = inFlight \ {p} /\ len = LenAfter(r)
    BY <1>10, PrimaryStep
  <2>2. /\ Moves(r) /\ rm'[r].is_primary = rm[r].is_primary
        /\ rm'[r].server_id = rm[r].server_id /\ rm'[r].len = len /\ others \subseteq inFlight'
        /\ \A p \in inFlight' \ others : p.op = "ACK"
    BY <2>1, HandleStep DEF AcksTo
  <2>3. \A p \in inFlight \ inFlight' : p.to = r /\ p.op # "PING"
    BY <1>10, <2>1, <2>2 DEF LinkInv
  <2>4. CASE r # s
    BY <1>6, <1>10, <2>2, <2>3, <2>4
  <2>5. CASE r = s
    <3>1. rm[s].is_primary /\ up' = up
      BY <1>10, <2>5, PrimaryStep
    <3>2. CASE Alone(s)
      BY <2>2, <2>5, <3>2 DEF Alone
    <3>3. CASE SlotOf(s)
      <4>1. rm'[Host] = rm[Host] /\ (Unlisted(s) <=> Unlisted(s)')
        BY <1>2, <1>10, <2>2 DEF Moves, Unlisted
      <4>2. FirstPing(s)' => FirstPing(s)
        BY <2>2 DEF FirstPing
      <4>3. len = "negative" => rm[s].len = "negative"
        BY <2>1, <2>5 DEF LenAfter
      <4> QED  BY <2>2, <2>5, <3>1, <3>3, <4>1, <4>2, <4>3 DEF SlotOf
    <3> QED  BY <1>4, <3>2, <3>3
  <2> QED  BY <2>4, <2>5
<1>11. CASE Crash(r)
  <2>1. rm' = rm /\ inFlight' = inFlight
    BY <1>11 DEF Crash
  <2> QED  BY <1>2, <1>4, <2>1, SlotStill
<1>12. CASE Restart(r)
  <2>1. Moves(r) /\ r # Host /\ r # s /\ inFlight' = inFlight
    BY <1>12, RestartStep DEF Restart, HostKept
  <2> QED  BY <1>6, <2>1
<1>13. CASE \E p \in inFlight : Answer(r, p)
  <2>1. PICK p \in inFlight : Answer(r, p)
    BY <1>13
  <2>2. /\ Moves(r) /\ r # Host /\ p.op # "PING" /\ ~rm[r].is_primary /\ ~rm'[r].is_primary
        /\ rm'[r].pc = "send" /\ rm'[r].ping.seq # NONE /\ rm'[r].len = "ok"
    BY <1>2, <2>1, AnswerStep
  <2>3. inFlight' = inFlight \ {p} /\ p.to = r
    BY <2>1 DEF Answer
  <2>4. CASE r # s
    BY <1>6, <2>2, <2>3, <2>4
  <2>5. CASE r = s
    <3>1. SlotOf(s)
      BY <1>4, <2>2, <2>5 DEF Alone
    <3>2. rm'[Host] = rm[Host] /\ (Unlisted(s) <=> Unlisted(s)')
      BY <1>2, <2>2 DEF Moves, Unlisted
    <3>3. FirstPing(s)' => FirstPing(s)
      BY <2>3 DEF FirstPing
    <3> QED  BY <2>2, <2>5, <3>1, <3>2, <3>3 DEF SlotOf
  <2> QED  BY <2>4, <2>5
<1>14. CASE Replication(r)
  <2>1. /\ rm' = rm /\ inFlight \subseteq inFlight'
        /\ \A p \in inFlight' \ inFlight : p.op = "REPLICATED"
    BY <1>14, ReplicationStep
  <2> QED  BY <1>2, <1>4, <2>1, SlotStill
<1> QED  BY <1>7, <1>8, <1>9, <1>10, <1>11, <1>12, <1>13, <1>14

(* SlotReachesServer: with patient timeouts the host's entry of a replica   *)
(* is the one whose number the replica has for its id, so replication,      *)
(* which skips the host's own entry, reaches every registered replica.      *)
THEOREM SlotCorrect == ASSUME Patient PROVE Spec => []SlotReachesServer
<1> DEFINE Inv == TypeInv /\ LinkInv /\ FollowInv /\ IdInv /\ PingInv /\ SlotInv
<1>1. Init => Inv
  BY TypeInit, FollowInit, IdInit, SlotInit
<1>2. Inv /\ [Next]_vars => Inv'
  <2> SUFFICES ASSUME Inv, [Next]_vars  PROVE Inv'
    OBVIOUS
  <2>1. TypeInv' /\ LinkInv' /\ FollowInv' /\ IdInv' /\ PingInv'
    BY TypeNext, FollowNext, IdNext, PingNext
  <2>2. SlotInv'
    BY StoreNext, SlotNext DEF SlotInv
  <2> QED  BY <2>1, <2>2
<1>3. Inv => SlotReachesServer
  <2> SUFFICES ASSUME IdInv, SlotInv, HostKept,
                      NEW i \in Slots, NEW r \in Replicas \ restarted,
                      rm[Host].addr[i] = r, Sound(r), rm[r].server_id # -1
               PROVE  rm[r].server_id = i
    BY DEF SlotReachesServer
  <2>1. Entered(Host, r, rm[r].server_id)
    BY DEF IdInv, IdOf, Sound
  <2>2. SlotOf(r)
    BY DEF SlotInv, Sound, Alone
  <2> QED  BY <2>1, <2>2 DEF Entered, SlotOf
<1> QED  BY <1>1, <1>2, <1>3, PTL DEF Spec

=============================================================================
