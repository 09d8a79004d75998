--------------------------- MODULE ReplicaManager ---------------------------
(***************************************************************************)
(* The replica managers of several servers (src/dropboxServer.c): one      *)
(* server is started with 127.0.0.1 and is the primary, the others are     *)
(* started with its address and ping it; the first ping registers the      *)
(* replica, the answer carries its id and the list of servers.  A replica  *)
(* whose ping is not answered within 2 s takes the primary for dead and    *)
(* elects another one; a primary that hears nothing for 25 s handles the   *)
(* packet it received last once more.                                      *)
(*                                                                         *)
(* All of this goes over port 5000, which is also where replication sends  *)
(* its copies of the clients' packets and a session thread the packets of  *)
(* an uploaded file.  A replica does not look at the opcode of an answer.  *)
(***************************************************************************)
EXTENDS Integers

CONSTANTS
    Host,           \* the server started with 127.0.0.1
    Replicas,       \* the servers started with the host's address
    NoAddr,         \* an address where nobody is
    MAXSERVERS,     \* entries of serverlist
    Garbage,        \* what the uninitialised ping_reply and from_len may hold
    FilePackets,    \* numbers and first bytes of uploaded files' packets
    Patient,        \* no timeout is premature, no packet is lost
    MaxCrashes,     \* bound: crashes
    MaxReplications \* bound: packets that are replicated or forwarded

(* from_len: large enough; too small, so that recvfrom stores no address but *)
(* sets it for the next call; or negative, so that recvfrom fails each time  *)
(* although the packet is in the buffer.                                     *)
Lengths == {"ok", "small", "negative"}

NONE == 1000   \* a seqnum that is no id
LOGIN == 7

Servers == Replicas \cup {Host}
Slots == 0 .. MAXSERVERS - 1

ASSUME ReplicaAssumption ==
    /\ Host \notin Replicas /\ NoAddr \notin Replicas \cup {Host}
    /\ MAXSERVERS \in Nat /\ MAXSERVERS >= 2 /\ MAXSERVERS <= NONE
    /\ Garbage \subseteq [data : BOOLEAN \X BOOLEAN, len : Lengths]
    /\ FilePackets \subseteq [seq : Slots \cup {LOGIN}, data : BOOLEAN \X BOOLEAN]
    /\ Patient \in BOOLEAN
    /\ MaxCrashes \in Nat /\ MaxReplications \in Nat

(* Numbers that end up in a seqnum: ids, -1 for a full list, NONE, and what *)
(* clients put there (LOGIN in a login, 0 in a request).                    *)
Seqs == Slots \cup {-1, NONE, LOGIN}

VARIABLES
    rm,        \* [Servers -> the globals and locals of replica_manager]
    up,        \* [Servers -> BOOLEAN]: the process runs
    inFlight,  \* packets to somebody's port 5000
    crashes, replications,   \* the bounds' counters
    restarted, \* servers that have been started again after a crash
    misread    \* replicas that took a replicated packet for an answer

history == <<crashes, replications, restarted, misread>>
vars == <<rm, up, inFlight, history>>

(* data stands for the bytes that update_server_list copies from a packet,  *)
(* active[0] and active[1].                                                 *)
Packet(op, from, to, seq, data) ==
    [op |-> op, from |-> from, to |-> to, seq |-> seq, data |-> data]

(* The state before the loop.  The host registers itself first.             *)
Started(r) ==
    { [pc |-> "send", is_primary |-> r = Host,
       server_id |-> IF r = Host THEN 0 ELSE -1, primary_id |-> 0,
       primary_rm |-> Host,
       active |-> [i \in Slots |-> r = Host /\ i = 0],
       addr |-> [i \in Slots |-> IF r = Host /\ i = 0 THEN Host ELSE NoAddr],
       ping |-> [op |-> "PING", seq |-> IF r = Host THEN 0 ELSE NONE],
       reply |-> [seq |-> -1, data |-> g.data],
       from |-> NoAddr, len |-> g.len] : g \in Garbage }

Init ==
    /\ rm \in [Servers -> UNION {Started(r) : r \in Servers}]
    /\ \A r \in Servers : rm[r] \in Started(r)
    /\ up = [r \in Servers |-> TRUE]
    /\ inFlight = {}
    /\ crashes = 0 /\ replications = 0
    /\ restarted = {} /\ misread = {}

-----------------------------------------------------------------------------
(* The list *)

Least(S) == CHOOSE i \in S : \A j \in S : i <= j

(* strncpy stops at the first zero byte, which is the second byte of        *)
(* active[0]: the rest of the list is sent as zeros.                        *)
Copied_Whole(active) == <<active[0], active[1]>>
Copied(active) == <<active[0], FALSE>>

(* memcpy of sizeof(data), the size of a pointer: two integers.             *)
UpdateList(active, data) == [active EXCEPT ![0] = data[1], ![1] = data[2]]

Insert_NoRoomCheck(m, from) ==
    LET free == {i \in Slots : ~m.active[i]}
        i == IF free = {} THEN MAXSERVERS ELSE Least(free)
    IN  [slot |-> i, active |-> [j \in Slots |-> m.active[j] \/ j = i],
         addr |-> [j \in Slots |-> IF j = i THEN from ELSE m.addr[j]]]

Insert_NotMarked(m, from) ==
    LET free == {i \in Slots : ~m.active[i]}
        i == IF free = {} THEN -1 ELSE Least(free)
    IN  [slot |-> i, active |-> m.active,
         addr |-> [j \in Slots |-> IF j = i THEN from ELSE m.addr[j]]]

Insert_CountsReplicas(m, from) ==
    LET free == {i \in Slots : ~m.active[i]}
        i == IF free = {} THEN -1 ELSE Least(free)
    IN  [slot |-> i - 1, active |-> [j \in Slots |-> m.active[j] \/ j = i],
         addr |-> [j \in Slots |-> IF j = i THEN from ELSE m.addr[j]]]

(* insert_in_server_list: the first free entry, or -1.                      *)
Insert(m, from) ==
    LET free == {i \in Slots : ~m.active[i]}
        i == IF free = {} THEN -1 ELSE Least(free)
    IN  [slot |-> i, active |-> [j \in Slots |-> m.active[j] \/ j = i],
         addr |-> [j \in Slots |-> IF j = i THEN from ELSE m.addr[j]]]

Elect_NoneActive(m) ==
    LET on == {i \in Slots : m.active[i]}
        first == IF on = {} THEN m.primary_id ELSE Least(on)
    IN  [m EXCEPT !.primary_id = first, !.is_primary = (first = m.server_id)]

(* elect_primary: the first active server; this one, if that is it or there *)
(* is none.                                                                 *)
Elect(m) ==
    LET on == {i \in Slots : m.active[i]}
        self == on = {} \/ Least(on) = m.server_id
    IN  [m EXCEPT !.primary_id = IF self THEN m.server_id ELSE Least(on),
                  !.is_primary = self]

(* The entry of an index that may be -1 or LOGIN: then it is read outside   *)
(* the list, but by a server that will not use it.                          *)
AddrOf(m, i) == IF i \in Slots THEN m.addr[i] ELSE NoAddr

-----------------------------------------------------------------------------
(* A replica: send a ping, wait for whatever comes *)

Ping(r) ==
    /\ up[r] /\ ~rm[r].is_primary /\ rm[r].pc = "send"
    /\ rm' = [rm EXCEPT ![r].pc = "wait"]
    /\ inFlight' = inFlight \cup
         (IF rm[r].primary_rm = NoAddr THEN {}
          ELSE {Packet("PING", r, rm[r].primary_rm, rm[r].ping.seq, <<FALSE, FALSE>>)})
    /\ UNCHANGED <<up, history>>

(* The source address of p, and from_len, after recvfrom.                   *)
From(r, p) == IF rm[r].len = "ok" THEN p.from ELSE rm[r].from
LenAfter(r) == IF rm[r].len = "negative" THEN "negative" ELSE "ok"

Misread(r, p) == misread' = IF p.op = "REPLICATED" THEN misread \cup {r} ELSE misread

Answer(r, p) ==
    /\ up[r] /\ ~rm[r].is_primary /\ rm[r].pc = "wait"
    /\ p.to = r /\ rm[r].len # "negative"
    /\ inFlight' = inFlight \ {p}
    /\ LET new == rm[r].ping.seq = NONE
           seq == IF new THEN p.seq ELSE rm[r].ping.seq
       IN  rm' = [rm EXCEPT ![r] =
                    [rm[r] EXCEPT
                       !.pc = "send", !.from = From(r, p), !.len = "ok",
                       !.reply = [seq |-> p.seq, data |-> p.data],
                       !.ping = [op |-> rm[r].ping.op, seq |-> seq],
                       !.server_id = IF new THEN p.seq ELSE rm[r].server_id,
                       !.active = UpdateList(rm[r].active, p.data)]]
    /\ Misread(r, p)
    /\ UNCHANGED <<up, crashes, replications, restarted>>

(* The primary is struck off the list and another one elected; then the     *)
(* list is updated from the buffer, which may mark it as active again.      *)
GiveUp(r, reply) ==
    LET e == Elect([rm[r] EXCEPT !.active[rm[r].primary_id] = FALSE])
    IN  rm' = [rm EXCEPT ![r] =
                 [e EXCEPT !.pc = "send", !.reply = reply,
                           !.primary_rm = AddrOf(e, e.primary_id),
                           !.active = UpdateList(e.active, reply.data)]]

(* Nothing in 2 s: the buffer holds the answer received last.               *)
Timeout(r) ==
    /\ up[r] /\ ~rm[r].is_primary /\ rm[r].pc = "wait"
    /\ Patient => \A p \in inFlight :
                    /\ p.to # r
                    /\ ~(p.from = r /\ p.op = "PING" /\ up[p.to])
    /\ GiveUp(r, rm[r].reply)
    /\ UNCHANGED <<up, inFlight, history>>

(* recvfrom takes the packet and fails: the code sees a timeout.            *)
FailedReceive(r, p) ==
    /\ up[r] /\ ~rm[r].is_primary /\ rm[r].pc = "wait"
    /\ p.to = r /\ rm[r].len = "negative"
    /\ inFlight' = inFlight \ {p}
    /\ GiveUp(r, [seq |-> p.seq, data |-> p.data])
    /\ Misread(r, p)
    /\ UNCHANGED <<up, crashes, replications, restarted>>

-----------------------------------------------------------------------------
(* A primary: wait for a packet, answer it if it is a ping *)

(* A ping with seqnum NONE registers its sender.  An answer to a registered *)
(* replica carries the seqnum of the answer before.                         *)
Entry(r, ping, from) ==
    IF ping.seq = NONE THEN Insert(rm[r], from)
    ELSE [slot |-> rm[r].reply.seq, active |-> rm[r].active, addr |-> rm[r].addr]

AckTo_UnlessFull(r, to, entry) ==
    IF to = NoAddr \/ entry.slot = -1 THEN {}
    ELSE {Packet("ACK", r, to, entry.slot, Copied(entry.active))}

AckTo(r, to, entry) ==
    IF to = NoAddr THEN {}
    ELSE {Packet("ACK", r, to, entry.slot, Copied(entry.active))}

(* What is done with the packet in ping, new or not.                        *)
Handle(r, ping, from, len, others) ==
    LET me == [rm[r] EXCEPT !.ping = ping, !.from = from, !.len = len]
        entry == Entry(r, ping, from)
    IN  \/ /\ ping.op # "PING"
           /\ rm' = [rm EXCEPT ![r] = me]
           /\ inFlight' = others
        \/ /\ ping.op = "PING"
           /\ rm' = [rm EXCEPT ![r] =
                [me EXCEPT !.active = entry.active, !.addr = entry.addr,
                           !.reply = [seq |-> entry.slot,
                                      data |-> Copied(entry.active)]]]
           /\ inFlight' = others \cup AckTo(r, from, entry)

Serve(r, p) ==
    /\ up[r] /\ rm[r].is_primary
    /\ p.to = r
    /\ Handle(r, [op |-> p.op, seq |-> p.seq],
              From(r, p), LenAfter(r), inFlight \ {p})
    /\ UNCHANGED <<up, history>>

(* Nothing in 25 s: recvfrom's result is not looked at.                     *)
Silence(r) ==
    /\ up[r] /\ rm[r].is_primary
    /\ Patient => /\ \A p \in inFlight : p.to # r
                  /\ \A s \in Replicas :
                       ~(up[s] /\ ~rm[s].is_primary /\ rm[s].primary_rm = r)
    /\ Handle(r, rm[r].ping, rm[r].from, rm[r].len, inFlight)
    /\ UNCHANGED <<up, history>>

-----------------------------------------------------------------------------
(* replication, called by the main thread and the session threads: a copy   *)
(* to every address of the list, active or not.  The name in it fills       *)
(* active[0] and, with whatever follows it, active[1].  It is sent from     *)
(* port 4000, where nobody reads an answer.                                 *)
Replicate(r, seq, long) ==
    /\ up[r]
    /\ replications < MaxReplications
    /\ replications' = replications + 1
    /\ inFlight' = inFlight \cup
         {Packet("REPLICATED", NoAddr, rm[r].addr[i], seq, <<TRUE, long>>) :
             i \in {j \in Slots \ {rm[r].server_id} : rm[r].addr[j] # NoAddr}}
    /\ UNCHANGED <<rm, up, crashes, restarted, misread>>

(* receive_file: a packet of an uploaded file, to one entry after another,  *)
(* the server's own included; the numbers count packets or bytes.  (A last  *)
(* packet of NONE bytes is left out.)  Nobody answers it.                   *)
Forward(r, i, file) ==
    /\ up[r] /\ rm[r].addr[i] # NoAddr
    /\ replications < MaxReplications
    /\ replications' = replications + 1
    /\ inFlight' = inFlight \cup {Packet("REPLICATED", NoAddr, rm[r].addr[i], file.seq, file.data)}
    /\ UNCHANGED <<rm, up, crashes, restarted, misread>>

Replication(r) ==
    \/ \E seq \in {0, LOGIN}, long \in BOOLEAN : Replicate(r, seq, long)
    \/ \E i \in Slots, file \in FilePackets : Forward(r, i, file)

(* A server may stop at any time, and be started again once.                *)
Crash(r) ==
    /\ up[r] /\ crashes < MaxCrashes
    /\ crashes' = crashes + 1
    /\ up' = [up EXCEPT ![r] = FALSE]
    /\ UNCHANGED <<rm, inFlight, replications, restarted, misread>>

Restart(r) ==
    /\ ~up[r] /\ r \notin restarted
    /\ up' = [up EXCEPT ![r] = TRUE]
    /\ \E m \in Started(r) : rm' = [rm EXCEPT ![r] = m]
    /\ restarted' = restarted \cup {r}
    /\ misread' = misread \ {r}
    /\ UNCHANGED <<inFlight, crashes, replications>>

Replica(r) ==
    \/ Ping(r) \/ Timeout(r)
    \/ \E p \in inFlight : Answer(r, p) \/ FailedReceive(r, p)
Primary(r) == (\E p \in inFlight : Serve(r, p)) \/ Silence(r)

Next ==
    \E r \in Servers : Replica(r) \/ Primary(r) \/ Replication(r) \/ Crash(r) \/ Restart(r)

Spec == Init /\ [][Next]_vars

(* A running replica manager goes on with its loop: what can come comes, or *)
(* the timeout does.                                                        *)
FairSpec == Spec /\ \A r \in Servers : WF_vars(Replica(r)) /\ WF_vars(Primary(r))

-----------------------------------------------------------------------------
(* Properties *)

TypeOK ==
    /\ \A r \in Servers :
         /\ rm[r].pc \in {"send", "wait"} /\ rm[r].is_primary \in BOOLEAN
         /\ rm[r].server_id \in Seqs \ {NONE}
         /\ rm[r].primary_id \in Seqs \ {NONE}
         /\ rm[r].primary_rm \in Servers \cup {NoAddr}
         /\ rm[r].active \in [Slots -> BOOLEAN]
         /\ rm[r].addr \in [Slots -> Servers \cup {NoAddr}]
         /\ rm[r].ping.seq \in Seqs /\ rm[r].reply.seq \in Seqs
    /\ \A p \in inFlight : p.to \in Servers /\ p.seq \in Seqs

HostKept == Host \notin restarted
Sound(r) == up[r] /\ r \notin misread

(* Two servers never have the same id, although answers are late and pings  *)
(* are handled again after a silence: unless the host has lost its list or  *)
(* a replica took its id from a replicated packet.  Nor does it hold of a   *)
(* replica that was started again: an answer to a ping of its former life   *)
(* carries the id given to whoever registered last.                         *)
DistinctIds ==
    HostKept =>
        \A r, s \in Servers \ restarted :
            /\ r # s /\ Sound(r) /\ Sound(s) /\ rm[r].server_id # -1
            => rm[r].server_id # rm[s].server_id

(* The address in the host's entry i is that of the server whose id is i,   *)
(* so replication, which skips its own entry only, reaches everybody else.  *)
SlotReachesServer ==
    HostKept =>
        \A i \in Slots, r \in Replicas \ restarted :
            /\ rm[Host].addr[i] = r /\ Sound(r) /\ rm[r].server_id # -1
            => rm[r].server_id = i

(* The source of a registration was not stored.                             *)
Unrecorded == \E i \in Slots : rm[Host].active[i] /\ rm[Host].addr[i] = NoAddr

(* With patient timeouts there is one primary as long as the host runs,     *)
(* even if the list is full and whatever packets are taken for answers;     *)
(* unless some from_len makes recvfrom fail.                                *)
OnePrimary ==
    up[Host] /\ HostKept /\ ~Unrecorded =>
        \A r \in Replicas :
            up[r] /\ rm[r].len # "negative" => ~rm[r].is_primary

(* A replica that has not elected itself still follows the host: as only    *)
(* active[0] of the list arrives, an election never falls on another        *)
(* replica, whose address would be unknown here.                            *)
NeverOrphaned ==
    \A r \in Replicas : Sound(r) /\ ~rm[r].is_primary => rm[r].primary_rm = Host

(* When the host has crashed some replica becomes primary, if one is left;  *)
(* but a replica whose list was overwritten by a replicated packet may wait *)
(* for ever for a server that does not exist.                               *)
Takeover ==
    ~up[Host] ~> \/ up[Host]
                 \/ \E r \in Replicas : up[r] /\ rm[r].is_primary
                 \/ \A r \in Replicas : ~Sound(r)

=============================================================================
