--------------------------- MODULE FrontEndProofs ---------------------------
(***************************************************************************)
(* Proofs about FrontEnd, for any clients and any number of packets and    *)
(* timeouts.  IInv is inductive; the three invariants of FrontEnd follow   *)
(* from it.                                                                *)
(***************************************************************************)
EXTENDS FrontEnd, FiniteSetTheorems, TLAPS

Mains == [pc : {"login", "reply", "ping", "session", "return", "exited"},
          client : Clients \cup {"nobody"}, client_len : 0 .. 1]
Sessions == [pc : {"none", "setup", "recv", "wait", "over"},
             client : Clients \cup {"nobody", "server"},
             request : Packets, reply : Packets, timed : BOOLEAN]
Pings == [pc : {"none", "send", "wait"}, rm : {"server", "zero", "garbage"}]

(* The types.  Main never learns the address of a client, and creates the   *)
(* relay late.                                                              *)
MainInv ==
    /\ main \in Mains /\ main.client = "nobody"
    /\ main.pc = "login" => main.client_len = 0
    /\ main.pc \in {"login", "reply", "ping", "session"} => session.pc = "none"

RelayInv ==
    /\ session \in Sessions
    /\ session.pc = "wait" => session.timed /\ session.client = session.request.from

QueueInv == toMain \in Seq(Packets) /\ toSession \in Seq(Packets) /\ toServer \in Seq(Packets)

(* A client that waits has sent what it waits for.                          *)
WaitInv ==
    /\ waiting \in [Clients -> Packets] /\ sent \in [Clients -> 0 .. MaxRequests]
    /\ got \in [Clients -> [want : Packets, reply : Packets]]
    /\ \A c \in Clients : waiting[c] = Nothing \/ (waiting[c].c = c /\ waiting[c].n = sent[c])

RestInv ==
    /\ ping \in Pings /\ serverlist \in {"zero", "garbage"}
    /\ users \subseteq Clients /\ timeouts \in 0 .. MaxTimeouts

TypeInv == MainInv /\ RelayInv /\ QueueInv /\ WaitInv /\ RestInv

(* Where packets at the sockets come from.                                  *)
FromInv ==
    /\ \A i \in 1 .. Len(toSession) : toSession[i].from \in users \cup {"server"}
    /\ \A i \in 1 .. Len(toServer) : toServer[i].from \in {"main", "session"}
    /\ session.request.from \in users \cup {"server", "nobody"}
    /\ IsFiniteSet(users)

ClientInv == \A c \in Clients : got[c].want # Nothing => c \in users /\ session.timed

(* Nothing from the relay is in the queue q.                                *)
NoneOut(q) == \A i \in 1 .. Len(q) : q[i].from # "session"

(* Only p is.                                                               *)
OneOut(q, p) ==
    \E i \in 1 .. Len(q) :
        /\ q[i] = [p EXCEPT !.from = "session"]
        /\ \A j \in 1 .. Len(q) : q[j].from = "session" => j = i

(* The answers of the server to p.                                          *)
Answers(a, p) ==
    /\ a.from = "server" /\ a.c = p.c /\ a.n = p.n
    /\ p.op = "REQUEST" => a.op = "NACK"

(* One client, no late reply: a packet at a time goes round.                *)
Single == timeouts = 0 /\ Cardinality(users) <= 1

(* A packet of the client on its way to the relay, at the server, or its    *)
(* answer on the way back.                                                  *)
RoundInv ==
    /\ session.pc \in {"none", "setup", "over"} => NoneOut(toServer) /\ toSession = <<>>
    /\ session.pc = "recv" =>
         /\ NoneOut(toServer)
         /\ \/ toSession = <<>>
            \/ \E c \in users : /\ toSession = <<waiting[c]>>
                                /\ waiting[c] # Nothing /\ waiting[c].from = c
    /\ session.pc = "wait" =>
         /\ session.client \in users
         /\ session.request = waiting[session.client] /\ session.request # Nothing
         /\ \/ /\ NoneOut(toServer)
               /\ \E a \in Packets : toSession = <<a>> /\ Answers(a, session.request)
            \/ toSession = <<>> /\ OneOut(toServer, session.request)

GotInv ==
    \A c \in Clients : /\ got[c].reply.c = got[c].want.c
                       /\ got[c].reply.n = got[c].want.n
                       /\ got[c].want.op = "REQUEST" => got[c].reply.op = "NACK"

IInv ==
    /\ TypeInv /\ FromInv /\ ClientInv
    /\ Single => RoundInv /\ GotInv

-----------------------------------------------------------------------------
(* The steps *)

LEMMA NothingIn == Nothing \in Packets /\ Nothing.op = "GARBAGE" /\ Nothing.from = "nobody"
BY FrontEndAssumption DEF Nothing, Packet, Packets

LEMMA Queue ==
  ASSUME NEW q \in Seq(Packets)
  PROVE  /\ \A p \in Packets :
              /\ Append(q, p) \in Seq(Packets) /\ Len(Append(q, p)) = Len(q) + 1
              /\ \A i \in 1 .. Len(q) : Append(q, p)[i] = q[i]
              /\ Append(q, p)[Len(q) + 1] = p
         /\ Len(q) \in Nat
         /\ q # <<>> =>
              /\ Head(q) = q[1] /\ Head(q) \in Packets /\ Tail(q) \in Seq(Packets)
              /\ Len(q) > 0 /\ Len(Tail(q)) = Len(q) - 1
              /\ \A i \in 1 .. Len(q) - 1 : Tail(q)[i] = q[i + 1]
OBVIOUS

(* A packet as it arrives.                                                  *)
LEMMA Stamped ==
  ASSUME NEW p \in Packets, NEW whom \in {"main", "session"}
  PROVE  /\ [p EXCEPT !.from = whom] \in Packets
         /\ [p EXCEPT !.from = whom].from = whom
BY DEF Packets

(* A sendto puts the packet at the server, answers a client, or does        *)
(* nothing.                                                                 *)
LEMMA DeliverStep ==
  ASSUME TypeInv, NEW whom \in {"main", "session"},
         NEW to \in Clients \cup {"server", "nobody"}, NEW p \in Packets,
         Deliver(whom, to, p)
  PROVE  /\ sent' = sent /\ users' = users
         /\ toServer' \in Seq(Packets) /\ waiting' \in [Clients -> Packets]
         /\ got' \in [Clients -> [want : Packets, reply : Packets]]
         /\ [p EXCEPT !.from = whom] \in Packets
         /\ to = "server" => /\ toServer' = Append(toServer, [p EXCEPT !.from = whom])
                             /\ waiting' = waiting /\ got' = got
         /\ to # "server" => toServer' = toServer
         /\ to \notin Clients => waiting' = waiting /\ got' = got
         /\ to \in Clients =>
              /\ got'[to] = [want |-> waiting[to], reply |-> p]
              /\ waiting'[to] = Nothing
              /\ \A c \in Clients \ {to} : got'[c] = got[c] /\ waiting'[c] = waiting[c]
<1>1. [p EXCEPT !.from = whom] \in Packets
  BY DEF Packets
<1>2. toServer \in Seq(Packets)
  BY DEF TypeInv, QueueInv
<1>3. sent' = sent /\ users' = users
  BY DEF Deliver
<1>4. CASE to = "server"
  <2>1. /\ toServer' = Append(toServer, [p EXCEPT !.from = whom])
        /\ waiting' = waiting /\ got' = got /\ to \notin Clients
    BY <1>4, FrontEndAssumption DEF Deliver
  <2> QED  BY <1>1, <1>2, <1>3, <1>4, <2>1 DEF TypeInv, WaitInv
<1>5. CASE to = "nobody"
  <2>1. toServer' = toServer /\ waiting' = waiting /\ got' = got /\ to \notin Clients
    BY <1>5, FrontEndAssumption DEF Deliver
  <2> QED  BY <1>1, <1>2, <1>3, <1>5, <2>1 DEF TypeInv, WaitInv
<1>6. CASE to \in Clients
  <2>1. to # "server"
    BY <1>6, FrontEndAssumption
  <2>2. /\ toServer' = toServer
        /\ got' = [got EXCEPT ![to] = [want |-> waiting[to], reply |-> p]]
        /\ waiting' = [waiting EXCEPT ![to] = Nothing]
    BY <1>6, <2>1 DEF Deliver
  <2>3. waiting[to] \in Packets
    BY <1>6 DEF TypeInv, WaitInv
  <2> QED  BY <1>1, <1>2, <1>3, <1>6, <2>1, <2>2, <2>3, NothingIn DEF TypeInv, WaitInv
<1> QED  BY <1>4, <1>5, <1>6

(* Steps that move main, the ping thread or the relay and send nothing.     *)
Silent ==
    \/ CreatePing \/ CreateSession \/ Return
    \/ PingSend \/ PingReply \/ PingTimeout \/ Setup

LEMMA SilentStep ==
  ASSUME TypeInv, Silent
  PROVE  /\ UNCHANGED <<toMain, toSession, toServer, waiting, got, sent, users, timeouts>>
         /\ \/ session' = session
            \/ /\ session.pc = "none" /\ session' = [session EXCEPT !.pc = "setup"]
               /\ main.pc = "session" /\ main' = [main EXCEPT !.pc = "return"]
            \/ /\ session.pc = "setup"
               /\ \E pc \in {"recv", "over"} : session' = [session EXCEPT !.pc = pc]
         /\ \/ main' = main
            \/ main' = [main EXCEPT !.pc = "exited"]
            \/ main.pc = "ping" /\ main' = [main EXCEPT !.pc = "session"] /\ session' = session
            \/ main' = [main EXCEPT !.pc = "return"]
         /\ ping' \in Pings
         /\ serverlist' \in {"zero", "garbage"}
<1>1. ping \in Pings /\ serverlist \in {"zero", "garbage"}
  BY DEF TypeInv, RestInv
<1>2. CASE CreatePing
  BY <1>1, <1>2 DEF CreatePing, clients, Pings
<1>3. CASE CreateSession
  BY <1>1, <1>3 DEF CreateSession, clients, TypeInv, MainInv
<1>4. CASE Return
  BY <1>1, <1>4 DEF Return, Exit, clients
<1>5. CASE PingSend
  BY <1>1, <1>5 DEF PingSend, clients, Pings
<1>6. CASE PingReply
  BY <1>1, <1>6 DEF PingReply, Exit, clients, Pings
<1>7. CASE PingTimeout
  BY <1>1, <1>7 DEF PingTimeout, clients, Pings
<1>8. CASE Setup
  BY <1>1, <1>8 DEF Setup, clients, Pings
<1> QED  BY <1>2, <1>3, <1>4, <1>5, <1>6, <1>7, <1>8 DEF Silent

(* The relay takes the next packet, or goes on with its buffer.             *)
LEMMA ReceivesStep ==
  ASSUME TypeInv, NEW buffer \in Packets, NEW p, Receives(buffer, p)
  PROVE  /\ p \in Packets /\ toSession' \in Seq(Packets) /\ timeouts' \in 0 .. MaxTimeouts
         /\ timeouts <= timeouts'
         /\ \/ /\ toSession # <<>> /\ p = Head(toSession) /\ toSession' = Tail(toSession)
               /\ timeouts' = timeouts
            \/ p = buffer /\ toSession' = toSession /\ timeouts' # 0
<1>1. toSession \in Seq(Packets) /\ timeouts \in 0 .. MaxTimeouts /\ MaxTimeouts \in Nat
  BY FrontEndAssumption DEF TypeInv, QueueInv, RestInv
<1> QED  BY <1>1 DEF Receives

(* The server answers the first packet at its port to where it came from.   *)
LEMMA ServerStep ==
  ASSUME TypeInv, Server
  PROVE  /\ toServer # <<>> /\ toServer' = Tail(toServer)
         /\ \E a \in Packets :
              /\ Answers(a, Head(toServer))
              /\ IF Head(toServer).from = "main"
                   THEN toMain' = Append(toMain, a) /\ toSession' = toSession
                   ELSE toSession' = Append(toSession, a) /\ toMain' = toMain
<1> DEFINE p == Head(toServer)
<1>1. p \in Packets
  BY Queue DEF Server, TypeInv, QueueInv
<1> HIDE DEF p
<1>2. ASSUME NEW result \in Results(p)
      PROVE  /\ [p EXCEPT !.op = result, !.from = "server"] \in Packets
             /\ Answers([p EXCEPT !.op = result, !.from = "server"], p)
  BY <1>1, <1>2 DEF Results, Packets, Answers
<1>3. PICK result \in Results(p) :
        IF p.from = "main"
          THEN /\ toMain' = Append(toMain, [p EXCEPT !.op = result, !.from = "server"])
               /\ toSession' = toSession
          ELSE /\ toSession' = Append(toSession, [p EXCEPT !.op = result, !.from = "server"])
               /\ toMain' = toMain
  BY DEF Server, p
<1> QED  BY <1>2, <1>3 DEF Server, p

(* The next-state relation, by what it sends.                               *)
LEMMA NextCases ==
  ASSUME [Next]_vars
  PROVE  \/ UNCHANGED vars \/ Silent \/ MainLogin \/ MainReply \/ Server
         \/ \E p \in Buffers : Forward(p) \/ Relay(p)
         \/ \E c \in Clients, op \in {"LOGIN", "REQUEST"} : Send(c, op)
BY DEF Next, FrontEnd, Silent

-----------------------------------------------------------------------------
(* Types *)

(* A client or the server, never a socket of the front end, is the source   *)
(* of what the relay receives.                                              *)
LEMMA SourceIn ==
  ASSUME FromInv, TypeInv, NEW p, p = session.request \/ (toSession # <<>> /\ p = Head(toSession))
  PROVE  /\ p \in Packets /\ p.from \in users \cup {"server", "nobody"}
         /\ p.from \in Clients \cup {"server", "nobody"}
<1>1. toSession \in Seq(Packets) /\ session.request \in Packets /\ users \subseteq Clients
  BY DEF TypeInv, QueueInv, RelayInv, RestInv, Sessions
<1>2. CASE p = session.request
  BY <1>1, <1>2 DEF FromInv
<1>3. CASE toSession # <<>> /\ p = Head(toSession)
  BY <1>1, <1>3 DEF FromInv
<1> QED  BY <1>2, <1>3

LEMMA TypeInit == Init => TypeInv
<1> SUFFICES ASSUME Init  PROVE TypeInv
  OBVIOUS
<1>1. 0 \in 0 .. MaxRequests /\ 0 \in 0 .. MaxTimeouts
  BY FrontEndAssumption
<1>2. MainInv /\ RelayInv
  BY NothingIn DEF Init, Mains, Sessions, MainInv, RelayInv
<1>3. WaitInv
  BY <1>1, NothingIn DEF Init, WaitInv
<1> QED  BY <1>1, <1>2, <1>3 DEF TypeInv, QueueInv, RestInv, Pings, Init

LEMMA TypeNext == TypeInv /\ FromInv /\ [Next]_vars => TypeInv'
<1> SUFFICES ASSUME TypeInv, FromInv, [Next]_vars  PROVE TypeInv'
  OBVIOUS
<1> USE DEF TypeInv
<1>1. CASE UNCHANGED vars
  BY <1>1 DEF vars, clients, MainInv, RelayInv, QueueInv, WaitInv, RestInv
<1>2. CASE Silent
  <2>1. RelayInv'
    BY <1>2, SilentStep DEF RelayInv, Sessions
  <2>2. MainInv'
    <3>1. /\ main \in Mains /\ main.client = "nobody"
          /\ session \in Sessions /\ main.pc = "login" => main.client_len = 0
          /\ main.pc \in {"login", "reply", "ping", "session"} => session.pc = "none"
      BY DEF MainInv, RelayInv
    <3>2. CASE main' = main
      <4>1. session.pc = session'.pc \/ session.pc = "setup"
        <5>1. CASE session.pc = "none" /\ main.pc = "session" /\ main' = [main EXCEPT !.pc = "return"]
          BY <3>1, <3>2, <5>1 DEF Mains
        <5>2. CASE session' = session \/ session.pc = "setup"
          BY <5>2
        <5> QED  BY <1>2, <5>1, <5>2, SilentStep
      <4> QED  BY <3>1, <3>2, <4>1 DEF MainInv
    <3>3. CASE \E pc \in {"exited", "return"} : main' = [main EXCEPT !.pc = pc]
      BY <3>1, <3>3 DEF MainInv, Mains
    <3>4. CASE main.pc = "ping" /\ main' = [main EXCEPT !.pc = "session"] /\ session' = session
      BY <3>1, <3>4 DEF MainInv, Mains
    <3> QED  BY <1>2, <3>2, <3>3, <3>4, SilentStep
  <2>3. QueueInv' /\ WaitInv' /\ RestInv'
    BY <1>2, SilentStep DEF QueueInv, WaitInv, RestInv
  <2> QED  BY <2>1, <2>2, <2>3
<1>3. CASE MainLogin
  <2>1. Head(toMain) \in Packets /\ Tail(toMain) \in Seq(Packets)
    BY <1>3 DEF MainLogin, QueueInv
  <2>2. MainInv'
    BY <1>3 DEF MainLogin, MainInv, Mains
  <2>3. Deliver("main", "server", Head(toMain))
    BY <1>3 DEF MainLogin
  <2>4. toServer' \in Seq(Packets) /\ UNCHANGED <<waiting, got, sent, users>>
    BY <2>1, <2>3, DeliverStep, FrontEndAssumption
  <2>5. RelayInv' /\ QueueInv' /\ WaitInv' /\ RestInv'
    BY <1>3, <2>1, <2>4 DEF MainLogin, RelayInv, QueueInv, WaitInv, RestInv
  <2> QED  BY <2>2, <2>5
<1>4. CASE MainReply
  <2>1. Head(toMain) \in Packets /\ Tail(toMain) \in Seq(Packets)
    BY <1>4 DEF MainReply, QueueInv
  <2>2. MainInv'
    BY <1>4 DEF MainReply, MainInv, Mains
  <2>6. main.client = "nobody"
    BY DEF MainInv
  <2>3. Deliver("main", "nobody", Head(toMain))
    BY <1>4, <2>6 DEF MainReply
  <2>4. UNCHANGED <<toServer, waiting, got, sent, users>>
    BY <2>1, <2>3, DeliverStep, FrontEndAssumption
  <2>5. RelayInv' /\ QueueInv' /\ WaitInv' /\ RestInv'
    <3>1. UNCHANGED <<session, ping, serverlist, toSession, timeouts>> /\ toMain' = Tail(toMain)
      BY <1>4 DEF MainReply
    <3>2. RelayInv' /\ WaitInv' /\ RestInv'
      BY <2>4, <3>1 DEF RelayInv, WaitInv, RestInv
    <3>3. QueueInv'
      BY <2>1, <2>4, <3>1 DEF QueueInv
    <3> QED  BY <3>2, <3>3
  <2> QED  BY <2>2, <2>5
<1>5. CASE Server
  <2>1. PICK a \in Packets :
          \/ toMain' = Append(toMain, a) /\ toSession' = toSession
          \/ toSession' = Append(toSession, a) /\ toMain' = toMain
    BY <1>5, ServerStep
  <2>2. toServer' = Tail(toServer) /\ Tail(toServer) \in Seq(Packets)
    BY <1>5, ServerStep, Queue DEF QueueInv
  <2>3. QueueInv'
    <3>1. /\ toMain \in Seq(Packets) /\ Append(toMain, a) \in Seq(Packets)
          /\ toSession \in Seq(Packets) /\ Append(toSession, a) \in Seq(Packets)
      BY Queue DEF QueueInv
    <3> QED  BY <2>1, <2>2, <3>1 DEF QueueInv
  <2> QED  BY <1>5, <2>3 DEF Server, clients, MainInv, RelayInv, WaitInv, RestInv
<1>6. ASSUME NEW p \in Buffers, Forward(p)  PROVE TypeInv'
  <2>1. Receives(session.request, p) /\ session.request \in Packets
    BY <1>6 DEF Forward, RelayInv, Sessions
  <2>2. /\ p \in Packets /\ toSession' \in Seq(Packets) /\ timeouts' \in 0 .. MaxTimeouts
        /\ p = session.request \/ (toSession # <<>> /\ p = Head(toSession))
    BY <2>1, ReceivesStep
  <2>3. p.from \in Clients \cup {"server", "nobody"}
    BY <2>2, SourceIn
  <2>4. Deliver("session", "server", p)
    BY <1>6 DEF Forward
  <2>5. toServer' \in Seq(Packets) /\ UNCHANGED <<waiting, got, sent, users>>
    BY <2>2, <2>4, DeliverStep, FrontEndAssumption
  <2>6. RelayInv'
    BY <1>6, <2>2, <2>3 DEF Forward, RelayInv, Sessions
  <2>7. MainInv'
    BY <1>6, <2>6 DEF Forward, MainInv
  <2> QED  BY <1>6, <2>2, <2>5, <2>6, <2>7 DEF Forward, QueueInv, WaitInv, RestInv
<1>7. ASSUME NEW p \in Buffers, Relay(p)  PROVE TypeInv'
  <2>1. Receives(session.reply, p) /\ session \in Sessions
    BY <1>7 DEF Relay, RelayInv
  <2>2. session.reply \in Packets /\ session.client \in Clients \cup {"server", "nobody"}
    BY <2>1 DEF Sessions
  <2>3. p \in Packets /\ toSession' \in Seq(Packets) /\ timeouts' \in 0 .. MaxTimeouts
    BY <2>1, <2>2, ReceivesStep
  <2>4. Deliver("session", session.client, p)
    BY <1>7 DEF Relay
  <2>5. /\ toServer' \in Seq(Packets) /\ sent' = sent /\ users' = users
        /\ waiting' \in [Clients -> Packets]
        /\ got' \in [Clients -> [want : Packets, reply : Packets]]
        /\ \A c \in Clients : waiting'[c] \in {waiting[c], Nothing}
    BY <2>2, <2>3, <2>4, DeliverStep
  <2>6. RelayInv'
    BY <1>7, <2>1, <2>3 DEF Relay, RelayInv, Sessions
  <2>7. MainInv'
    BY <1>7 DEF Relay, MainInv
  <2>8. WaitInv'
    BY <2>5 DEF WaitInv
  <2> QED  BY <1>7, <2>3, <2>5, <2>6, <2>7, <2>8 DEF Relay, QueueInv, RestInv
<1>8. ASSUME NEW c \in Clients, NEW op \in {"LOGIN", "REQUEST"}, Send(c, op)  PROVE TypeInv'
  <2>1. sent' = [sent EXCEPT ![c] = sent[c] + 1] /\ sent[c] < MaxRequests
    BY <1>8 DEF Send
  <2>2. sent' \in [Clients -> 0 .. MaxRequests]
    BY <2>1, FrontEndAssumption DEF WaitInv
  <2> DEFINE p == Packet(op, c, sent'[c], c)
  <2>3. p \in Packets /\ p.c = c /\ p.n = sent'[c]
    BY <2>2 DEF Packet, Packets
  <2>4. /\ waiting' = [waiting EXCEPT ![c] = p]
        /\ toMain' \in {toMain, Append(toMain, p)}
        /\ toSession' \in {toSession, Append(toSession, p)}
        /\ users' \subseteq users \cup {c}
        /\ UNCHANGED <<main, session, ping, serverlist, toServer, got, timeouts>>
    BY <1>8 DEF Send
  <2> HIDE DEF p
  <2>5. QueueInv'
    <3>1. /\ toMain \in Seq(Packets) /\ Append(toMain, p) \in Seq(Packets)
          /\ toSession \in Seq(Packets) /\ Append(toSession, p) \in Seq(Packets)
      BY <2>3, Queue DEF QueueInv
    <3> QED  BY <2>4, <3>1 DEF QueueInv
  <2>6. WaitInv'
    BY <2>1, <2>2, <2>3, <2>4 DEF WaitInv
  <2> QED  BY <2>4, <2>5, <2>6 DEF MainInv, RelayInv, RestInv
<1> QED  BY <1>1, <1>2, <1>3, <1>4, <1>5, <1>6, <1>7, <1>8, NextCases

-----------------------------------------------------------------------------
(* Sources *)

(* The packets of a queue come from S.                                      *)
AllFrom(q, S) == \A i \in 1 .. Len(q) : q[i].from \in S

LEMMA QueueFrom ==
  ASSUME NEW q \in Seq(Packets), NEW S, AllFrom(q, S)
  PROVE  /\ q # <<>> => AllFrom(Tail(q), S)
         /\ \A p \in Packets : p.from \in S => AllFrom(Append(q, p), S)
<1>1. ASSUME q # <<>>  PROVE AllFrom(Tail(q), S)
  BY <1>1, Queue DEF AllFrom
<1>2. ASSUME NEW p \in Packets, p.from \in S  PROVE AllFrom(Append(q, p), S)
  BY <1>2, Queue DEF AllFrom
<1> QED  BY <1>1, <1>2

LEMMA FromInit == Init => FromInv /\ ClientInv
<1> SUFFICES ASSUME Init  PROVE FromInv /\ ClientInv
  OBVIOUS
<1>1. IsFiniteSet(users) /\ session.request.from = "nobody"
  BY FS_EmptySet, NothingIn DEF Init
<1>2. Len(toSession) = 0 /\ Len(toServer) = 0
  BY DEF Init
<1> QED  BY <1>1, <1>2 DEF Init, FromInv, ClientInv

LEMMA FromNext == TypeInv /\ FromInv /\ ClientInv /\ [Next]_vars => FromInv' /\ ClientInv'
<1> SUFFICES ASSUME TypeInv, FromInv, ClientInv, [Next]_vars  PROVE FromInv' /\ ClientInv'
  OBVIOUS
<1>0. /\ toSession \in Seq(Packets) /\ toServer \in Seq(Packets)
      /\ AllFrom(toSession, users \cup {"server"}) /\ AllFrom(toServer, {"main", "session"})
      /\ session \in Sessions /\ users \subseteq Clients
  BY DEF TypeInv, QueueInv, RelayInv, RestInv, FromInv, AllFrom
<1>1. CASE UNCHANGED vars
  BY <1>1 DEF vars, clients, FromInv, ClientInv
<1>2. CASE Silent
  <2>1. session'.request = session.request /\ session'.timed = session.timed
    BY <1>0, <1>2, SilentStep DEF Sessions
  <2> QED  BY <1>2, <2>1, SilentStep DEF FromInv, ClientInv
<1>3. CASE MainLogin
  <2>1. Head(toMain) \in Packets
    BY <1>3, Queue DEF MainLogin, TypeInv, QueueInv
  <2>2. Deliver("main", "server", Head(toMain)) /\ UNCHANGED <<session, toSession>>
    BY <1>3 DEF MainLogin
  <2>3. /\ toServer' = Append(toServer, [Head(toMain) EXCEPT !.from = "main"])
        /\ UNCHANGED <<got, users>>
    BY <2>1, <2>2, DeliverStep, FrontEndAssumption
  <2>4. AllFrom(toServer', {"main", "session"})
    BY <1>0, <2>1, <2>3, Stamped, QueueFrom
  <2> QED  BY <2>2, <2>3, <2>4 DEF FromInv, ClientInv, AllFrom
<1>4. CASE MainReply
  <2>1. Head(toMain) \in Packets /\ main.client = "nobody"
    BY <1>4, Queue DEF MainReply, TypeInv, QueueInv, MainInv
  <2>2. Deliver("main", "nobody", Head(toMain)) /\ UNCHANGED <<session, toSession>>
    BY <1>4, <2>1 DEF MainReply
  <2>3. UNCHANGED <<toServer, got, users>>
    BY <2>1, <2>2, DeliverStep, FrontEndAssumption
  <2> QED  BY <2>2, <2>3 DEF FromInv, ClientInv
<1>5. CASE Server
  <2>1. PICK a \in Packets :
          /\ Answers(a, Head(toServer))
          /\ toSession' \in {toSession, Append(toSession, a)}
    BY <1>5, ServerStep
  <2>2. AllFrom(toSession', users \cup {"server"})
    BY <1>0, <2>1, QueueFrom DEF Answers
  <2>3. AllFrom(toServer', {"main", "session"})
    BY <1>0, <1>5, ServerStep, QueueFrom
  <2>4. UNCHANGED <<session, got, users>>
    BY <1>5 DEF Server, clients
  <2> QED  BY <2>2, <2>3, <2>4 DEF FromInv, ClientInv, AllFrom
<1>6. ASSUME NEW p \in Buffers, Forward(p)  PROVE FromInv' /\ ClientInv'
  <2>1. /\ Receives(session.request, p) /\ Deliver("session", "server", p)
        /\ session' = [session EXCEPT !.pc = "wait", !.request = p,
                                      !.client = p.from, !.timed = TRUE]
    BY <1>6 DEF Forward
  <2>2. session.request \in Packets /\ session'.request = p /\ session'.timed
    BY <1>0, <2>1 DEF Sessions
  <2>3. /\ p \in Packets /\ p.from \in users \cup {"server", "nobody"}
        /\ toSession' = toSession \/ (toSession # <<>> /\ toSession' = Tail(toSession))
    BY <2>1, <2>2, ReceivesStep, SourceIn
  <2>4. AllFrom(toSession', users \cup {"server"})
    BY <1>0, <2>3, QueueFrom
  <2>5. /\ toServer' = Append(toServer, [p EXCEPT !.from = "session"])
        /\ UNCHANGED <<got, users>>
    BY <2>1, <2>3, DeliverStep, FrontEndAssumption
  <2>6. AllFrom(toServer', {"main", "session"})
    BY <1>0, <2>3, <2>5, Stamped, QueueFrom
  <2> QED  BY <2>2, <2>3, <2>4, <2>5, <2>6 DEF FromInv, ClientInv, AllFrom
<1>7. ASSUME NEW p \in Buffers, Relay(p)  PROVE FromInv' /\ ClientInv'
  <2>1. /\ Receives(session.reply, p) /\ Deliver("session", session.client, p)
        /\ session' = [session EXCEPT !.pc = "recv", !.reply = p] /\ session.pc = "wait"
    BY <1>7 DEF Relay
  <2>2. /\ session.reply \in Packets /\ session.client \in Clients \cup {"server", "nobody"}
        /\ session'.request = session.request /\ session'.timed = session.timed
    BY <1>0, <2>1 DEF Sessions
  <2>3. /\ p \in Packets
        /\ toSession' = toSession \/ (toSession # <<>> /\ toSession' = Tail(toSession))
    BY <2>1, <2>2, ReceivesStep
  <2>4. AllFrom(toSession', users \cup {"server"})
    BY <1>0, <2>3, QueueFrom
  <2>5. users' = users
    BY <2>1, <2>2, <2>3, DeliverStep
  <2>6. AllFrom(toServer', {"main", "session"})
    <3>1. CASE session.client = "server"
      <4>1. toServer' = Append(toServer, [p EXCEPT !.from = "session"])
        BY <2>1, <2>2, <2>3, <3>1, DeliverStep
      <4> QED  BY <1>0, <2>3, <4>1, Stamped, QueueFrom
    <3>2. CASE session.client # "server"
      BY <1>0, <2>1, <2>2, <2>3, <3>2, DeliverStep
    <3> QED  BY <3>1, <3>2
  <2>7. session.timed /\ session.client \in users \cup {"server", "nobody"}
    BY <2>1 DEF TypeInv, RelayInv, FromInv
  <2>8. ClientInv'
    <3> SUFFICES ASSUME NEW c \in Clients, got'[c].want # Nothing
                 PROVE  c \in users' /\ session'.timed
      BY DEF ClientInv
    <3>1. CASE c = session.client
      BY <2>2, <2>5, <2>7, <3>1, FrontEndAssumption
    <3>2. CASE c # session.client
      <4>1. got'[c] = got[c]
        BY <2>1, <2>2, <2>3, <3>2, DeliverStep
      <4> QED  BY <2>2, <2>5, <4>1 DEF ClientInv
    <3> QED  BY <3>1, <3>2
  <2> QED  BY <2>2, <2>4, <2>5, <2>6, <2>8 DEF FromInv, AllFrom
<1>8. ASSUME NEW c \in Clients, NEW op \in {"LOGIN", "REQUEST"}, Send(c, op)
      PROVE  FromInv' /\ ClientInv'
  <2>1. PICK p : p = Packet(op, c, sent[c] + 1, c)
    OBVIOUS
  <2>2. p.from = c /\ p \in Packets
    <3>1. sent[c] + 1 \in 0 .. MaxRequests
      BY <1>8, FrontEndAssumption DEF Send, TypeInv, WaitInv
    <3> QED  BY <2>1, <3>1 DEF Packet, Packets
  <2>3. /\ \/ toSession' = toSession /\ users' = users
           \/ toSession' = Append(toSession, p) /\ users' = users \cup {c}
        /\ UNCHANGED <<session, toServer, got>>
    <3>1. sent'[c] = sent[c] + 1
      BY <1>8 DEF Send, TypeInv, WaitInv
    <3> QED  BY <1>8, <2>1, <3>1 DEF Send
  <2>4. AllFrom(toSession, users' \cup {"server"})
    BY <1>0, <2>3 DEF AllFrom
  <2>5. AllFrom(toSession', users' \cup {"server"})
    <3>1. CASE toSession' = toSession
      BY <2>4, <3>1
    <3>2. CASE toSession' = Append(toSession, p) /\ users' = users \cup {c}
      BY <1>0, <2>2, <2>4, <3>2, QueueFrom
    <3> QED  BY <2>3, <3>1, <3>2
  <2>6. IsFiniteSet(users')
    BY <2>3, FS_AddElement DEF FromInv
  <2> QED  BY <2>3, <2>5, <2>6 DEF FromInv, ClientInv, AllFrom
<1> QED  BY <1>1, <1>2, <1>3, <1>4, <1>5, <1>6, <1>7, <1>8, NextCases

-----------------------------------------------------------------------------
(* One packet at a time *)

(* What becomes of the relay's packet as the queue grows and shrinks.       *)
LEMMA QueueOut ==
  ASSUME NEW q \in Seq(Packets), NEW r \in Packets
  PROVE  /\ q # <<>> /\ Head(q).from # "session" =>
              /\ NoneOut(q) => NoneOut(Tail(q))
              /\ OneOut(q, r) => OneOut(Tail(q), r)
         /\ q # <<>> /\ Head(q).from = "session" =>
              /\ ~NoneOut(q)
              /\ OneOut(q, r) => Head(q) = [r EXCEPT !.from = "session"] /\ NoneOut(Tail(q))
         /\ \A p \in Packets : p.from # "session" =>
              /\ NoneOut(q) => NoneOut(Append(q, p))
              /\ OneOut(q, r) => OneOut(Append(q, p), r)
         /\ NoneOut(q) => OneOut(Append(q, [r EXCEPT !.from = "session"]), r)
<1>0. Len(q) \in Nat
  OBVIOUS
<1>1. ASSUME q # <<>>, Head(q).from # "session", NoneOut(q)  PROVE NoneOut(Tail(q))
  BY <1>1, Queue DEF NoneOut
<1>2. ASSUME q # <<>>, Head(q).from # "session", OneOut(q, r)  PROVE OneOut(Tail(q), r)
  <2>1. PICK i \in 1 .. Len(q) :
          /\ q[i] = [r EXCEPT !.from = "session"]
          /\ \A j \in 1 .. Len(q) : q[j].from = "session" => j = i
    BY <1>2 DEF OneOut
  <2>2. q[i].from = "session"
    BY <2>1, Stamped
  <2>3. i # 1
    BY <1>2, <2>2, Queue
  <2>4. i - 1 \in 1 .. Len(Tail(q)) /\ Tail(q)[i - 1] = q[i]
    BY <1>0, <1>2, <2>3, Queue
  <2>5. ASSUME NEW j \in 1 .. Len(Tail(q)), Tail(q)[j].from = "session"  PROVE j = i - 1
    <3>1. j + 1 \in 1 .. Len(q) /\ q[j + 1].from = "session"
      BY <1>0, <1>2, <2>5, Queue
    <3> QED  BY <2>1, <3>1
  <2> QED  BY <2>1, <2>4, <2>5 DEF OneOut
<1>3. ASSUME q # <<>>, Head(q).from = "session"  PROVE ~NoneOut(q)
  BY <1>0, <1>3, Queue DEF NoneOut
<1>4. ASSUME q # <<>>, Head(q).from = "session", OneOut(q, r)
      PROVE  Head(q) = [r EXCEPT !.from = "session"] /\ NoneOut(Tail(q))
  <2>1. PICK i \in 1 .. Len(q) :
          /\ q[i] = [r EXCEPT !.from = "session"]
          /\ \A j \in 1 .. Len(q) : q[j].from = "session" => j = i
    BY <1>4 DEF OneOut
  <2>2. i = 1 /\ Head(q) = q[1]
    BY <1>0, <1>4, <2>1, Queue
  <2>3. ASSUME NEW j \in 1 .. Len(Tail(q)), Tail(q)[j].from = "session"  PROVE FALSE
    <3>1. j + 1 \in 1 .. Len(q) /\ q[j + 1].from = "session"
      BY <1>0, <1>4, <2>3, Queue
    <3> QED  BY <2>1, <2>2, <3>1
  <2> QED  BY <2>1, <2>2, <2>3 DEF NoneOut
<1>5. ASSUME NEW p \in Packets, p.from # "session", NoneOut(q)  PROVE NoneOut(Append(q, p))
  BY <1>0, <1>5, Queue DEF NoneOut
<1>6. ASSUME NEW p \in Packets, p.from # "session", OneOut(q, r)  PROVE OneOut(Append(q, p), r)
  <2>1. PICK i \in 1 .. Len(q) :
          /\ q[i] = [r EXCEPT !.from = "session"]
          /\ \A j \in 1 .. Len(q) : q[j].from = "session" => j = i
    BY <1>6 DEF OneOut
  <2>2. i \in 1 .. Len(Append(q, p)) /\ Append(q, p)[i] = q[i]
    BY <1>0, Queue
  <2>3. ASSUME NEW j \in 1 .. Len(Append(q, p)), Append(q, p)[j].from = "session"  PROVE j = i
    BY <1>0, <1>6, <2>1, <2>3, Queue
  <2> QED  BY <2>1, <2>2, <2>3 DEF OneOut
<1>7. ASSUME NoneOut(q)  PROVE OneOut(Append(q, [r EXCEPT !.from = "session"]), r)
  <2> DEFINE p == [r EXCEPT !.from = "session"]
  <2>1. p \in Packets
    BY Stamped
  <2>2. /\ Len(q) + 1 \in 1 .. Len(Append(q, p)) /\ Append(q, p)[Len(q) + 1] = p
        /\ Len(Append(q, p)) = Len(q) + 1 /\ \A i \in 1 .. Len(q) : Append(q, p)[i] = q[i]
    BY <1>0, <2>1, Queue
  <2> HIDE DEF p
  <2>3. ASSUME NEW j \in 1 .. Len(Append(q, p)), Append(q, p)[j].from = "session"
        PROVE  j = Len(q) + 1
    BY <1>0, <1>7, <2>2, <2>3 DEF NoneOut
  <2> QED  BY <2>2, <2>3 DEF OneOut, p
<1> QED  BY <1>1, <1>2, <1>3, <1>4, <1>5, <1>6, <1>7

(* The relay was used by one client at most and never timed out, if that    *)
(* is so after a step.                                                      *)
LEMMA SingleBefore ==
  ASSUME TypeInv, FromInv, TypeInv', FromInv', [Next]_vars, Single'
  PROVE  Single /\ \A c, d \in users' : c = d
<1>1. timeouts <= timeouts' /\ users \subseteq users'
  <2>1. CASE UNCHANGED vars
    BY <2>1 DEF vars, clients, TypeInv, RestInv
  <2>2. CASE Silent
    BY <2>2, SilentStep DEF TypeInv, RestInv
  <2>3. CASE MainLogin \/ MainReply
    BY <2>3 DEF MainLogin, MainReply, Deliver, TypeInv, RestInv
  <2>4. CASE Server
    BY <2>4 DEF Server, clients, TypeInv, RestInv
  <2>5. ASSUME NEW p \in Buffers, Forward(p)  PROVE timeouts <= timeouts' /\ users \subseteq users'
    BY <2>5, ReceivesStep DEF Forward, Deliver, TypeInv, RelayInv, Sessions
  <2>6. ASSUME NEW p \in Buffers, Relay(p)  PROVE timeouts <= timeouts' /\ users \subseteq users'
    BY <2>6, ReceivesStep DEF Relay, Deliver, TypeInv, RelayInv, Sessions
  <2>7. ASSUME NEW c \in Clients, NEW op \in {"LOGIN", "REQUEST"}, Send(c, op)
        PROVE  timeouts <= timeouts' /\ users \subseteq users'
    BY <2>7 DEF Send, TypeInv, RestInv
  <2> QED  BY <2>1, <2>2, <2>3, <2>4, <2>5, <2>6, <2>7, NextCases
<1>2. timeouts \in Nat
  BY FrontEndAssumption DEF TypeInv, RestInv
<1>3. Cardinality(users) <= Cardinality(users') /\ Cardinality(users') <= 1 /\ IsFiniteSet(users')
  BY <1>1, FS_Subset DEF Single, FromInv
<1>4. Cardinality(users) \in Nat /\ Cardinality(users') \in Nat
  BY FS_CardinalityType DEF FromInv
<1>5. ASSUME NEW c \in users', NEW d \in users', c # d  PROVE FALSE
  <2>1. IsFiniteSet({c}) /\ Cardinality({c}) = 1
    BY FS_Singleton
  <2>2. Cardinality({c} \cup {d}) = 2
    BY <1>5, <2>1, FS_AddElement
  <2>3. Cardinality({c} \cup {d}) <= Cardinality(users')
    BY <1>3, FS_Subset
  <2> QED  BY <1>3, <1>4, <2>2, <2>3
<1> QED  BY <1>1, <1>2, <1>3, <1>4, <1>5 DEF Single

LEMMA RoundInit == Init => RoundInv /\ GotInv
<1>1. Init => toServer = <<>> /\ toSession = <<>> /\ session.pc = "none"
  BY DEF Init
<1> QED  BY <1>1, NothingIn DEF Init, RoundInv, GotInv, NoneOut

(* Each step of the round trip, and that nothing else disturbs it: a second *)
(* packet would need a second client, or one that does not wait.            *)
LEMMA RoundNext ==
  ASSUME IInv, TypeInv', FromInv', [Next]_vars, Single'
  PROVE  RoundInv' /\ GotInv'
<1> USE DEF IInv
<1>0. /\ RoundInv /\ GotInv /\ \A c, d \in users' : c = d
      /\ toSession \in Seq(Packets) /\ toServer \in Seq(Packets)
      /\ session \in Sessions /\ session.request \in Packets /\ session.reply \in Packets
      /\ users \subseteq Clients /\ timeouts' = 0
      /\ waiting \in [Clients -> Packets] /\ sent \in [Clients -> 0 .. MaxRequests]
  BY SingleBefore DEF Single, TypeInv, QueueInv, RelayInv, RestInv, WaitInv, Sessions
<1>1. CASE UNCHANGED vars
  BY <1>0, <1>1 DEF vars, clients, RoundInv, GotInv
<1>2. CASE Silent
  <2>1. UNCHANGED <<toSession, toServer, waiting, got, users>>
    BY <1>2, SilentStep
  <2>2. CASE session' = session
    BY <1>0, <2>1, <2>2 DEF RoundInv, GotInv
  <2>3. CASE /\ session.pc \in {"none", "setup"}
             /\ \E pc \in {"setup", "recv", "over"} : session' = [session EXCEPT !.pc = pc]
    <3>1. session'.pc \in {"setup", "recv", "over"} /\ toSession = <<>> /\ NoneOut(toServer)
      BY <1>0, <2>3 DEF RoundInv, Sessions
    <3> QED  BY <1>0, <2>1, <3>1 DEF RoundInv, GotInv
  <2> QED  BY <1>2, <2>2, <2>3, SilentStep
<1>3. CASE MainLogin
  <2>1. Head(toMain) \in Packets
    BY <1>3, Queue DEF MainLogin, TypeInv, QueueInv
  <2>2. Deliver("main", "server", Head(toMain)) /\ UNCHANGED <<session, toSession>>
    BY <1>3 DEF MainLogin
  <2>3. /\ toServer' = Append(toServer, [Head(toMain) EXCEPT !.from = "main"])
        /\ UNCHANGED <<waiting, got, users>>
    BY <2>1, <2>2, DeliverStep, FrontEndAssumption
  <2>4. /\ NoneOut(toServer) => NoneOut(toServer')
        /\ OneOut(toServer, session.request) => OneOut(toServer', session.request)
    BY <1>0, <2>1, <2>3, Stamped, QueueOut
  <2> QED  BY <1>0, <2>2, <2>3, <2>4 DEF RoundInv, GotInv
<1>4. CASE MainReply
  <2>1. Head(toMain) \in Packets /\ main.client = "nobody"
    BY <1>4, Queue DEF MainReply, TypeInv, QueueInv, MainInv
  <2>2. Deliver("main", "nobody", Head(toMain)) /\ UNCHANGED <<session, toSession>>
    BY <1>4, <2>1 DEF MainReply
  <2>3. UNCHANGED <<toServer, waiting, got, users>>
    BY <2>1, <2>2, DeliverStep, FrontEndAssumption
  <2> QED  BY <1>0, <2>2, <2>3 DEF RoundInv, GotInv
<1>5. CASE Server
  <2>1. UNCHANGED <<session, waiting, got, users>> /\ toServer # <<>> /\ toServer' = Tail(toServer)
    BY <1>5 DEF Server, clients
  <2>2. PICK a \in Packets :
          /\ Answers(a, Head(toServer))
          /\ IF Head(toServer).from = "main"
               THEN toMain' = Append(toMain, a) /\ toSession' = toSession
               ELSE toSession' = Append(toSession, a) /\ toMain' = toMain
    BY <1>5, ServerStep
  <2>3. CASE Head(toServer).from = "main"
    <3>1. /\ NoneOut(toServer) => NoneOut(toServer')
          /\ OneOut(toServer, session.request) => OneOut(toServer', session.request)
      BY <1>0, <2>1, <2>3, QueueOut
    <3> QED  BY <1>0, <2>1, <2>2, <2>3, <3>1 DEF RoundInv, GotInv
  <2>4. CASE Head(toServer).from # "main"
    <3>1. Head(toServer).from = "session"
      BY <1>0, <2>1, <2>4, Queue DEF FromInv
    <3>2. ~NoneOut(toServer)
      BY <1>0, <2>1, <3>1, QueueOut
    <3>3. session.pc = "wait" /\ toSession = <<>> /\ OneOut(toServer, session.request)
      BY <1>0, <3>2 DEF RoundInv, Sessions
    <3>4. Head(toServer) = [session.request EXCEPT !.from = "session"] /\ NoneOut(toServer')
      BY <1>0, <2>1, <3>1, <3>3, QueueOut
    <3>5. Answers(a, session.request)
      BY <1>0, <2>2, <3>4 DEF Answers, Packets
    <3>6. toSession' = <<a>>
      BY <2>2, <2>4, <3>3
    <3> QED  BY <1>0, <2>1, <3>3, <3>4, <3>5, <3>6 DEF RoundInv, GotInv
  <2> QED  BY <2>3, <2>4
<1>6. ASSUME NEW p \in Buffers, Forward(p)  PROVE RoundInv' /\ GotInv'
  <2>1. /\ Receives(session.request, p) /\ Deliver("session", "server", p)
        /\ session' = [session EXCEPT !.pc = "wait", !.request = p,
                                      !.client = p.from, !.timed = TRUE]
        /\ session.pc = "recv"
    BY <1>6 DEF Forward
  <2>2. toSession # <<>> /\ p = Head(toSession) /\ toSession' = Tail(toSession) /\ p \in Packets
    BY <1>0, <2>1, ReceivesStep
  <2>3. PICK c \in users :
          toSession = <<waiting[c]>> /\ waiting[c] # Nothing /\ waiting[c].from = c
    BY <1>0, <2>1, <2>2 DEF RoundInv
  <2>4. p = waiting[c] /\ toSession' = <<>> /\ NoneOut(toServer)
    BY <1>0, <2>1, <2>2, <2>3 DEF RoundInv
  <2>5. /\ toServer' = Append(toServer, [p EXCEPT !.from = "session"])
        /\ UNCHANGED <<got, users, waiting>>
    BY <2>1, <2>2, DeliverStep, FrontEndAssumption
  <2>6. OneOut(toServer', p)
    BY <1>0, <2>2, <2>4, <2>5, QueueOut
  <2>7. session'.pc = "wait" /\ session'.request = p /\ session'.client = c
    BY <1>0, <2>1, <2>3, <2>4 DEF Sessions
  <2> QED  BY <1>0, <2>3, <2>4, <2>5, <2>6, <2>7 DEF RoundInv, GotInv
<1>7. ASSUME NEW p \in Buffers, Relay(p)  PROVE RoundInv' /\ GotInv'
  <2>1. /\ Receives(session.reply, p) /\ Deliver("session", session.client, p)
        /\ session' = [session EXCEPT !.pc = "recv", !.reply = p] /\ session.pc = "wait"
    BY <1>7 DEF Relay
  <2>2. toSession # <<>> /\ p = Head(toSession) /\ toSession' = Tail(toSession) /\ p \in Packets
    BY <1>0, <2>1, ReceivesStep
  <2>3. /\ NoneOut(toServer) /\ \E a \in Packets : toSession = <<a>> /\ Answers(a, session.request)
        /\ session.client \in Clients /\ session.request = waiting[session.client]
    BY <1>0, <2>1, <2>2 DEF RoundInv
  <2>4. toSession' = <<>> /\ Answers(p, waiting[session.client])
    BY <2>2, <2>3
  <2>5. toServer' = toServer
    BY <2>1, <2>2, <2>3, DeliverStep, FrontEndAssumption
  <2>6. /\ got'[session.client] = [want |-> waiting[session.client], reply |-> p]
        /\ \A c \in Clients \ {session.client} : got'[c] = got[c]
    BY <2>1, <2>2, <2>3, DeliverStep
  <2>7. session'.pc = "recv"
    BY <1>0, <2>1 DEF Sessions
  <2>8. GotInv'
    <3> SUFFICES ASSUME NEW c \in Clients
                 PROVE  /\ got'[c].reply.c = got'[c].want.c
                        /\ got'[c].reply.n = got'[c].want.n
                        /\ got'[c].want.op = "REQUEST" => got'[c].reply.op = "NACK"
      BY DEF GotInv
    <3>1. CASE c = session.client
      BY <2>4, <2>6, <3>1 DEF Answers
    <3>2. CASE c # session.client
      BY <1>0, <2>6, <3>2 DEF GotInv
    <3> QED  BY <3>1, <3>2
  <2> QED  BY <2>3, <2>4, <2>5, <2>7, <2>8 DEF RoundInv
<1>8. ASSUME NEW c \in Clients, NEW op \in {"LOGIN", "REQUEST"}, Send(c, op)
      PROVE  RoundInv' /\ GotInv'
  <2>1. PICK p : p = Packet(op, c, sent[c] + 1, c)
    OBVIOUS
  <2>2. p.from = c /\ p # Nothing
    BY <2>1, FrontEndAssumption DEF Packet, Nothing
  <2>3. /\ waiting[c] = Nothing /\ waiting' = [waiting EXCEPT ![c] = p]
        /\ \/ toSession' = toSession /\ users' = users
           \/ /\ session.pc \in {"recv", "wait"}
              /\ toSession' = Append(toSession, p) /\ users' = users \cup {c}
        /\ UNCHANGED <<session, toServer, got>>
    <3>1. sent'[c] = sent[c] + 1
      BY <1>0, <1>8 DEF Send
    <3> QED  BY <1>8, <2>1, <3>1 DEF Send
  <2>4. waiting'[c] = p /\ \A d \in Clients \ {c} : waiting'[d] = waiting[d]
    BY <1>0, <2>3
  <2>5. GotInv'
    BY <1>0, <2>3 DEF GotInv
  <2>6. CASE toSession' = toSession /\ users' = users
    BY <1>0, <2>3, <2>4, <2>5, <2>6 DEF RoundInv
  <2>7. CASE /\ session.pc \in {"recv", "wait"}
             /\ toSession' = Append(toSession, p) /\ users' = users \cup {c}
    <3>1. \A d \in users : d = c
      BY <1>0, <2>7
    <3>2. session.pc # "wait"
      BY <1>0, <2>3, <3>1 DEF RoundInv
    <3>3. session.pc = "recv" /\ toSession = <<>> /\ NoneOut(toServer)
      BY <1>0, <2>3, <2>7, <3>1, <3>2 DEF RoundInv
    <3>4. toSession' = <<waiting'[c]>> /\ c \in users'
      BY <2>4, <2>7, <3>3
    <3> QED  BY <2>2, <2>3, <2>4, <2>5, <3>3, <3>4 DEF RoundInv
  <2> QED  BY <2>3, <2>6, <2>7
<1> QED  BY <1>1, <1>2, <1>3, <1>4, <1>5, <1>6, <1>7, <1>8, NextCases

-----------------------------------------------------------------------------
(* Theorems *)

(* IInv: the types, the sources of packets, and what goes round while one   *)
(* client uses the relay and no reply is late.                              *)
THEOREM InductiveInvariant == Spec => []IInv
<1>1. Init => IInv
  BY TypeInit, FromInit, RoundInit DEF IInv
<1>2. IInv /\ [Next]_vars => IInv'
  BY TypeNext, FromNext, RoundNext DEF IInv
<1> QED  BY <1>1, <1>2, PTL DEF Spec

(* TypeOK, with any number of clients, requests and timeouts.               *)
THEOREM TypeCorrect == Spec => []TypeOK
<1>1. IInv => TypeOK
  <2> SUFFICES ASSUME TypeInv  PROVE TypeOK
    BY DEF IInv
  <2>1. ASSUME NEW c \in Clients
        PROVE  /\ waiting[c] \in {Nothing} \cup {p \in Packets : p.c = c /\ p.n = sent[c]}
               /\ got[c] \in [want : Packets, reply : Packets]
    BY DEF TypeInv, WaitInv
  <2> QED  BY <2>1 DEF TypeInv, MainInv, RelayInv, QueueInv, RestInv,
                       Mains, Sessions, Pings, TypeOK
<1> QED  BY <1>1, InductiveInvariant, PTL

(* AnswersItsRequest: with one client and no late reply the relay keeps     *)
(* requests and replies apart.                                              *)
THEOREM AnswersCorrect == Spec => []AnswersItsRequest
<1>1. IInv => AnswersItsRequest
  BY DEF IInv, Single, GotInv, AnswersItsRequest
<1> QED  BY <1>1, InductiveInvariant, PTL

(* RequestsRefused: with one client and no late reply the server refuses    *)
(* every request that comes through the relay.                              *)
THEOREM RefusedCorrect == Spec => []RequestsRefused
<1>1. IInv => RequestsRefused
  BY DEF IInv, Single, GotInv, RequestsRefused
<1> QED  BY <1>1, InductiveInvariant, PTL

(* The other side of LoginReplyRerouted, which the code violates: whatever  *)
(* main relays, only clients that have sent to the relay's own port are     *)
(* ever answered.                                                           *)
THEOREM OnlyUsersAnswered ==
  Spec => [](\A c \in Clients : got[c].want # Nothing => c \in users)
<1>1. IInv => \A c \in Clients : got[c].want # Nothing => c \in users
  BY DEF IInv, ClientInv
<1> QED  BY <1>1, InductiveInvariant, PTL

=============================================================================
