------------------------------ MODULE FrontEnd ------------------------------
(***************************************************************************)
(* The front end (src/frontEnd.c), which is to stand between the clients   *)
(* and a server: main relays one login and its answer, creates a thread    *)
(* that pings the server and one that relays requests, and returns, which  *)
(* ends the process.  The threads run until then.                          *)
(*                                                                         *)
(* The relay uses one socket for both directions and tells its packets     *)
(* apart by the order in which they come.  Everything it sends on goes to  *)
(* the server's main port, where the server (main and login of             *)
(* src/dropboxServer.c) accepts a LOGIN, perhaps, and refuses the rest.    *)
(***************************************************************************)
EXTENDS Integers, Sequences, FiniteSets

CONSTANTS
    Clients,      \* clients that send to the front end
    MaxRequests,  \* bound: packets of each client
    MaxTimeouts   \* bound: timeouts of the relay

ASSUME FrontEndAssumption ==
    /\ "server" \notin Clients /\ "nobody" \notin Clients
    /\ MaxRequests \in Nat /\ MaxTimeouts \in Nat

VARIABLES
    main,       \* main's pc, the client it knows and client_len
    session,    \* the relay thread's locals; timed: its socket has a timeout
    ping,       \* the ping thread: its pc, where its pings go
    serverlist, \* "zero", or "garbage" once update_server_list has run
    toMain, toSession,  \* packets at the sockets of main and of the relay
    toServer,   \* packets at the server's main port
    waiting,    \* [Clients -> what the client waits for, if anything]
    got,        \* [Clients -> the last answer, with the packet it was sent for]
    sent,       \* [Clients -> packets sent so far]
    users,      \* clients that have sent to the relay (history)
    timeouts    \* of the relay, so far

clients == <<waiting, got, sent, users>>
vars == <<main, session, ping, serverlist, toMain, toSession, toServer, clients, timeouts>>

(* A packet carries an opcode, and the number of the client's packet that   *)
(* it is, or answers.  Every other opcode is a REQUEST.                     *)
Packet(op, c, n, from) == [op |-> op, c |-> c, n |-> n, from |-> from]
Nothing == Packet("GARBAGE", "nobody", 0, "nobody")

Init ==
    /\ main = [pc |-> "login", client |-> "nobody", client_len |-> 0]
    /\ session = [pc |-> "none", client |-> "nobody", request |-> Nothing,
                  reply |-> Nothing, timed |-> FALSE]
    /\ ping = [pc |-> "none", rm |-> "server"]
    /\ serverlist = "zero"
    /\ toMain = <<>> /\ toSession = <<>> /\ toServer = <<>>
    /\ waiting = [c \in Clients |-> Nothing]
    /\ got = [c \in Clients |-> [want |-> Nothing, reply |-> Nothing]]
    /\ sent = [c \in Clients |-> 0]
    /\ users = {}
    /\ timeouts = 0

Running == main.pc # "exited"

(* sendto from the socket of whom: to the server, to a client that waits    *)
(* for an answer, or to an address that was never filled in.                *)
Deliver(whom, to, p) ==
    /\ toServer' = IF to = "server" THEN Append(toServer, [p EXCEPT !.from = whom])
                   ELSE toServer
    /\ IF to \in Clients
       THEN /\ got' = [got EXCEPT ![to] = [want |-> waiting[to], reply |-> p]]
            /\ waiting' = [waiting EXCEPT ![to] = Nothing]
       ELSE UNCHANGED <<got, waiting>>
    /\ UNCHANGED <<sent, users>>

-----------------------------------------------------------------------------
(* main *)

(* The source of the packet is stored as far as client_len allows, which is *)
(* 0 for the first one; recvfrom then sets it.                              *)
MainLogin ==
    /\ main.pc = "login" /\ toMain # <<>>
    /\ main' = [pc |-> "reply", client_len |-> 1,
                client |-> IF main.client_len = 0 THEN main.client
                           ELSE Head(toMain).from]
    /\ toMain' = Tail(toMain)
    /\ Deliver("main", "server", Head(toMain))
    /\ UNCHANGED <<session, ping, serverlist, toSession, timeouts>>

(* Whatever comes next is taken for the server's reply.                     *)
MainReply ==
    /\ main.pc = "reply" /\ toMain # <<>>
    /\ main' = [main EXCEPT !.pc = "ping"]
    /\ toMain' = Tail(toMain)
    /\ Deliver("main", main.client, Head(toMain))
    /\ UNCHANGED <<session, ping, serverlist, toSession, timeouts>>

CreatePing ==
    /\ main.pc = "ping"
    /\ main' = [main EXCEPT !.pc = "session"]
    /\ ping' = [ping EXCEPT !.pc = "send"]
    /\ UNCHANGED <<session, serverlist, toMain, toSession, toServer, clients, timeouts>>

CreateSession ==
    /\ main.pc = "session"
    /\ main' = [main EXCEPT !.pc = "return"]
    /\ session' = [session EXCEPT !.pc = "setup"]
    /\ UNCHANGED <<ping, serverlist, toMain, toSession, toServer, clients, timeouts>>

Exit == main' = [main EXCEPT !.pc = "exited"]

Return ==
    /\ main.pc = "return"
    /\ Exit
    /\ UNCHANGED <<session, ping, serverlist, toMain, toSession, toServer, clients, timeouts>>

-----------------------------------------------------------------------------
(* The ping thread *)

PingSend ==
    /\ Running /\ ping.pc = "send"
    /\ ping' = [ping EXCEPT !.pc = "wait"]
    /\ UNCHANGED <<main, session, serverlist, toMain, toSession, toServer, clients, timeouts>>

(* The list is copied through a pointer that was never set.  If the process *)
(* survives it, serverlist holds whatever lies next to that pointer.        *)
PingReply ==
    /\ Running /\ ping.pc = "wait" /\ ping.rm = "server"
    /\ ping' = [ping EXCEPT !.pc = "send"]
    /\ \/ Exit /\ UNCHANGED serverlist
       \/ serverlist' = "garbage" /\ UNCHANGED main
    /\ UNCHANGED <<session, toMain, toSession, toServer, clients, timeouts>>

(* switchservers is declared here, not called: primary_id stays 0, and the  *)
(* address in entry 0 is not the server's.                                  *)
PingTimeout ==
    /\ Running /\ ping.pc = "wait"
    /\ ping' = [pc |-> "send", rm |-> serverlist]
    /\ UNCHANGED <<main, session, serverlist, toMain, toSession, toServer, clients, timeouts>>

-----------------------------------------------------------------------------
(* The relay thread *)

(* bind may fail: then the loop is not entered.  (That the thread clears    *)
(* the flags of serverlist makes no difference: nothing reads them.)        *)
Setup ==
    /\ Running /\ session.pc = "setup"
    /\ \E pc \in {"recv", "over"} : session' = [session EXCEPT !.pc = pc]
    /\ UNCHANGED <<main, ping, serverlist, toMain, toSession, toServer, clients, timeouts>>

(* Either recvfrom takes whatever is next, or, once the timeout is set, it  *)
(* may come back with nothing and the buffer as it was.                     *)
Receives(buffer, p) ==
    \/ /\ toSession # <<>> /\ p = Head(toSession)
       /\ toSession' = Tail(toSession)
       /\ UNCHANGED timeouts
    \/ /\ session.timed \/ session.pc = "wait"
       /\ timeouts < MaxTimeouts
       /\ p = buffer
       /\ timeouts' = timeouts + 1
       /\ UNCHANGED toSession

Forward_GlobalClient(p) ==
    /\ Running /\ session.pc = "recv"
    /\ Receives(session.request, p)
    /\ session' = [session EXCEPT !.pc = "wait", !.request = p,
                                  !.client = main.client, !.timed = TRUE]
    /\ Deliver("session", "server", p)
    /\ UNCHANGED <<main, ping, serverlist, toMain>>

Forward(p) ==
    /\ Running /\ session.pc = "recv"
    /\ Receives(session.request, p)
    /\ session' = [session EXCEPT !.pc = "wait", !.request = p,
                                  !.client = p.from, !.timed = TRUE]
    /\ Deliver("session", "server", p)
    /\ UNCHANGED <<main, ping, serverlist, toMain>>

Relay_Former(p) ==
    /\ Running /\ session.pc = "wait"
    /\ Receives(session.reply, p)
    /\ session' = [session EXCEPT !.pc = "recv", !.reply = p]
    /\ Deliver("session", session.client, session.reply)
    /\ UNCHANGED <<main, ping, serverlist, toMain>>

(* The reply, if it is one, goes to the source of the last request, if it   *)
(* was one: a late reply is taken for a request of the server's, and sent   *)
(* back there.                                                              *)
Relay(p) ==
    /\ Running /\ session.pc = "wait"
    /\ Receives(session.reply, p)
    /\ session' = [session EXCEPT !.pc = "recv", !.reply = p]
    /\ Deliver("session", session.client, p)
    /\ UNCHANGED <<main, ping, serverlist, toMain>>

Buffers == {session.request, session.reply} \cup
           (IF toSession = <<>> THEN {} ELSE {Head(toSession)})

FrontEnd ==
    \/ MainLogin \/ MainReply \/ CreatePing \/ CreateSession \/ Return
    \/ PingSend \/ PingReply \/ PingTimeout
    \/ Setup \/ \E p \in Buffers : Forward(p) \/ Relay(p)

-----------------------------------------------------------------------------
(* The others *)

Results_AnyOpcode(p) == {"ACK", "NACK"}

(* login refuses every packet that is not a LOGIN, and may refuse that.     *)
Results(p) == IF p.op = "LOGIN" THEN {"ACK", "NACK"} ELSE {"NACK"}

(* The main thread of the server answers to where a packet came from.       *)
Server ==
    /\ toServer # <<>>
    /\ toServer' = Tail(toServer)
    /\ LET p == Head(toServer)
       IN  \E result \in Results(p) :
              LET answer == [p EXCEPT !.op = result, !.from = "server"]
              IN  IF p.from = "main"
                  THEN toMain' = Append(toMain, answer) /\ UNCHANGED toSession
                  ELSE toSession' = Append(toSession, answer) /\ UNCHANGED toMain
    /\ UNCHANGED <<main, session, ping, serverlist, clients, timeouts>>

(* A client logs in at the main port; it may also know the port of the      *)
(* relay (the program takes the port as an argument).  It waits for the     *)
(* answer before it sends again.                                            *)
Send(c, op) ==
    /\ waiting[c] = Nothing /\ sent[c] < MaxRequests
    /\ sent' = [sent EXCEPT ![c] = @ + 1]
    /\ LET p == Packet(op, c, sent'[c], c)
       IN  /\ waiting' = [waiting EXCEPT ![c] = p]
           /\ \/ /\ toMain' = Append(toMain, p)
                 /\ UNCHANGED <<toSession, users>>
              \/ /\ session.pc \in {"recv", "wait"}
                 /\ toSession' = Append(toSession, p)
                 /\ users' = users \cup {c}
                 /\ UNCHANGED toMain
    /\ UNCHANGED <<main, session, ping, serverlist, toServer, got, timeouts>>

Next ==
    \/ FrontEnd
    \/ Server
    \/ \E c \in Clients, op \in {"LOGIN", "REQUEST"} : Send(c, op)

Spec == Init /\ [][Next]_vars

-----------------------------------------------------------------------------
(* Properties *)

Packets == [op : {"LOGIN", "REQUEST", "ACK", "NACK", "GARBAGE"},
            c : Clients \cup {"nobody"}, n : 0..MaxRequests,
            from : Clients \cup {"server", "main", "session", "nobody"}]

(* Every variable has its type; the relay that waits for a reply knows the  *)
(* source of its request (session's client hides main's), and a client that *)
(* waits has sent what it waits for.                                        *)
TypeOK ==
    /\ main \in [pc : {"login", "reply", "ping", "session", "return", "exited"},
                 client : Clients \cup {"nobody"}, client_len : 0..1]
    /\ session \in [pc : {"none", "setup", "recv", "wait", "over"},
                    client : Clients \cup {"nobody", "server"},
                    request : Packets, reply : Packets, timed : BOOLEAN]
    /\ session.pc = "wait" => session.timed /\ session.client = session.request.from
    /\ ping \in [pc : {"none", "send", "wait"}, rm : {"server", "zero", "garbage"}]
    /\ serverlist \in {"zero", "garbage"}
    /\ \A q \in {toMain, toSession, toServer} : q \in Seq(Packets)
    /\ \A c \in Clients : /\ waiting[c] \in {Nothing} \cup
                               {p \in Packets : p.c = c /\ p.n = sent[c]}
                          /\ got[c] \in [want : Packets, reply : Packets]
    /\ users \subseteq Clients
    /\ timeouts \in 0..MaxTimeouts

(* The relay keeps requests and replies apart by their order only.  That is *)
(* enough as long as one client uses it and no reply is late: what a client *)
(* gets then answers the packet it waits for (session's loop).              *)
AnswersItsRequest ==
    timeouts = 0 /\ Cardinality(users) <= 1 =>
        \A c \in Clients : /\ got[c].reply.c = got[c].want.c
                           /\ got[c].reply.n = got[c].want.n

(* What the relay sends on goes to the server's main port, not to the       *)
(* client's session: with one client and no late reply every request is     *)
(* refused there, and the client is told so.                                *)
RequestsRefused ==
    timeouts = 0 /\ Cardinality(users) <= 1 =>
        \A c \in Clients : got[c].want.op = "REQUEST" => got[c].reply.op = "NACK"

(* "Login reply reroute to client", says main of its second sendto: when it *)
(* passes on a login that the server has accepted, the client that has sent *)
(* it gets the reply.                                                       *)
LoginReplyRerouted ==
    [][LET reply == Head(toMain)
       IN  MainReply /\ reply.op = "ACK" =>
               got'[reply.c].reply = reply]_vars

=============================================================================
