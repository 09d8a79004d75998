----------------------------- MODULE SessionNet -----------------------------
(***************************************************************************)
(* The server's table (Sessions) together with the devices that log in to  *)
(* it (login_server, close_session and main of src/dropboxClient.c) and    *)
(* the sockets between them.  What Sessions leaves open, which packets     *)
(* reach the main socket and the session sockets, is decided here: packets *)
(* wait in the queue of the socket they were sent to, the queue of a       *)
(* session socket outlives the session, and a packet to a port that nobody *)
(* has bound yet is gone.  A device waits for every answer without a       *)
(* timeout; only a NACK makes it send its LOGIN again.                     *)
(*                                                                         *)
(* Each element of Devices is one run of the client program.  DELETE and   *)
(* LIST stand for its requests: they always come to an end (transfers that *)
(* do not are in FileTransfer and Client).                                 *)
(***************************************************************************)
EXTENDS Sessions, Sequences, FiniteSets

CONSTANTS
    Devices,      \* runs of the client program
    MaxRequests,  \* bound: requests of a device before it closes
    MaxFaults     \* bounds: how often a datagram is lost or duplicated, or a
                  \* device vanishes; [{"lost", "dup", "vanish"} -> Nat]

ASSUME NetAssumption ==
    /\ MaxRequests \in Nat
    /\ MaxFaults \in [{"lost", "dup", "vanish"} -> Nat]

VARIABLES
    user,          \* [Devices -> Users]: the argument of the program
    device,        \* [Devices -> its pc, its server port, its requests so far]
    mainQueue,     \* packets at the main socket
    queue,         \* [SessionPorts -> packets at the session's socket]
    loginReplies,  \* [Devices -> replies at the socket used for the login]
    replies,       \* [Devices -> ACKs waiting at the socket used afterwards]
    mainClient,    \* the source of the packet the main thread works on
    client,        \* [Threads -> the source of the thread's last request]
    owner,         \* [Threads -> the device whose login created the thread]
    faults         \* [Kinds -> Nat]: what has gone wrong so far

net == <<mainQueue, queue, loginReplies, replies>>
peers == <<mainClient, client, owner>>
netVars == <<vars, user, device, net, peers, faults>>

NoDevice == "nobody"
NACK == 0   \* in place of a port
SessionPorts == {Port(c, s) : c \in ClientIds, s \in SlotIds}
Messages == [op : {"DELETE", "LIST", "CLOSE"}, from : Devices]
(* "unbound": a request met a port that was not bound yet; "late": one was  *)
(* sent after CLOSE; "bind", "thread": the call of that name failed.        *)
Kinds == {"lost", "dup", "vanish", "unbound", "late", "bind", "thread"}

NetInit ==
    /\ Init
    /\ user \in [Devices -> Users]
    /\ device = [d \in Devices |-> [pc |-> "start", port |-> 0, asked |-> 0]]
    /\ mainQueue = <<>>
    /\ queue = [p \in SessionPorts |-> <<>>]
    /\ loginReplies = [d \in Devices |-> <<>>]
    /\ replies = [d \in Devices |-> 0]
    /\ mainClient = NoDevice
    /\ client = [t \in Threads |-> NoDevice]
    /\ owner = [t \in Threads |-> NoDevice]
    /\ faults = [k \in Kinds |-> 0]

Count(kind) == faults' = [faults EXCEPT ![kind] = @ + 1]

-----------------------------------------------------------------------------
(* A device *)

SendLogin(d) == mainQueue' = Append(mainQueue, d)

(* login_server sends LOGIN and waits.                                      *)
Login(d) ==
    /\ device[d].pc = "start"
    /\ device' = [device EXCEPT ![d].pc = "login"]
    /\ SendLogin(d)
    /\ UNCHANGED <<vars, user, queue, loginReplies, replies, peers, faults>>

LoginReply_NoRetry(d) ==
    /\ device[d].pc = "login" /\ loginReplies[d] # <<>>
    /\ loginReplies' = [loginReplies EXCEPT ![d] = Tail(@)]
    /\ IF Head(loginReplies[d]) # NACK
       THEN device' = [device EXCEPT ![d] =
                         [@ EXCEPT !.pc = "in", !.port = Head(loginReplies[d])]]
       ELSE UNCHANGED device
    /\ UNCHANGED <<vars, user, mainQueue, queue, replies, peers, faults>>

LoginReply_AlwaysRetry(d) ==
    /\ device[d].pc = "login" /\ loginReplies[d] # <<>>
    /\ loginReplies' = [loginReplies EXCEPT ![d] = Tail(@)]
    /\ IF Head(loginReplies[d]) # NACK
       THEN device' = [device EXCEPT ![d] =
                         [@ EXCEPT !.pc = "in", !.port = Head(loginReplies[d])]]
       ELSE UNCHANGED device
    /\ SendLogin(d)
    /\ UNCHANGED <<vars, user, queue, replies, peers, faults>>

(* An ACK carries the port; the device opens a new socket for it, so that   *)
(* further answers to the login are never read.  After a NACK the loop      *)
(* sends the LOGIN again.                                                   *)
LoginReply(d) ==
    /\ device[d].pc = "login" /\ loginReplies[d] # <<>>
    /\ loginReplies' = [loginReplies EXCEPT ![d] = Tail(@)]
    /\ IF Head(loginReplies[d]) # NACK
       THEN /\ device' = [device EXCEPT ![d] =
                            [@ EXCEPT !.pc = "in", !.port = Head(loginReplies[d])]]
            /\ UNCHANGED mainQueue
       ELSE SendLogin(d) /\ UNCHANGED device
    /\ UNCHANGED <<vars, user, queue, replies, peers, faults>>

(* A datagram to the server port of a device: kept by the socket if there   *)
(* is one.                                                                  *)
SendRequest(d, op) ==
    IF device[d].port \in boundPorts
    THEN /\ queue' = [queue EXCEPT ![device[d].port] =
                        Append(@, [op |-> op, from |-> d])]
         /\ UNCHANGED faults
    ELSE Count("unbound") /\ UNCHANGED queue

(* Requests, and at last CLOSE (exit).                                      *)
Ask(d, op) ==
    /\ device[d].pc = "in"
    /\ op # "CLOSE" => device[d].asked < MaxRequests
    /\ SendRequest(d, op)
    /\ device' = [device EXCEPT ![d] =
                    IF op = "CLOSE" THEN [@ EXCEPT !.pc = "closing"]
                    ELSE [@ EXCEPT !.pc = "asked", !.asked = device[d].asked + 1]]
    /\ UNCHANGED <<vars, user, mainQueue, loginReplies, replies, peers>>

(* Any ACK ends the wait.                                                   *)
TakeAck(d) ==
    /\ device[d].pc \in {"asked", "closing"} /\ replies[d] > 0
    /\ replies' = [replies EXCEPT ![d] = @ - 1]
    /\ device' = [device EXCEPT ![d].pc = IF @ = "asked" THEN "in" ELSE "closed"]
    /\ UNCHANGED <<vars, user, mainQueue, queue, loginReplies, peers, faults>>

Gone(d) ==
    /\ device' = [device EXCEPT ![d] = [@ EXCEPT !.pc = "exited", !.port = 0]]
    /\ loginReplies' = [loginReplies EXCEPT ![d] = <<>>]
    /\ replies' = [replies EXCEPT ![d] = 0]

(* close_session has released the mutex.  Before main returns a             *)
(* synchronisation that waited for the mutex may send its request.          *)
Exit(d) ==
    /\ device[d].pc = "closed"
    /\ Gone(d)
    /\ \/ UNCHANGED <<queue, faults>>
       \/ /\ Count("late")
          /\ \E op \in {"DELETE", "LIST"} :
                queue' = [queue EXCEPT ![device[d].port] =
                            Append(@, [op |-> op, from |-> d])]
    /\ UNCHANGED <<vars, user, mainQueue, peers>>

Device(d) ==
    \/ Login(d) \/ LoginReply(d) \/ TakeAck(d) \/ Exit(d)
    \/ \E op \in {"DELETE", "LIST", "CLOSE"} : Ask(d, op)

-----------------------------------------------------------------------------
(* The server *)

Alive(d) == device[d].pc # "exited"

(* The main thread takes the next packet: here a LOGIN of a device.         *)
NetMainRecv ==
    /\ mainQueue # <<>>
    /\ MainRecv("LOGIN", user[Head(mainQueue)])
    /\ mainClient' = Head(mainQueue)
    /\ mainQueue' = Tail(mainQueue)
    /\ UNCHANGED <<user, device, queue, loginReplies, replies, client, owner, faults>>

(* The thread created for a login belongs to the device that sent it.       *)
NetSpawn ==
    /\ Spawn
    /\ owner' = [t \in Threads |-> IF thread'[t] # thread[t] THEN mainClient ELSE owner[t]]
    /\ IF thread' = thread THEN Count("thread") ELSE UNCHANGED faults
    /\ UNCHANGED <<user, device, net, mainClient, client>>

Answer(reply) ==
    loginReplies' = IF ~Alive(mainClient) THEN loginReplies
                    ELSE [loginReplies EXCEPT ![mainClient] = Append(@, reply)]

NetReply_NextPort ==
    /\ Reply
    /\ Answer(IF main.pc = "ack" THEN Port(main.index, main.s) + 1 ELSE NACK)
    /\ mainClient' = NoDevice
    /\ UNCHANGED <<user, device, mainQueue, queue, replies, client, owner, faults>>

(* login's result: ACK with the port, or NACK.                              *)
NetReply ==
    /\ Reply
    /\ Answer(IF main.pc = "ack" THEN Port(main.index, main.s) ELSE NACK)
    /\ mainClient' = NoDevice
    /\ UNCHANGED <<user, device, mainQueue, queue, replies, client, owner, faults>>

NetMain ==
    \/ NetMainRecv \/ NetSpawn \/ NetReply
    \/ /\ Match \/ Scan \/ Claim \/ Check \/ SkipSlot \/ TakeSlot
       /\ UNCHANGED <<user, device, net, peers, faults>>

SendAck(d) == replies' = IF Alive(d) THEN [replies EXCEPT ![d] = @ + 1] ELSE replies

(* What a request is to the table.                                          *)
Class(op) == CASE op = "DELETE" -> "UPLOAD" [] op = "LIST" -> "DOWNLOAD"
               [] OTHER -> op

(* recvfrom and the switch; LIST is answered by list_files, the others are  *)
(* acknowledged first.  The request is not checked against the session.     *)
NetReceive(t) ==
    LET q == queue[thread[t].port]
    IN  /\ thread[t].pc = "recv" /\ q # <<>>
        /\ Receive(t, Class(Head(q).op))
        /\ queue' = [queue EXCEPT ![thread[t].port] = Tail(@)]
        /\ client' = [client EXCEPT ![t] = Head(q).from]
        /\ IF Head(q).op = "LIST" THEN UNCHANGED replies ELSE SendAck(Head(q).from)
        /\ UNCHANGED <<user, device, mainQueue, loginReplies, mainClient, owner, faults>>

NetEndTransfer_Silent(t) ==
    EndTransfer(t) /\ UNCHANGED <<user, device, net, peers, faults>>

NetEndTransfer(t) ==
    /\ EndTransfer(t)
    /\ IF thread[t].op = "DOWNLOAD" THEN SendAck(client[t]) ELSE UNCHANGED replies
    /\ UNCHANGED <<user, device, mainQueue, queue, loginReplies, peers, faults>>

NetBind(t) ==
    /\ Bind(t)
    /\ IF thread'[t].sock = "unbound" THEN Count("bind") ELSE UNCHANGED faults
    /\ UNCHANGED <<user, device, net, peers>>

(* A thread that ends takes its locals with it.                             *)
NetEnd(t) ==
    /\ Publish(t) \/ Replicate(t)
    /\ IF thread'[t].pc = "none"
       THEN /\ client' = [client EXCEPT ![t] = NoDevice]
            /\ owner' = [owner EXCEPT ![t] = NoDevice]
       ELSE UNCHANGED <<client, owner>>
    /\ UNCHANGED <<user, device, net, mainClient, faults>>

NetThread(t) ==
    \/ NetReceive(t) \/ NetEndTransfer(t) \/ NetBind(t) \/ NetEnd(t)
    \/ /\ Start(t) \/ BuildPath(t) \/ Close(t)
       /\ UNCHANGED <<user, device, net, peers, faults>>

-----------------------------------------------------------------------------
(* Faults *)

Vanish(d) ==
    /\ device[d].pc \in {"login", "in", "asked", "closing"}
    /\ faults["vanish"] < MaxFaults["vanish"]
    /\ Count("vanish")
    /\ Gone(d)
    /\ UNCHANGED <<vars, user, mainQueue, queue, peers>>

(* A datagram is lost, or delivered once more after those behind it.        *)
Disturbed(kind, q) == IF kind = "lost" THEN Tail(q) ELSE Append(q, Head(q))

Disturb(kind) ==
    /\ faults[kind] < MaxFaults[kind]
    /\ Count(kind)
    /\ \/ /\ mainQueue # <<>>
          /\ mainQueue' = Disturbed(kind, mainQueue)
          /\ UNCHANGED <<queue, loginReplies, replies>>
       \/ /\ \E p \in SessionPorts :
                /\ queue[p] # <<>>
                /\ queue' = [queue EXCEPT ![p] = Disturbed(kind, @)]
          /\ UNCHANGED <<mainQueue, loginReplies, replies>>
       \/ /\ \E d \in Devices :
                /\ loginReplies[d] # <<>>
                /\ loginReplies' = [loginReplies EXCEPT ![d] = Disturbed(kind, @)]
          /\ UNCHANGED <<mainQueue, queue, replies>>
       \/ /\ \E d \in Devices :
                /\ replies[d] > 0
                /\ replies' = [replies EXCEPT ![d] =
                                 IF kind = "lost" THEN @ - 1 ELSE @ + 1]
          /\ UNCHANGED <<mainQueue, queue, loginReplies>>
    /\ UNCHANGED <<vars, user, device, peers>>

-----------------------------------------------------------------------------
NetNext ==
    \/ NetMain
    \/ \E t \in Threads : NetThread(t)
    \/ \E d \in Devices : Device(d) \/ Vanish(d)
    \/ \E kind \in {"lost", "dup"} : Disturb(kind)

NetSpec == NetInit /\ [][NetNext]_netVars

(* The main thread and the session threads block in recvfrom only, devices  *)
(* likewise; and a user who has logged in exits some day.                   *)
NetFairSpec ==
    /\ NetSpec
    /\ WF_netVars(NetMain)
    /\ \A t \in Threads : WF_netVars(NetThread(t))
    /\ \A d \in Devices : WF_netVars(Device(d))

-----------------------------------------------------------------------------
(* Properties *)

NetTypeOK ==
    /\ user \in [Devices -> Users]
    /\ device \in [Devices -> [pc : {"start", "login", "in", "asked", "closing",
                                     "closed", "exited"},
                               port : SessionPorts \cup {0}, asked : 0 .. MaxRequests]]
    /\ mainQueue \in Seq(Devices)
    /\ queue \in [SessionPorts -> Seq(Messages)]
    /\ loginReplies \in [Devices -> Seq(SessionPorts \cup {NACK})]
    /\ replies \in [Devices -> Nat]
    /\ mainClient \in Devices \cup {NoDevice}
    /\ client \in [Threads -> Devices \cup {NoDevice}]
    /\ owner \in [Threads -> Devices \cup {NoDevice}]
    /\ faults \in [Kinds -> Nat]

(* A session serves the device that logged in to it and nobody else, though *)
(* it inherits its slot's socket and never looks at a request's source:     *)
(* whatever is lost and whoever vanishes.  Only a datagram that arrives     *)
(* twice, or one sent after CLOSE, is left in a socket for the next owner,  *)
(* who may be another user.                                                 *)
ServesOwnDevice ==
    (faults["dup"] = 0 /\ faults["late"] = 0) =>
        \A t \in Threads : client[t] \in {NoDevice, owner[t]}

(* The device sends to the port of slot s of entry c, or may when it reads  *)
(* the answer to its login.                                                 *)
Knows(d, c, s) ==
    \/ device[d].pc \in {"in", "asked"} /\ device[d].port = Port(c, s)
    \/ /\ device[d].pc \in {"start", "login"}
       /\ \E i \in 1 .. Len(loginReplies[d]) : loginReplies[d][i] = Port(c, s)

(* From the answer to its login until it sends CLOSE a device has a slot to *)
(* itself: the slot is taken, and no other device has been told its port,   *)
(* although the server gives slots away again, sends a login's answer and   *)
(* forgets it, and never hears whether it arrived.  Here too a datagram     *)
(* that arrives twice, or after CLOSE, may free another device's slot.      *)
SlotToItself ==
    (faults["dup"] = 0 /\ faults["late"] = 0) =>
        \A d \in Devices, c \in ClientIds, s \in SlotIds :
            Knows(d, c, s) =>
                /\ session_active[c][s] = 1
                /\ \A e \in Devices \ {d} : ~Knows(e, c, s)

(* A slot nobody will free: taken, and its device is gone.                  *)
Orphan(c, s) ==
    /\ session_active[c][s] = 1
    /\ ~(main.pc = "spawn" /\ main.index = c /\ main.s = s)
    /\ \A t \in Threads :
          (Owns(t) /\ thread[t].c = c /\ thread[t].s = s) =>
              ~Alive(owner[t]) /\ thread[t].pc # "close"

Orphans == {x \in ClientIds \X SlotIds : Orphan(x[1], x[2])}

(* A fault costs the server at most one slot: a device that vanishes, a     *)
(* datagram delivered twice, a bind or a pthread_create that fails.  Lost   *)
(* datagrams and late requests cost none, and without faults every slot     *)
(* comes free again.                                                        *)
OneSlotPerFault ==
    Cardinality(Orphans)
        <= faults["vanish"] + faults["dup"] + faults["bind"] + faults["thread"]

Excused(kinds) == \E k \in kinds : faults[k] > 0

(* A device that has sent a request gets its answer, even when other        *)
(* devices vanish or send late requests.  A first request may be gone: the  *)
(* port is announced before the session thread binds it.                    *)
Answered ==
    \A d \in Devices :
        device[d].pc \in {"asked", "closing"} ~>
            \/ device[d].pc \in {"in", "closed", "exited"}
            \/ Excused({"lost", "dup", "unbound", "thread"})

(* A device that keeps sending its LOGIN gets in when others have closed,   *)
(* unless a fault has cost a slot or left a device waiting for ever.        *)
LoginEventually ==
    \A d \in Devices :
        device[d].pc = "login" ~>
            device[d].pc # "login" \/ Excused(Kinds \ {"late"})

=============================================================================
