------------------------- MODULE FileTransferProofs -------------------------
(***************************************************************************)
(* Proofs about FileTransfer, for any size of file and packet and any      *)
(* number of lost and duplicated datagrams.  The arithmetic of the         *)
(* sender's loop is in SenderInv, which holds whatever the network does.   *)
(***************************************************************************)
EXTENDS FileTransfer, TLAPS

FilePackets ==
    {p \in [op : {"FILEPKT", "LASTPKT"}, seq : Shorts, data : Nat] :
        p.op = "LASTPKT" => p.seq \in Nat}

Sending ==
    [pc : {"open", "read", "test", "wait", "returned", "failed"},
     i : Nat \ {0}, off : Nat, reply : Shorts \cup {NotAck},
     packet : FilePackets \cup {NoPacket}]

TypeInv ==
    /\ file \in [size : Sizes, old : OldSizes, garbage : Garbage, opens : Opens]
    /\ snd \in Sending
    /\ rcv \in [pc : {"recv", "returned"}, pos : Nat]
    /\ toRcv \in Seq(FilePackets)
    /\ toSnd \in Seq(Shorts)
    /\ lost \in Nat
    /\ dup \in Nat

(* Where the sender is: packets 1 .. i - 1 are acknowledged, and packet i   *)
(* has been read in states test and wait.                                   *)
Body == snd.off = (snd.i - 1) * CHUNK /\ snd.off <= file.size

InFile ==
    /\ snd.packet = Packet("FILEPKT", ToShort(snd.i), (snd.i - 1) * CHUNK)
    /\ snd.off = snd.i * CHUNK /\ snd.off <= file.size

InLast ==
    /\ snd.packet = Packet("LASTPKT", Rest, file.size - Rest)
    /\ snd.off = file.size /\ snd.i = Full + 1
    /\ Rest > 0 \/ Full = 0

Past == snd.off = file.size /\ snd.i = Full + 2 /\ (Rest > 0 \/ Full = 0)

Former == IF snd.i = 1 THEN file.garbage
          ELSE IF Past THEN Rest ELSE ToShort(snd.i - 1)

SenderInv ==
    /\ snd.pc = "open" => snd.i = 1 /\ snd.off = 0 /\ snd.reply = file.garbage
    /\ file.size = -1 => snd.pc \in {"open", "failed"}
    /\ snd.pc = "failed" => file.size = -1
    /\ snd.pc = "read" => (Body \/ Past) /\ snd.reply = Former
    /\ snd.pc \in {"test", "wait"} => InFile \/ InLast
    /\ snd.pc = "returned" => snd.off = file.size /\ (Past \/ (Full > 0 /\ Rest = 0))

(* No LASTPKT leaves a sender that strands its receiver.                    *)
StrandInv ==
    Strands =>
        /\ rcv.pc = "recv"
        /\ \A k \in DOMAIN toRcv : toRcv[k].op = "FILEPKT"
        /\ snd.pc = "wait" => snd.packet.op = "FILEPKT"
        /\ snd.pc = "test" => snd.packet.op = "FILEPKT" \/ snd.reply = snd.packet.seq

(* Without duplicates there is one datagram at most, and it belongs to      *)
(* packet i.                                                                *)
OrderInv ==
    dup = 0 =>
        \/ toRcv = <<>> /\ toSnd = <<>>
        \/ snd.pc = "wait" /\ toRcv = <<snd.packet>> /\ toSnd = <<>>
        \/ snd.pc = "wait" /\ toRcv = <<>> /\ toSnd = <<snd.packet.seq>>

(* The destination holds the first pos bytes.                               *)
Prefix(d, pos) ==
    /\ DOMAIN d \subseteq Nat
    /\ 0 .. pos - 1 \subseteq DOMAIN d
    /\ \A j \in 0 .. pos - 1 : d[j] = j
    /\ \A j \in DOMAIN d : j \in 0 .. pos - 1 \/ (j < file.old /\ d[j] = OldByte)

PlaceInv ==
    dup = 0 /\ file.opens /\ ~SkipsFirst =>
        /\ Prefix(disk, rcv.pos)
        /\ rcv.pc = "returned" => rcv.pos = file.size
        /\ snd.pc = "open" => rcv.pos = 0
        /\ snd.pc = "read" /\ Body => rcv.pos = snd.off
        /\ snd.pc = "test" /\ snd.reply # snd.packet.seq => rcv.pos = snd.packet.data
        /\ snd.pc = "test" /\ InFile /\ snd.reply = snd.packet.seq => rcv.pos = snd.off
        /\ toRcv # <<>> => rcv.pos = snd.packet.data
        /\ toSnd # <<>> /\ InFile => rcv.pos = snd.off

(* A packet of the file, and what an acknowledgement says: the bytes of     *)
(* its packet are in the destination, behind no later writing.              *)
IsPacket(p) ==
    \/ \E n \in 1 .. Full : p = Packet("FILEPKT", ToShort(n), (n - 1) * CHUNK)
    \/ p = Packet("LASTPKT", Rest, file.size - Rest)

Held(d, pos, b) == \E j \in 0 .. pos - 1 : d[j] = b

HeldSeq(d, pos, a) ==
    /\ \A n \in 1 .. Full : a = ToShort(n) =>
           \A b \in (n - 1) * CHUNK .. n * CHUNK - 1 : Held(d, pos, b)
    /\ a = Rest => \A b \in file.size - Rest .. file.size - 1 : Held(d, pos, b)

(* With distinct numbers, whatever is duplicated.                           *)
HeldInv ==
    DistinctSeqs /\ Clean =>
        /\ 0 .. rcv.pos - 1 \subseteq DOMAIN disk
        /\ \A k \in DOMAIN toSnd : HeldSeq(disk, rcv.pos, toSnd[k])
        /\ snd.pc = "test" /\ snd.reply = snd.packet.seq
              => HeldSeq(disk, rcv.pos, snd.reply)
        /\ snd.pc = "read" => \A b \in 0 .. snd.off - 1 : Held(disk, rcv.pos, b)
        /\ snd.pc = "returned" => \A b \in 0 .. snd.off - 1 : Held(disk, rcv.pos, b)
        /\ snd.pc \in {"test", "wait"}
              => \A b \in 0 .. snd.packet.data - 1 : Held(disk, rcv.pos, b)

InFlight == file.size # -1 => \A k \in DOMAIN toRcv : IsPacket(toRcv[k])

(* The acknowledgement of the LASTPKT comes from a receiver that returned.  *)
LastInv ==
    ~Strands =>
        /\ DistinctSeqs => \A k \in DOMAIN toSnd : toSnd[k] = Rest => rcv.pc = "returned"
        /\ dup = 0 /\ toSnd # <<>> /\ InLast => rcv.pc = "returned"
        /\ (dup = 0 \/ DistinctSeqs) =>
            /\ snd.pc = "test" /\ InLast /\ snd.reply = Rest => rcv.pc = "returned"
            /\ snd.pc = "read" /\ Past => rcv.pc = "returned"
            /\ snd.pc = "returned" => rcv.pc = "returned"

IInv == TypeInv /\ SenderInv /\ StrandInv /\ OrderInv /\ PlaceInv
        /\ InFlight /\ LastInv /\ HeldInv

-----------------------------------------------------------------------------
(* Arithmetic and sequences *)

LEMMA Constants ==
    /\ CHUNK \in Nat /\ CHUNK > 0
    /\ SHORT \in Nat /\ CHUNK < SHORT
    /\ Sizes \subseteq Nat \cup {-1}
    /\ Garbage \subseteq Shorts \cup {NotAck}
BY FileTransferAssumption

(* A size is Full chunks and a rest.                                        *)
LEMMA Division ==
    ASSUME file.size \in Nat
    PROVE  /\ Full \in Nat /\ Rest \in Nat /\ Rest < CHUNK
           /\ file.size = Full * CHUNK + Rest
<1>1. file.size \div CHUNK \in Nat /\ file.size % CHUNK \in 0 .. CHUNK - 1
      /\ file.size = CHUNK * (file.size \div CHUNK) + (file.size % CHUNK)
  BY Constants
<1> QED BY <1>1, Constants DEF Full, Rest

(* n chunks and less than one more: n is Full.                              *)
LEMMA Chunks ==
    ASSUME file.size \in Nat, NEW n \in Nat, n * CHUNK <= file.size
    PROVE  /\ n <= Full
           /\ file.size - n * CHUNK >= CHUNK <=> n < Full
           /\ n = Full => file.size - n * CHUNK = Rest
<1>1. /\ Full \in Nat /\ Rest \in Nat /\ Rest < CHUNK
      /\ file.size = Full * CHUNK + Rest
  BY Division
<1>2. CASE n = Full
  BY <1>1, <1>2, Constants
<1>3. CASE n < Full
  <2>1. (n + 1) * CHUNK <= Full * CHUNK
    BY <1>1, <1>3, Constants
  <2>2. (n + 1) * CHUNK = n * CHUNK + CHUNK
    BY Constants
  <2> QED BY <1>1, <1>3, <2>1, <2>2, Constants
<1>4. CASE n > Full
  <2>1. (Full + 1) * CHUNK <= n * CHUNK
    BY <1>1, <1>4, Constants
  <2>2. (Full + 1) * CHUNK = Full * CHUNK + CHUNK
    BY <1>1, Constants
  <2> QED BY <1>1, <2>1, <2>2, Constants
<1> QED BY <1>1, <1>2, <1>3, <1>4

LEMMA Step ==
    ASSUME NEW n \in Int
    PROVE  /\ n * CHUNK \in Int
           /\ (n + 1) * CHUNK = n * CHUNK + CHUNK
           /\ n \in Nat => n * CHUNK \in Nat
BY Constants

(* The cast: it gives a short, and another one to the next number.          *)
LEMMA Cast ==
    ASSUME NEW n \in Int
    PROVE  ToShort(n) \in Shorts /\ ToShort(n) \in Int
<1>1. SHORT > 0 /\ SHORT \in Nat
  BY Constants
<1>2. (n + SHORT) % (2 * SHORT) \in 0 .. 2 * SHORT - 1
  BY <1>1
<1> QED BY <1>1, <1>2 DEF ToShort, Shorts

LEMMA CastNext ==
    ASSUME NEW n \in Int
    PROVE  ToShort(n) # ToShort(n + 1)
<1> DEFINE M == 2 * SHORT
<1> DEFINE a == n + SHORT
<1>1. M \in Nat /\ M > 2 /\ a \in Int
  BY Constants
<1>2. n + 1 + SHORT = a + 1
  BY Constants
<1>3. SUFFICES ASSUME a % M = (a + 1) % M PROVE FALSE
  <2>1. a % M \in Int /\ (a + 1) % M \in Int
    BY <1>1
  <2> QED BY <1>2, <1>3, <2>1, Constants DEF ToShort
<1> HIDE DEF M, a
<1>4. a = M * (a \div M) + (a % M) /\ a + 1 = M * ((a + 1) \div M) + ((a + 1) % M)
      /\ a \div M \in Int /\ (a + 1) \div M \in Int
  BY <1>1
<1>5. PICK x \in Int, y \in Int : a = M * x + (a % M) /\ a + 1 = M * y + (a % M)
  BY <1>3, <1>4
<1>6. a % M \in Int
  BY <1>1
<1>7. M * y - M * x = 1
  BY <1>1, <1>5, <1>6
<1>8. M * (y - x) = 1 /\ y - x \in Int
  BY <1>1, <1>5, <1>7
<1>9. PICK z \in Int : M * z = 1
  BY <1>8
<1>10. z > 0 => M * z >= M
  BY <1>1
<1>11. z <= 0 => M * z <= 0
  BY <1>1
<1> QED BY <1>1, <1>9, <1>10, <1>11

LEMMA More ==
    ASSUME NEW S, NEW q \in Seq(S), NEW k \in DOMAIN q
    PROVE  /\ Append(q, q[k]) \in Seq(S)
           /\ \A j \in DOMAIN Append(q, q[k]) :
                  \E l \in DOMAIN q : Append(q, q[k])[j] = q[l]
<1>1. q[k] \in S
  OBVIOUS
<1>2. \A j \in DOMAIN Append(q, q[k]) :
         (j \in DOMAIN q /\ Append(q, q[k])[j] = q[j]) \/ Append(q, q[k])[j] = q[k]
  BY <1>1
<1> QED BY <1>1, <1>2

LEMMA Fewer ==
    ASSUME NEW S, NEW q \in Seq(S), NEW k \in DOMAIN q
    PROVE  /\ Without(q, k) \in Seq(S)
           /\ Len(Without(q, k)) = Len(q) - 1
           /\ \A j \in DOMAIN Without(q, k) : \E l \in DOMAIN q : Without(q, k)[j] = q[l]
<1>1. Len(q) \in Nat /\ DOMAIN q = 1 .. Len(q) /\ Len(q) >= 1
      /\ \A l \in 1 .. Len(q) : q[l] \in S
  BY DEF Without
<1> DEFINE n == Len(q) - 1
<1>2. n \in Nat
  BY <1>1
<1>3. DOMAIN Without(q, k) = 1 .. n
  BY DEF Without
<1>4. \A j \in 1 .. n : Without(q, k)[j] \in S
                        /\ \E l \in DOMAIN q : Without(q, k)[j] = q[l]
  BY <1>1 DEF Without
<1>5. Without(q, k) \in [1 .. n -> S]
  BY <1>4 DEF Without
<1>6. Without(q, k) \in Seq(S) /\ Len(Without(q, k)) = n
  BY <1>2, <1>5
<1> QED BY <1>3, <1>4, <1>6

-----------------------------------------------------------------------------
(* Types *)

LEMMA Fields ==
    ASSUME TypeInv
    PROVE  /\ file.size \in Nat \cup {-1}
           /\ file.garbage \in Shorts \cup {NotAck}
           /\ file.opens \in BOOLEAN
           /\ file.old \in Nat
           /\ snd.i \in Nat /\ snd.i > 0 /\ snd.off \in Nat
           /\ snd.reply \in Shorts \cup {NotAck}
           /\ snd.packet \in FilePackets \cup {NoPacket}
           /\ rcv.pos \in Nat
<1>1. file.size \in Sizes /\ file.garbage \in Garbage /\ file.opens \in Opens
      /\ file.old \in OldSizes
  BY DEF TypeInv
<1>2. file.size \in Nat \cup {-1} /\ file.garbage \in Shorts \cup {NotAck}
      /\ file.opens \in BOOLEAN /\ file.old \in Nat
  BY <1>1, FileTransferAssumption
<1>3. /\ snd.i \in Nat \ {0} /\ snd.off \in Nat
      /\ snd.reply \in Shorts \cup {NotAck}
      /\ snd.packet \in FilePackets \cup {NoPacket}
      /\ rcv.pos \in Nat
  BY DEF TypeInv, Sending
<1> QED BY <1>2, <1>3

LEMMA PacketFields ==
    ASSUME NEW p \in FilePackets
    PROVE  /\ p.op \in {"FILEPKT", "LASTPKT"}
           /\ p.seq \in Shorts /\ p.data \in Nat
           /\ p.op = "LASTPKT" => p.seq \in Nat
BY DEF FilePackets

LEMMA ReadsInFile ==
    ASSUME TypeInv, SenderInv, snd.pc = "read"
    PROVE  file.size \in Nat /\ snd.off <= file.size
BY Fields DEF SenderInv, Body, Past

LEMMA InitTyped == Init => TypeInv
<1> SUFFICES ASSUME Init PROVE TypeInv
  OBVIOUS
<1>1. file.garbage \in Shorts \cup {NotAck}
  BY Constants DEF Init
<1>2. snd \in Sending
  BY <1>1 DEF Init, Sending
<1> QED BY <1>2 DEF Init, TypeInv

LEMMA TypeStep ==
    ASSUME TypeInv, SenderInv, [Next]_vars
    PROVE  TypeInv'
<1> USE DEF TypeInv
<1>1. CASE SOpen
  BY <1>1 DEF SOpen, network, Sending
<1>2. CASE SReadChunk
  <2>1. ToShort(snd.i) \in Shorts
    <3>1. snd.i \in Int
      BY Fields
    <3> QED BY <3>1, Cast
  <2>2. Packet("FILEPKT", ToShort(snd.i), snd.off) \in FilePackets
    BY <2>1, Fields DEF Packet, FilePackets
  <2>3. snd.off + CHUNK \in Nat
    BY Constants, Fields
  <2>4. snd' = [snd EXCEPT !.pc = "test",
                           !.packet = Packet("FILEPKT", ToShort(snd.i), snd.off),
                           !.off = snd.off + CHUNK]
    BY <1>2 DEF SReadChunk
  <2>5. snd' \in Sending
    BY <2>2, <2>3, <2>4 DEF Sending
  <2> QED BY <1>2, <2>5 DEF SReadChunk, network
<1>3. CASE SReadRest
  <2>1. file.size \in Nat /\ snd.off <= file.size
    BY <1>3, ReadsInFile DEF SReadRest
  <2>2. file.size - snd.off \in Shorts /\ file.size - snd.off \in Nat
    BY SMTT(30), <1>3, <2>1, Fields, Constants DEF SReadRest, Shorts
  <2>3. Packet("LASTPKT", file.size - snd.off, snd.off) \in FilePackets
    BY <2>2, Fields DEF Packet, FilePackets
  <2>4. snd' = [snd EXCEPT !.pc = "test",
                           !.packet = Packet("LASTPKT", file.size - snd.off, snd.off),
                           !.off = file.size]
    BY <1>3 DEF SReadRest
  <2>5. snd' \in Sending
    BY <2>1, <2>3, <2>4 DEF Sending
  <2> QED BY <1>3, <2>5 DEF SReadRest, network
<1>4. CASE SReadEnd
  BY <1>4 DEF SReadEnd, network, Sending
<1>5. CASE SSend
  <2>1. snd.packet # NoPacket
    BY <1>5 DEF SSend, SenderInv, InFile, InLast, Packet, NoPacket
  <2>2. snd.packet \in FilePackets
    BY <2>1, Fields
  <2>3. toRcv' \in Seq(FilePackets)
    BY <1>5, <2>2 DEF SSend
  <2>4. snd' \in Sending
    BY <1>5 DEF SSend, Sending
  <2> QED BY <1>5, <2>3, <2>4 DEF SSend
<1>6. CASE SWait
  <2>1. Head(toSnd) \in Shorts /\ Tail(toSnd) \in Seq(Shorts)
    BY <1>6 DEF SWait
  <2>2. snd' \in Sending
    BY <1>6, <2>1 DEF SWait, Sending
  <2> QED BY <1>6, <2>1, <2>2 DEF SWait
<1>7. CASE SAccept
  <2>1. snd' = [snd EXCEPT !.pc = "read", !.i = snd.i + 1] /\ snd.i + 1 \in Nat \ {0}
    BY <1>7, Fields DEF SAccept
  <2>2. snd' \in Sending
    BY <2>1 DEF Sending
  <2> QED BY <1>7, <2>2 DEF SAccept, network
<1>8. CASE Receive
  <2> DEFINE p == Head(toRcv)
  <2>1. p \in FilePackets /\ Tail(toRcv) \in Seq(FilePackets)
    BY <1>8 DEF Receive, Take
  <2>2. Length(p) \in Nat /\ p.seq \in Shorts
    BY <2>1, PacketFields, Constants DEF Length, IsLast
  <2> HIDE DEF p
  <2>3. rcv' \in [pc : {"recv", "returned"}, pos : Nat]
    <3>1. rcv' = [pc |-> IF IsLast(p) THEN "returned" ELSE "recv",
                  pos |-> IF file.opens THEN rcv.pos + Length(p) ELSE rcv.pos]
      BY <1>8 DEF Receive, Take, p
    <3> QED BY <2>2, <3>1, Fields
  <2>4. toRcv' \in Seq(FilePackets) /\ toSnd' \in Seq(Shorts)
    BY <1>8, <2>1, <2>2 DEF Receive, Take, Ack, p
  <2> QED BY <1>8, <2>3, <2>4 DEF Receive, Take
<1>9. CASE Lose
  BY <1>9, Fewer DEF Lose
<1>10. CASE Duplicate
  <2>1. ASSUME NEW k \in DOMAIN toRcv PROVE Append(toRcv, toRcv[k]) \in Seq(FilePackets)
    BY More
  <2>2. ASSUME NEW k \in DOMAIN toSnd PROVE Append(toSnd, toSnd[k]) \in Seq(Shorts)
    BY More
  <2>3. toRcv' \in Seq(FilePackets) /\ toSnd' \in Seq(Shorts)
    BY <1>10, <2>1, <2>2 DEF Duplicate
  <2> QED BY <1>10, <2>3 DEF Duplicate
<1>11. CASE UNCHANGED vars
  BY <1>11 DEF vars
<1> QED BY <1>1, <1>2, <1>3, <1>4, <1>5, <1>6, <1>7, <1>8, <1>9, <1>10, <1>11
       DEF Next, Sender

-----------------------------------------------------------------------------
(* The sender *)

(* A step of the receiver or the network leaves the sender alone.           *)
Apart == UNCHANGED <<file, snd>>

LEMMA Others ==
    ASSUME Receive \/ Lose \/ Duplicate \/ UNCHANGED vars
    PROVE  Apart
BY DEF Receive, Take, Lose, Duplicate, vars, Apart

(* What the sender finds when it reads: less than a chunk is left after     *)
(* Full chunks, and nothing is left once the LASTPKT is acknowledged.       *)
LEMMA Reading ==
    ASSUME TypeInv, SenderInv, snd.pc = "read"
    PROVE  /\ file.size \in Nat /\ Full \in Nat /\ Rest \in Nat /\ Rest < CHUNK
           /\ file.size = Full * CHUNK + Rest
           /\ file.size - snd.off >= CHUNK => Body
           /\ Body /\ file.size - snd.off < CHUNK
                => snd.i = Full + 1 /\ file.size - snd.off = Rest
           /\ Past => ~Body /\ snd.i > 1
<1>1. file.size \in Nat
  BY ReadsInFile
<1>2. /\ Full \in Nat /\ Rest \in Nat /\ Rest < CHUNK
      /\ file.size = Full * CHUNK + Rest
  BY <1>1, Division
<1>3. snd.i - 1 \in Nat /\ snd.i \in Nat /\ snd.i > 0 /\ snd.off \in Nat
  BY Fields
<1>4. Body \/ Past
  BY DEF SenderInv
<1>5. Past => file.size - snd.off = 0
  BY <1>1 DEF Past
<1>6. file.size - snd.off >= CHUNK => Body
  BY <1>4, <1>5, Constants
<1>7. ASSUME Body, file.size - snd.off < CHUNK
      PROVE  snd.i = Full + 1 /\ file.size - snd.off = Rest
  <2>1. (snd.i - 1) * CHUNK <= file.size /\ snd.off = (snd.i - 1) * CHUNK
    BY <1>7 DEF Body
  <2>2. snd.i - 1 <= Full
    BY <1>1, <1>3, <2>1, Chunks
  <2>3. ~(snd.i - 1 < Full)
    <3>1. file.size - (snd.i - 1) * CHUNK < CHUNK
      BY <1>7, <2>1
    <3>2. file.size - (snd.i - 1) * CHUNK \in Int
      BY <1>1, <1>3, <2>1
    <3>3. file.size - (snd.i - 1) * CHUNK >= CHUNK <=> snd.i - 1 < Full
      BY <1>1, <1>3, <2>1, Chunks
    <3> QED BY <3>1, <3>2, <3>3, Constants
  <2>4. snd.i - 1 = Full
    BY <1>2, <1>3, <2>2, <2>3
  <2>5. file.size - (snd.i - 1) * CHUNK = Rest
    BY <1>1, <1>3, <2>1, <2>4, Chunks
  <2> QED BY <1>2, <1>3, <2>1, <2>4, <2>5
<1>8. ASSUME Past, Body PROVE FALSE
  <2>1. snd.i = Full + 2
    BY <1>8 DEF Past
  <2>2. (snd.i - 1) * CHUNK <= file.size
    BY <1>8 DEF Body
  <2>3. snd.i - 1 <= Full
    BY <1>1, <1>3, <2>2, Chunks
  <2> QED BY <1>2, <2>1, <2>3
<1>9. Past => snd.i > 1
  BY <1>2 DEF Past
<1> QED BY <1>1, <1>2, <1>6, <1>7, <1>8, <1>9

LEMMA InitSender == Init => SenderInv
BY DEF Init, SenderInv

LEMMA SenderStep ==
    ASSUME TypeInv, SenderInv, [Next]_vars
    PROVE  SenderInv'
<1>1. CASE SOpen
  <2>1. snd' = [snd EXCEPT !.pc = IF file.size = -1 THEN "failed" ELSE "read"]
        /\ file' = file
    BY <1>1 DEF SOpen
  <2>2. snd'.i = 1 /\ snd'.off = 0 /\ snd'.reply = file.garbage
    BY <1>1, <2>1 DEF SOpen, SenderInv, TypeInv, Sending
  <2>3. snd'.pc = IF file.size = -1 THEN "failed" ELSE "read"
    BY <2>1 DEF TypeInv, Sending
  <2>4. CASE file.size = -1
    BY <2>1, <2>3, <2>4 DEF SenderInv
  <2>5. CASE file.size # -1
    <3>1. file.size \in Nat
      BY <2>5, Fields
    <3>2. Body' /\ snd'.reply = Former'
      BY <2>1, <2>2, <3>1, Constants DEF Body, Former
    <3> QED BY <2>1, <2>3, <2>5, <3>2 DEF SenderInv
  <2> QED BY <2>4, <2>5
<1>2. CASE SReadChunk
  <2>1. snd' = [snd EXCEPT !.pc = "test",
                           !.packet = Packet("FILEPKT", ToShort(snd.i), snd.off),
                           !.off = snd.off + CHUNK]
        /\ file' = file
    BY <1>2 DEF SReadChunk
  <2>2. /\ snd'.pc = "test" /\ snd'.i = snd.i /\ snd'.off = snd.off + CHUNK
        /\ snd'.packet = Packet("FILEPKT", ToShort(snd.i), snd.off)
    BY <2>1 DEF TypeInv, Sending
  <2>3. file.size \in Nat /\ Body
    BY <1>2, Reading DEF SReadChunk
  <2>4. snd.off + CHUNK <= file.size /\ snd.i * CHUNK = snd.off + CHUNK
        /\ snd.off = (snd.i - 1) * CHUNK
    <3>1. snd.i - 1 \in Int /\ snd.i - 1 + 1 = snd.i
      BY Fields
    <3>2. snd.i * CHUNK = (snd.i - 1) * CHUNK + CHUNK
      BY <3>1, Step
    <3> QED BY <1>2, <2>3, <3>2, Fields, Constants DEF SReadChunk, Body
  <2>5. InFile'
    BY <2>1, <2>2, <2>4 DEF InFile
  <2> QED BY <2>1, <2>2, <2>3, <2>5 DEF SenderInv
<1>3. CASE SReadRest
  <2>1. snd' = [snd EXCEPT !.pc = "test",
                           !.packet = Packet("LASTPKT", file.size - snd.off, snd.off),
                           !.off = file.size]
        /\ file' = file
    BY <1>3 DEF SReadRest
  <2>2. /\ snd'.pc = "test" /\ snd'.i = snd.i /\ snd'.off = file.size
        /\ snd'.packet = Packet("LASTPKT", file.size - snd.off, snd.off)
    BY <2>1 DEF TypeInv, Sending
  <2>3. file.size \in Nat /\ Full \in Nat /\ Rest \in Nat
    BY <1>3, Reading DEF SReadRest
  <2>4. Body
    <3>1. Body \/ Past
      BY <1>3 DEF SReadRest, SenderInv
    <3>2. ~Past
      <4>1. snd.pc = "read" /\ (file.size - snd.off > 0 \/ snd.i = 1)
        BY <1>3 DEF SReadRest
      <4>2. Past => snd.i > 1 /\ file.size - snd.off = 0
        BY <2>3, <4>1, Reading DEF Past
      <4> QED BY <4>1, <4>2
    <3> QED BY <3>1, <3>2
  <2>5. snd.i = Full + 1 /\ file.size - snd.off = Rest
    BY <1>3, <2>4, Reading DEF SReadRest
  <2>6. snd.off = file.size - Rest
    BY <2>3, <2>5, Fields
  <2>7. Rest > 0 \/ Full = 0
    BY <1>3, <2>3, <2>5 DEF SReadRest
  <2>8. InLast'
    BY <2>1, <2>2, <2>5, <2>6, <2>7 DEF InLast, Full, Rest
  <2> QED BY <2>1, <2>2, <2>3, <2>8 DEF SenderInv
<1>4. CASE SReadEnd
  <2>1. snd' = [snd EXCEPT !.pc = "returned"] /\ file' = file
        /\ snd.pc = "read" /\ file.size = snd.off /\ snd.i > 1
    BY <1>4 DEF SReadEnd
  <2>2. snd'.pc = "returned" /\ snd'.i = snd.i /\ snd'.off = snd.off
    BY <2>1 DEF TypeInv, Sending
  <2>3. Past \/ (Full > 0 /\ Rest = 0)
    <3>1. file.size \in Nat /\ file.size - snd.off = 0 /\ CHUNK > 0
      BY <2>1, Reading, Constants
    <3>2. Body => snd.i = Full + 1 /\ Rest = 0
      BY <2>1, <3>1, Reading
    <3>3. Body \/ Past
      BY <2>1 DEF SenderInv
    <3>4. Full \in Nat
      BY <2>1, Reading
    <3> QED BY <2>1, <3>2, <3>3, <3>4
  <2>4. (Past \/ (Full > 0 /\ Rest = 0))'
    BY <2>1, <2>2, <2>3 DEF Past, Full, Rest
  <2>5. file.size # -1
    BY <2>1 DEF SenderInv
  <2> QED BY <2>1, <2>2, <2>4, <2>5 DEF SenderInv
<1>5. CASE SSend
  <2>1. snd' = [snd EXCEPT !.pc = "wait"] /\ file' = file /\ snd.pc = "test"
    BY <1>5 DEF SSend
  <2>2. /\ snd'.pc = "wait" /\ snd'.i = snd.i /\ snd'.off = snd.off
        /\ snd'.packet = snd.packet
    BY <2>1 DEF TypeInv, Sending
  <2>3. InFile' \/ InLast'
    BY <2>1, <2>2 DEF SenderInv, InFile, InLast, Full, Rest
  <2> QED BY <2>1, <2>2, <2>3 DEF SenderInv
<1>6. CASE SWait
  <2>1. snd' = [snd EXCEPT !.pc = "test", !.reply = Head(toSnd)] /\ file' = file
        /\ snd.pc = "wait"
    BY <1>6 DEF SWait
  <2>2. /\ snd'.pc = "test" /\ snd'.i = snd.i /\ snd'.off = snd.off
        /\ snd'.packet = snd.packet
    BY <2>1 DEF TypeInv, Sending
  <2>3. InFile' \/ InLast'
    BY <2>1, <2>2 DEF SenderInv, InFile, InLast, Full, Rest
  <2> QED BY <2>1, <2>2, <2>3 DEF SenderInv
<1>7. CASE SAccept
  <2>1. snd' = [snd EXCEPT !.pc = "read", !.i = snd.i + 1] /\ file' = file
        /\ snd.pc = "test" /\ snd.reply = snd.packet.seq
    BY <1>7 DEF SAccept
  <2>2. /\ snd'.pc = "read" /\ snd'.i = snd.i + 1 /\ snd'.off = snd.off
        /\ snd'.reply = snd.packet.seq
    BY <2>1 DEF TypeInv, Sending
  <2>3. snd.i \in Nat /\ snd.i > 0 /\ file.size \in Nat /\ snd.i + 1 - 1 = snd.i
    BY <2>1, Fields DEF SenderInv
  <2>4. Full \in Nat /\ Rest \in Nat /\ Rest < CHUNK
    BY <2>3, Division
  <2>5. CASE InFile
    <3>1. Body'
      BY <2>1, <2>2, <2>3, <2>5 DEF InFile, Body
    <3>2. ~Past'
      <4>1. snd.i <= Full
        BY <2>3, <2>5, Chunks DEF InFile
      <4>2. snd'.i # Full + 2
        BY <2>2, <2>3, <2>4, <4>1
      <4> QED BY <2>1, <4>2 DEF Past, Full
    <3>3. snd'.reply = ToShort(snd'.i - 1) /\ snd'.i # 1
      BY <2>2, <2>3, <2>5 DEF InFile, Packet
    <3>4. snd'.reply = Former'
      BY <3>2, <3>3 DEF Former
    <3> QED BY <2>1, <2>2, <2>3, <3>1, <3>4 DEF SenderInv
  <2>6. CASE InLast
    <3>1. Past'
      BY <2>1, <2>2, <2>4, <2>6 DEF InLast, Past, Full, Rest
    <3>2. snd'.reply = Rest /\ snd'.i # 1
      BY <2>2, <2>3, <2>6 DEF InLast, Packet
    <3>3. snd'.reply = Former'
      BY <2>1, <3>1, <3>2 DEF Former, Rest
    <3> QED BY <2>1, <2>2, <2>3, <3>1, <3>3 DEF SenderInv
  <2> QED BY <2>1, <2>5, <2>6 DEF SenderInv
<1>8. CASE Receive \/ Lose \/ Duplicate \/ UNCHANGED vars
  BY <1>8, Others DEF Apart, SenderInv, Body, Past, InFile, InLast, Former, Full, Rest
<1> QED BY <1>1, <1>2, <1>3, <1>4, <1>5, <1>6, <1>7, <1>8 DEF Next, Sender

-----------------------------------------------------------------------------
(* The stranded receiver *)

LEMMA SameFile ==
    ASSUME [Next]_vars
    PROVE  /\ file' = file /\ Full' = Full /\ Rest' = Rest
           /\ Strands' <=> Strands
           /\ SkipsFirst' <=> SkipsFirst
<1>1. file' = file
  BY DEF Next, Sender, SOpen, SReadChunk, SReadRest, SReadEnd, SSend, SWait, SAccept,
         Receive, Take, Lose, Duplicate, vars
<1> QED BY <1>1 DEF Full, Rest, Strands, SkipsFirst, FirstSeq

(* The test of a LASTPKT that is not to leave is passed at once.            *)
LEMMA NoLast ==
    ASSUME TypeInv, SenderInv, Strands, SReadRest
    PROVE  snd.reply = file.size - snd.off
<1>1. snd.pc = "read" /\ file.size - snd.off < CHUNK
      /\ (file.size - snd.off > 0 \/ snd.i = 1)
  BY DEF SReadRest
<1>2. file.size \in Nat /\ Full \in Nat /\ Rest \in Nat /\ (Past => ~Body)
  BY <1>1, Reading
<1>3. Body
  <2>1. Body \/ Past
    BY <1>1 DEF SenderInv
  <2>2. Past => file.size - snd.off = 0 /\ snd.i > 1
    BY <1>1, <1>2, Reading DEF Past
  <2> QED BY <1>1, <2>1, <2>2
<1>4. snd.i = Full + 1 /\ file.size - snd.off = Rest
  BY <1>1, <1>3, Reading
<1>5. snd.reply = Former /\ ~Past
  BY <1>1, <1>2, <1>3 DEF SenderInv
<1>6. CASE Full = 0
  BY <1>2, <1>4, <1>5, <1>6 DEF Strands, SkipsFirst, FirstSeq, Former
<1>7. CASE Full > 0
  <2>1. Rest = ToShort(Full)
    BY <1>1, <1>2, <1>4, <1>7 DEF Strands
  <2>2. snd.i # 1 /\ snd.i - 1 = Full
    BY <1>2, <1>4, <1>7
  <2> QED BY <1>4, <1>5, <2>1, <2>2 DEF Former
<1> QED BY <1>2, <1>6, <1>7

LEMMA StrandStep ==
    ASSUME TypeInv, SenderInv, StrandInv, [Next]_vars
    PROVE  StrandInv'
<1> SUFFICES ASSUME Strands
             PROVE  /\ rcv'.pc = "recv"
                    /\ \A k \in DOMAIN toRcv' : toRcv'[k].op = "FILEPKT"
                    /\ snd'.pc = "wait" => snd'.packet.op = "FILEPKT"
                    /\ snd'.pc = "test" => \/ snd'.packet.op = "FILEPKT"
                                           \/ snd'.reply = snd'.packet.seq
  BY SameFile DEF StrandInv
<1>0. /\ rcv.pc = "recv"
      /\ \A k \in DOMAIN toRcv : toRcv[k].op = "FILEPKT"
      /\ snd.pc = "wait" => snd.packet.op = "FILEPKT"
      /\ snd.pc = "test" => snd.packet.op = "FILEPKT" \/ snd.reply = snd.packet.seq
  BY DEF StrandInv
<1>a. toRcv \in Seq(FilePackets) /\ snd \in Sending
  BY DEF TypeInv
<1>1. CASE SOpen \/ SReadEnd \/ SAccept
  BY <1>0, <1>1, <1>a DEF SOpen, SReadEnd, SAccept, network, Sending
<1>2. CASE SReadChunk
  BY <1>0, <1>2, <1>a DEF SReadChunk, network, Sending, Packet
<1>3. CASE SReadRest
  <2>1. snd.reply = file.size - snd.off
    BY <1>3, NoLast
  <2>2. snd' = [snd EXCEPT !.pc = "test",
                           !.packet = Packet("LASTPKT", file.size - snd.off, snd.off),
                           !.off = file.size]
    BY <1>3 DEF SReadRest
  <2>3. snd'.pc = "test" /\ snd'.reply = snd'.packet.seq
    BY <1>a, <2>1, <2>2 DEF Sending, Packet
  <2> QED BY <1>0, <1>3, <2>3 DEF SReadRest, network
<1>4. CASE SSend
  <2>1. snd.packet.op = "FILEPKT"
    BY <1>0, <1>4 DEF SSend
  <2>2. toRcv' = Append(toRcv, snd.packet) /\ rcv' = rcv
    BY <1>4 DEF SSend
  <2>3. \A k \in DOMAIN toRcv' : toRcv'[k].op = "FILEPKT"
    BY <1>0, <1>a, <2>1, <2>2
  <2> QED BY <1>0, <1>4, <1>a, <2>1, <2>3 DEF SSend, Sending
<1>5. CASE SWait
  BY <1>0, <1>5, <1>a DEF SWait, Sending
<1>6. CASE Receive
  <2>1. toRcv # <<>> /\ Head(toRcv) = toRcv[1] /\ 1 \in DOMAIN toRcv
    BY <1>6, <1>a DEF Receive, Take
  <2>2. Head(toRcv).op = "FILEPKT"
    BY <1>0, <2>1
  <2>3. rcv'.pc = "recv" /\ toRcv' = Tail(toRcv) /\ snd' = snd
    BY <1>6, <2>2 DEF Receive, Take, IsLast
  <2>4. \A k \in DOMAIN toRcv' : toRcv'[k].op = "FILEPKT"
    BY <1>0, <1>a, <2>1, <2>3
  <2> QED BY <1>0, <2>3, <2>4
<1>7. CASE Lose
  <2>1. rcv' = rcv /\ snd' = snd
    BY <1>7 DEF Lose
  <2>2. \/ toRcv' = toRcv
        \/ \E k \in DOMAIN toRcv : toRcv' = Without(toRcv, k)
    BY <1>7 DEF Lose
  <2>3. \A k \in DOMAIN toRcv' : toRcv'[k].op = "FILEPKT"
    BY SMTT(30), <1>0, <1>a, <2>2, Fewer
  <2> QED BY <1>0, <2>1, <2>3
<1>8. CASE Duplicate
  <2>1. rcv' = rcv /\ snd' = snd
    BY <1>8 DEF Duplicate
  <2>2. \/ toRcv' = toRcv
        \/ \E k \in DOMAIN toRcv : toRcv' = Append(toRcv, toRcv[k])
    BY <1>8 DEF Duplicate
  <2>3. \A k \in DOMAIN toRcv' : toRcv'[k].op = "FILEPKT"
    <3>1. ASSUME NEW k \in DOMAIN toRcv, toRcv' = Append(toRcv, toRcv[k]),
                 NEW j \in DOMAIN toRcv'
          PROVE  toRcv'[j].op = "FILEPKT"
      BY <1>0, <1>a, <3>1, More
    <3> QED BY <1>0, <2>2, <3>1
  <2> QED BY <1>0, <2>1, <2>3
<1>9. CASE UNCHANGED vars
  BY <1>0, <1>9 DEF vars
<1> QED BY <1>1, <1>2, <1>3, <1>4, <1>5, <1>6, <1>7, <1>8, <1>9 DEF Next, Sender

-----------------------------------------------------------------------------
(* One datagram at a time *)

LEMMA OrderStep ==
    ASSUME TypeInv, OrderInv, [Next]_vars
    PROVE  OrderInv'
<1> SUFFICES ASSUME dup' = 0 PROVE OrderInv'
  BY DEF OrderInv
<1>a. snd \in Sending /\ toRcv \in Seq(FilePackets) /\ toSnd \in Seq(Shorts)
      /\ dup \in Nat
  BY DEF TypeInv
<1>b. dup = 0
  BY <1>a DEF Next, Sender, SOpen, SReadChunk, SReadRest, SReadEnd, SSend, SWait,
         SAccept, Receive, Take, Lose, Duplicate, vars, network
<1>0. \/ toRcv = <<>> /\ toSnd = <<>>
      \/ snd.pc = "wait" /\ toRcv = <<snd.packet>> /\ toSnd = <<>>
      \/ snd.pc = "wait" /\ toRcv = <<>> /\ toSnd = <<snd.packet.seq>>
  BY <1>b DEF OrderInv
<1>1. CASE SOpen \/ SReadChunk \/ SReadRest \/ SReadEnd \/ SAccept
  <2>1. snd.pc # "wait" /\ toRcv' = toRcv /\ toSnd' = toSnd
    BY <1>1 DEF SOpen, SReadChunk, SReadRest, SReadEnd, SAccept, network
  <2> QED BY <1>0, <2>1 DEF OrderInv
<1>2. CASE SSend
  <2>1. snd.pc = "test" /\ toRcv' = Append(toRcv, snd.packet) /\ toSnd' = toSnd
        /\ snd' = [snd EXCEPT !.pc = "wait"]
    BY <1>2 DEF SSend
  <2>2. toRcv = <<>> /\ toSnd = <<>>
    BY <1>0, <2>1
  <2>3. snd'.pc = "wait" /\ snd'.packet = snd.packet
    BY <1>a, <2>1 DEF Sending
  <2>4. toRcv' = <<snd'.packet>>
    BY <2>1, <2>2, <2>3
  <2> QED BY <2>1, <2>2, <2>3, <2>4 DEF OrderInv
<1>3. CASE SWait
  <2>1. toSnd # <<>> /\ toSnd' = Tail(toSnd) /\ toRcv' = toRcv
    BY <1>3 DEF SWait
  <2>2. toRcv = <<>> /\ toSnd = <<snd.packet.seq>>
    BY <1>0, <2>1
  <2>3. toSnd' = <<>>
    BY <2>1, <2>2
  <2> QED BY <2>1, <2>2, <2>3 DEF OrderInv
<1>4. CASE Receive
  <2>1. toRcv # <<>> /\ toRcv' = Tail(toRcv) /\ snd' = snd
        /\ toSnd' = Append(toSnd, Head(toRcv).seq)
    BY <1>4 DEF Receive, Take, Ack
  <2>2. snd.pc = "wait" /\ toRcv = <<snd.packet>> /\ toSnd = <<>>
    BY <1>0, <2>1
  <2>3. toRcv' = <<>> /\ toSnd' = <<snd.packet.seq>>
    BY <2>1, <2>2
  <2> QED BY <2>1, <2>2, <2>3 DEF OrderInv
<1>5. CASE Lose
  <2>1. snd' = snd
    BY <1>5 DEF Lose
  <2>2. ASSUME NEW k \in DOMAIN toRcv, toRcv' = Without(toRcv, k), toSnd' = toSnd
        PROVE  OrderInv'
    <3>1. toRcv # <<>> /\ Len(toRcv) \in Nat
      BY <1>a, <2>2
    <3>2. Len(toRcv) = 1 /\ toSnd = <<>>
      BY <1>0, <3>1
    <3>3. toRcv' \in Seq(FilePackets) /\ Len(toRcv') = 0
      BY <1>a, <2>2, <3>2, Fewer
    <3>4. toRcv' = <<>>
      BY <3>3
    <3> QED BY <2>2, <3>2, <3>4 DEF OrderInv
  <2>3. ASSUME NEW k \in DOMAIN toSnd, toSnd' = Without(toSnd, k), toRcv' = toRcv
        PROVE  OrderInv'
    <3>1. toSnd # <<>> /\ Len(toSnd) \in Nat
      BY <1>a, <2>3
    <3>2. Len(toSnd) = 1 /\ toRcv = <<>>
      BY <1>0, <3>1
    <3>3. toSnd' \in Seq(Shorts) /\ Len(toSnd') = 0
      BY <1>a, <2>3, <3>2, Fewer
    <3>4. toSnd' = <<>>
      BY <3>3
    <3> QED BY <2>3, <3>2, <3>4 DEF OrderInv
  <2> QED BY <1>5, <2>2, <2>3 DEF Lose
<1>6. CASE Duplicate
  BY <1>6, <1>a, <1>b DEF Duplicate
<1>7. CASE UNCHANGED vars
  BY <1>7 DEF vars, OrderInv
<1> QED BY <1>1, <1>2, <1>3, <1>4, <1>5, <1>6, <1>7 DEF Next, Sender

-----------------------------------------------------------------------------
(* The destination *)

LEMMA Extend ==
    ASSUME NEW d, NEW p \in Nat, NEW n \in Nat, Prefix(d, p)
    PROVE  Prefix(Write(d, p, n, p), p + n)
<1> DEFINE w == Write(d, p, n, p)
<1>1. DOMAIN w = DOMAIN d \cup p .. p + n - 1
  BY DEF Write
<1>2. \A j \in DOMAIN w : w[j] = IF j \in p .. p + n - 1 THEN p + (j - p) ELSE d[j]
  BY DEF Write
<1> HIDE DEF w
<1>3. \A j \in p .. p + n - 1 : w[j] = j
  BY <1>1, <1>2
<1>4. \A j \in 0 .. p - 1 : j \in DOMAIN w /\ w[j] = j
  BY <1>1, <1>2 DEF Prefix
<1>5. \A j \in 0 .. p + n - 1 : j \in 0 .. p - 1 \/ j \in p .. p + n - 1
  OBVIOUS
<1>6. ASSUME NEW j \in DOMAIN w
      PROVE  j \in 0 .. p + n - 1 \/ (j < file.old /\ w[j] = OldByte)
  <2>1. CASE j \in p .. p + n - 1
    BY <2>1
  <2>2. CASE j \notin p .. p + n - 1
    <3>1. j \in DOMAIN d /\ w[j] = d[j]
      BY <1>1, <1>2, <2>2
    <3> QED BY <3>1 DEF Prefix
  <2> QED BY <2>1, <2>2
<1>7. DOMAIN w \subseteq Nat
  BY <1>1 DEF Prefix
<1>8. 0 .. p + n - 1 \subseteq DOMAIN w /\ \A j \in 0 .. p + n - 1 : w[j] = j
  BY <1>1, <1>3, <1>4, <1>5
<1> QED BY <1>6, <1>7, <1>8 DEF Prefix, w

(* The place for packet i is where the packet comes from.                   *)
Places ==
    /\ Prefix(disk, rcv.pos)
    /\ rcv.pc = "returned" => rcv.pos = file.size
    /\ snd.pc = "open" => rcv.pos = 0
    /\ snd.pc = "read" /\ Body => rcv.pos = snd.off
    /\ snd.pc = "test" /\ snd.reply # snd.packet.seq => rcv.pos = snd.packet.data
    /\ snd.pc = "test" /\ InFile /\ snd.reply = snd.packet.seq => rcv.pos = snd.off
    /\ toRcv # <<>> => rcv.pos = snd.packet.data
    /\ toSnd # <<>> /\ InFile => rcv.pos = snd.off

(* A packet of the file that leaves the loop at once would be the first.    *)
LEMMA FreshReply ==
    ASSUME TypeInv, SenderInv, snd.pc = "read", Body, ~SkipsFirst,
           file.size - snd.off >= CHUNK
    PROVE  snd.reply # ToShort(snd.i)
<1>1. file.size \in Nat /\ Full \in Nat /\ (Past => ~Body) /\ snd.i \in Nat
  BY Reading, Fields
<1>2. snd.reply = Former /\ ~Past
  BY <1>1 DEF SenderInv
<1>3. CASE snd.i = 1
  <2>1. snd.off = 0
    BY <1>3, Constants DEF Body
  <2>2. 0 \in Nat /\ 0 * CHUNK = 0 /\ file.size - 0 * CHUNK >= CHUNK
    BY <1>1, <2>1, Constants
  <2>3. Full > 0
    BY <1>1, <2>2, Chunks
  <2> QED BY <1>1, <1>2, <1>3, <2>3 DEF Former, SkipsFirst, FirstSeq
<1>4. CASE snd.i # 1
  <2>1. snd.reply = ToShort(snd.i - 1)
    BY <1>2, <1>4 DEF Former
  <2>2. snd.i - 1 \in Int /\ snd.i - 1 + 1 = snd.i
    BY <1>1
  <2> QED BY <2>1, <2>2, CastNext
<1> QED BY <1>3, <1>4

LEMMA PlaceStep ==
    ASSUME TypeInv, SenderInv, OrderInv, PlaceInv, [Next]_vars,
           OrderInv'
    PROVE  PlaceInv'
<1> SUFFICES ASSUME dup' = 0, file.opens, ~SkipsFirst PROVE Places'
  BY SameFile DEF PlaceInv, Places
<1>a. snd \in Sending /\ toRcv \in Seq(FilePackets) /\ toSnd \in Seq(Shorts)
      /\ dup \in Nat
  BY DEF TypeInv
<1>b. dup = 0
  BY <1>a DEF Next, Sender, SOpen, SReadChunk, SReadRest, SReadEnd, SSend, SWait,
         SAccept, Receive, Take, Lose, Duplicate, vars, network
<1>c. \/ toRcv = <<>> /\ toSnd = <<>>
      \/ snd.pc = "wait" /\ toRcv = <<snd.packet>> /\ toSnd = <<>>
      \/ snd.pc = "wait" /\ toRcv = <<>> /\ toSnd = <<snd.packet.seq>>
  BY <1>b DEF OrderInv
<1>0. Places
  BY <1>b DEF PlaceInv, Places
<1>f. file' = file
  BY SameFile
<1>q. snd.pc # "wait" => toRcv = <<>> /\ toSnd = <<>>
  BY <1>c
<1>1. CASE SOpen
  <2>1. /\ snd.pc = "open" /\ rcv' = rcv /\ disk' = disk
        /\ toRcv' = toRcv /\ toSnd' = toSnd
        /\ snd' = [snd EXCEPT !.pc = IF file.size = -1 THEN "failed" ELSE "read"]
    BY <1>1 DEF SOpen, network
  <2>2. snd'.pc \in {"failed", "read"} /\ snd'.off = snd.off
    BY <1>a, <2>1 DEF Sending
  <2>3. rcv.pos = 0 /\ snd.off = 0
    BY <1>0, <2>1 DEF Places, SenderInv
  <2>4. Prefix(disk, rcv.pos) /\ (rcv.pc = "returned" => rcv.pos = file.size)
    BY <1>0 DEF Places
  <2> QED BY <1>f, <1>q, <2>1, <2>2, <2>3, <2>4 DEF Places, Prefix
<1>2. CASE SReadChunk
  <2>1. /\ snd.pc = "read" /\ rcv' = rcv /\ disk' = disk
        /\ toRcv' = toRcv /\ toSnd' = toSnd /\ file.size - snd.off >= CHUNK
        /\ snd' = [snd EXCEPT !.pc = "test",
                              !.packet = Packet("FILEPKT", ToShort(snd.i), snd.off),
                              !.off = snd.off + CHUNK]
    BY <1>2 DEF SReadChunk, network
  <2>2. /\ snd'.pc = "test" /\ snd'.reply = snd.reply
        /\ snd'.packet = Packet("FILEPKT", ToShort(snd.i), snd.off)
    BY <1>a, <2>1 DEF Sending
  <2>3. Body
    BY <2>1, Reading
  <2>4. snd'.reply # snd'.packet.seq /\ snd'.packet.data = snd.off
    BY <2>1, <2>2, <2>3, FreshReply DEF Packet
  <2>5. rcv.pos = snd.off /\ Prefix(disk, rcv.pos)
        /\ (rcv.pc = "returned" => rcv.pos = file.size)
    BY <1>0, <2>1, <2>3 DEF Places
  <2> QED BY <1>f, <1>q, <2>1, <2>2, <2>4, <2>5 DEF Places, Prefix
<1>3. CASE SReadRest
  <2>1. /\ snd.pc = "read" /\ rcv' = rcv /\ disk' = disk
        /\ toRcv' = toRcv /\ toSnd' = toSnd /\ file.size - snd.off < CHUNK
        /\ (file.size - snd.off > 0 \/ snd.i = 1)
        /\ snd' = [snd EXCEPT !.pc = "test",
                              !.packet = Packet("LASTPKT", file.size - snd.off, snd.off),
                              !.off = file.size]
    BY <1>3 DEF SReadRest, network
  <2>2. /\ snd'.pc = "test"
        /\ snd'.packet = Packet("LASTPKT", file.size - snd.off, snd.off)
    BY <1>a, <2>1 DEF Sending
  <2>3. Body
    <3>1. Body \/ Past
      BY <2>1 DEF SenderInv
    <3>2. Past => snd.i > 1 /\ file.size - snd.off = 0
      BY <2>1, Reading DEF Past
    <3> QED BY <2>1, <3>1, <3>2
  <2>4. ~InFile' /\ snd'.packet.data = snd.off
    BY <2>2 DEF InFile, Packet
  <2>5. rcv.pos = snd.off /\ Prefix(disk, rcv.pos)
        /\ (rcv.pc = "returned" => rcv.pos = file.size)
    BY <1>0, <2>1, <2>3 DEF Places
  <2> QED BY <1>f, <1>q, <2>1, <2>2, <2>4, <2>5 DEF Places, Prefix
<1>4. CASE SReadEnd
  <2>1. /\ snd.pc = "read" /\ rcv' = rcv /\ disk' = disk
        /\ toRcv' = toRcv /\ toSnd' = toSnd
        /\ snd' = [snd EXCEPT !.pc = "returned"]
    BY <1>4 DEF SReadEnd, network
  <2>2. snd'.pc = "returned"
    BY <1>a, <2>1 DEF Sending
  <2>3. Prefix(disk, rcv.pos) /\ (rcv.pc = "returned" => rcv.pos = file.size)
    BY <1>0 DEF Places
  <2> QED BY <1>f, <1>q, <2>1, <2>2, <2>3 DEF Places, Prefix
<1>5. CASE SSend
  <2>1. /\ snd.pc = "test" /\ snd.reply # snd.packet.seq
        /\ rcv' = rcv /\ disk' = disk /\ toSnd' = toSnd
        /\ snd' = [snd EXCEPT !.pc = "wait"]
    BY <1>5 DEF SSend
  <2>2. snd'.pc = "wait" /\ snd'.packet = snd.packet
    BY <1>a, <2>1 DEF Sending
  <2>3. toSnd' = <<>>
    BY <1>q, <2>1
  <2>4. rcv.pos = snd.packet.data /\ Prefix(disk, rcv.pos)
        /\ (rcv.pc = "returned" => rcv.pos = file.size)
    BY <1>0, <2>1 DEF Places
  <2> QED BY <1>f, <2>1, <2>2, <2>3, <2>4 DEF Places, Prefix
<1>6. CASE SWait
  <2>1. /\ toSnd # <<>> /\ toSnd' = Tail(toSnd) /\ toRcv' = toRcv
        /\ rcv' = rcv /\ disk' = disk
        /\ snd' = [snd EXCEPT !.pc = "test", !.reply = Head(toSnd)]
    BY <1>6 DEF SWait
  <2>2. toRcv = <<>> /\ toSnd = <<snd.packet.seq>>
    BY <1>c, <2>1
  <2>3. toSnd' = <<>> /\ Head(toSnd) = snd.packet.seq
    BY <2>1, <2>2
  <2>4. /\ snd'.pc = "test" /\ snd'.packet = snd.packet /\ snd'.i = snd.i
        /\ snd'.off = snd.off /\ snd'.reply = snd.packet.seq
    BY <1>a, <2>1, <2>3 DEF Sending
  <2>5. InFile' <=> InFile
    BY <1>f, <2>4 DEF InFile
  <2>6. (InFile => rcv.pos = snd.off) /\ Prefix(disk, rcv.pos)
        /\ (rcv.pc = "returned" => rcv.pos = file.size)
    BY <1>0, <2>1 DEF Places
  <2> QED BY <1>f, <2>1, <2>2, <2>3, <2>4, <2>5, <2>6 DEF Places, Prefix
<1>7. CASE SAccept
  <2>1. /\ snd.pc = "test" /\ snd.reply = snd.packet.seq
        /\ rcv' = rcv /\ disk' = disk /\ toRcv' = toRcv /\ toSnd' = toSnd
        /\ snd' = [snd EXCEPT !.pc = "read", !.i = snd.i + 1]
    BY <1>7 DEF SAccept, network
  <2>2. snd'.pc = "read" /\ snd'.i = snd.i + 1 /\ snd'.off = snd.off
    BY <1>a, <2>1 DEF Sending
  <2>3. Body' => rcv.pos = snd.off
    <3>1. CASE InFile
      BY <1>0, <2>1, <3>1 DEF Places
    <3>2. CASE InLast
      <4>1. snd.i = Full + 1 /\ file.size \in Nat /\ snd.i \in Nat
        BY <2>1, <3>2, Fields DEF InLast, SenderInv
      <4>2. Full \in Nat /\ Rest \in Nat
        BY <4>1, Division
      <4>3. Body' => (snd.i + 1 - 1) * CHUNK <= file.size
        <5>1. Body' => snd'.off = (snd'.i - 1) * CHUNK /\ snd'.off <= file.size
          BY <1>f DEF Body
        <5>2. (snd'.i - 1) * CHUNK = (snd.i + 1 - 1) * CHUNK
          BY <2>2, Fields, Constants
        <5> QED BY <5>1, <5>2
      <4>4. snd.i + 1 - 1 = snd.i /\ ~(snd.i <= Full)
        BY <4>1, <4>2
      <4>5. ~(snd.i * CHUNK <= file.size)
        BY <4>1, <4>4, Chunks
      <4> QED BY <4>3, <4>4, <4>5
    <3> QED BY <2>1, <3>1, <3>2 DEF SenderInv
  <2>4. Prefix(disk, rcv.pos) /\ (rcv.pc = "returned" => rcv.pos = file.size)
    BY <1>0 DEF Places
  <2> QED BY <1>f, <1>q, <2>1, <2>2, <2>3, <2>4 DEF Places, Prefix
<1>8. CASE Receive
  <2> DEFINE p == Head(toRcv)
  <2>1. toRcv # <<>> /\ toRcv' = Tail(toRcv) /\ snd' = snd
    BY <1>8 DEF Receive, Take
  <2>2. snd.pc = "wait" /\ toRcv = <<snd.packet>> /\ toSnd = <<>>
    BY <1>c, <2>1
  <2>3. p = snd.packet /\ toRcv' = <<>>
    BY <2>1, <2>2
  <2> HIDE DEF p
  <2>4. rcv.pos = snd.packet.data /\ Prefix(disk, rcv.pos) /\ rcv.pos \in Nat
    BY <1>0, <2>1, Fields DEF Places
  <2>5. /\ disk' = Write(disk, rcv.pos, Length(p), rcv.pos)
        /\ rcv' = [pc |-> IF IsLast(p) THEN "returned" ELSE "recv",
                   pos |-> rcv.pos + Length(p)]
    BY <1>8, <2>3, <2>4 DEF Receive, Take, p
  <2>6. file.size \in Nat
    BY <2>2, Fields DEF SenderInv
  <2>7. Full \in Nat /\ Rest \in Nat
    BY <2>6, Division
  <2>8. InFile \/ InLast
    BY <2>2 DEF SenderInv
  <2>9. CASE InFile
    <3>1. Length(p) = CHUNK /\ ~IsLast(p)
      BY <2>3, <2>9 DEF InFile, Packet, Length, IsLast
    <3>2. Prefix(disk', rcv.pos + CHUNK)
      BY <2>4, <2>5, <3>1, Extend, Constants
    <3>3. rcv'.pc = "recv" /\ rcv'.pos = rcv.pos + CHUNK
      BY <2>5, <3>1
    <3>4. rcv.pos + CHUNK = snd.off
      <4>1. snd.i - 1 \in Int /\ snd.i - 1 + 1 = snd.i
        BY Fields
      <4>2. (snd.i - 1) * CHUNK + CHUNK = snd.i * CHUNK
        BY <4>1, Step
      <4> QED BY <2>4, <2>9, <4>2 DEF InFile, Packet
    <3> QED BY <1>f, <2>1, <2>2, <2>3, <3>2, <3>3, <3>4 DEF Places, Prefix
  <2>10. CASE InLast
    <3>1. Length(p) = Rest /\ IsLast(p)
      BY <2>3, <2>10 DEF InLast, Packet, Length, IsLast
    <3>2. Prefix(disk', rcv.pos + Rest)
      BY <2>4, <2>5, <2>7, <3>1, Extend
    <3>3. rcv.pos = file.size - Rest
      BY <2>4, <2>10 DEF InLast, Packet
    <3>4. rcv'.pc = "returned" /\ rcv'.pos = file.size
      BY <2>5, <2>6, <2>7, <3>1, <3>3
    <3>5. ~InFile'
      BY <1>f, <2>1, <2>10 DEF InFile, InLast, Packet
    <3>6. rcv.pos + Rest = file.size
      BY <2>6, <2>7, <3>3
    <3> QED BY <1>f, <2>1, <2>2, <2>3, <3>2, <3>4, <3>5, <3>6 DEF Places, Prefix
  <2> QED BY <2>8, <2>9, <2>10
<1>9. CASE Lose
  <2>1. snd' = snd /\ rcv' = rcv /\ disk' = disk
    BY <1>9 DEF Lose
  <2>2. (toRcv' # <<>> => toRcv # <<>>) /\ (toSnd' # <<>> => toSnd # <<>>)
    BY <1>9 DEF Lose
  <2>3. InFile' <=> InFile
    BY <1>f, <2>1 DEF InFile
  <2>4. Body' <=> Body
    BY <1>f, <2>1 DEF Body
  <2> QED BY <1>0, <1>f, <2>1, <2>2, <2>3, <2>4 DEF Places, Prefix
<1>10. CASE Duplicate
  BY <1>10, <1>a, <1>b DEF Duplicate
<1>11. CASE UNCHANGED vars
  BY <1>0, <1>11 DEF vars, Places, Prefix, InFile, Body
<1> QED BY <1>1, <1>2, <1>3, <1>4, <1>5, <1>6, <1>7, <1>8, <1>9, <1>10, <1>11
       DEF Next, Sender

-----------------------------------------------------------------------------
(* What is in flight, and the last acknowledgement *)

(* What a sender that tests or waits sends is a packet of the file.         *)
LEMMA SentPacket ==
    ASSUME TypeInv, InFile \/ InLast, file.size \in Nat
    PROVE  IsPacket(snd.packet)
<1>1. snd.i \in Nat /\ snd.i > 0
  BY Fields
<1>2. CASE InFile
  <2>1. snd.i <= Full /\ Full \in Nat
    BY <1>1, <1>2, Chunks, Division DEF InFile
  <2>2. snd.i \in 1 .. Full
    BY <1>1, <2>1
  <2> QED BY <1>2, <2>2 DEF InFile, IsPacket
<1>3. CASE InLast
  BY <1>3 DEF InLast, IsPacket
<1> QED BY <1>2, <1>3

LEMMA FlightStep ==
    ASSUME TypeInv, SenderInv, InFlight, [Next]_vars
    PROVE  InFlight'
<1>f. file' = file
  BY SameFile
<1>p. \A p : IsPacket(p)' <=> IsPacket(p)
  BY <1>f DEF IsPacket, Full, Rest
<1> SUFFICES ASSUME file.size # -1, NEW j \in DOMAIN toRcv'
             PROVE  IsPacket(toRcv'[j])
  BY <1>f DEF InFlight, IsPacket, Full, Rest
<1>a. toRcv \in Seq(FilePackets) /\ file.size \in Nat
  BY Fields DEF TypeInv
<1>0. \A k \in DOMAIN toRcv : IsPacket(toRcv[k])
  BY DEF InFlight
<1>1. CASE SSend
  <2>1. IsPacket(snd.packet)
    BY <1>1, <1>a, SentPacket DEF SSend, SenderInv
  <2>2. toRcv' = Append(toRcv, snd.packet)
    BY <1>1 DEF SSend
  <2>3. toRcv'[j] = snd.packet \/ (j \in DOMAIN toRcv /\ toRcv'[j] = toRcv[j])
    BY <1>a, <2>2
  <2> QED BY <1>0, <2>1, <2>3
<1>2. CASE Receive
  <2>1. toRcv # <<>> /\ toRcv' = Tail(toRcv)
    BY <1>2 DEF Receive, Take
  <2>2. j + 1 \in DOMAIN toRcv /\ toRcv'[j] = toRcv[j + 1]
    BY <1>a, <2>1
  <2> QED BY <1>0, <2>2
<1>3. CASE Lose
  <2>1. ASSUME NEW k \in DOMAIN toRcv, toRcv' = Without(toRcv, k)
        PROVE  \E l \in DOMAIN toRcv : toRcv'[j] = toRcv[l]
    BY <1>a, <2>1, Fewer
  <2>2. toRcv' = toRcv \/ \E k \in DOMAIN toRcv : toRcv' = Without(toRcv, k)
    BY <1>3 DEF Lose
  <2>3. \E l \in DOMAIN toRcv : toRcv'[j] = toRcv[l]
    BY <2>1, <2>2
  <2> QED BY <1>0, <2>3
<1>4. CASE Duplicate
  <2>1. ASSUME NEW k \in DOMAIN toRcv, toRcv' = Append(toRcv, toRcv[k])
        PROVE  \E l \in DOMAIN toRcv : toRcv'[j] = toRcv[l]
    BY <1>a, <2>1, More
  <2>2. toRcv' = toRcv \/ \E k \in DOMAIN toRcv : toRcv' = Append(toRcv, toRcv[k])
    BY <1>4 DEF Duplicate
  <2>3. \E l \in DOMAIN toRcv : toRcv'[j] = toRcv[l]
    BY <2>1, <2>2
  <2> QED BY <1>0, <2>3
<1>5. CASE SOpen \/ SReadChunk \/ SReadRest \/ SReadEnd \/ SWait \/ SAccept
           \/ UNCHANGED vars
  <2>1. toRcv' = toRcv
    BY <1>5 DEF SOpen, SReadChunk, SReadRest, SReadEnd, SWait, SAccept, vars, network
  <2> QED BY <1>0, <2>1
<1> QED BY <1>1, <1>2, <1>3, <1>4, <1>5 DEF Next, Sender

(* The Former reply is not the number of a LASTPKT that is to leave.        *)
LEMMA FreshLast ==
    ASSUME TypeInv, SenderInv, ~Strands, SReadRest
    PROVE  /\ snd.reply # file.size - snd.off
           /\ file.size - snd.off = Rest /\ snd.off = file.size - Rest
           /\ Body
<1>1. snd.pc = "read" /\ file.size - snd.off < CHUNK
      /\ (file.size - snd.off > 0 \/ snd.i = 1)
  BY DEF SReadRest
<1>2. file.size \in Nat /\ Full \in Nat /\ Rest \in Nat /\ (Past => ~Body)
  BY <1>1, Reading
<1>3. Body
  <2>1. Body \/ Past
    BY <1>1 DEF SenderInv
  <2>2. Past => file.size - snd.off = 0 /\ snd.i > 1
    BY <1>1, <1>2, Reading DEF Past
  <2> QED BY <1>1, <2>1, <2>2
<1>4. snd.i = Full + 1 /\ file.size - snd.off = Rest
  BY <1>1, <1>3, Reading
<1>5. snd.reply = Former /\ ~Past
  BY <1>1, <1>2, <1>3 DEF SenderInv
<1>6. snd.off = file.size - Rest
  BY <1>2, <1>4, Fields
<1>7. CASE Full = 0
  BY <1>2, <1>3, <1>4, <1>5, <1>6, <1>7 DEF Strands, SkipsFirst, FirstSeq, Former
<1>8. CASE Full > 0
  <2>1. Rest # ToShort(Full)
    BY <1>8 DEF Strands
  <2>2. snd.i # 1 /\ snd.i - 1 = Full
    BY <1>2, <1>4, <1>8
  <2> QED BY <1>3, <1>4, <1>5, <1>6, <2>1, <2>2 DEF Former
<1> QED BY <1>2, <1>7, <1>8

(* A packet that has the number of the LASTPKT is the LASTPKT.              *)
LEMMA LastIsLast ==
    ASSUME DistinctSeqs, NEW p, IsPacket(p), p.seq = Rest
    PROVE  IsLast(p)
BY DEF DistinctSeqs, IsPacket, Packet, IsLast

LEMMA LastStep ==
    ASSUME TypeInv, SenderInv, OrderInv, InFlight, LastInv, [Next]_vars
    PROVE  LastInv'
<1>f. file' = file
  BY SameFile
<1>s. (Strands' <=> Strands) /\ (DistinctSeqs' <=> DistinctSeqs) /\ Rest' = Rest
      /\ Full' = Full
  BY SameFile DEF DistinctSeqs
<1> SUFFICES ASSUME ~Strands PROVE LastInv'
  BY <1>s DEF LastInv
<1>a. snd \in Sending /\ toRcv \in Seq(FilePackets) /\ toSnd \in Seq(Shorts)
      /\ dup \in Nat /\ file.size # -1
  BY DEF TypeInv, Strands
<1>b. dup' = 0 => dup = 0
  BY <1>a DEF Next, Sender, SOpen, SReadChunk, SReadRest, SReadEnd, SSend, SWait,
         SAccept, Receive, Take, Lose, Duplicate, vars, network
<1>c. dup = 0 => \/ toRcv = <<>> /\ toSnd = <<>>
                 \/ snd.pc = "wait" /\ toRcv = <<snd.packet>> /\ toSnd = <<>>
                 \/ snd.pc = "wait" /\ toRcv = <<>> /\ toSnd = <<snd.packet.seq>>
  BY DEF OrderInv
<1>d. DistinctSeqs => \A k \in DOMAIN toSnd : toSnd[k] = Rest => rcv.pc = "returned"
  BY DEF LastInv
<1>e. dup = 0 /\ toSnd # <<>> /\ InLast => rcv.pc = "returned"
  BY DEF LastInv
<1>g. dup = 0 \/ DistinctSeqs =>
        /\ snd.pc = "test" /\ InLast /\ snd.reply = Rest => rcv.pc = "returned"
        /\ snd.pc = "read" /\ Past => rcv.pc = "returned"
        /\ snd.pc = "returned" => rcv.pc = "returned"
  BY DEF LastInv
<1>r. rcv.pc = "returned" => LastInv'
  <2>1. rcv.pc = "returned" => rcv'.pc = "returned"
    BY DEF Next, Sender, SOpen, SReadChunk, SReadRest, SReadEnd, SSend, SWait,
           SAccept, Receive, Take, Lose, Duplicate, vars, network
  <2> QED BY <2>1 DEF LastInv
<1> SUFFICES ASSUME rcv.pc # "returned" PROVE LastInv'
  BY <1>r
<1>1. CASE SOpen
  <2>1. /\ snd.pc = "open" /\ toSnd' = toSnd /\ dup' = dup
        /\ snd' = [snd EXCEPT !.pc = IF file.size = -1 THEN "failed" ELSE "read"]
    BY <1>1 DEF SOpen, network
  <2>2. snd'.pc \in {"failed", "read"} /\ snd'.i = snd.i
    BY <1>a, <2>1 DEF Sending
  <2>3. snd.i = 1 /\ file.size \in Nat
    BY <1>a, <2>1, Fields DEF SenderInv
  <2>4. ~Past'
    <3>1. Full \in Nat
      BY <2>3, Division
    <3> QED BY <1>s, <2>2, <2>3, <3>1 DEF Past
  <2>5. dup = 0 => toSnd = <<>>
    BY <1>c, <2>1
  <2> QED BY <1>b, <1>d, <1>s, <2>1, <2>2, <2>4, <2>5 DEF LastInv
<1>2. CASE SReadChunk
  <2>1. /\ snd.pc = "read" /\ toSnd' = toSnd /\ dup' = dup
        /\ snd' = [snd EXCEPT !.pc = "test",
                              !.packet = Packet("FILEPKT", ToShort(snd.i), snd.off),
                              !.off = snd.off + CHUNK]
    BY <1>2 DEF SReadChunk, network
  <2>2. snd'.pc = "test" /\ snd'.packet.op = "FILEPKT"
    BY <1>a, <2>1 DEF Sending, Packet
  <2>3. ~InLast'
    BY <2>2 DEF InLast, Packet
  <2> QED BY <1>d, <1>s, <2>1, <2>2, <2>3 DEF LastInv
<1>3. CASE SReadRest
  <2>1. /\ snd.pc = "read" /\ toSnd' = toSnd /\ dup' = dup
        /\ snd' = [snd EXCEPT !.pc = "test",
                              !.packet = Packet("LASTPKT", file.size - snd.off, snd.off),
                              !.off = file.size]
    BY <1>3 DEF SReadRest, network
  <2>2. snd'.pc = "test" /\ snd'.reply = snd.reply
    BY <1>a, <2>1 DEF Sending
  <2>3. snd'.reply # Rest
    BY <1>3, <2>2, FreshLast
  <2>4. dup = 0 => toSnd = <<>>
    BY <1>c, <2>1
  <2> QED BY <1>d, <1>s, <2>1, <2>2, <2>3, <2>4 DEF LastInv
<1>4. CASE SReadEnd
  <2>1. /\ snd.pc = "read" /\ toSnd' = toSnd /\ dup' = dup
        /\ file.size = snd.off
        /\ snd' = [snd EXCEPT !.pc = "returned"]
    BY <1>4 DEF SReadEnd, network
  <2>2. snd'.pc = "returned"
    BY <1>a, <2>1 DEF Sending
  <2>3. Past
    <3>1. /\ file.size \in Nat /\ file.size - snd.off = 0
          /\ Full \in Nat
      BY <2>1, Reading
    <3>2. Body => snd.i = Full + 1 /\ Rest = 0
      BY <2>1, <3>1, Reading, Constants
    <3>3. snd.i > 1
      BY <1>4 DEF SReadEnd
    <3>4. Body => Full > 0 /\ Rest = 0
      BY <3>1, <3>2, <3>3
    <3>5. ~Body
      BY <3>4 DEF Strands
    <3> QED BY <2>1, <3>5 DEF SenderInv
  <2>4. ~(dup = 0 \/ DistinctSeqs)
    BY <1>g, <2>1, <2>3
  <2> QED BY <1>b, <1>s, <2>4 DEF LastInv
<1>5. CASE SSend
  <2>1. /\ snd.pc = "test" /\ toSnd' = toSnd /\ dup' = dup
        /\ snd' = [snd EXCEPT !.pc = "wait"]
    BY <1>5 DEF SSend
  <2>2. snd'.pc = "wait"
    BY <1>a, <2>1 DEF Sending
  <2>3. dup = 0 => toSnd = <<>>
    BY <1>c, <2>1
  <2> QED BY <1>d, <1>s, <2>1, <2>2, <2>3 DEF LastInv
<1>6. CASE SWait
  <2>1. /\ toSnd # <<>> /\ toSnd' = Tail(toSnd) /\ dup' = dup
        /\ snd' = [snd EXCEPT !.pc = "test", !.reply = Head(toSnd)]
    BY <1>6 DEF SWait
  <2>2. /\ snd'.pc = "test" /\ snd'.packet = snd.packet /\ snd'.i = snd.i
        /\ snd'.off = snd.off /\ snd'.reply = toSnd[1]
    BY <1>a, <2>1 DEF Sending
  <2>3. InLast' <=> InLast
    BY <1>f, <1>s, <2>2 DEF InLast
  <2>4. DistinctSeqs => \A k \in DOMAIN toSnd' : toSnd'[k] # Rest
    <3>1. ASSUME NEW k \in DOMAIN toSnd'
          PROVE  k + 1 \in DOMAIN toSnd /\ toSnd'[k] = toSnd[k + 1]
      BY <1>a, <2>1
    <3> QED BY <1>d, <3>1
  <2>5. dup = 0 => toSnd' = <<>>
    BY <1>c, <2>1
  <2>6. DistinctSeqs => snd'.reply # Rest
    <3>1. 1 \in DOMAIN toSnd
      BY <1>a, <2>1
    <3> QED BY <1>d, <2>2, <3>1
  <2>7. dup = 0 => ~InLast
    BY <1>e, <2>1
  <2> QED BY <1>s, <2>1, <2>2, <2>3, <2>4, <2>5, <2>6, <2>7 DEF LastInv
<1>7. CASE SAccept
  <2>1. /\ snd.pc = "test" /\ toSnd' = toSnd /\ dup' = dup
        /\ snd.reply = snd.packet.seq
        /\ snd' = [snd EXCEPT !.pc = "read", !.i = snd.i + 1]
    BY <1>7 DEF SAccept, network
  <2>2. snd'.pc = "read" /\ snd'.i = snd.i + 1 /\ snd'.off = snd.off
    BY <1>a, <2>1 DEF Sending
  <2>3. dup = 0 => toSnd = <<>>
    BY <1>c, <2>1
  <2>4. dup = 0 \/ DistinctSeqs => ~Past'
    <3>1. CASE InFile
      <4>1. snd.i \in Nat /\ file.size \in Nat
        BY <1>a, Fields
      <4>2. snd.i <= Full /\ Full \in Nat
        BY <4>1, <3>1, Chunks, Division DEF InFile
      <4>3. snd'.i # Full + 2
        BY <2>2, <4>1, <4>2
      <4> QED BY <1>s, <4>3 DEF Past
    <3>2. CASE InLast
      <4>1. snd.reply = Rest
        BY <2>1, <3>2 DEF InLast, Packet
      <4> QED BY <1>g, <2>1, <3>2, <4>1
    <3> QED BY <2>1, <3>1, <3>2 DEF SenderInv
  <2> QED BY <1>d, <1>s, <2>1, <2>2, <2>3, <2>4 DEF LastInv
<1>8. CASE Receive
  <2> DEFINE p == Head(toRcv)
  <2>1. toRcv # <<>> /\ snd' = snd /\ dup' = dup
        /\ toSnd' = Append(toSnd, p.seq)
        /\ rcv'.pc = IF IsLast(p) THEN "returned" ELSE "recv"
    BY <1>8 DEF Receive, Take, Ack
  <2>2. p = toRcv[1] /\ 1 \in DOMAIN toRcv
    BY <1>a, <2>1
  <2> HIDE DEF p
  <2>3. IsPacket(p)
    BY <1>a, <2>2 DEF InFlight
  <2>4. CASE IsLast(p)
    BY <2>1, <2>4 DEF LastInv
  <2>5. CASE ~IsLast(p)
    <3>1. DistinctSeqs => \A k \in DOMAIN toSnd' : toSnd'[k] # Rest
      <4>1. ASSUME NEW k \in DOMAIN toSnd'
            PROVE  toSnd'[k] = p.seq \/ (k \in DOMAIN toSnd /\ toSnd'[k] = toSnd[k])
        BY <1>a, <2>1
      <4>2. DistinctSeqs => p.seq # Rest
        BY <2>3, <2>5, LastIsLast
      <4> QED BY <1>d, <4>1, <4>2
    <3>2. (InLast' <=> InLast) /\ (Past' <=> Past)
      BY <1>f, <1>s, <2>1 DEF InLast, Past
    <3>3. dup = 0 => ~InLast
      <4>1. dup = 0 => p = snd.packet
        BY <1>c, <2>1, <2>2
      <4> QED BY <2>5, <4>1 DEF InLast, Packet, IsLast
    <3> QED BY <1>g, <1>s, <2>1, <3>1, <3>2, <3>3 DEF LastInv
  <2> QED BY <2>4, <2>5
<1>9. CASE Lose \/ Duplicate \/ UNCHANGED vars
  <2>1. snd' = snd /\ rcv' = rcv
    BY <1>9 DEF Lose, Duplicate, vars
  <2>2. DistinctSeqs => \A k \in DOMAIN toSnd' : toSnd'[k] # Rest
    <3>1. ASSUME NEW k \in DOMAIN toSnd, toSnd' = Without(toSnd, k),
                 NEW j \in DOMAIN toSnd'
          PROVE  \E l \in DOMAIN toSnd : toSnd'[j] = toSnd[l]
      BY <1>a, <3>1, Fewer
    <3>2. ASSUME NEW k \in DOMAIN toSnd, toSnd' = Append(toSnd, toSnd[k]),
                 NEW j \in DOMAIN toSnd'
          PROVE  \E l \in DOMAIN toSnd : toSnd'[j] = toSnd[l]
      BY ZenonT(60), <1>a, <3>2, More
    <3>3. \/ toSnd' = toSnd
          \/ \E k \in DOMAIN toSnd : toSnd' = Without(toSnd, k)
          \/ \E k \in DOMAIN toSnd : toSnd' = Append(toSnd, toSnd[k])
      BY <1>9 DEF Lose, Duplicate, vars
    <3> QED BY <1>d, <3>1, <3>2, <3>3
  <2>3. (InLast' <=> InLast) /\ (Past' <=> Past)
    BY <1>f, <1>s, <2>1 DEF InLast, Past
  <2>4. dup' = 0 /\ toSnd' # <<>> => toSnd # <<>>
    BY <1>9, <1>a DEF Lose, Duplicate, vars
  <2> QED BY <1>b, <1>e, <1>g, <1>s, <2>1, <2>2, <2>3, <2>4 DEF LastInv
<1> QED BY <1>1, <1>2, <1>3, <1>4, <1>5, <1>6, <1>7, <1>8, <1>9 DEF Next, Sender

-----------------------------------------------------------------------------
(* Acknowledged bytes are held *)

LEMMA HeldMore ==
    ASSUME NEW d, NEW pos \in Nat, NEW n \in Nat, NEW off \in Nat,
           0 .. pos - 1 \subseteq DOMAIN d
    PROVE  /\ 0 .. pos + n - 1 \subseteq DOMAIN Write(d, pos, n, off)
           /\ \A b : Held(d, pos, b) => Held(Write(d, pos, n, off), pos + n, b)
           /\ \A b \in off .. off + n - 1 : Held(Write(d, pos, n, off), pos + n, b)
<1> DEFINE w == Write(d, pos, n, off)
<1>1. DOMAIN w = DOMAIN d \cup pos .. pos + n - 1
  BY DEF Write
<1>2. \A j \in DOMAIN w : w[j] = IF j \in pos .. pos + n - 1 THEN off + (j - pos) ELSE d[j]
  BY DEF Write
<1> HIDE DEF w
<1>3. \A j \in 0 .. pos + n - 1 : j \in 0 .. pos - 1 \/ j \in pos .. pos + n - 1
  OBVIOUS
<1>4. 0 .. pos + n - 1 \subseteq DOMAIN w
  BY <1>1, <1>3
<1>5. ASSUME NEW b, Held(d, pos, b) PROVE Held(w, pos + n, b)
  <2>1. PICK j \in 0 .. pos - 1 : d[j] = b
    BY <1>5 DEF Held
  <2>2. j \in 0 .. pos + n - 1 /\ j \notin pos .. pos + n - 1
    BY <2>1
  <2>3. w[j] = b
    BY <1>2, <1>4, <2>1, <2>2
  <2> QED BY <2>2, <2>3 DEF Held
<1>6. ASSUME NEW b \in off .. off + n - 1 PROVE Held(w, pos + n, b)
  <2>1. pos + (b - off) \in pos .. pos + n - 1 /\ pos + (b - off) \in 0 .. pos + n - 1
    OBVIOUS
  <2>2. w[pos + (b - off)] = off + (pos + (b - off) - pos)
    BY <1>2, <1>4, <2>1
  <2>3. off + (pos + (b - off) - pos) = b
    OBVIOUS
  <2> QED BY <2>1, <2>2, <2>3 DEF Held
<1> QED BY <1>4, <1>5, <1>6 DEF w

(* Writing packet p makes its acknowledgement true.                         *)
LEMMA Acknowledged ==
    ASSUME DistinctSeqs, file.size \in Nat, NEW p, IsPacket(p), NEW d, NEW pos,
           \A b \in p.data .. p.data + Length(p) - 1 : Held(d, pos, b)
    PROVE  HeldSeq(d, pos, p.seq)
<1>1. Full \in Nat /\ Rest \in Nat
  BY Division
<1>2. ASSUME NEW n \in 1 .. Full, p = Packet("FILEPKT", ToShort(n), (n - 1) * CHUNK)
      PROVE  HeldSeq(d, pos, p.seq)
  <2>1. p.seq = ToShort(n) /\ p.data = (n - 1) * CHUNK /\ Length(p) = CHUNK
    BY <1>2 DEF Packet, Length, IsLast
  <2>2. \A m \in 1 .. Full : ToShort(m) = p.seq => m = n
    BY <2>1 DEF DistinctSeqs
  <2>3. p.seq # Rest
    BY <2>1 DEF DistinctSeqs
  <2>4. (n - 1) * CHUNK + CHUNK = n * CHUNK
    <3>1. n - 1 \in Int /\ n - 1 + 1 = n
      BY <1>1
    <3> QED BY <3>1, Step
  <2>5. \A b \in (n - 1) * CHUNK .. n * CHUNK - 1 : Held(d, pos, b)
    <3>1. (n - 1) * CHUNK + CHUNK - 1 = n * CHUNK - 1
      <4>1. n * CHUNK \in Int /\ (n - 1) * CHUNK \in Int
        BY Constants
      <4> QED BY <2>4, <4>1, Constants
    <3>2. \A b \in (n - 1) * CHUNK .. (n - 1) * CHUNK + CHUNK - 1 : Held(d, pos, b)
      BY <2>1
    <3> QED BY <3>1, <3>2
  <2> QED BY <2>2, <2>3, <2>5 DEF HeldSeq
<1>3. CASE p = Packet("LASTPKT", Rest, file.size - Rest)
  <2>1. p.seq = Rest /\ p.data = file.size - Rest /\ Length(p) = Rest
    BY <1>3 DEF Packet, Length, IsLast
  <2>2. \A m \in 1 .. Full : ToShort(m) # p.seq
    BY <2>1 DEF DistinctSeqs
  <2>3. file.size - Rest + Rest - 1 = file.size - 1
    BY <1>1
  <2> QED BY <2>1, <2>2, <2>3 DEF HeldSeq
<1> QED BY <1>2, <1>3 DEF IsPacket

Holding ==
    /\ 0 .. rcv.pos - 1 \subseteq DOMAIN disk
    /\ \A k \in DOMAIN toSnd : HeldSeq(disk, rcv.pos, toSnd[k])
    /\ snd.pc = "test" /\ snd.reply = snd.packet.seq => HeldSeq(disk, rcv.pos, snd.reply)
    /\ snd.pc = "read" => \A b \in 0 .. snd.off - 1 : Held(disk, rcv.pos, b)
    /\ snd.pc = "returned" => \A b \in 0 .. snd.off - 1 : Held(disk, rcv.pos, b)
    /\ snd.pc \in {"test", "wait"}
          => \A b \in 0 .. snd.packet.data - 1 : Held(disk, rcv.pos, b)

LEMMA HeldStep ==
    ASSUME TypeInv, SenderInv, InFlight, HeldInv, [Next]_vars
    PROVE  HeldInv'
<1>f. file' = file
  BY SameFile
<1>s. (DistinctSeqs' <=> DistinctSeqs) /\ (Clean' <=> Clean)
  BY <1>f, SameFile DEF DistinctSeqs, Clean, Broken
<1> SUFFICES ASSUME DistinctSeqs, Clean PROVE Holding'
  BY <1>s DEF HeldInv, Holding
<1>a. snd \in Sending /\ toRcv \in Seq(FilePackets) /\ toSnd \in Seq(Shorts)
      /\ file.size \in Nat /\ ~Strands /\ ~SkipsFirst /\ file.opens
  BY Fields DEF TypeInv, Clean, Broken, Strands
<1>0. Holding
  BY DEF HeldInv, Holding
<1>h. /\ 0 .. rcv.pos - 1 \subseteq DOMAIN disk
      /\ \A k \in DOMAIN toSnd : HeldSeq(disk, rcv.pos, toSnd[k])
  BY <1>0 DEF Holding
<1>1. CASE SOpen
  <2>1. /\ snd.pc = "open" /\ rcv' = rcv /\ disk' = disk /\ toSnd' = toSnd
        /\ snd' = [snd EXCEPT !.pc = IF file.size = -1 THEN "failed" ELSE "read"]
    BY <1>1 DEF SOpen, network
  <2>2. snd'.pc \in {"failed", "read"} /\ snd'.off = 0
    BY <1>a, <2>1 DEF Sending, SenderInv
  <2> QED BY <1>f, <1>h, <2>1, <2>2 DEF Holding, HeldSeq, Full, Rest, Held
<1>2. CASE SReadChunk
  <2>1. /\ snd.pc = "read" /\ rcv' = rcv /\ disk' = disk /\ toSnd' = toSnd
        /\ file.size - snd.off >= CHUNK
        /\ snd' = [snd EXCEPT !.pc = "test",
                              !.packet = Packet("FILEPKT", ToShort(snd.i), snd.off),
                              !.off = snd.off + CHUNK]
    BY <1>2 DEF SReadChunk, network
  <2>2. /\ snd'.pc = "test" /\ snd'.reply = snd.reply
        /\ snd'.packet.seq = ToShort(snd.i) /\ snd'.packet.data = snd.off
    BY <1>a, <2>1 DEF Sending, Packet
  <2>3. snd'.reply # snd'.packet.seq
    BY <1>a, <2>1, <2>2, Reading, FreshReply
  <2>4. \A b \in 0 .. snd.off - 1 : Held(disk, rcv.pos, b)
    BY <1>0, <2>1 DEF Holding
  <2> QED BY <1>f, <1>h, <2>1, <2>2, <2>3, <2>4 DEF Holding, HeldSeq, Full, Rest, Held
<1>3. CASE SReadRest
  <2>1. /\ snd.pc = "read" /\ rcv' = rcv /\ disk' = disk /\ toSnd' = toSnd
        /\ snd' = [snd EXCEPT !.pc = "test",
                              !.packet = Packet("LASTPKT", file.size - snd.off, snd.off),
                              !.off = file.size]
    BY <1>3 DEF SReadRest, network
  <2>2. /\ snd'.pc = "test" /\ snd'.reply = snd.reply
        /\ snd'.packet.seq = file.size - snd.off /\ snd'.packet.data = snd.off
    BY <1>a, <2>1 DEF Sending, Packet
  <2>3. snd'.reply # snd'.packet.seq
    BY <1>3, <1>a, <2>2, FreshLast
  <2>4. \A b \in 0 .. snd.off - 1 : Held(disk, rcv.pos, b)
    BY <1>0, <2>1 DEF Holding
  <2> QED BY <1>f, <1>h, <2>1, <2>2, <2>3, <2>4 DEF Holding, HeldSeq, Full, Rest, Held
<1>4. CASE SReadEnd
  <2>1. /\ snd.pc = "read" /\ rcv' = rcv /\ disk' = disk /\ toSnd' = toSnd
        /\ snd' = [snd EXCEPT !.pc = "returned"]
    BY <1>4 DEF SReadEnd, network
  <2>2. snd'.pc = "returned" /\ snd'.off = snd.off
    BY <1>a, <2>1 DEF Sending
  <2>3. \A b \in 0 .. snd.off - 1 : Held(disk, rcv.pos, b)
    BY <1>0, <2>1 DEF Holding
  <2> QED BY <1>f, <1>h, <2>1, <2>2, <2>3 DEF Holding, HeldSeq, Full, Rest, Held
<1>5. CASE SSend
  <2>1. /\ snd.pc = "test" /\ rcv' = rcv /\ disk' = disk /\ toSnd' = toSnd
        /\ snd' = [snd EXCEPT !.pc = "wait"]
    BY <1>5 DEF SSend
  <2>2. snd'.pc = "wait" /\ snd'.packet = snd.packet
    BY <1>a, <2>1 DEF Sending
  <2>3. \A b \in 0 .. snd.packet.data - 1 : Held(disk, rcv.pos, b)
    BY <1>0, <2>1 DEF Holding
  <2> QED BY <1>f, <1>h, <2>1, <2>2, <2>3 DEF Holding, HeldSeq, Full, Rest, Held
<1>6. CASE SWait
  <2>1. /\ snd.pc = "wait" /\ rcv' = rcv /\ disk' = disk
        /\ toSnd # <<>> /\ toSnd' = Tail(toSnd)
        /\ snd' = [snd EXCEPT !.pc = "test", !.reply = Head(toSnd)]
    BY <1>6 DEF SWait
  <2>2. /\ snd'.pc = "test" /\ snd'.packet = snd.packet /\ snd'.reply = toSnd[1]
        /\ 1 \in DOMAIN toSnd
    BY <1>a, <2>1 DEF Sending
  <2>3. HeldSeq(disk, rcv.pos, snd'.reply)
    BY <1>h, <2>2
  <2>4. ASSUME NEW k \in DOMAIN toSnd' PROVE HeldSeq(disk, rcv.pos, toSnd'[k])
    <3>1. k + 1 \in DOMAIN toSnd /\ toSnd'[k] = toSnd[k + 1]
      BY <1>a, <2>1
    <3> QED BY <1>h, <3>1
  <2>5. \A b \in 0 .. snd.packet.data - 1 : Held(disk, rcv.pos, b)
    BY <1>0, <2>1 DEF Holding
  <2> QED BY <1>f, <1>h, <2>1, <2>2, <2>3, <2>4, <2>5 DEF Holding, HeldSeq, Full, Rest, Held
<1>7. CASE SAccept
  <2>1. /\ snd.pc = "test" /\ rcv' = rcv /\ disk' = disk /\ toSnd' = toSnd
        /\ snd.reply = snd.packet.seq
        /\ snd' = [snd EXCEPT !.pc = "read", !.i = snd.i + 1]
    BY <1>7 DEF SAccept, network
  <2>2. snd'.pc = "read" /\ snd'.off = snd.off
    BY <1>a, <2>1 DEF Sending
  <2>3. /\ HeldSeq(disk, rcv.pos, snd.packet.seq)
        /\ \A b \in 0 .. snd.packet.data - 1 : Held(disk, rcv.pos, b)
    BY <1>0, <2>1 DEF Holding
  <2>4. \A b \in 0 .. snd.off - 1 : Held(disk, rcv.pos, b)
    <3>0. snd.i \in Nat /\ snd.i > 0 /\ snd.off \in Nat /\ Full \in Nat /\ Rest \in Nat
      BY <1>a, Fields, Division
    <3>1. CASE InFile
      <4>1. snd.i \in 1 .. Full
        BY <1>a, <3>0, <3>1, Chunks DEF InFile
      <4>2. \A b \in (snd.i - 1) * CHUNK .. snd.i * CHUNK - 1 : Held(disk, rcv.pos, b)
        BY <2>3, <3>1, <4>1 DEF InFile, Packet, HeldSeq
      <4>3. \A b \in 0 .. (snd.i - 1) * CHUNK - 1 : Held(disk, rcv.pos, b)
        BY <2>3, <3>1 DEF InFile, Packet
      <4>4. (snd.i - 1) * CHUNK \in Int /\ snd.off = snd.i * CHUNK
        <5>1. snd.i - 1 \in Int
          BY <3>0
        <5> QED BY <3>1, <5>1, Step DEF InFile
      <4>5. ASSUME NEW b \in 0 .. snd.off - 1
            PROVE  \/ b \in 0 .. (snd.i - 1) * CHUNK - 1
                   \/ b \in (snd.i - 1) * CHUNK .. snd.i * CHUNK - 1
        BY <3>0, <4>4
      <4> QED BY <4>2, <4>3, <4>5
    <3>2. CASE InLast
      <4>1. \A b \in file.size - Rest .. file.size - 1 : Held(disk, rcv.pos, b)
        BY <2>3, <3>2 DEF InLast, Packet, HeldSeq
      <4>2. \A b \in 0 .. file.size - Rest - 1 : Held(disk, rcv.pos, b)
        BY <2>3, <3>2 DEF InLast, Packet
      <4>3. snd.off = file.size
        BY <3>2 DEF InLast
      <4>4. ASSUME NEW b \in 0 .. snd.off - 1
            PROVE  \/ b \in 0 .. file.size - Rest - 1
                   \/ b \in file.size - Rest .. file.size - 1
        BY <1>a, <3>0, <4>3
      <4> QED BY <4>1, <4>2, <4>4
    <3> QED BY <2>1, <3>1, <3>2 DEF SenderInv
  <2> QED BY <1>f, <1>h, <2>1, <2>2, <2>4 DEF Holding, HeldSeq, Full, Rest, Held
<1>8. CASE Receive
  <2> DEFINE p == Head(toRcv)
             n == Length(p)
  <2>1. /\ toRcv # <<>> /\ snd' = snd
        /\ toSnd' = Append(toSnd, p.seq)
        /\ disk' = Write(disk, rcv.pos, n, p.data)
        /\ rcv'.pos = rcv.pos + n
    BY <1>8, <1>a DEF Receive, Take, Ack
  <2>2. p = toRcv[1] /\ 1 \in DOMAIN toRcv /\ p \in FilePackets
    BY <1>a, <2>1
  <2>3. IsPacket(p)
    BY <1>a, <2>2 DEF InFlight
  <2>4. n \in Nat /\ p.data \in Nat /\ rcv.pos \in Nat
    BY <2>2, PacketFields, Constants, Fields DEF Length, IsLast
  <2> HIDE DEF p, n
  <2>5. /\ 0 .. rcv'.pos - 1 \subseteq DOMAIN disk'
        /\ \A b : Held(disk, rcv.pos, b) => Held(disk', rcv'.pos, b)
        /\ \A b \in p.data .. p.data + n - 1 : Held(disk', rcv'.pos, b)
    <3>1. /\ 0 .. rcv.pos + n - 1 \subseteq DOMAIN Write(disk, rcv.pos, n, p.data)
          /\ \A b : Held(disk, rcv.pos, b)
                    => Held(Write(disk, rcv.pos, n, p.data), rcv.pos + n, b)
          /\ \A b \in p.data .. p.data + n - 1 :
                 Held(Write(disk, rcv.pos, n, p.data), rcv.pos + n, b)
      BY <1>h, <2>4, HeldMore
    <3>2. disk' = Write(disk, rcv.pos, n, p.data) /\ rcv'.pos = rcv.pos + n
      BY <2>1
    <3>3. 0 .. rcv'.pos - 1 \subseteq DOMAIN disk'
      BY <2>4, <3>1, <3>2
    <3>4. \A b : Held(disk, rcv.pos, b) => Held(disk', rcv'.pos, b)
      BY <3>1, <3>2, Zenon
    <3>5. \A b \in p.data .. p.data + n - 1 : Held(disk', rcv'.pos, b)
      BY <3>1, <3>2, Zenon
    <3> QED BY <3>3, <3>4, <3>5
  <2>6. HeldSeq(disk', rcv'.pos, p.seq)
    BY <1>a, <2>3, <2>5, Acknowledged DEF n
  <2>7. \A a : HeldSeq(disk, rcv.pos, a) => HeldSeq(disk', rcv'.pos, a)
    BY <2>5 DEF HeldSeq
  <2>8. ASSUME NEW k \in DOMAIN toSnd' PROVE HeldSeq(disk', rcv'.pos, toSnd'[k])
    <3>1. toSnd'[k] = p.seq \/ (k \in DOMAIN toSnd /\ toSnd'[k] = toSnd[k])
      BY <1>a, <2>1
    <3> QED BY <1>h, <2>6, <2>7, <3>1
  <2>9. /\ snd.pc = "test" /\ snd.reply = snd.packet.seq
             => HeldSeq(disk', rcv'.pos, snd.reply)
        /\ snd.pc = "read" => \A b \in 0 .. snd.off - 1 : Held(disk', rcv'.pos, b)
        /\ snd.pc = "returned" => \A b \in 0 .. snd.off - 1 : Held(disk', rcv'.pos, b)
        /\ snd.pc \in {"test", "wait"}
              => \A b \in 0 .. snd.packet.data - 1 : Held(disk', rcv'.pos, b)
    BY <1>0, <2>5, <2>7 DEF Holding
  <2> QED BY <1>f, <2>1, <2>5, <2>8, <2>9 DEF Holding, HeldSeq, Full, Rest, Held
<1>9. CASE Lose \/ Duplicate \/ UNCHANGED vars
  <2>1. snd' = snd /\ rcv' = rcv /\ disk' = disk
    BY <1>9 DEF Lose, Duplicate, vars
  <2>2. ASSUME NEW j \in DOMAIN toSnd' PROVE HeldSeq(disk, rcv.pos, toSnd'[j])
    <3>1. ASSUME NEW k \in DOMAIN toSnd, toSnd' = Without(toSnd, k)
          PROVE  \E l \in DOMAIN toSnd : toSnd'[j] = toSnd[l]
      BY <1>a, <3>1, Fewer
    <3>2. ASSUME NEW k \in DOMAIN toSnd, toSnd' = Append(toSnd, toSnd[k])
          PROVE  \E l \in DOMAIN toSnd : toSnd'[j] = toSnd[l]
      BY <1>a, <3>2, More
    <3>3. \/ toSnd' = toSnd
          \/ \E k \in DOMAIN toSnd : toSnd' = Without(toSnd, k)
          \/ \E k \in DOMAIN toSnd : toSnd' = Append(toSnd, toSnd[k])
      BY <1>9 DEF Lose, Duplicate, vars
    <3> QED BY <1>h, <3>1, <3>2, <3>3
  <2> QED BY <1>0, <1>f, <2>1, <2>2 DEF Holding, HeldSeq, Full, Rest, Held
<1> QED BY <1>1, <1>2, <1>3, <1>4, <1>5, <1>6, <1>7, <1>8, <1>9 DEF Next, Sender

-----------------------------------------------------------------------------
(* The theorems *)

LEMMA Initially == Init => IInv
<1> SUFFICES ASSUME Init PROVE IInv
  OBVIOUS
<1>1. TypeInv /\ SenderInv
  BY InitTyped, InitSender
<1>2. /\ snd.pc = "open" /\ rcv.pc = "recv" /\ rcv.pos = 0
      /\ toRcv = <<>> /\ toSnd = <<>>
      /\ disk = [j \in 0 .. file.old - 1 |-> OldByte]
  BY DEF Init
<1>3. StrandInv /\ OrderInv /\ InFlight /\ LastInv /\ HeldInv
  BY <1>2 DEF StrandInv, OrderInv, InFlight, LastInv, HeldInv
<1>4. file.old \in Nat
  BY <1>1, Fields
<1>5. Prefix(disk, 0)
  BY <1>2, <1>4 DEF Prefix
<1>6. PlaceInv
  BY <1>2, <1>5 DEF PlaceInv
<1> QED BY <1>1, <1>3, <1>6 DEF IInv

LEMMA Inductive == IInv /\ [Next]_vars => IInv'
BY TypeStep, SenderStep, StrandStep, OrderStep, PlaceStep, FlightStep, LastStep,
   HeldStep DEF IInv

(* Every state of the transfer satisfies the inductive invariant.           *)
THEOREM Invariance == Spec => []IInv
<1>1. Init => IInv
  BY Initially
<1>2. IInv /\ [Next]_vars => IInv'
  BY Inductive
<1> QED BY <1>1, <1>2, PTL DEF Spec

(* Both sides' locals and the datagrams in flight are what send_file_to and *)
(* receive_file_from may hold: seqnum is always a short.                    *)
THEOREM TypeCorrect == Spec => []TypeOK
<1>1. IInv => TypeOK
  <2> SUFFICES ASSUME IInv PROVE TypeOK
    OBVIOUS
  <2>1. TypeInv
    BY DEF IInv
  <2>2. snd \in Sending /\ toRcv \in Seq(FilePackets) /\ toSnd \in Seq(Shorts)
    BY <2>1 DEF TypeInv
  <2>3. snd.packet.seq \in Shorts
    <3>1. CASE snd.packet \in FilePackets
      BY <3>1, PacketFields
    <3>2. CASE snd.packet = NoPacket
      BY <3>2, Constants DEF NoPacket, Packet, Shorts
    <3> QED BY <2>1, <3>1, <3>2, Fields
  <2>4. \A k \in DOMAIN toRcv : toRcv[k] \in FilePackets
    BY <2>2
  <2>5. \A k \in DOMAIN toRcv : toRcv[k].op \in {"FILEPKT", "LASTPKT"}
                                /\ toRcv[k].seq \in Shorts
    BY <2>4, PacketFields
  <2>6. \A k \in DOMAIN toSnd : toSnd[k] \in Shorts
    BY <2>2
  <2> QED BY <2>1, <2>2, <2>3, <2>5, <2>6 DEF TypeOK, TypeInv, Sending
<1> QED BY <1>1, Invariance, PTL

(* For every size of file and packet: a receiver whose sender never sends a *)
(* LASTPKT does not return, whatever is lost or duplicated.                 *)
THEOREM Stranded == Spec => []StrandedReceiver
<1>1. IInv => StrandedReceiver
  BY DEF IInv, StrandInv, StrandedReceiver
<1> QED BY <1>1, Invariance, PTL

(* For every size of file and packet: a receiver that returns has stored    *)
(* the file byte for byte, if no datagram was duplicated.                   *)
THEOREM IntactCorrect == Spec => []Intact
<1>1. IInv => Intact
  <2> SUFFICES ASSUME IInv, rcv.pc = "returned", ~SkipsFirst, file.opens, dup = 0
               PROVE  /\ \A j \in 0 .. file.size - 1 : disk[j] = j
                      /\ \A j \in DOMAIN disk :
                            j >= file.size => j < file.old /\ disk[j] = OldByte
    BY DEF Intact
  <2>1. rcv.pos = file.size /\ Prefix(disk, rcv.pos) /\ rcv.pos \in Nat
    BY Fields DEF IInv, PlaceInv
  <2>2. ASSUME NEW j \in DOMAIN disk, j >= file.size PROVE j \notin 0 .. file.size - 1
    BY <2>1, <2>2 DEF Prefix
  <2> QED BY <2>1, <2>2 DEF Prefix
<1> QED BY <1>1, Invariance, PTL

(* For every size of file and packet: a sender that returned 0 has had an   *)
(* answer to its LASTPKT from a receiver that returned, even if datagrams   *)
(* were duplicated, as long as no two packets have the same number.         *)
THEOREM TogetherCorrect == Spec => []ReturnTogether
<1>1. IInv => ReturnTogether
  BY DEF IInv, LastInv, ReturnTogether
<1> QED BY <1>1, Invariance, PTL

(* For every size of file and packet: a sender that returned 0 has left no  *)
(* byte behind.                                                             *)
THEOREM MissingCorrect == Spec => []NothingMissing
<1>1. IInv => NothingMissing
  <2> SUFFICES ASSUME IInv, snd.pc = "returned", Clean, dup = 0 \/ DistinctSeqs,
                      NEW b \in 0 .. file.size - 1
               PROVE  \E j \in 0 .. rcv.pos - 1 : disk[j] = b
    BY DEF NothingMissing
  <2>1. CASE DistinctSeqs
    <3>1. snd.off = file.size
      BY DEF IInv, SenderInv
    <3> QED BY <2>1, <3>1 DEF IInv, HeldInv, Held
  <2>2. CASE dup = 0
    <3>1. rcv.pc = "returned" /\ ~SkipsFirst /\ file.opens
      BY <2>2 DEF IInv, LastInv, Clean, Broken
    <3>2. rcv.pos = file.size /\ Prefix(disk, rcv.pos)
      BY <2>2, <3>1 DEF IInv, PlaceInv
    <3> QED BY <3>2 DEF Prefix
  <2> QED BY <2>1, <2>2
<1> QED BY <1>1, Invariance, PTL

-----------------------------------------------------------------------------
(* The refinement *)

CInv == IInv /\ Clean /\ dup = 0

LEMMA ReceiveCopies ==
    ASSUME CInv, Receive
    PROVE  ABS!WriteChunk \/ ABS!WriteRest
<1> DEFINE p == Head(toRcv)
<1>1. /\ toRcv # <<>> /\ file' = file /\ rcv.pc = "recv"
      /\ disk' = Write(disk, rcv.pos, Length(p), p.data)
      /\ rcv' = [pc |-> IF IsLast(p) THEN "returned" ELSE "recv",
                 pos |-> rcv.pos + Length(p)]
  BY DEF Receive, Take, CInv, Clean, Broken
<1>2. snd.pc = "wait" /\ toRcv = <<snd.packet>>
  BY <1>1 DEF CInv, IInv, OrderInv
<1>3. p = snd.packet
  BY <1>2
<1> HIDE DEF p
<1>4. rcv.pos = p.data
  BY <1>1, <1>3 DEF CInv, IInv, PlaceInv, Clean, Broken
<1>5. file.size \in Nat /\ snd.i \in Nat /\ snd.i > 0 /\ rcv.pos \in Nat
  BY Fields DEF CInv, IInv, Clean, Broken, Strands
<1>6. Full \in Nat /\ Rest \in Nat /\ Rest < CHUNK
  BY <1>5, Division
<1>7. \A n : Write(disk, rcv.pos, n, rcv.pos) = ABS!Write(disk, rcv.pos, n, rcv.pos)
  BY DEF Write, ABS!Write
<1>8. CASE InFile
  <2>1. Length(p) = CHUNK /\ ~IsLast(p) /\ p.data = (snd.i - 1) * CHUNK
    BY <1>3, <1>8 DEF InFile, Packet, Length, IsLast
  <2>2. rcv.pos + CHUNK <= file.size
    <3>1. snd.i - 1 \in Int /\ snd.i - 1 + 1 = snd.i
      BY <1>5
    <3>2. (snd.i - 1) * CHUNK + CHUNK = snd.i * CHUNK
      BY <3>1, Step
    <3> QED BY <1>4, <1>8, <2>1, <3>2 DEF InFile
  <2>3. disk' = ABS!Write(disk, rcv.pos, CHUNK, rcv.pos)
    BY <1>1, <1>4, <1>7, <2>1
  <2>4. rcv'.pos = rcv.pos + CHUNK /\ rcv'.pc = "recv"
    BY <1>1, <2>1
  <2> QED BY <1>1, <2>2, <2>3, <2>4 DEF ABS!WriteChunk
<1>9. CASE InLast
  <2>1. Length(p) = Rest /\ IsLast(p) /\ p.data = file.size - Rest
    BY <1>3, <1>9 DEF InLast, Packet, Length, IsLast
  <2>2. file.size - rcv.pos = Rest /\ rcv.pos + Rest = file.size
    BY <1>4, <1>5, <1>6, <2>1
  <2>3. disk' = ABS!Write(disk, rcv.pos, Rest, rcv.pos)
    BY <1>1, <1>4, <1>7, <2>1
  <2>4. rcv'.pos = file.size /\ rcv'.pc = "returned"
    BY <1>1, <2>1, <2>2
  <2> QED BY <1>1, <1>6, <2>2, <2>3, <2>4 DEF ABS!WriteRest
<1> QED BY <1>2, <1>8, <1>9 DEF CInv, IInv, SenderInv

(* A step of the transfer is a step of the copy, stalls it, breaks it, or   *)
(* leaves it alone.                                                         *)
LEMMA StepCopies ==
    ASSUME IInv, [Next]_vars
    PROVE  [ABS!Next]_(ABS!vars)
<1>1. file' = file /\ (Strands' <=> Strands) /\ (SkipsFirst' <=> SkipsFirst)
  BY SameFile
<1>2. Broken' <=> Broken
  BY <1>1 DEF Broken
<1>3. dup \in Nat /\ lost \in Nat
  BY DEF IInv, TypeInv
<1>4. CASE Broken \/ dup' > 0
  <2>1. (Broken \/ dup > 0)' = TRUE
    BY <1>2, <1>4
  <2> QED BY <2>1 DEF ABS!Next, ABS!Break
<1>5. CASE ~Broken /\ ~(dup' > 0)
  <2>1. dup' = dup \/ dup' = dup + 1
    BY DEF Next, Sender, SOpen, SReadChunk, SReadRest, SReadEnd, SSend, SWait,
           SAccept, Receive, Take, Lose, Duplicate, vars, network
  <2>2. dup = 0 /\ dup' = 0
    BY <1>3, <1>5, <2>1
  <2>3. (Broken \/ dup > 0) = FALSE /\ (Broken \/ dup > 0)' = FALSE
    BY <1>2, <1>5, <2>2
  <2>4. CASE Receive
    <3>1. ABS!WriteChunk \/ ABS!WriteRest
      BY <1>5, <2>2, <2>4, ReceiveCopies DEF CInv, Clean
    <3>2. lost' = lost
      BY <2>4 DEF Receive, Take
    <3>3. (lost > 0)' = (lost > 0)
      BY <3>2
    <3> QED BY <2>3, <3>1, <3>3 DEF ABS!Next, ABS!Copy
  <2>5. CASE Lose
    <3>1. UNCHANGED <<file, rcv, disk>> /\ lost' = lost + 1
      BY <2>5 DEF Lose
    <3>2. (lost > 0)' = TRUE
      BY <1>3, <3>1
    <3> QED BY <2>3, <3>1, <3>2 DEF ABS!Next, ABS!Stall
  <2>6. CASE ~Receive /\ ~Lose
    <3>1. UNCHANGED <<file, rcv, disk, lost>>
      BY <2>6 DEF Next, Sender, SOpen, SReadChunk, SReadRest, SReadEnd, SSend, SWait,
                  SAccept, Duplicate, vars, network
    <3>2. (lost > 0)' = (lost > 0)
      BY <3>1
    <3> QED BY <2>3, <3>1, <3>2 DEF ABS!vars
  <2> QED BY <2>4, <2>5, <2>6
<1> QED BY <1>4, <1>5

(* For every size of file and packet, whatever is lost: until a datagram is *)
(* duplicated, a transfer that is not broken by its parameters writes the   *)
(* bytes of the source in order, chunk by chunk, and every other step       *)
(* leaves the destination alone.  That is the safety part of CopiesInChunks.*)
THEOREM CopiesSafely == Spec => ABS!Init /\ [][ABS!Next]_(ABS!vars)
<1>1. Init => ABS!Init
  <2> SUFFICES ASSUME Init PROVE ABS!Init
    OBVIOUS
  <2>1. TypeInv
    BY InitTyped
  <2>2. lost = 0 /\ dup = 0 /\ rcv.pos = 0 /\ rcv.pc = "recv"
    BY DEF Init
  <2>3. (lost > 0) = FALSE
    BY <2>2
  <2>4. (Broken \/ dup > 0) \in BOOLEAN
    OBVIOUS
  <2>5. ~Broken => file.size \in Nat
    BY <2>1, Fields DEF Broken, Strands
  <2>6. \A j \in DOMAIN disk : disk[j] \notin Nat
    BY DEF Init, OldByte
  <2> QED BY <2>2, <2>3, <2>4, <2>5, <2>6 DEF ABS!Init
<1>2. IInv /\ [Next]_vars => [ABS!Next]_(ABS!vars)
  BY StepCopies
<1> QED BY <1>1, <1>2, Invariance, PTL DEF Spec

=============================================================================
