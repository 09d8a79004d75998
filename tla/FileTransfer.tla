---------------------------- MODULE FileTransfer ----------------------------
(***************************************************************************)
(* The transfer of one file between a client and its session thread        *)
(* (src/dropboxUtils.c): send_file_to on one side and receive_file_from on *)
(* the other, whichever side each one is.  A stop-and-wait protocol: the   *)
(* sender sends a packet of PACKETSIZE - 4 bytes as FILEPKT with a running *)
(* number and a shorter one as LASTPKT with its length, and repeats it     *)
(* until a reply carries the same number; the receiver writes whatever     *)
(* arrives, answers it, and returns after the first packet that is not a   *)
(* FILEPKT.  Neither side has a timeout.                                   *)
(***************************************************************************)
EXTENDS Integers, Sequences

CONSTANTS
    CHUNK,      \* bytes of a full packet, PACKETSIZE - 4
    SHORT,      \* 2^15: seqnum is a short int
    Sizes,      \* sizes of the file to send; -1 if there is no such file
    OldSizes,   \* sizes of the file that the receiver's path already names
    Garbage,    \* what the sender's uninitialised reply may hold
    Opens,      \* whether the receiver's open may work, may fail
    MaxLost,    \* bound: datagrams the network may lose
    MaxDup      \* bound: datagrams the network may deliver twice

Shorts == -SHORT .. SHORT - 1
NotAck == SHORT      \* stands for a reply whose opcode is not ACK
OldByte == -1        \* a byte the destination held before

ASSUME FileTransferAssumption ==
    /\ CHUNK \in Nat \ {0}
    /\ SHORT \in Nat /\ CHUNK < SHORT
    /\ Sizes \subseteq Nat \cup {-1}
    /\ OldSizes \subseteq Nat
    /\ Garbage \subseteq Shorts \cup {NotAck}
    /\ Opens \subseteq BOOLEAN
    /\ MaxLost \in Nat /\ MaxDup \in Nat

VARIABLES
    file,     \* the transfer: source size, old size, garbage, whether open works
    snd,      \* locals of send_file_to
    rcv,      \* locals of receive_file_from
    disk,     \* bytes of the destination, a function on 0 .. n-1
    toRcv,    \* file packets in flight
    toSnd,    \* seqnums of the ACKs in flight
    lost,     \* datagrams lost so far
    dup       \* datagrams duplicated so far

vars == <<file, snd, rcv, disk, toRcv, toSnd, lost, dup>>
network == <<toRcv, toSnd, lost, dup>>

(* The cast (short) i.                                                      *)
ToShort_NoWrap(i) == i
ToShort(i) == ((i + SHORT) % (2 * SHORT)) - SHORT

(* The packets: data is the offset of its first byte in the source.         *)
Packet(op, seq, data) == [op |-> op, seq |-> seq, data |-> data]
NoPacket == Packet("NONE", 0, 0)

Init ==
    /\ file \in [size : Sizes, old : OldSizes, garbage : Garbage, opens : Opens]
    /\ snd = [pc |-> "open", i |-> 1, off |-> 0, reply |-> file.garbage,
              packet |-> NoPacket]
    /\ rcv = [pc |-> "recv", pos |-> 0]
    /\ disk = [j \in 0 .. file.old - 1 |-> OldByte]
    /\ toRcv = <<>> /\ toSnd = <<>>
    /\ lost = 0 /\ dup = 0

-----------------------------------------------------------------------------
(* send_file_to *)

(* open fails for a file that does not exist: -1 is returned and nothing    *)
(* was sent.                                                                *)
SOpen ==
    /\ snd.pc = "open"
    /\ snd' = [snd EXCEPT !.pc = IF file.size = -1 THEN "failed" ELSE "read"]
    /\ UNCHANGED <<file, rcv, disk, network>>

(* read returns a full chunk while there is one.                            *)
SReadChunk ==
    /\ snd.pc = "read"
    /\ file.size - snd.off >= CHUNK
    /\ snd' = [snd EXCEPT !.pc = "test",
                          !.packet = Packet("FILEPKT", ToShort(snd.i), snd.off),
                          !.off = @ + CHUNK]
    /\ UNCHANGED <<file, rcv, disk, network>>

(* read returns what is left, 1 to CHUNK - 1 bytes, or finds an empty file. *)
SReadRest ==
    LET left == file.size - snd.off
    IN  /\ snd.pc = "read"
        /\ left < CHUNK
        /\ left > 0 \/ snd.i = 1
        /\ snd' = [snd EXCEPT !.pc = "test",
                              !.packet = Packet("LASTPKT", left, snd.off),
                              !.off = file.size]
        /\ UNCHANGED <<file, rcv, disk, network>>

(* read returns 0 after some packet: send_file_to returns 0.                *)
SReadEnd ==
    /\ snd.pc = "read"
    /\ file.size = snd.off /\ snd.i > 1
    /\ snd' = [snd EXCEPT !.pc = "returned"]
    /\ UNCHANGED <<file, rcv, disk, network>>

(* The loop test: reply is still the one to the previous packet (or was     *)
(* never set) when a packet is tested for the first time.                   *)
SSend ==
    /\ snd.pc = "test"
    /\ snd.reply # snd.packet.seq
    /\ toRcv' = Append(toRcv, snd.packet)
    /\ snd' = [snd EXCEPT !.pc = "wait"]
    /\ UNCHANGED <<file, rcv, disk, toSnd, lost, dup>>

SWait ==
    /\ snd.pc = "wait"
    /\ toSnd # <<>>
    /\ snd' = [snd EXCEPT !.pc = "test", !.reply = Head(toSnd)]
    /\ toSnd' = Tail(toSnd)
    /\ UNCHANGED <<file, rcv, disk, toRcv, lost, dup>>

SAccept_AnyAck ==
    /\ snd.pc = "test"
    /\ snd.reply # NotAck
    /\ snd' = [snd EXCEPT !.pc = "read", !.i = @ + 1]
    /\ UNCHANGED <<file, rcv, disk, network>>

SAccept ==
    /\ snd.pc = "test"
    /\ snd.reply = snd.packet.seq
    /\ snd' = [snd EXCEPT !.pc = "read", !.i = @ + 1]
    /\ UNCHANGED <<file, rcv, disk, network>>

Sender == SOpen \/ SReadChunk \/ SReadRest \/ SReadEnd \/ SSend \/ SWait \/ SAccept

-----------------------------------------------------------------------------
(* receive_file_from *)

(* Bytes off, off+1, ... of the source at offset p of the destination.      *)
Write(d, p, n, off) ==
    [j \in DOMAIN d \cup p .. p + n - 1 |->
        IF j \in p .. p + n - 1 THEN off + (j - p) ELSE d[j]]

(* One packet: n bytes of it are written, it is answered, and the function  *)
(* returns if it is the last.  open and write may have failed: that is not  *)
(* looked at.                                                               *)
Take(n, last) ==
    /\ rcv.pc = "recv"
    /\ toRcv # <<>>
    /\ IF file.opens
       THEN disk' = Write(disk, rcv.pos, n, Head(toRcv).data)
       ELSE UNCHANGED disk
    /\ rcv' = [pc |-> IF last THEN "returned" ELSE "recv",
               pos |-> IF file.opens THEN rcv.pos + n ELSE rcv.pos]
    /\ toRcv' = Tail(toRcv)
    /\ UNCHANGED <<file, snd, lost, dup>>

Ack == toSnd' = Append(toSnd, Head(toRcv).seq)

IsLast(p) == p.op # "FILEPKT"
Length(p) == IF IsLast(p) THEN p.seq ELSE CHUNK

Receive_FullChunk == Take(CHUNK, IsLast(Head(toRcv))) /\ Ack
Receive_Once == Take(Length(Head(toRcv)), TRUE) /\ Ack
Receive_LastUnanswered ==
    /\ Take(Length(Head(toRcv)), IsLast(Head(toRcv)))
    /\ IF IsLast(Head(toRcv)) THEN UNCHANGED toSnd ELSE Ack

(* A FILEPKT is taken as a full chunk, any other packet as seqnum bytes.    *)
Receive == Take(Length(Head(toRcv)), IsLast(Head(toRcv))) /\ Ack

-----------------------------------------------------------------------------
(* UDP: any datagram in flight may be lost, or delivered once more later.   *)

Without(q, k) == [j \in 1 .. Len(q) - 1 |-> IF j < k THEN q[j] ELSE q[j + 1]]

Lose ==
    /\ lost < MaxLost
    /\ \/ \E k \in DOMAIN toRcv : toRcv' = Without(toRcv, k) /\ UNCHANGED toSnd
       \/ \E k \in DOMAIN toSnd : toSnd' = Without(toSnd, k) /\ UNCHANGED toRcv
    /\ lost' = lost + 1
    /\ UNCHANGED <<file, snd, rcv, disk, dup>>

Duplicate ==
    /\ dup < MaxDup
    /\ \/ \E k \in DOMAIN toRcv : toRcv' = Append(toRcv, toRcv[k]) /\ UNCHANGED toSnd
       \/ \E k \in DOMAIN toSnd : toSnd' = Append(toSnd, toSnd[k]) /\ UNCHANGED toRcv
    /\ dup' = dup + 1
    /\ UNCHANGED <<file, snd, rcv, disk, lost>>

Next == Sender \/ Receive \/ Lose \/ Duplicate

Spec == Init /\ [][Next]_vars

(* Each function runs in a thread that is never blocked but in recvfrom.    *)
FairSpec == Spec /\ WF_vars(Sender) /\ WF_vars(Receive)

-----------------------------------------------------------------------------
(* Which transfers go wrong, by their parameters alone *)

Full == file.size \div CHUNK    \* the FILEPKTs of the file
Rest == file.size % CHUNK       \* the length of its LASTPKT
FirstSeq == IF Full > 0 THEN ToShort(1) ELSE Rest

(* The uninitialised reply happens to acknowledge the first packet.         *)
SkipsFirst == file.size # -1 /\ file.garbage = FirstSeq

(* No LASTPKT ever leaves: the file does not exist; its size is a multiple  *)
(* of CHUNK; or the length of the last packet equals the number of the one  *)
(* before it, whose ACK is still in reply.                                  *)
Strands ==
    \/ file.size = -1
    \/ Full > 0 /\ Rest = 0
    \/ Full > 0 /\ Rest = ToShort(Full)
    \/ Full = 0 /\ SkipsFirst

Broken == Strands \/ SkipsFirst \/ ~file.opens
Clean == ~Broken

(* No two packets of the file have the same seqnum: an ACK that arrives     *)
(* twice cannot be taken for the ACK of another packet.                     *)
DistinctSeqs ==
    /\ \A i, j \in 1 .. Full : ToShort(i) = ToShort(j) => i = j
    /\ \A i \in 1 .. Full : ToShort(i) # Rest

-----------------------------------------------------------------------------
(* Properties *)

TypeOK ==
    /\ file \in [size : Sizes, old : OldSizes, garbage : Garbage, opens : Opens]
    /\ snd.pc \in {"open", "read", "test", "wait", "returned", "failed"}
    /\ snd.i \in Nat \ {0} /\ snd.off \in Nat
    /\ snd.reply \in Shorts \cup {NotAck}
    /\ snd.packet.seq \in Shorts
    /\ rcv.pc \in {"recv", "returned"} /\ rcv.pos \in Nat
    /\ \A k \in DOMAIN toRcv : /\ toRcv[k].op \in {"FILEPKT", "LASTPKT"}
                               /\ toRcv[k].seq \in Shorts
    /\ \A k \in DOMAIN toSnd : toSnd[k] \in Shorts

(* A receiver that returns has the whole file, in order and once, on top of *)
(* what was there; nothing behind the new end is cut off.  True of every    *)
(* transfer but those that start with a skipped packet, fail to open, or    *)
(* meet a duplicated datagram, and whatever is lost.                        *)
Intact ==
    (rcv.pc = "returned" /\ ~SkipsFirst /\ file.opens /\ dup = 0) =>
        /\ \A j \in 0 .. file.size - 1 : disk[j] = j
        /\ \A j \in DOMAIN disk : j >= file.size => j < file.old /\ disk[j] = OldByte

(* When the sender returns 0 every byte has been stored, even if datagrams  *)
(* were lost or delivered twice; the latter may store some bytes twice.     *)
NothingMissing ==
    (snd.pc = "returned" /\ Clean /\ (dup = 0 \/ DistinctSeqs)) =>
        \A b \in 0 .. file.size - 1 : \E j \in 0 .. rcv.pos - 1 : disk[j] = b

(* ... and the receiver has returned as well.                               *)
ReturnTogether ==
    (snd.pc = "returned" /\ ~Strands /\ (dup = 0 \/ DistinctSeqs))
        => rcv.pc = "returned"

(* A receiver whose sender never sends a LASTPKT waits for ever: it takes   *)
(* the next packet that reaches its socket, whatever it is, as file data.   *)
StrandedReceiver == Strands => rcv.pc = "recv"

(* Without loss both sides return, unless the receiver is stranded; the     *)
(* sender always does.                                                      *)
BothReturn ==
    /\ <>(snd.pc \in {"returned", "failed"} \/ lost > 0)
    /\ Strands \/ <>(rcv.pc = "returned" \/ lost > 0)

(* Every transfer implements the abstract copy: it breaks if its parameters *)
(* say so, or when a datagram is duplicated, and stalls when one is lost,   *)
(* as neither side has a timeout.                                           *)
ABS == INSTANCE ChunkedCopy
       WITH size <- file.size, pos <- rcv.pos, open <- (rcv.pc = "recv"),
            stalled <- (lost > 0), broken <- (Broken \/ dup > 0)

CopiesInChunks == ABS!Spec

(* serverTester.c prints "Upload succesful" when send_file_to returns 0.    *)
UploadReported ==
    snd.pc = "returned" =>
        \A b \in 0 .. file.size - 1 : b \in DOMAIN disk /\ disk[b] = b

=============================================================================
