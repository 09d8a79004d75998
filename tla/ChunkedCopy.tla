----------------------------- MODULE ChunkedCopy -----------------------------
(***************************************************************************)
(* What a file transfer promises: the bytes of the source are written to   *)
(* the destination in order, each exactly once, from its first byte on,    *)
(* and the destination is closed when all of them are there.  What the     *)
(* destination held beyond the source's size stays (it is not truncated).  *)
(* Byte k of the source is written as the number k.                        *)
(*                                                                         *)
(* The copy may stall for good, and then what is written is still right;   *)
(* or it may break, and then nothing more is promised.                     *)
(***************************************************************************)
EXTENDS Integers

CONSTANT CHUNK   \* bytes of a full packet

VARIABLES
    size,   \* of the source
    disk,   \* the destination's bytes, a function on 0 .. n-1
    pos,    \* where the next byte goes
    open,   \* the destination has not been closed
    stalled,  \* the copy need not go on
    broken    \* nothing is promised

vars == <<size, disk, pos, open, stalled, broken>>

(* Bytes off, off+1, ... of the source at offset p of the destination.     *)
Write(d, p, n, off) ==
    [j \in DOMAIN d \cup p .. p + n - 1 |->
        IF j \in p .. p + n - 1 THEN off + (j - p) ELSE d[j]]

Init ==
    /\ stalled = FALSE
    /\ broken \in BOOLEAN
    /\ ~broken => /\ size \in Nat
                  /\ \A j \in DOMAIN disk : disk[j] \notin Nat
                  /\ pos = 0
                  /\ open = TRUE

WriteChunk ==
    /\ open /\ pos + CHUNK <= size
    /\ disk' = Write(disk, pos, CHUNK, pos)
    /\ pos' = pos + CHUNK
    /\ UNCHANGED <<size, open>>

WriteRest ==
    /\ open /\ size - pos < CHUNK
    /\ disk' = Write(disk, pos, size - pos, pos)
    /\ pos' = size
    /\ open' = FALSE
    /\ UNCHANGED size

Copy ==
    /\ ~broken
    /\ WriteChunk \/ WriteRest
    /\ UNCHANGED <<stalled, broken>>

Stall ==
    /\ stalled' = TRUE
    /\ UNCHANGED <<size, disk, pos, open, broken>>

Break == broken' = TRUE   \* and the rest is anything

Next == Copy \/ Stall \/ Break

Spec == Init /\ [][Next]_vars /\ WF_vars(~stalled /\ Copy)

=============================================================================
