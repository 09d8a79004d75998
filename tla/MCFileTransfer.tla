-------------------------- MODULE MCFileTransfer --------------------------
(* FileTransfer on small packets and a narrow short, so that running       *)
(* numbers wrap and collide with lengths within a few packets.             *)
EXTENDS FileTransfer

LossySizes == (-1 .. 14) \cup {29}   \* 29: packets 1 and 9 have the same number
AnyGarbage == {NotAck, 0, 1, 2}
NoGarbage == {NotAck}
SmallOld == {0, 2, 16}
NoOld == {0}

===========================================================================
