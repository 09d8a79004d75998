-------------------------- MODULE MCReplicaManager --------------------------
(* ReplicaManager on a small instance: the replicas are interchangeable.    *)
EXTENDS ReplicaManager, TLC

Symmetry == Permutations(Replicas)
Zeros == [data |-> <<FALSE, FALSE>>, len |-> "ok"]
NoGarbage == {Zeros}
SomeGarbage ==
    {Zeros, [Zeros EXCEPT !.len = "small"], [Zeros EXCEPT !.len = "negative"], [Zeros EXCEPT !.data = <<TRUE, TRUE>>]}
(* Its number is an id, and it erases the host from the list.               *)
AFilePacket == {[seq |-> 1, data |-> <<FALSE, TRUE>>]}

=============================================================================
