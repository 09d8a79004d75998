---------------------------- MODULE MCSessionNet ----------------------------
(* SessionNet on a small instance.                                         *)
EXTENDS SessionNet, TLC

Symmetry == Permutations(Users) \cup Permutations(Threads) \cup Permutations(Devices)
OneOfEach == [kind \in {"lost", "dup", "vanish"} |-> 1]
OneVanishes == [OneOfEach EXCEPT !["lost"] = 0, !["dup"] = 0]

=============================================================================
