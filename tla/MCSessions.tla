----------------------------- MODULE MCSessions -----------------------------
(* Sessions on a small instance: user ids and pool threads are             *)
(* interchangeable.                                                        *)
EXTENDS Sessions, TLC

Symmetry == Permutations(Users) \cup Permutations(Threads)

=============================================================================
