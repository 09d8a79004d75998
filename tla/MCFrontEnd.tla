----------------------------- MODULE MCFrontEnd -----------------------------
(* A small instance of FrontEnd for TLC.  Clients are interchangeable.       *)
EXTENDS FrontEnd, TLC
CONSTANTS c1, c2, c3
ThreeClients == {c1, c2, c3}
Symmetry == Permutations(Clients)
=============================================================================
