------------------------------ MODULE MCSeals ------------------------------
(* Small instances of Seals.                                               *)
EXTENDS Seals, TLC

Symmetry == Permutations(Request) \cup Permutations(Anchor)
=============================================================================
