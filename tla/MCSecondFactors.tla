-------------------------- MODULE MCSecondFactors --------------------------
(* Small instances of SecondFactors.                                       *)
EXTENDS SecondFactors, TLC

Symmetry == Permutations(Request) \cup Permutations(Pending)
=============================================================================
