-------------------------- MODULE MCSealedSessions --------------------------
(* Small instances of SealedSessions.                                      *)
EXTENDS SealedSessions, TLC

Symmetry == Permutations(Request) \cup Permutations(Session \ Standing) \cup Permutations(Standing)
=============================================================================
