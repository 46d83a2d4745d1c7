--------------------------- MODULE MCOneTimeTokens ---------------------------
(* Small instances of OneTimeTokens.                                        *)
EXTENDS OneTimeTokens, TLC

Symmetry == Permutations(Request) \cup Permutations(Token)
=============================================================================
