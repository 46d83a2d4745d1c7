----------------------------- MODULE MCAccounts -----------------------------
(* Small instances of Accounts.                                            *)
EXTENDS Accounts, TLC

Symmetry == Permutations(Request)

CONSTANTS u1, u2, u3, x1, x2, c1

\* For instances without sign-ups: all the kinds of account there can be at first.
WaysAtFirst == {{}, {Password}, {Password, x1}, {x1, c1}}
=============================================================================
