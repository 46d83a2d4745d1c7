----------------------------- MODULE MCRequests -----------------------------
(* Small instances of Requests.                                            *)
EXTENDS Requests, TLC

CONSTANTS i1, i2

\* Accounts in pairs that meet at the alarms or in a rehash.
MCStandings ==
    {i1 :> k[1] @@ i2 :> k[2] : k \in {<<"broken", "copied">>, <<"outdated", "unknown">>}}

Symmetry == Permutations(Request)
=============================================================================
