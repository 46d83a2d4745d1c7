-------------------------- MODULE SessionRegister --------------------------
(***************************************************************************)
(* What the session operations of one account promise their callers: which *)
(* sessions are good.  No row, MAC, epoch, generation, lock or transaction *)
(* appears here.  A session is issued once; every operation ends one       *)
(* session, or all of them, or all but one; an ended session never comes   *)
(* back.                                                                   *)
(*                                                                         *)
(* The one exception the documentation makes is kept visible: while a      *)
(* single revocation is being carried out, a session that keeps being      *)
(* extended can outrun it (E-3520), and it ends with the one revoked.      *)
(***************************************************************************)
EXTENDS Naturals

CONSTANTS Session, Standing

VARIABLES
  good,   \* the sessions that would resolve
  spent,  \* the sessions that were good once
  outrun, \* the sessions whose extensions have outrun the revocation being carried out
  masses  \* how many operations have ended every session, or every session but one

registerVars == <<good, spent, outrun, masses>>

RegisterInit ==
  /\ good = Standing
  /\ spent = {}
  /\ outrun = {}
  /\ masses = 0

Becomes(next) ==
  /\ good' = next
  /\ spent' = spent \cup (good \ next)

NeverUsed == Session \ (good \cup spent)

\* a sign-in, which may take the place of the session the browser presented
SignIn(s, presented) ==
  /\ s \in NeverUsed
  /\ Becomes((good \ ({presented} \cup outrun)) \cup {s})
  /\ outrun' = {}
  /\ UNCHANGED masses

\* a revocation, a sign-out, a deadline
End(s) ==
  /\ s \in good
  /\ Becomes(good \ {s})
  /\ UNCHANGED <<outrun, masses>>

\* a revocation that waited for the extensions of the other sessions
EndWithOutrun(S) ==
  /\ \A s, t \in S : s = t
  /\ Becomes(good \ (S \cup outrun))
  /\ outrun' = {}
  /\ UNCHANGED masses

EndEvery ==
  /\ Becomes({})
  /\ outrun' = {}
  /\ masses' = masses + 1

EndEveryOther(s) ==
  /\ Becomes(good \cap {s})
  /\ UNCHANGED outrun
  /\ masses' = masses + 1

\* a password change or a reset signs every session out and one in
EndEveryAndSignIn(s) ==
  /\ s \in NeverUsed
  /\ Becomes({s})
  /\ UNCHANGED outrun
  /\ masses' = masses + 1

Outrun(s) ==
  /\ outrun' = outrun \cup {s}
  /\ UNCHANGED <<good, spent, masses>>

\* a revocation that is rolled back leaves nothing behind
RollBack ==
  /\ outrun' = {}
  /\ UNCHANGED <<good, spent, masses>>

RegisterNext ==
  \/ \E s \in Session :
        \/ \E presented \in Session : SignIn(s, presented)
        \/ End(s) \/ EndEveryOther(s) \/ EndEveryAndSignIn(s) \/ Outrun(s)
  \/ \E S \in SUBSET Session : EndWithOutrun(S)
  \/ EndEvery
  \/ RollBack

RegisterSpec == RegisterInit /\ [][RegisterNext]_registerVars
=============================================================================
