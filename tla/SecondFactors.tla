---------------------------- MODULE SecondFactors ----------------------------
(***************************************************************************)
(* The second factor of one sealed account (src/core/factor/pending,       *)
(* src/core/factor/totp, src/core/factor/recovery, attemptSealOf of        *)
(* src/core/security-state/runtime.ts).                                    *)
(*                                                                         *)
(* A sign-in that needs a second factor leaves a pending row and answers   *)
(* with its token.  Every attempt with that token is booked on the row     *)
(* before a factor is evaluated: a compare-and-swap takes the row's lock,  *)
(* then the account lock is taken and the account's attempt generation     *)
(* moves with the row, so that a booking of one row leaves every sibling   *)
(* behind.  A factor that verifies completes the sign-in in a transaction  *)
(* of its own, which deletes the row and issues the session under the seal *)
(* the factor check read.                                                  *)
(*                                                                         *)
(* Every stretch of a transaction that holds the account lock neither      *)
(* waits nor answers before it commits, and is one step here.  The lock of *)
(* a pending row is held over several.  A statement that deletes a row     *)
(* reads the seal in the snapshot it began with and the row as it finds it *)
(* once nobody holds it.  As in SealedSessions a draw is named by the      *)
(* version of the seal that made it.                                       *)
(***************************************************************************)
EXTENDS Naturals

CONSTANTS
  Request,                 \* the requests an application serves, each one a process
  Pending,                 \* the tokens pending rows are given
  TimeStep,                \* the TOTP time steps within tolerance
  Code,                    \* the recovery codes of one set
  Change,                  \* the account changes that happen meanwhile
  MaximumPendingAttempts,  \* MAXIMUM_PENDING_ATTEMPTS, 5 in the code
  MaximumSealNumber,       \* MAXIMUM_SEAL_NUMBER, 2^53 - 1 in the code
  MaxKey,                  \* bound: how many token MAC key versions there are
  Nobody, NoPending

ASSUME SecondFactorsAssumption ==
  /\ Nobody \notin Request
  /\ NoPending \notin Pending
  /\ MaximumPendingAttempts \in Nat \ {0}
  /\ MaximumSealNumber \in Nat \ {0}
  /\ MaxKey \in Nat \ {0}

VARIABLES
  seal,       \* the committed security_state row
  factors,    \* the sealed components: TOTP secret, recovery codes, whether disabled
  used,       \* the time steps the ledger of the TOTP secret holds
  rows,       \* the committed pending rows
  expired,    \* the pending rows whose deadline has passed
  holder,     \* the request whose open transaction has written a row
  keyNow,     \* the newest version of the token MAC key
  pc,         \* where each request is
  work,       \* what each request remembers
  \* history, read by properties only
  evaluated,  \* how often a factor was evaluated on each pending row
  completed,  \* the pending rows a session was issued for
  spent,      \* the steps and codes an enrolment or a session stands on
  twice,      \* whether a row, a step or a code stood for two of them
  reported    \* the token binding refusals reported, by what they blame

accountVars == <<seal, factors, used>>
history     == <<evaluated, completed, spent, twice, reported>>
vars        == <<accountVars, rows, expired, holder, keyNow, pc, work, history>>

Row == [life: {"unissued", "present", "gone"}, attempts: Nat, epoch: Nat, generation: Nat, key: Nat]

Unissued == [life |-> "unissued", attempts |-> 0, epoch |-> 0, generation |-> 0, key |-> 0]

\* what a verified factor proves: a step of a secret, or a code of a set
Proof == [factor: {"totp", "recovery"}, of: Nat, is: TimeStep \cup Code]

\* what a statement reads of the seal beside a row
Seen == [epoch: Nat, attempt: Nat, last: Pending \cup {NoPending}]

NothingSeen == [epoch |-> 0, attempt |-> 0, last |-> NoPending]

Work == [token: Pending \cup {NoPending}, row: Row, offered: SUBSET {"totp", "recovery"},
         epoch: Nat, components: Nat, proof: SUBSET Proof, seen: Seen]

NoWork == [token |-> NoPending, row |-> Unissued, offered |-> {},
           epoch |-> 0, components |-> 0, proof |-> {}, seen |-> NothingSeen]

Step == {"idle", "offered", "inserting", "booking", "booked", "unsealed", "missed",
         "evaluating", "matched", "failed", "verified", "consuming", "consumed"}

TypeOK ==
  /\ seal \in [version: Nat, epoch: Nat, components: Nat, attempt: Nat,
               last: Pending \cup {NoPending}]
  /\ factors \in [secret: Nat, set: Nat, codes: SUBSET Code, disabled: BOOLEAN]
  /\ used \subseteq TimeStep
  /\ rows \in [Pending -> Row]
  /\ expired \subseteq Pending
  /\ holder \in [Pending -> Request \cup {Nobody}]
  /\ keyNow \in Nat
  /\ pc \in [Request -> Step]
  /\ work \in [Request -> Work]
  /\ evaluated \in [Pending -> Nat]
  /\ completed \subseteq Pending
  /\ spent \subseteq Proof
  /\ twice \in BOOLEAN
  /\ reported \subseteq {"row", "deletion", "factor"}

-----------------------------------------------------------------------------

Exhausted == seal.version >= MaximumSealNumber

Drawn == seal.version + 1

\* a change of a component or a mass revocation renews the components version
Changed == [seal EXCEPT !.version = Drawn, !.components = Drawn]

Raised == [Changed EXCEPT !.epoch = Drawn]

\* a booking keeps what a check before it authorised (E-3527)
Moved(token) == [seal EXCEPT !.version = Drawn, !.attempt = Drawn, !.last = token]

\* epochColumns, generationColumns, as a statement that begins now reads them
SealRead == [epoch |-> seal.epoch, attempt |-> seal.attempt, last |-> seal.last]

\* isOvertaken, generationLeftBehind: the row is of the epoch and generation the statement read
Current(row, read) == row.epoch = read.epoch /\ row.generation = read.attempt

Present(token) == rows[token].life = "present"

Unlocked(token) == holder[token] = Nobody

\* mutation: any row of an older generation is taken for one that was written back
BlameEveryOvertakenRow(token, row, read) ==
  row.epoch = read.epoch /\ row.generation # read.attempt

\* wasWrittenBack: its own booking moved the generation past it
WrittenBack(token, row, read) ==
  /\ row.epoch = read.epoch
  /\ row.generation # read.attempt
  /\ read.last = token

Blame(token, row) ==
  reported' = reported \cup (IF WrittenBack(token, row, SealRead) THEN {"row"} ELSE {})

\* mutation: the second factor's check authorises by its epoch alone
AuthorisedByEpoch(r) == work[r].epoch = seal.epoch

Authorised(r) ==
  /\ work[r].epoch = seal.epoch
  /\ work[r].components = seal.components

\* secondFactorsOf
Available ==
  (IF factors.secret # 0 THEN {"totp"} ELSE {}) \cup (IF factors.codes # {} THEN {"recovery"} ELSE {})

Goto(r, step) == pc' = [pc EXCEPT ![r] = step]

Finish(r) ==
  /\ pc' = [pc EXCEPT ![r] = "idle"]
  /\ work' = [work EXCEPT ![r] = NoWork]

Init ==
  /\ seal = [version |-> 1, epoch |-> 1, components |-> 1, attempt |-> 1, last |-> NoPending]
  /\ factors = [secret |-> 1, set |-> 1, codes |-> Code, disabled |-> FALSE]
  /\ used = {}
  /\ rows = [token \in Pending |-> Unissued]
  /\ expired = {}
  /\ holder = [token \in Pending |-> Nobody]
  /\ keyNow = 1
  /\ pc = [r \in Request |-> "idle"]
  /\ work = [r \in Request |-> NoWork]
  /\ evaluated = [token \in Pending |-> 0]
  /\ completed = {}
  /\ spent = {}
  /\ twice = FALSE
  /\ reported = {}

-----------------------------------------------------------------------------
(* The first factor leaves a pending row.                                  *)

\* the check reads the account once: its epoch and the factors it holds
CheckFirstFactor(r, token) ==
  /\ pc[r] = "idle"
  /\ rows[token] = Unissued
  /\ \A other \in Request : work[other].token # token
  /\ Available # {} /\ ~factors.disabled
  /\ Goto(r, "offered")
  /\ work' = [work EXCEPT ![r] =
       [NoWork EXCEPT !.token = token, !.offered = Available, !.row.epoch = seal.epoch]]
  /\ UNCHANGED <<accountVars, rows, expired, holder, keyNow, history>>

\* begin: the attempt generation is read by a statement of its own
ReadAccountState(r) ==
  /\ pc[r] = "offered"
  /\ Goto(r, "inserting")
  /\ work' = [work EXCEPT ![r].row.generation = seal.attempt]
  /\ UNCHANGED <<accountVars, rows, expired, holder, keyNow, history>>

\* the insert reads the factors again; without one the check read it deletes its row and reports
InsertPending(r) ==
  LET inserted == [work[r].row EXCEPT !.life = "present", !.key = keyNow]
  IN  /\ pc[r] = "inserting"
      /\ IF work[r].offered \subseteq Available
         THEN /\ rows' = [rows EXCEPT ![work[r].token] = inserted]
              /\ UNCHANGED reported
         ELSE /\ rows' = [rows EXCEPT ![work[r].token] = [inserted EXCEPT !.life = "gone"]]
              /\ reported' = reported \cup {"factor"}
      /\ Finish(r)
      /\ UNCHANGED <<accountVars, expired, holder, keyNow, evaluated, completed, spent, twice>>

-----------------------------------------------------------------------------
(* An attempt is booked before a factor is evaluated.                      *)

\* book: row and account are read by one statement and verified
PresentToken(r, token) ==
  /\ pc[r] = "idle"
  /\ Present(token) /\ token \notin expired
  /\ IF Current(rows[token], SealRead) /\ ~factors.disabled /\ rows[token].attempts < MaximumPendingAttempts
     THEN /\ Goto(r, "booking")
          /\ work' = [work EXCEPT ![r] = [NoWork EXCEPT !.token = token, !.row = rows[token]]]
     ELSE UNCHANGED <<pc, work>>
  /\ Blame(token, rows[token])
  /\ UNCHANGED <<accountVars, rows, expired, holder, keyNow, evaluated, completed, spent, twice>>

Unmoved(r) == Present(work[r].token) /\ rows[work[r].token] = work[r].row

\* countAttemptStatement: the row that was checked is written, and locked until the commit;
\* a statement that waited for it judges its deadline by when its transaction began
BookRow(r) ==
  /\ pc[r] = "booking"
  /\ Unmoved(r)
  /\ Unlocked(work[r].token)
  /\ holder' = [holder EXCEPT ![work[r].token] = r]
  /\ Goto(r, "booked")
  /\ UNCHANGED <<accountVars, rows, expired, keyNow, work, history>>

MissRow(r) ==
  /\ pc[r] \in {"booking", "unsealed"}
  /\ ~Unmoved(r) \/ work[r].token \in expired
  /\ Goto(r, "missed")
  /\ UNCHANGED <<accountVars, rows, expired, holder, keyNow, work, history>>

Released(r) == [token \in Pending |-> IF holder[token] = r THEN Nobody ELSE holder[token]]

Counted(row, generation) ==
  [row EXCEPT !.attempts = @ + 1, !.generation = generation, !.key = keyNow]

\* attemptSealOf: under the account lock the generation must be the one the row binds
CommitBooking(r) ==
  LET token == work[r].token
  IN  /\ pc[r] = "booked"
      /\ ~Exhausted
      /\ work[r].row.generation = seal.attempt
      /\ rows' = [rows EXCEPT ![token] = Counted(work[r].row, Drawn)]
      /\ seal' = Moved(token)
      /\ work' = [work EXCEPT ![r].row = rows'[token]]
      /\ holder' = Released(r)
      /\ Goto(r, "evaluating")
      /\ UNCHANGED <<factors, used, expired, keyNow, history>>

\* AttemptGenerationLeft: a sibling's booking was first, and the attempt is answered as missing
RollBackBooking(r) ==
  /\ pc[r] = "booked"
  /\ ~Exhausted
  /\ work[r].row.generation # seal.attempt
  /\ reported' = reported \cup (IF seal.last = work[r].token THEN {"row"} ELSE {})
  /\ holder' = Released(r)
  /\ Finish(r)
  /\ UNCHANGED <<accountVars, rows, expired, keyNow, evaluated, completed, spent, twice>>

\* a seal that refuses the booking still has it counted, in a transaction of its own
RefuseSeal(r) ==
  /\ pc[r] = "booked"
  /\ Exhausted
  /\ holder' = Released(r)
  /\ Goto(r, "unsealed")
  /\ UNCHANGED <<accountVars, rows, expired, keyNow, work, history>>

\* mutation: the row is counted whatever it holds by now
BookOverAnyRow(r) ==
  /\ pc[r] = "unsealed"
  /\ Present(work[r].token)
  /\ Unlocked(work[r].token)
  /\ rows' = [rows EXCEPT ![work[r].token] = Counted(work[r].row, work[r].row.generation)]
  /\ work' = [work EXCEPT ![r].row = rows'[work[r].token]]
  /\ Goto(r, "evaluating")
  /\ UNCHANGED <<accountVars, expired, holder, keyNow, history>>

BookUnsealed(r) ==
  /\ pc[r] = "unsealed"
  /\ Unmoved(r)
  /\ Unlocked(work[r].token)
  /\ rows' = [rows EXCEPT ![work[r].token] = Counted(work[r].row, work[r].row.generation)]
  /\ work' = [work EXCEPT ![r].row = rows'[work[r].token]]
  /\ Goto(r, "evaluating")
  /\ UNCHANGED <<accountVars, expired, holder, keyNow, history>>

\* a concurrent booking or a rebinding, not a writer
Advanced(row, reread) ==
  \/ reread.attempts > row.attempts
  \/ (reread.attempts = row.attempts /\ reread.key > row.key)

\* mutation: the retry follows the row it read first
FollowTheOldRow(r) ==
  LET token == work[r].token
      reread == rows[token]
  IN  /\ pc[r] = "missed"
      /\ IF Present(token) /\ token \notin expired /\ Current(reread, SealRead)
            /\ Advanced(work[r].row, reread)
         THEN Goto(r, "booking") /\ UNCHANGED work
         ELSE Finish(r)
      /\ UNCHANGED <<accountVars, rows, expired, holder, keyNow, history>>

\* afterMissedBooking: the booking follows a row that advanced and has budget left
RereadRow(r) ==
  LET token == work[r].token
      reread == rows[token]
      found == Present(token) /\ token \notin expired
  IN  /\ pc[r] = "missed"
      /\ IF found /\ Current(reread, SealRead) /\ Advanced(work[r].row, reread)
            /\ reread.attempts < MaximumPendingAttempts
         THEN Goto(r, "booking") /\ work' = [work EXCEPT ![r].row = reread]
         ELSE Finish(r)
      /\ reported' = reported \cup
           (IF found /\ (WrittenBack(token, reread, SealRead)
                         \/ (Current(reread, SealRead) /\ ~Advanced(work[r].row, reread)))
            THEN {"row"} ELSE {})
      /\ UNCHANGED <<accountVars, rows, expired, holder, keyNow, evaluated, completed, spent, twice>>

-----------------------------------------------------------------------------
(* The factor is evaluated.                                                *)

Evaluated(token) == evaluated' = [evaluated EXCEPT ![token] = @ + 1]

\* verifyUnderPendingAttemptLimit: whatever is wrong with the factor, the attempt has failed
RejectFactor(r) ==
  /\ pc[r] = "evaluating"
  /\ Evaluated(work[r].token)
  /\ Goto(r, "failed")
  /\ UNCHANGED <<accountVars, rows, expired, holder, keyNow, work, completed, spent, twice, reported>>

\* totp.verify: the code matches a step of the secret the checked read holds
MatchStep(r, step) ==
  /\ pc[r] = "evaluating"
  /\ factors.secret # 0
  /\ Evaluated(work[r].token)
  /\ Goto(r, "matched")
  /\ work' = [work EXCEPT ![r].epoch = seal.epoch, ![r].components = seal.components,
                          ![r].proof = {[factor |-> "totp", of |-> factors.secret, is |-> step]}]
  /\ UNCHANGED <<accountVars, rows, expired, holder, keyNow, completed, spent, twice, reported>>

StepOf(r) == (CHOOSE proof \in work[r].proof : TRUE).is

\* mutation: a replayed step is recorded again and accepted
AcceptAnyStep(r) ==
  /\ pc[r] = "matched"
  /\ used' = used \cup {StepOf(r)}
  /\ Goto(r, "verified")
  /\ UNCHANGED <<seal, factors, rows, expired, holder, keyNow, work, history>>

\* claimStepStatement: a step the ledger holds already is a replay
ClaimStep(r) ==
  /\ pc[r] = "matched"
  /\ used' = used \cup {StepOf(r)}
  /\ Goto(r, IF StepOf(r) \in used THEN "failed" ELSE "verified")
  /\ UNCHANGED <<seal, factors, rows, expired, holder, keyNow, work, history>>

\* recovery.verify: the code is spent and the account resealed, which authorises the session
SpendCode(r, code) ==
  /\ pc[r] = "evaluating"
  /\ ~Exhausted
  /\ code \in factors.codes
  /\ factors' = [factors EXCEPT !.codes = @ \ {code}]
  /\ seal' = Changed
  /\ Evaluated(work[r].token)
  /\ Goto(r, "verified")
  /\ work' = [work EXCEPT ![r].epoch = seal.epoch, ![r].components = Drawn,
                          ![r].proof = {[factor |-> "recovery", of |-> factors.set, is |-> code]}]
  /\ UNCHANGED <<used, rows, expired, holder, keyNow, completed, spent, twice, reported>>

Deleted(token) ==
  IF Present(token) /\ token \notin expired THEN [rows EXCEPT ![token].life = "gone"] ELSE rows

\* failed: the last attempt takes the row with it
FailAttempt(r) ==
  /\ pc[r] = "failed"
  /\ IF work[r].row.attempts >= MaximumPendingAttempts
     THEN Unlocked(work[r].token) /\ rows' = Deleted(work[r].token)
     ELSE UNCHANGED rows
  /\ Finish(r)
  /\ UNCHANGED <<accountVars, expired, holder, keyNow, history>>

-----------------------------------------------------------------------------
(* A verified factor completes the sign-in.                                *)

\* consume: the deletion reads the seal in the snapshot it begins with
BeginConsume(r) ==
  LET token == work[r].token
  IN  /\ pc[r] = "verified"
      /\ IF Present(token) /\ token \notin expired
         THEN Goto(r, "consuming") /\ work' = [work EXCEPT ![r].seen = SealRead]
         ELSE Finish(r)
      /\ UNCHANGED <<accountVars, rows, expired, holder, keyNow, history>>

\* it waits for whoever has written the row and takes the row as it is then, which stays locked
\* until the session is issued; verified judges that row by the seal of the snapshot
ConsumePending(r) ==
  LET token == work[r].token
      row == rows[token]
      seen == work[r].seen
  IN  /\ pc[r] = "consuming"
      /\ Unlocked(token)
      /\ IF Present(token) /\ Current(row, seen)
         THEN /\ holder' = [holder EXCEPT ![token] = r]
              /\ Goto(r, "consumed")
              /\ UNCHANGED work
         ELSE /\ Finish(r)
              /\ UNCHANGED holder
      /\ reported' = reported \cup
           (IF Present(token) /\ WrittenBack(token, row, seen) THEN {"deletion"} ELSE {})
      /\ UNCHANGED <<accountVars, rows, expired, keyNow, evaluated, completed, spent, twice>>

\* complete: under the account lock the session is issued on the seal the factor check read, or
\* the transaction rolls back and the pending row stays
IssueSession(r) ==
  /\ pc[r] = "consumed"
  /\ IF Authorised(r)
     THEN /\ rows' = [rows EXCEPT ![work[r].token].life = "gone"]
          /\ completed' = completed \cup {work[r].token}
          /\ spent' = spent \cup work[r].proof
          /\ twice' = (twice \/ work[r].token \in completed \/ work[r].proof \cap spent # {})
     ELSE UNCHANGED <<rows, completed, spent, twice>>
  /\ holder' = Released(r)
  /\ Finish(r)
  /\ UNCHANGED <<accountVars, expired, keyNow, evaluated, reported>>

-----------------------------------------------------------------------------
(* What happens to the account and the rows meanwhile.                     *)

Reseals(change) == change \in Change /\ ~Exhausted

\* revokeAll, a password change, a reset
RevokeEvery ==
  /\ Reseals("revokeEvery")
  /\ seal' = Raised
  /\ UNCHANGED <<factors, used, rows, expired, holder, keyNow, pc, work, history>>

SetDisabled(disabled) ==
  /\ Reseals("setDisabled")
  /\ factors.disabled # disabled
  /\ factors' = [factors EXCEPT !.disabled = disabled]
  /\ seal' = Changed
  /\ UNCHANGED <<used, rows, expired, holder, keyNow, pc, work, history>>

\* totp.remove: the secret goes with its ledger
RemoveTotp(step) ==
  /\ Reseals("totp")
  /\ factors.secret # 0
  /\ step \notin used
  /\ factors' = [factors EXCEPT !.secret = 0]
  /\ used' = {}
  /\ seal' = Changed
  /\ spent' = spent \cup {[factor |-> "totp", of |-> factors.secret, is |-> step]}
  /\ UNCHANGED <<rows, expired, holder, keyNow, pc, work, evaluated, completed, twice, reported>>

\* totp.enroll: the step that confirms a new secret is claimed too
EnrolTotp(step) ==
  /\ Reseals("totp")
  /\ factors.secret = 0
  /\ step \notin used
  /\ factors' = [factors EXCEPT !.secret = Drawn]
  /\ used' = used \cup {step}
  /\ seal' = Changed
  /\ spent' = spent \cup {[factor |-> "totp", of |-> Drawn, is |-> step]}
  /\ UNCHANGED <<rows, expired, holder, keyNow, pc, work, evaluated, completed, twice, reported>>

\* recovery.generate: a new set replaces the old one
GenerateCodes ==
  /\ Reseals("recovery")
  /\ factors' = [factors EXCEPT !.set = Drawn, !.codes = Code]
  /\ seal' = Changed
  /\ UNCHANGED <<used, rows, expired, holder, keyNow, pc, work, history>>

\* cancel, and the sweep of expired rows
Cancel(token) ==
  /\ "cancel" \in Change
  /\ Present(token) /\ Unlocked(token)
  /\ rows' = [rows EXCEPT ![token].life = "gone"]
  /\ UNCHANGED <<accountVars, expired, holder, keyNow, pc, work, history>>

Expire(token) ==
  /\ "expire" \in Change
  /\ Present(token) /\ token \notin expired
  /\ expired' = expired \cup {token}
  /\ UNCHANGED <<accountVars, rows, holder, keyNow, pc, work, history>>

RotateKey ==
  /\ keyNow < MaxKey
  /\ keyNow' = keyNow + 1
  /\ UNCHANGED <<accountVars, rows, expired, holder, pc, work, history>>

\* rebindRow: a compare-and-swap on the row it read, which leaves a row that moved
Rebind(token) ==
  /\ Present(token) /\ Unlocked(token)
  /\ rows[token].key < keyNow
  /\ rows' = [rows EXCEPT ![token].key = keyNow]
  /\ UNCHANGED <<accountVars, expired, holder, keyNow, pc, work, history>>

\* the process or its connection is lost: an open transaction rolls back
Crash(r) ==
  /\ pc[r] # "idle"
  /\ holder' = Released(r)
  /\ Finish(r)
  /\ UNCHANGED <<accountVars, rows, expired, keyNow, history>>

-----------------------------------------------------------------------------

Proceed(r) ==
  \/ ReadAccountState(r) \/ InsertPending(r)
  \/ BookRow(r) \/ MissRow(r) \/ CommitBooking(r) \/ RollBackBooking(r) \/ RefuseSeal(r)
  \/ BookUnsealed(r) \/ RereadRow(r)
  \/ RejectFactor(r)
  \/ \E step \in TimeStep : MatchStep(r, step)
  \/ \E code \in Code : SpendCode(r, code)
  \/ ClaimStep(r) \/ FailAttempt(r)
  \/ BeginConsume(r) \/ ConsumePending(r) \/ IssueSession(r)

Environment ==
  \/ RevokeEvery
  \/ \E disabled \in BOOLEAN : SetDisabled(disabled)
  \/ \E step \in TimeStep : RemoveTotp(step) \/ EnrolTotp(step)
  \/ GenerateCodes
  \/ \E token \in Pending : Cancel(token) \/ Expire(token) \/ Rebind(token)
  \/ RotateKey
  \/ \E r \in Request : Crash(r)

Next ==
  \/ \E r \in Request :
        \/ \E token \in Pending : CheckFirstFactor(r, token) \/ PresentToken(r, token)
        \/ Proceed(r)
  \/ Environment

Spec == Init /\ [][Next]_vars

\* PostgreSQL grants row locks in the order they were asked for
Fairness == \A r \in Request : SF_vars(Proceed(r))

FairSpec == Spec /\ Fairness

-----------------------------------------------------------------------------
(* Properties.                                                             *)

\* No factor is evaluated before its attempt is counted on the row, and none beyond the budget,
\* however attempts, crashes, rebindings and refused seals interleave (E-3140).
AttemptsAreCounted ==
  \A token \in Pending :
    /\ evaluated[token] <= rows[token].attempts
    /\ rows[token].attempts <= MaximumPendingAttempts

\* A pending row, a time step of one secret and a recovery code of one set each stand for one
\* session at most, also when two requests present them at once and when the ledger of steps
\* was cleared in between (S-FIX-1, S-REPLAY-4).
OneSessionPerProof == ~twice

\* A row its own booking moved the generation past was written back, a sibling's booking only
\* overtook it (the comment on wasWrittenBack, E-3519): where only the library writes, no
\* pending row is reported.
NoRowIsBlamed == reported \cap {"row", "deletion"} = {}

\* Where only the library writes, a missed or a rolled back booking and a presented token never
\* blame a row (E-3140, E-3519), and a deletion blames one only if another attempt on the same row
\* was booked between its snapshot and its lock.
OnlyRacingDeletionsAreBlamed ==
  [][/\ "row" \notin reported'
     /\ "deletion" \in reported' \ reported => \E r \in Request :
          /\ pc[r] = "consuming" /\ Present(work[r].token)
          /\ rows[work[r].token].generation > work[r].seen.attempt]_vars

\* A factor the check of a sign-in read and the insert of its pending row no longer finds was
\* removed past the seal (E-3515).
NoFactorIsBlamed == "factor" \notin reported

Held(proof) ==
  proof.of = IF proof.factor = "totp" THEN factors.secret ELSE factors.set

\* A session is issued only while both factors stand: no mass revocation since the first was
\* checked, and the secret or set of codes the second was checked against still the account's
\* (E-3484, E-3527).
CompletionStandsOnBothFactors ==
  [][\A token \in completed' \ completed : \E r \in Request :
       /\ work[r].token = token
       /\ rows[token].epoch = seal.epoch
       /\ \A proof \in work[r].proof : Held(proof)]_vars

\* A sign-in on a disabled account is answered like one with a wrong factor (L-4).
NoSessionWhileDisabled == [][factors.disabled => completed' = completed]_vars

\* Every attempt is answered: the booking that follows a row other requests keep moving ends.
EveryAttemptIsAnswered == \A r \in Request : pc[r] # "idle" ~> pc[r] = "idle"

=============================================================================
