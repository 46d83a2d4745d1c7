------------------------ MODULE SealedSessionsProofs ------------------------
(***************************************************************************)
(* Theorems about SealedSessions for every number of requests and sessions *)
(* and every length of behaviour.                                          *)
(*                                                                         *)
(* The argument for NoSessionOutlivesItsCheck: a mass revocation raises    *)
(* the epoch above every epoch a row, a draft or a check has seen, so a    *)
(* row under the current epoch was issued, or kept, after it; and while a  *)
(* transaction holds the lock nobody else moves the epoch, the era or the  *)
(* password, so what it has drafted is as current at its commit as when it *)
(* was written.  The steps fall into four kinds: those that raise the      *)
(* epoch, those that open a transaction, those that commit one under the   *)
(* same epoch, and those that do none of these.  One lemma covers each.    *)
(***************************************************************************)
EXTENDS SealedSessions, TLAPS

\* The check request p made is still the account's: no mass revocation or password change since.
Current(p) == work[p].era = era /\ work[p].password = account.password

\* A request that will use an id holds one.
Remembered ==
  \A p \in Request :
    /\ pc[p] \in {"resolved", "keeping", "changing", "rekeying", "extending", "extended"}
         => work[p].subject \in Session
    /\ pc[p] \in {"checked", "presenting", "issuing", "completing", "changing", "linking"}
         => work[p].fresh \in Session

\* No row and no check is ahead of the account's epoch.
EpochOrder ==
  /\ seal.epoch <= seal.version
  /\ \A s \in Session : rows[s].epoch <= seal.epoch
  /\ \A s \in touched : draft[s].epoch <= seal.epoch
  /\ \A p \in Request : work[p].epoch <= seal.epoch

\* Whatever its generation, a present row under the current epoch stands on a current check.
Vouching ==
  \A s \in Session :
    rows[s].life = "present" /\ rows[s].epoch = seal.epoch
      => vouch[s] = [era |-> era, password |-> account.password]

\* A check that still has the account's epoch is current, and so is what an open issue goes by.
ChecksHold ==
  \A p \in Request :
    /\ pc[p] \in {"checked", "presenting", "issuing", "completing"} /\ work[p].epoch = seal.epoch
         => Current(p)
    /\ pc[p] \in {"following", "linking"} /\ work[p].fresh \in Session => Current(p)

\* Exactly the request inside a transaction holds the lock, and only it has a draft.
LockHeld ==
  /\ \A p \in Request : pc[p] \in {"following", "linking", "keeping"} <=> lock = p
  /\ lock = Nobody => touched = {}

\* A row the open transaction leaves present was present before under the same epoch, unless
\* it is the one the transaction issues.
DraftHonest ==
  \A s \in touched :
    draft[s].life = "present" =>
      \/ rows[s].life = "present" /\ draft[s].epoch = rows[s].epoch
      \/ pc[lock] = "following" /\ s = work[lock].fresh

\* The kept session still stands on the account's password.
KeptHonest ==
  \A p \in Request : pc[p] = "keeping" => vouch[work[p].subject].password = account.password

TypeInv == TypeOK /\ Remembered

Inside == {"following", "linking", "keeping"}

IssueInv == EpochOrder /\ Vouching /\ ChecksHold /\ LockHeld /\ DraftHonest /\ KeptHonest

-----------------------------------------------------------------------------
(* Lemmas about the operators.                                             *)

SealRow == [version: Nat, epoch: Nat, components: Nat, generation: Nat]

\* The seals a change writes are seals.
LEMMA SealType ==
  ASSUME TypeOK
  PROVE  /\ Drawn \in Nat /\ Drawn > seal.version
         /\ Raised \in SealRow /\ Moved \in SealRow /\ Changed \in SealRow
         /\ [seal EXCEPT !.version = Drawn] \in SealRow
         /\ [Moved EXCEPT !.components = Drawn] \in SealRow
<1>1. seal \in SealRow
  BY DEF TypeOK, SealRow
<1>2. Drawn \in Nat /\ Drawn > seal.version
  BY <1>1 DEF SealRow, Drawn
<1>3. Raised \in SealRow /\ Moved \in SealRow /\ Changed \in SealRow
      /\ [seal EXCEPT !.version = Drawn] \in SealRow
  BY <1>1, <1>2 DEF SealRow, Raised, Moved, Changed
<1>4. [Moved EXCEPT !.components = Drawn] \in SealRow
  BY <1>2, <1>3 DEF SealRow
<1> QED
  BY <1>2, <1>3, <1>4

AccountRow == [password: Nat, phc: Nat, disabled: BOOLEAN]

\* A changed account is an account.
LEMMA AccountType ==
  ASSUME TypeOK
  PROVE  /\ account \in AccountRow /\ account.password \in Nat /\ account.phc \in Nat
         /\ [account EXCEPT !.password = @ + 1, !.phc = @ + 1] \in AccountRow
         /\ [account EXCEPT !.phc = @ + 1] \in AccountRow
         /\ \A disabled \in BOOLEAN : [account EXCEPT !.disabled = disabled] \in AccountRow
<1>1. ASSUME NEW Flag, NEW row \in [password: Nat, phc: Nat, disabled: Flag]
      PROVE  /\ row.password \in Nat /\ row.phc \in Nat
             /\ [row EXCEPT !.password = @ + 1, !.phc = @ + 1]
                  \in [password: Nat, phc: Nat, disabled: Flag]
             /\ [row EXCEPT !.phc = @ + 1] \in [password: Nat, phc: Nat, disabled: Flag]
             /\ \A disabled \in Flag :
                  [row EXCEPT !.disabled = disabled] \in [password: Nat, phc: Nat, disabled: Flag]
  <2>1. row.password \in Nat /\ row.phc \in Nat
    OBVIOUS
  <2>2. [row EXCEPT !.phc = @ + 1] \in [password: Nat, phc: Nat, disabled: Flag]
    BY <2>1
  <2>3. [row EXCEPT !.password = @ + 1, !.phc = @ + 1] \in [password: Nat, phc: Nat, disabled: Flag]
    <3>1. \A v, w \in Nat :
            [row EXCEPT !.password = v, !.phc = w] \in [password: Nat, phc: Nat, disabled: Flag]
      OBVIOUS
    <3>2. row.password + 1 \in Nat /\ row.phc + 1 \in Nat
      BY <2>1
    <3>3. [row EXCEPT !.password = row.password + 1, !.phc = row.phc + 1]
            \in [password: Nat, phc: Nat, disabled: Flag]
      BY <3>1, <3>2
    <3> QED
      BY <3>3
  <2>4. ASSUME NEW disabled \in Flag
        PROVE  [row EXCEPT !.disabled = disabled] \in [password: Nat, phc: Nat, disabled: Flag]
    OBVIOUS
  <2> QED
    BY <2>1, <2>2, <2>3, <2>4
<1>2. account \in AccountRow
  BY DEF TypeOK, AccountRow
<1> QED
  BY <1>1, <1>2 DEF AccountRow

\* What statements see and what deletes leave are rows.
LEMMA RowType ==
  ASSUME TypeOK
  PROVE  /\ Unissued \in Row /\ Blank \in [Session -> Row]
         /\ \A epoch, generation \in Nat : NewRow(epoch, generation) \in Row
         /\ \A s \in Session : Seen(s) \in Row /\ [rows[s] EXCEPT !.life = "gone"] \in Row
         /\ \A S : Removed(S) \in [Session -> Row]
         /\ NoWork \in Work
         /\ Drawable \subseteq Session /\ Present \subseteq Session
<1>1. Unissued \in Row /\ Blank \in [Session -> Row]
  BY DEF Unissued, Row, Blank
<1>2. \A epoch, generation \in Nat : NewRow(epoch, generation) \in Row
  BY DEF TypeOK, NewRow, Row
<1>3. \A s \in Session : Seen(s) \in Row
  BY DEF TypeOK, Seen
<1>4. \A s \in Session : [rows[s] EXCEPT !.life = "gone"] \in Row
  <2>1. \A row \in Row : [row EXCEPT !.life = "gone"] \in Row
    BY DEF Row
  <2>2. \A s \in Session : rows[s] \in Row
    BY DEF TypeOK
  <2> QED
    BY <2>1, <2>2
<1>5. \A S : Removed(S) \in [Session -> Row]
  BY <1>4 DEF TypeOK, Removed
<1>6. NoWork \in Work
  BY <1>1 DEF NoWork, Work
<1>7. Drawable \subseteq Session /\ Present \subseteq Session
  BY DEF Drawable, Present
<1> QED
  BY <1>1, <1>2, <1>3, <1>4, <1>5, <1>6, <1>7

\* A rewritten row is a row.
LEMMA RowUpdate ==
  ASSUME NEW row \in Row, NEW n \in Nat, NEW k \in Nat
  PROVE  /\ [row EXCEPT !.generation = n, !.key = k] \in Row
         /\ [row EXCEPT !.epoch = n, !.key = k] \in Row
         /\ [row EXCEPT !.key = k] \in Row
         /\ [row EXCEPT !.idle = @ + 1, !.key = k] \in Row
<1>1. /\ [row EXCEPT !.generation = n, !.key = k] \in Row
      /\ [row EXCEPT !.epoch = n, !.key = k] \in Row
      /\ [row EXCEPT !.key = k] \in Row
  BY DEF Row
<1>2. [row EXCEPT !.idle = @ + 1, !.key = k] \in Row
  <2>1. row.idle + 1 \in Nat
    BY DEF Row
  <2>2. \A i \in Nat : [row EXCEPT !.idle = i, !.key = k] \in Row
    BY DEF Row
  <2>3. [row EXCEPT !.idle = row.idle + 1, !.key = k] \in Row
    BY <2>1, <2>2
  <2> QED
    BY <2>3
<1> QED
  BY <1>1, <1>2

\* A request that has finished remembers nothing.
LEMMA FinishType ==
  ASSUME TypeInv, NEW p \in Request, Finish(p)
  PROVE  /\ pc' \in [Request -> Step] /\ work' \in [Request -> Work]
         /\ Remembered'
<1>1. pc' \in [Request -> Step]
  BY DEF TypeInv, TypeOK, Finish, Step
<1>2. work' \in [Request -> Work]
  BY RowType DEF TypeInv, TypeOK, Finish
<1>3. Remembered'
  BY DEF TypeInv, TypeOK, Remembered, Finish, NoWork
<1> QED
  BY <1>1, <1>2, <1>3

\* A transaction that has ended leaves nothing open.
LEMMA ReleaseType ==
  ASSUME TypeOK, Release
  PROVE  /\ lock' \in Request \cup {Nobody} /\ touched' \subseteq Session
         /\ draft' \in [Session -> Row] /\ todo' \subseteq Session
         /\ copy' \in [Session -> Row] /\ tries' \in [Session -> Nat]
  BY RowType DEF Release

\* A revocation opens its transaction on rows of the account.
LEMMA OpenType ==
  ASSUME TypeOK, NEW p \in Request, NEW deleted \in SUBSET Session,
         NEW inserted \in SUBSET Session, NEW excluded, Open(p, deleted, inserted, excluded)
  PROVE  /\ lock' \in Request \cup {Nobody} /\ touched' \subseteq Session
         /\ draft' \in [Session -> Row] /\ todo' \subseteq Session
         /\ copy' \in [Session -> Row] /\ tries' \in [Session -> Nat]
<1>1. /\ NewRow(seal.epoch, seal.generation) \in Row /\ Unissued \in Row
      /\ \A s \in Session : rows[s] \in Row /\ [rows[s] EXCEPT !.life = "gone"] \in Row
      /\ Present \subseteq Session
  BY RowType DEF TypeOK
<1> QED
  BY <1>1 DEF Open

\* A credential change leaves rows, a seal and an account.
LEMMA ReplaceType ==
  ASSUME TypeOK, NEW fresh, ReplaceEverySession(fresh)
  PROVE  /\ rows' \in [Session -> Row] /\ account' \in AccountRow
         /\ seal' \in SealRow /\ era' \in Nat
         /\ vouch' \in [Session -> [era: Nat, password: Nat]]
         /\ refused' \subseteq Session /\ untold' \subseteq Session
<1>1. NewRow(Drawn, seal.generation) \in Row /\ Removed(Present) \in [Session -> Row]
  BY RowType, SealType DEF TypeOK
<1>2. rows' \in [Session -> Row]
  BY <1>1 DEF ReplaceEverySession
<1>3. seal' \in SealRow
  BY SealType DEF ReplaceEverySession
<1>4. account' \in AccountRow
  BY AccountType DEF ReplaceEverySession
<1>5. era' \in Nat /\ vouch' \in [Session -> [era: Nat, password: Nat]]
  <2>1. era \in Nat /\ account.password \in Nat /\ vouch \in [Session -> [era: Nat, password: Nat]]
    BY AccountType DEF TypeOK
  <2>2. [era |-> era + 1, password |-> account.password + 1] \in [era: Nat, password: Nat]
    BY <2>1
  <2> QED
    BY <2>1, <2>2 DEF ReplaceEverySession
<1>6. refused' \subseteq Session /\ untold' \subseteq Session
  BY RowType DEF TypeOK, ReplaceEverySession
<1> QED
  BY <1>2, <1>3, <1>4, <1>5, <1>6

-----------------------------------------------------------------------------
(* Type correctness.                                                       *)

\* Every step keeps every variable in its type.
LEMMA TypeStep ==
  ASSUME TypeInv, [Next]_vars
  PROVE  TypeInv'
<1>1. ASSUME NEW p \in Request, NEW s \in Session, Swap(p, s) PROVE TypeInv'
  <2>1. TypeOK'
    <3>1. [copy[s] EXCEPT !.generation = Drawn, !.key = keyNow] \in Row
      BY RowUpdate, SealType DEF TypeInv, TypeOK
    <3> QED
      BY <1>1, <3>1 DEF TypeInv, TypeOK, Swap, dbVars, history
  <2>2. Remembered'
    BY <1>1 DEF TypeInv, TypeOK, Remembered, Swap, dbVars, txVars, history
  <2> QED
    BY <2>1, <2>2 DEF TypeInv
<1>2. ASSUME NEW p \in Request, NEW s \in Session, Reread(p, s) PROVE TypeInv'
  <2>1. TypeOK'
    <3>1. Seen(s) \in Row
      BY RowType DEF TypeInv
    <3>2. /\ copy' \in [Session -> Row] /\ tries' \in [Session -> Nat] /\ todo' \subseteq Session
      BY <1>2, <3>1 DEF TypeInv, TypeOK, Reread
    <3> QED
      BY <1>2, <3>2 DEF TypeInv, TypeOK, Reread, dbVars, history
  <2>2. Remembered'
    BY <1>2 DEF TypeInv, TypeOK, Remembered, Reread, dbVars, txVars, history
  <2> QED
    BY <2>1, <2>2 DEF TypeInv
<1>3. ASSUME NEW p \in Request, NEW s \in Session, LeaveUnverified(p, s) PROVE TypeInv'
  <2>1. TypeOK'
    BY <1>3 DEF TypeInv, TypeOK, SealRow, AccountRow, LeaveUnverified, dbVars, txVars, history
  <2>2. Remembered'
    BY <1>3 DEF TypeInv, TypeOK, Remembered, LeaveUnverified, dbVars, txVars, history
  <2> QED
    BY <2>1, <2>2 DEF TypeInv
<1>4. ASSUME NEW p \in Request, CommitRevocation(p) PROVE TypeInv'
  <2>1. TypeOK'
    BY <1>4, RowType, SealType, FinishType, ReleaseType DEF TypeInv, TypeOK, SealRow, AccountRow, CommitRevocation, Vouched, Abandoned, Work, dbVars, txVars, history
  <2>2. Remembered'
    BY <1>4, FinishType DEF TypeInv, TypeOK, Remembered, CommitRevocation, Vouched, Abandoned, Work, dbVars, txVars, history
  <2> QED
    BY <2>1, <2>2 DEF TypeInv
<1>5. ASSUME NEW p \in Request, NEW presented \in Session \cup {NoSession}, NEW fresh \in Drawable, CheckPassword(p, presented, fresh) PROVE TypeInv'
  <2>1. TypeOK'
    BY <1>5, RowType DEF TypeInv, TypeOK, SealRow, AccountRow, CheckPassword, Begins, NoWork, Work, Step, dbVars, txVars, history
  <2>2. Remembered'
    BY <1>5, RowType DEF TypeInv, TypeOK, Remembered, CheckPassword, Begins, NoWork, Work, Step, dbVars, txVars, history
  <2> QED
    BY <2>1, <2>2 DEF TypeInv
<1>6. ASSUME NEW p \in Request, ReadPresentedOwner(p) PROVE TypeInv'
  <2>1. TypeOK'
    BY <1>6 DEF TypeInv, TypeOK, SealRow, AccountRow, ReadPresentedOwner, Goto, Step, dbVars, txVars, history
  <2>2. Remembered'
    BY <1>6 DEF TypeInv, TypeOK, Remembered, ReadPresentedOwner, Goto, Step, dbVars, txVars, history
  <2> QED
    BY <2>1, <2>2 DEF TypeInv
<1>7. ASSUME NEW p \in Request, CompleteSecondFactor(p) PROVE TypeInv'
  <2>1. [work[p] EXCEPT !.components = seal.components] \in Work
    <3>1. work[p] \in Work /\ seal.components \in Nat
      BY DEF TypeInv, TypeOK
    <3> QED
      BY <3>1 DEF Work
  <2>2. work' \in [Request -> Work]
    BY <1>7, <2>1 DEF TypeInv, TypeOK, CompleteSecondFactor
  <2>3. TypeOK'
    BY <1>7, <2>2 DEF TypeInv, TypeOK, SealRow, AccountRow, CompleteSecondFactor, Goto, Step, dbVars, txVars, history
  <2>4. \A q \in Request : work'[q].subject = work[q].subject /\ work'[q].fresh = work[q].fresh
    BY <1>7 DEF TypeInv, TypeOK, CompleteSecondFactor, Work
  <2>5. Remembered'
    BY <1>7, <2>4 DEF TypeInv, TypeOK, Remembered, CompleteSecondFactor, Goto, Step
  <2> QED
    BY <2>3, <2>5 DEF TypeInv
<1>8. ASSUME NEW p \in Request, Issue(p) PROVE TypeInv'
  <2>1. TypeOK'
    <3>1. Vouched(p) \in [era: Nat, password: Nat]
      BY DEF TypeInv, TypeOK, Work, Vouched
    <3>2. NewRow(work[p].epoch, seal.generation) \in Row
      BY RowType DEF TypeInv, TypeOK, Work
    <3>3. \A s \in Session : rows[s] \in Row /\ [rows[s] EXCEPT !.life = "gone"] \in Row
      BY RowType DEF TypeInv, TypeOK
    <3>4. rows' \in [Session -> Row]
      <4>1. CASE Authorised(p)
        BY <1>8, <4>1, <3>2, <3>3 DEF Issue, InsertReplacing
      <4>2. CASE ~Authorised(p)
        BY <1>8, <4>2 DEF TypeInv, TypeOK, Issue
      <4> QED
        BY <4>1, <4>2
    <3>5. vouch' \in [Session -> [era: Nat, password: Nat]]
      BY <1>8, <3>1 DEF TypeInv, TypeOK, Issue, InsertReplacing
    <3> QED
      BY <1>8, <3>4, <3>5, FinishType DEF TypeInv, TypeOK, Issue, txVars
  <2>2. Remembered'
    BY <1>8, FinishType DEF TypeInv, TypeOK, Remembered, Issue, InsertReplacing, Vouched, Work, dbVars, txVars, history
  <2> QED
    BY <2>1, <2>2 DEF TypeInv
<1>9. ASSUME NEW p \in Request, RevokePresented(p) PROVE TypeInv'
  <2>1. TypeOK'
    <3>1. /\ lock' \in Request \cup {Nobody} /\ touched' \subseteq Session
          /\ draft' \in [Session -> Row] /\ todo' \subseteq Session
          /\ copy' \in [Session -> Row] /\ tries' \in [Session -> Nat]
      <4>1. CASE Authorised(p)
        <5>1. Present \cap {work[p].subject} \in SUBSET Session /\ {work[p].fresh} \in SUBSET Session
          BY <1>9, RowType DEF TypeInv, Remembered, RevokePresented
        <5> QED
          BY <1>9, <4>1, <5>1, OpenType DEF TypeInv, RevokePresented
      <4>2. CASE ~Authorised(p)
        BY <1>9, <4>2 DEF TypeInv, TypeOK, RevokePresented, txVars
      <4> QED
        BY <4>1, <4>2
    <3>2. pc' \in [Request -> Step] /\ work' \in [Request -> Work]
      BY <1>9, FinishType DEF TypeInv, TypeOK, RevokePresented, Goto, Step
    <3> QED
      BY <1>9, <3>1, <3>2 DEF TypeInv, TypeOK, RevokePresented, dbVars, history
  <2>2. Remembered'
    BY <1>9, FinishType DEF TypeInv, TypeOK, Remembered, RevokePresented, Goto, Step, dbVars, txVars, history
  <2> QED
    BY <2>1, <2>2 DEF TypeInv
<1>10. ASSUME NEW p \in Request, NEW s \in Session, Revoke(p, s) PROVE TypeInv'
  <2>1. TypeOK'
    <3>1. /\ lock' \in Request \cup {Nobody} /\ touched' \subseteq Session
          /\ draft' \in [Session -> Row] /\ todo' \subseteq Session
          /\ copy' \in [Session -> Row] /\ tries' \in [Session -> Nat]
      <4>1. CASE Exhausted
        BY <1>10, <4>1 DEF TypeInv, TypeOK, Revoke, txVars
      <4>2. CASE ~Exhausted
        <5>1. {s} \in SUBSET Session /\ {} \in SUBSET Session
          OBVIOUS
        <5> QED
          BY <1>10, <4>2, <5>1, OpenType DEF TypeInv, Revoke
      <4> QED
        BY <4>1, <4>2
    <3>2. pc' \in [Request -> Step] /\ work' \in [Request -> Work]
      <4>1. [NoWork EXCEPT !.subject = s] \in Work
        BY RowType DEF TypeInv, Work
      <4>2. pc' \in [Request -> Step]
        BY <1>10 DEF TypeInv, TypeOK, Revoke, Goto, Step
      <4>3. work' = work \/ work' = [work EXCEPT ![p] = [NoWork EXCEPT !.subject = s]]
        BY <1>10 DEF Revoke
      <4> QED
        BY <4>1, <4>2, <4>3 DEF TypeInv, TypeOK
    <3>3. rows' \in [Session -> Row]
      BY <1>10, RowType DEF TypeInv, TypeOK, Revoke
    <3> QED
      BY <1>10, <3>1, <3>2, <3>3 DEF TypeInv, TypeOK, Revoke, history
  <2>2. Remembered'
    BY <1>10 DEF TypeInv, TypeOK, Remembered, Revoke, Begins, Goto, Step, NoWork, Work, dbVars, txVars, history
  <2> QED
    BY <2>1, <2>2 DEF TypeInv
<1>11. ASSUME NEW p \in Request, RevokeEvery(p) PROVE TypeInv'
  <2>1. TypeOK'
    BY <1>11, RowType, SealType DEF TypeInv, TypeOK, SealRow, AccountRow, RevokeEvery, Begins, dbVars, txVars, history
  <2>2. Remembered'
    BY <1>11 DEF TypeInv, TypeOK, Remembered, RevokeEvery, Begins, dbVars, txVars, history
  <2> QED
    BY <2>1, <2>2 DEF TypeInv
<1>12. ASSUME NEW p \in Request, NEW s \in Session, ResolveKept(p, s) PROVE TypeInv'
  <2>1. TypeOK'
    BY <1>12, RowType DEF TypeInv, TypeOK, SealRow, AccountRow, ResolveKept, Begins, Goto, Step, NoWork, Work, dbVars, txVars, history
  <2>2. Remembered'
    BY <1>12 DEF TypeInv, TypeOK, Remembered, ResolveKept, Begins, Goto, Step, NoWork, Work, dbVars, txVars, history
  <2> QED
    BY <2>1, <2>2 DEF TypeInv
<1>13. ASSUME NEW p \in Request, DeleteOthers(p) PROVE TypeInv'
  <2>1. TypeOK'
    <3> DEFINE kept == work[p].subject
    <3>1. kept \in Session /\ rows[kept] \in Row
      BY <1>13 DEF TypeInv, TypeOK, Remembered, DeleteOthers
    <3>2. copy' \in [Session -> Row]
      BY <1>13, <3>1, RowType DEF TypeInv, DeleteOthers
    <3>3. draft' \in [Session -> Row]
      BY <1>13, RowType DEF TypeInv, DeleteOthers
    <3> QED
      BY <1>13, <3>1, <3>2, <3>3, RowType DEF TypeInv, TypeOK, DeleteOthers, Goto, Step, dbVars, history
  <2>2. Remembered'
    BY <1>13 DEF TypeInv, TypeOK, Remembered, DeleteOthers, Goto
  <2> QED
    BY <2>1, <2>2 DEF TypeInv
<1>33. ASSUME NEW p \in Request, DeleteUnverifiedKept(p) PROVE TypeInv'
  <2>1. TypeOK'
    BY <1>33, RowType, SealType, FinishType DEF TypeInv, TypeOK, SealRow, AccountRow, DeleteUnverifiedKept, txVars
  <2>2. Remembered'
    BY <1>33, FinishType DEF DeleteUnverifiedKept
  <2> QED
    BY <2>1, <2>2 DEF TypeInv
<1>34. ASSUME NEW p \in Request, RefuseRevocation(p) PROVE TypeInv'
  <2>1. TypeOK'
    BY <1>34, FinishType DEF TypeInv, TypeOK, SealRow, AccountRow, RefuseRevocation, dbVars, txVars, history
  <2>2. Remembered'
    BY <1>34, FinishType DEF RefuseRevocation
  <2> QED
    BY <2>1, <2>2 DEF TypeInv
<1>14. ASSUME NEW p \in Request, SwapKept(p) PROVE TypeInv'
  <2>1. TypeOK'
    <3>1. \A s \in Session : [copy[s] EXCEPT !.epoch = Drawn, !.key = keyNow] \in Row
      BY RowUpdate, SealType DEF TypeInv, TypeOK
    <3>2. rows' \in [Session -> Row]
      BY <1>14, <3>1, RowType DEF TypeInv, SwapKept
    <3>3. era + 1 \in Nat
      BY DEF TypeInv, TypeOK
    <3>4. vouch' \in [Session -> [era: Nat, password: Nat]]
      <4>1. vouch \in [Session -> [era: Nat, password: Nat]]
        BY DEF TypeInv, TypeOK
      <4>2. \A s \in Session : [vouch[s] EXCEPT !.era = era + 1] \in [era: Nat, password: Nat]
        BY <3>3, <4>1
      <4>3. vouch' = [vouch EXCEPT ![work[p].subject] = [vouch[work[p].subject] EXCEPT !.era = era + 1]]
        BY <1>14 DEF SwapKept
      <4> QED  BY <4>1, <4>2, <4>3
    <3>5. seal' \in SealRow /\ era' \in Nat /\ refused' \subseteq Session
      BY <1>14, <3>3, SealType DEF TypeInv, TypeOK, SwapKept
    <3> QED
      BY <1>14, <3>2, <3>4, <3>5, FinishType, ReleaseType DEF TypeInv, TypeOK, SealRow, SwapKept
  <2>2. Remembered'
    BY <1>14, FinishType DEF TypeInv, TypeOK, Remembered, SwapKept, dbVars, txVars, history
  <2> QED
    BY <2>1, <2>2 DEF TypeInv
<1>15. ASSUME NEW p \in Request, RereadKept(p) PROVE TypeInv'
  <2>1. TypeOK'
    BY <1>15, RowType DEF TypeInv, TypeOK, SealRow, AccountRow, RereadKept, dbVars, txVars, history
  <2>2. Remembered'
    BY <1>15 DEF TypeInv, TypeOK, Remembered, RereadKept, dbVars, txVars, history
  <2> QED
    BY <2>1, <2>2 DEF TypeInv
<1>16. ASSUME NEW p \in Request, DeleteKept(p) PROVE TypeInv'
  <2>1. TypeOK'
    BY <1>16, RowType, SealType, FinishType, ReleaseType DEF TypeInv, TypeOK, SealRow, AccountRow, DeleteKept, dbVars, txVars, history
  <2>2. Remembered'
    BY <1>16, FinishType DEF TypeInv, TypeOK, Remembered, DeleteKept, dbVars, txVars, history
  <2> QED
    BY <2>1, <2>2 DEF TypeInv
<1>17. ASSUME NEW p \in Request, NEW s \in Session, NEW fresh \in Drawable, CheckOldPassword(p, s, fresh) PROVE TypeInv'
  <2>1. TypeOK'
    BY <1>17, RowType, AccountType DEF TypeInv, TypeOK, SealRow, AccountRow, CheckOldPassword, Begins, Goto, Step, NoWork, Work, dbVars, txVars, history
  <2>2. Remembered'
    BY <1>17, RowType DEF TypeInv, TypeOK, Remembered, CheckOldPassword, Begins, Goto, Step, NoWork, Work, dbVars, txVars, history
  <2> QED
    BY <2>1, <2>2 DEF TypeInv
<1>18. ASSUME NEW p \in Request, ChangePassword(p) PROVE TypeInv'
  <2>1. TypeOK'
    BY <1>18, FinishType, ReplaceType DEF TypeInv, TypeOK, SealRow, AccountRow, ChangePassword, dbVars, txVars, history
  <2>2. Remembered'
    BY <1>18, FinishType DEF TypeInv, TypeOK, Remembered, ChangePassword, dbVars, txVars, history
  <2> QED
    BY <2>1, <2>2 DEF TypeInv
<1>19. ASSUME NEW p \in Request, NEW fresh \in Drawable, ResetPassword(p, fresh) PROVE TypeInv'
  <2>1. TypeOK'
    BY <1>19, ReplaceType, SealType, RowType DEF TypeInv, TypeOK, SealRow, AccountRow, ResetPassword, Begins, dbVars, txVars, history
  <2>2. Remembered'
    BY <1>19 DEF TypeInv, TypeOK, Remembered, ResetPassword, Begins, dbVars, txVars, history
  <2> QED
    BY <2>1, <2>2 DEF TypeInv
<1>20. ASSUME NEW p \in Request, NEW s \in Session, NEW fresh \in Drawable, BeginLink(p, s, fresh) PROVE TypeInv'
  <2>1. TypeOK'
    BY <1>20, RowType, OpenType, AccountType DEF TypeInv, TypeOK, SealRow, AccountRow, BeginLink, Begins, Goto, Step, NoWork, Work, dbVars, txVars, history
  <2>2. Remembered'
    BY <1>20, RowType DEF TypeInv, TypeOK, Remembered, BeginLink, Begins, Goto, Step, NoWork, Work, dbVars, txVars, history
  <2> QED
    BY <2>1, <2>2 DEF TypeInv
<1>21. ASSUME NEW p \in Request, CommitLink(p) PROVE TypeInv'
  <2>1. TypeOK'
    <3>1. Vouched(p) \in [era: Nat, password: Nat]
      BY DEF TypeInv, TypeOK, Work, Vouched
    <3>2. NewRow(seal.epoch, Drawn) \in Row
      BY RowType, SealType DEF TypeInv, TypeOK
    <3>3. \A s \in Session : Seen(s) \in Row /\ [rows[s] EXCEPT !.life = "gone"] \in Row
      BY RowType DEF TypeInv
    <3>4. /\ rows' \in [Session -> Row] /\ vouch' \in [Session -> [era: Nat, password: Nat]]
          /\ seal' \in SealRow /\ left' \subseteq Session /\ refused' \subseteq Session
      <4>1. CASE work[p].subject \in Present
        <5>1. rows' \in [Session -> Row]
          <6>1. rows' = [s \in Session |->
                          IF s = work[p].fresh THEN NewRow(seal.epoch, Drawn)
                          ELSE IF s = work[p].subject THEN [rows[s] EXCEPT !.life = "gone"]
                          ELSE Seen(s)]
            BY <1>21, <4>1 DEF CommitLink
          <6> QED
            BY <6>1, <3>2, <3>3
        <5>2. vouch' \in [Session -> [era: Nat, password: Nat]]
          <6>1. vouch' = [vouch EXCEPT ![work[p].fresh] = Vouched(p)]
            BY <1>21, <4>1 DEF CommitLink
          <6> QED
            BY <6>1, <3>1 DEF TypeInv, TypeOK
        <5>3. seal' \in SealRow
          BY <1>21, <4>1, SealType DEF TypeInv, CommitLink
        <5>4. left' \subseteq Session /\ refused' \subseteq Session
          BY <1>21, <4>1 DEF TypeInv, TypeOK, CommitLink, Abandoned, Present
        <5> QED
          BY <5>1, <5>2, <5>3, <5>4
      <4>2. CASE work[p].subject \notin Present
        BY <1>21, <4>2 DEF TypeInv, TypeOK, SealRow, CommitLink
      <4> QED
        BY <4>1, <4>2
    <3> QED
      BY <1>21, <3>3, <3>4, FinishType, ReleaseType DEF TypeInv, TypeOK, SealRow, CommitLink
  <2>2. Remembered'
    BY <1>21, FinishType DEF TypeInv, TypeOK, Remembered, CommitLink, Vouched, Abandoned, Work, dbVars, txVars, history
  <2> QED
    BY <2>1, <2>2 DEF TypeInv
<1>22. ASSUME NEW disabled \in BOOLEAN, SetDisabled(disabled) PROVE TypeInv'
  <2>1. TypeOK'
    BY <1>22, SealType, AccountType DEF TypeInv, TypeOK, SealRow, AccountRow, SetDisabled, dbVars, txVars, history
  <2>2. Remembered'
    BY <1>22 DEF TypeInv, TypeOK, Remembered, SetDisabled, dbVars, txVars, history
  <2> QED
    BY <2>1, <2>2 DEF TypeInv
<1>23. ASSUME Rehash PROVE TypeInv'
  <2>1. TypeOK'
    BY <1>23, SealType, AccountType DEF TypeInv, TypeOK, SealRow, AccountRow, Rehash, dbVars, txVars, history
  <2>2. Remembered'
    BY <1>23 DEF TypeInv, TypeOK, Remembered, Rehash, dbVars, txVars, history
  <2> QED
    BY <2>1, <2>2 DEF TypeInv
<1>24. ASSUME NEW p \in Request, NEW s \in Session, Resolve(p, s) PROVE TypeInv'
  <2>1. TypeOK'
    BY <1>24, RowType DEF TypeInv, TypeOK, SealRow, AccountRow, Resolve, Begins, Goto, Step, NoWork, Work, dbVars, txVars, history
  <2>2. Remembered'
    BY <1>24 DEF TypeInv, TypeOK, Remembered, Resolve, Begins, Goto, Step, NoWork, Work, dbVars, txVars, history
  <2> QED
    BY <2>1, <2>2 DEF TypeInv
<1>25. ASSUME NEW p \in Request, Rekey(p) PROVE TypeInv'
  <2>1. TypeOK'
    <3>1. [work[p].row EXCEPT !.key = keyNow] \in Row
      BY RowUpdate DEF TypeInv, TypeOK, Work
    <3>2. rows' \in [Session -> Row]
      BY <1>25, <3>1 DEF TypeInv, TypeOK, Rekey
    <3> QED
      BY <1>25, <3>2 DEF TypeInv, TypeOK, Rekey, Goto, Step, txVars, history
  <2>2. Remembered'
    BY <1>25 DEF TypeInv, TypeOK, Remembered, Rekey, Goto, Step, dbVars, txVars, history
  <2> QED
    BY <2>1, <2>2 DEF TypeInv
<1>26. ASSUME NEW p \in Request, AnswerUnextended(p) PROVE TypeInv'
  <2>1. TypeOK'
    BY <1>26, FinishType DEF TypeInv, TypeOK, SealRow, AccountRow, AnswerUnextended, dbVars, txVars, history
  <2>2. Remembered'
    BY <1>26, FinishType DEF TypeInv, TypeOK, Remembered, AnswerUnextended, dbVars, txVars, history
  <2> QED
    BY <2>1, <2>2 DEF TypeInv
<1>27. ASSUME NEW p \in Request, ReadToExtend(p) PROVE TypeInv'
  <2>1. TypeOK'
    <3>1. work[p].subject \in Session
      BY <1>27 DEF TypeInv, Remembered, ReadToExtend
    <3>2. [work[p] EXCEPT !.row = rows[work[p].subject]] \in Work
      BY <3>1, SMTT(30) DEF TypeInv, TypeOK, Work
    <3>3. pc' \in [Request -> Step] /\ work' \in [Request -> Work]
      BY <1>27, <3>2, FinishType, SMTT(30) DEF TypeInv, TypeOK, ReadToExtend, Goto, Step
    <3> QED
      BY <1>27, <3>3 DEF TypeInv, TypeOK, ReadToExtend, dbVars, txVars, history
  <2>2. Remembered'
    <3>1. CASE Verifies(rows[work[p].subject])
      BY <1>27, <3>1, SMTT(30) DEF TypeInv, TypeOK, Remembered, ReadToExtend, Goto, Work
    <3>2. CASE ~Verifies(rows[work[p].subject])
      BY <1>27, <3>2, FinishType DEF ReadToExtend
    <3> QED
      BY <3>1, <3>2
  <2> QED
    BY <2>1, <2>2 DEF TypeInv
<1>28. ASSUME NEW p \in Request, Extend(p) PROVE TypeInv'
  <2>1. TypeOK'
    <3>1. [work[p].row EXCEPT !.idle = @ + 1, !.key = keyNow] \in Row
      BY RowUpdate DEF TypeInv, TypeOK, Work
    <3>2. rows' \in [Session -> Row]
      BY <1>28, <3>1 DEF TypeInv, TypeOK, Extend
    <3> QED
      BY <1>28, <3>2, FinishType DEF TypeInv, TypeOK, Extend, txVars, history
  <2>2. Remembered'
    BY <1>28, FinishType DEF TypeInv, TypeOK, Remembered, Extend, Row, dbVars, txVars, history
  <2> QED
    BY <2>1, <2>2 DEF TypeInv
<1>29. ASSUME NEW s \in Session, Expire(s) PROVE TypeInv'
  <2>1. TypeOK'
    BY <1>29 DEF TypeInv, TypeOK, SealRow, AccountRow, Expire, Present, dbVars, txVars, history
  <2>2. Remembered'
    BY <1>29 DEF TypeInv, TypeOK, Remembered, Expire, Present, dbVars, txVars, history
  <2> QED
    BY <2>1, <2>2 DEF TypeInv
<1>30. ASSUME NEW s \in Session, Sweep(s) PROVE TypeInv'
  <2>1. TypeOK'
    BY <1>30, RowType DEF TypeInv, TypeOK, SealRow, AccountRow, Sweep, dbVars, txVars, history
  <2>2. Remembered'
    BY <1>30 DEF TypeInv, TypeOK, Remembered, Sweep, dbVars, txVars, history
  <2> QED
    BY <2>1, <2>2 DEF TypeInv
<1>31. ASSUME RotateKey PROVE TypeInv'
  <2>1. TypeOK'
    BY <1>31 DEF TypeInv, TypeOK, SealRow, AccountRow, RotateKey, dbVars, txVars, history
  <2>2. Remembered'
    BY <1>31 DEF TypeInv, TypeOK, Remembered, RotateKey, dbVars, txVars, history
  <2> QED
    BY <2>1, <2>2 DEF TypeInv
<1>32. ASSUME NEW p \in Request, Crash(p) PROVE TypeInv'
  <2>1. TypeOK'
    BY <1>32, FinishType, ReleaseType DEF TypeInv, TypeOK, SealRow, AccountRow, Crash, dbVars, txVars, history
  <2>2. Remembered'
    BY <1>32, FinishType DEF TypeInv, TypeOK, Remembered, Crash, dbVars, txVars, history
  <2> QED
    BY <2>1, <2>2 DEF TypeInv
<1>40. CASE UNCHANGED vars
  BY <1>40 DEF TypeInv, TypeOK, Remembered, vars, dbVars, txVars, history
<1>41. CASE Next
  <2>1. ASSUME NEW p \in Request, Ask(p) PROVE TypeInv'
    BY <2>1, <1>5, <1>10, <1>11, <1>12, <1>17, <1>19, <1>20, <1>24 DEF Ask
  <2>2. ASSUME NEW p \in Request, Proceed(p) PROVE TypeInv'
    BY <2>2, <1>1, <1>2, <1>3, <1>4, <1>6, <1>7, <1>8, <1>9, <1>13, <1>14, <1>15, <1>16, <1>18,
       <1>21, <1>25, <1>26, <1>27, <1>28, <1>33, <1>34 DEF Proceed
  <2>3. CASE Environment
    BY <2>3, <1>22, <1>23, <1>29, <1>30, <1>31, <1>32 DEF Environment
  <2> QED
    BY <1>41, <2>1, <2>2, <2>3 DEF Next
<1> QED
  BY <1>40, <1>41

\* Every variable always has its type, for every set of requests and sessions (the state the
\* whole protocol of src/core/db/repositories/session.ts runs over).
THEOREM TypeCorrect == Spec => []TypeOK
<1>1. Init => TypeInv
  <2>1. Init => TypeOK
    BY SessionsAssumption DEF Init, TypeOK, NewRow, Unissued, Row, NoWork, Work, Step
  <2>2. Init => Remembered
    BY DEF Init, Remembered
  <2> QED
    BY <2>1, <2>2 DEF TypeInv
<1>2. TypeInv /\ [Next]_vars => TypeInv'
  BY TypeStep
<1>3. TypeInv => TypeOK
  BY DEF TypeInv
<1> QED
  BY <1>1, <1>2, <1>3, PTL DEF Spec

-----------------------------------------------------------------------------
(* What a check, a row and a draft have seen of the epoch.                 *)

\* The numbers in the seals a change writes.
LEMMA SealFields ==
  ASSUME TypeInv
  PROVE  /\ seal.epoch \in Nat /\ seal.version \in Nat /\ Drawn \in Nat /\ Drawn = seal.version + 1
         /\ Raised.epoch = Drawn /\ Raised.version = Drawn
         /\ Moved.epoch = seal.epoch /\ Moved.version = Drawn
         /\ Changed.epoch = seal.epoch /\ Changed.version = Drawn
         /\ [seal EXCEPT !.version = Drawn].epoch = seal.epoch
         /\ [seal EXCEPT !.version = Drawn].version = Drawn
         /\ [Moved EXCEPT !.components = Drawn].epoch = seal.epoch
         /\ [Moved EXCEPT !.components = Drawn].version = Drawn
<1>1. seal \in SealRow
  BY DEF TypeInv, TypeOK, SealRow
<1>2. seal.epoch \in Nat /\ seal.version \in Nat /\ Drawn \in Nat /\ Drawn = seal.version + 1
  BY <1>1 DEF SealRow, Drawn
<1>3. /\ Raised.epoch = Drawn /\ Raised.version = Drawn
      /\ Moved.epoch = seal.epoch /\ Moved.version = Drawn
      /\ Changed.epoch = seal.epoch /\ Changed.version = Drawn
      /\ [seal EXCEPT !.version = Drawn].epoch = seal.epoch
      /\ [seal EXCEPT !.version = Drawn].version = Drawn
  BY <1>1, <1>2 DEF SealRow, Raised, Moved, Changed
<1>4. /\ [Moved EXCEPT !.components = Drawn].epoch = seal.epoch
      /\ [Moved EXCEPT !.components = Drawn].version = Drawn
  BY <1>1, <1>2 DEF SealRow, Moved
<1> QED
  BY <1>2, <1>3, <1>4

\* The types of what the invariant speaks of.
LEMMA RowFields ==
  ASSUME TypeInv
  PROVE  /\ touched \subseteq Session /\ todo \subseteq Session
         /\ pc \in [Request -> Step] /\ work \in [Request -> Work]
         /\ rows \in [Session -> Row] /\ draft \in [Session -> Row] /\ copy \in [Session -> Row]
         /\ \A s \in Session : rows[s].epoch \in Nat /\ draft[s].epoch \in Nat
         /\ \A p \in Request : work[p].epoch \in Nat
         /\ vouch \in [Session -> [era: Nat, password: Nat]]
         /\ era \in Nat /\ account.password \in Nat
  BY AccountType DEF TypeInv, TypeOK, Row, Work

\* A transaction opens with deleted rows, and the row it issues under the current epoch, in its draft.
LEMMA OpenDraft ==
  ASSUME TypeInv, lock = Nobody, NEW p \in Request, NEW deleted \in SUBSET Session,
         NEW inserted \in SUBSET Session, NEW excluded, Open(p, deleted, inserted, excluded)
  PROVE  /\ lock' = p /\ touched' = deleted \cup inserted
         /\ \A s \in touched' : IF s \in inserted THEN draft'[s].epoch = seal.epoch
                                ELSE /\ draft'[s].epoch = rows[s].epoch
                                     /\ draft'[s].life = "gone"
<1>1. lock' = p /\ touched' = deleted \cup inserted
  BY DEF Open
<1>2. ASSUME NEW s \in touched'
      PROVE  draft'[s] = IF s \in inserted THEN NewRow(seal.epoch, seal.generation)
                         ELSE [rows[s] EXCEPT !.life = "gone"]
  BY <1>1, <1>2 DEF Open
<1>3. NewRow(seal.epoch, seal.generation).epoch = seal.epoch
  BY DEF NewRow
<1>4. \A s \in Session : /\ [rows[s] EXCEPT !.life = "gone"].epoch = rows[s].epoch
                         /\ [rows[s] EXCEPT !.life = "gone"].life = "gone"
  BY RowFields DEF Row
<1> QED
  BY <1>1, <1>2, <1>3, <1>4

\* A deleted row keeps its epoch, and a new one has the epoch it is given.
LEMMA RowChanges ==
  ASSUME TypeInv, NEW s \in Session
  PROVE  /\ [rows[s] EXCEPT !.life = "gone"].epoch = rows[s].epoch
         /\ [rows[s] EXCEPT !.life = "gone"].life = "gone"
         /\ \A S : /\ Removed(S)[s].epoch = rows[s].epoch
                    /\ Removed(S)[s].life = "present" <=> (rows[s].life = "present" /\ s \notin S)
         /\ \A epoch, generation : NewRow(epoch, generation).epoch = epoch
<1>1. /\ [rows[s] EXCEPT !.life = "gone"].epoch = rows[s].epoch
      /\ [rows[s] EXCEPT !.life = "gone"].life = "gone"
  BY RowFields DEF Row
<1>2. ASSUME NEW S
      PROVE  /\ Removed(S)[s].epoch = rows[s].epoch
             /\ Removed(S)[s].life = "present" <=> (rows[s].life = "present" /\ s \notin S)
  BY <1>1 DEF Removed
<1>3. \A epoch, generation : NewRow(epoch, generation).epoch = epoch
  BY DEF NewRow
<1> QED
  BY <1>1, <1>2, <1>3

\* A raised epoch is above everything that has been seen.
LEMMA Outdated ==
  ASSUME TypeInv, IssueInv
  PROVE  /\ seal.epoch < Drawn
         /\ \A s \in Session : rows[s].epoch < Drawn
         /\ \A s \in touched : draft[s].epoch < Drawn
         /\ \A p \in Request : work[p].epoch < Drawn
  BY SealFields, RowFields DEF IssueInv, EpochOrder

\* A credential change leaves one row present, under the epoch it draws.
LEMMA ReplaceFields ==
  ASSUME TypeInv, NEW fresh \in Session, ReplaceEverySession(fresh), NEW s \in Session
  PROVE  IF s = fresh
         THEN /\ rows'[s].epoch = Drawn
              /\ vouch'[s] = [era |-> era', password |-> account'.password]
         ELSE rows'[s].epoch = rows[s].epoch /\ rows'[s].life # "present"
<1>1. CASE s = fresh
  <2>1. rows'[s] = NewRow(Drawn, seal.generation)
    BY <1>1 DEF ReplaceEverySession
  <2>2. vouch'[s] = [era |-> era + 1, password |-> account.password + 1]
    BY <1>1, RowFields DEF ReplaceEverySession
  <2>3. era' = era + 1 /\ account'.password = account.password + 1
    BY AccountType DEF TypeInv, ReplaceEverySession, AccountRow
  <2> QED
    BY <1>1, <2>1, <2>2, <2>3, RowChanges
<1>2. CASE s # fresh
  <2>1. rows'[s] = IF s \in Present THEN [rows[s] EXCEPT !.life = "gone"] ELSE rows[s]
    BY <1>2 DEF ReplaceEverySession, Removed
  <2>2. s \in Present <=> rows[s].life = "present"
    BY DEF Present
  <2> QED
    BY <1>2, <2>1, <2>2, RowChanges
<1> QED
  BY <1>1, <1>2

\* While nobody holds the lock no request is inside a transaction; otherwise one is.
LEMMA OneInside ==
  ASSUME IssueInv, NEW p \in Request
  PROVE  /\ lock = Nobody => touched = {} /\ pc[p] \notin Inside
         /\ lock \in Request /\ lock # p => pc[p] \notin Inside
  BY SessionsAssumption DEF IssueInv, LockHeld, Inside

-----------------------------------------------------------------------------
(* The four kinds of step.                                                 *)

\* A step that raises the epoch and leaves nobody inside a transaction: no check has the new
\* epoch, and a row that has it was vouched for by the step.
LEMMA RaisingStep ==
  ASSUME TypeInv, TypeInv', IssueInv,
         seal' = Raised, lock' = Nobody, touched' = {},
         \A q \in Request : pc'[q] \notin Inside /\ work'[q].epoch < Drawn,
         \A s \in Session :
           \/ rows'[s].life # "present" /\ rows'[s].epoch <= Drawn
           \/ rows'[s].epoch < Drawn
           \/ /\ rows'[s].epoch = Drawn
              /\ vouch'[s] = [era |-> era', password |-> account'.password]
  PROVE  IssueInv'
<1>1. Drawn \in Nat /\ seal'.epoch = Drawn /\ seal'.version = Drawn
  BY SealFields
<1>2. \A s \in Session : rows'[s].epoch \in Nat
  BY DEF TypeInv, TypeOK, Row
<1>3. \A q \in Request : work'[q].epoch \in Nat
  BY DEF TypeInv, TypeOK, Work
<1>4. EpochOrder'
  BY <1>1, <1>2, <1>3 DEF EpochOrder
<1>5. Vouching'
  BY <1>1, <1>2 DEF Vouching
<1>6. ChecksHold'
  BY <1>1, <1>3 DEF ChecksHold, Inside
<1>7. LockHeld'
  BY SessionsAssumption DEF LockHeld, Inside
<1>8. DraftHonest' /\ KeptHonest'
  BY DEF DraftHonest, KeptHonest, Inside
<1> QED
  BY <1>4, <1>5, <1>6, <1>7, <1>8 DEF IssueInv

\* A step that opens a transaction changes no committed row; what it issues rests on a check
\* that is current, and what it keeps stands on the account's password.
LEMMA OpeningStep ==
  ASSUME TypeInv, TypeInv', IssueInv, NEW p \in Request,
         lock = Nobody, lock' = p, pc'[p] \in Inside, UNCHANGED <<dbVars, era, vouch>>,
         \A q \in Request : q # p => pc'[q] = pc[q] /\ work'[q] = work[q],
         work'[p].epoch <= seal.epoch,
         pc'[p] # "keeping" /\ work'[p].fresh \in Session =>
           work'[p].era = era /\ work'[p].password = account.password,
         pc'[p] = "keeping" => vouch[work'[p].subject].password = account.password,
         \A s \in touched' :
           /\ draft'[s].epoch <= seal.epoch
           /\ draft'[s].life # "present" \/ (pc'[p] = "following" /\ s = work'[p].fresh)
  PROVE  IssueInv'
<1>1. \A q \in Request : q # p => pc'[q] \notin Inside
  BY OneInside
<1>2. EpochOrder'
  BY DEF IssueInv, EpochOrder, dbVars
<1>3. Vouching'
  BY DEF IssueInv, Vouching, dbVars
<1>4. ChecksHold'
  BY <1>1 DEF IssueInv, ChecksHold, Current, Inside, dbVars
<1>5. LockHeld'
  BY <1>1, SessionsAssumption DEF LockHeld, Inside
<1>6. DraftHonest'
  BY DEF DraftHonest
<1>7. KeptHonest'
  BY <1>1 DEF KeptHonest, Inside, dbVars
<1> QED
  BY <1>2, <1>3, <1>4, <1>5, <1>6, <1>7 DEF IssueInv

\* A step that ends a request under the same epoch, with a current check behind every row it
\* leaves present under that epoch.
LEMMA ClosingStep ==
  ASSUME TypeInv, TypeInv', IssueInv, NEW p \in Request,
         lock \in {Nobody, p}, lock' = Nobody, touched' = {}, Finish(p),
         UNCHANGED <<account, era>>,
         seal'.epoch = seal.epoch, seal'.version >= seal.version,
         \A s \in Session :
           /\ rows'[s].epoch <= seal.epoch
           /\ rows'[s].life = "present" /\ rows'[s].epoch = seal.epoch
                => vouch'[s] = [era |-> era, password |-> account.password]
  PROVE  IssueInv'
<1>1. /\ pc'[p] = "idle" /\ work'[p].epoch = 0
      /\ \A q \in Request : q # p => pc'[q] = pc[q] /\ work'[q] = work[q] /\ pc'[q] \notin Inside
  BY OneInside, RowFields DEF Finish, NoWork
<1>2. seal.epoch \in Nat /\ seal.version \in Nat /\ seal'.version \in Nat
  BY DEF TypeInv, TypeOK
<1>3. EpochOrder'
  BY <1>1, <1>2 DEF IssueInv, EpochOrder
<1>4. Vouching'
  BY DEF Vouching
<1>5. ChecksHold'
  BY <1>1 DEF IssueInv, ChecksHold, Current, Inside
<1>6. LockHeld'
  BY <1>1, SessionsAssumption DEF LockHeld, Inside
<1>7. DraftHonest' /\ KeptHonest'
  BY <1>1 DEF DraftHonest, KeptHonest, Inside
<1> QED
  BY <1>3, <1>4, <1>5, <1>6, <1>7 DEF IssueInv

-----------------------------------------------------------------------------
(* Every mass revocation raises the epoch.                                 *)

\* A request that ends, or that the step leaves where it is, has seen no raised epoch.
LEMMA UnseenEpoch ==
  ASSUME TypeInv, IssueInv, NEW q \in Request,
         UNCHANGED work \/ (\E p \in Request : Finish(p))
  PROVE  work'[q].epoch < Drawn
<1>1. work'[q] = work[q] \/ work'[q] = NoWork
  BY RowFields DEF Finish
<1>2. work[q].epoch < Drawn /\ NoWork.epoch < Drawn
  BY Outdated, SealFields DEF NoWork
<1> QED
  BY <1>1, <1>2

\* A credential change vouches for the one row it issues.
LEMMA ReplacingRaises ==
  ASSUME TypeInv, TypeInv', IssueInv, lock = Nobody, UNCHANGED txVars,
         NEW fresh \in Session, ReplaceEverySession(fresh),
         UNCHANGED <<pc, work>> \/ (\E p \in Request : Finish(p))
  PROVE  IssueInv'
<1>1. \A q \in Request : pc'[q] \notin Inside /\ work'[q].epoch < Drawn
  BY UnseenEpoch, OneInside, RowFields DEF Finish, Inside
<1>2. \A s \in Session :
        \/ rows'[s].epoch < Drawn
        \/ rows'[s].epoch = Drawn /\ vouch'[s] = [era |-> era', password |-> account'.password]
  BY ReplaceFields, Outdated
<1>3. seal' = Raised /\ lock' = Nobody /\ touched' = {}
  BY OneInside, ReplaceFields DEF ReplaceEverySession, txVars, IssueInv, LockHeld
<1> QED
  BY <1>1, <1>2, <1>3, RaisingStep

\* session.revokeAll, a kept row that does not verify or has changed, and a reset redeemed for
\* a disabled account vouch for none.
LEMMA EndingRaises ==
  ASSUME TypeInv, TypeInv', IssueInv, seal' = Raised, lock' = Nobody, touched' = {},
         lock \in Request \cup {Nobody},
         \A s \in Session : rows'[s].epoch = rows[s].epoch,
         \/ lock = Nobody /\ UNCHANGED <<pc, work>>
         \/ \E p \in Request : lock \in {Nobody, p} /\ Finish(p)
  PROVE  IssueInv'
<1>1. \A q \in Request : pc'[q] \notin Inside /\ work'[q].epoch < Drawn
  BY UnseenEpoch, OneInside, RowFields DEF Finish, Inside
<1>2. \A s \in Session : rows'[s].epoch < Drawn
  BY Outdated
<1> QED
  BY <1>1, <1>2, RaisingStep

\* The kept session goes under the new epoch and stands on the password it stood on.
LEMMA KeepingRaises ==
  ASSUME TypeInv, TypeInv', IssueInv, NEW p \in Request, SwapKept(p)
  PROVE  IssueInv'
<1> DEFINE kept == work[p].subject
<1>1. kept \in Session /\ lock = p /\ lock' = Nobody /\ touched' = {} /\ Finish(p)
  BY DEF TypeInv, Remembered, SwapKept, Release
<1>2. \A q \in Request : pc'[q] \notin Inside /\ work'[q].epoch < Drawn
  BY <1>1, UnseenEpoch, OneInside, RowFields DEF Finish, Inside
<1>3. /\ rows'[kept].epoch = Drawn
      /\ vouch'[kept] = [era |-> era', password |-> account'.password]
  <2>1. rows'[kept] = [copy[kept] EXCEPT !.epoch = Drawn, !.key = keyNow]
    BY <1>1 DEF SwapKept
  <2>2. copy[kept] \in Row
    BY <1>1, RowFields
  <2>3. vouch[kept].password = account.password
    BY DEF IssueInv, KeptHonest, SwapKept
  <2>4. vouch'[kept] = [vouch[kept] EXCEPT !.era = era + 1]
    BY <1>1, RowFields DEF SwapKept
  <2>5. vouch[kept] \in [era: Nat, password: Nat]
    BY <1>1, RowFields
  <2>6. account' = account /\ era' = era + 1
    BY DEF SwapKept
  <2> QED
    BY <2>1, <2>2, <2>3, <2>4, <2>5, <2>6 DEF Row
<1>4. ASSUME NEW s \in Session, s # kept
      PROVE  rows'[s].epoch < Drawn
  <2>1. rows'[s] = Seen(s)
    BY <1>4 DEF SwapKept
  <2> QED
    BY <2>1, Outdated DEF Seen
<1>5. seal' = Raised
  BY DEF SwapKept
<1> QED
  BY <1>1, <1>2, <1>3, <1>4, <1>5, RaisingStep

-----------------------------------------------------------------------------
(* Transactions that open.                                                 *)

\* A single revocation opens with the row it ends.
LEMMA RevokeOpens ==
  ASSUME TypeInv, TypeInv', IssueInv, NEW p \in Request, NEW s \in Session,
         Revoke(p, s), ~Exhausted
  PROVE  IssueInv'
<1>1. /\ lock = Nobody /\ Open(p, {s}, {}, {}) /\ UNCHANGED <<dbVars, era, vouch>>
      /\ pc' = [pc EXCEPT ![p] = "following"]
      /\ work' = [work EXCEPT ![p] = [NoWork EXCEPT !.subject = s]]
  BY DEF Revoke, Goto, dbVars, history
<1>2. pc'[p] = "following" /\ work'[p].epoch = 0 /\ work'[p].fresh = NoSession
  BY <1>1, RowFields DEF NoWork
<1>3. \A q \in Request : q # p => pc'[q] = pc[q] /\ work'[q] = work[q]
  BY <1>1, RowFields
<1>4. lock' = p /\ \A t \in touched' : draft'[t].epoch = rows[t].epoch /\ draft'[t].life = "gone"
  BY <1>1, OpenDraft
<1>5. touched' \subseteq Session /\ seal.epoch \in Nat
  BY DEF TypeInv, TypeOK
<1>6. \A t \in touched' : draft'[t].epoch <= seal.epoch
  BY <1>4, <1>5 DEF IssueInv, EpochOrder
<1> QED
  BY <1>1, <1>2, <1>3, <1>4, <1>5, <1>6, OpeningStep, SessionsAssumption DEF Inside

\* A sign-in that replaces the presented session opens with both rows.
LEMMA PresentedOpens ==
  ASSUME TypeInv, TypeInv', IssueInv, NEW p \in Request, RevokePresented(p), Authorised(p)
  PROVE  IssueInv'
<1> DEFINE ended == Present \cap {work[p].subject}
<1>1. /\ lock = Nobody /\ Open(p, ended, {work[p].fresh}, {})
      /\ UNCHANGED <<dbVars, era, vouch, work>> /\ pc' = [pc EXCEPT ![p] = "following"]
      /\ pc[p] = "presenting"
  BY DEF RevokePresented, Goto, history
<1>2. ended \in SUBSET Session /\ {work[p].fresh} \in SUBSET Session
  BY <1>1 DEF TypeInv, Remembered, Present
<1>3. ASSUME NEW deleted \in SUBSET Session, NEW inserted \in SUBSET Session,
             Open(p, deleted, inserted, {})
      PROVE  /\ lock' = p
             /\ \A t \in touched' : IF t \in inserted THEN draft'[t].epoch = seal.epoch
                                    ELSE draft'[t].epoch = rows[t].epoch /\ draft'[t].life = "gone"
  BY <1>1, <1>3, OpenDraft
<1>4. touched' \subseteq Session /\ seal.epoch \in Nat
  BY DEF TypeInv, TypeOK
<1>5. /\ lock' = p
      /\ \A t \in touched' : /\ draft'[t].epoch <= seal.epoch
                             /\ draft'[t].life # "present" \/ t = work'[p].fresh
  <2>1. lock' = p
    BY <1>1, <1>2, <1>3
  <2>2. \A t \in touched' : IF t \in {work[p].fresh} THEN draft'[t].epoch = seal.epoch
                            ELSE draft'[t].epoch = rows[t].epoch /\ draft'[t].life = "gone"
    BY <1>1, <1>2, <1>3
  <2> QED
    BY <1>1, <1>4, <2>1, <2>2 DEF IssueInv, EpochOrder
<1>6. work[p].epoch = seal.epoch /\ Current(p)
  BY <1>1 DEF Authorised, IssueInv, ChecksHold
<1>7. pc'[p] = "following" /\ \A q \in Request : q # p => pc'[q] = pc[q] /\ work'[q] = work[q]
  BY <1>1, RowFields
<1> QED
  BY <1>1, <1>4, <1>5, <1>6, <1>7, OpeningStep DEF Current, Inside

\* session.revokeAllOther opens with every row but the kept one, which verifies.
LEMMA OthersOpen ==
  ASSUME TypeInv, TypeInv', IssueInv, NEW p \in Request, DeleteOthers(p)
  PROVE  IssueInv'
<1> DEFINE kept == work[p].subject
<1>1. /\ lock = Nobody /\ lock' = p /\ UNCHANGED <<dbVars, era, vouch, work>>
      /\ pc' = [pc EXCEPT ![p] = "keeping"] /\ pc[p] = "resolved"
      /\ touched' = Present \ {kept} /\ Verifies(rows[kept])
      /\ draft' = [s \in Session |-> IF s \in touched' THEN [rows[s] EXCEPT !.life = "gone"]
                                     ELSE Unissued]
  BY DEF DeleteOthers, Goto, history
<1>2. kept \in Session /\ vouch[kept].password = account.password
  <2>1. kept \in Session
    BY <1>1 DEF TypeInv, Remembered
  <2>2. vouch[kept] = [era |-> era, password |-> account.password]
    BY <1>1, <2>1 DEF IssueInv, Vouching, Verifies
  <2> QED
    BY <2>1, <2>2
<1>3. \A t \in touched' : draft'[t].epoch = rows[t].epoch /\ draft'[t].life = "gone"
  BY <1>1, RowChanges DEF Present
<1>4. touched' \subseteq Session /\ seal.epoch \in Nat
  BY DEF TypeInv, TypeOK
<1>5. \A t \in touched' : draft'[t].epoch <= seal.epoch
  BY <1>3, <1>4 DEF IssueInv, EpochOrder
<1>6. pc'[p] = "keeping" /\ \A q \in Request : q # p => pc'[q] = pc[q] /\ work'[q] = work[q]
  BY <1>1, RowFields
<1>7. work'[p].epoch <= seal.epoch
  BY <1>1 DEF IssueInv, EpochOrder
<1> QED
  BY <1>1, <1>2, <1>3, <1>5, <1>6, <1>7, OpeningStep DEF Inside

\* An OAuth link opens with nothing written.
LEMMA LinkOpens ==
  ASSUME TypeInv, TypeInv', IssueInv, NEW p \in Request, NEW s \in Session,
         NEW fresh \in Drawable, BeginLink(p, s, fresh)
  PROVE  IssueInv'
<1>1. /\ lock = Nobody /\ Open(p, {}, {}, {s}) /\ UNCHANGED <<dbVars, era, vouch>>
      /\ pc' = [pc EXCEPT ![p] = "linking"]
      /\ work' = [work EXCEPT ![p] = [NoWork EXCEPT !.subject = s, !.fresh = fresh, !.era = era,
                                                   !.password = account.password]]
  BY DEF BeginLink, Goto, history
<1>2. lock' = p /\ touched' = {}
  BY <1>1 DEF Open
<1>3. /\ pc'[p] = "linking" /\ work'[p].epoch = 0 /\ work'[p].era = era
      /\ work'[p].password = account.password
  BY <1>1, RowFields DEF NoWork
<1>4. \A q \in Request : q # p => pc'[q] = pc[q] /\ work'[q] = work[q]
  BY <1>1, RowFields
<1>5. seal.epoch \in Nat
  BY SealFields
<1> QED
  BY <1>1, <1>2, <1>3, <1>4, <1>5, OpeningStep DEF Inside

-----------------------------------------------------------------------------
(* Steps that commit under the same epoch.                                 *)

\* A single revocation commits its draft.
LEMMA RevocationCloses ==
  ASSUME TypeInv, TypeInv', IssueInv, NEW p \in Request, CommitRevocation(p)
  PROVE  IssueInv'
<1>1. /\ lock = p /\ pc[p] = "following" /\ lock' = Nobody /\ touched' = {} /\ Finish(p)
      /\ UNCHANGED <<account, era>> /\ seal' = Moved
      /\ rows' = [s \in Session |-> Seen(s)]
      /\ vouch' = IF work[p].fresh \in touched
                  THEN [vouch EXCEPT ![work[p].fresh] = Vouched(p)] ELSE vouch
  BY DEF CommitRevocation, Release
<1>2. seal'.epoch = seal.epoch /\ seal'.version >= seal.version
  BY <1>1, SealFields
<1>3. ASSUME NEW s \in Session
      PROVE  /\ rows'[s].epoch <= seal.epoch
             /\ rows'[s].life = "present" /\ rows'[s].epoch = seal.epoch
                  => vouch'[s] = [era |-> era, password |-> account.password]
  <2>1. CASE s = work[p].fresh /\ s \in touched
    <3>1. rows'[s].epoch <= seal.epoch
      BY <1>1, <2>1 DEF Seen, IssueInv, EpochOrder
    <3>2. vouch'[s] = Vouched(p)
      BY <1>1, <2>1, RowFields
    <3>3. Current(p)
      BY <1>1, <2>1 DEF IssueInv, ChecksHold
    <3> QED
      BY <3>1, <3>2, <3>3 DEF Vouched, Current
  <2>2. CASE s # work[p].fresh /\ s \in touched
    <3>1. rows'[s] = draft[s] /\ vouch'[s] = vouch[s]
      BY <1>1, <2>2, RowFields DEF Seen
    <3>2. draft[s].life = "present" => rows[s].life = "present" /\ draft[s].epoch = rows[s].epoch
      BY <1>1, <2>2 DEF IssueInv, DraftHonest
    <3> QED
      BY <2>2, <3>1, <3>2 DEF IssueInv, EpochOrder, Vouching
  <2>3. CASE s \notin touched
    BY <1>1, <2>3, RowFields DEF Seen, IssueInv, EpochOrder, Vouching
  <2> QED
    BY <2>1, <2>2, <2>3
<1> QED
  BY <1>1, <1>2, <1>3, ClosingStep

\* An OAuth link commits its draft and the successor of the session it replaces.
LEMMA LinkCloses ==
  ASSUME TypeInv, TypeInv', IssueInv, NEW p \in Request, CommitLink(p)
  PROVE  IssueInv'
<1>1. /\ lock = p /\ pc[p] = "linking" /\ lock' = Nobody /\ touched' = {} /\ Finish(p)
      /\ UNCHANGED <<account, era>> /\ work[p].fresh \in Session
  BY DEF TypeInv, Remembered, CommitLink, Release
<1>2. seal'.epoch = seal.epoch /\ seal'.version >= seal.version
  <2>1. CASE seal' = [Moved EXCEPT !.components = Drawn]
    <3>1. seal'.epoch = seal.epoch /\ seal'.version = Drawn
      BY <2>1, SealFields, Zenon
    <3> QED
      BY <3>1, SealFields
  <2>2. CASE seal' = seal
    BY <2>2, SealFields
  <2> QED
    BY <2>1, <2>2 DEF CommitLink
<1>3. ASSUME NEW s \in Session
      PROVE  /\ rows'[s].epoch <= seal.epoch
             /\ rows'[s].life = "present" /\ rows'[s].epoch = seal.epoch
                  => vouch'[s] = [era |-> era, password |-> account.password]
  <2>1. CASE work[p].subject \in Present
    <3>1. /\ rows'[s] = IF s = work[p].fresh THEN NewRow(seal.epoch, Drawn)
                        ELSE IF s = work[p].subject THEN [rows[s] EXCEPT !.life = "gone"]
                        ELSE Seen(s)
          /\ vouch'[s] = IF s = work[p].fresh THEN Vouched(p) ELSE vouch[s]
      BY <2>1, RowFields DEF CommitLink
    <3>2. CASE s = work[p].fresh
      <4>1. rows'[s].epoch = seal.epoch /\ vouch'[s] = Vouched(p)
        BY <3>1, <3>2, RowChanges
      <4>2. Current(p)
        BY <1>1 DEF IssueInv, ChecksHold
      <4> QED
        BY <4>1, <4>2, SealFields DEF Vouched, Current
    <3>3. CASE s # work[p].fresh /\ s = work[p].subject
      BY <3>1, <3>3, RowChanges DEF IssueInv, EpochOrder
    <3>4. CASE s # work[p].fresh /\ s # work[p].subject /\ s \in touched
      <4>1. draft[s].life = "present" => rows[s].life = "present" /\ draft[s].epoch = rows[s].epoch
        BY <1>1, <3>4 DEF IssueInv, DraftHonest
      <4>2. rows'[s] = draft[s] /\ vouch'[s] = vouch[s]
        BY <3>1, <3>4 DEF Seen
      <4> QED
        BY <3>4, <4>1, <4>2 DEF IssueInv, EpochOrder, Vouching
    <3>5. CASE s # work[p].fresh /\ s # work[p].subject /\ s \notin touched
      BY <3>1, <3>5 DEF Seen, IssueInv, EpochOrder, Vouching
    <3> QED
      BY <3>2, <3>3, <3>4, <3>5
  <2>2. CASE work[p].subject \notin Present
    BY <2>2 DEF CommitLink, IssueInv, EpochOrder, Vouching
  <2> QED
    BY <2>1, <2>2
<1> QED
  BY <1>1, <1>2, <1>3, ClosingStep

\* A sign-in that replaces no live session issues in one statement.
LEMMA IssueCloses ==
  ASSUME TypeInv, TypeInv', IssueInv, NEW p \in Request, Issue(p)
  PROVE  IssueInv'
<1>1. /\ lock = Nobody /\ UNCHANGED <<lock, touched>> /\ Finish(p) /\ UNCHANGED <<account, era, seal>>
      /\ pc[p] \in {"issuing", "completing", "presenting"} /\ work[p].fresh \in Session
  BY DEF TypeInv, Remembered, Issue, txVars
<1>2. touched = {}
  BY <1>1, OneInside
<1>3. ASSUME NEW s \in Session
      PROVE  /\ rows'[s].epoch <= seal.epoch
             /\ rows'[s].life = "present" /\ rows'[s].epoch = seal.epoch
                  => vouch'[s] = [era |-> era, password |-> account.password]
  <2>1. CASE Authorised(p)
    <3>1. /\ rows'[s] = IF s = work[p].fresh THEN NewRow(work[p].epoch, seal.generation)
                        ELSE IF s = work[p].subject /\ s \in Present
                          THEN [rows[s] EXCEPT !.life = "gone"] ELSE rows[s]
          /\ vouch'[s] = IF s = work[p].fresh THEN Vouched(p) ELSE vouch[s]
      BY <2>1, RowFields DEF Issue, InsertReplacing
    <3>2. CASE s = work[p].fresh
      <4>1. rows'[s].epoch = seal.epoch /\ vouch'[s] = Vouched(p)
        BY <2>1, <3>1, <3>2, RowChanges DEF Authorised
      <4>2. Current(p)
        BY <1>1, <2>1 DEF IssueInv, ChecksHold, Authorised
      <4> QED
        BY <4>1, <4>2, SealFields DEF Vouched, Current
    <3>3. CASE s # work[p].fresh
      BY <3>1, <3>3, RowChanges DEF IssueInv, EpochOrder, Vouching
    <3> QED
      BY <3>2, <3>3
  <2>2. CASE ~Authorised(p)
    BY <2>2 DEF Issue, IssueInv, EpochOrder, Vouching
  <2> QED
    BY <2>1, <2>2
<1>4. seal'.version >= seal.version
  BY <1>1, SealFields
<1> QED
  BY <1>1, <1>2, <1>3, <1>4, ClosingStep

-----------------------------------------------------------------------------
(* Every step.                                                             *)

\* A second factor's check reads the components version and leaves what the first check read.
LEMMA CompletionQuiet ==
  ASSUME TypeInv, TypeInv', IssueInv, NEW p \in Request, CompleteSecondFactor(p)
  PROVE  IssueInv'
<1>1. /\ work[p] \in Work /\ work'[p] = [work[p] EXCEPT !.components = seal.components]
      /\ \A q \in Request : q # p => work'[q] = work[q]
  BY RowFields DEF CompleteSecondFactor
<1>2. \A q \in Request : /\ work'[q].epoch = work[q].epoch /\ work'[q].era = work[q].era
                         /\ work'[q].password = work[q].password
                         /\ work'[q].fresh = work[q].fresh /\ work'[q].subject = work[q].subject
  BY <1>1 DEF Work
<1>3. pc[p] = "checked" /\ pc'[p] = "completing" /\ \A q \in Request : q # p => pc'[q] = pc[q]
  BY RowFields DEF CompleteSecondFactor, Goto
<1>4. UNCHANGED <<seal, account, rows, lock, touched, draft, era, vouch>>
  BY DEF CompleteSecondFactor, dbVars, txVars, history
<1>5. \A s \in touched : lock \in Request \ {p}
  BY <1>3 DEF TypeInv, TypeOK, IssueInv, LockHeld
<1>6. EpochOrder' /\ Vouching'
  BY <1>2, <1>4 DEF IssueInv, EpochOrder, Vouching
<1>7. ChecksHold'
  BY <1>2, <1>3, <1>4 DEF IssueInv, ChecksHold, Current
<1>8. LockHeld'
  BY <1>3, <1>4 DEF IssueInv, LockHeld
<1>9. DraftHonest'
  BY <1>2, <1>3, <1>4, <1>5 DEF IssueInv, DraftHonest
<1>10. KeptHonest'
  BY <1>2, <1>3, <1>4 DEF IssueInv, KeptHonest
<1> QED
  BY <1>6, <1>7, <1>8, <1>9, <1>10 DEF IssueInv

\* The steps that neither raise the epoch nor open or commit a transaction.
LEMMA QuietStep ==
  ASSUME TypeInv, TypeInv', IssueInv
  PROVE  /\ \A p \in Request :
              /\ ReadPresentedOwner(p) \/ CompleteSecondFactor(p) \/ RereadKept(p)
                   \/ RefuseRevocation(p) \/ Rekey(p) \/ AnswerUnextended(p) \/ ReadToExtend(p)
                   \/ Extend(p) \/ Crash(p) => IssueInv'
              /\ \A s \in Session :
                   /\ Swap(p, s) \/ Reread(p, s) \/ LeaveUnverified(p, s)
                        \/ ResolveKept(p, s) \/ Resolve(p, s) => IssueInv'
                   /\ \A fresh \in Drawable : CheckOldPassword(p, s, fresh) => IssueInv'
              /\ \A presented \in Session \cup {NoSession}, fresh \in Drawable :
                   CheckPassword(p, presented, fresh) => IssueInv'
         /\ \A disabled \in BOOLEAN : SetDisabled(disabled) => IssueInv'
         /\ \A s \in Session : Expire(s) \/ Sweep(s) => IssueInv'
         /\ Rehash \/ RotateKey => IssueInv'
<1> USE SealFields, RowFields, SessionsAssumption
    DEF IssueInv, EpochOrder, Vouching, ChecksHold, LockHeld, DraftHonest, KeptHonest,
        Current, Remembered, dbVars, txVars, history
<1>1. ASSUME NEW p \in Request, NEW s \in Session, Swap(p, s)
      PROVE  IssueInv'
  BY <1>1 DEF Swap, Seen, Verifies
<1>2. ASSUME NEW p \in Request, NEW s \in Session, Reread(p, s)
      PROVE  IssueInv'
  BY <1>2 DEF Reread
<1>3. ASSUME NEW p \in Request, NEW s \in Session, LeaveUnverified(p, s)
      PROVE  IssueInv'
  BY <1>3 DEF LeaveUnverified
<1>4. ASSUME NEW p \in Request, NEW fresh \in Drawable,
             NEW presented \in Session \cup {NoSession}, CheckPassword(p, presented, fresh)
      PROVE  IssueInv'
  BY <1>4 DEF CheckPassword, Begins, NoWork
<1>5. ASSUME NEW p \in Request, ReadPresentedOwner(p)
      PROVE  IssueInv'
  BY <1>5 DEF ReadPresentedOwner, Goto
<1>6. ASSUME NEW p \in Request, CompleteSecondFactor(p)
      PROVE  IssueInv'
  BY <1>6, CompletionQuiet
<1>7. ASSUME NEW p \in Request, NEW s \in Session, ResolveKept(p, s)
      PROVE  IssueInv'
  BY <1>7 DEF ResolveKept, Begins, Goto, NoWork
<1>8. ASSUME NEW p \in Request, RereadKept(p)
      PROVE  IssueInv'
  BY <1>8 DEF RereadKept
<1>9. ASSUME NEW p \in Request, RefuseRevocation(p)
      PROVE  IssueInv'
  BY <1>9 DEF RefuseRevocation, Finish, NoWork
<1>10. ASSUME NEW p \in Request, NEW s \in Session, NEW fresh \in Drawable,
             CheckOldPassword(p, s, fresh)
      PROVE  IssueInv'
  BY <1>10 DEF CheckOldPassword, Begins, Goto, NoWork
<1>11. ASSUME NEW disabled \in BOOLEAN, SetDisabled(disabled)
      PROVE  IssueInv'
  BY <1>11 DEF SetDisabled
<1>12. ASSUME Rehash
      PROVE  IssueInv'
  BY <1>12 DEF Rehash
<1>13. ASSUME NEW p \in Request, NEW s \in Session, Resolve(p, s)
      PROVE  IssueInv'
  BY <1>13 DEF Resolve, Begins, Goto, NoWork
<1>14. ASSUME NEW p \in Request, Rekey(p)
      PROVE  IssueInv'
  BY <1>14 DEF Rekey, Goto
<1>15. ASSUME NEW p \in Request, AnswerUnextended(p)
      PROVE  IssueInv'
  BY <1>15 DEF AnswerUnextended, Finish, NoWork
<1>16. ASSUME NEW p \in Request, ReadToExtend(p)
      PROVE  IssueInv'
  <2> HIDE DEF IssueInv
  <2>1. /\ \A q \in Request : q # p => pc'[q] = pc[q] /\ work'[q] = work[q]
        /\ pc'[p] \in {"idle", "extended"} /\ work'[p].epoch \in {0, work[p].epoch}
    <3>1. CASE Verifies(rows[work[p].subject])
      BY <1>16, <3>1 DEF ReadToExtend, Goto, Work
    <3>2. CASE ~Verifies(rows[work[p].subject])
      BY <1>16, <3>2 DEF ReadToExtend, Finish, NoWork
    <3> QED
      BY <3>1, <3>2
  <2>2. UNCHANGED <<dbVars, txVars, era, vouch>> /\ pc[p] = "extending"
    BY <1>16 DEF ReadToExtend
  <2>3. \A s \in touched : lock \in Request \ {p}
    BY <2>2 DEF IssueInv, TypeInv, TypeOK
  <2>4. EpochOrder' /\ Vouching'
    BY <2>1, <2>2 DEF IssueInv
  <2>5. ChecksHold'
    BY <2>1, <2>2 DEF IssueInv
  <2>6. LockHeld'
    BY <2>1, <2>2 DEF IssueInv
  <2>7. DraftHonest'
    BY <2>1, <2>2, <2>3 DEF IssueInv
  <2>8. KeptHonest'
    BY <2>1, <2>2 DEF IssueInv
  <2> QED
    BY <2>4, <2>5, <2>6, <2>7, <2>8 DEF IssueInv
<1>17. ASSUME NEW p \in Request, Extend(p)
      PROVE  IssueInv'
  BY <1>17 DEF Extend, Finish, NoWork
<1>18. ASSUME NEW s \in Session, Expire(s)
      PROVE  IssueInv'
  BY <1>18 DEF Expire
<1>19. ASSUME NEW s \in Session, Sweep(s)
      PROVE  IssueInv'
  BY <1>19 DEF Sweep, Removed, Present
<1>20. ASSUME RotateKey
      PROVE  IssueInv'
  BY <1>20 DEF RotateKey
<1>21. ASSUME NEW p \in Request, Crash(p)
      PROVE  IssueInv'
  BY <1>21 DEF Crash, Finish, NoWork, Release
<1> HIDE DEF IssueInv
<1> QED
  BY <1>1, <1>2, <1>3, <1>4, <1>5, <1>6, <1>7, <1>8, <1>9, <1>10, <1>11,
     <1>12, <1>13, <1>14, <1>15, <1>16, <1>17, <1>18, <1>19, <1>20, <1>21

LEMMA IssueStep ==
  ASSUME TypeInv, TypeInv', IssueInv, [Next]_vars
  PROVE  IssueInv'
<1>1. ASSUME NEW p \in Request, RevokeEvery(p) PROVE IssueInv'
  <2>1. \A s \in Session : rows'[s].epoch = rows[s].epoch
    BY <1>1, RowChanges DEF RevokeEvery, Removed
  <2>2. /\ lock = Nobody /\ lock' = Nobody /\ touched' = touched /\ seal' = Raised
        /\ UNCHANGED <<pc, work>>
    BY <1>1 DEF RevokeEvery, txVars
  <2> QED
    BY <2>1, <2>2, OneInside, EndingRaises
<1>2. ASSUME NEW p \in Request, DeleteUnverifiedKept(p) \/ DeleteKept(p) PROVE IssueInv'
  <2>1. \A s \in Session : rows'[s].epoch = rows[s].epoch
    BY <1>2, RowChanges, ZenonT(30) DEF DeleteUnverifiedKept, DeleteKept, Removed
  <2>2. /\ lock \in {Nobody, p} /\ lock' = Nobody /\ seal' = Raised /\ Finish(p)
        /\ (lock = Nobody /\ touched' = touched) \/ touched' = {}
    BY <1>2 DEF DeleteUnverifiedKept, DeleteKept, Release, txVars
  <2> QED
    BY <2>1, <2>2, OneInside, EndingRaises
<1>3. ASSUME NEW p \in Request, ChangePassword(p) PROVE IssueInv'
  <2>1. lock = Nobody /\ UNCHANGED txVars /\ Finish(p) /\ work[p].fresh \in Session
    BY <1>3 DEF ChangePassword, TypeInv, Remembered
  <2>2. CASE ReplaceEverySession(work[p].fresh)
    BY <2>1, <2>2, ReplacingRaises
  <2>3. CASE UNCHANGED <<dbVars, era, vouch>>
    <3>1. lock' = Nobody /\ touched' = {} /\ UNCHANGED <<account, era, seal, rows, vouch>>
      BY <2>1, <2>3, OneInside DEF txVars, dbVars
    <3>2. seal'.epoch = seal.epoch /\ seal'.version >= seal.version
      BY <3>1, SealFields
    <3>3. \A s \in Session :
            /\ rows'[s].epoch <= seal.epoch
            /\ rows'[s].life = "present" /\ rows'[s].epoch = seal.epoch
                 => vouch'[s] = [era |-> era, password |-> account.password]
      BY <3>1 DEF IssueInv, EpochOrder, Vouching
    <3> QED
      BY <2>1, <3>1, <3>2, <3>3, ClosingStep
  <2> QED
    BY <1>3, <2>2, <2>3 DEF ChangePassword
<1>4. ASSUME NEW p \in Request, NEW fresh \in Drawable, ResetPassword(p, fresh) PROVE IssueInv'
  <2>1. lock = Nobody /\ UNCHANGED <<txVars, pc, work>> /\ fresh \in Session
    BY <1>4 DEF ResetPassword, Drawable
  <2>2. CASE ReplaceEverySession(fresh)
    BY <2>1, <2>2, ReplacingRaises
  <2>3. CASE seal' = Raised /\ UNCHANGED rows
    <3>1. lock' = Nobody /\ touched' = touched
      BY <2>1 DEF txVars
    <3> QED
      BY <2>1, <2>3, <3>1, OneInside, EndingRaises
  <2> QED
    BY <1>4, <2>2, <2>3 DEF ResetPassword
<1>5. ASSUME NEW p \in Request, NEW s \in Session, Revoke(p, s) PROVE IssueInv'
  <2>1. CASE Exhausted
    <3>1. \A t \in Session : /\ rows'[t].epoch = rows[t].epoch
                             /\ rows'[t].life = "present" => rows[t].life = "present"
      <4>1. rows' = Removed({s})
        BY <1>5, <2>1 DEF Revoke
      <4> QED
        BY <4>1, RowChanges DEF Removed
    <3>2. lock = Nobody /\ UNCHANGED <<seal, account, txVars, pc, work, era, vouch>>
      BY <1>5, <2>1 DEF Revoke, history
    <3>3. touched = {}
      BY <3>2, OneInside
    <3> QED
      BY <3>1, <3>2, <3>3 DEF IssueInv, EpochOrder, Vouching, ChecksHold, LockHeld, DraftHonest,
                              KeptHonest, Current, txVars
  <2> QED
    BY <1>5, <2>1, RevokeOpens
<1>6. ASSUME NEW p \in Request, RevokePresented(p) PROVE IssueInv'
  <2>1. CASE ~Authorised(p)
    <3>1. lock = Nobody /\ UNCHANGED <<dbVars, txVars, era, vouch>> /\ Finish(p)
      BY <1>6, <2>1 DEF RevokePresented, history
    <3>2. lock' = Nobody /\ touched' = {} /\ UNCHANGED <<account, era, seal, rows, vouch>>
      BY <3>1, OneInside DEF txVars, dbVars
    <3>3. seal'.epoch = seal.epoch /\ seal'.version >= seal.version
      BY <3>2, SealFields
    <3>4. \A s \in Session :
            /\ rows'[s].epoch <= seal.epoch
            /\ rows'[s].life = "present" /\ rows'[s].epoch = seal.epoch
                 => vouch'[s] = [era |-> era, password |-> account.password]
      BY <3>2 DEF IssueInv, EpochOrder, Vouching
    <3> QED
      BY <3>1, <3>2, <3>3, <3>4, ClosingStep
  <2> QED
    BY <1>6, <2>1, PresentedOpens
<1>7. CASE UNCHANGED vars
  BY <1>7 DEF IssueInv, EpochOrder, Vouching, ChecksHold, LockHeld, DraftHonest, KeptHonest, Current,
              vars, dbVars, txVars, history
<1>8. ASSUME NEW p \in Request, Ask(p) PROVE IssueInv'
  BY <1>1, <1>4, <1>5, <1>8, LinkOpens, QuietStep DEF Ask
<1>9. ASSUME NEW p \in Request, Proceed(p) PROVE IssueInv'
  BY <1>2, <1>3, <1>6, <1>9, OthersOpen, RevocationCloses, LinkCloses, IssueCloses, KeepingRaises,
     QuietStep DEF Proceed
<1>10. CASE Environment
  BY <1>10, QuietStep DEF Environment
<1> QED
  BY <1>7, <1>8, <1>9, <1>10 DEF Next

\* Both hold to begin with.
LEMMA InitialInv == Init => TypeInv /\ IssueInv
<1>1. ASSUME Init PROVE TypeInv
  <2>1. TypeOK
    BY <1>1, SessionsAssumption DEF Init, TypeOK, NewRow, Unissued, Row, NoWork, Work, Step
  <2> QED
    BY <1>1, <2>1 DEF Init, TypeInv, Remembered
<1>2. ASSUME Init PROVE IssueInv
  <2>1. \A s \in Session : rows[s].epoch \in {0, 1}
    BY <1>2 DEF Init, NewRow, Unissued
  <2>2. /\ EpochOrder /\ ChecksHold /\ LockHeld /\ DraftHonest /\ KeptHonest
    BY <1>2, <2>1, SessionsAssumption
    DEF Init, NoWork, EpochOrder, ChecksHold, LockHeld, DraftHonest, KeptHonest
  <2>3. Vouching
    BY <1>2 DEF Init, Vouching
  <2> QED
    BY <2>2, <2>3 DEF IssueInv
<1> QED
  BY <1>1, <1>2

-----------------------------------------------------------------------------

\* A session that would resolve stands on a check made after the last mass revocation and
\* against the account's password, whatever races a sign-in, a link, a revokeAll, a
\* revokeAllOther, a password change or a reset runs into, and wherever any of them crashes
\* (insertUnderCurrentEpoch and replaceSessionOwnedBy in db/repositories/session.ts).
THEOREM SessionsStandOnTheirChecks == Spec => []NoSessionOutlivesItsCheck
<1>1. Init => TypeInv /\ IssueInv
  BY InitialInv
<1>2. TypeInv /\ IssueInv /\ [Next]_vars => TypeInv' /\ IssueInv'
  BY TypeStep, IssueStep
<1>3. IssueInv => NoSessionOutlivesItsCheck
  BY DEF IssueInv, Vouching, NoSessionOutlivesItsCheck, Verifies
<1> QED
  BY <1>1, <1>2, <1>3, PTL DEF Spec

(***************************************************************************)
(* What the session operations leave alone, and what they end for good: a  *)
(* bystander keeps resolving, a revoked session never does again, a        *)
(* sign-in issues only on its check, and together they implement           *)
(* SessionRegister.                                                        *)
(*                                                                         *)
(* The argument follows the one open transaction row by row.  A single     *)
(* revocation has deleted a row, or brought it to the generation it will   *)
(* draw, or has still to do so and has seen it under the numbers it has    *)
(* now, or leaves it alone because it would not resolve or has outrun the  *)
(* attempts; nothing that happens beside the transaction takes a row out   *)
(* of the case it is in, since a rewriting keeps a row's epoch and         *)
(* generation and cannot reach a row the transaction wrote.  When nothing  *)
(* is left to rebind, the commit moves the generation under rows that are  *)
(* all accounted for.  Ids are drawn once, so whatever is issued is issued *)
(* by the request that drew it.                                            *)
(***************************************************************************)

\* the sessions that have ever had a row
Issued == {s \in Session : rows[s].life # "unissued"}

\* the numbers a MAC binds are the same
Alike(row, other) == row.epoch = other.epoch /\ row.generation = other.generation

\* A drawn id is nobody else's and no row's until it is issued; what a request acts on, and what
\* has expired, was issued.
IdsDrawnOnce ==
  /\ \A p \in Request : work[p].fresh \notin Issued
  /\ \A p, q \in Request : work[p].fresh = work[q].fresh => p = q \/ work[p].fresh \notin Session
  /\ \A p \in Request : work[p].subject \in Issued \cup {NoSession}
  /\ expired \subseteq Issued

\* No row is ahead of the account's generation, and no check of its components version.
GenerationOrder ==
  /\ seal.generation <= seal.version /\ seal.components <= seal.version
  /\ \A s \in Session : rows[s].generation <= seal.generation
  /\ \A p \in Request : work[p].components <= seal.components

\* What was revoked is behind the seal.
RefusedBehind ==
  \A s \in refused :
    /\ rows[s].life = "gone"
    /\ rows[s].epoch < seal.epoch \/ rows[s].generation < seal.generation

\* A check whose components version is the account's was made while it was enabled.
EnabledChecks ==
  \A p \in Request :
    /\ pc[p] \in {"checked", "presenting", "issuing"} /\ work[p].components = seal.components
         => ~account.disabled
    /\ pc[p] = "following" /\ work[p].fresh \in Session => ~account.disabled

\* The rows of an open transaction: one it deletes,
Deleted(s) ==
  /\ s \in touched /\ s \notin todo
  /\ rows[s].life = "present" /\ draft[s].life = "gone"
  /\ Alike(draft[s], rows[s])

\* one it has brought to the generation it will draw,
Swapped(s) ==
  /\ s \in touched /\ s \notin todo
  /\ tries[s] < RebindAttempts
  /\ draft[s].life = "present" /\ draft[s].epoch = seal.epoch /\ draft[s].generation = Drawn
  /\ Verifies(rows[s]) \/ s = work[lock].fresh

\* one it has still to bring there, which it has seen under the numbers it has now,
Awaited(s) ==
  /\ s \in todo
  /\ tries[s] < RebindAttempts
  /\ copy[s].life = "present"
  /\ s \in touched => draft[s] = copy[s] /\ Verifies(copy[s]) /\ s = work[lock].fresh
  /\ s \notin touched => Alike(copy[s], rows[s]) /\ rows[s].life # "unissued"

\* and one it leaves alone, which would not resolve or has outrun it.
Passed(s) ==
  /\ s \notin touched /\ s \notin todo
  /\ s \in Good => tries[s] = RebindAttempts

\* A single revocation accounts for every row: the one it revokes is gone, the one it issues is there.
Following ==
  \A p \in Request : pc[p] = "following" =>
    /\ \A s \in Session : (s = work[p].subject /\ Deleted(s)) \/ Swapped(s) \/ Awaited(s) \/ Passed(s)
    /\ work[p].subject \in Session => Seen(work[p].subject).life = "gone"
    /\ work[p].fresh \in Session => work[p].fresh \in touched

\* So does a link, but for the session it was asked on, which it has not touched.
Linking ==
  \A p \in Request : pc[p] = "linking" =>
    /\ work[p].subject \in Session \ (touched \cup todo)
    /\ \A s \in Session \ {work[p].subject} : Swapped(s) \/ Awaited(s) \/ Passed(s)

\* A row every session but one is ended by: deleted, or not there.
Closed(s) ==
  \/ /\ s \in touched
     /\ rows[s].life = "present" /\ draft[s].life = "gone" /\ Alike(draft[s], rows[s])
  \/ s \notin touched /\ rows[s].life # "present"

\* The session revokeAllOther keeps resolves, and was read under the numbers it has.
Keeping ==
  \A p \in Request : pc[p] = "keeping" =>
    /\ work[p].subject \notin touched
    /\ Verifies(copy[work[p].subject]) /\ Alike(copy[work[p].subject], rows[work[p].subject])
    /\ \A s \in Session \ {work[p].subject} : Closed(s)

\* Tries are counted by a single revocation only.
TriesCounted ==
  (\A p \in Request : pc[p] \notin {"following", "linking"}) => \A s \in Session : tries[s] = 0

\* The inductive invariant, beside TypeInv and IssueInv.
LiveInv ==
  /\ IdsDrawnOnce /\ GenerationOrder /\ RefusedBehind /\ EnabledChecks
  /\ Following /\ Linking /\ Keeping /\ TriesCounted /\ LiveSessionsVerify

-----------------------------------------------------------------------------
(* Lemmas about the operators.                                             *)

\* The types of what this invariant speaks of.
LEMMA LiveTypes ==
  ASSUME TypeInv
  PROVE  /\ expired \subseteq Session /\ refused \subseteq Session /\ left \subseteq Session
         /\ tries \in [Session -> Nat] /\ lock \in Request \cup {Nobody}
         /\ Issued \subseteq Session /\ Good \subseteq Session
         /\ \A s \in Session : /\ rows[s] \in Row /\ draft[s] \in Row /\ copy[s] \in Row
                               /\ rows[s].generation \in Nat /\ rows[s].epoch \in Nat
                               /\ draft[s].generation \in Nat /\ copy[s].generation \in Nat
                               /\ tries[s] \in Nat
                               /\ rows[s].life \in {"unissued", "present", "gone"}
         /\ \A p \in Request : /\ work[p] \in Work /\ work[p].components \in Nat
                               /\ work[p].subject \in Session \cup {NoSession}
                               /\ work[p].fresh \in Session \cup {NoSession}
         /\ account.disabled \in BOOLEAN
<1>1. /\ expired \subseteq Session /\ refused \subseteq Session /\ left \subseteq Session
      /\ tries \in [Session -> Nat] /\ lock \in Request \cup {Nobody}
      /\ rows \in [Session -> Row] /\ draft \in [Session -> Row] /\ copy \in [Session -> Row]
      /\ work \in [Request -> Work] /\ account \in [password: Nat, phc: Nat, disabled: BOOLEAN]
  BY DEF TypeInv, TypeOK
<1>2. Issued \subseteq Session /\ Good \subseteq Session
  BY DEF Issued, Good
<1>3. \A row \in Row : /\ row.generation \in Nat /\ row.epoch \in Nat
                       /\ row.life \in {"unissued", "present", "gone"}
  BY DEF Row
<1>4. \A x \in Work : /\ x.components \in Nat /\ x.subject \in Session \cup {NoSession}
                      /\ x.fresh \in Session \cup {NoSession}
  BY DEF Work
<1>5. account.disabled \in BOOLEAN
  BY <1>1
<1> QED
  BY <1>1, <1>2, <1>3, <1>4, <1>5

\* The numbers in the seals a change writes.
LEMMA SealNumbers ==
  ASSUME TypeInv
  PROVE  /\ seal.version \in Nat /\ seal.epoch \in Nat /\ seal.generation \in Nat
         /\ seal.components \in Nat /\ Drawn \in Nat /\ Drawn = seal.version + 1
         /\ Raised.version = Drawn /\ Raised.epoch = Drawn /\ Raised.components = Drawn
         /\ Raised.generation = seal.generation
         /\ Moved.version = Drawn /\ Moved.epoch = seal.epoch
         /\ Moved.components = seal.components /\ Moved.generation = Drawn
         /\ Changed.version = Drawn /\ Changed.epoch = seal.epoch
         /\ Changed.components = Drawn /\ Changed.generation = seal.generation
         /\ [seal EXCEPT !.version = Drawn].version = Drawn
         /\ [seal EXCEPT !.version = Drawn].epoch = seal.epoch
         /\ [seal EXCEPT !.version = Drawn].components = seal.components
         /\ [seal EXCEPT !.version = Drawn].generation = seal.generation
         /\ [Moved EXCEPT !.components = Drawn].version = Drawn
         /\ [Moved EXCEPT !.components = Drawn].epoch = seal.epoch
         /\ [Moved EXCEPT !.components = Drawn].components = Drawn
         /\ [Moved EXCEPT !.components = Drawn].generation = Drawn
<1>1. seal \in SealRow
  BY DEF TypeInv, TypeOK, SealRow
<1>2. /\ seal.version \in Nat /\ seal.epoch \in Nat /\ seal.generation \in Nat
      /\ seal.components \in Nat /\ Drawn \in Nat /\ Drawn = seal.version + 1
  BY <1>1 DEF SealRow, Drawn
<1>3. /\ Raised.version = Drawn /\ Raised.epoch = Drawn /\ Raised.components = Drawn
      /\ Raised.generation = seal.generation
      /\ Moved.version = Drawn /\ Moved.epoch = seal.epoch
      /\ Moved.components = seal.components /\ Moved.generation = Drawn
      /\ Changed.version = Drawn /\ Changed.epoch = seal.epoch
      /\ Changed.components = Drawn /\ Changed.generation = seal.generation
  BY <1>1, <1>2 DEF SealRow, Raised, Moved, Changed
<1>4. /\ [seal EXCEPT !.version = Drawn].version = Drawn
      /\ [seal EXCEPT !.version = Drawn].epoch = seal.epoch
      /\ [seal EXCEPT !.version = Drawn].components = seal.components
      /\ [seal EXCEPT !.version = Drawn].generation = seal.generation
  BY <1>1, <1>2 DEF SealRow
<1>5. /\ [Moved EXCEPT !.components = Drawn].version = Drawn
      /\ [Moved EXCEPT !.components = Drawn].epoch = seal.epoch
      /\ [Moved EXCEPT !.components = Drawn].components = Drawn
      /\ [Moved EXCEPT !.components = Drawn].generation = Drawn
  BY <1>1, <1>2 DEF SealRow, Moved
<1> QED
  BY <1>2, <1>3, <1>4, <1>5

\* What a deletion, an issue and a rewriting leave of a row's numbers.
LEMMA RowEdits ==
  ASSUME NEW row \in Row, NEW n, NEW k, NEW i
  PROVE  /\ [row EXCEPT !.life = "gone"].life = "gone"
         /\ Alike([row EXCEPT !.life = "gone"], row)
         /\ [row EXCEPT !.generation = n, !.key = k].generation = n
         /\ [row EXCEPT !.generation = n, !.key = k].epoch = row.epoch
         /\ [row EXCEPT !.generation = n, !.key = k].life = row.life
         /\ [row EXCEPT !.epoch = n, !.key = k].epoch = n
         /\ [row EXCEPT !.epoch = n, !.key = k].generation = row.generation
         /\ [row EXCEPT !.epoch = n, !.key = k].life = row.life
         /\ [row EXCEPT !.key = k].life = row.life /\ Alike([row EXCEPT !.key = k], row)
         /\ [row EXCEPT !.idle = @ + 1, !.key = k].life = row.life
         /\ Alike([row EXCEPT !.idle = @ + 1, !.key = k], row)
  BY DEF Row, Alike

\* What a new row binds.
LEMMA NewRows ==
  \A epoch, generation : /\ NewRow(epoch, generation).life = "present"
                         /\ NewRow(epoch, generation).epoch = epoch
                         /\ NewRow(epoch, generation).generation = generation
  BY DEF NewRow

\* What a deletion leaves of the rows.
LEMMA RemovedRows ==
  ASSUME TypeInv, NEW S, NEW s \in Session
  PROVE  /\ Alike(Removed(S)[s], rows[s])
         /\ Removed(S)[s].life = IF s \in S THEN "gone" ELSE rows[s].life
<1>1. Removed(S)[s] = IF s \in S THEN [rows[s] EXCEPT !.life = "gone"] ELSE rows[s]
  BY DEF Removed
<1>2. Alike(rows[s], rows[s])
  BY DEF Alike
<1>3. rows[s] \in Row
  BY LiveTypes
<1>4. [rows[s] EXCEPT !.life = "gone"].life = "gone" /\ Alike([rows[s] EXCEPT !.life = "gone"], rows[s])
  BY <1>3, RowEdits
<1> QED
  BY <1>1, <1>2, <1>4

-----------------------------------------------------------------------------
(* The kinds of step.                                                      *)

\* Outside a transaction nothing is being followed, replaced or kept.
LEMMA NothingOpen ==
  ASSUME IssueInv, lock = Nobody
  PROVE  /\ Following /\ Linking /\ Keeping
         /\ \A p \in Request : pc[p] \notin {"following", "linking", "keeping"}
         /\ touched = {}
<1>1. \A p \in Request : pc[p] \notin {"following", "linking", "keeping"}
  BY SessionsAssumption DEF IssueInv, LockHeld
<1>2. touched = {}
  BY DEF IssueInv, LockHeld
<1> QED
  BY <1>1, <1>2 DEF Following, Linking, Keeping

\* A row as it stands outside the open transaction: as it was, or rewritten under the same
\* numbers, or swept after its deadline.
Left(s) ==
  \/ rows'[s] = rows[s]
  \/ /\ s \notin touched /\ Alike(rows'[s], rows[s])
     /\ \/ rows'[s].life = rows[s].life
        \/ /\ rows[s].life = "present" /\ rows'[s].life = "gone" /\ s \in expired'

\* A request that is not in a transaction, before or after, draws no id that is in use and
\* remembers nothing that is ahead of the seal.
Apart(q) ==
  \/ pc'[q] = pc[q] /\ work'[q] = work[q]
  \/ /\ pc[q] \notin Inside /\ pc'[q] \notin Inside
     /\ work'[q].fresh \in {work[q].fresh, NoSession} \cup Drawable
     /\ work'[q].subject \in Issued \cup {NoSession}
     /\ work'[q].components <= seal.components
     /\ pc'[q] \in {"checked", "presenting", "issuing"} /\ work'[q].components = seal.components
          => ~account.disabled

\* What the open transaction has made of a row does not depend on what happens beside it.
LEMMA RowBeside ==
  ASSUME TypeInv, TypeInv', NEW s \in Session, Left(s),
         UNCHANGED <<seal, lock, touched, draft, todo, copy, tries>>, expired \subseteq expired',
         work'[lock].fresh = work[lock].fresh
  PROVE  /\ Deleted(s) => Deleted(s)'
         /\ Swapped(s) => Swapped(s)'
         /\ Awaited(s) => Awaited(s)'
         /\ Passed(s) => Passed(s)'
         /\ Closed(s) => Closed(s)'
<1>1. s \in touched => rows'[s] = rows[s]
  BY DEF Left
<1>2. /\ Alike(rows'[s], rows[s])
      /\ \/ rows'[s].life = rows[s].life
         \/ /\ rows[s].life = "present" /\ rows'[s].life = "gone" /\ s \in expired'
  BY DEF Left, Alike
<1>3. s \in Good' => s \in Good
  BY <1>2 DEF Good, Verifies, Alike
<1>4. Drawn' = Drawn
  BY DEF Drawn
<1>5. Deleted(s) => Deleted(s)'
  BY <1>1 DEF Deleted
<1>6. Swapped(s) => Swapped(s)'
  BY <1>1, <1>4 DEF Swapped, Verifies
<1>7. Awaited(s) => Awaited(s)'
  BY <1>1, <1>2 DEF Awaited, Verifies, Alike
<1>8. Passed(s) => Passed(s)'
  BY <1>3 DEF Passed
<1>9. Closed(s) => Closed(s)'
  BY <1>1, <1>2 DEF Closed
<1> QED
  BY <1>5, <1>6, <1>7, <1>8, <1>9

\* Whatever happens beside an open transaction, or before one, leaves the invariant.
LEMMA BesideStep ==
  ASSUME TypeInv, TypeInv', IssueInv, IssueInv', LiveInv,
         UNCHANGED <<seal, account, lock, touched, draft, todo, copy, tries, left, refused>>,
         expired \subseteq expired', expired' \subseteq Issued,
         \A s \in Session : Left(s),
         \A q \in Request : Apart(q),
         \A q, r \in Request : q # r => work'[q] = work[q] \/ work'[r] = work[r]
  PROVE  LiveInv'
<1>1. Issued' = Issued
  <2>1. \A s \in Session : rows'[s].life # "unissued" <=> rows[s].life # "unissued"
    BY DEF Left
  <2> QED
    BY <2>1 DEF Issued
<1>2. \A s \in Session : Alike(rows'[s], rows[s])
  BY DEF Left, Alike
<1>3. \A f \in Drawable : f \in Session \ Issued /\ \A q \in Request : work[q].fresh # f
  BY DEF Drawable, Issued
<1>4. IdsDrawnOnce'
  <2>1. ASSUME NEW q \in Request
        PROVE  work'[q].fresh \notin Issued /\ work'[q].subject \in Issued \cup {NoSession}
    BY <1>3, SessionsAssumption, LiveTypes DEF LiveInv, IdsDrawnOnce, Apart
  <2>2. ASSUME NEW q \in Request, NEW r \in Request, work'[q].fresh = work'[r].fresh, q # r
        PROVE  work'[q].fresh \notin Session
    <3>1. CASE work'[q] = work[q]
      BY <1>3, <2>2, <3>1, SessionsAssumption DEF LiveInv, IdsDrawnOnce, Apart
    <3>2. CASE work'[r] = work[r]
      BY <1>3, <2>2, <3>2, SessionsAssumption DEF LiveInv, IdsDrawnOnce, Apart
    <3> QED
      BY <2>2, <3>1, <3>2
  <2> QED
    BY <1>1, <2>1, <2>2 DEF IdsDrawnOnce
<1>5. GenerationOrder'
  <2>1. \A s \in Session : rows'[s].generation <= seal.generation
    BY <1>2 DEF LiveInv, GenerationOrder, Alike
  <2>2. \A q \in Request : work'[q].components <= seal.components
    BY DEF LiveInv, GenerationOrder, Apart
  <2> QED
    BY <2>1, <2>2 DEF LiveInv, GenerationOrder
<1>6. RefusedBehind'
  <2>1. ASSUME NEW s \in refused
        PROVE  /\ rows'[s].life = "gone"
               /\ rows'[s].epoch < seal.epoch \/ rows'[s].generation < seal.generation
    <3>1. s \in Session /\ rows[s].life = "gone"
      BY LiveTypes DEF LiveInv, RefusedBehind
    <3>2. rows'[s].life = "gone"
      BY <3>1 DEF Left
    <3> QED
      BY <1>2, <3>1, <3>2 DEF LiveInv, RefusedBehind, Alike
  <2> QED
    BY <2>1 DEF RefusedBehind
<1>7. EnabledChecks'
  BY DEF LiveInv, EnabledChecks, Apart, Inside
<1>8. ASSUME NEW p \in Request, pc'[p] \in Inside
      PROVE  pc'[p] = pc[p] /\ work'[p] = work[p] /\ lock = p
  BY <1>8 DEF IssueInv, LockHeld, Apart, Inside
<1>9. ASSUME NEW p \in Request, pc'[p] \in Inside, NEW s \in Session
      PROVE  /\ Deleted(s) => Deleted(s)'
             /\ Swapped(s) => Swapped(s)'
             /\ Awaited(s) => Awaited(s)'
             /\ Passed(s) => Passed(s)'
             /\ Closed(s) => Closed(s)'
  BY <1>8, <1>9, RowBeside
<1>10. Following'
  <2>1. ASSUME NEW p \in Request, pc'[p] = "following"
        PROVE  /\ \A s \in Session : \/ s = work'[p].subject /\ Deleted(s)'
                                     \/ Swapped(s)' \/ Awaited(s)' \/ Passed(s)'
               /\ work'[p].subject \in Session => Seen(work[p].subject)'.life = "gone"
               /\ work'[p].fresh \in Session => work'[p].fresh \in touched'
    <3>1. pc[p] = "following" /\ work'[p] = work[p] /\ pc'[p] \in Inside
      BY <1>8, <2>1 DEF Inside
    <3>2. \A s \in Session : (s = work[p].subject /\ Deleted(s)) \/ Swapped(s) \/ Awaited(s) \/ Passed(s)
      BY <3>1 DEF LiveInv, Following
    <3>3. /\ work[p].subject \in Session => Seen(work[p].subject).life = "gone"
          /\ work[p].fresh \in Session => work[p].fresh \in touched
      BY <3>1 DEF LiveInv, Following
    <3>4. work[p].subject \in Session => Seen(work[p].subject)'.life = "gone"
      BY <3>1, <3>3 DEF Seen, Left
    <3> QED
      BY <1>9, <3>1, <3>2, <3>3, <3>4
  <2> QED
    BY <2>1 DEF Following
<1>11. Linking'
  <2>1. ASSUME NEW p \in Request, pc'[p] = "linking"
        PROVE  /\ work'[p].subject \in Session \ (touched' \cup todo')
               /\ \A s \in Session \ {work'[p].subject} : Swapped(s)' \/ Awaited(s)' \/ Passed(s)'
    <3>1. pc[p] = "linking" /\ work'[p] = work[p] /\ pc'[p] \in Inside
      BY <1>8, <2>1 DEF Inside
    <3>2. /\ work[p].subject \in Session \ (touched \cup todo)
          /\ \A s \in Session \ {work[p].subject} : Swapped(s) \/ Awaited(s) \/ Passed(s)
      BY <3>1 DEF LiveInv, Linking
    <3> QED
      BY <1>9, <3>1, <3>2
  <2> QED
    BY <2>1 DEF Linking
<1>12. Keeping'
  <2>1. ASSUME NEW p \in Request, pc'[p] = "keeping"
        PROVE  /\ work'[p].subject \notin touched'
               /\ Verifies(copy[work[p].subject])' /\ Alike(copy'[work'[p].subject], rows'[work'[p].subject])
               /\ \A s \in Session \ {work'[p].subject} : Closed(s)'
    <3>1. pc[p] = "keeping" /\ work'[p] = work[p] /\ pc'[p] \in Inside
      BY <1>8, <2>1 DEF Inside
    <3>2. /\ work[p].subject \notin touched
          /\ Verifies(copy[work[p].subject]) /\ Alike(copy[work[p].subject], rows[work[p].subject])
          /\ \A s \in Session \ {work[p].subject} : Closed(s)
      BY <3>1 DEF LiveInv, Keeping
    <3>3. work[p].subject \in Session
      BY <3>1 DEF TypeInv, Remembered
    <3>4. Alike(copy'[work'[p].subject], rows'[work'[p].subject])
      BY <1>2, <3>1, <3>2, <3>3 DEF Alike
    <3>5. Verifies(copy[work[p].subject])'
      BY <3>1, <3>2 DEF Verifies
    <3> QED
      BY <1>9, <3>1, <3>2, <3>3, <3>4, <3>5
  <2> QED
    BY <2>1 DEF Keeping
<1>13. TriesCounted'
  <2>1. ASSUME NEW q \in Request, pc[q] \in {"following", "linking"}
        PROVE  pc'[q] = pc[q]
    BY <2>1 DEF Apart, Inside
  <2> QED
    BY <2>1 DEF LiveInv, TriesCounted
<1>14. LiveSessionsVerify'
  <2>1. ASSUME NEW s \in Session, rows'[s].life = "present", s \notin expired'
        PROVE  (rows'[s].epoch = seal.epoch /\ rows'[s].generation = seal.generation) \/ s \in left
    BY <1>2, <2>1 DEF LiveInv, LiveSessionsVerify, Present, Verifies, Alike, Left
  <2> QED
    BY <2>1 DEF LiveSessionsVerify, Present, Verifies
<1> QED
  BY <1>4, <1>5, <1>6, <1>7, <1>10, <1>11, <1>12, <1>13, <1>14 DEF LiveInv

\* A request that moves while the rows and everybody else stay.
LEMMA MovesBeside ==
  ASSUME TypeInv, TypeInv', IssueInv, IssueInv', LiveInv, NEW p \in Request,
         UNCHANGED <<dbVars, expired, txVars, left, refused>>,
         \A q \in Request : q # p => pc'[q] = pc[q] /\ work'[q] = work[q],
         Apart(p)
  PROVE  LiveInv'
<1>1. \A s \in Session : Left(s)
  BY DEF Left, dbVars
<1>2. UNCHANGED <<seal, account, lock, touched, draft, todo, copy, tries, left, refused>>
  BY DEF dbVars, txVars
<1>3. expired \subseteq expired' /\ expired' \subseteq Issued
  BY DEF LiveInv, IdsDrawnOnce
<1>4. \A q \in Request : Apart(q)
  BY DEF Apart
<1> QED
  BY <1>1, <1>2, <1>3, <1>4, BesideStep

\* A request that finishes outside a transaction forgets what it held.
LEMMA FinishApart ==
  ASSUME TypeInv, LiveInv, NEW p \in Request, Finish(p), pc[p] \notin Inside
  PROVE  Apart(p) /\ \A q \in Request : q # p => pc'[q] = pc[q] /\ work'[q] = work[q]
<1>1. /\ pc'[p] = "idle" /\ work'[p] = NoWork
      /\ \A q \in Request : q # p => pc'[q] = pc[q] /\ work'[q] = work[q]
  BY DEF Finish, TypeInv, TypeOK
<1>2. NoWork.fresh = NoSession /\ NoWork.subject = NoSession /\ NoWork.components = 0
  BY DEF NoWork
<1>3. 0 <= seal.components
  BY SealNumbers
<1> QED
  BY <1>1, <1>2, <1>3 DEF Apart, Inside

\* A rekeying and an extension rewrite a row no transaction has written, under the same numbers.
LEMMA RewritesLeave ==
  ASSUME TypeInv, NEW p \in Request, Rekey(p) \/ Extend(p), NEW s \in Session
  PROVE  Left(s)
<1>1. /\ work[p].subject \notin touched
      /\ \/ rows' = rows
         \/ /\ rows[work[p].subject] = work[p].row
            /\ \/ rows' = [rows EXCEPT ![work[p].subject] = [work[p].row EXCEPT !.key = keyNow]]
               \/ rows' = [rows EXCEPT ![work[p].subject] =
                             [work[p].row EXCEPT !.idle = @ + 1, !.key = keyNow]]
  BY DEF Rekey, Extend
<1>2. \/ rows'[s] = rows[s]
      \/ /\ s = work[p].subject
         /\ \/ rows'[s] = [rows[s] EXCEPT !.key = keyNow]
            \/ rows'[s] = [rows[s] EXCEPT !.idle = @ + 1, !.key = keyNow]
  BY <1>1, RowFields
<1>3. rows[s] \in Row
  BY LiveTypes
<1>4. /\ [rows[s] EXCEPT !.key = keyNow].life = rows[s].life
      /\ Alike([rows[s] EXCEPT !.key = keyNow], rows[s])
      /\ [rows[s] EXCEPT !.idle = @ + 1, !.key = keyNow].life = rows[s].life
      /\ Alike([rows[s] EXCEPT !.idle = @ + 1, !.key = keyNow], rows[s])
  BY <1>3, RowEdits
<1> QED
  BY <1>1, <1>2, <1>4 DEF Left

\* Requests that check, read, resolve, answer or give up change nothing that is shared.
LEMMA ReadersBeside ==
  ASSUME TypeInv, TypeInv', IssueInv, IssueInv', LiveInv, NEW p \in Request
  PROVE  /\ ReadPresentedOwner(p) \/ CompleteSecondFactor(p) \/ AnswerUnextended(p)
              \/ ReadToExtend(p) \/ RefuseRevocation(p) \/ Rekey(p) \/ Extend(p) => LiveInv'
         /\ \A s \in Session : ResolveKept(p, s) \/ Resolve(p, s) => LiveInv'
         /\ \A s \in Session, fresh \in Drawable : CheckOldPassword(p, s, fresh) => LiveInv'
         /\ \A presented \in {NoSession} \cup {s \in Session : rows[s].life # "unissued"},
               fresh \in Drawable : CheckPassword(p, presented, fresh) => LiveInv'
<1>1. /\ pc \in [Request -> Step] /\ work \in [Request -> Work] /\ work[p] \in Work
      /\ seal.components \in Nat /\ 0 <= seal.components
      /\ work[p].components <= seal.components
      /\ work[p].subject \in Issued \cup {NoSession}
  BY RowFields, SealNumbers DEF LiveInv, GenerationOrder, IdsDrawnOnce
<1>2. ASSUME NEW presented \in {NoSession} \cup {s \in Session : rows[s].life # "unissued"},
             NEW fresh \in Drawable, CheckPassword(p, presented, fresh)
      PROVE  LiveInv'
  <2>1. /\ pc[p] = "idle" /\ pc'[p] = "checked" /\ ~account.disabled
        /\ \A q \in Request : q # p => pc'[q] = pc[q] /\ work'[q] = work[q]
        /\ UNCHANGED <<dbVars, expired, txVars, left, refused>>
        /\ work'[p] = [NoWork EXCEPT !.subject = presented, !.fresh = fresh,
                      !.components = seal.components, !.epoch = seal.epoch,
                      !.era = era, !.password = account.password]
    BY <1>1, <1>2 DEF CheckPassword, Begins, history
  <2>2. work'[p].subject = presented /\ work'[p].fresh = fresh /\ work'[p].components = seal.components
    BY <2>1 DEF NoWork
  <2>3. Apart(p)
    BY <1>1, <2>1, <2>2 DEF Apart, Inside, Issued
  <2> QED
    BY <2>1, <2>3, MovesBeside
<1>3. ASSUME ReadPresentedOwner(p)
      PROVE  LiveInv'
  <2>1. /\ pc[p] = "checked" /\ pc'[p] \in {"presenting", "issuing"}
        /\ \A q \in Request : q # p => pc'[q] = pc[q]
        /\ work' = work
        /\ UNCHANGED <<dbVars, expired, txVars, left, refused>>
    BY <1>1, <1>3 DEF ReadPresentedOwner, Goto, history
  <2>2. work[p].components = seal.components => ~account.disabled
    BY <2>1 DEF LiveInv, EnabledChecks
  <2>3. Apart(p)
    BY <1>1, <2>1, <2>2 DEF Apart, Inside
  <2> QED
    BY <2>1, <2>3, MovesBeside
<1>4. ASSUME CompleteSecondFactor(p)
      PROVE  LiveInv'
  <2>1. /\ pc[p] = "checked" /\ pc'[p] = "completing"
        /\ \A q \in Request : q # p => pc'[q] = pc[q] /\ work'[q] = work[q]
        /\ work'[p] = [work[p] EXCEPT !.components = seal.components]
        /\ UNCHANGED <<dbVars, expired, txVars, left, refused>>
    BY <1>1, <1>4 DEF CompleteSecondFactor, Goto, history
  <2>2. /\ work'[p].fresh = work[p].fresh /\ work'[p].subject = work[p].subject
        /\ work'[p].components = seal.components
    BY <1>1, <2>1 DEF Work
  <2>3. Apart(p)
    BY <1>1, <2>1, <2>2 DEF Apart, Inside
  <2> QED
    BY <2>1, <2>3, MovesBeside
<1>5. ASSUME AnswerUnextended(p) \/ RefuseRevocation(p)
      PROVE  LiveInv'
  <2>1. /\ Finish(p) /\ pc[p] \notin Inside
        /\ UNCHANGED <<dbVars, expired, txVars, left, refused>>
    BY <1>5 DEF AnswerUnextended, RefuseRevocation, Inside, history
  <2> QED
    BY <2>1, FinishApart, MovesBeside
<1>6. ASSUME ReadToExtend(p)
      PROVE  LiveInv'
  <2>1. pc[p] = "extending" /\ UNCHANGED <<dbVars, expired, txVars, left, refused>>
    BY <1>6 DEF ReadToExtend, history
  <2>2. CASE Verifies(rows[work[p].subject])
    <3>1. /\ pc'[p] = "extended"
          /\ \A q \in Request : q # p => pc'[q] = pc[q] /\ work'[q] = work[q]
          /\ work'[p] = [work[p] EXCEPT !.row = rows[work[p].subject]]
      BY <1>1, <1>6, <2>2 DEF ReadToExtend, Goto
    <3>2. /\ work'[p].fresh = work[p].fresh /\ work'[p].subject = work[p].subject
          /\ work'[p].components = work[p].components
      BY <1>1, <3>1 DEF Work
    <3>3. Apart(p)
      BY <1>1, <2>1, <3>1, <3>2 DEF Apart, Inside
    <3> QED
      BY <2>1, <3>1, <3>3, MovesBeside
  <2>3. CASE ~Verifies(rows[work[p].subject])
    BY <1>6, <2>1, <2>3, FinishApart, MovesBeside DEF ReadToExtend, Inside
  <2> QED
    BY <2>2, <2>3
<1>7. ASSUME NEW s \in Session, ResolveKept(p, s) \/ Resolve(p, s)
      PROVE  LiveInv'
  <2>1. /\ pc[p] = "idle" /\ pc'[p] \in {"resolved", "rekeying", "extending"}
        /\ \A q \in Request : q # p => pc'[q] = pc[q] /\ work'[q] = work[q]
        /\ UNCHANGED <<dbVars, expired, txVars, left, refused>>
        /\ Verifies(rows[s])
        /\ work'[p].subject = s /\ work'[p].fresh = NoSession /\ work'[p].components = 0
    BY <1>1, <1>7, ZenonT(30) DEF ResolveKept, Resolve, Begins, Goto, NoWork, history
  <2>2. Apart(p)
    BY <1>1, <2>1 DEF Apart, Inside, Issued, Verifies
  <2> QED
    BY <2>1, <2>2, MovesBeside
<1>8. ASSUME NEW s \in Session, NEW fresh \in Drawable, CheckOldPassword(p, s, fresh)
      PROVE  LiveInv'
  <2>1. /\ pc[p] = "idle" /\ pc'[p] = "changing"
        /\ \A q \in Request : q # p => pc'[q] = pc[q] /\ work'[q] = work[q]
        /\ UNCHANGED <<dbVars, expired, txVars, left, refused>>
        /\ Verifies(rows[s])
        /\ work'[p].subject = s /\ work'[p].fresh = fresh /\ work'[p].components = 0
    BY <1>1, <1>8 DEF CheckOldPassword, Begins, Goto, NoWork, history
  <2>2. Apart(p)
    BY <1>1, <2>1 DEF Apart, Inside, Issued, Verifies
  <2> QED
    BY <2>1, <2>2, MovesBeside
<1>9. ASSUME Rekey(p) \/ Extend(p)
      PROVE  LiveInv'
  <2>1. /\ pc[p] \notin Inside /\ work[p].subject \notin touched
        /\ UNCHANGED <<seal, account, expired, txVars, left, refused>>
    BY <1>9 DEF Rekey, Extend, Inside, history
  <2>2. /\ Apart(p)
        /\ \A q \in Request : q # p => pc'[q] = pc[q] /\ work'[q] = work[q]
    <3>1. CASE Rekey(p)
      <4>1. pc[p] = "rekeying" /\ pc'[p] = "extending" /\ work' = work
            /\ \A q \in Request : q # p => pc'[q] = pc[q]
        BY <1>1, <3>1 DEF Rekey, Goto
      <4> QED
        BY <1>1, <4>1 DEF Apart, Inside
    <3>2. CASE Extend(p)
      BY <2>1, <3>2, FinishApart DEF Extend
    <3> QED
      BY <1>9, <3>1, <3>2
  <2>3. \A s \in Session : Left(s)
    BY <1>9, RewritesLeave
  <2>4. /\ UNCHANGED <<seal, account, lock, touched, draft, todo, copy, tries, left, refused>>
        /\ expired \subseteq expired' /\ expired' \subseteq Issued
    BY <2>1 DEF txVars, LiveInv, IdsDrawnOnce
  <2>5. \A q \in Request : Apart(q)
    BY <2>2 DEF Apart
  <2>6. \A q, r \in Request : q # r => work'[q] = work[q] \/ work'[r] = work[r]
    BY <2>2
  <2> QED
    BY <2>3, <2>4, <2>5, <2>6, BesideStep
<1> QED
  BY <1>2, <1>3, <1>4, <1>5, <1>6, <1>7, <1>8, <1>9

\* A sweep takes a row that has expired.
LEMMA SweepLeaves ==
  ASSUME TypeInv, NEW t \in Session, Sweep(t), NEW s \in Session
  PROVE  Left(s)
<1>1. t \in Present /\ t \in expired /\ t \notin touched /\ rows' = Removed({t}) /\ expired' = expired
  BY DEF Sweep
<1>2. CASE s = t
  BY <1>1, <1>2, RemovedRows DEF Left, Present
<1>3. CASE s # t
  BY <1>1, <1>3 DEF Left, Removed
<1> QED
  BY <1>2, <1>3

\* Deadlines, sweeps, rotations and steps of nobody.
LEMMA TimeBeside ==
  ASSUME TypeInv, TypeInv', IssueInv, IssueInv', LiveInv
  PROVE  /\ \A s \in Session : Expire(s) \/ Sweep(s) => LiveInv'
         /\ RotateKey => LiveInv'
         /\ UNCHANGED vars => LiveInv'
<1> SUFFICES ASSUME \/ \E s \in Session : Expire(s) \/ Sweep(s)
                    \/ RotateKey
                    \/ UNCHANGED vars
             PROVE  LiveInv'
  OBVIOUS
<1>1. /\ UNCHANGED <<seal, account, lock, touched, draft, todo, copy, tries, left, refused>>
      /\ UNCHANGED <<pc, work>>
  BY DEF Expire, Sweep, RotateKey, vars, dbVars, txVars, history
<1>2. expired \subseteq expired' /\ expired' \subseteq Issued
  BY DEF Expire, Sweep, RotateKey, vars, dbVars, txVars, history, LiveInv, IdsDrawnOnce, Present, Issued
<1>3. ASSUME NEW s \in Session
      PROVE  Left(s)
  BY SweepLeaves DEF Left, Expire, RotateKey, vars, dbVars
<1>4. \A q \in Request : Apart(q)
  BY <1>1 DEF Apart
<1> QED
  BY <1>1, <1>2, <1>3, <1>4, BesideStep

\* A step that leaves no transaction open: New is what it issued.
LEMMA ClosedStep ==
  ASSUME TypeInv, TypeInv', IssueInv, IssueInv', LiveInv,
         lock' = Nobody, \A s \in Session : tries'[s] = 0, UNCHANGED expired,
         NEW New \in SUBSET Session,
         \A s \in Session :
           rows'[s].life # "unissued" <=> (rows[s].life # "unissued" \/ s \in New),
         \A q \in Request :
           \/ pc'[q] = pc[q] /\ work'[q] = work[q] /\ work[q].fresh \notin New
           \/ pc'[q] = "idle" /\ work'[q] = NoWork,
         seal.version <= seal'.version, seal.epoch <= seal'.epoch,
         seal.generation <= seal'.generation, seal'.generation <= seal'.version,
         \/ seal'.components = Drawn /\ seal'.version = Drawn
         \/ seal'.components = seal.components /\ (account'.disabled <=> account.disabled),
         \A s \in Session : rows'[s].generation <= seal'.generation,
         \A s \in refused : Alike(rows'[s], rows[s]) /\ rows'[s].life = "gone",
         \A s \in refused' \ refused :
           /\ rows'[s].life = "gone"
           /\ rows'[s].epoch < seal'.epoch \/ rows'[s].generation < seal'.generation,
         \A s \in Session : rows'[s].life = "present" /\ s \notin expired
           => \/ rows'[s].epoch = seal'.epoch /\ rows'[s].generation = seal'.generation
              \/ s \in left'
  PROVE  LiveInv'
<1>1. Issued' = Issued \cup New
  BY DEF Issued
<1>2. NoWork.fresh = NoSession /\ NoWork.subject = NoSession /\ NoWork.components = 0
  BY DEF NoWork
<1>3. /\ seal.version \in Nat /\ seal.epoch \in Nat /\ seal.generation \in Nat
      /\ seal.components \in Nat /\ Drawn = seal.version + 1
      /\ seal'.version \in Nat /\ seal'.epoch \in Nat /\ seal'.generation \in Nat
      /\ seal'.components \in Nat
  BY SealNumbers DEF TypeInv, TypeOK
<1>4. IdsDrawnOnce'
  BY <1>1, <1>2, SessionsAssumption, LiveTypes DEF LiveInv, IdsDrawnOnce
<1>5. GenerationOrder'
  <2>1. seal'.components <= seal'.version /\ seal.components <= seal'.components
    BY <1>3 DEF LiveInv, GenerationOrder
  <2>2. \A q \in Request : work'[q].components <= seal'.components
    BY <1>2, <1>3, <2>1, LiveTypes DEF LiveInv, GenerationOrder
  <2> QED
    BY <2>1, <2>2 DEF GenerationOrder
<1>6. RefusedBehind'
  <2>1. \A s \in refused : rows[s].epoch \in Nat /\ rows[s].generation \in Nat
    BY LiveTypes
  <2>2. \A s \in refused : /\ rows'[s].life = "gone"
                           /\ rows'[s].epoch < seal'.epoch \/ rows'[s].generation < seal'.generation
    BY <1>3, <2>1 DEF LiveInv, RefusedBehind, Alike
  <2> QED
    BY <2>2 DEF RefusedBehind
<1>7. \A q \in Request : pc'[q] \notin {"following", "linking", "keeping"}
  BY SessionsAssumption DEF IssueInv, LockHeld
<1>8. EnabledChecks'
  BY <1>3, <1>7, LiveTypes DEF LiveInv, EnabledChecks, GenerationOrder
<1>9. Following' /\ Linking' /\ Keeping' /\ TriesCounted'
  BY <1>7 DEF Following, Linking, Keeping, TriesCounted
<1>10. LiveSessionsVerify'
  BY DEF LiveSessionsVerify, Present, Verifies
<1> QED
  BY <1>4, <1>5, <1>6, <1>8, <1>9, <1>10 DEF LiveInv

\* Where nobody holds the lock, no tries are counted; nothing that is refused is there or unissued.
LEMMA Unlocked ==
  ASSUME TypeInv, IssueInv, LiveInv
  PROVE  /\ lock = Nobody => touched = {} /\ \A s \in Session : tries[s] = 0
         /\ \A s \in refused : s \in Session /\ rows[s].life = "gone"
         /\ seal.generation <= seal.version /\ seal.epoch <= seal.version
         /\ \A s \in Session : rows[s].generation <= seal.generation /\ rows[s].epoch <= seal.epoch
         /\ \A s \in Session : rows[s].life = "present" /\ s \notin expired
              => Verifies(rows[s]) \/ s \in left
<1>1. lock = Nobody => touched = {} /\ \A s \in Session : tries[s] = 0
  BY NothingOpen DEF LiveInv, TriesCounted
<1>2. \A s \in refused : s \in Session /\ rows[s].life = "gone"
  BY LiveTypes DEF LiveInv, RefusedBehind
<1>3. /\ seal.generation <= seal.version /\ seal.epoch <= seal.version
      /\ \A s \in Session : rows[s].generation <= seal.generation /\ rows[s].epoch <= seal.epoch
  BY DEF LiveInv, GenerationOrder, IssueInv, EpochOrder
<1>4. \A s \in Session : rows[s].life = "present" /\ s \notin expired
              => Verifies(rows[s]) \/ s \in left
  BY DEF LiveInv, LiveSessionsVerify, Present
<1> QED
  BY <1>1, <1>2, <1>3, <1>4

\* Whoever finishes forgets its id, and an id drawn now is nobody's.
LEMMA Moving ==
  ASSUME TypeInv, LiveInv
  PROVE  /\ \A p \in Request : Finish(p) => \A q \in Request :
              \/ pc'[q] = pc[q] /\ work'[q] = work[q] /\ work[q].fresh \notin ({work[p].fresh} \cap Session)
              \/ pc'[q] = "idle" /\ work'[q] = NoWork
         /\ UNCHANGED <<pc, work>> => \A q \in Request, fresh \in Drawable :
              pc'[q] = pc[q] /\ work'[q] = work[q] /\ work[q].fresh # fresh
         /\ \A fresh \in Drawable : fresh \in Session /\ rows[fresh].life = "unissued"
         /\ \A p \in Request : work[p].fresh \in Session => rows[work[p].fresh].life = "unissued"
<1>1. ASSUME NEW p \in Request, Finish(p), NEW q \in Request
      PROVE  \/ pc'[q] = pc[q] /\ work'[q] = work[q] /\ work[q].fresh \notin ({work[p].fresh} \cap Session)
             \/ pc'[q] = "idle" /\ work'[q] = NoWork
  <2>1. CASE q = p
    BY <1>1, <2>1, RowFields DEF Finish
  <2>2. CASE q # p
    BY <1>1, <2>2, RowFields DEF Finish, LiveInv, IdsDrawnOnce
  <2> QED
    BY <2>1, <2>2
<1>2. \A fresh \in Drawable :
        /\ fresh \in Session /\ rows[fresh].life = "unissued"
        /\ \A q \in Request : work[q].fresh # fresh
  BY DEF Drawable
<1>3. \A p \in Request : work[p].fresh \in Session => rows[work[p].fresh].life = "unissued"
  BY DEF LiveInv, IdsDrawnOnce, Issued
<1> QED
  BY <1>1, <1>2, <1>3

\* Ending every session leaves none that should resolve.
LEMMA EveryEnded ==
  ASSUME TypeInv, TypeInv', IssueInv, IssueInv', LiveInv,
         lock' = Nobody, \A s \in Session : tries'[s] = 0, UNCHANGED expired,
         seal' = Raised,
         \/ UNCHANGED <<pc, work>>
         \/ \E p \in Request : Finish(p),
         \/ rows' = Removed(Present) /\ refused' = refused \cup Present
         \/ rows' = rows /\ refused' = refused /\ left' = left \cup Present
  PROVE  LiveInv'
<1>1. /\ seal'.version = Drawn /\ seal'.epoch = Drawn /\ seal'.components = Drawn
      /\ seal'.generation = seal.generation /\ Drawn = seal.version + 1
      /\ seal.version \in Nat /\ seal.epoch \in Nat /\ seal.generation \in Nat
  BY SealNumbers
<1>2. \A s \in Session : /\ Alike(rows'[s], rows[s])
                         /\ rows'[s].life # "unissued" <=> rows[s].life # "unissued"
                         /\ rows[s].life = "gone" => rows'[s].life = "gone"
  BY RemovedRows DEF Present, Alike
<1>3. \A q \in Request : \/ pc'[q] = pc[q] /\ work'[q] = work[q] /\ work[q].fresh \notin {}
                         \/ pc'[q] = "idle" /\ work'[q] = NoWork
  BY Moving
<1>4. \A s \in Session : rows[s].generation \in Nat /\ rows[s].epoch \in Nat
  BY LiveTypes
<1>5. \A s \in refused' \ refused :
           /\ rows'[s].life = "gone"
           /\ rows'[s].epoch < seal'.epoch \/ rows'[s].generation < seal'.generation
  BY <1>1, <1>2, <1>4, RemovedRows, Unlocked DEF Present, Alike
<1>6. \A s \in Session : rows'[s].life = "present" => s \in left'
  BY RemovedRows DEF Present
<1>7. \A s \in Session : rows'[s].generation <= seal'.generation
  BY <1>1, <1>2, Unlocked DEF Alike
<1>8. \A s \in refused : Alike(rows'[s], rows[s]) /\ rows'[s].life = "gone"
  BY <1>2, Unlocked
<1>9. /\ seal.version <= seal'.version /\ seal.epoch <= seal'.epoch /\ seal'.generation <= seal'.version
      /\ seal.generation <= seal'.generation /\ seal'.components = Drawn
  BY <1>1, Unlocked
<1>10. \A s \in Session : rows'[s].life # "unissued" <=> (rows[s].life # "unissued" \/ s \in {})
  BY <1>2
<1>11. \A s \in Session : rows'[s].life = "present" /\ s \notin expired
           => \/ rows'[s].epoch = seal'.epoch /\ rows'[s].generation = seal'.generation
              \/ s \in left'
  BY <1>6
<1>12. {} \in SUBSET Session /\ seal'.version = Drawn
  BY <1>1
<1> QED
  BY <1>3, <1>5, <1>7, <1>8, <1>9, <1>10, <1>11, <1>12, ClosedStep

\* The rows a credential change leaves.
LEMMA ReplacedRows ==
  ASSUME TypeInv, NEW fresh \in Session, ReplaceEverySession(fresh), NEW s \in Session
  PROVE  IF s = fresh
         THEN rows'[s].life = "present" /\ rows'[s].epoch = Drawn /\ rows'[s].generation = seal.generation
         ELSE /\ Alike(rows'[s], rows[s])
              /\ rows'[s].life = IF s \in Present THEN "gone" ELSE rows[s].life
<1>1. rows'[s] = IF s = fresh THEN NewRow(Drawn, seal.generation) ELSE Removed(Present)[s]
  BY DEF ReplaceEverySession
<1> QED
  BY <1>1, NewRows, RemovedRows

\* A credential change leaves one session, under the epoch it draws.
LEMMA Replaced ==
  ASSUME TypeInv, TypeInv', IssueInv, IssueInv', LiveInv, NEW fresh \in Session,
         lock = Nobody, UNCHANGED <<txVars, expired, left>>, ReplaceEverySession(fresh),
         rows[fresh].life = "unissued",
         \A q \in Request :
           \/ pc'[q] = pc[q] /\ work'[q] = work[q] /\ work[q].fresh # fresh
           \/ pc'[q] = "idle" /\ work'[q] = NoWork
  PROVE  LiveInv'
<1>1. /\ seal'.version = Drawn /\ seal'.epoch = Drawn /\ seal'.components = Drawn
      /\ seal'.generation = seal.generation /\ Drawn = seal.version + 1
      /\ seal.version \in Nat /\ seal.epoch \in Nat /\ seal.generation \in Nat
  BY SealNumbers DEF ReplaceEverySession
<1>2. ASSUME NEW s \in Session
      PROVE  IF s = fresh
             THEN rows'[s].life = "present" /\ rows'[s].epoch = Drawn /\ rows'[s].generation = seal.generation
             ELSE /\ Alike(rows'[s], rows[s])
                  /\ rows'[s].life = IF s \in Present THEN "gone" ELSE rows[s].life
  BY ReplacedRows
<1>3. lock' = Nobody /\ \A s \in Session : tries'[s] = 0
  BY Unlocked DEF txVars
<1>4. refused' = refused \cup Present
  BY DEF ReplaceEverySession
<1>5. fresh \notin refused /\ fresh \notin Present
  BY Unlocked DEF Present
<1>6. \A s \in refused' \ refused :
           /\ rows'[s].life = "gone"
           /\ rows'[s].epoch < seal'.epoch \/ rows'[s].generation < seal'.generation
  <2>1. \A s \in Present : s \in Session /\ s # fresh /\ rows[s].epoch < Drawn
    BY <1>1, <1>5, Unlocked, LiveTypes DEF Present
  <2> QED
    BY <1>1, <1>2, <1>4, <2>1 DEF Alike
<1>7. \A s \in refused : Alike(rows'[s], rows[s]) /\ rows'[s].life = "gone"
  BY <1>2, <1>5, Unlocked
<1>8. \A s \in Session : rows'[s].generation <= seal'.generation
  BY <1>1, <1>2, Unlocked DEF Alike
<1>9. \A s \in Session : rows'[s].life = "present" => rows'[s].epoch = seal'.epoch /\ rows'[s].generation = seal'.generation
  BY <1>1, <1>2 DEF Present
<1>10. \A s \in Session : rows'[s].life # "unissued" <=> (rows[s].life # "unissued" \/ s \in {fresh})
  BY <1>2 DEF Present
<1>11. /\ seal.version <= seal'.version /\ seal.epoch <= seal'.epoch /\ seal'.generation <= seal'.version
       /\ seal.generation <= seal'.generation /\ seal'.components = Drawn /\ seal'.version = Drawn
  BY <1>1, Unlocked
<1>12. \A q \in Request :
           \/ pc'[q] = pc[q] /\ work'[q] = work[q] /\ work[q].fresh \notin {fresh}
           \/ pc'[q] = "idle" /\ work'[q] = NoWork
  OBVIOUS
<1>13. \A s \in Session : rows'[s].life = "present" /\ s \notin expired
           => \/ rows'[s].epoch = seal'.epoch /\ rows'[s].generation = seal'.generation
              \/ s \in left'
  BY <1>9
<1>14. {fresh} \in SUBSET Session
  OBVIOUS
<1> QED
  BY <1>3, <1>6, <1>7, <1>8, <1>10, <1>11, <1>12, <1>13, <1>14, ClosedStep

\* Changes of the account that touch no session, and rows that go while the seal stays.
LEMMA Unsealed ==
  ASSUME TypeInv, TypeInv', IssueInv, IssueInv', LiveInv,
         lock = Nobody, UNCHANGED <<txVars, expired, left, refused>>,
         seal'.epoch = seal.epoch, seal'.generation = seal.generation, seal.version <= seal'.version,
         \/ seal'.components = Drawn /\ seal'.version = Drawn
         \/ seal'.components = seal.components /\ (account'.disabled <=> account.disabled),
         NEW New \in SUBSET Session,
         \A s \in Session : \/ s \notin New /\ rows'[s] = rows[s]
                            \/ /\ s \notin New /\ rows[s].life = "present"
                               /\ Alike(rows'[s], rows[s]) /\ rows'[s].life = "gone"
                            \/ /\ s \in New /\ rows[s].life = "unissued" /\ rows'[s].life = "present"
                               /\ rows'[s].epoch = seal.epoch /\ rows'[s].generation = seal.generation,
         \A q \in Request :
           \/ pc'[q] = pc[q] /\ work'[q] = work[q] /\ work[q].fresh \notin New
           \/ pc'[q] = "idle" /\ work'[q] = NoWork
  PROVE  LiveInv'
<1>1. /\ seal.version \in Nat /\ seal.epoch \in Nat /\ seal.generation \in Nat
      /\ seal'.version \in Nat
  BY SealNumbers DEF TypeInv, TypeOK
<1>2. lock' = Nobody /\ \A s \in Session : tries'[s] = 0
  BY Unlocked DEF txVars
<1>3. \A s \in refused : Alike(rows'[s], rows[s]) /\ rows'[s].life = "gone"
  BY Unlocked DEF Alike
<1>4. \A s \in Session : rows'[s].generation <= seal'.generation
  BY <1>1, Unlocked DEF Alike
<1>5. \A s \in Session : rows'[s].life = "present" /\ s \notin expired
           => \/ rows'[s].epoch = seal'.epoch /\ rows'[s].generation = seal'.generation
              \/ s \in left'
  BY Unlocked DEF Verifies
<1>6. \A s \in Session : rows'[s].life # "unissued" <=> (rows[s].life # "unissued" \/ s \in New)
  OBVIOUS
<1>7. seal.epoch <= seal'.epoch /\ seal.generation <= seal'.generation /\ seal'.generation <= seal'.version
  BY <1>1, Unlocked
<1>8. refused' \ refused = {}
  OBVIOUS
<1> QED
  BY <1>2, <1>3, <1>4, <1>5, <1>6, <1>7, <1>8, ClosedStep

-----------------------------------------------------------------------------
(* The steps that end with no transaction open.                            *)

\* Revocations of every session.
LEMMA MassRevocations ==
  ASSUME TypeInv, TypeInv', IssueInv, IssueInv', LiveInv, NEW p \in Request,
         RevokeEvery(p) \/ DeleteUnverifiedKept(p) \/ DeleteKept(p)
  PROVE  LiveInv'
<1>1. /\ seal' = Raised /\ UNCHANGED expired
      /\ rows' = Removed(Present) /\ refused' = refused \cup Present
      /\ UNCHANGED <<pc, work>> \/ Finish(p)
  BY DEF RevokeEvery, DeleteUnverifiedKept, DeleteKept
<1>2. lock' = Nobody /\ \A s \in Session : tries'[s] = 0
  BY Unlocked DEF RevokeEvery, DeleteUnverifiedKept, DeleteKept, Release, txVars
<1> QED
  BY <1>1, <1>2, EveryEnded

\* Password changes and resets.
LEMMA Replacements ==
  ASSUME TypeInv, TypeInv', IssueInv, IssueInv', LiveInv, NEW p \in Request
  PROVE  /\ ChangePassword(p) => LiveInv'
         /\ \A fresh \in Drawable : ResetPassword(p, fresh) => LiveInv'
<1>1. ASSUME ChangePassword(p)
      PROVE  LiveInv'
  <2>1. /\ pc[p] = "changing" /\ lock = Nobody /\ Finish(p) /\ UNCHANGED <<expired, txVars, left>>
        /\ work[p].fresh \in Session
    BY <1>1 DEF ChangePassword, TypeInv, Remembered
  <2>2. CASE ReplaceEverySession(work[p].fresh)
    <3>1. rows[work[p].fresh].life = "unissued"
      BY <2>1, Moving
    <3>2. \A q \in Request :
           \/ pc'[q] = pc[q] /\ work'[q] = work[q] /\ work[q].fresh # work[p].fresh
           \/ pc'[q] = "idle" /\ work'[q] = NoWork
      BY <2>1, Moving
    <3> QED
      BY <2>1, <2>2, <3>1, <3>2, Replaced
  <2>3. CASE UNCHANGED <<dbVars, era, vouch, refused, untold>>
    <3>1. Apart(p) /\ \A q \in Request : q # p => pc'[q] = pc[q] /\ work'[q] = work[q]
      BY <2>1, FinishApart DEF Inside
    <3> QED
      BY <2>1, <2>3, <3>1, MovesBeside
  <2> QED
    BY <1>1, <2>2, <2>3 DEF ChangePassword
<1>2. ASSUME NEW fresh \in Drawable, ResetPassword(p, fresh)
      PROVE  LiveInv'
  <2>1. lock = Nobody /\ UNCHANGED <<expired, txVars, pc, work>> /\ fresh \in Session
    BY <1>2, Moving DEF ResetPassword
  <2>2. CASE account.disabled
    <3>1. /\ seal' = Raised /\ rows' = rows /\ refused' = refused /\ left' = left \cup Present
      BY <1>2, <2>2 DEF ResetPassword
    <3>2. lock' = Nobody /\ \A s \in Session : tries'[s] = 0
      BY <2>1, Unlocked DEF txVars
    <3> QED
      BY <2>1, <3>1, <3>2, EveryEnded
  <2>3. CASE ~account.disabled
    <3>1. ReplaceEverySession(fresh) /\ UNCHANGED left
      BY <1>2, <2>3 DEF ResetPassword
    <3>2. \A q \in Request :
           \/ pc'[q] = pc[q] /\ work'[q] = work[q] /\ work[q].fresh # fresh
           \/ pc'[q] = "idle" /\ work'[q] = NoWork
      BY <2>1, Moving
    <3>3. rows[fresh].life = "unissued"
      BY Moving
    <3> QED
      BY <2>1, <3>1, <3>2, <3>3, Replaced
  <2> QED
    BY <2>2, <2>3
<1> QED
  BY <1>1, <1>2

\* Disabling, enabling and rehashing, a revocation that finds no number left, and a transaction
\* that is lost.
LEMMA Quiet ==
  ASSUME TypeInv, TypeInv', IssueInv, IssueInv', LiveInv
  PROVE  /\ \A disabled \in BOOLEAN : SetDisabled(disabled) => LiveInv'
         /\ Rehash => LiveInv'
         /\ \A p \in Request, s \in Session : Revoke(p, s) /\ Exhausted => LiveInv'
         /\ \A p \in Request : Crash(p) => LiveInv'
<1> DEFINE Still == \A q \in Request :
           \/ pc'[q] = pc[q] /\ work'[q] = work[q] /\ work[q].fresh \notin {}
           \/ pc'[q] = "idle" /\ work'[q] = NoWork
           Kept(New) == \A s \in Session :
                            \/ s \notin New /\ rows'[s] = rows[s]
                            \/ /\ s \notin New /\ rows[s].life = "present"
                               /\ Alike(rows'[s], rows[s]) /\ rows'[s].life = "gone"
                            \/ /\ s \in New /\ rows[s].life = "unissued" /\ rows'[s].life = "present"
                               /\ rows'[s].epoch = seal.epoch /\ rows'[s].generation = seal.generation
<1>1. ASSUME NEW disabled \in BOOLEAN, SetDisabled(disabled)
      PROVE  LiveInv'
  <2>1. /\ lock = Nobody /\ UNCHANGED <<rows, txVars, expired, left, refused, pc, work>> /\ seal' = Changed
    BY <1>1 DEF SetDisabled, history
  <2>2. /\ seal'.epoch = seal.epoch /\ seal'.generation = seal.generation
        /\ seal.version <= seal'.version /\ seal'.components = Drawn /\ seal'.version = Drawn
    BY <2>1, SealNumbers
  <2>3. Still /\ Kept({}) /\ {} \in SUBSET Session
    BY <2>1
  <2> QED
    BY <2>1, <2>2, <2>3, Unsealed
<1>2. ASSUME Rehash
      PROVE  LiveInv'
  <2>1. /\ lock = Nobody /\ UNCHANGED <<rows, txVars, expired, left, refused, pc, work>>
        /\ seal' = [seal EXCEPT !.version = Drawn] /\ account' = [account EXCEPT !.phc = @ + 1]
    BY <1>2 DEF Rehash, history
  <2>2. /\ seal'.epoch = seal.epoch /\ seal'.generation = seal.generation
        /\ seal.version <= seal'.version /\ seal'.components = seal.components
    BY <2>1, SealNumbers
  <2>3. account'.disabled <=> account.disabled
    <3>1. account \in AccountRow
      BY AccountType DEF TypeInv
    <3>2. ASSUME NEW Flag, NEW row \in [password: Nat, phc: Nat, disabled: Flag]
          PROVE  [row EXCEPT !.phc = @ + 1].disabled = row.disabled
      OBVIOUS
    <3>3. account'.disabled = account.disabled
      BY <2>1, <3>1, <3>2 DEF AccountRow
    <3> QED
      BY <3>3
  <2>4. Still /\ Kept({}) /\ {} \in SUBSET Session
    BY <2>1
  <2> QED
    BY <2>1, <2>2, <2>3, <2>4, Unsealed
<1>3. ASSUME NEW p \in Request, NEW s \in Session, Revoke(p, s), Exhausted
      PROVE  LiveInv'
  <2>1. /\ lock = Nobody /\ UNCHANGED <<seal, account, txVars, expired, left, refused, pc, work>>
        /\ rows' = Removed({s}) /\ s \in Present
    BY <1>3 DEF Revoke, history
  <2>2. /\ seal'.epoch = seal.epoch /\ seal'.generation = seal.generation
        /\ seal.version <= seal'.version /\ seal'.components = seal.components
        /\ (account'.disabled <=> account.disabled)
    BY <2>1, SealNumbers
  <2>3. Kept({})
    <3>1. ASSUME NEW t \in Session
          PROVE  \/ rows'[t] = rows[t]
                 \/ /\ rows[t].life = "present" /\ Alike(rows'[t], rows[t]) /\ rows'[t].life = "gone"
      <4>1. CASE t = s
        BY <2>1, <4>1, RemovedRows DEF Present
      <4>2. CASE t # s
        BY <2>1, <4>2 DEF Removed
      <4> QED
        BY <4>1, <4>2
    <3> QED
      BY <3>1
  <2>4. Still /\ {} \in SUBSET Session
    BY <2>1
  <2> QED
    BY <2>1, <2>2, <2>3, <2>4, Unsealed
<1>4. ASSUME NEW p \in Request, Crash(p)
      PROVE  LiveInv'
  <2>1. Finish(p) /\ UNCHANGED <<dbVars, expired, left, refused>>
    BY <1>4 DEF Crash, history
  <2>2. CASE lock = p
    <3>1. lock' = Nobody /\ \A s \in Session : tries'[s] = 0
      BY <1>4, <2>2 DEF Crash, Release
    <3>2. /\ UNCHANGED <<seal, account, rows>>
          /\ seal.version \in Nat /\ seal.epoch \in Nat /\ seal.generation \in Nat
      BY <2>1, SealNumbers DEF dbVars
    <3>3. \A q \in Request : \/ pc'[q] = pc[q] /\ work'[q] = work[q] /\ work[q].fresh \notin {}
                             \/ pc'[q] = "idle" /\ work'[q] = NoWork
      BY <2>1, Moving
    <3>4. \A s \in refused : Alike(rows'[s], rows[s]) /\ rows'[s].life = "gone"
      BY <3>2, Unlocked DEF Alike
    <3>5. \A s \in Session : rows'[s].life = "present" /\ s \notin expired
           => \/ rows'[s].epoch = seal'.epoch /\ rows'[s].generation = seal'.generation
              \/ s \in left'
      BY <2>1, <3>2, Unlocked DEF Verifies
    <3>6. /\ \A s \in Session : rows'[s].generation <= seal'.generation
          /\ seal.version <= seal'.version /\ seal.epoch <= seal'.epoch
          /\ seal.generation <= seal'.generation /\ seal'.generation <= seal'.version
          /\ seal'.components = seal.components /\ (account'.disabled <=> account.disabled)
          /\ \A s \in Session : rows'[s].life # "unissued" <=> (rows[s].life # "unissued" \/ s \in {})
          /\ refused' \ refused = {} /\ {} \in SUBSET Session
      BY <2>1, <3>2, Unlocked
    <3> QED
      BY <2>1, <3>1, <3>3, <3>4, <3>5, <3>6, ClosedStep
  <2>3. CASE lock # p
    <3>1. UNCHANGED txVars /\ pc[p] \notin Inside
      BY <1>4, <2>3 DEF Crash, IssueInv, LockHeld, Inside
    <3> QED
      BY <2>1, <3>1, FinishApart, MovesBeside
  <2> QED
    BY <2>2, <2>3
<1> QED
  BY <1>1, <1>2, <1>3, <1>4

\* The rows an issue in one statement leaves.
LEMMA IssueRows ==
  ASSUME TypeInv, LiveInv, NEW p \in Request, Issue(p), Authorised(p), NEW s \in Session
  PROVE  \/ s # work[p].fresh /\ s # work[p].subject /\ rows'[s] = rows[s]
         \/ /\ s # work[p].fresh /\ s = work[p].subject
            /\ rows[s].life # "present" /\ rows'[s] = rows[s]
         \/ /\ s # work[p].fresh /\ s = work[p].subject /\ rows[s].life = "present"
            /\ Alike(rows'[s], rows[s]) /\ rows'[s].life = "gone"
         \/ /\ s = work[p].fresh /\ rows[s].life = "unissued" /\ rows'[s].life = "present"
            /\ rows'[s].epoch = seal.epoch /\ rows'[s].generation = seal.generation
<1>1. rows'[s] = IF s = work[p].fresh THEN NewRow(work[p].epoch, seal.generation)
                 ELSE IF s = work[p].subject /\ s \in Present THEN [rows[s] EXCEPT !.life = "gone"]
                 ELSE rows[s]
  BY DEF Issue, InsertReplacing
<1>2. rows[s] \in Row
  BY LiveTypes
<1>3. /\ [rows[s] EXCEPT !.life = "gone"].life = "gone"
      /\ Alike([rows[s] EXCEPT !.life = "gone"], rows[s])
  BY <1>2, RowEdits
<1> QED
  BY <1>1, <1>3, NewRows, Moving DEF Authorised, Present

\* An issue in one statement.
LEMMA Issues ==
  ASSUME TypeInv, TypeInv', IssueInv, IssueInv', LiveInv, NEW p \in Request, Issue(p)
  PROVE  LiveInv'
<1>1. /\ lock = Nobody /\ UNCHANGED <<seal, account, txVars, expired, left, refused>> /\ Finish(p)
      /\ work[p].fresh \in Session /\ rows[work[p].fresh].life = "unissued"
      /\ pc[p] \notin Inside
  BY Moving DEF Issue, TypeInv, Remembered, Inside
<1>2. CASE Authorised(p)
  <2>2. \A s \in Session :
          \/ s \notin {work[p].fresh} /\ rows'[s] = rows[s]
          \/ /\ s \notin {work[p].fresh} /\ rows[s].life = "present"
             /\ Alike(rows'[s], rows[s]) /\ rows'[s].life = "gone"
          \/ /\ s \in {work[p].fresh} /\ rows[s].life = "unissued" /\ rows'[s].life = "present"
             /\ rows'[s].epoch = seal.epoch /\ rows'[s].generation = seal.generation
    BY <1>2, IssueRows
  <2>3. \A q \in Request :
          \/ pc'[q] = pc[q] /\ work'[q] = work[q] /\ work[q].fresh \notin {work[p].fresh}
          \/ pc'[q] = "idle" /\ work'[q] = NoWork
    BY <1>1, Moving
  <2>4. /\ seal'.epoch = seal.epoch /\ seal'.generation = seal.generation
        /\ seal.version <= seal'.version /\ seal'.components = seal.components
        /\ (account'.disabled <=> account.disabled) /\ {work[p].fresh} \in SUBSET Session
    BY <1>1, SealNumbers
  <2> QED
    BY <1>1, <2>2, <2>3, <2>4, Unsealed
<1>3. CASE ~Authorised(p)
  <2>1. UNCHANGED dbVars
    BY <1>1, <1>3 DEF Issue, dbVars
  <2> QED
    BY <1>1, <2>1, FinishApart, MovesBeside
<1> QED
  BY <1>2, <1>3

\* What a single revocation has made of a row when nothing is left to rebind.
LEMMA RowCommitted ==
  ASSUME TypeInv, IssueInv, LiveInv, todo = {}, NEW s \in Session,
         (s = work[lock].subject /\ Deleted(s)) \/ Swapped(s) \/ Awaited(s) \/ Passed(s),
         work[lock].fresh \notin Issued
  PROVE  \/ /\ s \in touched /\ s = work[lock].subject /\ Seen(s).life = "gone"
            /\ Alike(Seen(s), rows[s]) /\ rows[s].life = "present"
         \/ /\ s \in touched /\ Seen(s).life = "present" /\ Seen(s).epoch = seal.epoch
            /\ Seen(s).generation = Drawn /\ s \notin Abandoned
            /\ \/ s \in Present /\ Verifies(rows[s])
               \/ s = work[lock].fresh /\ rows[s].life = "unissued"
         \/ /\ s \notin touched /\ Seen(s) = rows[s]
            /\ s \in Good => s \in Abandoned
<1>1. tries[s] \in Nat /\ RebindAttempts \in Nat
  BY LiveTypes, SessionsAssumption
<1>2. CASE Deleted(s) /\ s = work[lock].subject
  BY <1>2 DEF Deleted, Seen
<1>3. CASE Swapped(s)
  <2>1. /\ s \in touched /\ Seen(s).life = "present" /\ Seen(s).epoch = seal.epoch
        /\ Seen(s).generation = Drawn
    BY <1>3 DEF Swapped, Seen
  <2>2. s \notin Abandoned
    BY <1>1, <1>3 DEF Swapped, Abandoned
  <2>3. s = work[lock].fresh => rows[s].life = "unissued"
    BY DEF Issued
  <2>4. Verifies(rows[s]) => s \in Present
    BY DEF Verifies, Present
  <2> QED
    BY <1>3, <2>1, <2>2, <2>3, <2>4 DEF Swapped
<1>4. CASE Passed(s)
  BY <1>4 DEF Passed, Seen, Abandoned
<1> QED
  BY <1>2, <1>3, <1>4 DEF Awaited

\* The rows a single revocation's commit leaves.
LEMMA RevocationRows ==
  ASSUME TypeInv, IssueInv, LiveInv, NEW p \in Request, CommitRevocation(p), NEW s \in Session
  PROVE  \/ /\ s \in touched /\ draft[s].life = "gone" /\ rows'[s].life = "gone"
            /\ Alike(rows'[s], rows[s]) /\ rows[s].life = "present" /\ s # work[p].fresh
            /\ s = work[p].subject
         \/ /\ s \in touched /\ draft[s].life = "present" /\ s \notin Abandoned
            /\ s # work[p].subject
            /\ rows'[s].life = "present" /\ rows'[s].epoch = seal.epoch /\ rows'[s].generation = Drawn
            /\ Verifies(rows[s]) \/ s = work[p].fresh
         \/ /\ s \notin touched /\ s # work[p].fresh /\ rows'[s] = rows[s]
            /\ s \in Good => s \in Abandoned
            /\ s = work[p].subject => rows[s].life = "gone"
<1>1. /\ lock = p /\ pc[p] = "following" /\ todo = {} /\ rows' = [t \in Session |-> Seen(t)]
      /\ work[lock].fresh \notin Issued
  BY DEF CommitRevocation, LiveInv, IdsDrawnOnce
<1>2. /\ \/ s = work[lock].subject /\ Deleted(s)
         \/ Swapped(s) \/ Awaited(s) \/ Passed(s)
      /\ s = work[p].subject => Seen(s).life = "gone"
  BY <1>1 DEF LiveInv, Following
<1>3. rows'[s] = Seen(s)
  BY <1>1
<1>4. IF s \in touched THEN Seen(s) = draft[s] ELSE Seen(s) = rows[s]
  BY DEF Seen
<1>5. s = work[p].fresh => s \in touched /\ rows[s].life = "unissued"
  BY <1>1 DEF LiveInv, Following, Issued
<1> QED
  BY <1>1, <1>2, <1>3, <1>4, <1>5, RowCommitted DEF Present

\* A single revocation's commit brings every other live row along.
LEMMA RevocationCommits ==
  ASSUME TypeInv, TypeInv', IssueInv, IssueInv', LiveInv, NEW p \in Request, CommitRevocation(p)
  PROVE  LiveInv'
<1>1. /\ lock = p /\ pc[p] = "following" /\ todo = {}
      /\ rows' = [s \in Session |-> Seen(s)] /\ seal' = Moved
      /\ left' = left \cup Abandoned
      /\ refused' = refused \cup {s \in touched : draft[s].life = "gone"}
      /\ lock' = Nobody /\ \A s \in Session : tries'[s] = 0
      /\ Finish(p) /\ UNCHANGED <<account, expired>>
  BY DEF CommitRevocation, Release
<1> DEFINE New == {work[p].fresh} \cap Session
<1>2. /\ seal'.version = Drawn /\ seal'.epoch = seal.epoch /\ seal'.components = seal.components
      /\ seal'.generation = Drawn /\ Drawn = seal.version + 1
      /\ seal.version \in Nat /\ seal.epoch \in Nat /\ seal.generation \in Nat
  BY <1>1, SealNumbers
<1>3. work[lock].fresh \notin Issued
  BY <1>1 DEF LiveInv, IdsDrawnOnce
<1>4. ASSUME NEW s \in Session
      PROVE  \/ /\ s \in touched /\ draft[s].life = "gone" /\ rows'[s].life = "gone"
                /\ Alike(rows'[s], rows[s]) /\ rows[s].life = "present" /\ s \notin New
             \/ /\ s \in touched /\ draft[s].life = "present"
                /\ rows'[s].life = "present" /\ rows'[s].epoch = seal.epoch /\ rows'[s].generation = Drawn
                /\ rows[s].life = "present" \/ s \in New
             \/ /\ s \notin touched /\ s \notin New /\ rows'[s] = rows[s]
                /\ s \in Good => s \in Abandoned
  BY RevocationRows DEF Verifies
<1>5. \A s \in New : s \in touched /\ rows[s].life = "unissued"
  BY <1>1, <1>3 DEF LiveInv, Following, Issued
<1>6. \A s \in Session : rows'[s].life # "unissued" <=> (rows[s].life # "unissued" \/ s \in New)
  BY <1>4, <1>5
<1>7. \A q \in Request :
         \/ pc'[q] = pc[q] /\ work'[q] = work[q] /\ work[q].fresh \notin New
         \/ pc'[q] = "idle" /\ work'[q] = NoWork
  BY <1>1, Moving
<1>8. \A s \in refused : Alike(rows'[s], rows[s]) /\ rows'[s].life = "gone"
  BY <1>4, <1>5, Unlocked DEF Alike
<1>9. \A s \in refused' \ refused :
           /\ rows'[s].life = "gone"
           /\ rows'[s].epoch < seal'.epoch \/ rows'[s].generation < seal'.generation
  <2>1. ASSUME NEW s \in refused' \ refused
        PROVE  s \in Session /\ rows'[s].life = "gone" /\ rows'[s].generation = rows[s].generation
    BY <1>1, <1>4, RowFields DEF Alike
  <2>2. \A s \in Session : rows[s].generation \in Nat /\ rows[s].generation < Drawn
    BY <1>2, Unlocked, LiveTypes
  <2> QED
    BY <1>2, <2>1, <2>2
<1>10. \A s \in Session : rows'[s].generation <= seal'.generation
  <2>1. \A s \in Session : rows[s].generation \in Nat /\ rows[s].generation <= Drawn
    BY <1>2, Unlocked, LiveTypes
  <2> QED
    BY <1>2, <1>4, <2>1 DEF Alike
<1>11. \A s \in Session : rows'[s].life = "present" /\ s \notin expired
           => \/ rows'[s].epoch = seal'.epoch /\ rows'[s].generation = seal'.generation
              \/ s \in left'
  BY <1>1, <1>2, <1>4, Unlocked DEF Good
<1>12. /\ seal.version <= seal'.version /\ seal.epoch <= seal'.epoch /\ seal'.generation <= seal'.version
       /\ seal.generation <= seal'.generation /\ New \in SUBSET Session
       /\ (account'.disabled <=> account.disabled)
  BY <1>1, <1>2, Unlocked
<1> HIDE DEF New
<1> QED
  BY <1>1, <1>2, <1>6, <1>7, <1>8, <1>9, <1>10, <1>11, <1>12, ClosedStep

\* The rows a link's commit leaves.
LEMMA LinkRows ==
  ASSUME TypeInv, IssueInv, LiveInv, NEW p \in Request, CommitLink(p), work[p].subject \in Present,
         NEW s \in Session
  PROVE  \/ /\ s = work[p].fresh /\ rows'[s].life = "present"
            /\ rows'[s].epoch = seal.epoch /\ rows'[s].generation = Drawn
         \/ /\ s = work[p].subject /\ s # work[p].fresh /\ rows'[s].life = "gone"
            /\ Alike(rows'[s], rows[s]) /\ rows[s].life = "present"
         \/ /\ s \notin {work[p].subject, work[p].fresh} /\ rows'[s].life = "present"
            /\ rows'[s].epoch = seal.epoch /\ rows'[s].generation = Drawn
            /\ Verifies(rows[s]) /\ s \notin Abandoned
         \/ /\ s \notin {work[p].subject, work[p].fresh} /\ rows'[s] = rows[s]
            /\ s \in Good => s \in Abandoned
<1>1. /\ lock = p /\ pc[p] = "linking" /\ todo = {}
      /\ rows' = [t \in Session |->
               IF t = work[p].fresh THEN NewRow(seal.epoch, Drawn)
               ELSE IF t = work[p].subject THEN [rows[t] EXCEPT !.life = "gone"]
               ELSE Seen(t)]
      /\ work[lock].fresh \notin Issued
  BY DEF CommitLink, LiveInv, IdsDrawnOnce
<1>2. CASE s = work[p].fresh
  BY <1>1, <1>2, NewRows
<1>3. CASE s = work[p].subject /\ s # work[p].fresh
  <2>1. rows'[s] = [rows[s] EXCEPT !.life = "gone"] /\ rows[s] \in Row
    BY <1>1, <1>3, LiveTypes
  <2>2. /\ [rows[s] EXCEPT !.life = "gone"].life = "gone"
        /\ Alike([rows[s] EXCEPT !.life = "gone"], rows[s])
    BY <2>1, RowEdits
  <2> QED
    BY <1>3, <2>1, <2>2 DEF Present
<1>4. CASE s \notin {work[p].subject, work[p].fresh}
  <2>1. Swapped(s) \/ Awaited(s) \/ Passed(s)
    BY <1>1, <1>4 DEF LiveInv, Linking
  <2>2. rows'[s] = Seen(s)
    BY <1>1, <1>4
  <2> QED
    BY <1>1, <1>4, <2>1, <2>2, RowCommitted DEF Present
<1> QED
  BY <1>2, <1>3, <1>4

\* So does a link's.
LEMMA LinkCommits ==
  ASSUME TypeInv, TypeInv', IssueInv, IssueInv', LiveInv, NEW p \in Request, CommitLink(p)
  PROVE  LiveInv'
<1>1. /\ lock = p /\ pc[p] = "linking" /\ todo = {}
      /\ lock' = Nobody /\ \A s \in Session : tries'[s] = 0
      /\ Finish(p) /\ UNCHANGED <<account, expired>>
      /\ work[p].fresh \in Session
  BY DEF CommitLink, Release, TypeInv, Remembered
<1>2. CASE work[p].subject \in Present
  <2> DEFINE kept == work[p].subject
             New == {work[p].fresh}
  <2>1. /\ seal' = [Moved EXCEPT !.components = Drawn]
        /\ left' = left \cup Abandoned /\ refused' = refused \cup {kept}
        /\ rows' = [s \in Session |->
               IF s = work[p].fresh THEN NewRow(seal.epoch, Drawn)
               ELSE IF s = work[p].subject THEN [rows[s] EXCEPT !.life = "gone"]
               ELSE Seen(s)]
    BY <1>2 DEF CommitLink
  <2>2. /\ seal'.version = Drawn /\ seal'.epoch = seal.epoch /\ seal'.components = Drawn
        /\ seal'.generation = Drawn /\ Drawn = seal.version + 1
        /\ seal.version \in Nat /\ seal.epoch \in Nat /\ seal.generation \in Nat
    BY <2>1, SealNumbers
  <2>3. work[lock].fresh \notin Issued /\ rows[work[p].fresh].life = "unissued"
    BY <1>1, Moving DEF LiveInv, IdsDrawnOnce
  <2>4. ASSUME NEW s \in Session
        PROVE  \/ /\ s = work[p].fresh /\ rows'[s].life = "present"
                  /\ rows'[s].epoch = seal.epoch /\ rows'[s].generation = Drawn
               \/ /\ s = kept /\ s # work[p].fresh /\ rows'[s].life = "gone"
                  /\ Alike(rows'[s], rows[s]) /\ rows[s].life = "present"
               \/ /\ s \notin {kept, work[p].fresh} /\ rows'[s].life = "present"
                  /\ rows'[s].epoch = seal.epoch /\ rows'[s].generation = Drawn
                  /\ rows[s].life = "present"
               \/ /\ s \notin {kept, work[p].fresh} /\ rows'[s] = rows[s]
                  /\ s \in Good => s \in Abandoned
    BY <1>2, LinkRows DEF Verifies
  <2>5. \A s \in Session : rows'[s].life # "unissued" <=> (rows[s].life # "unissued" \/ s \in New)
    BY <2>3, <2>4
  <2>6. \A q \in Request :
           \/ pc'[q] = pc[q] /\ work'[q] = work[q] /\ work[q].fresh \notin New
           \/ pc'[q] = "idle" /\ work'[q] = NoWork
    BY <1>1, Moving
  <2>7. \A s \in refused : Alike(rows'[s], rows[s]) /\ rows'[s].life = "gone"
    BY <2>3, <2>4, Unlocked DEF Alike
  <2>8. \A s \in Session : rows[s].generation \in Nat /\ rows[s].generation < Drawn
    BY <2>2, Unlocked, LiveTypes
  <2>9. \A s \in refused' \ refused :
             /\ rows'[s].life = "gone"
             /\ rows'[s].epoch < seal'.epoch \/ rows'[s].generation < seal'.generation
    <3>1. kept \in Session /\ kept # work[p].fresh
      BY <1>2, <2>3 DEF Present
    <3>2. rows'[kept].life = "gone" /\ Alike(rows'[kept], rows[kept])
      BY <2>4, <3>1
    <3> QED
      BY <2>1, <2>2, <2>8, <3>1, <3>2 DEF Alike
  <2>10. \A s \in Session : rows'[s].generation <= seal'.generation
    BY <2>2, <2>4, <2>8 DEF Alike
  <2>11. \A s \in Session : rows'[s].life = "present" /\ s \notin expired
             => \/ rows'[s].epoch = seal'.epoch /\ rows'[s].generation = seal'.generation
                \/ s \in left'
    BY <2>1, <2>2, <2>4, Unlocked DEF Good
  <2>12. /\ seal.version <= seal'.version /\ seal.epoch <= seal'.epoch /\ seal'.generation <= seal'.version
         /\ seal.generation <= seal'.generation /\ New \in SUBSET Session
    BY <1>1, <2>2, Unlocked
  <2> HIDE DEF New
  <2> QED
    BY <1>1, <2>2, <2>5, <2>6, <2>7, <2>9, <2>10, <2>11, <2>12, ClosedStep
<1>3. CASE work[p].subject \notin Present
  <2>1. UNCHANGED <<seal, rows, left, refused>>
    BY <1>3 DEF CommitLink
  <2>2. \A q \in Request : \/ pc'[q] = pc[q] /\ work'[q] = work[q] /\ work[q].fresh \notin {}
                           \/ pc'[q] = "idle" /\ work'[q] = NoWork
    BY <1>1, Moving
  <2>3. \A s \in refused : Alike(rows'[s], rows[s]) /\ rows'[s].life = "gone"
    BY <2>1, Unlocked DEF Alike
  <2>4. \A s \in Session : rows'[s].life = "present" /\ s \notin expired
         => \/ rows'[s].epoch = seal'.epoch /\ rows'[s].generation = seal'.generation
            \/ s \in left'
    BY <2>1, Unlocked DEF Verifies
  <2>5. /\ \A s \in Session : rows'[s].generation <= seal'.generation
        /\ seal.version <= seal'.version /\ seal.epoch <= seal'.epoch
        /\ seal.generation <= seal'.generation /\ seal'.generation <= seal'.version
        /\ seal'.components = seal.components /\ (account'.disabled <=> account.disabled)
        /\ \A s \in Session : rows'[s].life # "unissued" <=> (rows[s].life # "unissued" \/ s \in {})
        /\ refused' \ refused = {} /\ {} \in SUBSET Session
    BY <1>1, <2>1, Unlocked, SealNumbers
  <2> QED
    BY <1>1, <2>2, <2>3, <2>4, <2>5, ClosedStep
<1> QED
  BY <1>2, <1>3

\* The rows revokeAllOther's commit leaves.
LEMMA KeptRows ==
  ASSUME TypeInv, IssueInv, LiveInv, NEW p \in Request, SwapKept(p), NEW s \in Session
  PROVE  IF s = work[p].subject
         THEN /\ Verifies(rows[s]) /\ rows'[s].life = "present"
              /\ rows'[s].epoch = Drawn /\ rows'[s].generation = seal.generation
         ELSE \/ /\ s \in touched /\ rows[s].life = "present" /\ rows'[s].life = "gone"
                 /\ Alike(rows'[s], rows[s])
              \/ s \notin touched /\ rows'[s] = rows[s] /\ rows[s].life # "present"
<1> DEFINE kept == work[p].subject
<1>1. /\ lock = p /\ pc[p] = "keeping" /\ Seen(kept) = copy[kept]
      /\ rows' = [t \in Session |-> IF t = kept
                       THEN [copy[kept] EXCEPT !.epoch = Drawn, !.key = keyNow] ELSE Seen(t)]
  BY DEF SwapKept
<1>2. /\ kept \in Session /\ kept \notin touched /\ Verifies(copy[kept])
      /\ Alike(copy[kept], rows[kept])
      /\ \A t \in Session \ {kept} : Closed(t)
  BY <1>1 DEF LiveInv, Keeping, TypeInv, Remembered
<1>3. rows[kept] = copy[kept] /\ copy[kept] \in Row
  BY <1>1, <1>2, LiveTypes DEF Seen
<1>4. CASE s = kept
  <2>1. rows'[s] = [copy[kept] EXCEPT !.epoch = Drawn, !.key = keyNow]
    BY <1>1, <1>4
  <2>2. ASSUME NEW row \in Row
        PROVE  /\ [row EXCEPT !.epoch = Drawn, !.key = keyNow].epoch = Drawn
               /\ [row EXCEPT !.epoch = Drawn, !.key = keyNow].generation = row.generation
               /\ [row EXCEPT !.epoch = Drawn, !.key = keyNow].life = row.life
    BY DEF Row
  <2>3. /\ rows'[s].epoch = Drawn /\ rows'[s].generation = copy[kept].generation
        /\ rows'[s].life = copy[kept].life
    BY <1>3, <2>1, <2>2
  <2> QED
    BY <1>2, <1>3, <1>4, <2>3 DEF Verifies
<1>5. CASE s # kept
  <2>1. rows'[s] = Seen(s) /\ Closed(s)
    BY <1>1, <1>2, <1>5
  <2> QED
    BY <1>5, <2>1 DEF Closed, Seen
<1> QED
  BY <1>4, <1>5

\* revokeAllOther lifts the kept row to the epoch it draws and leaves no other.
LEMMA KeptCommits ==
  ASSUME TypeInv, TypeInv', IssueInv, IssueInv', LiveInv, NEW p \in Request, SwapKept(p)
  PROVE  LiveInv'
<1> DEFINE kept == work[p].subject
<1>1. /\ lock = p /\ pc[p] = "keeping" /\ Seen(kept) = copy[kept]
      /\ rows' = [s \in Session |-> IF s = kept
                       THEN [copy[kept] EXCEPT !.epoch = Drawn, !.key = keyNow] ELSE Seen(s)]
      /\ seal' = Raised /\ refused' = refused \cup touched
      /\ lock' = Nobody /\ \A s \in Session : tries'[s] = 0
      /\ Finish(p) /\ UNCHANGED <<account, expired, left>>
  BY DEF SwapKept, Release
<1>4. /\ seal'.version = Drawn /\ seal'.epoch = Drawn /\ seal'.components = Drawn
      /\ seal'.generation = seal.generation /\ Drawn = seal.version + 1
      /\ seal.version \in Nat /\ seal.epoch \in Nat /\ seal.generation \in Nat
  BY <1>1, SealNumbers
<1>2. kept \in Session /\ kept \notin touched
  BY <1>1 DEF LiveInv, Keeping, TypeInv, Remembered
<1>5. /\ rows'[kept].life = "present" /\ rows[kept].life = "present"
      /\ rows'[kept].epoch = Drawn /\ rows'[kept].generation = seal.generation
  BY <1>2, KeptRows DEF Verifies
<1>6. ASSUME NEW s \in Session \ {kept}
      PROVE  \/ /\ s \in touched /\ rows[s].life = "present" /\ rows'[s].life = "gone"
                /\ Alike(rows'[s], rows[s])
             \/ s \notin touched /\ rows'[s] = rows[s] /\ rows[s].life # "present"
  BY <1>2, KeptRows
<1>7. \A q \in Request : \/ pc'[q] = pc[q] /\ work'[q] = work[q] /\ work[q].fresh \notin {}
                         \/ pc'[q] = "idle" /\ work'[q] = NoWork
  BY <1>1, Moving
<1>8. \A s \in Session : rows[s].generation \in Nat /\ rows[s].epoch \in Nat /\ rows[s].epoch < Drawn
  BY <1>4, Unlocked, LiveTypes
<1>9. \A s \in refused : Alike(rows'[s], rows[s]) /\ rows'[s].life = "gone"
  BY <1>5, <1>6, Unlocked DEF Alike
<1>10. \A s \in refused' \ refused :
           /\ rows'[s].life = "gone"
           /\ rows'[s].epoch < seal'.epoch \/ rows'[s].generation < seal'.generation
  BY <1>1, <1>2, <1>4, <1>6, <1>8, RowFields DEF Alike
<1>11. \A s \in Session : rows'[s].generation <= seal'.generation
  BY <1>4, <1>5, <1>6, Unlocked DEF Alike
<1>12. \A s \in Session : rows'[s].life = "present" /\ s \notin expired
           => \/ rows'[s].epoch = seal'.epoch /\ rows'[s].generation = seal'.generation
              \/ s \in left'
  BY <1>4, <1>5, <1>6
<1>13. \A s \in Session : rows'[s].life # "unissued" <=> (rows[s].life # "unissued" \/ s \in {})
  BY <1>5, <1>6
<1>14. /\ seal.version <= seal'.version /\ seal.epoch <= seal'.epoch /\ seal'.generation <= seal'.version
       /\ seal.generation <= seal'.generation /\ {} \in SUBSET Session
  BY <1>4, Unlocked
<1> QED
  BY <1>1, <1>4, <1>7, <1>9, <1>10, <1>11, <1>12, <1>13, <1>14, ClosedStep

-----------------------------------------------------------------------------
(* The steps that open a transaction, and those inside one.                *)

\* The committed rows, the seal and what was drawn stay while a transaction opens or goes on.
LEMMA InsideStep ==
  ASSUME TypeInv, TypeInv', IssueInv, IssueInv', LiveInv, NEW p \in Request,
         UNCHANGED <<seal, account, rows, expired, left, refused>>, lock' = p,
         pc'[p] \in Inside,
         \A q \in Request : q # p => pc'[q] = pc[q] /\ work'[q] = work[q],
         work'[p] = work[p]
           \/ /\ work'[p].fresh \in Drawable \cup {NoSession}
              /\ work'[p].subject \in Issued \cup {NoSession} /\ work'[p].components = 0,
         pc'[p] = "following" /\ work'[p].fresh \in Session => ~account.disabled,
         (Following /\ Linking /\ Keeping /\ TriesCounted)'
  PROVE  LiveInv'
<1>1. Issued' = Issued
  BY DEF Issued
<1>2. \A f \in Drawable : f \in Session \ Issued /\ \A q \in Request : work[q].fresh # f
  BY DEF Drawable, Issued
<1>3. IdsDrawnOnce'
  <2>1. ASSUME NEW q \in Request
        PROVE  work'[q].fresh \notin Issued /\ work'[q].subject \in Issued \cup {NoSession}
    BY <1>2, SessionsAssumption, LiveTypes DEF LiveInv, IdsDrawnOnce
  <2>2. ASSUME NEW q \in Request, NEW r \in Request, work'[q].fresh = work'[r].fresh, q # r
        PROVE  work'[q].fresh \notin Session
    BY <1>2, <2>2, SessionsAssumption DEF LiveInv, IdsDrawnOnce
  <2> QED
    BY <1>1, <2>1, <2>2 DEF LiveInv, IdsDrawnOnce
<1>4. GenerationOrder'
  <2>1. \A q \in Request : work'[q].components <= seal.components
    BY SealNumbers DEF LiveInv, GenerationOrder
  <2> QED
    BY <2>1 DEF LiveInv, GenerationOrder
<1>5. RefusedBehind' /\ LiveSessionsVerify'
  BY DEF LiveInv, RefusedBehind, LiveSessionsVerify, Present, Verifies
<1>6. EnabledChecks'
  BY DEF LiveInv, EnabledChecks, Inside
<1> QED
  BY <1>3, <1>4, <1>5, <1>6 DEF LiveInv

\* While a transaction is open, only its own request is inside one.
LEMMA OnlyInside ==
  ASSUME TypeInv', IssueInv', NEW p \in Request, lock' = p
  PROVE  \A q \in Request : pc'[q] \in {"following", "linking", "keeping"} => q = p
  BY DEF IssueInv, LockHeld

\* A single revocation opens with its deletions and its insert done and every other row that
\* should resolve before it.
LEMMA Opened ==
  ASSUME TypeInv, IssueInv, LiveInv, lock = Nobody, NEW p \in Request, UNCHANGED <<seal, rows, expired>>,
         NEW deleted \in SUBSET Present, NEW inserted \in SUBSET (Session \ Issued), NEW excluded \in SUBSET Session,
         Open(p, deleted, inserted, excluded), inserted \subseteq {work'[p].fresh}
  PROVE  /\ lock' = p /\ touched' = deleted \cup inserted
         /\ \A s \in Session : s \in touched' => draft'[s].life = IF s \in deleted THEN "gone" ELSE "present"
         /\ \A s \in Session : s \notin excluded =>
              (s \in deleted /\ Deleted(s)') \/ Swapped(s)' \/ Awaited(s)' \/ Passed(s)'
         /\ \A s \in excluded : s \notin inserted => s \notin todo'
<1>1. /\ lock' = p /\ touched' = deleted \cup inserted
      /\ \A s \in Session : tries'[s] = 0
  BY DEF Open
<1> DEFINE after(s) == IF s \in inserted THEN NewRow(seal.epoch, seal.generation)
                       ELSE IF s \in deleted THEN [rows[s] EXCEPT !.life = "gone"]
                       ELSE rows[s]
<1>2. PICK dead \in SUBSET expired :
        /\ todo' = (Present \ (dead \cup deleted \cup excluded)) \cup inserted
        /\ draft' = [s \in Session |-> IF s \in touched' THEN after(s) ELSE Unissued]
        /\ copy' = [s \in Session |-> IF s \in todo' THEN after(s) ELSE Unissued]
  BY DEF Open
<1>3. deleted \cap inserted = {} /\ inserted \cap Present = {}
  BY DEF Present, Issued
<1>4. 0 < RebindAttempts /\ RebindAttempts \in Nat
  BY SessionsAssumption
<1>5. ASSUME NEW s \in deleted
      PROVE  s \in Session /\ Deleted(s)' /\ draft'[s].life = "gone"
  <2>1. s \in Session /\ rows[s] \in Row /\ rows[s].life = "present"
    BY LiveTypes DEF Present
  <2>2. draft'[s] = [rows[s] EXCEPT !.life = "gone"]
    BY <1>1, <1>2, <1>3, <2>1
  <2>3. /\ [rows[s] EXCEPT !.life = "gone"].life = "gone"
        /\ Alike([rows[s] EXCEPT !.life = "gone"], rows[s])
    BY <2>1, RowEdits
  <2>4. s \notin todo' /\ s \in touched'
    BY <1>1, <1>2, <1>3
  <2> QED
    BY <2>1, <2>2, <2>3, <2>4 DEF Deleted
<1>6. ASSUME NEW s \in inserted
      PROVE  s \in Session /\ Awaited(s)' /\ draft'[s].life = "present"
  <2>1. /\ s \in todo' /\ s \in touched' /\ draft'[s] = NewRow(seal.epoch, seal.generation)
        /\ copy'[s] = NewRow(seal.epoch, seal.generation) /\ s = work'[p].fresh
    BY <1>1, <1>2
  <2>2. /\ copy'[s].life = "present" /\ copy'[s].epoch = seal.epoch
        /\ copy'[s].generation = seal.generation
    BY <2>1, NewRows
  <2>3. Verifies(copy[s])'
    BY <2>2 DEF Verifies
  <2> QED
    BY <1>1, <1>4, <2>1, <2>2, <2>3 DEF Awaited
<1>7. ASSUME NEW s \in Session, s \notin excluded, s \notin deleted, s \notin inserted
      PROVE  Awaited(s)' \/ Passed(s)'
  <2>1. s \notin touched'
    BY <1>1, <1>7
  <2>2. CASE s \in todo'
    <3>1. copy'[s] = rows[s] /\ rows[s].life = "present"
      BY <1>2, <1>7, <2>2 DEF Present
    <3>2. Alike(copy'[s], rows'[s])
      BY <3>1 DEF Alike
    <3> QED
      BY <1>1, <1>4, <2>1, <2>2, <3>1, <3>2 DEF Awaited
  <2>3. CASE s \notin todo'
    <3>1. s \notin Present \/ s \in expired
      BY <1>2, <1>7, <2>3
    <3>2. s \notin Good'
      BY <3>1 DEF Good, Verifies, Present
    <3> QED
      BY <2>1, <2>3, <3>2 DEF Passed
  <2> QED
    BY <2>2, <2>3
<1>8. \A s \in excluded : s \notin inserted => s \notin todo'
  BY <1>2
<1> QED
  BY <1>1, <1>5, <1>6, <1>7, <1>8

\* Operations that open a transaction.
LEMMA Openings ==
  ASSUME TypeInv, TypeInv', IssueInv, IssueInv', LiveInv, NEW p \in Request
  PROVE  /\ \A s \in Session : Revoke(p, s) => LiveInv'
         /\ RevokePresented(p) => LiveInv'
         /\ \A s \in Session, fresh \in Drawable : BeginLink(p, s, fresh) => LiveInv'
         /\ DeleteOthers(p) => LiveInv'
<1>1. /\ pc \in [Request -> Step] /\ work \in [Request -> Work] /\ Present \subseteq Issued
      /\ NoSession \notin Session
  BY RowFields, SessionsAssumption DEF Present, Issued
<1>2. ASSUME NEW s \in Session, Revoke(p, s), ~Exhausted
      PROVE  LiveInv'
  <2>1. /\ lock = Nobody /\ UNCHANGED <<seal, account, rows, expired, left, refused>>
        /\ Open(p, {s}, {}, {}) /\ s \in Present
        /\ pc' = [pc EXCEPT ![p] = "following"]
        /\ work' = [work EXCEPT ![p] = [NoWork EXCEPT !.subject = s]]
    BY <1>2 DEF Revoke, Goto, history
  <2>2. /\ pc'[p] = "following" /\ \A q \in Request : q # p => pc'[q] = pc[q] /\ work'[q] = work[q]
        /\ work'[p].subject = s /\ work'[p].fresh = NoSession /\ work'[p].components = 0
    BY <1>1, <2>1 DEF NoWork
  <2>3. /\ lock' = p /\ touched' = {s}
        /\ \A t \in Session : t \in touched' => draft'[t].life = IF t \in {s} THEN "gone" ELSE "present"
        /\ \A t \in Session : (t \in {s} /\ Deleted(t)') \/ Swapped(t)' \/ Awaited(t)' \/ Passed(t)'
    <3> DEFINE deleted == {s}
               none == {}
    <3>1. /\ deleted \in SUBSET Present /\ none \in SUBSET (Session \ Issued) /\ none \in SUBSET Session
          /\ none \subseteq {work'[p].fresh} /\ Open(p, deleted, none, none)
      BY <2>1
    <3>2. /\ lock' = p /\ touched' = deleted \cup none
          /\ \A t \in Session : t \in touched' => draft'[t].life = IF t \in deleted THEN "gone" ELSE "present"
          /\ \A t \in Session : t \notin none =>
               (t \in deleted /\ Deleted(t)') \/ Swapped(t)' \/ Awaited(t)' \/ Passed(t)'
      <4> HIDE DEF deleted, none
      <4> QED
        BY <2>1, <3>1, Opened
    <3> QED
      BY <3>2
  <2>4. \A q \in Request : pc'[q] \in {"following", "linking", "keeping"} => q = p
    BY <2>3, OnlyInside
  <2>5. Seen(s)'.life = "gone"
    BY <2>3 DEF Seen
  <2>6. Following' /\ Linking' /\ Keeping' /\ TriesCounted'
    BY <1>1, <2>2, <2>3, <2>4, <2>5 DEF Following, Linking, Keeping, TriesCounted
  <2> QED
    BY <1>1, <2>1, <2>2, <2>3, <2>6, InsideStep DEF Inside
<1>3. ASSUME RevokePresented(p)
      PROVE  LiveInv'
  <2>1. /\ pc[p] = "presenting" /\ lock = Nobody
        /\ UNCHANGED <<seal, account, rows, expired, left, refused>>
        /\ work[p].fresh \in Session /\ work[p].fresh \notin Issued
    BY <1>3 DEF RevokePresented, dbVars, history, TypeInv, Remembered, LiveInv, IdsDrawnOnce
  <2>2. CASE Authorised(p)
    <3> DEFINE deleted == Present \cap {work[p].subject}
               inserted == {work[p].fresh}
    <3>1. Open(p, deleted, inserted, {}) /\ pc' = [pc EXCEPT ![p] = "following"] /\ work' = work
      BY <1>3, <2>2 DEF RevokePresented, Goto
    <3>2. pc'[p] = "following" /\ \A q \in Request : q # p => pc'[q] = pc[q] /\ work'[q] = work[q]
      BY <1>1, <3>1
    <3>3. /\ deleted \in SUBSET Present /\ inserted \in SUBSET (Session \ Issued)
          /\ inserted \subseteq {work'[p].fresh} /\ {} \in SUBSET Session
      BY <2>1, <3>1
    <3>4. /\ lock' = p /\ touched' = deleted \cup inserted
          /\ \A t \in Session : t \in touched' => draft'[t].life = IF t \in deleted THEN "gone" ELSE "present"
          /\ \A t \in Session : (t \in deleted /\ Deleted(t)') \/ Swapped(t)' \/ Awaited(t)' \/ Passed(t)'
      <4> HIDE DEF deleted, inserted
      <4> QED
        BY <2>1, <3>1, <3>3, Opened
    <3>5. \A q \in Request : pc'[q] \in {"following", "linking", "keeping"} => q = p
      BY <3>4, OnlyInside
    <3>6. work[p].subject \in Session => Seen(work[p].subject)'.life = "gone"
      <4>1. CASE work[p].subject \in Present
        BY <3>1, <3>4, <4>1 DEF Seen, Present
      <4>2. CASE work[p].subject \in Session \ Present
        <5>1. work[p].subject \in Issued /\ rows[work[p].subject].life = "gone"
          BY <1>1, <4>2, LiveTypes DEF LiveInv, IdsDrawnOnce, Present, Issued
        <5>2. work[p].subject \notin touched'
          BY <2>1, <3>4, <4>2, <5>1
        <5> QED
          BY <2>1, <3>1, <5>1, <5>2 DEF Seen
      <4> QED
        BY <4>1, <4>2
    <3>7. Following' /\ Linking' /\ Keeping' /\ TriesCounted'
      BY <2>1, <3>1, <3>2, <3>4, <3>5, <3>6 DEF Following, Linking, Keeping, TriesCounted
    <3>8. ~account.disabled
      BY <2>1, <2>2 DEF LiveInv, EnabledChecks, Authorised
    <3> QED
      BY <2>1, <3>1, <3>2, <3>4, <3>7, <3>8, InsideStep DEF Inside
  <2>3. CASE ~Authorised(p)
    <3>1. Finish(p) /\ UNCHANGED <<dbVars, expired, txVars, left, refused>>
      BY <1>3, <2>3 DEF RevokePresented, history
    <3> QED
      BY <2>1, <3>1, FinishApart, MovesBeside DEF Inside
  <2> QED
    BY <2>2, <2>3
<1>4. ASSUME NEW s \in Session, NEW fresh \in Drawable, BeginLink(p, s, fresh)
      PROVE  LiveInv'
  <2>1. /\ lock = Nobody /\ UNCHANGED <<seal, account, rows, expired, left, refused>>
        /\ Open(p, {}, {}, {s}) /\ s \in Present
        /\ pc' = [pc EXCEPT ![p] = "linking"]
        /\ work' = [work EXCEPT ![p] =
             [NoWork EXCEPT !.subject = s, !.fresh = fresh, !.era = era, !.password = account.password]]
    BY <1>4 DEF BeginLink, Goto, dbVars, history
  <2>2. /\ pc'[p] = "linking" /\ \A q \in Request : q # p => pc'[q] = pc[q] /\ work'[q] = work[q]
        /\ work'[p].subject = s /\ work'[p].fresh = fresh /\ work'[p].components = 0
    BY <1>1, <2>1 DEF NoWork
  <2>3. /\ lock' = p /\ touched' = {}
        /\ \A t \in Session \ {s} : (t \in {} /\ Deleted(t)') \/ Swapped(t)' \/ Awaited(t)' \/ Passed(t)'
        /\ s \notin todo'
    <3> DEFINE excluded == {s}
               none == {}
    <3>1. /\ none \in SUBSET Present /\ none \in SUBSET (Session \ Issued) /\ excluded \in SUBSET Session
          /\ none \subseteq {work'[p].fresh} /\ Open(p, none, none, excluded)
      BY <2>1
    <3>2. /\ lock' = p /\ touched' = none \cup none
          /\ \A t \in Session : t \notin excluded =>
               (t \in none /\ Deleted(t)') \/ Swapped(t)' \/ Awaited(t)' \/ Passed(t)'
          /\ \A t \in excluded : t \notin none => t \notin todo'
      <4> HIDE DEF excluded, none
      <4> QED
        BY <2>1, <3>1, Opened
    <3> QED
      BY <3>2
  <2>4. \A q \in Request : pc'[q] \in {"following", "linking", "keeping"} => q = p
    BY <2>3, OnlyInside
  <2>5. Following' /\ Linking' /\ Keeping' /\ TriesCounted'
    BY <1>1, <2>2, <2>3, <2>4 DEF Following, Linking, Keeping, TriesCounted
  <2> QED
    BY <1>1, <2>1, <2>2, <2>3, <2>5, InsideStep DEF Inside
<1>5. ASSUME DeleteOthers(p)
      PROVE  LiveInv'
  <2> DEFINE kept == work[p].subject
             others == Present \ {kept}
  <2>1. /\ pc[p] = "resolved" /\ lock = Nobody /\ UNCHANGED <<seal, account, rows, expired, left, refused>>
        /\ Verifies(rows[kept]) /\ touched' = others
        /\ draft' = [s \in Session |-> IF s \in others THEN [rows[s] EXCEPT !.life = "gone"] ELSE Unissued]
        /\ todo' = {kept} /\ copy' = [Blank EXCEPT ![kept] = rows[kept]]
        /\ lock' = p /\ pc' = [pc EXCEPT ![p] = "keeping"] /\ UNCHANGED <<tries, work>>
        /\ kept \in Session
    BY <1>5 DEF DeleteOthers, Goto, dbVars, history, TypeInv, Remembered
  <2>2. pc'[p] = "keeping" /\ \A q \in Request : q # p => pc'[q] = pc[q] /\ work'[q] = work[q]
    BY <1>1, <2>1
  <2>3. \A q \in Request : pc'[q] \in {"following", "linking", "keeping"} => q = p
    BY <2>1, OnlyInside
  <2>4. copy'[kept] = rows[kept]
    BY <2>1 DEF Blank
  <2>5. Verifies(copy[kept])' /\ Alike(copy'[kept], rows'[kept])
    BY <2>1, <2>4 DEF Verifies, Alike
  <2>6. ASSUME NEW s \in Session \ {kept}
        PROVE  Closed(s)'
    <3>1. CASE s \in Present
      <4>1. draft'[s] = [rows[s] EXCEPT !.life = "gone"] /\ rows[s] \in Row
        BY <2>1, <3>1, LiveTypes
      <4>2. /\ [rows[s] EXCEPT !.life = "gone"].life = "gone"
            /\ Alike([rows[s] EXCEPT !.life = "gone"], rows[s])
        BY <4>1, RowEdits
      <4>3. s \in touched'
        BY <2>1, <3>1
      <4> QED
        BY <2>1, <3>1, <4>1, <4>2, <4>3 DEF Closed, Present
    <3>2. CASE s \notin Present
      BY <2>1, <3>2 DEF Closed, Present
    <3> QED
      BY <3>1, <3>2
  <2>7. \A s \in Session : tries'[s] = 0
    BY <2>1, Unlocked
  <2>8. work'[p].subject = kept /\ kept \notin touched'
    BY <2>1
  <2>9. Keeping'
    <3>1. ASSUME NEW q \in Request, pc'[q] = "keeping"
          PROVE  /\ work'[q].subject \notin touched'
                 /\ Verifies(copy[work[q].subject])'
                 /\ Alike(copy'[work'[q].subject], rows'[work'[q].subject])
                 /\ \A s \in Session \ {work'[q].subject} : Closed(s)'
      <4>1. q = p
        BY <2>3, <3>1
      <4>2. Verifies(copy[work[q].subject])'
        BY <2>1, <2>5, <4>1 DEF Verifies
      <4> QED
        BY <2>5, <2>6, <2>8, <4>1, <4>2
    <3> QED
      BY <3>1 DEF Keeping
  <2>10. Following' /\ Linking' /\ TriesCounted'
    BY <2>2, <2>3, <2>7 DEF Following, Linking, TriesCounted
  <2> QED
    BY <2>1, <2>2, <2>9, <2>10, InsideStep DEF Inside
<1> QED
  BY <1>2, <1>3, <1>4, <1>5, Quiet

\* The rebinding of one row leaves every other as far as it was.
LEMMA RowElsewhere ==
  ASSUME TypeInv, TypeInv', NEW s \in Session, NEW t \in Session, t # s,
         UNCHANGED <<seal, rows, expired, lock, work>>,
         t \in touched' <=> t \in touched, t \in todo' <=> t \in todo,
         draft'[t] = draft[t], copy'[t] = copy[t], tries'[t] = tries[t]
  PROVE  /\ Deleted(t) => Deleted(t)'
         /\ Swapped(t) => Swapped(t)'
         /\ Awaited(t) => Awaited(t)'
         /\ Passed(t) => Passed(t)'
<1>1. Drawn' = Drawn /\ (t \in Good' <=> t \in Good)
  BY DEF Drawn, Good, Verifies
<1>2. Deleted(t) => Deleted(t)'
  BY DEF Deleted
<1>3. Swapped(t) => Swapped(t)'
  BY <1>1 DEF Swapped, Verifies
<1>4. Awaited(t) => Awaited(t)'
  BY DEF Awaited, Verifies
<1>5. Passed(t) => Passed(t)'
  BY <1>1 DEF Passed
<1> QED
  BY <1>2, <1>3, <1>4, <1>5

\* A row that was awaited and has been brought along, read again or passed over.
LEMMA Progressed ==
  ASSUME TypeInv, TypeInv', IssueInv, IssueInv', LiveInv, NEW p \in Request, NEW s \in Session,
         lock = p, pc[p] \in {"following", "linking"}, s \in todo,
         UNCHANGED <<dbVars, expired, lock, pc, work, left, refused>>,
         \A t \in Session : t # s =>
           /\ t \in touched' <=> t \in touched
           /\ t \in todo' <=> t \in todo
           /\ draft'[t] = draft[t] /\ copy'[t] = copy[t] /\ tries'[t] = tries[t],
         touched \subseteq touched', s \in touched' => Seen(s).life = "present",
         todo' \subseteq todo,
         Swapped(s)' \/ Awaited(s)' \/ Passed(s)'
  PROVE  LiveInv'
<1>1. UNCHANGED <<seal, account, rows, expired, left, refused>> /\ lock' = p /\ pc'[p] \in Inside
  BY DEF dbVars, Inside
<1>2. \A q \in Request : pc'[q] \in {"following", "linking", "keeping"} => q = p
  BY <1>1, OnlyInside
<1>3. ASSUME NEW t \in Session, t # s
      PROVE  /\ Deleted(t) => Deleted(t)'
             /\ Swapped(t) => Swapped(t)'
             /\ Awaited(t) => Awaited(t)'
             /\ Passed(t) => Passed(t)'
  BY <1>1, <1>3, RowElsewhere
<1>4. Following'
  <2>1. ASSUME pc'[p] = "following"
        PROVE  /\ \A t \in Session : \/ t = work'[p].subject /\ Deleted(t)'
                                     \/ Swapped(t)' \/ Awaited(t)' \/ Passed(t)'
               /\ work'[p].subject \in Session => Seen(work[p].subject)'.life = "gone"
               /\ work'[p].fresh \in Session => work'[p].fresh \in touched'
    <3>1. /\ \A t \in Session : \/ t = work[p].subject /\ Deleted(t)
                                \/ Swapped(t) \/ Awaited(t) \/ Passed(t)
          /\ work[p].subject \in Session => Seen(work[p].subject).life = "gone"
          /\ work[p].fresh \in Session => work[p].fresh \in touched
      BY <2>1 DEF LiveInv, Following
    <3>2. ASSUME work[p].subject \in Session
          PROVE  Seen(work[p].subject)'.life = "gone"
      <4>1. CASE work[p].subject = s
        <5>1. s \notin touched'
          BY <3>1, <3>2, <4>1
        <5>2. s \notin touched
          BY <5>1
        <5>3. rows[s].life = "gone"
          BY <3>1, <3>2, <4>1, <5>2 DEF Seen
        <5> QED
          BY <1>1, <4>1, <5>1, <5>3 DEF Seen
      <4>2. CASE work[p].subject # s
        BY <1>1, <3>1, <3>2, <4>2 DEF Seen
      <4> QED
        BY <4>1, <4>2
    <3> QED
      BY <1>3, <3>1, <3>2
  <2> QED
    BY <1>2, <2>1 DEF Following
<1>5. Linking'
  <2>1. ASSUME pc'[p] = "linking"
        PROVE  /\ work'[p].subject \in Session \ (touched' \cup todo')
               /\ \A t \in Session \ {work'[p].subject} : Swapped(t)' \/ Awaited(t)' \/ Passed(t)'
    <3>1. /\ work[p].subject \in Session \ (touched \cup todo)
          /\ \A t \in Session \ {work[p].subject} : Swapped(t) \/ Awaited(t) \/ Passed(t)
      BY <2>1 DEF LiveInv, Linking
    <3> QED
      BY <1>3, <3>1
  <2> QED
    BY <1>2, <2>1 DEF Linking
<1>6. Keeping' /\ TriesCounted'
  BY <1>2 DEF Keeping, TriesCounted
<1>7. EnabledChecks
  BY DEF LiveInv
<1> QED
  BY <1>1, <1>4, <1>5, <1>6, <1>7, InsideStep DEF EnabledChecks

\* The rebinding of the rows one by one, and the rereading of a kept one.
LEMMA Rebindings ==
  ASSUME TypeInv, TypeInv', IssueInv, IssueInv', LiveInv, NEW p \in Request
  PROVE  /\ \A s \in Session : Swap(p, s) \/ Reread(p, s) \/ LeaveUnverified(p, s) => LiveInv'
         /\ RereadKept(p) => LiveInv'
<1>1. /\ draft \in [Session -> Row] /\ copy \in [Session -> Row] /\ tries \in [Session -> Nat]
      /\ RebindAttempts \in Nat \ {0}
  BY RowFields, LiveTypes, SessionsAssumption
<1>2. ASSUME NEW s \in Session, lock = p, pc[p] \in {"following", "linking"}, s \in todo
      PROVE  Awaited(s)
  BY <1>2 DEF LiveInv, Following, Linking, Deleted, Swapped, Passed
<1>3. ASSUME NEW s \in Session, Swap(p, s)
      PROVE  LiveInv'
  <2>1. /\ lock = p /\ pc[p] \in {"following", "linking"} /\ s \in todo
        /\ Verifies(copy[s]) /\ Seen(s) = copy[s]
        /\ draft' = [draft EXCEPT ![s] = [copy[s] EXCEPT !.generation = Drawn, !.key = keyNow]]
        /\ touched' = touched \cup {s} /\ todo' = todo \ {s}
        /\ UNCHANGED <<dbVars, expired, lock, copy, tries, pc, work, left, refused>>
    BY <1>3 DEF Swap, history
  <2>2. Awaited(s)
    BY <1>2, <2>1
  <2>3. /\ draft'[s].generation = Drawn /\ draft'[s].epoch = copy[s].epoch
        /\ draft'[s].life = copy[s].life
    <3>1. draft'[s] = [copy[s] EXCEPT !.generation = Drawn, !.key = keyNow] /\ copy[s] \in Row
      BY <1>1, <2>1
    <3>2. ASSUME NEW row \in Row
          PROVE  /\ [row EXCEPT !.generation = Drawn, !.key = keyNow].generation = Drawn
                 /\ [row EXCEPT !.generation = Drawn, !.key = keyNow].epoch = row.epoch
                 /\ [row EXCEPT !.generation = Drawn, !.key = keyNow].life = row.life
      BY DEF Row
    <3> QED
      BY <3>1, <3>2
  <2>4. Verifies(rows[s]) \/ s = work[lock].fresh
    BY <2>1, <2>2 DEF Awaited, Seen
  <2>5. Swapped(s)'
    <3>1. Drawn' = Drawn /\ (Verifies(rows[s]) => Verifies(rows[s])')
      BY <2>1 DEF Drawn, Verifies, dbVars
    <3> QED
      BY <2>1, <2>2, <2>3, <2>4, <3>1 DEF Swapped, Awaited, Verifies, dbVars
  <2>6. \A t \in Session : t # s =>
           /\ t \in touched' <=> t \in touched
           /\ t \in todo' <=> t \in todo
           /\ draft'[t] = draft[t] /\ copy'[t] = copy[t] /\ tries'[t] = tries[t]
    BY <1>1, <2>1
  <2>7. touched \subseteq touched' /\ Seen(s).life = "present" /\ todo' \subseteq todo
    BY <2>1 DEF Verifies
  <2> QED
    BY <2>1, <2>5, <2>6, <2>7, Progressed
<1>4. ASSUME NEW s \in Session, Reread(p, s)
      PROVE  LiveInv'
  <2>1. /\ lock = p /\ pc[p] \in {"following", "linking"} /\ s \in todo
        /\ Verifies(copy[s]) /\ Seen(s) # copy[s]
        /\ tries' = [tries EXCEPT ![s] = @ + 1] /\ copy' = [copy EXCEPT ![s] = Seen(s)]
        /\ todo' = IF Seen(s).life = "present" /\ tries[s] + 1 < RebindAttempts
                   THEN todo ELSE todo \ {s}
        /\ UNCHANGED <<dbVars, expired, lock, touched, draft, pc, work, left, refused>>
    BY <1>4 DEF Reread, history
  <2>2. Awaited(s)
    BY <1>2, <2>1
  <2>3. s \notin touched /\ Seen(s) = rows[s] /\ Alike(copy[s], rows[s]) /\ rows[s].life # "unissued"
    BY <2>1, <2>2 DEF Awaited, Seen
  <2>4. tries'[s] = tries[s] + 1 /\ copy'[s] = rows[s] /\ tries[s] \in Nat /\ tries[s] < RebindAttempts
    BY <1>1, <2>1, <2>2, <2>3 DEF Awaited
  <2>5. Awaited(s)' \/ Passed(s)'
    <3>1. CASE rows[s].life = "present" /\ tries[s] + 1 < RebindAttempts
      <4>1. s \in todo' /\ Alike(copy'[s], rows'[s])
        BY <2>1, <2>3, <2>4, <3>1 DEF Alike, dbVars
      <4> QED
        BY <2>1, <2>3, <2>4, <3>1, <4>1 DEF Awaited, dbVars
    <3>2. CASE rows[s].life # "present"
      <4>1. s \notin todo' /\ s \notin Good'
        BY <2>1, <2>3, <3>2 DEF Good, Verifies, dbVars
      <4> QED
        BY <2>1, <2>3, <4>1 DEF Passed
    <3>3. CASE ~(tries[s] + 1 < RebindAttempts)
      <4>1. s \notin todo' /\ tries'[s] = RebindAttempts
        BY <1>1, <2>1, <2>4, <3>3
      <4> QED
        BY <2>1, <2>3, <4>1 DEF Passed
    <3> QED
      BY <3>1, <3>2, <3>3
  <2>6. \A t \in Session : t # s =>
           /\ t \in touched' <=> t \in touched
           /\ t \in todo' <=> t \in todo
           /\ draft'[t] = draft[t] /\ copy'[t] = copy[t] /\ tries'[t] = tries[t]
    BY <1>1, <2>1
  <2>7. touched \subseteq touched' /\ s \notin touched' /\ todo' \subseteq todo
    BY <2>1, <2>3
  <2> QED
    BY <2>1, <2>5, <2>6, <2>7, Progressed
<1>5. ASSUME NEW s \in Session, LeaveUnverified(p, s)
      PROVE  LiveInv'
  <2>1. /\ lock = p /\ pc[p] \in {"following", "linking"} /\ s \in todo
        /\ ~Verifies(copy[s]) /\ todo' = todo \ {s}
        /\ UNCHANGED <<dbVars, expired, lock, touched, draft, copy, tries, pc, work, left, refused>>
    BY <1>5 DEF LeaveUnverified, history
  <2>2. Awaited(s)
    BY <1>2, <2>1
  <2>3. s \notin touched /\ ~Verifies(rows[s])
    BY <2>1, <2>2 DEF Awaited, Verifies, Alike
  <2>4. Passed(s)'
    <3>1. s \notin Good'
      BY <2>1, <2>3 DEF Good, Verifies, dbVars
    <3> QED
      BY <2>1, <2>3, <3>1 DEF Passed
  <2>5. \A t \in Session : t # s =>
           /\ t \in touched' <=> t \in touched
           /\ t \in todo' <=> t \in todo
           /\ draft'[t] = draft[t] /\ copy'[t] = copy[t] /\ tries'[t] = tries[t]
    BY <2>1
  <2>6. touched \subseteq touched' /\ s \notin touched' /\ todo' \subseteq todo
    BY <2>1, <2>3
  <2> QED
    BY <2>1, <2>4, <2>5, <2>6, Progressed
<1>6. ASSUME RereadKept(p)
      PROVE  LiveInv'
  <2> DEFINE kept == work[p].subject
  <2>1. /\ lock = p /\ pc[p] = "keeping" /\ Rebound(copy[kept], Seen(kept))
        /\ copy' = [copy EXCEPT ![kept] = Seen(kept)]
        /\ UNCHANGED <<seal, account, rows, expired, lock, touched, draft, tries, pc, work, left, refused>>
    BY <1>6 DEF RereadKept, dbVars, history
  <2>2. /\ kept \in Session /\ kept \notin touched /\ Verifies(copy[kept])
        /\ Alike(copy[kept], rows[kept])
        /\ \A s \in Session \ {kept} : Closed(s)
    BY <2>1 DEF LiveInv, Keeping, TypeInv, Remembered
  <2>3. copy'[kept] = rows[kept] /\ rows[kept].life = "present"
    BY <1>1, <2>1, <2>2 DEF Seen, Rebound
  <2>4. \A q \in Request : pc'[q] \in {"following", "linking", "keeping"} => q = p
    BY <2>1, OnlyInside
  <2>5. Keeping'
    <3>1. ASSUME NEW q \in Request, pc'[q] = "keeping"
          PROVE  /\ work'[q].subject \notin touched'
                 /\ Verifies(copy[work[q].subject])'
                 /\ Alike(copy'[work'[q].subject], rows'[work'[q].subject])
                 /\ \A s \in Session \ {work'[q].subject} : Closed(s)'
      <4>1. q = p
        BY <2>4, <3>1
      <4>2. Verifies(copy[work[q].subject])'
        BY <2>1, <2>2, <2>3, <4>1 DEF Verifies, Alike
      <4>3. Alike(copy'[work'[q].subject], rows'[work'[q].subject])
        BY <2>1, <2>3, <4>1 DEF Alike
      <4>4. \A s \in Session \ {kept} : Closed(s)'
        BY <2>1, <2>2 DEF Closed
      <4> QED
        BY <2>1, <2>2, <4>1, <4>2, <4>3, <4>4
    <3> QED
      BY <3>1 DEF Keeping
  <2>6. Following' /\ Linking' /\ TriesCounted'
    BY <2>1, <2>4 DEF LiveInv, TriesCounted, Following, Linking
  <2> QED
    BY <2>1, <2>5, <2>6, InsideStep DEF Inside
<1> QED
  BY <1>3, <1>4, <1>5, <1>6

-----------------------------------------------------------------------------
(* Every step.                                                             *)

\* The invariant holds to begin with,
LEMMA LiveInit ==
  ASSUME Init
  PROVE  LiveInv
<1>1. /\ seal = [version |-> 1, epoch |-> 1, components |-> 1, generation |-> 1]
      /\ rows = [s \in Session |-> IF s \in Standing THEN NewRow(1, 1) ELSE Unissued]
      /\ expired = {} /\ refused = {} /\ keyNow = 1 /\ todo = {} /\ touched = {}
      /\ work = [p \in Request |-> NoWork] /\ pc = [p \in Request |-> "idle"]
      /\ tries = [s \in Session |-> 0]
  BY DEF Init
<1>2. \A s \in Session : \/ /\ rows[s].life = "present" /\ rows[s].epoch = 1 /\ rows[s].generation = 1
                         \/ /\ rows[s].life = "unissued" /\ rows[s].generation = 0
  BY <1>1, NewRows DEF Unissued
<1>3. \A p \in Request : /\ work[p].fresh = NoSession /\ work[p].subject = NoSession
                         /\ work[p].components = 0 /\ pc[p] = "idle"
  BY <1>1 DEF NoWork
<1>4. IdsDrawnOnce
  BY <1>1, <1>3, SessionsAssumption DEF IdsDrawnOnce, Issued
<1>5. GenerationOrder
  BY <1>1, <1>2, <1>3 DEF GenerationOrder
<1>6. RefusedBehind /\ EnabledChecks /\ Following /\ Linking /\ Keeping /\ TriesCounted
  BY <1>1, <1>3 DEF RefusedBehind, EnabledChecks, Following, Linking, Keeping, TriesCounted
<1>7. LiveSessionsVerify
  BY <1>1, <1>2 DEF LiveSessionsVerify, Present, Verifies
<1> QED
  BY <1>4, <1>5, <1>6, <1>7 DEF LiveInv

\* every step keeps it,
LEMMA LiveStep ==
  ASSUME TypeInv, TypeInv', IssueInv, IssueInv', LiveInv, [Next]_vars
  PROVE  LiveInv'
<1>1. ASSUME NEW p \in Request, Ask(p) PROVE LiveInv'
  BY <1>1, ReadersBeside, MassRevocations, Replacements, Openings DEF Ask
<1>2. ASSUME NEW p \in Request, Proceed(p) PROVE LiveInv'
  BY <1>2, ReadersBeside, Issues, Openings, Rebindings, RevocationCommits, LinkCommits,
     MassRevocations, KeptCommits, Replacements DEF Proceed
<1>3. CASE Environment
  BY <1>3, Quiet, TimeBeside DEF Environment
<1>4. CASE UNCHANGED vars
  BY <1>4, TimeBeside
<1> QED
  BY <1>1, <1>2, <1>3, <1>4 DEF Next

\* and so it always holds.
LEMMA SessionsInv ==
  Spec => [](TypeInv /\ IssueInv /\ LiveInv)
<1>1. Init => TypeInv /\ IssueInv /\ LiveInv
  BY InitialInv, LiveInit
<1>2. TypeInv /\ IssueInv /\ LiveInv /\ [Next]_vars => (TypeInv /\ IssueInv /\ LiveInv)'
  BY TypeStep, IssueStep, LiveStep
<1> QED
  BY <1>1, <1>2, PTL DEF Spec

-----------------------------------------------------------------------------
(* Bystanders and what was revoked.                                        *)

\* A single revocation, a sign-in that replaces the presented session, or an OAuth link ends one
\* session and no other: every other live row is brought to the new generation, unless it was
\* extended under the rebinding RebindAttempts times, or a reset was redeemed for a disabled
\* account (followedToGeneration and liveRowsOfUser in db/repositories/session.ts, E-3520).
THEOREM BystandersStayLive == Spec => []LiveSessionsVerify
<1>1. LiveInv => LiveSessionsVerify
  BY DEF LiveInv
<1> QED
  BY <1>1, SessionsInv, PTL

\* What a revocation deleted under a seal never resolves again, whatever an extension or a
\* rekeying that was in flight wrote (S-INTEG-9).
THEOREM RevocationsAreFinal == Spec => []RevokedRowsStayRefused
<1>1. TypeInv /\ LiveInv => RevokedRowsStayRefused
  <2>1. ASSUME TypeInv, LiveInv, NEW s \in refused
        PROVE  ~(rows[s].epoch = seal.epoch /\ rows[s].generation = seal.generation)
    <3>1. /\ rows[s].epoch \in Nat /\ rows[s].generation \in Nat
          /\ seal.epoch \in Nat /\ seal.generation \in Nat
      BY <2>1, LiveTypes, SealNumbers
    <3> QED
      BY <2>1, <3>1 DEF LiveInv, RefusedBehind
  <2> QED
    BY <2>1 DEF RevokedRowsStayRefused
<1> QED
  BY <1>1, SessionsInv, PTL

-----------------------------------------------------------------------------
(* SealedSessions implements SessionRegister.                              *)

\* What the register calls spent has been issued and is not good.
LEMMA SpentIsIssued ==
  {s \in Session \ Good : rows[s].life # "unissued"} = Issued \ Good
  BY DEF Issued

\* The good sessions become a set of good ones and of those just issued.
LEMMA BecomesGood ==
  ASSUME Good \subseteq Issued, Issued \subseteq Issued', Issued' \ Issued \subseteq Good',
         Good' \subseteq Good \cup (Issued' \ Issued)
  PROVE  {s \in Session \ Good : rows[s].life # "unissued"}'
           = {s \in Session \ Good : rows[s].life # "unissued"} \cup (Good \ Good')
<1>1. {s \in Session \ Good : rows[s].life # "unissued"}' = (Issued \ Good)'
  BY DEF Issued
<1>2. (Issued \ Good)' = (Issued \ Good) \cup (Good \ Good')
  OBVIOUS
<1> QED
  BY <1>1, <1>2, SpentIsIssued

\* The ids the register may still give are those no row was issued under.
LEMMA NeverUsedIds ==
  ASSUME Good \subseteq Issued
  PROVE  Register!NeverUsed = Session \ Issued
<1>1. {s \in Session \ Good : rows[s].life # "unissued"} = Issued \ Good
  BY SpentIsIssued
<1> QED
  BY <1>1 DEF Register!NeverUsed

\* The standing sessions are the good ones to begin with.
LEMMA RegisterStart ==
  ASSUME Init
  PROVE  Register!RegisterInit
<1>1. /\ seal = [version |-> 1, epoch |-> 1, components |-> 1, generation |-> 1]
      /\ rows = [s \in Session |-> IF s \in Standing THEN NewRow(1, 1) ELSE Unissued]
      /\ expired = {} /\ era = 0
      /\ tries = [s \in Session |-> 0]
  BY DEF Init
<1>2. \A s \in Session :
        IF s \in Standing THEN rows[s].life = "present" /\ rows[s].epoch = 1 /\ rows[s].generation = 1
        ELSE rows[s].life = "unissued"
  BY <1>1, NewRows DEF Unissued
<1>3. Good = Standing /\ {s \in Session \ Good : rows[s].life # "unissued"} = {}
  BY <1>1, <1>2, SessionsAssumption DEF Good, Verifies
<1>4. Abandoned = {}
  BY <1>1, SessionsAssumption DEF Abandoned
<1> QED
  BY <1>1, <1>3, <1>4 DEF Register!RegisterInit

\* What makes a session good, before and after a step.
LEMMA GoodSessions ==
  ASSUME TypeInv, IssueInv, LiveInv
  PROVE  /\ Good \subseteq Session /\ Issued \subseteq Session /\ Good \subseteq Issued
         /\ expired \subseteq Issued
         /\ lock = Nobody => Abandoned = {}
         /\ \A s \in Session : s \in Good <=>
              /\ s \notin expired /\ rows[s].life = "present"
              /\ rows[s].epoch = seal.epoch /\ rows[s].generation = seal.generation
         /\ Good' \subseteq Session /\ Issued' \subseteq Session
         /\ \A s \in Session : s \in Good' <=>
              /\ s \notin expired' /\ rows'[s].life = "present"
              /\ rows'[s].epoch = seal'.epoch /\ rows'[s].generation = seal'.generation
         /\ \A s \in Session : s \in Issued <=> rows[s].life # "unissued"
         /\ \A s \in Session : s \in Issued' <=> rows'[s].life # "unissued"
<1>1. lock = Nobody => Abandoned = {}
  BY Unlocked, SessionsAssumption DEF Abandoned
<1> QED
  BY <1>1 DEF Good, Verifies, Issued, LiveInv, IdsDrawnOnce

\* A step that changes none of the four is none of the register's.
LEMMA RegisterStays ==
  ASSUME Good' = Good, Issued' = Issued, Abandoned' = Abandoned, era' = era
  PROVE  UNCHANGED Register!registerVars
<1>1. {s \in Session \ Good : rows[s].life # "unissued"}' = (Issued \ Good)'
  BY DEF Issued
<1> QED
  BY <1>1, SpentIsIssued DEF Register!registerVars

\* Steps that leave every row what it was to a resolution.
LEMMA RegisterUnmoved ==
  ASSUME TypeInv, IssueInv, LiveInv, UNCHANGED <<expired, era>>,
         seal'.epoch = seal.epoch, seal'.generation = seal.generation,
         \A s \in Session : Left(s), Abandoned' = Abandoned
  PROVE  UNCHANGED Register!registerVars
<1>1. \A s \in Session : rows'[s].life # "unissued" <=> rows[s].life # "unissued"
  BY DEF Left
<1>2. \A s \in Session : s \notin expired =>
        /\ rows'[s].life = rows[s].life
        /\ rows'[s].epoch = rows[s].epoch /\ rows'[s].generation = rows[s].generation
  BY DEF Left, Alike
<1>3. \A s \in Session : s \in Good' <=> s \in Good
  BY <1>2, GoodSessions
<1>4. Good' = Good
  BY <1>3, GoodSessions
<1>5. Issued' = Issued
  BY <1>1, GoodSessions
<1> QED
  BY <1>4, <1>5, RegisterStays

\* A request that reads, draws or waits changes nothing the register tells of.
LEMMA ReadersStay ==
  ASSUME TypeInv, IssueInv, LiveInv, NEW p \in Request
  PROVE  /\ ReadPresentedOwner(p) \/ CompleteSecondFactor(p) \/ AnswerUnextended(p)
              \/ ReadToExtend(p) \/ RefuseRevocation(p) \/ RereadKept(p) \/ DeleteOthers(p)
              => UNCHANGED Register!registerVars
         /\ \A s \in Session : ResolveKept(p, s) \/ Resolve(p, s) \/ Swap(p, s) \/ LeaveUnverified(p, s)
              => UNCHANGED Register!registerVars
         /\ \A s \in Session : \A fresh : CheckOldPassword(p, s, fresh) \/ CheckPassword(p, s, fresh)
              => UNCHANGED Register!registerVars
         /\ \A presented, fresh : CheckPassword(p, presented, fresh) => UNCHANGED Register!registerVars
         /\ Rekey(p) \/ Extend(p) => UNCHANGED Register!registerVars
<1>1. ASSUME UNCHANGED <<seal, rows, expired, tries, era>>
      PROVE  UNCHANGED Register!registerVars
  BY <1>1, RegisterUnmoved DEF Left, Abandoned
<1>2. ReadPresentedOwner(p) \/ CompleteSecondFactor(p) \/ AnswerUnextended(p)
         \/ ReadToExtend(p) \/ RefuseRevocation(p) \/ RereadKept(p) \/ DeleteOthers(p)
         => UNCHANGED <<seal, rows, expired, tries, era>>
  BY DEF ReadPresentedOwner, CompleteSecondFactor, AnswerUnextended, ReadToExtend,
         RefuseRevocation, RereadKept, DeleteOthers, dbVars, txVars, history
<1>3. \A s \in Session : ResolveKept(p, s) \/ Resolve(p, s) \/ Swap(p, s) \/ LeaveUnverified(p, s)
         => UNCHANGED <<seal, rows, expired, tries, era>>
  BY DEF ResolveKept, Resolve, Swap, LeaveUnverified, dbVars, txVars, history
<1>4. \A s, fresh : CheckOldPassword(p, s, fresh) \/ CheckPassword(p, s, fresh)
         => UNCHANGED <<seal, rows, expired, tries, era>>
  BY DEF CheckOldPassword, CheckPassword, dbVars, txVars, history
<1>5. ASSUME Rekey(p) \/ Extend(p)
      PROVE  UNCHANGED Register!registerVars
  <2>1. UNCHANGED <<seal, expired, tries, era>>
    BY <1>5 DEF Rekey, Extend, txVars, history
  <2>2. \A s \in Session : Left(s)
    BY <1>5, RewritesLeave
  <2> QED
    BY <2>1, <2>2, RegisterUnmoved DEF Abandoned
<1> QED
  BY <1>1, <1>2, <1>3, <1>4, <1>5

\* So does what the environment does, and only a deadline ends a session.
LEMMA EnvironmentSteps ==
  ASSUME TypeInv, IssueInv, LiveInv
  PROVE  /\ \A disabled : SetDisabled(disabled) => UNCHANGED Register!registerVars
         /\ Rehash \/ RotateKey \/ UNCHANGED vars => UNCHANGED Register!registerVars
         /\ \A s \in Session : Sweep(s) => UNCHANGED Register!registerVars
         /\ \A s \in Session : Expire(s) => UNCHANGED Register!registerVars \/ Register!End(s)
         /\ \A p \in Request : Crash(p) => UNCHANGED Register!registerVars \/ Register!RollBack
<1>1. ASSUME UNCHANGED <<rows, expired, era>>, seal'.epoch = seal.epoch,
             seal'.generation = seal.generation, Abandoned' = Abandoned
      PROVE  UNCHANGED Register!registerVars
  BY <1>1, RegisterUnmoved DEF Left
<1>2. ASSUME NEW disabled, SetDisabled(disabled)
      PROVE  UNCHANGED Register!registerVars
  <2>1. seal' = Changed /\ UNCHANGED <<rows, expired, tries, era>>
    BY <1>2 DEF SetDisabled, txVars, history
  <2> QED
    BY <1>1, <2>1, SealNumbers DEF Abandoned
<1>3. ASSUME Rehash
      PROVE  UNCHANGED Register!registerVars
  <2>1. seal' = [seal EXCEPT !.version = Drawn] /\ UNCHANGED <<rows, expired, tries, era>>
    BY <1>3 DEF Rehash, txVars, history
  <2> QED
    BY <1>1, <2>1, SealNumbers DEF Abandoned
<1>4. ASSUME RotateKey \/ UNCHANGED vars
      PROVE  UNCHANGED Register!registerVars
  <2>1. UNCHANGED <<seal, rows, expired, tries, era>>
    BY <1>4 DEF RotateKey, vars, dbVars, txVars, history
  <2> QED
    BY <1>1, <2>1 DEF Abandoned
<1>5. ASSUME NEW s \in Session, Sweep(s)
      PROVE  UNCHANGED Register!registerVars
  <2>1. UNCHANGED <<seal, expired, tries, era>>
    BY <1>5 DEF Sweep, txVars, history
  <2>2. \A t \in Session : Left(t)
    BY <1>5, SweepLeaves
  <2> QED
    BY <2>1, <2>2, RegisterUnmoved DEF Abandoned
<1>6. ASSUME NEW s \in Session, Expire(s)
      PROVE  UNCHANGED Register!registerVars \/ Register!End(s)
  <2>1. expired' = expired \cup {s} /\ UNCHANGED <<seal, rows, tries, era>>
    BY <1>6 DEF Expire, dbVars, txVars, history
  <2>2. Good' = Good \ {s} /\ Issued' = Issued /\ Abandoned' = Abandoned
    BY <2>1, GoodSessions DEF Abandoned
  <2>3. CASE s \in Good
    <3>1. /\ {t \in Session \ Good : rows[t].life # "unissued"}'
               = {t \in Session \ Good : rows[t].life # "unissued"} \cup (Good \ Good')
      BY <2>2, GoodSessions, BecomesGood
    <3> QED
      BY <2>1, <2>2, <2>3, <3>1 DEF Register!End, Register!Becomes
  <2>4. CASE s \notin Good
    BY <2>1, <2>2, <2>4, RegisterStays
  <2> QED
    BY <2>3, <2>4
<1>7. ASSUME NEW p \in Request, Crash(p)
      PROVE  UNCHANGED Register!registerVars \/ Register!RollBack
  <2>1. UNCHANGED <<seal, rows, expired, era>>
    BY <1>7 DEF Crash, dbVars, history
  <2>2. Good' = Good /\ Issued' = Issued
    BY <2>1, GoodSessions
  <2>3. CASE lock = p
    <3>1. \A s \in Session : tries'[s] = 0
      BY <1>7, <2>3 DEF Crash, Release
    <3>2. Abandoned' = {}
      BY <3>1, SessionsAssumption DEF Abandoned
    <3>3. {s \in Session \ Good : rows[s].life # "unissued"}'
            = {s \in Session \ Good : rows[s].life # "unissued"}
      BY <2>1, <2>2
    <3> QED
      BY <2>1, <2>2, <3>2, <3>3 DEF Register!RollBack
  <2>4. CASE lock # p
    BY <1>1, <1>7, <2>1, <2>4 DEF Crash, txVars, Abandoned
  <2> QED
    BY <2>3, <2>4
<1> QED
  BY <1>2, <1>3, <1>4, <1>5, <1>6, <1>7

\* What becomes of the good sessions and of the issued ones tells the register's action.
LEMMA RegisterMoves ==
  ASSUME TypeInv, IssueInv, LiveInv
  PROVE  /\ \A s \in Session : /\ s \in Good /\ Good' = Good \ {s} /\ Issued' = Issued
                               /\ Abandoned' = Abandoned /\ era' = era
                               => Register!End(s)
         /\ \A S : /\ \A s, t \in S : s = t
                   /\ Good' = Good \ (S \cup Abandoned) /\ Issued' = Issued
                   /\ Abandoned' = {} /\ era' = era
                   => Register!EndWithOutrun(S)
         /\ Good' = {} /\ Issued' = Issued /\ Abandoned' = {} /\ era' = era + 1 => Register!EndEvery
         /\ \A s \in Session : /\ Good' = Good \cap {s} /\ Issued' = Issued
                               /\ Abandoned' = Abandoned /\ era' = era + 1
                               => Register!EndEveryOther(s)
         /\ \A s \in Session : /\ s \notin Issued /\ Good' = {s} /\ Issued' = Issued \cup {s}
                               /\ Abandoned' = Abandoned /\ era' = era + 1
                               => Register!EndEveryAndSignIn(s)
         /\ \A s \in Session : \A presented :
              /\ s \notin Issued /\ Good' = (Good \ ({presented} \cup Abandoned)) \cup {s}
              /\ Issued' = Issued \cup {s} /\ Abandoned' = {} /\ era' = era
              => Register!SignIn(s, presented)
<1> DEFINE spent == {s \in Session \ Good : rows[s].life # "unissued"}
<1>1. Good \subseteq Issued
  BY GoodSessions
<1>2. ASSUME Issued \subseteq Issued', Issued' \ Issued \subseteq Good',
             Good' \subseteq Good \cup (Issued' \ Issued)
      PROVE  spent' = spent \cup (Good \ Good')
  BY <1>1, <1>2, BecomesGood
<1>3. \A s \in Session : s \notin Issued => s \in Register!NeverUsed
  BY <1>1, NeverUsedIds
<1> HIDE DEF spent
<1>4. ASSUME NEW s \in Session, s \in Good, Good' = Good \ {s}, Issued' = Issued,
             Abandoned' = Abandoned, era' = era
      PROVE  Register!End(s)
  <2>1. spent' = spent \cup (Good \ Good')
    BY <1>2, <1>4
  <2> QED
    BY <1>4, <2>1 DEF Register!End, Register!Becomes, spent
<1>5. ASSUME NEW S, \A s, t \in S : s = t, Good' = Good \ (S \cup Abandoned), Issued' = Issued,
             Abandoned' = {}, era' = era
      PROVE  Register!EndWithOutrun(S)
  <2>1. spent' = spent \cup (Good \ Good')
    BY <1>2, <1>5
  <2> QED
    BY <1>5, <2>1 DEF Register!EndWithOutrun, Register!Becomes, spent
<1>6. ASSUME Good' = {}, Issued' = Issued, Abandoned' = {}, era' = era + 1
      PROVE  Register!EndEvery
  <2>1. spent' = spent \cup (Good \ Good')
    BY <1>2, <1>6
  <2> QED
    BY <1>6, <2>1 DEF Register!EndEvery, Register!Becomes, spent
<1>7. ASSUME NEW s \in Session, Good' = Good \cap {s}, Issued' = Issued, Abandoned' = Abandoned,
             era' = era + 1
      PROVE  Register!EndEveryOther(s)
  <2>1. spent' = spent \cup (Good \ Good')
    BY <1>2, <1>7
  <2> QED
    BY <1>7, <2>1 DEF Register!EndEveryOther, Register!Becomes, spent
<1>8. ASSUME NEW s \in Session, s \notin Issued, Good' = {s}, Issued' = Issued \cup {s},
             Abandoned' = Abandoned, era' = era + 1
      PROVE  Register!EndEveryAndSignIn(s)
  <2>1. spent' = spent \cup (Good \ Good')
    BY <1>2, <1>8
  <2> QED
    BY <1>3, <1>8, <2>1 DEF Register!EndEveryAndSignIn, Register!Becomes, spent
<1>9. ASSUME NEW s \in Session, NEW presented, s \notin Issued,
             Good' = (Good \ ({presented} \cup Abandoned)) \cup {s},
             Issued' = Issued \cup {s}, Abandoned' = {}, era' = era
      PROVE  Register!SignIn(s, presented)
  <2>1. spent' = spent \cup (Good \ Good')
    BY <1>2, <1>9
  <2> QED
    BY <1>3, <1>9, <2>1 DEF Register!SignIn, Register!Becomes, spent
<1> QED
  BY <1>4, <1>5, <1>6, <1>7, <1>8, <1>9

\* A mass revocation ends every session.
LEMMA MassesEnd ==
  ASSUME TypeInv, IssueInv, LiveInv, seal' = Raised, era' = era + 1, UNCHANGED expired,
         Abandoned' = {}, rows' = Removed(Present) \/ rows' = rows
  PROVE  Register!EndEvery
<1>1. \A s \in Session :
        /\ rows'[s].epoch = rows[s].epoch
        /\ rows'[s].life # "unissued" <=> rows[s].life # "unissued"
  BY RemovedRows DEF Alike, Present
<1>2. \A s \in Session : rows[s].epoch \in Nat /\ rows[s].epoch < Drawn
  BY Outdated, LiveTypes
<1>3. seal'.epoch = Drawn
  BY SealNumbers
<1>4. \A s \in Session : s \notin Good'
  BY <1>1, <1>2, <1>3, SealNumbers, GoodSessions
<1>5. Good' = {}
  BY <1>4, GoodSessions
<1>6. Issued' = Issued
  BY <1>1, GoodSessions
<1> QED
  BY <1>5, <1>6, RegisterMoves

\* A credential change ends every session and issues one.
LEMMA ReplacementSignsIn ==
  ASSUME TypeInv, IssueInv, LiveInv, NEW fresh \in Session, lock = Nobody, UNCHANGED <<txVars, expired>>,
         ReplaceEverySession(fresh), rows[fresh].life = "unissued"
  PROVE  Register!EndEveryAndSignIn(fresh)
<1>1. \A s \in Session :
         IF s = fresh
         THEN rows'[s].life = "present" /\ rows'[s].epoch = Drawn /\ rows'[s].generation = seal.generation
         ELSE /\ Alike(rows'[s], rows[s])
              /\ rows'[s].life = IF s \in Present THEN "gone" ELSE rows[s].life
  BY ReplacedRows
<1>2. seal' = Raised /\ era' = era + 1 /\ Abandoned' = Abandoned
  BY DEF ReplaceEverySession, txVars, Abandoned
<1>3. seal'.epoch = Drawn /\ seal'.generation = seal.generation
  BY <1>2, SealNumbers
<1>4. fresh \notin Issued /\ fresh \notin expired
  BY GoodSessions
<1>5. \A s \in Session : s \in Good' <=> s = fresh
  BY <1>1, <1>3, <1>4, GoodSessions DEF Present
<1>6. Good' = {fresh}
  BY <1>5, GoodSessions
<1>7. \A s \in Session : s \in Issued' <=> (s \in Issued \/ s = fresh)
  BY <1>1, GoodSessions DEF Present
<1>8. Issued' = Issued \cup {fresh}
  BY <1>7, GoodSessions
<1> QED
  BY <1>2, <1>4, <1>6, <1>8, RegisterMoves

\* An issue in one statement is a sign-in in the place of the session presented, if any.
LEMMA IssueSignsIn ==
  ASSUME TypeInv, IssueInv, LiveInv, NEW p \in Request, Issue(p)
  PROVE  \/ UNCHANGED Register!registerVars
         \/ \E s, presented \in Session : Register!SignIn(s, presented)
<1>1. /\ lock = Nobody /\ UNCHANGED <<seal, expired, era>> /\ tries' = tries
      /\ work[p].fresh \in Session /\ work[p].subject \in Session \cup {NoSession}
  BY LiveTypes DEF Issue, TypeInv, Remembered, txVars
<1>2. Abandoned' = {} /\ Abandoned = {}
  BY <1>1, GoodSessions DEF Abandoned
<1>3. CASE Authorised(p)
  <2>1. ASSUME NEW s \in Session
        PROVE  \/ s # work[p].fresh /\ s # work[p].subject /\ rows'[s] = rows[s]
               \/ /\ s # work[p].fresh /\ s = work[p].subject
                  /\ rows[s].life # "present" /\ rows'[s] = rows[s]
               \/ /\ s # work[p].fresh /\ s = work[p].subject /\ rows[s].life = "present"
                  /\ Alike(rows'[s], rows[s]) /\ rows'[s].life = "gone"
               \/ /\ s = work[p].fresh /\ rows[s].life = "unissued" /\ rows'[s].life = "present"
                  /\ rows'[s].epoch = seal.epoch /\ rows'[s].generation = seal.generation
    BY <1>3, IssueRows
  <2>2. rows[work[p].fresh].life = "unissued"
    BY <1>1, Moving
  <2>3. work[p].fresh \notin Issued /\ work[p].fresh \notin expired /\ work[p].fresh \notin Good
    BY <1>1, <2>2, GoodSessions
  <2>4. \A s \in Session : s \in Good' <=> (s \in Good /\ s # work[p].subject) \/ s = work[p].fresh
    BY <1>1, <2>1, <2>3, GoodSessions
  <2>5. Good' = (Good \ ({work[p].subject} \cup Abandoned)) \cup {work[p].fresh}
    BY <1>1, <1>2, <2>4, GoodSessions
  <2>6. \A s \in Session : s \in Issued' <=> (s \in Issued \/ s = work[p].fresh)
    BY <2>1, GoodSessions
  <2>7. Issued' = Issued \cup {work[p].fresh}
    BY <1>1, <2>6, GoodSessions
  <2>8. CASE work[p].subject \in Session
    BY <1>1, <1>2, <2>3, <2>5, <2>7, <2>8, RegisterMoves
  <2>9. CASE work[p].subject = NoSession
    <3>1. Good' = (Good \ ({work[p].fresh} \cup Abandoned)) \cup {work[p].fresh}
      BY <2>3, <2>5, <2>9, GoodSessions, SessionsAssumption
    <3> QED
      BY <1>1, <1>2, <2>3, <2>7, <3>1, RegisterMoves
  <2> QED
    BY <1>1, <2>8, <2>9
<1>4. CASE ~Authorised(p)
  <2>1. rows' = rows
    BY <1>4 DEF Issue
  <2>2. Good' = Good /\ Issued' = Issued
    BY <1>1, <2>1, GoodSessions
  <2> QED
    BY <1>1, <1>2, <2>2, RegisterStays
<1> QED
  BY <1>3, <1>4

\* The commit of a single revocation ends the session revoked and those that have outrun it, and
\* signs its successor in, if it has one.
LEMMA RevocationEndsOne ==
  ASSUME TypeInv, IssueInv, LiveInv, NEW p \in Request, CommitRevocation(p)
  PROVE  \/ \E S \in SUBSET Session : Register!EndWithOutrun(S)
         \/ \E s, presented \in Session : Register!SignIn(s, presented)
<1>1. /\ lock = p /\ UNCHANGED <<expired, era>> /\ seal' = Moved
      /\ \A s \in Session : tries'[s] = 0
      /\ work[p].subject \in Session \cup {NoSession} /\ work[p].fresh \in Session \cup {NoSession}
  BY LiveTypes DEF CommitRevocation, Release
<1>2. Abandoned' = {}
  BY <1>1, SessionsAssumption DEF Abandoned
<1>3. seal'.epoch = seal.epoch /\ seal'.generation = Drawn
  BY <1>1, SealNumbers
<1>4. ASSUME NEW s \in Session
      PROVE  \/ /\ s \in touched /\ draft[s].life = "gone" /\ rows'[s].life = "gone"
                /\ Alike(rows'[s], rows[s]) /\ rows[s].life = "present" /\ s # work[p].fresh
                /\ s = work[p].subject
             \/ /\ s \in touched /\ draft[s].life = "present" /\ s \notin Abandoned
                /\ s # work[p].subject
                /\ rows'[s].life = "present" /\ rows'[s].epoch = seal.epoch /\ rows'[s].generation = Drawn
                /\ Verifies(rows[s]) \/ s = work[p].fresh
             \/ /\ s \notin touched /\ s # work[p].fresh /\ rows'[s] = rows[s]
                /\ s \in Good => s \in Abandoned
                /\ s = work[p].subject => rows[s].life = "gone"
  BY RevocationRows
<1>5. \A s \in Session : rows[s].generation \in Nat /\ rows[s].generation < Drawn
  BY Unlocked, LiveTypes, SealNumbers
<1>6. ASSUME NEW s \in Session, s = work[p].fresh
      PROVE  rows[s].life = "unissued" /\ s \notin Issued /\ s \notin expired /\ s \notin Good
  BY <1>6, Moving, GoodSessions
<1>7. ASSUME NEW s \in Session
      PROVE  s \in Good' <=> \/ s \in Good /\ s # work[p].subject /\ s \notin Abandoned
                             \/ s = work[p].fresh
  <2>1. CASE s \in touched /\ s = work[p].subject /\ rows'[s].life = "gone" /\ s # work[p].fresh
    BY <2>1, GoodSessions
  <2>2. CASE /\ s \in touched /\ s \notin Abandoned /\ s # work[p].subject
             /\ rows'[s].life = "present" /\ rows'[s].epoch = seal.epoch /\ rows'[s].generation = Drawn
             /\ Verifies(rows[s]) \/ s = work[p].fresh
    <3>1. s \in Good' <=> s \notin expired
      BY <1>1, <1>3, <2>2, GoodSessions
    <3>2. CASE s = work[p].fresh
      BY <1>6, <3>1, <3>2
    <3>3. CASE Verifies(rows[s]) /\ s # work[p].fresh
      BY <2>2, <3>1, <3>3, GoodSessions DEF Verifies
    <3> QED
      BY <2>2, <3>2, <3>3
  <2>3. CASE /\ s # work[p].fresh /\ rows'[s] = rows[s]
             /\ s \in Good => s \in Abandoned
    <3>1. s \notin Good'
      BY <1>3, <1>5, <2>3, GoodSessions
    <3> QED
      BY <2>3, <3>1
  <2> QED
    BY <1>4, <2>1, <2>2, <2>3
<1>8. Good \subseteq Session /\ Good' \subseteq Session /\ Issued \subseteq Session /\ Issued' \subseteq Session
  BY GoodSessions
<1>9. \A s \in Session : s \in Issued' <=> (s \in Issued \/ s = work[p].fresh)
  BY <1>4, <1>6, GoodSessions DEF Verifies
<1>10. CASE work[p].fresh \in Session
  <2>1. work[p].fresh \notin Issued /\ work[p].fresh \notin Good
    BY <1>6, <1>10
  <2>2. Good' = (Good \ ({work[p].subject} \cup Abandoned)) \cup {work[p].fresh}
    BY <1>7, <1>8, <1>10
  <2>3. Issued' = Issued \cup {work[p].fresh}
    BY <1>8, <1>9, <1>10
  <2>4. CASE work[p].subject \in Session
    BY <1>1, <1>2, <1>10, <2>1, <2>2, <2>3, <2>4, RegisterMoves
  <2>5. CASE work[p].subject = NoSession
    <3>1. Good' = (Good \ ({work[p].fresh} \cup Abandoned)) \cup {work[p].fresh}
      BY <1>8, <2>1, <2>2, <2>5, SessionsAssumption
    <3> QED
      BY <1>1, <1>2, <1>10, <2>1, <2>3, <3>1, RegisterMoves
  <2> QED
    BY <1>1, <2>4, <2>5
<1>11. CASE work[p].fresh \notin Session
  <2> DEFINE S == {work[p].subject} \cap Session
  <2>1. Good' = Good \ (S \cup Abandoned)
    BY <1>7, <1>8, <1>11
  <2>2. Issued' = Issued
    BY <1>8, <1>9, <1>11
  <2>3. S \in SUBSET Session /\ \A s, t \in S : s = t
    OBVIOUS
  <2> HIDE DEF S
  <2> QED
    BY <1>1, <1>2, <2>1, <2>2, <2>3, RegisterMoves
<1> QED
  BY <1>10, <1>11

\* The commit of a link signs a successor in, in the place of the session it was asked on.
LEMMA LinkSignsIn ==
  ASSUME TypeInv, IssueInv, LiveInv, NEW p \in Request, CommitLink(p)
  PROVE  \/ Register!RollBack
         \/ \E s, presented \in Session : Register!SignIn(s, presented)
<1>1. /\ UNCHANGED <<expired, era>> /\ \A s \in Session : tries'[s] = 0
      /\ work[p].fresh \in Session
  BY DEF CommitLink, Release, TypeInv, Remembered
<1>2. Abandoned' = {}
  BY <1>1, SessionsAssumption DEF Abandoned
<1>3. CASE work[p].subject \in Present
  <2>1. seal' = [Moved EXCEPT !.components = Drawn]
    BY <1>3 DEF CommitLink
  <2>2. seal'.epoch = seal.epoch /\ seal'.generation = Drawn
    BY <2>1, SealNumbers
  <2>3. ASSUME NEW s \in Session
        PROVE  \/ /\ s = work[p].fresh /\ rows'[s].life = "present"
                  /\ rows'[s].epoch = seal.epoch /\ rows'[s].generation = Drawn
               \/ /\ s = work[p].subject /\ s # work[p].fresh /\ rows'[s].life = "gone"
                  /\ Alike(rows'[s], rows[s]) /\ rows[s].life = "present"
               \/ /\ s \notin {work[p].subject, work[p].fresh} /\ rows'[s].life = "present"
                  /\ rows'[s].epoch = seal.epoch /\ rows'[s].generation = Drawn
                  /\ Verifies(rows[s]) /\ s \notin Abandoned
               \/ /\ s \notin {work[p].subject, work[p].fresh} /\ rows'[s] = rows[s]
                  /\ s \in Good => s \in Abandoned
    BY <1>3, LinkRows
  <2>4. \A s \in Session : rows[s].generation \in Nat /\ rows[s].generation < Drawn
    BY Unlocked, LiveTypes, SealNumbers
  <2>5. work[p].fresh \notin Issued /\ work[p].fresh \notin expired
    BY <1>1, Moving, GoodSessions
  <2>6. ASSUME NEW s \in Session
        PROVE  s \in Good' <=> \/ s \in Good /\ s # work[p].subject /\ s \notin Abandoned
                               \/ s = work[p].fresh
    <3>1. CASE s = work[p].fresh
      BY <1>1, <2>2, <2>3, <2>5, <3>1, GoodSessions
    <3>2. CASE s = work[p].subject /\ s # work[p].fresh
      BY <2>3, <3>2, GoodSessions
    <3>3. CASE /\ s \notin {work[p].subject, work[p].fresh} /\ rows'[s].life = "present"
               /\ rows'[s].epoch = seal.epoch /\ rows'[s].generation = Drawn
               /\ Verifies(rows[s]) /\ s \notin Abandoned
      <4>1. s \in Good' <=> s \notin expired
        BY <1>1, <2>2, <3>3, GoodSessions
      <4> QED
        BY <3>3, <4>1, GoodSessions DEF Verifies
    <3>4. CASE /\ s \notin {work[p].subject, work[p].fresh} /\ rows'[s] = rows[s]
               /\ s \in Good => s \in Abandoned
      BY <2>2, <2>4, <3>4, GoodSessions
    <3> QED
      BY <2>3, <3>1, <3>2, <3>3, <3>4
  <2>7. \A s \in Session : s \in Issued' <=> (s \in Issued \/ s = work[p].fresh)
    BY <2>3, GoodSessions DEF Verifies
  <2>8. Issued' = Issued \cup {work[p].fresh}
    BY <1>1, <2>7, GoodSessions
  <2>9. Good' = (Good \ ({work[p].subject} \cup Abandoned)) \cup {work[p].fresh}
    BY <1>1, <2>6, GoodSessions
  <2>10. work[p].subject \in Session
    BY <1>3 DEF Present
  <2> QED
    BY <1>1, <1>2, <2>5, <2>8, <2>9, <2>10, RegisterMoves
<1>4. CASE work[p].subject \notin Present
  <2>1. UNCHANGED <<seal, rows>>
    BY <1>4 DEF CommitLink
  <2>2. Good' = Good
    BY <1>1, <2>1, GoodSessions
  <2>3. {s \in Session \ Good : rows[s].life # "unissued"}'
          = {s \in Session \ Good : rows[s].life # "unissued"}
    BY <2>1, <2>2
  <2> QED
    BY <1>1, <1>2, <2>2, <2>3 DEF Register!RollBack
<1> QED
  BY <1>3, <1>4

\* The commit of revokeAllOther ends every session but the one kept.
LEMMA KeptEndsOthers ==
  ASSUME TypeInv, IssueInv, LiveInv, NEW p \in Request, SwapKept(p)
  PROVE  \E s \in Session : Register!EndEveryOther(s)
<1> DEFINE kept == work[p].subject
<1>1. /\ lock = p /\ pc[p] = "keeping" /\ seal' = Raised /\ era' = era + 1 /\ UNCHANGED expired
      /\ \A s \in Session : tries'[s] = 0
      /\ kept \in Session
  BY DEF SwapKept, Release, TypeInv, Remembered
<1>2. \A s \in Session : tries[s] = 0
  BY <1>1 DEF LiveInv, TriesCounted, IssueInv, LockHeld
<1>3. Abandoned' = Abandoned
  BY <1>1, <1>2, SessionsAssumption DEF Abandoned
<1>4. seal'.epoch = Drawn /\ seal'.generation = seal.generation
  BY <1>1, SealNumbers
<1>5. ASSUME NEW s \in Session
      PROVE  IF s = kept
             THEN /\ Verifies(rows[s]) /\ rows'[s].life = "present"
                  /\ rows'[s].epoch = Drawn /\ rows'[s].generation = seal.generation
             ELSE \/ /\ s \in touched /\ rows[s].life = "present" /\ rows'[s].life = "gone"
                     /\ Alike(rows'[s], rows[s])
                  \/ s \notin touched /\ rows'[s] = rows[s] /\ rows[s].life # "present"
  BY KeptRows
<1>6. \A s \in Session : s \in Good' <=> s \in Good /\ s = kept
  BY <1>1, <1>4, <1>5, GoodSessions DEF Verifies
<1>7. Good' = Good \cap {kept}
  BY <1>6, GoodSessions
<1>8. \A s \in Session : s \in Issued' <=> s \in Issued
  BY <1>5, GoodSessions DEF Verifies
<1>9. Issued' = Issued
  BY <1>8, GoodSessions
<1> HIDE DEF kept
<1> QED
  BY <1>1, <1>3, <1>7, <1>9, RegisterMoves

\* A row that was rewritten RebindAttempts times has outrun the revocation.
LEMMA MissesOutrun ==
  ASSUME TypeInv, IssueInv, LiveInv, NEW p \in Request, NEW s \in Session, Reread(p, s)
  PROVE  UNCHANGED Register!registerVars \/ Register!Outrun(s)
<1>1. /\ lock = p /\ pc[p] \in {"following", "linking"} /\ s \in todo
      /\ tries' = [tries EXCEPT ![s] = @ + 1]
      /\ UNCHANGED <<seal, rows, expired, era>>
  BY DEF Reread, dbVars, history
<1>2. Awaited(s)
  BY <1>1 DEF LiveInv, Following, Linking, Deleted, Swapped, Passed
<1>3. tries \in [Session -> Nat] /\ tries[s] < RebindAttempts /\ RebindAttempts \in Nat
  BY <1>2, LiveTypes, SessionsAssumption DEF Awaited
<1>4. \A t \in Session : tries'[t] = IF t = s THEN tries[t] + 1 ELSE tries[t]
  BY <1>1, <1>3
<1>5. Good' = Good /\ Issued' = Issued
  BY <1>1, GoodSessions
<1>6. CASE tries[s] + 1 = RebindAttempts
  <2>1. Abandoned' = Abandoned \cup {s}
    BY <1>3, <1>4, <1>6 DEF Abandoned
  <2>2. {t \in Session \ Good : rows[t].life # "unissued"}'
          = {t \in Session \ Good : rows[t].life # "unissued"}
    BY <1>1, <1>5
  <2> QED
    BY <1>1, <1>5, <2>1, <2>2 DEF Register!Outrun
<1>7. CASE tries[s] + 1 # RebindAttempts
  <2>1. Abandoned' = Abandoned
    BY <1>3, <1>4, <1>7 DEF Abandoned
  <2> QED
    BY <1>1, <1>5, <2>1, RegisterStays
<1> QED
  BY <1>6, <1>7

\* A revocation opens a transaction, or, when no seal can be written, ends its session at once.
LEMMA OpeningsStay ==
  ASSUME TypeInv, IssueInv, LiveInv, NEW p \in Request
  PROVE  /\ \A s \in Session : Revoke(p, s) => UNCHANGED Register!registerVars \/ Register!End(s)
         /\ RevokePresented(p) => UNCHANGED Register!registerVars
         /\ \A s, fresh : BeginLink(p, s, fresh) => UNCHANGED Register!registerVars
<1>1. ASSUME NEW deleted, NEW inserted, NEW excluded, Open(p, deleted, inserted, excluded),
             lock = Nobody, UNCHANGED <<seal, rows, expired, era>>
      PROVE  UNCHANGED Register!registerVars
  <2>1. \A s \in Session : tries'[s] = 0
    BY <1>1 DEF Open
  <2>2. Abandoned' = Abandoned
    BY <1>1, <2>1, GoodSessions, SessionsAssumption DEF Abandoned
  <2>3. Good' = Good /\ Issued' = Issued
    BY <1>1, GoodSessions
  <2> QED
    BY <1>1, <2>2, <2>3, RegisterStays
<1>2. ASSUME UNCHANGED <<seal, rows, expired, era, tries>>
      PROVE  UNCHANGED Register!registerVars
  BY <1>2, RegisterUnmoved DEF Left, Abandoned
<1>3. ASSUME NEW s \in Session, Revoke(p, s)
      PROVE  UNCHANGED Register!registerVars \/ Register!End(s)
  <2>1. lock = Nobody /\ UNCHANGED <<seal, expired, era>>
    BY <1>3 DEF Revoke, history
  <2>2. CASE Exhausted
    <3>1. rows' = Removed({s}) /\ tries' = tries /\ s \in Present
      BY <1>3, <2>2 DEF Revoke, txVars
    <3> DEFINE S == {s}
    <3>2. s \in S /\ \A t \in Session : t \in S => t = s
      OBVIOUS
    <3>3. rows' = Removed(S)
      BY <3>1
    <3> HIDE DEF S
    <3>4. \A t \in Session : /\ Alike(rows'[t], rows[t])
                             /\ rows'[t].life = IF t \in S THEN "gone" ELSE rows[t].life
      BY <3>3, RemovedRows
    <3>5. \A t \in Session : t \in Good' <=> t \in Good /\ t # s
      BY <2>1, <3>2, <3>4, GoodSessions DEF Alike
    <3>6. Good' = Good \ {s}
      BY <3>5, GoodSessions
    <3>7. \A t \in Session : t \in Issued' <=> t \in Issued
      BY <3>1, <3>2, <3>4, GoodSessions, ZenonT(30) DEF Present
    <3>8. Issued' = Issued /\ Abandoned' = Abandoned
      BY <3>1, <3>7, GoodSessions DEF Abandoned
    <3>9. CASE s \in Good
      BY <2>1, <3>6, <3>8, <3>9, RegisterMoves
    <3>10. CASE s \notin Good
      <4>1. Good' = Good
        BY <3>6, <3>10
      <4> QED
        BY <2>1, <3>8, <4>1, RegisterStays
    <3> QED
      BY <3>9, <3>10
  <2>3. CASE ~Exhausted
    <3> DEFINE S == {s}
               none == {}
    <3>1. Open(p, S, none, none) /\ UNCHANGED rows
      BY <1>3, <2>3 DEF Revoke
    <3> HIDE DEF S, none
    <3> QED
      BY <1>1, <2>1, <3>1
  <2> QED
    BY <2>2, <2>3
<1>4. ASSUME RevokePresented(p)
      PROVE  UNCHANGED Register!registerVars
  <2>1. lock = Nobody /\ UNCHANGED <<seal, rows, expired, era>>
    BY <1>4 DEF RevokePresented, dbVars, history
  <2>2. CASE Authorised(p)
    <3>1. \A s \in Session : tries'[s] = 0
      BY <1>4, <2>2 DEF RevokePresented, Open
    <3>2. Abandoned' = Abandoned
      BY <2>1, <3>1, GoodSessions, SessionsAssumption DEF Abandoned
    <3>3. Good' = Good /\ Issued' = Issued
      BY <2>1, GoodSessions
    <3> QED
      BY <2>1, <3>2, <3>3, RegisterStays
  <2>3. CASE ~Authorised(p)
    BY <1>2, <1>4, <2>1, <2>3 DEF RevokePresented, txVars
  <2> QED
    BY <2>2, <2>3
<1>5. ASSUME NEW s, NEW fresh, BeginLink(p, s, fresh)
      PROVE  UNCHANGED Register!registerVars
  <2> DEFINE S == {s}
             none == {}
  <2>1. Open(p, none, none, S) /\ lock = Nobody /\ UNCHANGED <<seal, rows, expired, era>>
    BY <1>5 DEF BeginLink, dbVars, history
  <2> HIDE DEF S, none
  <2> QED
    BY <1>1, <2>1
<1> QED
  BY <1>3, <1>4, <1>5

\* So every step of the sessions is a step of the register, or none.
LEMMA RegisterSteps ==
  ASSUME TypeInv, IssueInv, LiveInv, [Next]_vars
  PROVE  [Register!RegisterNext]_(Register!registerVars)
<1> USE DEF Register!RegisterNext
<1>1. ASSUME NEW p \in Request, RevokeEvery(p) \/ DeleteUnverifiedKept(p) \/ DeleteKept(p)
      PROVE  Register!EndEvery
  <2>1. seal' = Raised /\ era' = era + 1 /\ UNCHANGED expired /\ rows' = Removed(Present)
    BY <1>1 DEF RevokeEvery, DeleteUnverifiedKept, DeleteKept
  <2>2. Abandoned' = {}
    <3>1. CASE RevokeEvery(p) \/ DeleteUnverifiedKept(p)
      <4>1. lock = Nobody /\ tries' = tries
        BY <3>1 DEF RevokeEvery, DeleteUnverifiedKept, txVars
      <4> QED
        BY <4>1, GoodSessions DEF Abandoned
    <3>2. CASE DeleteKept(p)
      <4>1. \A s \in Session : tries'[s] = 0
        BY <3>2 DEF DeleteKept, Release
      <4> QED
        BY <4>1, SessionsAssumption DEF Abandoned
    <3> QED
      BY <1>1, <3>1, <3>2
  <2> QED
    BY <2>1, <2>2, MassesEnd
<1>2. ASSUME NEW p \in Request, NEW fresh \in Drawable, ResetPassword(p, fresh)
      PROVE  Register!EndEvery \/ Register!EndEveryAndSignIn(fresh)
  <2>1. lock = Nobody /\ UNCHANGED <<expired, txVars>>
    BY <1>2 DEF ResetPassword
  <2>2. fresh \in Session /\ rows[fresh].life = "unissued"
    BY Moving
  <2>3. CASE account.disabled
    <3>1. seal' = Raised /\ era' = era + 1 /\ rows' = rows
      BY <1>2, <2>3 DEF ResetPassword
    <3>2. Abandoned' = {}
      BY <2>1, GoodSessions DEF Abandoned, txVars
    <3> QED
      BY <2>1, <3>1, <3>2, MassesEnd
  <2>4. CASE ~account.disabled
    <3>1. ReplaceEverySession(fresh)
      BY <1>2, <2>4 DEF ResetPassword
    <3> QED
      BY <2>1, <2>2, <3>1, ReplacementSignsIn
  <2> QED
    BY <2>3, <2>4
<1>3. ASSUME NEW p \in Request, ChangePassword(p)
      PROVE  UNCHANGED Register!registerVars \/ \E s \in Session : Register!EndEveryAndSignIn(s)
  <2>1. /\ lock = Nobody /\ UNCHANGED <<expired, txVars>> /\ work[p].fresh \in Session
        /\ ReplaceEverySession(work[p].fresh) \/ UNCHANGED <<dbVars, era>>
    BY <1>3 DEF ChangePassword, TypeInv, Remembered
  <2>2. CASE UNCHANGED <<dbVars, era>>
    <3>1. UNCHANGED <<seal, rows, expired, tries, era>>
      BY <2>1, <2>2 DEF dbVars, txVars
    <3> QED
      BY <3>1, RegisterUnmoved DEF Left, Abandoned
  <2>3. CASE ReplaceEverySession(work[p].fresh)
    <3>1. rows[work[p].fresh].life = "unissued"
      BY <2>1, Moving
    <3>2. PICK fresh \in Session : fresh = work[p].fresh
      BY <2>1
    <3>3. ReplaceEverySession(fresh) /\ rows[fresh].life = "unissued"
      BY <2>3, <3>1, <3>2
    <3>4. Register!EndEveryAndSignIn(fresh)
      BY <2>1, <3>3, ReplacementSignsIn
    <3> QED
      BY <3>4
  <2> QED
    BY <2>1, <2>2, <2>3
<1>4. ASSUME NEW p \in Request, Ask(p)
      PROVE  Register!RegisterNext \/ UNCHANGED Register!registerVars
  BY <1>1, <1>2, <1>4, ReadersStay, OpeningsStay, Moving DEF Ask
<1>5. ASSUME NEW p \in Request, Proceed(p)
      PROVE  Register!RegisterNext \/ UNCHANGED Register!registerVars
  BY <1>1, <1>3, <1>5, ReadersStay, OpeningsStay, IssueSignsIn, RevocationEndsOne, LinkSignsIn,
     KeptEndsOthers, MissesOutrun DEF Proceed
<1>6. ASSUME Environment \/ UNCHANGED vars
      PROVE  Register!RegisterNext \/ UNCHANGED Register!registerVars
  BY <1>6, EnvironmentSteps DEF Environment
<1> QED
  BY <1>4, <1>5, <1>6 DEF Next

\* The sessions of one account implement the register: each commit ends one session, all, or all
\* but one, and issues at most one; no interleaving of revocations, sign-ins, extensions, rekeyings,
\* changes, sweeps and crashes ends a bystander that did not outrun the revocation, or brings an
\* ended session back (session.ts, service.ts).
THEOREM SessionsImplementTheRegister == Spec => ImplementsRegister
<1>1. Init => Register!RegisterInit
  BY RegisterStart
<1>2. TypeInv /\ IssueInv /\ LiveInv /\ [Next]_vars => [Register!RegisterNext]_(Register!registerVars)
  BY RegisterSteps
<1> QED
  BY <1>1, <1>2, SessionsInv, PTL DEF Spec, ImplementsRegister, Register!RegisterSpec

-----------------------------------------------------------------------------
(* What a sign-in issues on.                                               *)

\* A row is issued under the id its request drew, by a sign-in, a change, a link or a reset.
LEMMA IssuedBy ==
  ASSUME TypeInv, IssueInv, LiveInv, [Next]_vars, NEW s \in Session,
         rows[s].life = "unissued", rows'[s].life = "present"
  PROVE  \/ \E q \in Request : /\ s = work[q].fresh
                               /\ \/ Issue(q) /\ Authorised(q)
                                  \/ CommitRevocation(q) \/ CommitLink(q) \/ ChangePassword(q)
         \/ s \in Drawable
<1>1. rows'[s] # rows[s]
  OBVIOUS
<1>2. s \notin Present /\ ~Left(s)
  BY DEF Present, Left
<1>3. \A S : rows' = Removed(S) => s \in S
  BY RemovedRows
<1>4. ASSUME NEW fresh \in Session, ReplaceEverySession(fresh)
      PROVE  s = fresh
  <2>1. IF s = fresh
        THEN rows'[s].life = "present" /\ rows'[s].epoch = Drawn /\ rows'[s].generation = seal.generation
        ELSE /\ Alike(rows'[s], rows[s])
             /\ rows'[s].life = IF s \in Present THEN "gone" ELSE rows[s].life
    BY <1>4, ReplacedRows
  <2> QED
    BY <1>2, <2>1
<1>5. ASSUME NEW p \in Request, Ask(p)
      PROVE  s \in Drawable
  <2>1. CASE RevokeEvery(p)
    BY <1>2, <1>3, <2>1 DEF RevokeEvery
  <2>2. ASSUME NEW fresh \in Drawable, ResetPassword(p, fresh)
        PROVE  s \in Drawable
    <3>1. fresh \in Session
      BY Moving
    <3> QED
      BY <1>1, <1>4, <2>2, <3>1 DEF ResetPassword
  <2>3. ASSUME NEW t \in Session, Revoke(p, t)
        PROVE  FALSE
    <3>1. t \in Present /\ (rows' = Removed({t}) \/ rows' = rows)
      BY <2>3 DEF Revoke
    <3>2. PICK S : S = {t}
      OBVIOUS
    <3>3. rows' = Removed(S) \/ rows' = rows
      BY <3>1, <3>2
    <3> QED
      BY <1>1, <1>2, <1>3, <3>1, <3>2, <3>3
  <2>4. ASSUME NEW t, NEW fresh, CheckPassword(p, t, fresh) \/ CheckOldPassword(p, t, fresh)
                 \/ BeginLink(p, t, fresh) \/ ResolveKept(p, t) \/ Resolve(p, t)
        PROVE  FALSE
    BY <1>1, <2>4 DEF CheckPassword, CheckOldPassword, BeginLink, ResolveKept, Resolve, dbVars
  <2> QED
    BY <1>5, <2>1, <2>2, <2>3, <2>4 DEF Ask
<1>6. ASSUME NEW q \in Request, Proceed(q)
      PROVE  /\ s = work[q].fresh
             /\ \/ Issue(q) /\ Authorised(q)
                \/ CommitRevocation(q) \/ CommitLink(q) \/ ChangePassword(q)
  <2>1. ASSUME Issue(q)
        PROVE  s = work[q].fresh /\ Authorised(q)
    <3>1. Authorised(q)
      BY <1>1, <2>1 DEF Issue
    <3> QED
      BY <1>1, <2>1, <3>1, IssueRows
  <2>2. ASSUME CommitRevocation(q)
        PROVE  s = work[q].fresh
    BY <1>1, <2>2, RevocationRows DEF Verifies
  <2>3. ASSUME CommitLink(q)
        PROVE  s = work[q].fresh
    <3>1. work[q].subject \in Present
      BY <1>1, <2>3 DEF CommitLink
    <3> QED
      BY <1>1, <2>3, <3>1, LinkRows DEF Verifies
  <2>4. ASSUME ChangePassword(q)
        PROVE  s = work[q].fresh
    <3>1. work[q].fresh \in Session
      BY <2>4 DEF ChangePassword, TypeInv, Remembered
    <3>2. ReplaceEverySession(work[q].fresh)
      BY <1>1, <2>4 DEF ChangePassword, dbVars
    <3>3. PICK fresh \in Session : fresh = work[q].fresh
      BY <3>1
    <3> QED
      BY <1>4, <3>2, <3>3
  <2>5. ASSUME SwapKept(q)
        PROVE  FALSE
    BY <1>1, <2>5, KeptRows DEF Verifies
  <2>6. ASSUME DeleteUnverifiedKept(q) \/ DeleteKept(q)
        PROVE  FALSE
    BY <1>2, <1>3, <2>6 DEF DeleteUnverifiedKept, DeleteKept
  <2>7. ASSUME Rekey(q) \/ Extend(q)
        PROVE  FALSE
    BY <1>2, <2>7, RewritesLeave
  <2>8. ASSUME ReadPresentedOwner(q) \/ CompleteSecondFactor(q) \/ RevokePresented(q) \/ DeleteOthers(q)
                 \/ RefuseRevocation(q) \/ RereadKept(q) \/ AnswerUnextended(q) \/ ReadToExtend(q)
        PROVE  FALSE
    BY <1>1, <2>8 DEF ReadPresentedOwner, CompleteSecondFactor, RevokePresented, DeleteOthers,
         RefuseRevocation, RereadKept, AnswerUnextended, ReadToExtend, dbVars
  <2>9. ASSUME NEW t \in Session, Swap(q, t) \/ Reread(q, t) \/ LeaveUnverified(q, t)
        PROVE  FALSE
    BY <1>1, <2>9 DEF Swap, Reread, LeaveUnverified, dbVars
  <2> QED
    BY <1>6, <2>1, <2>2, <2>3, <2>4, <2>5, <2>6, <2>7, <2>8, <2>9 DEF Proceed
<1>7. ASSUME Environment \/ UNCHANGED vars
      PROVE  FALSE
  <2>1. ASSUME NEW t \in Session, Sweep(t)
        PROVE  FALSE
    BY <1>2, <2>1, SweepLeaves
  <2>2. ASSUME UNCHANGED vars \/ Rehash \/ RotateKey
        PROVE  FALSE
    BY <1>1, <2>2 DEF vars, dbVars, Rehash, RotateKey
  <2>3. ASSUME NEW disabled, SetDisabled(disabled)
        PROVE  FALSE
    BY <1>1, <2>3 DEF SetDisabled
  <2>4. ASSUME NEW t \in Session, Expire(t)
        PROVE  FALSE
    BY <1>1, <2>4 DEF Expire, dbVars
  <2>5. ASSUME NEW q \in Request, Crash(q)
        PROVE  FALSE
    BY <1>1, <2>5 DEF Crash, dbVars
  <2> QED
    BY <1>7, <2>1, <2>2, <2>3, <2>4, <2>5 DEF Environment
<1> QED
  BY <1>5, <1>6, <1>7 DEF Next

\* A sign-in issues only while the password is the one checked and, unless a second factor was
\* checked since, the account enabled; and it leaves no session the browser presented beside its
\* successor (S-FIX-3, E-3377; createSession and replacePresentedSession).
THEOREM SignInsStandOnTheirCheck == Spec => SignInIssuesOnItsCheck
<1> DEFINE Holds(p) ==
      (/\ pc[p] \in {"issuing", "completing", "presenting", "following"}
       /\ work[p].fresh # NoSession
       /\ rows[work[p].fresh].life = "unissued"
       /\ rows'[work[p].fresh].life = "present")
        => /\ pc[p] # "completing" => ~account.disabled
           /\ work[p].password = account.password
           /\ work[p].subject # NoSession => rows'[work[p].subject].life = "gone"
<1>1. ASSUME TypeInv, IssueInv, LiveInv, [Next]_vars, NEW p \in Request,
             pc[p] \in {"issuing", "completing", "presenting", "following"},
             work[p].fresh # NoSession, rows[work[p].fresh].life = "unissued",
             rows'[work[p].fresh].life = "present"
      PROVE  /\ pc[p] # "completing" => ~account.disabled
             /\ work[p].password = account.password
             /\ work[p].subject # NoSession => rows'[work[p].subject].life = "gone"
  <2>1. /\ work[p].fresh \in Session /\ work[p].subject \in Session \cup {NoSession}
        /\ work[p].subject # NoSession => rows[work[p].subject].life \in {"present", "gone"}
    BY <1>1, LiveTypes DEF LiveInv, IdsDrawnOnce, Issued
  <2>2. work[p].fresh \notin Drawable
    BY <1>1 DEF Drawable
  <2>3. PICK q \in Request : /\ work[p].fresh = work[q].fresh
                             /\ \/ Issue(q) /\ Authorised(q)
                                \/ CommitRevocation(q) \/ CommitLink(q) \/ ChangePassword(q)
    BY <1>1, <2>1, <2>2, IssuedBy
  <2>4. q = p
    BY <1>1, <2>1, <2>3 DEF LiveInv, IdsDrawnOnce
  <2>5. CASE Issue(p) /\ Authorised(p)
    <3>1. pc[p] \in {"issuing", "completing", "presenting"} /\ work[p].epoch = seal.epoch
          /\ work[p].components = seal.components
      BY <2>5 DEF Issue, Authorised
    <3>2. pc[p] # "completing" => ~account.disabled
      BY <1>1, <3>1 DEF LiveInv, EnabledChecks
    <3>3. work[p].password = account.password
      BY <1>1, <3>1 DEF IssueInv, ChecksHold, Current
    <3>4. work[p].subject # NoSession => rows'[work[p].subject].life = "gone"
      BY <1>1, <2>1, <2>5, IssueRows
    <3> QED
      BY <3>2, <3>3, <3>4
  <2>6. CASE CommitRevocation(p)
    <3>1. pc[p] = "following"
      BY <2>6 DEF CommitRevocation
    <3>2. ~account.disabled
      BY <1>1, <2>1, <3>1 DEF LiveInv, EnabledChecks
    <3>3. work[p].password = account.password
      BY <1>1, <2>1, <3>1 DEF IssueInv, ChecksHold, Current
    <3>4. work[p].subject # NoSession => rows'[work[p].subject].life = "gone"
      BY <1>1, <2>1, <2>6, RevocationRows
    <3> QED
      BY <3>2, <3>3, <3>4
  <2> QED
    BY <1>1, <2>3, <2>4, <2>5, <2>6 DEF CommitLink, ChangePassword
<1>2. TypeInv /\ IssueInv /\ LiveInv /\ [Next]_vars => [\A p \in Request : Holds(p)]_vars
  BY <1>1
<1>3. TypeInv /\ IssueInv /\ LiveInv /\ [Next]_vars =>
        [\A p \in Request :
           LET issued == work[p].fresh
           IN  (/\ pc[p] \in {"issuing", "completing", "presenting", "following"}
                /\ issued # NoSession
                /\ rows[issued].life = "unissued"
                /\ rows'[issued].life = "present")
               => /\ pc[p] # "completing" => ~account.disabled
                  /\ work[p].password = account.password
                  /\ work[p].subject # NoSession => rows'[work[p].subject].life = "gone"]_vars
  BY <1>2
<1> QED
  BY <1>3, SessionsInv, PTL DEF Spec, SignInIssuesOnItsCheck

=============================================================================
