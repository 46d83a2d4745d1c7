--------------------------- MODULE SealedSessions ---------------------------
(***************************************************************************)
(* The sessions of one sealed account under the account lock               *)
(* (src/core/db/repositories/session.ts, src/core/session/service.ts,      *)
(* src/core/security-state/sealing.ts).                                    *)
(*                                                                         *)
(* A session row carries a MAC over the session epoch and the session      *)
(* generation of the account's seal row.  Every change of the account runs *)
(* in one READ COMMITTED transaction that holds the account lock, so at    *)
(* most one is open; what it has written is in draft until it commits, and *)
(* the rows in touched are locked against every other writer.  Resolutions *)
(* and idle extensions take no account lock: they read committed rows and  *)
(* write by compare-and-swap on the MAC they read.                         *)
(*                                                                         *)
(* Epochs and generations are drawn at random and compared for equality    *)
(* only.  A draw is named here by the version of the seal that made it,    *)
(* which makes every draw new.                                             *)
(***************************************************************************)
EXTENDS Naturals, FiniteSets

CONSTANTS
  Request,            \* the requests an application serves, each one a process
  Session,            \* the ids session rows are given
  Standing,           \* the sessions standing when the behaviour starts
  Operation,          \* the operations requests may ask for
  RebindAttempts,     \* GENERATION_REBIND_ATTEMPTS
  MaximumSealNumber,  \* MAXIMUM_SEAL_NUMBER, 2^53 - 1 in the code
  MaxIdle,            \* bound: how often one row's idle deadline is extended
  MaxKey,             \* bound: how many token MAC key versions there are
  Nobody, NoSession

ASSUME SessionsAssumption ==
  /\ Standing \subseteq Session
  /\ Nobody \notin Request
  /\ NoSession \notin Session
  /\ RebindAttempts \in Nat \ {0}
  /\ MaximumSealNumber \in Nat \ {0}
  /\ MaxIdle \in Nat
  /\ MaxKey \in Nat \ {0}

VARIABLES
  seal,     \* the committed security_state row
  account,  \* the sealed components the session paths tell apart
  rows,     \* the committed session rows
  expired,  \* the sessions whose idle or absolute deadline has passed
  keyNow,   \* the newest version of the token MAC key
  lock,     \* the request whose transaction holds the account lock
  touched,  \* the rows that transaction has written
  draft,    \* what it has written to them
  todo,     \* the rows it has still to rebind
  copy,     \* the rows it compares with
  tries,    \* how often it has compared each of them
  pc,       \* where each request is
  work,     \* what each request remembers
  \* history, read by properties only
  era,      \* how many mass revocations have committed
  vouch,    \* the era and password behind the check each session was issued on
  left,     \* sessions a change left on an epoch or generation the account left
  refused,  \* sessions whose row was deleted under a newer epoch or generation
  untold    \* sessions a password change deleted and told no plugin about

dbVars    == <<seal, account, rows>>
txVars    == <<lock, touched, draft, todo, copy, tries>>
history   == <<era, vouch, left, refused, untold>>
vars      == <<seal, account, rows, expired, keyNow, txVars, pc, work, history>>

Row == [life: {"unissued", "present", "gone"}, epoch: Nat, generation: Nat,
        idle: Nat, key: Nat]

Unissued == [life |-> "unissued", epoch |-> 0, generation |-> 0, idle |-> 0, key |-> 0]

\* sessionBinding: what the MAC of a new row covers beside the row's own fields
NewRow(epoch, generation) ==
  [life |-> "present", epoch |-> epoch, generation |-> generation, idle |-> 0, key |-> keyNow]

Work == [subject: Session \cup {NoSession}, fresh: Session \cup {NoSession},
         components: Nat, epoch: Nat, era: Nat, password: Nat, phc: Nat, row: Row]

NoWork == [subject |-> NoSession, fresh |-> NoSession, components |-> 0, epoch |-> 0,
           era |-> 0, password |-> 0, phc |-> 0, row |-> Unissued]

Step == {"idle", "checked", "presenting", "issuing", "completing", "following", "linking", "resolved",
         "keeping", "changing", "rekeying", "extending", "extended"}

TypeOK ==
  /\ seal \in [version: Nat, epoch: Nat, components: Nat, generation: Nat]
  /\ account \in [password: Nat, phc: Nat, disabled: BOOLEAN]
  /\ rows \in [Session -> Row]
  /\ expired \subseteq Session
  /\ keyNow \in Nat
  /\ lock \in Request \cup {Nobody}
  /\ touched \subseteq Session
  /\ draft \in [Session -> Row]
  /\ todo \subseteq Session
  /\ copy \in [Session -> Row]
  /\ tries \in [Session -> Nat]
  /\ pc \in [Request -> Step]
  /\ work \in [Request -> Work]
  /\ era \in Nat
  /\ vouch \in [Session -> [era: Nat, password: Nat]]
  /\ left \subseteq Session
  /\ refused \subseteq Session
  /\ untold \subseteq Session

-----------------------------------------------------------------------------
(* What statements see.                                                    *)

\* a statement of the open transaction sees its own writes over the committed rows
Seen(s) == IF s \in touched THEN draft[s] ELSE rows[s]

\* librarySessionBinding: the MAC verifies under the account's current epoch and generation
Verifies(row) ==
  /\ row.life = "present"
  /\ row.epoch = seal.epoch
  /\ row.generation = seal.generation

\* the sealed insert writes its row only under the seal its check read
Authorised(p) ==
  /\ work[p].epoch = seal.epoch
  /\ work[p].components = seal.components

Present == {s \in Session : rows[s].life = "present"}

Exhausted == seal.version >= MaximumSealNumber

\* mutation: the number before the version instead of the one after it
DrawnBackwards == seal.version - 1

Drawn == seal.version + 1

\* mutation: a mass revocation seals as a single one does
RaisedAsMoved == [seal EXCEPT !.version = Drawn, !.generation = Drawn]

\* componentsVersionAfter: a raised epoch or a moved component renews the components version
Raised == [seal EXCEPT !.version = Drawn, !.epoch = Drawn, !.components = Drawn]

\* mutation: the generation is written as it was
MovedInPlace == [seal EXCEPT !.version = Drawn]

Moved == [seal EXCEPT !.version = Drawn, !.generation = Drawn]

\* mutation: a changed component keeps the components version it had
ChangedSilently == [seal EXCEPT !.version = Drawn]

Changed == [seal EXCEPT !.version = Drawn, !.components = Drawn]

\* ids no row has and no other request has drawn
Drawable == {s \in Session : rows[s].life = "unissued"} \ {work[p].fresh : p \in Request}

Vouched(p) == [era |-> work[p].era, password |-> work[p].password]

Removed(S) == [s \in Session |-> IF s \in S THEN [rows[s] EXCEPT !.life = "gone"] ELSE rows[s]]

Init ==
  /\ seal = [version |-> 1, epoch |-> 1, components |-> 1, generation |-> 1]
  /\ account = [password |-> 1, phc |-> 1, disabled |-> FALSE]
  /\ keyNow = 1
  /\ rows = [s \in Session |-> IF s \in Standing THEN NewRow(1, 1) ELSE Unissued]
  /\ expired = {}
  /\ lock = Nobody
  /\ touched = {}
  /\ draft = [s \in Session |-> Unissued]
  /\ todo = {}
  /\ copy = [s \in Session |-> Unissued]
  /\ tries = [s \in Session |-> 0]
  /\ pc = [p \in Request |-> "idle"]
  /\ work = [p \in Request |-> NoWork]
  /\ era = 0
  /\ vouch = [s \in Session |-> [era |-> 0, password |-> 1]]
  /\ left = {}
  /\ refused = {}
  /\ untold = {}

Goto(p, step) == pc' = [pc EXCEPT ![p] = step]

Finish(p) ==
  /\ pc' = [pc EXCEPT ![p] = "idle"]
  /\ work' = [work EXCEPT ![p] = NoWork]

Begins(p, operation) == pc[p] = "idle" /\ operation \in Operation

-----------------------------------------------------------------------------
(* The open transaction.                                                   *)

Blank == [s \in Session |-> Unissued]

\* mutation: the lock is not given back
ReleaseKeepingTheLock ==
  /\ lock' = lock
  /\ touched' = {}
  /\ draft' = Blank
  /\ todo' = {}
  /\ copy' = Blank
  /\ tries' = [s \in Session |-> 0]

Release ==
  /\ lock' = Nobody
  /\ touched' = {}
  /\ draft' = Blank
  /\ todo' = {}
  /\ copy' = Blank
  /\ tries' = [s \in Session |-> 0]

\* a single revocation deletes some rows, may insert one, and reads the live rows to rebind;
\* live by the now() of a transaction that may have waited for the lock since
Open(p, deleted, inserted, excluded) ==
  LET after(s) == IF s \in inserted THEN NewRow(seal.epoch, seal.generation)
                  ELSE IF s \in deleted THEN [rows[s] EXCEPT !.life = "gone"]
                  ELSE rows[s]
  IN  \E dead \in SUBSET expired :
        LET following == (Present \ (dead \cup deleted \cup excluded)) \cup inserted
        IN  /\ lock' = p
            /\ touched' = deleted \cup inserted
            /\ draft' = [s \in Session |-> IF s \in touched' THEN after(s) ELSE Unissued]
            /\ todo' = following
            /\ copy' = [s \in Session |-> IF s \in following THEN after(s) ELSE Unissued]
            /\ tries' = [s \in Session |-> 0]

\* followedToGeneration: the row is still the one that was read and is swapped
Swap(p, s) ==
  /\ lock = p /\ pc[p] \in {"following", "linking"}
  /\ s \in todo
  /\ Verifies(copy[s])
  /\ Seen(s) = copy[s]
  /\ draft' = [draft EXCEPT ![s] = [copy[s] EXCEPT !.generation = Drawn, !.key = keyNow]]
  /\ touched' = touched \cup {s}
  /\ todo' = todo \ {s}
  /\ UNCHANGED <<dbVars, expired, keyNow, lock, copy, tries, pc, work, history>>

\* mutation: the first miss is the last
RereadOnce(p, s) ==
  /\ lock = p /\ pc[p] \in {"following", "linking"}
  /\ s \in todo
  /\ Verifies(copy[s])
  /\ Seen(s) # copy[s]
  /\ tries' = [tries EXCEPT ![s] = @ + 1]
  /\ todo' = todo \ {s}
  /\ UNCHANGED <<dbVars, expired, keyNow, lock, touched, draft, copy, pc, work, history>>

\* the swap missed: the row is read again, and after RebindAttempts misses left behind
Reread(p, s) ==
  /\ lock = p /\ pc[p] \in {"following", "linking"}
  /\ s \in todo
  /\ Verifies(copy[s])
  /\ Seen(s) # copy[s]
  /\ tries' = [tries EXCEPT ![s] = @ + 1]
  /\ copy' = [copy EXCEPT ![s] = Seen(s)]
  /\ todo' = IF Seen(s).life = "present" /\ tries[s] + 1 < RebindAttempts
             THEN todo ELSE todo \ {s}
  /\ UNCHANGED <<dbVars, expired, keyNow, lock, touched, draft, pc, work, history>>

\* a row whose MAC does not verify under the generation the change leaves is not followed
LeaveUnverified(p, s) ==
  /\ lock = p /\ pc[p] \in {"following", "linking"}
  /\ s \in todo
  /\ ~Verifies(copy[s])
  /\ todo' = todo \ {s}
  /\ UNCHANGED <<dbVars, expired, keyNow, lock, touched, draft, copy, tries, pc, work, history>>

Abandoned == {s \in Session : tries[s] = RebindAttempts}

\* the seal is written with the generation it drew and the transaction commits
CommitRevocation(p) ==
  /\ lock = p /\ pc[p] = "following"
  /\ todo = {}
  /\ rows' = [s \in Session |-> Seen(s)]
  /\ seal' = Moved
  /\ vouch' = IF work[p].fresh \in touched
              THEN [vouch EXCEPT ![work[p].fresh] = Vouched(p)] ELSE vouch
  /\ left' = left \cup Abandoned
  /\ refused' = refused \cup {s \in touched : draft[s].life = "gone"}
  /\ Release
  /\ Finish(p)
  /\ UNCHANGED <<account, expired, keyNow, era, untold>>

-----------------------------------------------------------------------------
(* Sign-in: a check without the lock, later an issue under it.             *)

\* signIn: the password is verified against a read of the seal and its components
CheckPassword(p, presented, fresh) ==
  /\ Begins(p, "signIn")
  /\ ~account.disabled
  /\ pc' = [pc EXCEPT ![p] = "checked"]
  /\ work' = [work EXCEPT ![p] =
       [NoWork EXCEPT !.subject = presented, !.fresh = fresh,
                      !.components = seal.components, !.epoch = seal.epoch,
                      !.era = era, !.password = account.password]]
  /\ UNCHANGED <<dbVars, expired, keyNow, txVars, history>>

\* replacePresentedSession: whether the account still owns the presented row is read first
ReadPresentedOwner(p) ==
  /\ pc[p] = "checked"
  /\ Goto(p, IF work[p].subject \in Present THEN "presenting" ELSE "issuing")
  /\ UNCHANGED <<dbVars, expired, keyNow, txVars, work, history>>

\* createSecondFactorCompletion: the second factor's check reads the seal again, whether the account
\* is still enabled or not, and the issue in its own transaction moves no generation; the epoch
\* stays the one the pending row was given by the first check
CompleteSecondFactor(p) ==
  /\ pc[p] = "checked" /\ "secondFactor" \in Operation
  /\ Goto(p, "completing")
  /\ work' = [work EXCEPT ![p].components = seal.components]
  /\ UNCHANGED <<dbVars, expired, keyNow, txVars, history>>

\* the presented row goes with the insert of its successor, or neither happens
InsertReplacing(p) ==
  /\ rows' = [s \in Session |->
       IF s = work[p].fresh THEN NewRow(work[p].epoch, seal.generation)
       ELSE IF s = work[p].subject /\ s \in Present THEN [rows[s] EXCEPT !.life = "gone"]
       ELSE rows[s]]
  /\ vouch' = [vouch EXCEPT ![work[p].fresh] = Vouched(p)]

\* issuing: lock, delete the presented row, conditional insert, commit
Issue(p) ==
  /\ pc[p] \in {"issuing", "completing"} \/ (pc[p] = "presenting" /\ Exhausted)
  /\ lock = Nobody
  /\ IF Authorised(p) THEN InsertReplacing(p) ELSE UNCHANGED <<rows, vouch>>
  /\ Finish(p)
  /\ UNCHANGED <<seal, account, expired, keyNow, txVars, era, left, refused, untold>>

\* a presented row of the account is revoked on its own in the transaction of the issue
RevokePresented(p) ==
  /\ pc[p] = "presenting"
  /\ lock = Nobody
  /\ ~Exhausted
  /\ IF Authorised(p)
     THEN /\ Open(p, Present \cap {work[p].subject}, {work[p].fresh}, {})
          /\ Goto(p, "following")
          /\ UNCHANGED work
     ELSE /\ Finish(p)
          /\ UNCHANGED txVars
  /\ UNCHANGED <<dbVars, expired, keyNow, history>>

-----------------------------------------------------------------------------
(* Revocations.                                                            *)

\* signOut, session.revoke, a plugin's revokeSession: one row, whatever its deadlines
Revoke(p, s) ==
  /\ Begins(p, "revoke")
  /\ lock = Nobody
  /\ s \in Present
  /\ IF Exhausted
     THEN /\ rows' = Removed({s})
          /\ UNCHANGED <<txVars, pc, work>>
     ELSE /\ Open(p, {s}, {}, {})
          /\ Goto(p, "following")
          /\ work' = [work EXCEPT ![p] = [NoWork EXCEPT !.subject = s]]
          /\ UNCHANGED rows
  /\ UNCHANGED <<seal, account, expired, keyNow, history>>

\* session.revokeAll
RevokeEvery(p) ==
  /\ Begins(p, "revokeEvery")
  /\ lock = Nobody
  /\ ~Exhausted
  /\ rows' = Removed(Present)
  /\ seal' = Raised
  /\ era' = era + 1
  /\ refused' = refused \cup Present
  /\ UNCHANGED <<account, expired, keyNow, txVars, pc, work, vouch, left, untold>>

\* session.revokeAllOther: the caller's session is resolved before the lock
ResolveKept(p, s) ==
  /\ Begins(p, "revokeOthers")
  /\ Verifies(rows[s]) /\ s \notin expired /\ ~account.disabled
  /\ Goto(p, "resolved")
  /\ work' = [work EXCEPT ![p] = [NoWork EXCEPT !.subject = s]]
  /\ UNCHANGED <<dbVars, expired, keyNow, txVars, history>>

\* under the lock the kept row is read and verified, then every other row is deleted
DeleteOthers(p) ==
  /\ pc[p] = "resolved"
  /\ lock = Nobody
  /\ ~Exhausted
  /\ LET kept == work[p].subject
         others == Present \ {kept}
     IN  /\ Verifies(rows[kept])
         /\ touched' = others
         /\ draft' = [s \in Session |-> IF s \in others
                        THEN [rows[s] EXCEPT !.life = "gone"] ELSE Unissued]
         /\ todo' = {kept}
         /\ copy' = [Blank EXCEPT ![kept] = rows[kept]]
  /\ lock' = p
  /\ Goto(p, "keeping")
  /\ UNCHANGED <<dbVars, expired, keyNow, tries, work, history>>

\* a kept row that does not verify goes with the others
DeleteUnverifiedKept(p) ==
  /\ pc[p] = "resolved"
  /\ lock = Nobody
  /\ ~Exhausted
  /\ ~Verifies(rows[work[p].subject])
  /\ rows' = Removed(Present)
  /\ seal' = Raised
  /\ era' = era + 1
  /\ refused' = refused \cup Present
  /\ Finish(p)
  /\ UNCHANGED <<account, expired, keyNow, txVars, vouch, left, untold>>

\* a seal that has no number left refuses the change
RefuseRevocation(p) ==
  /\ pc[p] = "resolved"
  /\ lock = Nobody
  /\ Exhausted
  /\ Finish(p)
  /\ UNCHANGED <<dbVars, expired, keyNow, txVars, history>>

\* keptAfterRebinding: the kept row is still the one that was read and goes under the new epoch
SwapKept(p) ==
  /\ lock = p /\ pc[p] = "keeping"
  /\ LET kept == work[p].subject
     IN  /\ Seen(kept) = copy[kept]
         /\ rows' = [s \in Session |-> IF s = kept
                       THEN [copy[kept] EXCEPT !.epoch = Drawn, !.key = keyNow] ELSE Seen(s)]
         /\ vouch' = [vouch EXCEPT ![kept].era = era + 1]
  /\ seal' = Raised
  /\ era' = era + 1
  /\ refused' = refused \cup touched
  /\ Release
  /\ Finish(p)
  /\ UNCHANGED <<account, expired, keyNow, left, untold>>

\* isRebindingOf: only a newer key version over the same session is followed
Rebound(row, reread) == reread.life = "present" /\ reread.key > row.key

RereadKept(p) ==
  /\ lock = p /\ pc[p] = "keeping"
  /\ Seen(work[p].subject) # copy[work[p].subject]
  /\ Rebound(copy[work[p].subject], Seen(work[p].subject))
  /\ copy' = [copy EXCEPT ![work[p].subject] = Seen(work[p].subject)]
  /\ UNCHANGED <<dbVars, expired, keyNow, lock, touched, draft, todo, tries, pc, work, history>>

\* a kept row that changed in any other way goes with the others
DeleteKept(p) ==
  /\ lock = p /\ pc[p] = "keeping"
  /\ Seen(work[p].subject) # copy[work[p].subject]
  /\ ~Rebound(copy[work[p].subject], Seen(work[p].subject))
  /\ rows' = Removed(Present)
  /\ seal' = Raised
  /\ era' = era + 1
  /\ refused' = refused \cup Present
  /\ Release
  /\ Finish(p)
  /\ UNCHANGED <<account, expired, keyNow, vouch, left, untold>>

-----------------------------------------------------------------------------
(* Changes of a sealed component.                                          *)

\* a credential change deletes every row and issues one under the epoch it draws
ReplaceEverySession(fresh) ==
  /\ rows' = [s \in Session |-> IF s = fresh THEN NewRow(Drawn, seal.generation)
                                ELSE Removed(Present)[s]]
  /\ account' = [account EXCEPT !.password = @ + 1, !.phc = @ + 1]
  /\ seal' = Raised
  /\ era' = era + 1
  /\ vouch' = [vouch EXCEPT ![fresh] = [era |-> era + 1, password |-> account.password + 1]]
  /\ refused' = refused \cup Present
  /\ untold' = untold \cup {s \in Present : ~Verifies(rows[s])}

\* password.change, password.set: the caller's session and password are checked before the KDF
CheckOldPassword(p, s, fresh) ==
  /\ Begins(p, "changePassword")
  /\ Verifies(rows[s]) /\ s \notin expired /\ ~account.disabled
  /\ Goto(p, "changing")
  /\ work' = [work EXCEPT ![p] =
       [NoWork EXCEPT !.subject = s, !.fresh = fresh, !.phc = account.phc]]
  /\ UNCHANGED <<dbVars, expired, keyNow, txVars, history>>

\* under the lock both must still hold, or the change is refused
ChangePassword(p) ==
  /\ pc[p] = "changing"
  /\ lock = Nobody
  /\ IF ~Exhausted /\ Verifies(rows[work[p].subject]) /\ account.phc = work[p].phc
     THEN ReplaceEverySession(work[p].fresh)
     ELSE UNCHANGED <<dbVars, era, vouch, refused, untold>>
  /\ Finish(p)
  /\ UNCHANGED <<expired, keyNow, txVars, left>>

\* a reset redeemed for an enabled account; a disabled one only draws the epoch
ResetPassword(p, fresh) ==
  /\ Begins(p, "resetPassword")
  /\ lock = Nobody
  /\ ~Exhausted
  /\ IF account.disabled
     THEN /\ seal' = Raised
          /\ era' = era + 1
          /\ left' = left \cup Present
          /\ UNCHANGED <<rows, account, vouch, refused, untold>>
     ELSE /\ ReplaceEverySession(fresh)
          /\ UNCHANGED left
  /\ UNCHANGED <<expired, keyNow, txVars, pc, work>>

\* an OAuth link moves the generation and rebinds every session but the one it replaces
BeginLink(p, s, fresh) ==
  /\ Begins(p, "link")
  /\ lock = Nobody
  /\ ~Exhausted /\ ~account.disabled
  /\ s \in Present
  /\ Open(p, {}, {}, {s})
  /\ Goto(p, "linking")
  /\ work' = [work EXCEPT ![p] =
       [NoWork EXCEPT !.subject = s, !.fresh = fresh, !.era = era, !.password = account.password]]
  /\ UNCHANGED <<dbVars, expired, keyNow, history>>

\* mutation: the successor is issued before the seal moves
CommitLinkBeforeTheSeal(p) ==
  /\ lock = p /\ pc[p] = "linking"
  /\ todo = {}
  /\ IF work[p].subject \in Present
     THEN /\ rows' = [s \in Session |->
               IF s = work[p].fresh THEN NewRow(seal.epoch, seal.generation)
               ELSE IF s = work[p].subject THEN [rows[s] EXCEPT !.life = "gone"]
               ELSE Seen(s)]
          /\ seal' = [Moved EXCEPT !.components = Drawn]
          /\ vouch' = [vouch EXCEPT ![work[p].fresh] = Vouched(p)]
          /\ left' = left \cup Abandoned
          /\ refused' = refused \cup {work[p].subject}
     ELSE UNCHANGED <<seal, rows, vouch, left, refused>>
  /\ Release
  /\ Finish(p)
  /\ UNCHANGED <<account, expired, keyNow, era, untold>>

\* ... deletes it and issues its successor under the generation the seal drew, or rolls back
CommitLink(p) ==
  /\ lock = p /\ pc[p] = "linking"
  /\ todo = {}
  /\ IF work[p].subject \in Present
     THEN /\ rows' = [s \in Session |->
               IF s = work[p].fresh THEN NewRow(seal.epoch, Drawn)
               ELSE IF s = work[p].subject THEN [rows[s] EXCEPT !.life = "gone"]
               ELSE Seen(s)]
          /\ seal' = [Moved EXCEPT !.components = Drawn]
          /\ vouch' = [vouch EXCEPT ![work[p].fresh] = Vouched(p)]
          /\ left' = left \cup Abandoned
          /\ refused' = refused \cup {work[p].subject}
     ELSE UNCHANGED <<seal, rows, vouch, left, refused>>
  /\ Release
  /\ Finish(p)
  /\ UNCHANGED <<account, expired, keyNow, era, untold>>

\* user.disable, user.enable
SetDisabled(disabled) ==
  /\ "setDisabled" \in Operation
  /\ lock = Nobody
  /\ ~Exhausted
  /\ account.disabled # disabled
  /\ account' = [account EXCEPT !.disabled = disabled]
  /\ seal' = Changed
  /\ UNCHANGED <<rows, expired, keyNow, txVars, pc, work, history>>

\* the background rehash of a verified password leaves the components version as it was
Rehash ==
  /\ "rehash" \in Operation
  /\ lock = Nobody
  /\ ~Exhausted
  /\ account' = [account EXCEPT !.phc = @ + 1]
  /\ seal' = [seal EXCEPT !.version = Drawn]
  /\ UNCHANGED <<rows, expired, keyNow, txVars, pc, work, history>>

-----------------------------------------------------------------------------
(* Resolution and idle extension, which take no account lock.              *)

\* verifiedSession: a stale key version is rebound first, then the deadline extended
Resolve(p, s) ==
  /\ Begins(p, "resolve")
  /\ Verifies(rows[s]) /\ s \notin expired /\ ~account.disabled
  /\ rows[s].idle < MaxIdle
  /\ Goto(p, IF rows[s].key < keyNow THEN "rekeying" ELSE "extending")
  /\ work' = [work EXCEPT ![p] = [NoWork EXCEPT !.subject = s, !.row = rows[s]]]
  /\ UNCHANGED <<dbVars, expired, keyNow, txVars, history>>

\* rebindSessionTokenMac: waits on a row the open transaction wrote, and a miss stands
Rekey(p) ==
  /\ pc[p] = "rekeying"
  /\ work[p].subject \notin touched
  /\ rows' = IF rows[work[p].subject] = work[p].row
             THEN [rows EXCEPT ![work[p].subject] = [work[p].row EXCEPT !.key = keyNow]]
             ELSE rows
  /\ Goto(p, "extending")
  /\ UNCHANGED <<seal, account, expired, keyNow, txVars, work, history>>

\* within the write interval a resolution extends nothing
AnswerUnextended(p) ==
  /\ pc[p] = "extending"
  /\ Finish(p)
  /\ UNCHANGED <<dbVars, expired, keyNow, txVars, history>>

\* extendIdleDeadline: the committed row is read and checked again, with its generation
ReadToExtend(p) ==
  /\ pc[p] = "extending"
  /\ IF Verifies(rows[work[p].subject])
     THEN /\ Goto(p, "extended")
          /\ work' = [work EXCEPT ![p].row = rows[work[p].subject]]
     ELSE Finish(p)
  /\ UNCHANGED <<dbVars, expired, keyNow, txVars, history>>

\* mutation: written over whatever the row holds by now
ExtendBlindly(p) ==
  /\ pc[p] = "extended"
  /\ work[p].subject \notin touched
  /\ rows' = IF rows[work[p].subject].life = "present" /\ work[p].subject \notin expired
             THEN [rows EXCEPT ![work[p].subject] =
                     [work[p].row EXCEPT !.idle = @ + 1, !.key = keyNow]]
             ELSE rows
  /\ Finish(p)
  /\ UNCHANGED <<seal, account, expired, keyNow, txVars, history>>

\* ... and written only where it still holds the MAC that was read and is still live
Extend(p) ==
  /\ pc[p] = "extended"
  /\ work[p].subject \notin touched
  /\ rows' = IF rows[work[p].subject] = work[p].row /\ work[p].subject \notin expired
             THEN [rows EXCEPT ![work[p].subject] =
                     [work[p].row EXCEPT !.idle = @ + 1, !.key = keyNow]]
             ELSE rows
  /\ Finish(p)
  /\ UNCHANGED <<seal, account, expired, keyNow, txVars, history>>

-----------------------------------------------------------------------------
(* Time, key rotation, sweeps and crashes.                                 *)

\* a row has expired once no transaction that began before its deadline can still extend it
Expire(s) ==
  /\ "expire" \in Operation
  /\ \A p \in Request : pc[p] = "extended" => work[p].subject # s
  /\ s \in Present \ expired
  /\ expired' = expired \cup {s}
  /\ UNCHANGED <<dbVars, keyNow, txVars, pc, work, history>>

\* maintenance.sweep takes no account lock
Sweep(s) ==
  /\ s \in (Present \cap expired) \ touched
  /\ rows' = Removed({s})
  /\ UNCHANGED <<seal, account, expired, keyNow, txVars, pc, work, history>>

RotateKey ==
  /\ keyNow < MaxKey
  /\ keyNow' = keyNow + 1
  /\ UNCHANGED <<dbVars, expired, txVars, pc, work, history>>

\* the process or its connection is lost: an open transaction rolls back
Crash(p) ==
  /\ pc[p] # "idle"
  /\ Finish(p)
  /\ IF lock = p THEN Release ELSE UNCHANGED txVars
  /\ UNCHANGED <<dbVars, expired, keyNow, history>>

-----------------------------------------------------------------------------

Ask(p) ==
  \/ \E presented \in {NoSession} \cup {s \in Session : rows[s].life # "unissued"},
        fresh \in Drawable : CheckPassword(p, presented, fresh)
  \/ RevokeEvery(p)
  \/ \E fresh \in Drawable : ResetPassword(p, fresh)
  \/ \E s \in Session :
        \/ Revoke(p, s)
        \/ ResolveKept(p, s)
        \/ Resolve(p, s)
        \/ \E fresh \in Drawable : CheckOldPassword(p, s, fresh) \/ BeginLink(p, s, fresh)

Proceed(p) ==
  \/ ReadPresentedOwner(p) \/ CompleteSecondFactor(p) \/ Issue(p) \/ RevokePresented(p)
  \/ \E s \in Session : Swap(p, s) \/ Reread(p, s) \/ LeaveUnverified(p, s)
  \/ CommitRevocation(p) \/ CommitLink(p)
  \/ DeleteOthers(p) \/ DeleteUnverifiedKept(p) \/ RefuseRevocation(p)
  \/ SwapKept(p) \/ RereadKept(p) \/ DeleteKept(p)
  \/ ChangePassword(p)
  \/ Rekey(p) \/ AnswerUnextended(p) \/ ReadToExtend(p) \/ Extend(p)

Environment ==
  \/ \E disabled \in BOOLEAN : SetDisabled(disabled)
  \/ Rehash
  \/ \E s \in Session : Expire(s) \/ Sweep(s)
  \/ RotateKey
  \/ \E p \in Request : Crash(p)

Next ==
  \/ \E p \in Request : Ask(p) \/ Proceed(p)
  \/ Environment

Spec == Init /\ [][Next]_vars

\* PostgreSQL grants row locks in the order they were asked for, so a request that waits on
\* the account lock again and again gets it
Fairness == \A p \in Request : SF_vars(Proceed(p))

FairSpec == Spec /\ Fairness

-----------------------------------------------------------------------------
(* Properties.                                                             *)

\* A session that would resolve stands on a check made after the last mass revocation and
\* against the password the account has now: no sign-in that raced revokeAll, revokeAllOther,
\* a password change or a reset, and no re-issue, leaves a session behind it (E-3403, E-3485).
NoSessionOutlivesItsCheck ==
  \A s \in Session :
    Verifies(rows[s]) => vouch[s] = [era |-> era, password |-> account.password]

\* A single revocation ends one session and no other: a live row always verifies under the
\* account's current epoch and generation, unless its rebinding missed RebindAttempts times
\* or a reset was redeemed for a disabled account (E-3520).
LiveSessionsVerify ==
  \A s \in Present \ expired : Verifies(rows[s]) \/ s \in left

\* What a revocation deleted under a seal stays refused: the epoch and generation its MAC
\* binds never become the account's again, whatever extension or rekeying was in flight
\* (S-INTEG-9).
RevokedRowsStayRefused ==
  \A s \in refused : ~(rows[s].epoch = seal.epoch /\ rows[s].generation = seal.generation)

\* A sign-in issues only while the password is the one checked and, unless a second factor was
\* checked since, the account enabled; it never leaves the session the browser presented beside
\* its successor (S-FIX-3, E-3377).
SignInIssuesOnItsCheck ==
  [][\A p \in Request :
       LET issued == work[p].fresh
       IN  (/\ pc[p] \in {"issuing", "completing", "presenting", "following"}
            /\ issued # NoSession
            /\ rows[issued].life = "unissued"
            /\ rows'[issued].life = "present")
           => /\ pc[p] # "completing" => ~account.disabled
              /\ work[p].password = account.password
              /\ work[p].subject # NoSession => rows'[work[p].subject].life = "gone"]_vars

\* session.revokeAllOther keeps the caller signed in: a kept row that verified before the
\* commit is still there after it.
KeptSessionSurvives ==
  [][\A p \in Request :
       (pc[p] = "keeping" /\ seal' # seal /\ Verifies(rows[work[p].subject]))
         => rows'[work[p].subject].life = "present"]_vars

\* A plugin listening to beforeSessionRevoke is told of every row a password change deletes,
\* expired ones included (E-765).
EveryDeletedSessionIsAnnounced == untold = {}

\* The sessions that would resolve for an enabled account.
Good == {s \in Session \ expired : Verifies(rows[s])}

Register == INSTANCE SessionRegister WITH
  good   <- Good,
  spent  <- {s \in Session \ Good : rows[s].life # "unissued"},
  outrun <- Abandoned,
  masses <- era

\* Epochs, generations, rebinding and compare-and-swap together keep what the session
\* operations promise: each commit ends one session, all, or all but one, and issues at most
\* one; no interleaving ends a bystander it did not outrun or brings a session back.
ImplementsRegister == Register!RegisterSpec

\* Every request is answered: nobody waits on the account lock for ever, and the loops that
\* follow a row rewritten underneath them end.
EveryRequestIsAnswered == \A p \in Request : pc[p] # "idle" ~> pc[p] = "idle"

=============================================================================
