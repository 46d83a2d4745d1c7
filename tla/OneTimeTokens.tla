---------------------------- MODULE OneTimeTokens ----------------------------
(***************************************************************************)
(* The mailed links of one sealed account (src/core/token,                 *)
(* src/core/db/repositories/token.ts, src/core/flows).                     *)
(*                                                                         *)
(* A link is a row of one_time_token whose MAC covers the address it is    *)
(* mailed to and the account's generation of its purpose.  Minting runs    *)
(* under an advisory lock and takes no account lock.  A redemption deletes *)
(* its row first, which locks it until the commit, checks the account, and *)
(* takes the account lock last; a change of address withdraws every other  *)
(* row in between.  The effect of a redemption on the sessions is          *)
(* SealedSessions'.                                                        *)
(*                                                                         *)
(* A row whose deadline has passed is one that nobody presents any more.   *)
(* As in SealedSessions a draw is named by the version that made it.       *)
(***************************************************************************)
EXTENDS Naturals, FiniteSets

CONSTANTS
  Request,            \* the requests an application serves, each one a process
  Token,              \* the tokens rows are given
  Purpose,            \* ONE_TIME_TOKEN_PURPOSES, or those of them that are modelled
  Address,            \* the addresses the account may have
  FirstAddress,       \* the one it has at the start
  MaximumSealNumber,  \* MAXIMUM_SEAL_NUMBER, 2^53 - 1 in the code
  Nobody, NoToken

ASSUME OneTimeTokensAssumption ==
  /\ Nobody \notin Request
  /\ NoToken \notin Token
  /\ Purpose \subseteq {"email_verify", "password_reset", "email_change", "magic_link"}
  /\ FirstAddress \in Address
  /\ MaximumSealNumber \in Nat \ {0}

VARIABLES
  seal,       \* the committed security_state row
  account,    \* the sealed components the flows tell apart
  rows,       \* the committed one_time_token rows
  holder,     \* the request whose open transaction has deleted a row
  minter,     \* the request that holds the account's advisory lock
  lock,       \* the request that holds the account lock
  mailed,     \* the tokens a message has carried out
  pc,         \* where each request is
  work,       \* what each request remembers
  \* history, read by properties only
  effective,  \* the tokens whose redemption has changed the account
  overtaken,  \* the tokens minted while a redemption of their purpose committed
  late,       \* the tokens minted while a change of address withdrew the links of their purpose
  blamed      \* whether a token was reported as written back

locks   == <<holder, minter, lock>>
history == <<effective, overtaken, late, blamed>>
vars    == <<seal, account, rows, locks, mailed, pc, work, history>>

Row == [life: {"unissued", "present", "gone"}, purpose: Purpose \cup {"none"},
        generation: Nat, address: Address, to: Address]

Unissued == [life |-> "unissued", purpose |-> "none", generation |-> 0,
             address |-> FirstAddress, to |-> FirstAddress]

Work == [token: Token \cup {NoToken}, row: Row, left: SUBSET Purpose, sought: SUBSET Token]

NoWork == [token |-> NoToken, row |-> Unissued, left |-> {}, sought |-> {}]

Step == {"idle", "asked", "serialising", "minting", "inserted", "sending", "undoing",
         "consumed", "withdrawing", "deleting", "locking", "spending"}

TypeOK ==
  /\ seal \in [version: Nat, generation: [Purpose -> Nat], last: Token \cup {NoToken}]
  /\ account \in [address: Address, disabled: BOOLEAN]
  /\ rows \in [Token -> Row]
  /\ holder \in [Token -> Request \cup {Nobody}]
  /\ minter \in Request \cup {Nobody}
  /\ lock \in Request \cup {Nobody}
  /\ mailed \subseteq Token
  /\ pc \in [Request -> Step]
  /\ work \in [Request -> Work]
  /\ effective \subseteq Token
  /\ overtaken \subseteq Token
  /\ late \subseteq Token
  /\ blamed \in BOOLEAN

-----------------------------------------------------------------------------

Exhausted == seal.version >= MaximumSealNumber

Drawn == seal.version + 1

\* mutation: one generation for all purposes
MovedTogether(token) ==
  [version |-> Drawn, generation |-> [purpose \in Purpose |-> Drawn], last |-> token]

\* movesOfSpentToken: the generation of the token's own purpose
Moved(token) ==
  [seal EXCEPT !.version = Drawn, !.generation[rows[token].purpose] = Drawn, !.last = token]

Present(purpose) == {token \in Token : rows[token].life = "present" /\ rows[token].purpose = purpose}

Unheld(tokens) == \A token \in tokens : holder[token] = Nobody

HeldBy(r) == {token \in Token : holder[token] = r}

\* refuseATokenWrittenBack
Current(token) == rows[token].generation = seal.generation[rows[token].purpose]

Blame(token) == blamed' = (blamed \/ (~Current(token) /\ seal.last = token))

Goto(r, step) == pc' = [pc EXCEPT ![r] = step]

Finish(r) ==
  /\ pc' = [pc EXCEPT ![r] = "idle"]
  /\ work' = [work EXCEPT ![r] = NoWork]

Release(r) ==
  /\ holder' = [token \in Token |-> IF holder[token] = r THEN Nobody ELSE holder[token]]
  /\ minter' = IF minter = r THEN Nobody ELSE minter
  /\ lock' = IF lock = r THEN Nobody ELSE lock

\* what the open transaction has deleted is gone when it commits, and stays when it rolls back
Deleted(tokens) ==
  [token \in Token |-> IF token \in tokens THEN [rows[token] EXCEPT !.life = "gone"] ELSE rows[token]]

Init ==
  /\ seal = [version |-> 1, generation |-> [purpose \in Purpose |-> 1], last |-> NoToken]
  /\ account = [address |-> FirstAddress, disabled |-> FALSE]
  /\ rows = [token \in Token |-> Unissued]
  /\ holder = [token \in Token |-> Nobody]
  /\ minter = Nobody
  /\ lock = Nobody
  /\ mailed = {}
  /\ pc = [r \in Request |-> "idle"]
  /\ work = [r \in Request |-> NoWork]
  /\ effective = {}
  /\ overtaken = {}
  /\ late = {}
  /\ blamed = FALSE

-----------------------------------------------------------------------------
(* Minting.                                                                *)

\* a change of address that has looked for the purpose's rows and not committed yet
Withdrawn(purpose) ==
  \E q \in Request :
    \/ pc[q] \in {"withdrawing", "deleting"} /\ purpose \notin work[q].left
    \/ pc[q] = "locking" /\ rows[work[q].token].purpose = "email_change"

\* requestReset, requestMagicLink, requestVerification, requestChange: the account's address is
\* read before the transaction that mints
AskForLink(r, token, purpose, to) ==
  /\ pc[r] = "idle"
  /\ rows[token] = Unissued /\ \A q \in Request : work[q].token # token
  /\ to = account.address \/ purpose = "email_change"
  /\ Goto(r, "asked")
  /\ work' = [work EXCEPT ![r] = [NoWork EXCEPT !.token = token,
       !.row = [life |-> "present", purpose |-> purpose, generation |-> 0,
                address |-> account.address, to |-> to]]]
  /\ late' = IF Withdrawn(purpose) THEN late \cup {token} ELSE late
  /\ UNCHANGED <<seal, account, rows, locks, mailed, effective, overtaken, blamed>>

\* serialiseAndReadOwnerStatement: the generation is of the snapshot the statement was given
\* before it waited for the advisory lock
ReadGeneration(r) ==
  /\ pc[r] = "asked"
  /\ Goto(r, "serialising")
  /\ work' = [work EXCEPT ![r].row.generation = seal.generation[work[r].row.purpose]]
  /\ UNCHANGED <<seal, account, rows, locks, mailed, history>>

\* mutation: requests about one subject do not run in turn
SerialiseNothing(r) ==
  /\ pc[r] = "serialising"
  /\ minter' = r
  /\ Goto(r, "minting")
  /\ UNCHANGED <<seal, account, rows, holder, lock, mailed, work, history>>

Serialise(r) ==
  /\ pc[r] = "serialising"
  /\ minter = Nobody
  /\ minter' = r
  /\ Goto(r, "minting")
  /\ UNCHANGED <<seal, account, rows, holder, lock, mailed, work, history>>

\* replaceStatement: deletes the rows it supersedes, waiting for whoever has deleted one already.
\* Its snapshot is of the time before that wait and misses nothing: who else would insert a row of
\* this purpose waits for the advisory lock.
Replace(r) ==
  LET superseded == Present(work[r].row.purpose)
  IN  /\ pc[r] = "minting"
      /\ Unheld(superseded)
      /\ holder' = [token \in Token |-> IF token \in superseded THEN r ELSE holder[token]]
      /\ Goto(r, "inserted")
      /\ UNCHANGED <<seal, account, rows, minter, lock, mailed, work, history>>

CommitMint(r) ==
  /\ pc[r] = "inserted"
  /\ rows' = [Deleted(HeldBy(r)) EXCEPT ![work[r].token] = work[r].row]
  /\ Release(r)
  /\ Goto(r, "sending")
  /\ UNCHANGED <<seal, account, mailed, work, history>>

\* sendOrUndo: a message that fails may have gone out all the same
Send(r) ==
  /\ pc[r] = "sending"
  /\ \/ /\ mailed' = mailed \cup {work[r].token}
        /\ Finish(r)
     \/ /\ mailed' \in {mailed, mailed \cup {work[r].token}}
        /\ Goto(r, "undoing")
        /\ UNCHANGED work
  /\ UNCHANGED <<seal, account, rows, locks, history>>

\* ... and is then spent in a statement of its own, which moves no generation
Undo(r) ==
  /\ pc[r] = "undoing"
  /\ Unheld({work[r].token})
  /\ rows' = Deleted({work[r].token})
  /\ Finish(r)
  /\ UNCHANGED <<seal, account, locks, mailed, history>>

-----------------------------------------------------------------------------
(* Redemption.                                                             *)

\* mutation: the row is read, and deleted by the commit
ConsumeHeldRow(r, token) ==
  /\ pc[r] = "idle"
  /\ token \in mailed
  /\ rows[token].life = "present"
  /\ holder' = [holder EXCEPT ![token] = r]
  /\ Goto(r, IF rows[token].purpose = "password_reset" THEN "locking" ELSE "consumed")
  /\ work' = [work EXCEPT ![r] = [NoWork EXCEPT !.token = token]]
  /\ UNCHANGED <<seal, account, rows, minter, lock, mailed, history>>

\* consumeStatement: a second redemption waits and finds the row gone, or back
Consume(r, token) ==
  /\ pc[r] = "idle"
  /\ token \in mailed
  /\ rows[token].life = "present"
  /\ Unheld({token})
  /\ holder' = [holder EXCEPT ![token] = r]
  /\ Goto(r, IF rows[token].purpose = "password_reset" THEN "locking" ELSE "consumed")
  /\ work' = [work EXCEPT ![r] = [NoWork EXCEPT !.token = token]]
  /\ UNCHANGED <<seal, account, rows, minter, lock, mailed, history>>

RollBack(r) ==
  /\ Release(r)
  /\ Finish(r)
  /\ UNCHANGED <<seal, account, rows, mailed>>

AfterCheck(purpose) == IF purpose = "email_change" THEN "withdrawing" ELSE "locking"

\* accountOrDisabledOfRedemption: address, generation and whether the account is disabled are
\* read in the redemption's transaction, without the account lock
CheckAccount(r) ==
  LET token == work[r].token
  IN  /\ pc[r] = "consumed"
      /\ IF rows[token].address = account.address /\ Current(token)
         THEN /\ Goto(r, IF account.disabled THEN "spending" ELSE AfterCheck(rows[token].purpose))
              /\ work' = [work EXCEPT ![r].left = Purpose]
              /\ UNCHANGED <<seal, account, rows, locks, mailed, blamed>>
         ELSE /\ RollBack(r)
              /\ IF rows[token].address = account.address THEN Blame(token) ELSE UNCHANGED blamed
      /\ UNCHANGED <<effective, overtaken, late>>

\* withdrawTokensOf: one statement per purpose.  It deletes of the rows its snapshot shows, waiting
\* for whoever has deleted one already, those that still stand; what such a mint inserts it has not
\* seen.
BeginWithdraw(r, purpose) ==
  LET minting == {work[q].token : q \in {q \in Request :
                    pc[q] \in {"asked", "serialising", "minting", "inserted"}
                      /\ work[q].row.purpose = purpose}}
  IN  /\ pc[r] = "withdrawing"
      /\ purpose \in work[r].left
      /\ work' = [work EXCEPT ![r].left = @ \ {purpose},
                              ![r].sought = Present(purpose) \ HeldBy(r)]
      /\ Goto(r, "deleting")
      /\ late' = late \cup minting
      /\ UNCHANGED <<seal, account, rows, locks, mailed, effective, overtaken, blamed>>

\* mutation: the statement does not wait for a row that a mint has deleted
WithdrawUnheld(r) ==
  LET standing == {token \in work[r].sought : rows[token].life = "present" /\ holder[token] = Nobody}
  IN  /\ pc[r] = "deleting"
      /\ holder' = [token \in Token |-> IF token \in standing THEN r ELSE holder[token]]
      /\ work' = [work EXCEPT ![r].sought = {}]
      /\ Goto(r, IF work[r].left = {} THEN "locking" ELSE "withdrawing")
      /\ UNCHANGED <<seal, account, rows, minter, lock, mailed, history>>

Withdraw(r) ==
  LET standing == {token \in work[r].sought : rows[token].life = "present"}
  IN  /\ pc[r] = "deleting"
      /\ Unheld(standing)
      /\ holder' = [token \in Token |-> IF token \in standing THEN r ELSE holder[token]]
      /\ work' = [work EXCEPT ![r].sought = {}]
      /\ Goto(r, IF work[r].left = {} THEN "locking" ELSE "withdrawing")
      /\ UNCHANGED <<seal, account, rows, minter, lock, mailed, history>>

\* mutation: the account lock is taken before the other rows are withdrawn
LockedEarly == {"deleting", "locking", "spending"}

LockedFrom == {"locking", "spending"}

TakeAccountLock(r) ==
  /\ pc[r] \in LockedFrom
  /\ lock = Nobody
  /\ lock' = r
  /\ UNCHANGED <<seal, account, rows, holder, minter, mailed, pc, work, history>>

\* the seal moves with the effect and what the transaction deleted
CommitRedemption(r) ==
  LET token == work[r].token
  IN  /\ rows' = Deleted(HeldBy(r))
      /\ seal' = Moved(token)
      /\ overtaken' = overtaken \cup
           {work[q].token : q \in {q \in Request :
              pc[q] \in {"serialising", "minting", "inserted"}
                /\ work[q].row.purpose = rows[token].purpose}}
      /\ Release(r)
      /\ Finish(r)
      /\ UNCHANGED <<mailed, late, blamed>>

\* confirmAddress: the generation is compared again under the account lock
Confirm(r) ==
  LET token == work[r].token
  IN  /\ pc[r] = "locking" /\ lock = r
      /\ ~Exhausted
      /\ rows[token].purpose # "password_reset"
      /\ Current(token)
      /\ account' = IF rows[token].purpose = "email_change"
                    THEN [account EXCEPT !.address = rows[token].to] ELSE account
      /\ effective' = effective \cup {token}
      /\ CommitRedemption(r)

\* redeemReset: address and generation are compared under the account lock; an account disabled by
\* then keeps its password, and the token is spent
Reset(r) ==
  LET token == work[r].token
  IN  /\ pc[r] = "locking" /\ lock = r
      /\ ~Exhausted
      /\ rows[token].purpose = "password_reset"
      /\ rows[token].address = account.address
      /\ Current(token)
      /\ effective' = IF account.disabled THEN effective ELSE effective \cup {token}
      /\ CommitRedemption(r)
      /\ UNCHANGED account

\* spentOnADisabledAccount
SpendOnDisabled(r) ==
  /\ pc[r] = "spending" /\ lock = r
  /\ ~Exhausted
  /\ Current(work[r].token)
  /\ CommitRedemption(r)
  /\ UNCHANGED <<account, effective>>

\* a token that no longer fits, an address another account has and an exhausted seal refuse the
\* redemption under the lock, and its row stands again
Refuse(r) ==
  LET token == work[r].token
      readdressed == rows[token].purpose = "password_reset" /\ rows[token].address # account.address
  IN  /\ pc[r] \in LockedFrom /\ lock = r
      /\ \/ Exhausted \/ readdressed \/ ~Current(token)
         \/ pc[r] = "locking" /\ rows[token].purpose = "email_change"
      /\ RollBack(r)
      /\ IF Exhausted \/ readdressed THEN UNCHANGED blamed ELSE Blame(token)
      /\ UNCHANGED <<effective, overtaken, late>>

-----------------------------------------------------------------------------
(* What happens meanwhile.                                                 *)

\* user.disable, user.enable
SetDisabled(disabled) ==
  /\ lock = Nobody
  /\ ~Exhausted
  /\ account.disabled # disabled
  /\ account' = [account EXCEPT !.disabled = disabled]
  /\ seal' = [seal EXCEPT !.version = Drawn]
  /\ UNCHANGED <<rows, locks, mailed, pc, work, history>>

\* maintenance.sweep deletes the rows whose deadline has passed
Sweep(token) ==
  /\ rows[token].life = "present"
  /\ Unheld({token})
  /\ rows' = Deleted({token})
  /\ UNCHANGED <<seal, account, locks, mailed, pc, work, history>>

\* the process or its connection is lost, or a hook vetoes: an open transaction rolls back
Crash(r) ==
  /\ pc[r] # "idle"
  /\ RollBack(r)
  /\ UNCHANGED history

-----------------------------------------------------------------------------

Proceed(r) ==
  \/ ReadGeneration(r) \/ Serialise(r) \/ Replace(r) \/ CommitMint(r) \/ Send(r) \/ Undo(r)
  \/ CheckAccount(r)
  \/ \E purpose \in Purpose : BeginWithdraw(r, purpose)
  \/ Withdraw(r)
  \/ TakeAccountLock(r) \/ Confirm(r) \/ Reset(r) \/ SpendOnDisabled(r) \/ Refuse(r)

Environment ==
  \/ \E disabled \in BOOLEAN : SetDisabled(disabled)
  \/ \E token \in Token : Sweep(token)
  \/ \E r \in Request : Crash(r)

Next ==
  \/ \E r \in Request :
        \/ \E token \in Token :
              \/ \E purpose \in Purpose, to \in Address : AskForLink(r, token, purpose, to)
              \/ Consume(r, token)
        \/ Proceed(r)
  \/ Environment

Spec == Init /\ [][Next]_vars

-----------------------------------------------------------------------------
(* Properties.                                                             *)

\* A newly minted link supersedes the earlier ones of its purpose, however requests, redemptions
\* and their rollbacks interleave (S-TOKEN-3).
OneLinkPerPurpose == \A purpose \in Purpose : Cardinality(Present(purpose)) <= 1

\* A redemption ends its own link and no live one: a link that stands binds the generation its
\* purpose has, unless it was minted while a redemption of that purpose committed (E-3522).
LinksAreCurrent ==
  \A token \in Token :
    rows[token].life = "present" => Current(token) \/ token \in overtaken

\* A committed change of address leaves no link mailed to the old one but one whose mint the change
\* ran beside: asked for before the commit, and not committed when the change looked for the rows of
\* its purpose (S-INTEG-9, E-3278).  That statement waits for the row such a mint supersedes, and
\* does not see the one it inserts.
ChangeWithdrawsEveryLink ==
  \A token \in Token :
    rows[token].life = "present" => rows[token].address = account.address \/ token \in late

\* What E-3278 says of it: no redemption meets an account whose address is not the link's, which
\* accountOrDisabledOfRedemption reports as the work of a writer (S-INTEG-9).
NoLinkMeetsAnotherAddress ==
  \A r \in Request : pc[r] = "consumed" => rows[work[r].token].address = account.address

\* Where only the library writes, no redeemed token is reported as written back, not one that two
\* requests present at once, nor one whose redemption rolled back (E-3522).
NoLinkIsBlamed == ~blamed

\* q holds what r waits for.
WaitsFor(r, q) ==
  \/ pc[r] \in LockedFrom /\ lock = q
  \/ pc[r] = "serialising" /\ minter = q
  \/ pc[r] = "minting" /\ \E token \in Present(work[r].row.purpose) : holder[token] = q
  \/ pc[r] = "deleting" /\ \E token \in work[r].sought :
       rows[token].life = "present" /\ holder[token] = q

\* No requests wait for one another in a circle: advisory lock, token rows and account row are
\* taken in that order by all of them (E-3278, check:lock-order).
NobodyWaitsInACircle ==
  \A ring \in (SUBSET Request) \ {{}} :
    ~ \A r \in ring : \E q \in ring \ {r} : WaitsFor(r, q)

\* A link proves the account only while the account still has the address it was mailed to
\* (E-3264).
LinksProveTheAddress ==
  [][\A token \in effective' \ effective : rows[token].address = account.address]_vars

=============================================================================
