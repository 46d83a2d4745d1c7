# velve-auth in TLA+

velve-auth is a TypeScript authentication library that keeps everything it knows in
PostgreSQL. This directory holds TLA+ modules of its core (`src/core`), configurations that
model-check them with TLC, and proofs that TLAPS checks. Paths below are relative to the
repository; decision numbers such as E-3485 are entries of `docs/decisions/log.md`.

## The system

An application builds one *instance* and mounts its HTTP handler, or calls its methods. There
is no process of its own, no thread and no queue: every operation is a request handled by one
async function, and requests of one account interleave at every `await`. What they share is
the database, reached in READ COMMITTED transactions (`db/read-committed.ts`), and, per process, a
semaphore, a rate-limit store, an alarm window and a table of hooks.

| component | state | operations | hard because |
|---|---|---|---|
| account seal (`security-state/sealing.ts`, `seal.ts`, `runtime.ts`) | one `security_state` row per account: version, session epoch, components version, generations of sessions, tokens and attempts, a MAC over all of them | `sealUnderAccountLock`: lock the account row, read and verify, write, draw new numbers, reseal, commit | many operations change it, sign-ins only read it and act later; version exhaustion |
| sessions (`db/repositories/session.ts`, `session/service.ts`) | one row per session, MAC over id, deadlines, epoch, generation, key version | issue, issue replacing a presented token, resolve, extend, rekey, revoke one / all / all others, replace for a link | some writers hold the account lock and some do not; row locks wait; rows are rebound one by one |
| session routes (`auth/routes.ts`), hooks (`plugin/`) | none | revoke, revokeAll, revokeAllOther, veto and announcement | what a plugin is told against what is deleted |
| passwords (`password/`) | hash of the account, rehash parameters | check, change, set, reset, rehash | the KDF runs between the check and the lock |
| pending second factors (`factor/pending`) | one row per half-done sign-in: attempts, epoch, attempt generation, MAC | begin, resolve, book an attempt, fail, consume, cancel | booked by compare-and-swap, then under the account lock; crash between |
| TOTP, recovery codes, WebAuthn (`factor/`) | secrets, used steps, codes, challenges | enrol, verify, spend | single use under concurrent verification |
| one-time tokens (`token/one-time-token.ts`, `db/repositories/token.ts`) and flows (`flows/`) | one row per outstanding mail link | mint (superseding), redeem, withdraw, change and withdraw all | mint against redemption; mail failure after commit |
| anchors (`security-state/anchor.ts`) | outside the database: the highest seal each heard of | ask before the read (before the verdict, for a resolution), tell after the commit | told late, out of order, or not at all; a database put back from a backup |
| sign-up (`flows/sign-up.ts`) | the account row, its first seal, its link | register, cover a taken address, announce, remove the untold account | the answer must not tell free from taken; a lost insert race |
| OAuth (`oauth/`), identities (`identity/`) | flow rows, identities | begin, callback, sign in, create, link, unlink | an identity read before the account lock; the last sign-in method |
| key-derivation semaphore (`password/semaphore.ts`) | places and a queue, per process | acquire, leave, time out | place and timer race |
| rate limits (`limit/`, `http/pipeline.ts`) | one row per bucket | draw, refill, sweep | draws with a time read earlier; a clock put back; headers of proxies |
| alarms (`security-state/alarm.ts`) | what was delivered in a window, per process | raise, hold back, aggregate | limit at the window's edge |
| plugins (`plugin/`) | declarations, a remembered check of the plugin login | register, tell hooks, lend a connection, run own-table SQL | hooks inside a library transaction; statements nobody awaits |
| maintenance (`auth/maintenance.ts`, `auth/security-state-maintenance.ts`, `token/rebind.ts`) | none | sweep, seal all, reseal one, rebind to the newest key | runs beside everything else, restarts |
| migrations (`db/migration-runner.ts`, `schema-rewrite.ts`) | two ledgers, the schema | migrate, status | two runners, a crash in between, a plugin's SQL that does more than it says |
| keys and MACs (`keys/`, `token/binding.ts`) | root keys by version | bind, verify, seal, open | cryptography: assumed |
| HTTP, client, configuration | none | parse, route, answer | no state between requests |

Every handler that changes an account has the same outline: read and check something without a
lock, spend time (a KDF, a hook, a mail), open a transaction, take the account lock with
`SELECT ... FOR UPDATE` on the `velve.user` row, read and verify the seal, write, reseal with new
numbers, commit, record the seal in the anchor. The questions this project asks are about what can
come between those steps. A session, a pending second factor and a mailed link are all rows whose
MAC binds numbers of the account's seal, so that a change of the seal ends them without touching
them; `SealedSessions`, `SecondFactors` and `OneTimeTokens` are each about one kind of row beside the seal.

What would be wrong, per component:

- *sessions*: a session that outlives a mass revocation or a password change; a bystander signed
  out by somebody else's revocation; an ended session that resolves again; a wait that never ends.
- *pending second factors*: an attempt that is not counted, or one too many; two sessions for one
  code, step or row; an alarm about a writer who was never there; a session issued after a factor
  was withdrawn.
- *mailed links*: two live links of one purpose; a link that stays live after its redemption, or
  after the address changed; a link that stops being redeemable because of somebody else's
  request; a deadlock between mints, redemptions and changes of address.
- *anchor*: a late recording taken for a rollback of the database; a rollback that goes unnoticed;
  a seal written below what an anchor holds, so that the account is lost.
- *accounts*: an account without a sign-in method; a seal that does not cover what the account has;
  a sign-in to an account that has lost the identity meanwhile; an answer that tells whether an
  address is taken, or a sign-up nobody is told of.
- *semaphore, rate limits, alarms*: a place lost or given twice, a bucket drawn below empty or an
  owner locked out by a flood, an alarm dropped without a count; a refusal that is cheaper than
  a check.
- *plugins*: a hook that breaks the library's transaction, writes outside it or waits for
  itself; a table or a route with two owners; a login whose reach is trusted for too long.
- *migrations*: a migration applied twice or half, one owner's migration at another's tables.

## The modules

| module | models | composed with |
|---|---|---|
| `SealedSessions` | the session rows of one account and every operation on them | `SessionRegister` as its abstract specification |
| `SessionRegister` | what the session operations promise their callers: which sessions are good | |
| `SecondFactors` | pending second factors, TOTP and recovery codes of one account | |
| `OneTimeTokens` | the mailed links of one account: minting, sending, redemption, change of address | |
| `Seals` | the seal row of one account against anchors, over restarts and reseals | |
| `Accounts` | how accounts come to be, gain and lose sign-in methods, and end | |
| `Requests` | one password sign-in through buckets, state check, semaphore, answer, rehash and alarms | |
| `PluginStart` | what the start makes of the declared plugins, and what the statement check lets through | |
| `Plugins` | hooks, lent connections and own-table SQL while requests run | extends `PluginStart` |
| `Migrations` | several processes migrating one schema, core and plugins | |
| `SealedSessionsProofs`, `SecondFactorsProofs`, `OneTimeTokensProofs`, `SealsProofs`, `AccountsProofs`, `RequestsProofs`, `PluginsProofs`, `MigrationsProofs` | theorems about the module each is named for | extend it |
| `MCSealedSessions`, `MCSecondFactors`, `MCOneTimeTokens`, `MCSeals`, `MCAccounts`, `MCRequests`, `MCPlugins`, `MCMigrations` | instances and symmetry sets for TLC | extend their module |

`PROJECT.json` maps every definition to the lines it stands for. A definition whose comment begins
with *mutation* or *Mutant* is a plausible bug in the definition after it; no specification uses it. The
mutants of `PROJECT.json` put it in that definition's place and the named property must then fail.

### SealedSessions

*State.* `seal` is the committed `security_state` row, reduced to version, session epoch,
components version and session generation. `account` holds what the session paths tell apart of the
sealed components: which password (`password`), which hash of it (`phc`, which a rehash moves) and
whether the account is disabled. `rows` are the session rows with what their MAC binds (epoch,
generation, idle deadline, key version). `lock`, `touched`, `draft`, `todo`, `copy`, `tries` are
the one transaction that may hold the account lock: the rows it has written and therefore locked,
what it wrote, and its progress through the rows it rebinds. `pc` and `work` are each request and
what it remembers across an `await`. `era`, `vouch`, `left`, `refused` and `untold` are history and
no action's guard reads them.

*Steps.* A request is split wherever another request can come between: `CheckPassword`,
`ReadPresentedOwner` and `Issue` or `RevokePresented` for a sign-in; `Resolve`, `Rekey`,
`ReadToExtend` and `Extend` for a resolution, which takes no account lock and writes by
compare-and-swap. A transaction that takes the account lock and writes no row that somebody without
the lock can be writing is one step (`RevokeEvery`, `ChangePassword`). One that does is several
(`Revoke`, then `Swap`, `Reread` or `LeaveUnverified` for every row, then `CommitRevocation`),
with everything else interleaved. `Crash` ends a request anywhere and rolls its transaction back;
a hook that vetoes has the same effect and is covered by it.

*Draws.* The code draws epochs and generations at random, different from the current one, and
compares them for equality. The module names a draw by the version of the seal that made it, so a
draw is always new. What is assumed away is that a 53-bit draw repeats an older one.

*Time.* `expired` holds the rows past either deadline; a row may join it at any time, and stays.
A transaction's `now()` is older than its wait for the lock, so `Open` may still see any of the
expired rows as live (`dead \in SUBSET expired`). `Sweep` deletes any expired row; the code waits
for the absolute deadline, so this is an over-approximation, as is `Rehash`, which may happen
without a sign-in.

### SecondFactors

*State.* `seal` with epoch, components version, attempt generation and the token that moved it
last; `factors`, the TOTP secret, the set of recovery codes and the disabled flag; `used`, the
ledger of time steps; the pending `rows`, and `holder`, who has written one and not committed.

*Steps.* `CheckFirstFactor`, `ReadAccountState` and `InsertPending` are a first factor and `begin`.
An attempt is `PresentToken`, `BookRow` or `MissRow` (the compare-and-swap), `CommitBooking` or
`RollBackBooking` under the account lock, `RereadRow` after a miss, `BookUnsealed` and `RefuseSeal`
where the seal refuses; then `MatchStep` and `ClaimStep`, or `SpendCode`, or `RejectFactor` and
`FailAttempt`; then `BeginConsume`, `ConsumePending` and `IssueSession`. Meanwhile factors are enrolled, removed and
generated anew, the account is disabled or its sessions revoked, rows are cancelled, expire and are
rebound to a newer key. A stretch that holds the account lock waits for nothing further and is one
step; the lock on a pending row is held over several. Consuming is two steps because `deleteStatement` reads the
seal in the snapshot it was given before it waited for the row: `BeginConsume` remembers the seal (`seen`),
`ConsumePending` takes the row as it is once its lock is free and judges it by that seal. Enrolment's start and finish are one step,
because the code between them touches only a challenge nobody else reads.

### OneTimeTokens

*State.* `seal` with one generation per purpose and the token spent last; `account` with its address
and disabled flag; the `one_time_token` `rows` (purpose, generation, the address they were mailed to,
and for a change the address it is to become); `holder`, `minter` and `lock`, the three kinds of lock in
play: rows an open transaction has deleted, the advisory lock of the account, the account row.

*Steps.* A mint is `AskForLink` (the address is read before the transaction), `ReadGeneration` (the
statement's snapshot, older than the wait in the same statement), `Serialise`, `Replace`, `CommitMint`,
`Send` and, after a failed mail, `Undo`. A redemption is `Consume` (the delete of the row, which locks
it), `CheckAccount` without a lock, for a change of address a `BeginWithdraw` and a `Withdraw` per purpose, then
`TakeAccountLock` and `Confirm`, `Reset`, `SpendOnDisabled` or `Refuse`. The insert of a token row
takes only a key-share lock on the account row, which no update there conflicts with (the unique
index on the address is partial), so a mint never waits for the account lock.
A withdrawal is one `DELETE` per purpose: `BeginWithdraw` is its snapshot, the rows it will see (`sought`); `Withdraw`
waits for whoever has deleted one of them and deletes those that still stand. What a mint inserts meanwhile it
does not see; such a mint is remembered in `late`, a history variable, as is one that asks for its link between the
look for its purpose and the commit of the change.
What a redemption does to sessions is `SealedSessions`' `ResetPassword`, and the session a magic link
leads to is issued there like any other.

### Seals

*State.* `mode` (whether an unsealed account is refused), the stored `seal` (a version and the restart
after which it was computed, which stands for its digest), each anchor's `floor`, the recordings `sent`
and not yet arrived, and each request's `step`, what anchors answered it (`reading`) and the row it
`read`. `written`, `lost`, `blamed` and `answer` are history.

*Steps.* `Begin` of a check, a change or a reseal, `BeginResolution` of a session's resolution; `Ask`, one
per anchor, which answers its floor, nothing, or something that does not decode; `Check`, `Resolve` and
`ReadAgain` (a resolution asks after it read, and reads once more if the anchor was ahead); `Verify` and
`Commit` of a change under the account lock; `Reseal`; `Record` and `RecordFails` for what is on its way to
an anchor. `Restart` loses what was on its way and may put an older row back, or one with another
digest. One change holds the account lock from its read to its commit.

### Accounts

*State.* For each account id its `status`, the contested values of its row (`holds`: one address, one
name), whether the address is `confirmed`, its `ways` in (password, subjects of a provider, passkeys),
those its seal covers (`sealed`) and its confirmation `link`; for each request its `step`, `call`, the
account it found or made (`owner`), the cover addresses it drew and the ways it read under the lock.

*Steps.* A sign-up finds the owner of its address, inserts (an insert waits for an uncommitted one of the
same value), commits or throws a cover away, loses the race, asks whether it was the name, announces, and
when the mail fails spends the link and removes the account nobody was told about. It asks whether it was the name
in a statement of its own, after the insert has lost. A provider sign-in
finds an identity, a joinable account or none, then takes the lock and looks again, or creates. Passkey
sign-in finds, checks and records; `CommitChange` links, registers or removes under the lock.
`Confirm`, `LeaveAddress`, `ResetPassword`, `ChangeName` and `Delete` come at any time, under the account lock.

The first confirmation of an address, by a verification link, a magic link or a redeemed change of address, deletes
the password unless it was set in the session the confirmation comes with, and reseals without it (S-LINK-4,
`flows/confirmation.ts:156`). Sessions are not in the module, so whether it comes with that session is left
open: the confirmer may or may not have it. Who gave the contested name up (`renamed`), and whose account
ended or left the address (`bereft`), are history.

*Simplifications.* An identity's or passkey's insert and commit are one step; a flow row or challenge is
already consumed when a call begins (each is one `DELETE ... RETURNING`); sign counts, disabled accounts and
the epoch a session is issued under are not here (the last is `SealedSessions`'); ids are never reused; the
reads an OAuth creation makes before its insert are merged.

### Requests

*State.* Two clocks (`time` of the database and the event loop, `behind` by how much the configured clock
lags); what each identifier names (`account`); each request's `step`, client address, pending draw,
submission and answer; the `bucket` rows; the semaphore's `inFlight` and `waiting`; the `alarms`' memory.

*Steps.* `Arrive` resolves the client's address through proxies, `DrawAddress`, `Submit`, `DrawAccount`,
`Check` (state check, and a place or the queue), `Derive` (hand the place on, answer), `WaitLimitPasses`,
`StartAfterAnswer`, `Rehash` and `Reseal` for the work left for after the answer. `Sweep`, `Tick` and
`PutBack` come at any time. Between `Observe`, which reads the clock, and `Draw` any request may draw.

Deliveries of alarms are numbered, because two of one alarm at one instant are two: the memory a plugin's
delivery is held against forgets by number.

*Assumed.* One process; all buckets with the same capacity and refill, which is not zero; the configured clock only
set back; capacity and refill in whole tokens. A row lives as long as its bucket takes to refill, and
`LongestLifetime` at most, the code's one day; nothing refuses a rule that takes longer, and what E-385 gives as
its price, a row swept before its bucket has refilled, is then in the module too. The alarms remember at least as
many keys as they deliver in a window (`KeysHeld >= DeliveriesPerWindow`), as the constants of `alarm.ts` do.

### PluginStart and Plugins

*State.* `PluginStart` has none: it is `createPluginRuntime` and the statement check as operators over
declarations. A declaration is what a plugin answers when read and what it would answer the second
time; a name is a tuple of the parts between underscores. `Plugins` has the application that was started,
the order its hooks run in, and for every request where it stands on its path (`at`), its transaction's
connection (`mine`), the dispatches it is in (`stack`), the statement it awaits (`running`) and the one it
left running (`left`); for every connection its holder, role, savepoints, whether it is aborted, and what was
written; the checks of the plugin login that passed or run (`passes`, `remembered`).

*Steps.* `CreatePluginRuntime` starts. A path is a sequence of telling, beginning, library statements and
committing read off the route (`StepsOf`). `Tell` opens a dispatch with a lent connection; what a listener
calls is one call after the other: `Query` (awaited, failing, or left running), `FindOwner` and
`DeleteSession` of `revokeSession`, `Refuse`; `Return` gives the connection back. A statement is sent in
stages (read the role, savepoint, switch, run, restore, release) by `Send`, any two of which other
requests come between; under a login by `AskTheLibrary`, `AskTheReach`, `AwaitTheCheck`, `RunOnTheLogin`.

*Simplifications.* One session per announced revocation; a session the library did not write is not
told apart; the text of own-table SQL is the set of tables it names and what it calls; one clock, never set
back; missing core tables of a login's check and ids that are no identifiers are left out.

### Migrations

*State.* The two `ledgers` as one set of recorded migrations, the `schema` (for each name who made the
relation, who has altered it, who has reached its rows, what it inherits), what plugins left behind
(`extras`), what the plugin role is `granted`, the advisory `lock`, and each runner's progress. What a
migration's SQL does is drawn from `Script` at the start.

*Steps.* `Start`, `CreateLedgers`, `CheckLedger`, then for every migration of the build in order
`SkipMigration`, `RefuseRole`, or `BeginMigration`, which takes the lock, `ApplyMigration` and `CommitMigration`, or
`FailMigration` and `RefuseMigration`, which roll back. `Crash` comes anywhere.

The grants that end a run (`plugin/database-role.ts`) are a transaction of their own outside that lock: `BeginGrants`,
`GrantOnSchema`, then `LookUpTable` and `GrantOnTable` for every declared table, and `CommitGrants` or
`FailGrants`. A `GRANT` and a statement that changes a relation write the same row of PostgreSQL's catalogue. One
waits for the other's transaction, and fails with "tuple concurrently updated" once that has
committed (`behind`; E-1614 at log.md:12018 has the error); it fails as well where the table has been dropped since it
was looked for, and two transactions that each hold a table the other wants are a deadlock, which PostgreSQL ends.
The granting run that fails has stopped with its migrations committed; a migration that fails so
is rolled back.

A table that goes takes its grant with it, one that is put back in its place included, as in PostgreSQL.

*Assumed.* Every build names a role for its plugins, so every run grants; the checks of the keys on either side of the
grants (`auth/instance.ts:574`) read only and are left out. The tables a core migration creates are a function of it; a checksum covers the SQL only; rewriting
the schema's name in a migration's text, and renaming a plugin, are left out. A name is declared for one owner
only, and a core table by migrations of one version only (`DeclarationsAssumption`): the registry
(`plugin/registry.ts:146`, `:407`) and `db/migrations/index.ts:38` see to it within a configuration; that
configurations which follow one another on a schema agree about it is an assumption.

## What the runs show

| run | instance | checks | states |
|---|---|---|---|
| `SignInRaces` | 2 requests, 4 sessions, 2 of them standing, 10 operations, seal numbers to 4 | `TypeOK`, `NoSessionOutlivesItsCheck`, `SignInIssuesOnItsCheck`, `ImplementsRegister` | 174 thousand |
| `Rebinding` | 2 requests, 2 sessions, 1 extension, 2 keys, expiry, under fairness | `LiveSessionsVerify`, `ImplementsRegister`, `EveryRequestIsAnswered` | 137 thousand |
| `SecondFactors` | 2 requests, 2 pending rows, 1 step, 1 code, budget 2, seal numbers to 5 | `OneSessionPerProof`, `OnlyRacingDeletionsAreBlamed`, `CompletionStandsOnBothFactors` | 2.0 million |
| `AttemptsAnswered` | 2 requests on 1 pending row, budget 3, 2 keys, seal numbers to 3, under fairness | `AttemptsAreCounted`, `EveryAttemptIsAnswered` | 123 thousand |
| `MailedLinks` | 2 requests, 3 tokens, resets and changes of address, 2 addresses, seal numbers to 4 | `OneLinkPerPurpose`, `LinksAreCurrent`, `ChangeWithdrawsEveryLink`, `NoLinkIsBlamed`, `NobodyWaitsInACircle` | 769 thousand |
| `Seals` | 2 requests, 1 anchor, versions to 3, 1 outage, 1 restart, under fairness of delivery | `NoRequestIsBlamed`, `SealsRiseAboveEveryFloor`, `OnlyAResealRevives`, `AnchorsCatchUp` | 726 thousand |
| `Accounts` | 2 requests, 2 calls of any kind, 2 ids, 1 subject, 1 passkey, limit 1, 1 deletion, an account with every way in or none | `SealCoversTheWaysIn`, `LastWayInStays`, `SignsInByAHeldWay`, `LinksJoinConfirmedAddresses`, `EverySignUpIsTold` | 848 thousand |
| `Requests` | 3 requests, 1 client behind at most 1 proxy, 2 identifiers (broken and copied; outdated and unknown), 1 place, capacity 1 | `AlarmsAreAccounted`, `BucketsKeepTheirTerms`, `PlacesAreHandedOn`, `RefusalsCostAlike` | 365 thousand |
| `Plugins` | 512 dependency graphs, a diamond and 19 other declarations started; 8 pairs of paths of 2 requests under hooked plugins, own-table SQL in the modes each can tell apart | `StartIsSound`, `WritesShareTheirFate`, `OrderlyHooksCostNothing`, `GrantsAreSeenInTime`, `HookedRequestsEnd` | 177 thousand |
| `Migrating` | 2 runners, 3 builds, 3 core and 3 plugin migrations, 3 scripts for the plugins' SQL, under fairness | `LedgerTellsTheSchema`, `OwnersAlone`, `DoneIsUpToDate`, `NoMigrationFailsOnAnother`, `EveryRunEnds` | 50 thousand |
| `KeptSession`, `SharedCheck` | one property each | must fail: see *Where code and documentation disagree* | |

- `NoSessionOutlivesItsCheck` is the central property: whatever sign-in, completion, kept or replaced
  session was under way when a mass revocation or a password change committed, nothing that
  resolves afterwards stands on a check made before it. One comparison in the sealed insert
  is all that stops it.
- `ImplementsRegister` shows `SealedSessions` to implement `SessionRegister`, where an operation ends
  one session, all, or all but one, and issues at most one. A good session is one whose row verifies
  and has not expired; a session that outran the rebinding (E-3520) is kept visible in the
  abstract specification instead of being assumed away.
- `LiveSessionsVerify` is the bystander's view: a single revocation moves the generation of every
  session of the account and must carry every other row along.
- `LinksAreCurrent` and `ChangeWithdrawsEveryLink` each name an exception, a link minted while a
  redemption or a change was in progress. E-3522 accepts the first as its price; what becomes of the second
  the observations on `NoLinkMeetsAnotherAddress` and `LinksProveTheAddress` show.
- `OnlyRacingDeletionsAreBlamed`: a booking and a presented token never take another request's write for a
  writer's. A deletion does, where one more attempt on its row was booked between its snapshot and its lock;
  it can be seen to happen (`NoRowIsBlamed` below).
- `NobodyWaitsInACircle` is about rings of two requests in the run, over all three kinds of lock, and proved for
  rings of any size.
- `NoRequestIsBlamed` and `OnlyAResealRevives` are the two sides of an anchor: late, lost and reordered
  recordings never look like a rollback to a check or a change, and a rollback that an anchor can tell is never
  overlooked again. `AnchorsCatchUp` is why a lost recording does no lasting harm.
- `LastWayInStays` and `SignsInByAHeldWay` hold because what was found before the lock is read again under
  it. The one way to lose the last way in is the first confirmation, which takes a password whatever
  else there is; a mailed link or a reset then leads in.
- `EverySignUpIsTold` speaks of calls during which no account ended or left the address (`bereft`) and none gave up
  the name asked for (`renamed`): then a cover mails the owner it found. E-930 names a case of the first,
  `UntoldOnlyByAnEnd` below shows the second.
- `NoMigrationFailsOnAnother` speaks of migrations. What a run's grants meet of another's is an error of the whole
  `migrate()`, but one that comes when every migration of its build is committed, so calling it again is enough.
  A plugin's migration that changes a table on which another run is granting can fail on that, too, and is
  rolled back; a core migration cannot.
- `BucketsKeepTheirTerms` bounds what is allowed where a bucket refills within the longest lifetime of a row (E-385),
  and says of every bucket that the wait a refusal names is enough; the run has no bucket that takes
  longer, the theorem does. It charges an allowed draw against the *observed* time, the time a request read before its
  draw reached the row. Draws out of order, and a clock put back, refill the same interval again, so
  against real time the excess is bounded by the sum of the forward movements of the observed time, not, as
  log.md:2988 puts it, "bounded by the skew".
- `RefusalsCostAlike` counts what was done before the answer, not time: the draws, the state check and the
  derivation are the same ones in the same order whatever the account is.
- `WritesShareTheirFate` and `OrderlyHooksCostNothing` are the two directions of lending a connection: nothing a
  hook writes lands outside its transaction, and nothing it does to the connection is left for the library.
- `OwnersAlone` judges what a plugin's migration did, whatever its declarations and its text say.

Type invariants other than `SealedSessions`' hold on the same instances, and every one is proved, as are
`RevokedRowsStayRefused` of `SealedSessions` and `AnchorsHearOnlyCommittedSeals` of `Seals`; the configurations
leave them out in favour of what could more easily go wrong.

Larger and other instances were checked as well. `Seals` with two anchors, versions to 2 and symmetry, safety only
(1.3 million states), and without restarts for `AnchorsCatchUp` (769 thousand). `Accounts` with a
third id and an account of a password and an identity (2.1 million); with three ids, without sign-ups and changes
of name, with the first account's ways in as in `WaysAtFirst`, with two calls and two subjects (246 thousand) and with
three calls, one subject and no `link` (316 thousand), and with sign-ups, provider sign-ins and changes of name only
(1.1 million). `Requests` with two requests, `MaxTime` 3, `DeliveriesPerWindow` 2 and
`KeysHeld` 2 (161 thousand). `Rebinding` with `MaximumSealNumber` 3 (260 thousand). `Migrations` with
`MCEveryScript`, in which a plugin's SQL does any of 13 things besides, the builds `plugins`, `older`,
`beside` and `other` and symmetry, safety only (530 thousand).

### Bounds, and why they are enough

- *Two requests.* The account lock admits one transaction, so the interesting interleavings are of
  one that holds it with one that does not, or of one that acts on what it read before another
  committed. `Requests` has three, for a place that is held, one that waits and one that comes.
- *Sessions, pending rows, tokens.* Two standing sessions are the revoked one and the bystander; two
  more ids are one successor per request. Three tokens are one superseded, one being redeemed and
  one being minted. Sign-ins stop when the ids are used up.
- *Seal numbers.* `MaximumSealNumber` is 2 to 5 so that a run both makes several changes of the seal
  and meets an exhausted one, which the code has a path for (`version_exhausted`).
- *Attempts.* `RebindAttempts` is 2 in `SignInRaces` and `Rebinding` and the code's 3 in `KeptSession`;
  `MaximumPendingAttempts` is 2 and 3 where the code has 5. Each is reached.
- *Extensions and keys.* `MaxIdle` lets a row be extended between a read and its swap; `MaxKey` 2 makes one rotation.
- *Anchors.* `MaxOutages` counts answers and recordings that fail, `MaxRestarts` restarts; one of each is a missed
  seal and a rollback, which meet.
- *Calls and deletions.* `MaxCalls` 2 is two calls at once, or one after the other on the account the first
  made; `Limit` 1 is reached by the first identity and the first passkey; two ids are the account there is
  and one that is made, or one for each of two sign-ups where there is none. The account there is has a password, an identity
  and a passkey at first, so that a first confirmation and a removal can meet. `CoverDraws` is the code's 2.
- *Time.* `MaxTime` 2 with `Window`, `Recheck` and bucket lifetime 2 is a window that ends; `MaxBehind` 1 at `PutBackAt` 1
  one setting back of the clock; `MaxHops` 1 a proxy, or none. `KeysHeld` 1 drops a remembered key.
- *Plugins.* `MaxDepth` 3 is a hook told of a revocation that revokes in turn (E-641). A pool of one connection is
  the scarcest there is; instances with a plugin login have two, and `SharedCheck` shows why.
- *Deadlock checking* is off in every configuration because ids, seal numbers, calls and time run out in the
  model, which is no deadlock of the code. Waiting is checked by `EveryRequestIsAnswered`,
  `EveryAttemptIsAnswered`, `HookedRequestsEnd`, `EveryRunEnds` and `NobodyWaitsInACircle` instead.

### Fairness

`EveryRequestIsAnswered` and `EveryAttemptIsAnswered` assume strong fairness of each request's own steps, and
`EveryRunEnds` of each runner's. A request that is running keeps running (weak fairness would do); one
that waits for a lock which others take again and again gets it, because PostgreSQL grants row and
advisory locks in the order of its queue. `HookedRequestsEnd` assumes weak fairness of any step at all:
every request has finitely many steps, so it fails only where nobody can move. `AnchorsCatchUp` assumes
that a recording which is not lost arrives; that checks go on finding the account usable is its
hypothesis. Nothing is assumed about crashes, expiry, rotation, sweeps, restarts, ticks or new requests.

### Where code and documentation disagree

`PROJECT.json` has the two that a run shows, with their lines.

- `KeptSession`: an idle extension between the read of the caller's row and its swap makes
  `session.revokeAllOther` delete the caller's own session. Since E-3520 the MAC binds the idle
  deadline, but `isRebindingOf` follows a newer key version only.
- `SharedCheck`: under a plugin login and a pool of one connection, a hook outside a transaction begins the
  check of the login, which asks the library on the pool; a hook inside another request's transaction awaits the same
  check, while its transaction holds the connection. Neither request ends. E-2643 (log.md:14239) says the
  check "never waits for a connection from the library's pool, which the waiting reset holds".

The modules state nine more properties the code does not keep. Each can be seen by giving the named
configuration that property alone, with the constants said:

- `EveryDeletedSessionIsAnnounced` (`Rebinding` with three standing sessions, a fourth id, operations `revoke`,
  `changePassword` and `expire`, numbers to 4): a single revocation does not rebind rows past their deadline
  (`db/repositories/session.ts:446`); a later password change deletes them without announcing them to
  `beforeSessionRevoke`, against E-765 and DOCUMENTATION.md:7437.
- `NoFactorIsBlamed` (`SecondFactors` with change `totp`): an owner who removes TOTP in another session between the
  check of a sign-in and the insert of its pending row raises the alarm E-3515 (log.md:17909) reserves for a writer
  past the seal (`factor/pending/service.ts:418`).
- `NoSessionWhileDisabled` (`SecondFactors` with change `setDisabled`): the only look at `disabled_at` on a second-factor
  sign-in is the resolution of the pending row (`factor/pending/service.ts:395`). The factor's check
  (`factor/totp/service.ts:229`) reads the account again and the session is issued on that read, whose flag
  nobody looks at. An account disabled in between is issued a session, which resolves once it is
  enabled again. VELVE-AUTH-ARCHITECTURE.md:3029 (L-4): "A sign-in with the correct password on a disabled
  account gives the same answer as one with a wrong password"; DOCUMENTATION.md:6602.
- `LinksProveTheAddress` (`MailedLinks` with purposes `magic_link` and `email_change`): a magic link minted behind
  a change's withdrawal is checked against the old address, waits for the account lock the change holds,
  and then signs in to an account with the new one. `redeemReset` compares the address under the lock;
  `confirmAddress` (`flows/confirmation.ts:110`) only the generation. E-3264 (log.md:16355): "The link is proof of
  control of an address, and it proves the account only while the account still has that address."
- `ResolutionsAreNotBlamed` (`Seals`): between the read of a session's resolution and its question to the anchor
  two changes commit and the first is recorded; the one re-read is overtaken likewise, and the account is
  reported as rolled back (`security-state/runtime.ts:409`). E-3353 (log.md:17222) says one re-read sees the seal
  the anchor was ahead by.
- `ConfirmedAccountsStay` (`Accounts`): the account of a sign-up whose mail was reported failed is deleted although
  its link was redeemed. `sendOrUndo` (`flows/artefact.ts:140`) spends the link and does not look at whether there still was
  one, so an account whose owner has confirmed goes too. DOCUMENTATION.md:5376 and E-630 (log.md:7125) speak of an
  account nobody was told about.
- `NoRowIsBlamed` (`SecondFactors` with no change and numbers to 4): two attempts present one pending token. The
  second books between the snapshot of the statement that consumes the row for the first and that statement's
  wait for the row, so the row comes back with the next generation beside the account's seal from before. If the
  last booking in the snapshot was the row's own, `supersededLibraryRow` reports a row written back, an alarm
  "on ordinary concurrency" as E-3140 (log.md:15878) puts it.
- `NoLinkMeetsAnotherAddress` (`MailedLinks`): a mint that read the address before a change of address commits
  inserts its row unseen by the statement that withdraws its purpose (`flows/address.ts:161`). The link then
  meets an account of another address and is reported as a broken state. E-3278 (log.md:16499): after the
  withdrawal "the only way for a link's bound address to differ from the account's is a write outside the
  library".
- `UntoldOnlyByAnEnd` (`Accounts` with operations `signUp` and `changeName`): a sign-up loses its insert to the
  name of another account, which gives it up by `updateUsername` before the look for who has it
  (`flows/sign-up.ts:303`). The sign-up takes itself for one of a taken address, finds no owner, answers as
  created and mails nobody. E-930 (log.md:7159) has it that this "needs a registration and a deletion to
  interleave inside one request".

DOCUMENTATION.md:558 says of the transactions of `migrate()` that "Two processes starting at once therefore serialise". The
grants at its end are outside that lock, and one of two that end together may fail, with every
migration committed; `NoMigrationFailsOnAnother` and the section on `Migrations` say how far it goes.

Smaller ones, met while modelling `Plugins` and `Requests`: a hook that leaves a failing statement running as the
last hook of a sign-up without a password leaves the transaction aborted at its COMMIT, which PostgreSQL answers
with a rollback, and the sign-up answers success, though E-2586 (log.md:13969) calls this "fail closed";
`WritesShareTheirFate` therefore speaks of commits. Two own-table statements of one lease that overlap share a
savepoint name and the role. An anchor contributed by a plugin is given the pool even inside a redemption.
Architecture:3057 gives `rate_bucket` a retention of one hour; the sweep deletes a row when it expires.

## What is proved

TLAPS checks every theorem below for every set of requests, rows, runners and plugins, every value of the bounds and every
length of behaviour, from the named assumptions of the module it is about and nothing else. A theorem that names a
property of a run says of every instance what the run says of one. Every proof has the same
outline: an inductive invariant (TLC finds it to hold on the run's instance, too), one lemma for each kind
of step that moves the same variables, one for each action, and the property from the invariant.

| module | theorem | property | assumptions |
|---|---|---|---|
| `SealedSessionsProofs` | `TypeCorrect` | `TypeOK` | `SessionsAssumption` |
| | `SessionsStandOnTheirChecks` | `NoSessionOutlivesItsCheck` | |
| | `BystandersStayLive` | `LiveSessionsVerify` | |
| | `RevocationsAreFinal` | `RevokedRowsStayRefused` | |
| | `SessionsImplementTheRegister` | `ImplementsRegister` | |
| | `SignInsStandOnTheirCheck` | `SignInIssuesOnItsCheck` | |
| `SecondFactorsProofs` | `SecondFactorsTyped` | `TypeOK` | `SecondFactorsAssumption` |
| | `EveryEvaluationIsCounted` | `AttemptsAreCounted` | |
| | `ProofsAreSpentOnce` | `OneSessionPerProof` | |
| | `OnlyRacingDeletionsBlame` | `OnlyRacingDeletionsAreBlamed` | |
| | `CompletionsStandOnBothFactors` | `CompletionStandsOnBothFactors` | |
| `OneTimeTokensProofs` | `OneTimeTokensTyped` | `TypeOK` | `OneTimeTokensAssumption` |
| | `MintsSupersede` | `OneLinkPerPurpose` | |
| | `RedemptionsEndTheirOwnLink` | `LinksAreCurrent` | |
| | `ChangesReachEveryLink` | `ChangeWithdrawsEveryLink` | |
| | `LinksAreNotBlamed` | `NoLinkIsBlamed` | |
| | `LocksAreTakenInOrder` | `NobodyWaitsInACircle` | |
| `SealsProofs` | `SealsTyped` | `TypeOK` | `BoundsAssumption`, `SealsAssumption` |
| | `OnlyResolutionsAreBlamed` | `NoRequestIsBlamed` | |
| | `AnchorsHoldCommittedSeals` | `AnchorsHearOnlyCommittedSeals` | |
| | `SealsRise` | `SealsRiseAboveEveryFloor` | |
| | `LostRowsStayUnused` | `OnlyAResealRevives` | |
| `AccountsProofs` | `AccountsTyped` | `TypeOK` | `BoundsAssumption`, `StandingAssumption` |
| | `SealsCoverTheWaysIn` | `SealCoversTheWaysIn` | |
| | `TheLastWayInStays` | `LastWayInStays` | |
| | `SignInsAreByAHeldWay` | `SignsInByAHeldWay` | |
| | `LinksAreToConfirmedAddresses` | `LinksJoinConfirmedAddresses` | |
| | `EverySignUpTells` | `EverySignUpIsTold` | |
| `RequestsProofs` | `RequestsTyped` | `TypeOK` | `BoundsAssumption` |
| | `PlacesGoOn` | `PlacesAreHandedOn` | |
| | `SignInsCostAlike` | `RefusalsCostAlike` | |
| | `BucketsKeepToTheirTerms` | `BucketsKeepTheirTerms` | |
| | `NoAlarmIsDropped` | `AlarmsAreAccounted` | |
| `PluginsProofs` | `PluginsTyped` | `TypeOK` | `BoundsAssumption`, `CourseAssumption`, `ApplicationsAssumption`, `NothingAssumption` |
| | `DependencyOrder` | | |
| | `StartsAreSound` | `StartIsSound` | |
| | `OrderlyHooksAreFree` | `OrderlyHooksCostNothing` | |
| | `WritesLandTogether` | `WritesShareTheirFate` | |
| | `GrantsAreSeen` | `GrantsAreSeenInTime` | |
| `MigrationsProofs` | `MigrationsTyped` | `TypeOK` | `MigrationsAssumption`, `DeclarationsAssumption`, `AbsentAssumption` |
| | `LedgersTellTheSchema` | `LedgerTellsTheSchema` | |
| | `OwnersStayAlone` | `OwnersAlone` | |
| | `DoneRunsAreUpToDate` | `DoneIsUpToDate` | |
| | `NoMigrationFailsBecauseOfAnother` | `NoMigrationFailsOnAnother` | |

Most assumptions say that a marker (`Nobody`, `NoSession`, `NoRow`) is not one of the values it marks the absence
of, and that a bound is a number. Those that say more are `StandingAssumption`, that the account there is at the start keeps
to its limits, `KeysHeld >= DeliveriesPerWindow` of `Requests`, and `DeclarationsAssumption` of `Migrations`, for
which see those modules above.

### The arguments

- *`SealedSessions`, checks.* `TypeOK` is not inductive: `work[p].subject` may be `NoSession`, and applying `rows` to it
  would leave the type; `Remembered` says in which steps a request has an id, and `TypeInv` is both. `IssueInv` carries
  `NoSessionOutlivesItsCheck`. `EpochOrder` says no row, draft or check is ahead of the account's epoch,
  so a raise passes them all. `Vouching` is the property without the generation. `ChecksHold` says a
  check that still has the account's epoch is current, which is what the sealed insert's comparison relies on.
  `LockHeld` says only the holder of the lock has a draft, and `DraftHonest` that it brings no row under
  a newer epoch but the one it issues; `KeptHonest` is about the row `revokeAllOther` lifts.
- *`SealedSessions`, bystanders.* `LiveInv` follows the open transaction row by row: a single revocation has deleted a row
  (`Deleted`), brought it to the generation it will draw (`Swapped`), has still to do so and has seen it
  under the numbers it has (`Awaited`), or leaves it alone because it would not resolve or has outrun its tries
  (`Passed`). Nothing that happens beside the transaction takes a row out of its case, because a rewriting keeps
  epoch and generation and cannot reach a row the transaction wrote. When nothing is awaited, the commit moves
  the generation under rows that are all accounted for. `IdsDrawnOnce` and `GenerationOrder` make a draw newer
  than every row, so that what was revoked stays behind (`RefusedBehind`).
- *The register.* Initial states map to initial states, and every step to one of the register's or to a stutter:
  openings, reads, rewritings and sweeps of expired rows stutter; a commit is `SignIn`, `End`, `EndWithOutrun`,
  `EndEvery`, `EndEveryOther` or `EndEveryAndSignIn`; a last missed try is `Outrun`, a crash `RollBack`.
- *`SecondFactors`.* `FreshInv` makes the next version a new name for epochs, secrets and sets. `CountInv` is the counting
  argument: evaluations done plus requests about to evaluate are at most the attempts in the row, which never
  pass the budget; it needs that a booking which may still be written has budget left (`BudgetOf`), and that a row
  other than the booking read has advanced or is gone (`MoveOf`). `ProofOf` says two requests that could
  both complete have not proved the same step or code, and `SpentInv` that what a session stands on is in the
  ledger, or out of the codes. `SeenOf` says of the seal a deletion read before its wait that it is no newer
  than the account's, and that it named the row only with a generation the row has had.
- *`OneTimeTokens`.* A mint holds every row it supersedes before it inserts (`InsertOf`) and the advisory lock from its
  statement to its commit (`MinterOf`), so what it inserts is the only one (`UniqueInv`). `MintOf` says a mint
  carries the account's address and its purpose's generation or is in the named exceptions, and
  `WithdrawOf` that a change holds, or has still to delete, every link of a purpose it has looked for and knows
  of every mint it cannot reach. The
  locks are taken in one order (advisory lock, token rows, account lock): the holder of the last waits for nobody, so
  nobody in a ring waits for it, and so on downwards.
- *`Seals`.* Everything a request, an anchor or a message holds was committed (`WrittenInv`) and, as long as no rows were
  put back, is the stored seal or older (`HonestInv`), so no check or change can be told of a rollback. After rows
  were put back that can be told (`LostInv`), whatever an anchor answers is its floor or no answer, and the verdict on
  either is a refusal. `LockInv` says what is sealed under the account lock is above every floor. The order of floors and
  answers (`OrderInv`) is what a reseal's base, the greatest version among finitely many, relies on.
- *`Accounts`.* `LockOf` says the account lock keeps what was read under it, which is what the last way in, the held
  identity and the confirmed address are decided on; no change beside the holder touches its account, confirmations and
  resets included. `ToldOf` follows a sign-up that met a taken value: unless the owner went (`bereft`) or gave the
  name up (`renamed`) the value is still taken, and the owner found is somebody to mail.
- *`Requests`.* `PlacesInv`: the derivers are as many as the places taken, the queue is the waiting requests, each once,
  and a free place means an empty queue. `PathsInv` says what an unanswered request has cost by the step it is in, the
  same whatever the account. `BucketsInv`: what a drawer was allowed beyond the refill, and what its row still holds, are
  one full bucket at most where a row outlives its refill, and a wait is named on an empty row only.
  `MemoryInv` (of `AlarmInv`): the memory holds
  each delivery of the window, and with it every later one, so evicting the oldest never forgets one the limit
  still needs.
- *The start.* The visit of the dependencies is a recursive function with as many levels as there are plugins.
  `VisitUnfolds` shows that it is what its recursion says, and `VisitGoesWell`, by the least level at which it would not be so,
  that a visit keeps what is settled and settles its plugin after all it depends on, or has met a ring. The levels are
  enough because the ids on the way down are different ones: after all of them the next is on the way already. From
  there on a start is a list of checks, of which `RefusalUnfolds` says that the first one to hold is the refusal. A
  table has one owner because no plugin's prefix begins another's (`TablesHaveOneOwner`).
- *`Plugins`.* `OnPath`: every path has one transaction at most, and a request holds a connection exactly from its begin to
  its end; this is a fact about all twelve paths (`PathsAreWhole`). `Dispatching`: a frame of a transaction has a lease,
  the awaited statement that of the innermost frame. `TaskFits` says of a statement under way that the stages it has left are a rest
  of its course and that it sends on the connection of its request, or on none once the lease is over; `ConnsFit` that what is written
  on a connection is its holder's, so nothing can land with another request. `Undisturbed` is the argument for
  `OrderlyHooksCostNothing`: without a statement left running, the connection is as the library left it, or within the savepoint of the
  one awaited statement (`Within`), whose stages lead back. `Accounted` says that what the hooks were told succeeded is what has landed
  and what would land if the awaited statement were rolled back. `PassesFit` and `IsTimely`: a check that passed was
  asked before the grant, and a statement relies on one asked less than `Recheck` before its call.
- *`Migrations`.* `RunInv`: what a runner passed is in the ledger, and an open migration's draft is what its statements make of
  the schema that still stands, because the lock keeps both. `GrantsInv` and `ParentsInv` say that a grant, and what
  a relation inherits from, go back to a recorded declaration; that a name is declared for one owner only makes that owner
  the right one. `GrantsInHand` says that a granting run has every table of its plan that stands still in hand, so it is
  granted when the run has ended. A core migration is never behind a grant, because no run grants on its tables
  (`RunInv`), and `VerdictInv` says why a runner that stopped has.

### What proving found

Some definitions did not hold up and follow the code more closely now, or are stated so that one can reason about them:

- `Seals`: rows put back were `lost` by a condition that named the version alone. An anchor can also tell another seal of the
  same version, and a missing row under `required` needs none (`Noticeable`).
- `Migrations`: a table replaced under its name kept its grant in the module, which PostgreSQL ends with the table.
- `Requests`: two deliveries of one alarm at one instant were one element of a set, so a window could see more than
  its count; they are numbered now.
- `Accounts` and `Migrations` stated no assumption on the account there is at the start and on declared names, without
  which the limits of the ways in, and `OwnersAlone`, do not hold.
- `Plugins` allowed a `Recheck` of zero, with which `GrantsAreSeenInTime` fails of a check asked at the very moment its statement
  is called; the code's is five minutes (`plugin/login-connection.ts:22`). What applications declare was not typed,
  and nothing said that `Nothing` is no answer of a start.
- `PluginStart` visited the dependencies with a recursive operator, of which nothing can be proved; the visit is a recursive
  function now. `IsCyclic` asked for a way back to some plugin and is now a set of plugins each of which
  depends on one of them, which is the same for finitely many.

### What is only model-checked

- `EveryRequestIsAnswered`, `EveryAttemptIsAnswered`, `EveryRunEnds`, `AnchorsCatchUp` and `HookedRequestsEnd`: liveness under
  fairness is out of the prover's reach.
- What the violation runs and the observations above refute, which is nothing to prove.

Every invariant and every action property of a passing run is stated by a theorem.

## What is not modelled

- *Several accounts, batches and key versions* of the security-state maintenance and the rebinding pass: both are loops
  of the step that is modelled, one account or one row at a time. The conflict of two first seals on the insert
  (E-3297) needs a writer past the library, because both hold the account lock.
- *User deletion beside redemptions*: it takes the account row before the token rows, redemptions the other way round;
  PostgreSQL aborts one of the two. `Accounts` has deletion, `OneTimeTokens` redemption, no module both.
- *What the first confirmation of an address does to sessions*, all of which it revokes; its effect on them is that of
  `RevokeEvery`. What it does to the password is in `Accounts`.
- *Setting a first password* in a session, and the answers that are read after a commit (`password/routes.ts:247`).
- *Sign counts* of authenticators and the expiry of challenges and flow rows.
- *Plugin routes* once started, the flood counter of routes without an address bucket, server methods called
  without an address, several processes behind one database for the semaphore and the alarms.
- *Cryptography*: a MAC verifies exactly what it was computed over; a key is not guessed. `account`, `password` and envelope
  formats are values that open or do not.
- *HTTP parsing, routing, cookies, configuration, the client*: they keep no state between requests.
- *A writer other than the library.* Its detection is most of what the seal is for, but it is a
  question of MACs; the models show what the detection does when there is no such writer, false
  alarms included. `Seals` has the one kind that needs no MAC, rows put back from a backup.

## Plan

Done: every module of the table above, and theorems about each that has state. What is left:

1. `SealedSessions`: the first confirmation of an address as one more mass revocation, the magic link's
   issue on the seal its redemption wrote.
2. The maintenance over several accounts, with key versions, beside sign-ins.
