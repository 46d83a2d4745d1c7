------------------------------ MODULE Requests ------------------------------
(* What a password sign-in passes through before it is answered, and what  *)
(* it shares with the sign-ins around it.                                  *)
(*                                                                         *)
(* The pipeline (http/pipeline.ts) compares the origin and draws from the  *)
(* token bucket of the client's address; the route (password/routes.ts)    *)
(* draws from the bucket of the account named, reads the account, checks   *)
(* its state and derives the password once under the semaphore of the      *)
(* process (password/semaphore.ts), whatever it has found.  A credential   *)
(* written under older parameters is rehashed after the answer, under the  *)
(* same semaphore.  Buckets are rows (limit/token-bucket-store.ts) drawn   *)
(* from with the time the process read before; a broken account raises an  *)
(* alarm (security-state/alarm.ts), which bounds what it delivers.         *)
(*                                                                         *)
(* The database and the event loop share the clock `time`; the clock of    *)
(* the configuration, which buckets and alarms read, lags it by `behind`   *)
(* and is put back MaxBehind ticks at most, at the time PutBackAt.  The    *)
(* session a sign-in issues is the subject of SealedSessions.              *)
EXTENDS Integers, Sequences, FiniteSets, SequencesExt, FiniteSetsExt

CONSTANTS Request,          \* sign-ins
          Client,           \* addresses requests come from
          Identifier,       \* what sign-ins name
          Proxy, Forged,    \* the address of the trusted proxies, and one clients claim
          Password,         \* what they carry of "right", "wrong", "unusable"
          Standings,        \* what identifiers may name: functions to Kind
          Limit, WaitLimit,                       \* of the semaphore
          Capacity, Refill,                       \* of every bucket
          ShortestLifetime, LongestLifetime,      \* of its row
          Window, DeliveriesPerWindow, KeysHeld,  \* of the alarms
          MaxTime, MaxBehind, PutBackAt, MaxHops, \* bounds
          NoRow, Nothing

\* "foreign": a scheme not accepted; "copied": an envelope of another account.
Outdated == {"outdated", "disabledOutdated"}
Kind == {"unknown", "broken", "bare", "foreign", "copied", "disabled", "current"} \cup Outdated

ASSUME BoundsAssumption ==
    /\ {Limit, WaitLimit, Capacity, Refill, Window, DeliveriesPerWindow} \subseteq Nat \ {0}
    /\ {ShortestLifetime, LongestLifetime, MaxTime, MaxBehind, PutBackAt, MaxHops} \subseteq Nat
    /\ KeysHeld \in Nat /\ KeysHeld >= DeliveriesPerWindow
    /\ Standings \subseteq [Identifier -> Kind]
    /\ {Proxy, Forged} \cap Client = {}
    /\ NoRow \notin [tokens : Int, updated : Int, expires : Int]

VARIABLES time, behind,     \* the clock of the database, and the lag of the configured one
          account,          \* what each identifier names
          step,             \* of each request: where it stands
          client,           \* the address it came from
          drawing,          \* the bucket it draws from, and the time it read before
          named,            \* the identifier and the password it carries
          found,            \* what its read of the account gave
          answer,           \* how it was answered
          bucket,           \* the bucket rows
          inFlight, waiting,    \* the semaphore and its queue
          alarms,           \* the alarms' memory
          meter,            \* history: what each drawer was allowed, by kind of bucket
          work,             \* history: what each request cost before its answer
          untold, told      \* history: how many alarms were not told of, and the last deliveries

clocks == <<time, behind>>
requests == <<step, client, drawing, named, found, answer>>
limits == <<bucket, meter>>
semaphore == <<inFlight, waiting>>
alarming == <<alarms, untold, told>>
vars == <<clocks, account, requests, limits, semaphore, alarming, work>>

clock == time - behind
Drawer == Client \cup {Proxy, Forged} \cup Identifier
Bucket == {"address", "account"} \X Drawer

Goes(r, to) == step' = [step EXCEPT ![r] = to]

\* A request that ends with this step is forgotten.
Forgets(carried) == [q \in Request |-> IF step'[q] = "done" THEN Nothing ELSE carried[q]]
ForgetTheDone ==
    client' = Forgets(client) /\ named' = Forgets(named) /\ found' = Forgets(found)

Answered(r, with) == Goes(r, "done") /\ answer' = [answer EXCEPT ![r] = with]
Costs(r, what) == work' = [work EXCEPT ![r] = Append(@, what)]

(***************************************************************************)
(* Token buckets.                                                          *)
(***************************************************************************)

\* The longest a row lives, however long its bucket takes to refill (E-385).
RefillsInALifetime == Capacity <= LongestLifetime * Refill

BucketLifetime ==
    IF RefillsInALifetime THEN Max({ShortestLifetime, (Capacity + Refill - 1) \div Refill})
    ELSE LongestLifetime

\* The level a draw leaves, as the one statement computes it.
Drawn(row, observedAt) ==
    IF row = NoRow THEN Capacity - 1
    ELSE Min({Capacity,
              Max({0, row.tokens + Max({0, observedAt - row.updated}) * Refill})}) - 1

\* The row a draw leaves.
RowAfter(row, observedAt) ==
    [tokens |-> Drawn(row, observedAt), updated |-> observedAt,
     expires |-> observedAt + BucketLifetime]

\* What a refused caller is told to wait.
SecondsUntilNextToken(tokens) == Max({1, (1 - tokens + Refill - 1) \div Refill})

\* The time is read before the key is computed and the statement runs.
Observe(r, kind, drawer) ==
    drawing' = [drawing EXCEPT ![r] = [bucket |-> <<kind, drawer>>, observedAt |-> clock]]

\* What a drawer's meter shows after a draw or a sweep observed at a time:
\* over all windows that end here, the most draws allowed beyond the refill of
\* the observed time; and when a refused drawer was told to come back.
Metered(m, observedAt, allowed, wait) ==
    [excess |-> Max({0, m.excess - Max({0, observedAt - m.at}) * Refill}) + allowed,
     at |-> observedAt,
     retryAt |-> IF wait = 0 THEN Nothing ELSE observedAt + wait]

\* One draw of r for a drawer, and whether it was allowed.
Draw(r, drawer, allowed) ==
    LET b == drawing[r].bucket
        at == drawing[r].observedAt
        row == RowAfter(bucket[b], at)
    IN /\ allowed = (row.tokens >= 0)
       /\ bucket' = [bucket EXCEPT ![b] = row]
       /\ meter' = [meter EXCEPT ![<<b[1], drawer>>] =
            IF allowed THEN Metered(@, at, 1, 0) ELSE Metered(@, at, 0, SecondsUntilNextToken(row.tokens))]
       /\ drawing' = [drawing EXCEPT ![r] = Nothing]
       /\ Costs(r, b[1])

\* The sweep deletes a row whose deadline has passed by the database's clock.
Sweep(b) ==
    /\ bucket[b] # NoRow /\ bucket[b].expires <= time
    /\ bucket' = [bucket EXCEPT ![b] = NoRow]
    /\ meter' = [meter EXCEPT ![b] = Metered(@, time, 0, 0)]
    /\ UNCHANGED <<clocks, account, requests, semaphore, alarming, work>>

(***************************************************************************)
(* The semaphore.                                                          *)
(***************************************************************************)

HasWaitedOutTheLimit(w) == time - w.queuedAt >= WaitLimit

\* acquire: r takes a place at once or joins the queue.
Acquire(r) ==
    \/ /\ inFlight < Limit
       /\ inFlight' = inFlight + 1
       /\ Goes(r, "deriving")
       /\ UNCHANGED waiting
    \/ /\ inFlight >= Limit
       /\ waiting' = Append(waiting, [request |-> r, queuedAt |-> time])
       /\ Goes(r, "queued")
       /\ UNCHANGED inFlight

\* Mutant: a freed place goes to the next waiter however long it waited.
LeaveToTheNext(r, to, with) ==
    LET granted == IF waiting = <<>> THEN {} ELSE {waiting[1].request}
    IN /\ waiting' = IF waiting = <<>> THEN waiting ELSE Tail(waiting)
       /\ inFlight' = inFlight - 1 + Cardinality(granted)
       /\ step' = [q \in Request |-> IF q = r THEN to ELSE IF q \in granted THEN "deriving" ELSE step[q]]
       /\ answer' = [answer EXCEPT ![r] = with]

\* leave: the place goes to the first that has not waited out the limit; those
\* before it are refused.  r itself goes on, and is answered if it still was not.
Leave(r, to, with) ==
    LET intime == {i \in DOMAIN waiting : ~HasWaitedOutTheLimit(waiting[i])}
        next == IF intime = {} THEN Len(waiting) + 1 ELSE Min(intime)
        refused == {waiting[i].request : i \in 1 .. next - 1}
        granted == {waiting[i].request : i \in intime \cap {next}}
    IN /\ waiting' = SubSeq(waiting, next + 1, Len(waiting))
       /\ inFlight' = inFlight - 1 + Cardinality(granted)
       /\ step' = [q \in Request |-> CASE q = r -> to
                                       [] q \in refused -> "done"
                                       [] q \in granted -> "deriving"
                                       [] OTHER -> step[q]]
       /\ answer' = [q \in Request |-> CASE q = r -> with
                                         [] q \in refused /\ answer[q] = "none" -> "rate_limited"
                                         [] OTHER -> answer[q]]

\* The timer of a waiter; one that comes due early is armed again.
WaitLimitPasses(r) ==
    \E i \in DOMAIN waiting :
        /\ waiting[i].request = r /\ HasWaitedOutTheLimit(waiting[i])
        /\ waiting' = RemoveAt(waiting, i)
        /\ Goes(r, "done")
        /\ answer' = IF answer[r] = "none" THEN [answer EXCEPT ![r] = "rate_limited"] ELSE answer
        /\ ForgetTheDone
        /\ UNCHANGED <<clocks, account, drawing, limits, inFlight, alarming, work>>

(***************************************************************************)
(* The alarms.                                                             *)
(***************************************************************************)

\* A key is an account and a reason; the aggregate alarm names no account.
Aggregate == <<Nothing, "suppressed">>

\* Deliveries are numbered, for the order in which the memory holds them.
\* The event goes out with the count of those held back, which starts anew.
\* The history keeps the deliveries of the last window.
Deliver(key, count) ==
    /\ told' = {d \in told : time - d.at < Window} \cup
                   {[key |-> key, at |-> time, nth |-> alarms.deliveries]}
    /\ untold' = untold + 1 - count - (IF key = Aggregate THEN 0 ELSE 1)

\* The key was delivered within the window.
Heard(now, key) == \E d \in alarms.delivered : d.key = key /\ now - d.at < Window

\* A key heard within the window holds the alarm back; at most once a window
\* the count goes out in its place.
HoldBack(now, key) ==
    /\ Heard(now, key)
    /\ IF now - alarms.aggregateWindowStart >= Window
       THEN /\ Deliver(Aggregate, alarms.suppressed + 1)
            /\ alarms' = [alarms EXCEPT !.aggregateWindowStart = now, !.suppressed = 0,
                                        !.deliveries = @ + 1]
       ELSE /\ alarms' = [alarms EXCEPT !.suppressed = @ + 1]
            /\ untold' = untold + 1 /\ UNCHANGED told

\* Mutant: what a full window holds back is not counted.
GoOutUncounted(now, key) ==
    LET recent == {t \in alarms.recent : now - t.at < Window}
        nth == alarms.deliveries
    IN /\ ~Heard(now, key)
       /\ IF Cardinality(recent) >= DeliveriesPerWindow
          THEN untold' = untold + 1 /\ UNCHANGED <<alarms, told>>
          ELSE /\ Deliver(key, alarms.suppressed)
               /\ alarms' = [alarms EXCEPT !.recent = recent \cup {[at |-> now, nth |-> nth]},
                    !.delivered = {[key |-> key, at |-> now, nth |-> nth]}, !.suppressed = 0,
                    !.deliveries = @ + 1]

\* One key too many drops the one whose delivery is the oldest.
HeldKeys(keys) ==
    IF Cardinality(keys) > KeysHeld THEN {d \in keys : \E e \in keys : e.nth < d.nth} ELSE keys

\* Any other alarm goes out unless the window is full.
GoOut(now, key) ==
    LET recent == {t \in alarms.recent : now - t.at < Window}
        others == {d \in alarms.delivered : d.key # key}
        nth == alarms.deliveries
    IN /\ ~Heard(now, key)
       /\ IF Cardinality(recent) >= DeliveriesPerWindow
          THEN /\ alarms' = [alarms EXCEPT !.recent = recent, !.suppressed = @ + 1]
               /\ untold' = untold + 1 /\ UNCHANGED told
          ELSE /\ Deliver(key, alarms.suppressed)
               /\ alarms' = [alarms EXCEPT
                    !.recent = recent \cup {[at |-> now, nth |-> nth]},
                    !.delivered = HeldKeys(others \cup {[key |-> key, at |-> now, nth |-> nth]}),
                    !.suppressed = 0,
                    !.deliveries = @ + 1]

\* raise, for a key made of the account and the reason.
Raise(key) == HoldBack(clock, key) \/ GoOut(clock, key)

\* Checking a broken account, or opening a copied envelope, raises an alarm.
Report(kind, identifier) ==
    \/ kind = "broken" /\ Raise(<<identifier, "seal_mismatch">>)
    \/ kind = "copied" /\ Raise(<<identifier, "envelope_binding_mismatch">>)
    \/ kind \notin {"broken", "copied"} /\ UNCHANGED alarming

(***************************************************************************)
(* A sign-in.                                                              *)
(***************************************************************************)

\* What hops trusted proxies make of a request: each appends the address it
\* took the request from to the header the client sent (external).
Connection(from, hops) == IF hops = 0 THEN from ELSE Proxy
Forwarded(from, claim, hops) ==
    IF hops = 0 THEN claim ELSE claim \o <<from>> \o [i \in 1 .. hops - 1 |-> Proxy]

\* Mutant: the first address of the header is believed.
FirstClaimedAddress(connection, forwarded) ==
    IF connection # Proxy \/ forwarded = <<>> THEN connection ELSE forwarded[1]

\* The last address a trusted proxy did not have, if one connected.
ResolveClientAddress(connection, forwarded) ==
    LET untrusted == {i \in DOMAIN forwarded : forwarded[i] # Proxy}
    IN IF connection # Proxy \/ untrusted = {} THEN connection ELSE forwarded[Max(untrusted)]

\* A foreign origin is refused before anything is drawn; otherwise the bucket
\* of the client's address is asked.
Arrive(r, from, claim, hops) ==
    /\ step[r] = "idle"
    /\ \/ Answered(r, "origin_not_allowed") /\ UNCHANGED <<client, drawing>>
       \/ /\ client' = [client EXCEPT ![r] = from]
          /\ Observe(r, "address",
                     ResolveClientAddress(Connection(from, hops), Forwarded(from, claim, hops)))
          /\ Goes(r, "address")
          /\ UNCHANGED answer
    /\ UNCHANGED <<clocks, account, named, found, limits, semaphore, alarming, work>>

DrawAddress(r) ==
    /\ step[r] = "address"
    /\ \/ Draw(r, client[r], TRUE) /\ Goes(r, "reading") /\ UNCHANGED answer
       \/ Draw(r, client[r], FALSE) /\ Answered(r, "rate_limited")
    /\ ForgetTheDone
    /\ UNCHANGED <<clocks, account, semaphore, alarming>>

\* The body is read; the handler draws for the identifier it names, formed
\* before any account is looked up.
Submit(r, identifier, password) ==
    /\ step[r] = "reading"
    /\ named' = [named EXCEPT ![r] = [identifier |-> identifier, password |-> password]]
    /\ Observe(r, "account", identifier)
    /\ Goes(r, "account")
    /\ UNCHANGED <<clocks, account, client, found, answer, limits, semaphore, alarming, work>>

\* What a refusal tells the caller of the reason behind it.
VisibleCode(reason) ==
    IF reason \in {"user_not_found", "no_password_credential", "legacy_scheme_rejected",
                   "password_mismatch", "user_disabled_on_sign_in"}
    THEN "invalid_credentials" ELSE "internal_error"

\* An unusable password is refused on its length alone.
DrawAccount(r) ==
    /\ step[r] = "account"
    /\ \/ Draw(r, named[r].identifier, FALSE) /\ Answered(r, "rate_limited")
       \/ /\ Draw(r, named[r].identifier, TRUE)
          /\ IF named[r].password = "unusable"
             THEN Answered(r, VisibleCode("password_mismatch"))
             ELSE Goes(r, "checking") /\ UNCHANGED answer
    /\ ForgetTheDone
    /\ UNCHANGED <<clocks, account, semaphore, alarming>>

\* Mutant: a sign-in that names no account is answered at once.
CheckKnownAccounts(r) ==
    /\ step[r] = "checking"
    /\ found' = [found EXCEPT ![r] = account[named[r].identifier]]
    /\ Report(account[named[r].identifier], named[r].identifier)
    /\ Costs(r, "check")
    /\ IF account[named[r].identifier] = "unknown"
       THEN Answered(r, VisibleCode("user_not_found")) /\ UNCHANGED semaphore
       ELSE Acquire(r) /\ UNCHANGED answer
    /\ UNCHANGED <<clocks, account, client, drawing, named, limits>>

\* The account is read and its state checked, or a stand-in's for one that
\* does not exist; the credential to check is opened, or the dummy's taken.
Check(r) ==
    /\ step[r] = "checking"
    /\ found' = [found EXCEPT ![r] = account[named[r].identifier]]
    /\ Report(account[named[r].identifier], named[r].identifier)
    /\ Costs(r, "check")
    /\ Acquire(r)
    /\ UNCHANGED <<clocks, account, client, drawing, named, answer, limits>>

\* Why the password check refuses, or "verified".
Verdict(kind, password) ==
    CASE kind = "unknown" -> "user_not_found"
      [] kind \in {"broken", "bare"} -> "no_password_credential"
      [] kind = "foreign" -> "legacy_scheme_rejected"
      [] kind = "copied" \/ password # "right" -> "password_mismatch"
      [] OTHER -> "verified"

\* How the handler answers that verdict.
Outcome(kind, verdict) ==
    CASE verdict # "verified" -> VisibleCode(verdict)
      [] kind \in {"disabled", "disabledOutdated"} -> VisibleCode("user_disabled_on_sign_in")
      [] OTHER -> "signed_in"

\* The derivation ends: the place is handed on and the request answered.  A
\* verified credential to rewrite is rehashed after it, also for a disabled one.
Derive(r) ==
    LET verdict == Verdict(found[r], named[r].password)
        rehash == verdict = "verified" /\ found[r] \in Outdated
    IN /\ step[r] = "deriving" /\ answer[r] = "none"
       /\ Leave(r, IF rehash THEN "answered" ELSE "done", Outcome(found[r], verdict))
       /\ Costs(r, "derive")
       /\ ForgetTheDone
       /\ UNCHANGED <<clocks, account, drawing, limits, alarming>>

\* Deferred work starts once the answer is handed back.
StartAfterAnswer(r) ==
    /\ step[r] = "answered"
    /\ Acquire(r)
    /\ UNCHANGED <<clocks, account, client, drawing, named, found, answer, limits, alarming, work>>

\* The new hash is derived.
Rehash(r) ==
    /\ step[r] = "deriving" /\ answer[r] # "none"
    /\ Leave(r, "resealing", answer[r])
    /\ ForgetTheDone
    /\ UNCHANGED <<clocks, account, drawing, limits, alarming, work>>

\* It replaces, under the account lock, the ciphertext the sign-in verified.
Reseal(r) ==
    LET i == named[r].identifier
        rewritten == IF found[r] = "outdated" THEN "current" ELSE "disabled"
    IN /\ step[r] = "resealing"
       /\ account' = [account EXCEPT ![i] = IF @ = found[r] THEN rewritten ELSE @]
       /\ Goes(r, "done")
       /\ ForgetTheDone
       /\ UNCHANGED <<clocks, drawing, answer, limits, semaphore, alarming, work>>

(***************************************************************************)
(* The clocks.                                                             *)
(***************************************************************************)

Tick ==
    /\ time < MaxTime
    /\ time' = time + 1
    /\ UNCHANGED <<behind, account, requests, limits, semaphore, alarming, work>>

PutBack ==
    /\ behind < MaxBehind /\ time = PutBackAt
    /\ behind' = behind + 1
    /\ UNCHANGED <<time, account, requests, limits, semaphore, alarming, work>>

Init ==
    /\ time = 0 /\ behind = 0
    /\ account \in Standings
    /\ step = [r \in Request |-> "idle"]
    /\ client = [r \in Request |-> Nothing]
    /\ drawing = [r \in Request |-> Nothing]
    /\ named = [r \in Request |-> Nothing]
    /\ found = [r \in Request |-> Nothing]
    /\ answer = [r \in Request |-> "none"]
    /\ bucket = [b \in Bucket |-> NoRow]
    /\ inFlight = 0 /\ waiting = <<>>
    /\ alarms = [delivered |-> {}, recent |-> {}, suppressed |-> 0, aggregateWindowStart |-> 0,
                 deliveries |-> 0]
    /\ meter = [b \in Bucket |-> [excess |-> 0, at |-> 0, retryAt |-> Nothing]]
    /\ work = [r \in Request |-> <<>>]
    /\ untold = 0 /\ told = {}

Next ==
    \/ \E r \in Request :
        \/ \E from \in Client, hops \in 0 .. MaxHops, claim \in {<<>>, <<Forged>>} :
              Arrive(r, from, claim, hops)
        \/ DrawAddress(r)
        \/ \E i \in Identifier, p \in Password : Submit(r, i, p)
        \/ DrawAccount(r)
        \/ Check(r)
        \/ Derive(r)
        \/ WaitLimitPasses(r)
        \/ StartAfterAnswer(r)
        \/ Rehash(r)
        \/ Reseal(r)
    \/ \E b \in Bucket : Sweep(b)
    \/ Tick
    \/ PutBack

Spec == Init /\ [][Next]_vars

(***************************************************************************)
(* Properties.                                                             *)
(***************************************************************************)

Steps ==
    {"idle", "address", "reading", "account", "checking", "queued", "deriving", "answered",
     "resealing", "done"}

Alarm == Identifier \X {"seal_mismatch", "envelope_binding_mismatch"} \cup {Aggregate}
Delivery == [key : Alarm, at : Int, nth : Nat]

TypeOK ==
    /\ time \in 0 .. MaxTime /\ behind \in 0 .. MaxBehind
    /\ account \in [Identifier -> Kind]
    /\ step \in [Request -> Steps]
    /\ client \in [Request -> Client \cup {Nothing}]
    /\ drawing \in [Request -> {Nothing} \cup [bucket : Bucket, observedAt : -MaxBehind .. MaxTime]]
    /\ named \in [Request -> {Nothing} \cup [identifier : Identifier, password : Password]]
    /\ found \in [Request -> Kind \cup {Nothing}]
    /\ answer \in [Request -> {"none", "origin_not_allowed", "rate_limited", "invalid_credentials",
                               "internal_error", "signed_in"}]
    /\ bucket \in [Bucket -> {NoRow} \cup [tokens : Int, updated : Int, expires : Int]]
    /\ inFlight \in 0 .. Limit
    /\ waiting \in Seq([request : Request, queuedAt : 0 .. MaxTime])
    /\ alarms \in [delivered : SUBSET Delivery, recent : SUBSET [at : Int, nth : Nat],
                   suppressed : Nat, aggregateWindowStart : Int, deliveries : Nat]
    /\ meter \in [Bucket -> [excess : Nat, at : Int, retryAt : Int \cup {Nothing}]]
    /\ work \in [Request -> Seq({"address", "account", "check", "derive"})]
    /\ untold \in Int /\ told \subseteq Delivery

Waiter(i) == waiting[i].request

\* As many places are taken as requests derive, none is free while one waits,
\* and the queue holds every waiting request once.
PlacesAreCounted ==
    /\ inFlight = Cardinality({r \in Request : step[r] = "deriving"}) /\ inFlight <= Limit
    /\ waiting # <<>> => inFlight = Limit
    /\ {Waiter(i) : i \in DOMAIN waiting} = {r \in Request : step[r] = "queued"}
    /\ \A i, j \in DOMAIN waiting : Waiter(i) = Waiter(j) => i = j

\* A step gives a place in turn, to one that has waited less than the limit,
\* and refuses only one that has waited longer.
PlacesAreGivenInTurn ==
    \A i \in DOMAIN waiting :
        /\ step'[Waiter(i)] = "deriving" =>
             /\ ~HasWaitedOutTheLimit(waiting[i])
             /\ \A j \in 1 .. i - 1 : step'[Waiter(j)] = "done"
        /\ step'[Waiter(i)] = "done" => HasWaitedOutTheLimit(waiting[i])

\* However many requests come, leave and give up waiting, no place is lost or
\* given twice, and a place goes to no request past the limit ("waiting past
\* the limit is a refusal", S-DOS-4, semaphore.ts:71; E-3571).
PlacesAreHandedOn == [][PlacesAreCounted' /\ PlacesAreGivenInTurn]_vars

\* No window of draws was allowed more than a full bucket and the refill, where
\* a row is not swept before its bucket has refilled (the price of E-385).
MetersStayWithinCapacity ==
    RefillsInALifetime => \A b \in Bucket : meter[b].excess <= Capacity

\* A refused drawer that came back when it was told to is not refused again
\* unless another draw for it went between.
WaitsAreEnough ==
    \A b \in Bucket :
        meter[b].retryAt # Nothing /\ meter'[b] # meter[b] /\ meter'[b].at >= meter[b].retryAt
          => meter'[b].retryAt = Nothing

\* Whatever headers a client sends, in whatever order its draws reach the row,
\* and also over a sweep and a clock put back, it is allowed no more than a
\* full bucket and what the observed time refilled, of a bucket that refills in
\* the longest lifetime of a row (S-RATE-3, E-385); and no flood
\* locks it out: the wait a refusal names is enough (E-380, S-RATE-7: the
\* account "remains reachable for the rightful owner").
BucketsKeepTheirTerms == [][MetersStayWithinCapacity' /\ WaitsAreEnough]_vars

\* Every alarm raised is delivered or counted in one that is or will be; no
\* window sees more than DeliveriesPerWindow besides the aggregates, which
\* come once a window like the alarms of one key: "no flood of broken accounts
\* silences an alarm and none drops one without a count" (alarm.ts:113).
AlarmsAreAccounted ==
    /\ untold = alarms.suppressed
    /\ Cardinality({d \in told : d.key # Aggregate}) <= DeliveriesPerWindow
    /\ \A d, e \in told : d.key = e.key => d = e

\* A sign-in that is neither turned away by a limit nor unusable on its face
\* costs the same before its answer whatever the account is, also when the
\* password is right, and only the right password of a usable account opens it
\* (S-TIM-1, S-TIM-5, S-INTEG-5; verify.ts:74).
RefusalsCostAlike ==
    [][\A r \in Request : answer'[r] # answer[r] =>
        /\ answer'[r] = "signed_in" =>
             named[r].password = "right" /\ found[r] \in {"current", "outdated"}
        /\ answer'[r] \in {"signed_in", "invalid_credentials"} =>
             work'[r] = IF named[r].password = "unusable" THEN <<"address", "account">>
                        ELSE <<"address", "account", "check", "derive">>]_vars

=============================================================================
