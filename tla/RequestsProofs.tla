--------------------------- MODULE RequestsProofs ---------------------------
(* Theorems about Requests: places of the semaphore are handed on in turn, *)
(* a sign-in costs the same whatever it finds, no bucket gives more than   *)
(* its terms, and no alarm is dropped without a count.                     *)
EXTENDS Requests, FiniteSetTheorems, SequenceTheorems, TLAPS

(***************************************************************************)
(* The inductive invariant.                                                *)
(***************************************************************************)

Derivers == {r \in Request : step[r] = "deriving"}
Queued == {r \in Request : step[r] = "queued"}

PlacesInv == IsFiniteSet(Derivers) /\ PlacesAreCounted

Submission == [identifier : Identifier, password : Password]
Drawing == [bucket : Bucket, observedAt : -MaxBehind .. MaxTime]

\* A request in a step of its draws has drawn for nobody but its own client
\* and the identifier it named.
DrawsFor(r, kind, drawer) ==
    drawing[r] \in Drawing /\ drawing[r].bucket = <<kind, drawer>>

\* What an unanswered request has cost by now, and what it carries.
PathInv(r) ==
    /\ step[r] = "idle" => answer[r] = "none" /\ work[r] = <<>>
    /\ step[r] = "address" =>
         /\ answer[r] = "none" /\ work[r] = <<>>
         /\ client[r] \in Client /\ DrawsFor(r, "address", client[r])
    /\ step[r] = "reading" => answer[r] = "none" /\ work[r] = <<"address">>
    /\ step[r] = "account" =>
         /\ answer[r] = "none" /\ work[r] = <<"address">>
         /\ named[r] \in Submission /\ DrawsFor(r, "account", named[r].identifier)
    /\ step[r] = "checking" =>
         /\ answer[r] = "none" /\ work[r] = <<"address", "account">>
         /\ named[r] \in Submission /\ named[r].password # "unusable"
    /\ step[r] \in {"queued", "deriving"} /\ answer[r] = "none" =>
         /\ work[r] = <<"address", "account", "check">>
         /\ named[r] \in Submission /\ named[r].password # "unusable"
         /\ found[r] \in Kind
    /\ step[r] = "answered" => answer[r] # "none"

PathsInv == \A r \in Request : PathInv(r)

\* What a drawer was allowed and what its row still holds are one full bucket
\* at most, and a refusal is of an empty row.
BucketInv(b) ==
    /\ RefillsInALifetime => meter[b].excess <= Capacity
    /\ bucket[b] = NoRow =>
         /\ RefillsInALifetime => meter[b].excess = 0
         /\ meter[b].retryAt = Nothing
    /\ bucket[b] # NoRow =>
         /\ bucket[b].tokens \in -1 .. Capacity - 1
         /\ RefillsInALifetime => meter[b].excess + bucket[b].tokens <= Capacity
         /\ meter[b].at = bucket[b].updated
         /\ bucket[b].expires = bucket[b].updated + BucketLifetime
         /\ meter[b].retryAt # Nothing =>
              /\ bucket[b].tokens = -1
              /\ meter[b].retryAt = meter[b].at + SecondsUntilNextToken(-1)

BucketsInv == \A b \in Bucket : BucketInv(b)

\* Delivery d is in the window that ends now.
InWindow(d) == d.key # Aggregate /\ time - d.at < Window

\* A delivery with that number is remembered until d has left its window.
Outlasts(d, nth) == \E t \in alarms.recent : t.nth = nth /\ d.at <= t.at + behind

NumbersInv ==
    /\ \A d \in told : d.nth < alarms.deliveries /\ d.at <= time
    /\ \A d \in alarms.delivered : d.nth < alarms.deliveries
    /\ \A t \in alarms.recent : t.nth < alarms.deliveries
    /\ \A d, e \in told : d.nth = e.nth => d = e
    /\ \A d, e \in alarms.delivered : d.nth = e.nth => d = e
    /\ \A d, e \in alarms.recent : d.nth = e.nth => d = e

\* The memory holds every delivery in the window, and with it every later one.
MemoryInv ==
    /\ IsFiniteSet(alarms.recent) /\ Cardinality(alarms.recent) <= DeliveriesPerWindow
    /\ \A d \in told : InWindow(d) =>
         /\ \E e \in alarms.delivered : e.nth = d.nth /\ e.key = d.key /\ d.at <= e.at + behind
         /\ \A e \in alarms.delivered : e.nth >= d.nth => Outlasts(d, e.nth)
    /\ \A d \in told : d.key = Aggregate => d.at <= alarms.aggregateWindowStart + behind

AlarmInv == NumbersInv /\ MemoryInv /\ AlarmsAreAccounted

RequestsInv == TypeOK /\ PlacesInv /\ PathsInv /\ BucketsInv /\ AlarmInv

(***************************************************************************)
(* The queue.                                                              *)
(***************************************************************************)

Waiting == [request : Request, queuedAt : 0 .. MaxTime]

\* The place a leaving request hands on: that of the first waiter within the
\* limit, or the one behind the queue.
NextPlace ==
    LET intime == {i \in DOMAIN waiting : ~HasWaitedOutTheLimit(waiting[i])}
    IN IF intime = {} THEN Len(waiting) + 1 ELSE Min(intime)

\* A nonempty set of natural numbers has a least element, which is its Min.
LEMMA MinIsLeast ==
  ASSUME NEW S \in SUBSET Nat, S # {}
  PROVE  Min(S) \in S /\ \A y \in S : Min(S) <= y
<1> DEFINE R == {ss \in Nat \X Nat : ss[1] < ss[2]}
<1>1. IsWellFoundedOn(R, Nat)
  BY NatLessThanWellFounded DEF OpToRel
<1>2. \E x \in S : \A y \in S : <<y, x>> \notin R
  <2> HIDE DEF R
  <2> QED  BY <1>1, WFMin
<1>3. \A x, y \in Nat : <<y, x>> \notin R => x <= y
  BY SMT
<1>4. \E x \in S : \A y \in S : x <= y
  BY <1>2, <1>3
<1> QED  BY <1>4 DEF Min

\* Everybody before the next place has waited out the limit, and who has it
\* has not.
LEMMA NextPlaceIsTheFirstInTime ==
  ASSUME waiting \in Seq(Waiting), BoundsAssumption
  PROVE  /\ NextPlace \in 1 .. Len(waiting) + 1
         /\ \A i \in 1 .. NextPlace - 1 :
              i \in DOMAIN waiting /\ HasWaitedOutTheLimit(waiting[i])
         /\ NextPlace \in DOMAIN waiting => ~HasWaitedOutTheLimit(waiting[NextPlace])
<1> DEFINE intime == {i \in DOMAIN waiting : ~HasWaitedOutTheLimit(waiting[i])}
<1>1. Len(waiting) \in Nat /\ DOMAIN waiting = 1 .. Len(waiting)
  BY LenProperties
<1>2. CASE intime = {}
  <2>1. NextPlace = Len(waiting) + 1
    BY <1>2 DEF NextPlace
  <2>2. \A i \in DOMAIN waiting : HasWaitedOutTheLimit(waiting[i])
    BY <1>2
  <2> HIDE DEF intime
  <2>3. NextPlace \in 1 .. Len(waiting) + 1 /\ NextPlace \notin DOMAIN waiting
    BY <1>1, <2>1
  <2>4. \A i \in 1 .. NextPlace - 1 : i \in DOMAIN waiting
    BY <1>1, <2>1
  <2> QED  BY <2>2, <2>3, <2>4
<1>3. CASE intime # {}
  <2>1. NextPlace = Min(intime)
    BY <1>3 DEF NextPlace
  <2>2. intime \in SUBSET Nat
    BY <1>1
  <2>3. NextPlace \in intime /\ \A j \in intime : NextPlace <= j
    BY <1>3, <2>1, <2>2, MinIsLeast
  <2>4. \A i \in DOMAIN waiting : i < NextPlace => HasWaitedOutTheLimit(waiting[i])
    BY <1>1, <2>3, SMTT(30)
  <2>5. NextPlace \in DOMAIN waiting /\ ~HasWaitedOutTheLimit(waiting[NextPlace])
    BY <2>3
  <2> HIDE DEF intime
  <2>6. NextPlace \in 1 .. Len(waiting) + 1
    BY <1>1, <2>5
  <2>7. \A i \in 1 .. NextPlace - 1 : i \in DOMAIN waiting /\ i < NextPlace
    BY <1>1, <2>5, SMTT(30)
  <2> QED  BY <2>4, <2>5, <2>6, <2>7
<1> QED  BY <1>2, <1>3

\* What the queue is once the request at place i has left it.
LEMMA QueueWithout ==
  ASSUME waiting \in Seq(Waiting), NEW i \in DOMAIN waiting
  PROVE  LET after == RemoveAt(waiting, i)
         IN /\ after \in Seq(Waiting)
            /\ Len(after) = Len(waiting) - 1
            /\ \A j \in DOMAIN after : after[j] = waiting[IF j < i THEN j ELSE j + 1]
<1> DEFINE front == SubSeq(waiting, 1, i - 1)
           back == SubSeq(waiting, i + 1, Len(waiting))
<1>1. Len(waiting) \in Nat /\ DOMAIN waiting = 1 .. Len(waiting)
         /\ \A j \in 1 .. Len(waiting) : waiting[j] \in Waiting
  BY LenProperties, ElementOfSeq
<1>2. /\ front \in Seq(Waiting) /\ Len(front) = i - 1
      /\ \A j \in 1 .. i - 1 : front[j] = waiting[j]
  <2>1. \A j \in 1 .. i - 1 : waiting[j] \in Waiting
    BY <1>1
  <2>2. 1 \in Int /\ i - 1 \in Int
    BY <1>1
  <2> QED  BY <1>1, <2>1, <2>2, SubSeqProperties
<1>3. /\ back \in Seq(Waiting) /\ Len(back) = Len(waiting) - i
      /\ \A j \in 1 .. Len(waiting) - i : back[j] = waiting[i + j]
  <2>1. \A j \in i + 1 .. Len(waiting) : waiting[j] \in Waiting
    BY <1>1
  <2>2. i + 1 \in Int /\ Len(waiting) \in Int
    BY <1>1
  <2>3. /\ back \in Seq(Waiting)
        /\ Len(back) = IF i + 1 <= Len(waiting) THEN Len(waiting) - (i + 1) + 1 ELSE 0
        /\ \A j \in 1 .. Len(waiting) - (i + 1) + 1 : back[j] = waiting[i + 1 + j - 1]
    BY <2>1, <2>2, SubSeqProperties
  <2>4. \A j \in 1 .. Len(waiting) - i :
          j \in 1 .. Len(waiting) - (i + 1) + 1 /\ i + 1 + j - 1 = i + j
    BY <1>1
  <2>5. Len(back) = Len(waiting) - i
    BY <1>1, <2>3
  <2>6. \A j \in 1 .. Len(waiting) - i : back[j] = waiting[i + j]
    <3> HIDE DEF back
    <3> TAKE j \in 1 .. Len(waiting) - i
    <3>1. back[j] = waiting[i + 1 + j - 1]
      BY <2>3, <2>4
    <3>2. i + 1 + j - 1 = i + j
      BY <2>4
    <3> QED  BY <3>1, <3>2
  <2> QED  BY <2>3, <2>5, <2>6
<1> HIDE DEF front, back
<1>4. /\ front \o back \in Seq(Waiting)
      /\ Len(front \o back) = Len(front) + Len(back)
      /\ \A j \in 1 .. Len(front) + Len(back) :
           (front \o back)[j] = IF j <= Len(front) THEN front[j] ELSE back[j - Len(front)]
  BY <1>2, <1>3, ConcatProperties
<1>5. RemoveAt(waiting, i) = front \o back
  BY DEF RemoveAt, front, back
<1>6. DOMAIN (front \o back) = 1 .. Len(waiting) - 1
  <2>1. DOMAIN (front \o back) = 1 .. Len(front \o back)
    BY <1>4, LenProperties
  <2>2. Len(front \o back) = Len(waiting) - 1
    BY <1>1, <1>2, <1>3, <1>4
  <2> QED  BY <2>1, <2>2
<1> DEFINE after == RemoveAt(waiting, i)
<1>7. after \in Seq(Waiting) /\ Len(after) = Len(waiting) - 1 /\ DOMAIN after = 1 .. Len(waiting) - 1
  <2>1. Len(front \o back) = Len(waiting) - 1
    BY <1>1, <1>2, <1>3, <1>4
  <2> QED  BY <1>4, <1>5, <1>6, <2>1
<1>8. ASSUME NEW j \in DOMAIN after
      PROVE  after[j] = waiting[IF j < i THEN j ELSE j + 1]
  <2>0. j \in 1 .. Len(waiting) - 1 /\ i \in 1 .. Len(waiting) /\ Len(front) = i - 1
           /\ Len(back) = Len(waiting) - i
    BY <1>1, <1>2, <1>3, <1>7, <1>8
  <2>1. CASE j < i
    <3>1. after[j] = front[j]
      BY <1>4, <1>5, <2>0, <2>1
    <3> QED  BY <1>2, <2>0, <2>1, <3>1
  <2>2. CASE ~(j < i)
    <3>1. after[j] = back[j - (i - 1)]
      BY <1>4, <1>5, <2>0, <2>2, SMTT(30)
    <3>2. j - (i - 1) \in 1 .. Len(waiting) - i /\ i + (j - (i - 1)) = j + 1
      BY <1>1, <2>0, <2>2
    <3> QED  BY <1>3, <2>2, <3>1, <3>2
  <2> QED  BY <2>1, <2>2
<1> HIDE DEF after
<1>9. after \in Seq(Waiting) /\ Len(after) = Len(waiting) - 1
        /\ \A j \in DOMAIN after : after[j] = waiting[IF j < i THEN j ELSE j + 1]
  BY <1>7, <1>8
<1> QED  BY <1>9 DEF after

\* What the queue is once its first n places have left it.
LEMMA QueueBehind ==
  ASSUME waiting \in Seq(Waiting), NEW n \in 1 .. Len(waiting) + 1
  PROVE  LET after == SubSeq(waiting, n + 1, Len(waiting))
         IN /\ after \in Seq(Waiting)
            /\ DOMAIN after = 1 .. Len(waiting) - n
            /\ \A j \in DOMAIN after : after[j] = waiting[n + j]
            /\ after # <<>> => n < Len(waiting)
<1> DEFINE after == SubSeq(waiting, n + 1, Len(waiting))
<1>1. Len(waiting) \in Nat /\ DOMAIN waiting = 1 .. Len(waiting)
         /\ \A j \in 1 .. Len(waiting) : waiting[j] \in Waiting
  BY LenProperties, ElementOfSeq
<1>2. \A j \in n + 1 .. Len(waiting) : waiting[j] \in Waiting
  BY <1>1
<1>3. n + 1 \in Int /\ Len(waiting) \in Int
  BY <1>1
<1>4. /\ after \in Seq(Waiting)
      /\ Len(after) = IF n + 1 <= Len(waiting) THEN Len(waiting) - (n + 1) + 1 ELSE 0
      /\ \A j \in 1 .. Len(waiting) - (n + 1) + 1 : after[j] = waiting[n + 1 + j - 1]
  BY <1>2, <1>3, SubSeqProperties
<1>5. n >= Len(waiting) => after = <<>>
  BY <1>1, <1>3, SubSeqEmpty
<1> HIDE DEF after
<1>6. DOMAIN after = 1 .. Len(waiting) - n
  <2>1. DOMAIN after = 1 .. Len(after)
    BY <1>4, LenProperties
  <2> DEFINE length == Len(waiting)
  <2> HIDE DEF length
  <2>2. length \in Nat /\ n \in 1 .. length + 1
    BY <1>1 DEF length
  <2>3. Len(after) = IF n + 1 <= length THEN length - (n + 1) + 1 ELSE 0
    BY <1>4 DEF length
  <2>4. CASE n + 1 <= length
    <3>1. length - (n + 1) + 1 = length - n
      BY <2>2
    <3> QED  BY <2>1, <2>3, <2>4, <3>1 DEF length
  <2>5. CASE ~(n + 1 <= length)
    <3>1. 1 .. 0 = {} /\ 1 .. length - n = {}
      BY <2>2, <2>5
    <3>2. DOMAIN after = 1 .. 0
      BY <2>1, <2>3, <2>5
    <3> QED  BY <3>1, <3>2 DEF length
  <2> QED  BY <2>4, <2>5
<1>7. ASSUME NEW j \in DOMAIN after
      PROVE  after[j] = waiting[n + j]
  <2>1. j \in 1 .. Len(waiting) - (n + 1) + 1 /\ n + 1 + j - 1 = n + j
    BY <1>1, <1>6
  <2>2. after[j] = waiting[n + 1 + j - 1]
    BY <1>4, <2>1
  <2> QED  BY <2>1, <2>2
<1>8. after # <<>> => n < Len(waiting)
  BY <1>1, <1>5
<1>9. /\ after \in Seq(Waiting)
      /\ DOMAIN after = 1 .. Len(waiting) - n
      /\ \A j \in DOMAIN after : after[j] = waiting[n + j]
      /\ after # <<>> => n < Len(waiting)
  BY <1>4, <1>6, <1>7, <1>8
<1> QED  BY <1>9 DEF after

(***************************************************************************)
(* The places of the semaphore.                                            *)
(***************************************************************************)

PlacesStep ==
    /\ inFlight' \in 0 .. Limit
    /\ waiting' \in Seq(Waiting)
    /\ PlacesInv'
    /\ PlacesAreGivenInTurn

\* The queue holds waiting requests, each in the step for it.
LEMMA WaitersAreQueued ==
  ASSUME TypeOK, PlacesInv
  PROVE  /\ waiting \in Seq(Waiting) /\ Len(waiting) \in Nat /\ DOMAIN waiting = 1 .. Len(waiting)
         /\ \A i \in DOMAIN waiting :
              /\ waiting[i] \in Waiting
              /\ Waiter(i) \in Request /\ step[Waiter(i)] = "queued"
<1>1. waiting \in Seq(Waiting)
  BY DEF TypeOK, Waiting
<1>2. /\ Len(waiting) \in Nat /\ DOMAIN waiting = 1 .. Len(waiting)
      /\ \A i \in DOMAIN waiting : waiting[i] \in Waiting
  BY <1>1, LenProperties, ElementOfSeq
<1>3. ASSUME NEW i \in DOMAIN waiting
      PROVE  Waiter(i) \in Request /\ step[Waiter(i)] = "queued"
  BY DEF PlacesInv, PlacesAreCounted
<1> QED  BY <1>1, <1>2, <1>3

\* A step by which nobody joins or leaves the queue or a place.
LEMMA PlacesUntouched ==
  ASSUME TypeOK, PlacesInv, UNCHANGED semaphore,
         \A q \in Request : step'[q] = step[q] \/ {step[q], step'[q]} \cap {"queued", "deriving"} = {}
  PROVE  PlacesStep
<1>1. Derivers' = Derivers /\ Queued' = Queued
  BY DEF Derivers, Queued
<1>2. inFlight' = inFlight /\ waiting' = waiting
  BY DEF semaphore
<1>3. \A i \in DOMAIN waiting : Waiter(i) \in Request /\ step[Waiter(i)] = "queued"
  BY WaitersAreQueued
<1>4. PlacesInv'
  <2>1. IsFiniteSet(Derivers')
    BY <1>1 DEF PlacesInv
  <2>2. inFlight' = Cardinality(Derivers') /\ inFlight' <= Limit
    BY <1>1, <1>2 DEF PlacesInv, PlacesAreCounted, Derivers
  <2>3. {waiting'[i].request : i \in DOMAIN waiting'} = Queued'
    BY <1>1, <1>2 DEF PlacesInv, PlacesAreCounted, Queued, Waiter
  <2>4. /\ waiting' # <<>> => inFlight' = Limit
        /\ \A i, j \in DOMAIN waiting' : waiting'[i].request = waiting'[j].request => i = j
    BY <1>2 DEF PlacesInv, PlacesAreCounted, Waiter
  <2>5. PlacesAreCounted'
    BY <2>2, <2>3, <2>4 DEF PlacesAreCounted, Derivers, Queued, Waiter
  <2> QED  BY <2>1, <2>5 DEF PlacesInv
<1>5. PlacesAreGivenInTurn
  BY <1>3 DEF PlacesAreGivenInTurn
<1>6. inFlight' \in 0 .. Limit /\ waiting' \in Seq(Waiting)
  BY <1>2, WaitersAreQueued DEF TypeOK
<1> QED  BY <1>4, <1>5, <1>6 DEF PlacesStep

\* A request takes a free place or joins the queue behind the others.
LEMMA AcquireKeepsPlaces ==
  ASSUME TypeOK, PlacesInv, NEW r \in Request, step[r] \notin {"queued", "deriving"}, Acquire(r)
  PROVE  PlacesStep /\ step' \in [Request -> Steps]
<1> USE BoundsAssumption
<1>1. \A i \in DOMAIN waiting : Waiter(i) \in Request /\ step[Waiter(i)] = "queued" /\ Waiter(i) # r
  BY WaitersAreQueued
<1>2. /\ waiting \in Seq(Waiting) /\ Len(waiting) \in Nat /\ DOMAIN waiting = 1 .. Len(waiting)
      /\ Limit \in Nat \ {0} /\ inFlight \in 0 .. Limit
      /\ time \in 0 .. MaxTime
      /\ step \in [Request -> Steps]
      /\ IsFiniteSet(Derivers) /\ inFlight = Cardinality(Derivers)
  BY WaitersAreQueued DEF TypeOK, PlacesInv, PlacesAreCounted, Derivers
<1> DEFINE places == inFlight
           length == Len(waiting)
<1>0. places = inFlight /\ length = Len(waiting) /\ places \in 0 .. Limit /\ length \in Nat
        /\ Limit \in Nat \ {0}
  BY <1>2
<1> HIDE DEF places, length
<1>3. CASE inFlight < Limit
  <2>1. inFlight' = inFlight + 1 /\ waiting' = waiting /\ step' = [step EXCEPT ![r] = "deriving"]
    BY <1>2, <1>3, SMTT(30) DEF Acquire, Goes
  <2>2. Derivers' = Derivers \cup {r} /\ r \notin Derivers
    BY <1>2, <2>1 DEF Derivers
  <2>3. IsFiniteSet(Derivers') /\ Cardinality(Derivers') = inFlight'
    BY <1>2, <2>1, <2>2, FS_AddElement
  <2>4. waiting = <<>>
    BY <1>2, <1>3 DEF PlacesInv, PlacesAreCounted
  <2>5. Queued' = Queued
    BY <1>2, <2>1 DEF Queued
  <2>6. PlacesAreCounted'
    BY <1>2, <1>3, <2>1, <2>3, <2>4, <2>5, SMTT(30)
       DEF PlacesInv, PlacesAreCounted, Derivers, Queued, Waiter
  <2>7. PlacesAreGivenInTurn
    BY <1>1, <1>2, <2>1 DEF PlacesAreGivenInTurn
  <2>8. step' \in [Request -> Steps]
    BY <1>2, <2>1 DEF Steps
  <2>9. inFlight' \in 0 .. Limit
    BY <1>0, <1>3, <2>1, SMTT(30)
  <2> QED  BY <1>2, <2>1, <2>3, <2>6, <2>7, <2>8, <2>9 DEF PlacesStep, PlacesInv
<1>4. CASE inFlight >= Limit
  <2> DEFINE w == [request |-> r, queuedAt |-> time]
  <2>1. inFlight' = inFlight /\ waiting' = Append(waiting, w) /\ step' = [step EXCEPT ![r] = "queued"]
    BY <1>2, <1>4, SMTT(30) DEF Acquire, Goes
  <2>2. w \in Waiting
    BY <1>2 DEF Waiting
  <2>3. w.request = r
    OBVIOUS
  <2> HIDE DEF w
  <2>4. /\ waiting' \in Seq(Waiting)
        /\ Len(waiting') = Len(waiting) + 1
        /\ \A i \in 1 .. Len(waiting) : waiting'[i] = waiting[i]
        /\ waiting'[Len(waiting) + 1] = w
    BY <1>2, <2>1, <2>2, AppendProperties
  <2>5. DOMAIN waiting' = 1 .. Len(waiting) + 1
    BY <2>4, LenProperties
  <2>14. /\ \A i \in DOMAIN waiting : i \in DOMAIN waiting'
         /\ \A i \in DOMAIN waiting' : i \in DOMAIN waiting \/ i = Len(waiting) + 1
    <3>1. DOMAIN waiting' = 1 .. length + 1 /\ DOMAIN waiting = 1 .. length
      BY <1>0, <1>2, <2>5
    <3>2. \A i \in 1 .. length : i \in 1 .. length + 1
      BY <1>0
    <3>3. \A i \in 1 .. length + 1 : i \in 1 .. length \/ i = length + 1
      BY <1>0
    <3> QED  BY <1>0, <3>1, <3>2, <3>3
  <2>6. Derivers' = Derivers
    BY <1>2, <2>1 DEF Derivers
  <2>7. Queued' = Queued \cup {r}
    BY <1>2, <2>1 DEF Queued
  <2>8. inFlight' = Limit /\ inFlight' \in 0 .. Limit
    BY <1>2, <1>4, <2>1
  <2>9. {Waiter(i) : i \in DOMAIN waiting}' = Queued'
    <3>1. {Waiter(i) : i \in DOMAIN waiting} = Queued
      BY DEF PlacesInv, PlacesAreCounted, Queued
    <3>2. \A i \in DOMAIN waiting : i \in DOMAIN waiting' /\ waiting'[i] = waiting[i]
      BY <1>2, <2>4, <2>14
    <3>3. Len(waiting) + 1 \in DOMAIN waiting' /\ waiting'[Len(waiting) + 1].request = r
      BY <1>2, <2>3, <2>4, <2>5
    <3>4. \A i \in DOMAIN waiting' : i \in DOMAIN waiting \/ i = Len(waiting) + 1
      BY <2>14
    <3> QED  BY <2>7, <3>1, <3>2, <3>3, <3>4 DEF Waiter
  <2>10. \A i, j \in DOMAIN waiting' : waiting'[i].request = waiting'[j].request => i = j
    <3>1. \A i, j \in DOMAIN waiting : Waiter(i) = Waiter(j) => i = j
      BY DEF PlacesInv, PlacesAreCounted
    <3>2. \A i \in DOMAIN waiting : waiting'[i].request = Waiter(i)
      BY <1>2, <2>4 DEF Waiter
    <3>3. \A i \in DOMAIN waiting' : i \in DOMAIN waiting \/ i = Len(waiting) + 1
      BY <2>14
    <3>4. waiting'[Len(waiting) + 1].request = r
      BY <2>3, <2>4
    <3> QED  BY <1>1, <3>1, <3>2, <3>3, <3>4, SMTT(30)
  <2>11. PlacesAreCounted'
    <3>1. inFlight' = Cardinality(Derivers') /\ inFlight' <= Limit
      BY <1>0, <1>2, <2>1, <2>6, <2>8
    <3> QED  BY <2>8, <2>9, <2>10, <3>1 DEF PlacesAreCounted, Derivers, Queued, Waiter
  <2>12. PlacesAreGivenInTurn
    BY <1>1, <1>2, <2>1 DEF PlacesAreGivenInTurn
  <2>13. step' \in [Request -> Steps]
    BY <1>2, <2>1 DEF Steps
  <2> QED  BY <1>2, <2>4, <2>6, <2>8, <2>11, <2>12, <2>13 DEF PlacesStep, PlacesInv
<1> QED  BY <1>2, <1>3, <1>4, SMTT(30)

\* The timer takes one request out of the queue.
LEMMA GivingUpKeepsPlaces ==
  ASSUME TypeOK, PlacesInv, NEW r \in Request, WaitLimitPasses(r)
  PROVE  PlacesStep /\ step' = [step EXCEPT ![r] = "done"] /\ step[r] = "queued"
<1>1. PICK n \in DOMAIN waiting :
        /\ waiting[n].request = r /\ HasWaitedOutTheLimit(waiting[n])
        /\ waiting' = RemoveAt(waiting, n)
  BY DEF WaitLimitPasses
<1>2. step' = [step EXCEPT ![r] = "done"] /\ inFlight' = inFlight
  BY DEF WaitLimitPasses, Goes
<1>3. /\ waiting \in Seq(Waiting) /\ Len(waiting) \in Nat /\ DOMAIN waiting = 1 .. Len(waiting)
      /\ \A i \in DOMAIN waiting : Waiter(i) \in Request /\ step[Waiter(i)] = "queued"
      /\ step \in [Request -> Steps] /\ inFlight \in 0 .. Limit
  BY WaitersAreQueued DEF TypeOK
<1>4. /\ waiting' \in Seq(Waiting)
      /\ Len(waiting') = Len(waiting) - 1
      /\ \A j \in DOMAIN waiting' : waiting'[j] = waiting[IF j < n THEN j ELSE j + 1]
  BY <1>1, <1>3, QueueWithout
<1>5. DOMAIN waiting' = 1 .. Len(waiting) - 1
  BY <1>4, LenProperties
<1>6. /\ {Waiter(i) : i \in DOMAIN waiting} = Queued
      /\ \A i, j \in DOMAIN waiting : Waiter(i) = Waiter(j) => i = j
      /\ IsFiniteSet(Derivers) /\ inFlight = Cardinality(Derivers)
      /\ waiting # <<>> => inFlight = Limit
      /\ inFlight <= Limit
  BY DEF PlacesInv, PlacesAreCounted, Queued, Derivers
<1>7. step[r] = "queued"
  BY <1>1, <1>3 DEF Waiter
<1>8. Derivers' = Derivers /\ Queued' = Queued \ {r}
  BY <1>2, <1>3, <1>7 DEF Derivers, Queued
<1>9. \A j \in DOMAIN waiting' : \E i \in DOMAIN waiting :
        i # n /\ waiting'[j] = waiting[i] /\ i = IF j < n THEN j ELSE j + 1
  BY <1>3, <1>4, <1>5
<1>10. \A i \in DOMAIN waiting : i # n => \E j \in DOMAIN waiting' : waiting'[j] = waiting[i]
  <2> TAKE i \in DOMAIN waiting
  <2> HAVE i # n
  <2>1. CASE i < n
    <3>1. i \in DOMAIN waiting' /\ waiting'[i] = waiting[i]
      BY <1>3, <1>4, <1>5, <2>1
    <3> QED  BY <3>1
  <2>2. CASE i > n
    <3>1. i - 1 \in DOMAIN waiting' /\ ~(i - 1 < n) /\ (i - 1) + 1 = i
      BY <1>3, <1>5, <2>2
    <3>2. waiting'[i - 1] = waiting[(i - 1) + 1]
      BY <1>4, <3>1
    <3> QED  BY <3>1, <3>2
  <2> QED  BY <1>3, <2>1, <2>2
<1>11. {waiting'[j].request : j \in DOMAIN waiting'} = Queued'
  <2>1. \A j \in DOMAIN waiting' : waiting'[j].request \in Queued'
    <3> TAKE j \in DOMAIN waiting'
    <3>1. PICK i \in DOMAIN waiting : i # n /\ waiting'[j] = waiting[i]
      BY <1>9
    <3>2. Waiter(i) \in Queued /\ Waiter(i) # r
      BY <1>1, <1>6, <3>1 DEF Waiter
    <3> QED  BY <1>8, <3>1, <3>2 DEF Waiter
  <2>2. ASSUME NEW q \in Queued' PROVE \E j \in DOMAIN waiting' : waiting'[j].request = q
    <3>1. PICK i \in DOMAIN waiting : Waiter(i) = q
      BY <1>6, <1>8
    <3>2. i # n
      BY <1>1, <1>8, <3>1 DEF Waiter
    <3> QED  BY <1>10, <3>1, <3>2 DEF Waiter
  <2> QED  BY <2>1, <2>2
<1>12. \A j, k \in DOMAIN waiting' : waiting'[j].request = waiting'[k].request => j = k
  <2> TAKE j, k \in DOMAIN waiting'
  <2> HAVE waiting'[j].request = waiting'[k].request
  <2>1. PICK i \in DOMAIN waiting : waiting'[j] = waiting[i] /\ i = IF j < n THEN j ELSE j + 1
    BY <1>9
  <2>2. PICK l \in DOMAIN waiting : waiting'[k] = waiting[l] /\ l = IF k < n THEN k ELSE k + 1
    BY <1>9
  <2>3. i = l
    BY <1>6, <2>1, <2>2 DEF Waiter
  <2>4. j \in Nat /\ k \in Nat /\ n \in Nat
    BY <1>3, <1>5
  <2> QED  BY <2>1, <2>2, <2>3, <2>4
<1>13. PlacesAreCounted'
  <2>1. waiting # <<>>
    BY <1>1
  <2> QED  BY <1>2, <1>6, <1>8, <1>11, <1>12, <2>1
           DEF PlacesAreCounted, Derivers, Queued, Waiter
<1>14. PlacesAreGivenInTurn
  <2>1. \A i \in DOMAIN waiting : step'[Waiter(i)] = IF Waiter(i) = r THEN "done" ELSE "queued"
    BY <1>2, <1>3
  <2>2. \A i \in DOMAIN waiting : Waiter(i) = r => waiting[i] = waiting[n]
    BY <1>1, <1>6 DEF Waiter
  <2> QED  BY <1>1, <2>1, <2>2 DEF PlacesAreGivenInTurn
<1> QED  BY <1>2, <1>3, <1>4, <1>6, <1>7, <1>8, <1>13, <1>14 DEF PlacesStep, PlacesInv

\* A request leaves its place to the first waiter within the limit, and those
\* before it are refused.
LEMMA LeavingKeepsPlaces ==
  ASSUME TypeOK, PlacesInv, NEW r \in Request, step[r] = "deriving",
         NEW to \in Steps \ {"queued", "deriving"}, NEW with, Leave(r, to, with)
  PROVE  /\ PlacesStep
         /\ step' \in [Request -> Steps] /\ step'[r] = to
         /\ \A q \in Request \ {r} :
              /\ step'[q] = step[q] \/ (step[q] = "queued" /\ step'[q] \in {"deriving", "done"})
              /\ \/ answer'[q] = answer[q] /\ (step'[q] = "done" => (step[q] = "done" \/ answer[q] # "none"))
                 \/ step[q] = "queued" /\ answer[q] = "none" /\ answer'[q] = "rate_limited" /\ step'[q] = "done"
         /\ answer'[r] = with
         /\ answer' = [q \in Request |-> answer'[q]]
<1> USE BoundsAssumption
<1> DEFINE length == Len(waiting)
           next == NextPlace
           granted == {waiting[i].request :
                         i \in {i \in DOMAIN waiting : ~HasWaitedOutTheLimit(waiting[i])} \cap {next}}
           refused == {waiting[i].request : i \in 1 .. next - 1}
<1>1. /\ waiting \in Seq(Waiting) /\ length \in Nat /\ DOMAIN waiting = 1 .. length
      /\ \A i \in DOMAIN waiting : Waiter(i) \in Request /\ step[Waiter(i)] = "queued" /\ Waiter(i) # r
      /\ step \in [Request -> Steps] /\ Limit \in Nat \ {0}
  BY WaitersAreQueued DEF TypeOK
<1>2. /\ next \in 1 .. length + 1
      /\ \A i \in 1 .. next - 1 : i \in DOMAIN waiting /\ HasWaitedOutTheLimit(waiting[i])
      /\ next \in DOMAIN waiting => ~HasWaitedOutTheLimit(waiting[next])
  BY <1>1, NextPlaceIsTheFirstInTime
<1>3. /\ waiting' = SubSeq(waiting, next + 1, length)
      /\ inFlight' = inFlight - 1 + Cardinality(granted)
      /\ step' = [q \in Request |-> CASE q = r -> to
                                      [] q \in refused -> "done"
                                      [] q \in granted -> "deriving"
                                      [] OTHER -> step[q]]
      /\ answer' = [q \in Request |-> CASE q = r -> with
                                        [] q \in refused /\ answer[q] = "none" -> "rate_limited"
                                        [] OTHER -> answer[q]]
  BY DEF Leave, NextPlace
<1>4. granted = IF next \in DOMAIN waiting THEN {Waiter(next)} ELSE {}
  BY <1>2 DEF Waiter
<1>5. refused = {Waiter(i) : i \in 1 .. next - 1}
  BY DEF Waiter
<1>6. /\ waiting' \in Seq(Waiting)
      /\ DOMAIN waiting' = 1 .. length - next
      /\ \A j \in DOMAIN waiting' : waiting'[j] = waiting[next + j]
      /\ waiting' # <<>> => next < length
  BY <1>1, <1>2, <1>3, QueueBehind
<1> HIDE DEF next, granted, refused, length
<1>9. r \notin refused /\ r \notin granted
  BY <1>1, <1>2, <1>4, <1>5
<1>7. /\ {Waiter(i) : i \in DOMAIN waiting} = Queued
      /\ \A i, j \in DOMAIN waiting : Waiter(i) = Waiter(j) => i = j
      /\ IsFiniteSet(Derivers) /\ inFlight = Cardinality(Derivers)
      /\ waiting # <<>> => inFlight = Limit
      /\ inFlight <= Limit
  BY DEF PlacesInv, PlacesAreCounted, Queued, Derivers
<1>8. /\ next \in Nat /\ length \in Nat
      /\ next \in DOMAIN waiting <=> next <= length
      /\ \A i \in DOMAIN waiting : i < next \/ i = next \/ i > next
      /\ \A i \in DOMAIN waiting : i < next <=> i \in 1 .. next - 1
  BY <1>1, <1>2, SMTT(30)
<1>10. refused \cap granted = {}
  <2>1. \A i \in 1 .. next - 1 : i # next
    BY <1>8
  <2> QED  BY <1>2, <1>4, <1>5, <1>7, <2>1
<1>27. /\ step'[r] = to /\ answer'[r] = with
       /\ \A q \in Request \ {r} :
            /\ q \in refused => step'[q] = "done"
            /\ q \in granted \ refused => step'[q] = "deriving"
            /\ q \notin refused \cup granted => step'[q] = step[q]
            /\ answer'[q] = IF q \in refused /\ answer[q] = "none" THEN "rate_limited" ELSE answer[q]
  <2>1. step'[r] = to /\ answer'[r] = with
    <3>1. step'[r] = CASE r = r -> to [] r \in refused -> "done" [] r \in granted -> "deriving" [] OTHER -> step[r]
      BY <1>3
    <3>2. answer'[r] = CASE r = r -> with [] r \in refused /\ answer[r] = "none" -> "rate_limited" [] OTHER -> answer[r]
      BY <1>3
    <3> QED  BY <1>9, <3>1, <3>2
  <2>2. ASSUME NEW q \in Request \ {r}
        PROVE  /\ q \in refused => step'[q] = "done"
               /\ q \in granted \ refused => step'[q] = "deriving"
               /\ q \notin refused \cup granted => step'[q] = step[q]
               /\ answer'[q] = IF q \in refused /\ answer[q] = "none" THEN "rate_limited" ELSE answer[q]
    <3>1. step'[q] = CASE q = r -> to [] q \in refused -> "done" [] q \in granted -> "deriving" [] OTHER -> step[q]
      BY <1>3
    <3>2. answer'[q] = CASE q = r -> with [] q \in refused /\ answer[q] = "none" -> "rate_limited" [] OTHER -> answer[q]
      BY <1>3
    <3>3. ~(q \in refused /\ q \in granted) /\ q # r
      BY <1>10
    <3> QED  BY <3>1, <3>2, <3>3
  <2> QED  BY <2>1, <2>2
<1>11. \A i \in DOMAIN waiting :
         /\ i < next => Waiter(i) \in refused /\ step'[Waiter(i)] = "done"
         /\ i = next => Waiter(i) \in granted /\ step'[Waiter(i)] = "deriving"
         /\ i > next => Waiter(i) \notin refused \cup granted /\ step'[Waiter(i)] = "queued"
  <2> TAKE i \in DOMAIN waiting
  <2>1. i < next => Waiter(i) \in refused
    BY <1>5, <1>8
  <2>2. i = next => Waiter(i) \in granted
    BY <1>4
  <2>3. i > next => Waiter(i) \notin refused \cup granted
    <3> HAVE i > next
    <3>1. \A j \in 1 .. next - 1 : j # i
      BY <1>1, <1>8, SMTT(30)
    <3>2. i # next
      BY <1>1, <1>8
    <3> QED  BY <1>2, <1>4, <1>5, <1>7, <3>1, <3>2
  <2> QED  BY <1>1, <1>9, <1>10, <1>27, <2>1, <2>2, <2>3
<1>12. \A q \in Request \ (refused \cup granted \cup {r}) : step'[q] = step[q]
  BY <1>27
<1>13. refused \cup granted \subseteq {Waiter(i) : i \in DOMAIN waiting}
  BY <1>2, <1>4, <1>5
<1>14. Derivers' = (Derivers \ {r}) \cup granted /\ granted \cap Derivers = {} /\ r \in Derivers
  <2>1. step'[r] = to
    BY <1>27
  <2>2. \A q \in refused : q \in Request /\ step'[q] = "done" /\ step[q] = "queued"
    BY <1>1, <1>9, <1>13, <1>27
  <2>3. \A q \in granted : q \in Request /\ step'[q] = "deriving" /\ step[q] = "queued"
    BY <1>1, <1>9, <1>10, <1>13, <1>27
  <2> QED  BY <1>12, <2>1, <2>2, <2>3 DEF Derivers
<1>15. /\ IsFiniteSet(Derivers \ {r}) /\ Cardinality(Derivers \ {r}) = inFlight - 1
       /\ inFlight \in Nat /\ inFlight - 1 \in Nat
  <2>1. IsFiniteSet(Derivers \ {r}) /\ Cardinality(Derivers \ {r}) = Cardinality(Derivers) - 1
    BY <1>7, <1>14, FS_RemoveElement
  <2>2. inFlight \in Nat /\ Cardinality(Derivers \ {r}) \in Nat
    BY <1>7, <2>1, FS_CardinalityType
  <2> QED  BY <1>7, <2>1, <2>2
<1>16. /\ IsFiniteSet(Derivers') /\ Cardinality(Derivers') = inFlight'
       /\ inFlight' = IF next <= length THEN inFlight ELSE inFlight - 1
  <2>1. CASE next \in DOMAIN waiting
    <3>1. granted = {Waiter(next)} /\ Cardinality(granted) = 1
      BY <1>4, <2>1, FS_Singleton
    <3>2. Waiter(next) \notin Derivers \ {r}
      BY <1>14, <3>1
    <3>3. /\ IsFiniteSet((Derivers \ {r}) \cup {Waiter(next)})
          /\ Cardinality((Derivers \ {r}) \cup {Waiter(next)}) = inFlight - 1 + 1
      BY <1>15, <3>2, FS_AddElement
    <3> QED  BY <1>3, <1>8, <1>14, <1>15, <2>1, <3>1, <3>3, SMTT(30)
  <2>2. CASE next \notin DOMAIN waiting
    <3>1. granted = {} /\ Cardinality(granted) = 0
      BY <1>4, <2>2, FS_EmptySet
    <3> QED  BY <1>3, <1>8, <1>14, <1>15, <2>2, <3>1, SMTT(30)
  <2> QED  BY <2>1, <2>2
<1>17. inFlight' <= Limit /\ inFlight' \in 0 .. Limit
  BY <1>1, <1>7, <1>15, <1>16
<1>18. waiting' # <<>> => inFlight' = Limit
  <2> HAVE waiting' # <<>>
  <2>1. next <= length /\ next \in DOMAIN waiting
    BY <1>6, <1>8
  <2>2. waiting # <<>>
    BY <2>1
  <2> QED  BY <1>7, <1>16, <2>1, <2>2
<1>19. \A j \in DOMAIN waiting' :
         next + j \in DOMAIN waiting /\ next + j > next /\ waiting'[j].request = Waiter(next + j)
  <2>1. \A j \in 1 .. length - next : next + j \in 1 .. length /\ next + j > next
    BY <1>8
  <2> QED  BY <1>1, <1>6, <2>1 DEF Waiter
<1>20. {waiting'[j].request : j \in DOMAIN waiting'} = Queued'
  <2>1. \A j \in DOMAIN waiting' : waiting'[j].request \in Queued'
    BY <1>1, <1>11, <1>19 DEF Queued
  <2>2. ASSUME NEW q \in Queued' PROVE \E j \in DOMAIN waiting' : waiting'[j].request = q
    <3>1. q \in Request /\ step'[q] = "queued"
      BY DEF Queued
    <3>2. q # r /\ step[q] = "queued"
      BY <1>12, <1>13, <1>1, <1>11, <1>27, <3>1
    <3>3. PICK i \in DOMAIN waiting : Waiter(i) = q
      BY <1>7, <3>1, <3>2 DEF Queued
    <3>4. i > next
      BY <1>8, <1>11, <3>1, <3>3
    <3>5. i - next \in DOMAIN waiting' /\ next + (i - next) = i
      <4>1. i \in 1 .. length
        BY <1>1
      <4>2. i - next \in 1 .. length - next /\ next + (i - next) = i
        BY <1>8, <3>4, <4>1
      <4> QED  BY <1>6, <4>2
    <3> QED  BY <1>19, <3>3, <3>5
  <2> QED  BY <2>1, <2>2
<1>21. \A j, k \in DOMAIN waiting' : waiting'[j].request = waiting'[k].request => j = k
  <2> TAKE j, k \in DOMAIN waiting'
  <2> HAVE waiting'[j].request = waiting'[k].request
  <2>1. next + j = next + k
    BY <1>7, <1>19
  <2>2. j \in Int /\ k \in Int
    BY <1>6
  <2> QED  BY <1>8, <2>1, <2>2
<1>22. PlacesAreCounted'
  BY <1>16, <1>17, <1>18, <1>20, <1>21 DEF PlacesAreCounted, Derivers, Queued, Waiter
<1>23. PlacesAreGivenInTurn
  <2> SUFFICES ASSUME NEW i \in DOMAIN waiting
               PROVE  /\ step'[Waiter(i)] = "deriving" =>
                           /\ ~HasWaitedOutTheLimit(waiting[i])
                           /\ \A j \in 1 .. i - 1 : step'[Waiter(j)] = "done"
                      /\ step'[Waiter(i)] = "done" => HasWaitedOutTheLimit(waiting[i])
    BY DEF PlacesAreGivenInTurn
  <2>1. CASE i < next
    BY <1>2, <1>8, <1>11, <2>1
  <2>2. CASE i = next
    <3>1. \A j \in 1 .. i - 1 : j \in DOMAIN waiting /\ j < next
      BY <1>2, <1>8, <2>2
    <3> QED  BY <1>2, <1>11, <2>2, <3>1
  <2>3. CASE i > next
    BY <1>11, <2>3
  <2> QED  BY <1>8, <2>1, <2>2, <2>3
<1>24. step' \in [Request -> Steps] /\ step'[r] = to /\ answer'[r] = with
  <2>1. \A q \in Request : step'[q] \in Steps
    BY <1>1, <1>27 DEF Steps
  <2> QED  BY <1>3, <1>27, <2>1
<1>25. ASSUME NEW q \in Request \ {r}
       PROVE  /\ step'[q] = step[q] \/ (step[q] = "queued" /\ step'[q] \in {"deriving", "done"})
              /\ \/ answer'[q] = answer[q] /\ (step'[q] = "done" => (step[q] = "done" \/ answer[q] # "none"))
                 \/ step[q] = "queued" /\ answer[q] = "none" /\ answer'[q] = "rate_limited" /\ step'[q] = "done"
  <2>1. q \in refused \cup granted => step[q] = "queued"
    BY <1>1, <1>13
  <2>2. CASE q \in refused
    BY <1>25, <1>27, <2>1, <2>2
  <2>3. CASE q \in granted
    BY <1>10, <1>25, <1>27, <2>1, <2>3
  <2>4. CASE q \notin refused \cup granted
    <3>1. step'[q] = step[q] /\ answer'[q] = answer[q]
      BY <1>27, <2>4
    <3> QED  BY <3>1
  <2> QED  BY <2>2, <2>3, <2>4
<1>26. PlacesStep
  BY <1>6, <1>16, <1>17, <1>22, <1>23 DEF PlacesStep, PlacesInv
<1>28. answer' = [q \in Request |-> answer'[q]]
  BY <1>3
<1> QED  BY <1>24, <1>25, <1>26, <1>27, <1>28

(***************************************************************************)
(* What a sign-in has cost.                                                *)
(***************************************************************************)

\* Of the requests other than r, a step changes at most whether one that waits
\* is given a place or refused.
OthersStand(r) ==
    \A q \in Request \ {r} :
        /\ work'[q] = work[q]
        /\ \/ step'[q] = step[q] /\ answer'[q] = answer[q]
           \/ step[q] = "queued" /\ step'[q] = "deriving" /\ answer'[q] = answer[q]
           \/ step[q] = "queued" /\ step'[q] = "done" /\ answer[q] # "none" /\ answer'[q] = answer[q]
           \/ step[q] = "queued" /\ step'[q] = "done" /\ answer[q] = "none" /\ answer'[q] = "rate_limited"
        /\ drawing'[q] = drawing[q]
        /\ step'[q] # "done" =>
             client'[q] = client[q] /\ named'[q] = named[q] /\ found'[q] = found[q]

LEMMA OthersKeepTheirPath ==
  ASSUME TypeOK, NEW r \in Request, OthersStand(r), PathsInv, NEW q \in Request \ {r}
  PROVE  PathInv(q)'
<1>1. PathInv(q)
  BY DEF PathsInv
<1>2. /\ work'[q] = work[q] /\ drawing'[q] = drawing[q]
      /\ step'[q] # "done" =>
           client'[q] = client[q] /\ named'[q] = named[q] /\ found'[q] = found[q]
  BY DEF OthersStand
<1>3. CASE step'[q] = step[q] /\ answer'[q] = answer[q]
  <2>1. CASE step[q] = "done"
    BY <1>3, <2>1 DEF PathInv
  <2>2. CASE step[q] # "done"
    BY <1>1, <1>2, <1>3, <2>2 DEF PathInv, DrawsFor
  <2> QED  BY <2>1, <2>2
<1>4. CASE step[q] = "queued" /\ step'[q] = "deriving" /\ answer'[q] = answer[q]
  BY <1>1, <1>2, <1>4 DEF PathInv
<1>5. CASE step'[q] = "done"
  BY <1>5 DEF PathInv
<1> QED  BY <1>3, <1>4, <1>5 DEF OthersStand

\* What a step of r may make of its answer.
AnswersRight(r) ==
    answer'[r] # answer[r] =>
        /\ answer'[r] = "signed_in" =>
             named[r].password = "right" /\ found[r] \in {"current", "outdated"}
        /\ answer'[r] \in {"signed_in", "invalid_credentials"} =>
             work'[r] = IF named[r].password = "unusable" THEN <<"address", "account">>
                        ELSE <<"address", "account", "check", "derive">>

LEMMA OthersAnswerRight ==
  ASSUME NEW r \in Request, OthersStand(r), NEW q \in Request \ {r}
  PROVE  AnswersRight(q)
BY DEF OthersStand, AnswersRight

\* The sequence c is b behind a.
Joins(a, b, c) ==
    /\ Len(c) = Len(a) + Len(b)
    /\ DOMAIN c = 1 .. Len(a) + Len(b)
    /\ \A i \in 1 .. Len(a) : c[i] = a[i]
    /\ \A j \in 1 .. Len(b) : c[Len(a) + j] = b[j]

LEMMA TwoParts ==
  ASSUME NEW S, NEW a \in Seq(S), NEW b \in Seq(S)
  PROVE  a \o b \in Seq(S) /\ Joins(a, b, a \o b)
<1> DEFINE m == Len(a)
           n == Len(b)
<1>1. /\ a \o b \in Seq(S)
      /\ Len(a \o b) = m + n
      /\ \A i \in 1 .. m + n : (a \o b)[i] = IF i <= m THEN a[i] ELSE b[i - m]
  BY ConcatProperties
<1>2. m \in Nat /\ n \in Nat
  BY LenProperties
<1>3. DOMAIN (a \o b) = 1 .. m + n
  <2>1. DOMAIN (a \o b) = 1 .. Len(a \o b)
    BY <1>1, LenProperties
  <2> QED  BY <1>1, <2>1
<1> HIDE DEF m, n
<1>4. ASSUME NEW i \in 1 .. m PROVE (a \o b)[i] = a[i]
  <2>1. i \in 1 .. m + n /\ i <= m
    BY <1>2
  <2> QED  BY <1>1, <2>1
<1>5. ASSUME NEW j \in 1 .. n PROVE (a \o b)[m + j] = b[j]
  <2>1. m + j \in 1 .. m + n /\ ~(m + j <= m) /\ (m + j) - m = j
    BY <1>2
  <2> QED  BY <1>1, <2>1
<1> QED  BY <1>1, <1>3, <1>4, <1>5 DEF m, n, Joins

\* Whatever the client claimed and however many proxies its request passed,
\* the last address of the header that no proxy had is its own.
LEMMA TheClientIsResolved ==
  ASSUME BoundsAssumption, NEW from \in Client, NEW hops \in Nat,
         NEW claim \in {<<>>, <<Forged>>}
  PROVE  ResolveClientAddress(Connection(from, hops), Forwarded(from, claim, hops)) = from
<1>1. from # Proxy
  BY DEF BoundsAssumption
<1>2. CASE hops = 0
  BY <1>1, <1>2 DEF ResolveClientAddress, Connection
<1>3. CASE hops # 0
  <2> DEFINE Address == Client \cup {Proxy, Forged}
             proxies == [i \in 1 .. hops - 1 |-> Proxy]
             own == <<from>>
             before == Len(claim)
             front == claim \o own
             last == before + 1
             header == front \o proxies
             after == hops - 1
  <2>1. /\ from \in Address /\ Forged \in Address /\ Proxy \in Address
        /\ after \in Nat
    BY <1>3
  <2>2. own \in Seq(Address) /\ Len(own) = 1 /\ own[1] = from
    BY <2>1
  <2>3. claim \in Seq(Address) /\ before \in Nat
    <3> HIDE DEF Address
    <3>1. <<>> \in Seq(Address) /\ Len(<<>>) = 0 /\ <<Forged>> \in Seq(Address) /\ Len(<<Forged>>) = 1
      BY <2>1
    <3>2. CASE claim = <<>>
      BY <3>1, <3>2
    <3>3. CASE claim = <<Forged>>
      BY <3>1, <3>3
    <3> QED  BY <3>2, <3>3
  <2>4. /\ proxies \in Seq(Address) /\ Len(proxies) = after
        /\ \A i \in 1 .. after : proxies[i] = Proxy
    <3> HIDE DEF Address
    <3> QED  BY <2>1
  <2> HIDE DEF Address, own, proxies, before, after
  <2>5. /\ front \in Seq(Address) /\ Len(front) = last
        /\ \A j \in 1 .. 1 : front[before + j] = own[j]
    <3>1. claim \in Seq(Address) /\ Len(claim) = before
      BY <2>3 DEF before
    <3>2. /\ front \in Seq(Address)
          /\ Len(front) = Len(claim) + Len(own)
          /\ \A j \in 1 .. Len(own) : front[Len(claim) + j] = own[j]
      <4>1. front \in Seq(Address) /\ Joins(claim, own, front)
        BY <2>2, <3>1, TwoParts
      <4> QED  BY <4>1 DEF Joins
    <3> QED  BY <2>2, <3>1, <3>2
  <2>6. front[last] = from /\ last \in Nat
    <3>1. 1 \in 1 .. 1
      OBVIOUS
    <3> QED  BY <2>2, <2>3, <2>5, <3>1, SMTT(30)
  <2> HIDE DEF front, last
  <2>7. /\ DOMAIN header = 1 .. last + after
        /\ \A i \in 1 .. last : header[i] = front[i]
        /\ \A j \in 1 .. after : header[last + j] = proxies[j]
    <3>1. /\ DOMAIN header = 1 .. Len(front) + Len(proxies)
          /\ \A i \in 1 .. Len(front) : header[i] = front[i]
          /\ \A j \in 1 .. Len(proxies) : header[Len(front) + j] = proxies[j]
      <4>1. Joins(front, proxies, header)
        BY <2>4, <2>5, TwoParts
      <4> QED  BY <4>1 DEF Joins
    <3> QED  BY <2>4, <2>5, <3>1
  <2> HIDE DEF header
  <2>8. last >= 1
    BY <2>3, <2>6 DEF last
  <2>9. last \in DOMAIN header /\ header[last] = from
    <3>1. last \in 1 .. last + after /\ last \in 1 .. last
      BY <2>1, <2>6, <2>8
    <3> QED  BY <2>6, <2>7, <3>1
  <2>10. \A i \in DOMAIN header : i > last => header[i] = Proxy
    <3> TAKE i \in DOMAIN header
    <3> HAVE i > last
    <3> DEFINE j == i - last
    <3>1. j \in 1 .. after /\ last + j = i
      BY <2>1, <2>6, <2>7, SMTT(30)
    <3> HIDE DEF j
    <3>2. header[i] = proxies[j]
      BY <2>7, <3>1
    <3> QED  BY <2>4, <3>1, <3>2
  <2> DEFINE untrusted == {i \in DOMAIN header : header[i] # Proxy}
  <2>11. last \in untrusted
    BY <1>1, <2>9
  <2>12. \A i \in untrusted : i \in Int /\ ~(i > last)
    <3>1. \A i \in DOMAIN header : i \in Int
      BY <2>1, <2>6, <2>7
    <3> QED  BY <2>10, <3>1
  <2>13. Max(untrusted) = last
    <3> HIDE DEF untrusted
    <3>1. \A y \in untrusted : last >= y
      BY <2>6, <2>12
    <3>2. \A x \in untrusted : (\A y \in untrusted : x >= y) => x = last
      BY <2>6, <2>11, <2>12
    <3> QED  BY <2>11, <3>1, <3>2 DEF Max
  <2>14. Connection(from, hops) = Proxy
    BY <1>3 DEF Connection
  <2>15. Forwarded(from, claim, hops) = header
    BY <1>3 DEF Forwarded, header, front, own, proxies
  <2> DEFINE forwarded == Forwarded(from, claim, hops)
  <2>16. {i \in DOMAIN forwarded : forwarded[i] # Proxy} = untrusted
    BY <2>15
  <2> QED  BY <2>9, <2>11, <2>13, <2>14, <2>15, <2>16 DEF ResolveClientAddress
<1> QED  BY <1>2, <1>3

\* What requests carry, by type.
Answers ==
    {"none", "origin_not_allowed", "rate_limited", "invalid_credentials", "internal_error", "signed_in"}
Costing == {"address", "account", "check", "derive"}

RequestsTyping ==
    /\ client \in [Request -> Client \cup {Nothing}]
    /\ drawing \in [Request -> {Nothing} \cup Drawing]
    /\ named \in [Request -> {Nothing} \cup Submission]
    /\ found \in [Request -> Kind \cup {Nothing}]
    /\ answer \in [Request -> Answers]
    /\ work \in [Request -> Seq(Costing)]

LEMMA TypesOfRequests ==
  ASSUME TypeOK
  PROVE  RequestsTyping /\ step \in [Request -> Steps]
BY DEF TypeOK, RequestsTyping, Drawing, Submission, Answers, Costing

PathStep(r) == RequestsTyping' /\ PathInv(r)' /\ OthersStand(r) /\ AnswersRight(r)

\* The requests that end are forgotten; no other carries less.
LEMMA Forgetting ==
  ASSUME TypeOK, ForgetTheDone
  PROVE  /\ client' \in [Request -> Client \cup {Nothing}]
         /\ named' \in [Request -> {Nothing} \cup Submission]
         /\ found' \in [Request -> Kind \cup {Nothing}]
         /\ \A q \in Request : step'[q] # "done" =>
              client'[q] = client[q] /\ named'[q] = named[q] /\ found'[q] = found[q]
<1>1. /\ client' = [q \in Request |-> IF step'[q] = "done" THEN Nothing ELSE client[q]]
      /\ named' = [q \in Request |-> IF step'[q] = "done" THEN Nothing ELSE named[q]]
      /\ found' = [q \in Request |-> IF step'[q] = "done" THEN Nothing ELSE found[q]]
  BY DEF ForgetTheDone, Forgets
<1>2. RequestsTyping
  BY TypesOfRequests
<1> QED  BY <1>1, <1>2 DEF RequestsTyping

\* What a request costs more.
LEMMA Costlier ==
  ASSUME NEW r \in Request, NEW what \in Costing, work \in [Request -> Seq(Costing)], Costs(r, what)
  PROVE  /\ work' \in [Request -> Seq(Costing)]
         /\ work'[r] = Append(work[r], what)
         /\ \A q \in Request \ {r} : work'[q] = work[q]
<1>1. work' = [work EXCEPT ![r] = Append(work[r], what)]
  BY DEF Costs
<1>2. Append(work[r], what) \in Seq(Costing)
  BY AppendProperties
<1> QED  BY <1>1, <1>2

\* The sequence c is a with e at its end.
Lengthens(a, e, c) ==
    /\ Len(c) = Len(a) + 1
    /\ \A i \in 1 .. Len(a) : c[i] = a[i]
    /\ c[Len(a) + 1] = e

LEMMA AppendLengthens ==
  ASSUME NEW S, NEW a \in Seq(S), NEW e \in S
  PROVE  Append(a, e) \in Seq(S) /\ Lengthens(a, e, Append(a, e))
BY AppendProperties DEF Lengthens

\* The costs of a sign-in, one after the other.
LEMMA CostsInOrder ==
  /\ Append(<<"address">>, "account") = <<"address", "account">>
  /\ Append(<<"address", "account">>, "check") = <<"address", "account", "check">>
  /\ Append(<<"address", "account", "check">>, "derive") = <<"address", "account", "check", "derive">>
<1> DEFINE one == <<"address">>
           two == <<"address", "account">>
           three == <<"address", "account", "check">>
           four == <<"address", "account", "check", "derive">>
<1>1. /\ one \in Seq(Costing) /\ Len(one) = 1 /\ one[1] = "address"
      /\ two \in Seq(Costing) /\ Len(two) = 2 /\ two[1] = "address" /\ two[2] = "account"
      /\ three \in Seq(Costing) /\ Len(three) = 3
      /\ three[1] = "address" /\ three[2] = "account" /\ three[3] = "check"
      /\ four \in Seq(Costing) /\ Len(four) = 4
      /\ four[1] = "address" /\ four[2] = "account" /\ four[3] = "check" /\ four[4] = "derive"
  BY DEF Costing
<1> HIDE DEF one, two, three, four
<1>2. "account" \in Costing /\ "check" \in Costing /\ "derive" \in Costing
  BY DEF Costing
<1>3. Append(one, "account") = two
  <2> DEFINE longer == Append(one, "account")
  <2>1. /\ longer \in Seq(Costing) /\ Len(longer) = Len(one) + 1
        /\ \A i \in 1 .. Len(one) : longer[i] = one[i]
        /\ longer[Len(one) + 1] = "account"
    <3>1. longer \in Seq(Costing) /\ Lengthens(one, "account", longer)
      BY <1>1, <1>2, AppendLengthens
    <3> QED  BY <3>1 DEF Lengthens
  <2> HIDE DEF longer
  <2>2. /\ Len(longer) = 2 /\ longer[2] = "account"
        /\ \A i \in 1 .. 1 : longer[i] = one[i]
    BY <1>1, <2>1
  <2>3. \A i \in 1 .. 2 : i \in 1 .. 1 \/ i = 2
    OBVIOUS
  <2>4. \A i \in 1 .. 1 : i = 1
    OBVIOUS
  <2>5. \A i \in 1 .. 2 : longer[i] = two[i]
    BY <1>1, <2>2, <2>3, <2>4
  <2>6. longer = two
    BY <1>1, <2>1, <2>2, <2>5, SeqEqual
  <2> QED  BY <2>6 DEF longer
<1>4. Append(two, "check") = three
  <2> DEFINE longer == Append(two, "check")
  <2>1. /\ longer \in Seq(Costing) /\ Len(longer) = Len(two) + 1
        /\ \A i \in 1 .. Len(two) : longer[i] = two[i]
        /\ longer[Len(two) + 1] = "check"
    <3>1. longer \in Seq(Costing) /\ Lengthens(two, "check", longer)
      BY <1>1, <1>2, AppendLengthens
    <3> QED  BY <3>1 DEF Lengthens
  <2> HIDE DEF longer
  <2>2. /\ Len(longer) = 3 /\ longer[3] = "check"
        /\ \A i \in 1 .. 2 : longer[i] = two[i]
    BY <1>1, <2>1
  <2>3. \A i \in 1 .. 3 : i \in 1 .. 2 \/ i = 3
    OBVIOUS
  <2>4. \A i \in 1 .. 2 : i = 1 \/ i = 2
    OBVIOUS
  <2>5. \A i \in 1 .. 3 : longer[i] = three[i]
    BY <1>1, <2>2, <2>3, <2>4
  <2>6. longer = three
    BY <1>1, <2>1, <2>2, <2>5, SeqEqual
  <2> QED  BY <2>6 DEF longer
<1>5. Append(three, "derive") = four
  <2> DEFINE longer == Append(three, "derive")
  <2>1. /\ longer \in Seq(Costing) /\ Len(longer) = Len(three) + 1
        /\ \A i \in 1 .. Len(three) : longer[i] = three[i]
        /\ longer[Len(three) + 1] = "derive"
    <3>1. longer \in Seq(Costing) /\ Lengthens(three, "derive", longer)
      BY <1>1, <1>2, AppendLengthens
    <3> QED  BY <3>1 DEF Lengthens
  <2> HIDE DEF longer
  <2>2. /\ Len(longer) = 4 /\ longer[4] = "derive"
        /\ \A i \in 1 .. 3 : longer[i] = three[i]
    BY <1>1, <2>1
  <2>3. \A i \in 1 .. 4 : i \in 1 .. 3 \/ i = 4
    OBVIOUS
  <2>4. \A i \in 1 .. 3 : i = 1 \/ i = 2 \/ i = 3
    OBVIOUS
  <2>5. \A i \in 1 .. 4 : longer[i] = four[i]
    BY <1>1, <2>2, <2>3, <2>4
  <2>6. longer = four
    BY <1>1, <2>1, <2>2, <2>5, SeqEqual
  <2> QED  BY <2>6 DEF longer
<1> QED  BY <1>3, <1>4, <1>5 DEF one, two, three, four

\* A draw by a request that draws for that drawer from that kind of bucket.
LEMMA DrawsCost ==
  ASSUME TypeOK, NEW r \in Request, NEW kind \in {"address", "account"}, NEW drawer,
         DrawsFor(r, kind, drawer), NEW allowed \in BOOLEAN, Draw(r, drawer, allowed)
  PROVE  /\ work' \in [Request -> Seq(Costing)]
         /\ work'[r] = Append(work[r], kind)
         /\ drawing' \in [Request -> {Nothing} \cup Drawing]
         /\ \A q \in Request \ {r} : work'[q] = work[q] /\ drawing'[q] = drawing[q]
<1>1. drawing[r].bucket = <<kind, drawer>> /\ drawing[r].bucket[1] = kind
  BY DEF DrawsFor
<1>2. drawing' = [drawing EXCEPT ![r] = Nothing] /\ Costs(r, kind)
  BY <1>1 DEF Draw
<1>3. kind \in Costing /\ RequestsTyping
  BY TypesOfRequests DEF Costing
<1> QED  BY <1>2, <1>3, Costlier DEF RequestsTyping

LEMMA ArrivingKeepsPath ==
  ASSUME TypeOK, PathsInv, BoundsAssumption, NEW r \in Request,
         NEW from \in Client, NEW hops \in 0 .. MaxHops, NEW claim \in {<<>>, <<Forged>>},
         Arrive(r, from, claim, hops)
  PROVE  PathStep(r) /\ step' \in [Request -> Steps]
<1>1. RequestsTyping /\ step \in [Request -> Steps]
  BY TypesOfRequests
<1>2. PathInv(r) /\ step[r] = "idle" /\ hops \in Nat
  BY DEF PathsInv, Arrive, BoundsAssumption
<1>3. UNCHANGED <<named, found, work>>
  BY DEF Arrive
<1>4. CASE Answered(r, "origin_not_allowed") /\ UNCHANGED <<client, drawing>>
  <2>1. /\ step' = [step EXCEPT ![r] = "done"]
        /\ answer' = [answer EXCEPT ![r] = "origin_not_allowed"]
    BY <1>4 DEF Answered, Goes
  <2>2. RequestsTyping'
    BY <1>1, <1>3, <1>4, <2>1 DEF RequestsTyping, Answers
  <2>3. step'[r] = "done" /\ answer'[r] = "origin_not_allowed" /\ step' \in [Request -> Steps]
    BY <1>1, <2>1 DEF RequestsTyping, Steps
  <2>4. PathInv(r)' /\ AnswersRight(r)
    BY <2>3 DEF PathInv, AnswersRight
  <2>5. OthersStand(r)
    BY <1>1, <1>3, <1>4, <2>1 DEF OthersStand, RequestsTyping
  <2> QED  BY <2>2, <2>3, <2>4, <2>5 DEF PathStep
<1>5. CASE /\ client' = [client EXCEPT ![r] = from]
           /\ Observe(r, "address",
                      ResolveClientAddress(Connection(from, hops), Forwarded(from, claim, hops)))
           /\ Goes(r, "address")
           /\ UNCHANGED answer
  <2> DEFINE d == [bucket |-> <<"address", from>>, observedAt |-> clock]
  <2>1. drawing' = [drawing EXCEPT ![r] = d]
    BY <1>2, <1>5, TheClientIsResolved DEF Observe
  <2>2. d \in Drawing /\ d.bucket = <<"address", from>>
    <3>1. <<"address", from>> \in Bucket
      BY DEF Bucket, Drawer
    <3>2. clock \in -MaxBehind .. MaxTime
      <4>1. /\ time \in 0 .. MaxTime /\ behind \in 0 .. MaxBehind
            /\ MaxTime \in Nat /\ MaxBehind \in Nat
        BY DEF TypeOK, BoundsAssumption
      <4> QED  BY <4>1 DEF clock
    <3> QED  BY <3>1, <3>2 DEF Drawing
  <2> HIDE DEF d
  <2>3. client' = [client EXCEPT ![r] = from] /\ step' = [step EXCEPT ![r] = "address"] /\ answer' = answer
    BY <1>5 DEF Goes
  <2>4. RequestsTyping'
    BY <1>1, <1>3, <2>1, <2>2, <2>3 DEF RequestsTyping
  <2>5. /\ step'[r] = "address" /\ step' \in [Request -> Steps]
        /\ client'[r] = from /\ drawing'[r] = d /\ answer'[r] = answer[r] /\ work'[r] = work[r]
    BY <1>1, <1>3, <2>1, <2>3 DEF RequestsTyping, Steps
  <2>6. PathInv(r)' /\ AnswersRight(r)
    BY <1>2, <2>2, <2>5 DEF PathInv, AnswersRight, DrawsFor
  <2>7. OthersStand(r)
    BY <1>1, <1>3, <2>1, <2>3 DEF OthersStand, RequestsTyping
  <2> QED  BY <2>4, <2>5, <2>6, <2>7 DEF PathStep
<1> QED  BY <1>4, <1>5 DEF Arrive

LEMMA DrawingForTheAddressKeepsPath ==
  ASSUME TypeOK, PathsInv, BoundsAssumption, NEW r \in Request, DrawAddress(r)
  PROVE  PathStep(r) /\ step' \in [Request -> Steps]
<1>1. RequestsTyping /\ step \in [Request -> Steps]
  BY TypesOfRequests
<1>2. /\ step[r] = "address" /\ answer[r] = "none" /\ work[r] = <<>>
      /\ DrawsFor(r, "address", client[r])
  BY DEF PathsInv, PathInv, DrawAddress
<1>3. /\ client' \in [Request -> Client \cup {Nothing}]
      /\ named' \in [Request -> {Nothing} \cup Submission]
      /\ found' \in [Request -> Kind \cup {Nothing}]
      /\ \A q \in Request : step'[q] # "done" =>
           client'[q] = client[q] /\ named'[q] = named[q] /\ found'[q] = found[q]
  BY Forgetting DEF DrawAddress
<1>4. /\ work' \in [Request -> Seq(Costing)]
      /\ work'[r] = Append(<<>>, "address")
      /\ drawing' \in [Request -> {Nothing} \cup Drawing]
      /\ \A q \in Request \ {r} : work'[q] = work[q] /\ drawing'[q] = drawing[q]
  BY <1>2, DrawsCost DEF DrawAddress
<1>5. CASE Goes(r, "reading") /\ UNCHANGED answer
  <2>1. step' = [step EXCEPT ![r] = "reading"] /\ answer' = answer
    BY <1>5 DEF Goes
  <2>2. RequestsTyping' /\ step' \in [Request -> Steps] /\ step'[r] = "reading"
    BY <1>1, <1>3, <1>4, <2>1 DEF RequestsTyping, Steps
  <2>3. PathInv(r)' /\ AnswersRight(r)
    <3>1. work'[r] = <<"address">>
      BY <1>4
    <3> QED  BY <1>2, <2>1, <2>2, <3>1 DEF PathInv, AnswersRight
  <2>4. OthersStand(r)
    BY <1>1, <1>3, <1>4, <2>1 DEF OthersStand
  <2> QED  BY <2>2, <2>3, <2>4 DEF PathStep
<1>6. CASE Answered(r, "rate_limited")
  <2>1. step' = [step EXCEPT ![r] = "done"] /\ answer' = [answer EXCEPT ![r] = "rate_limited"]
    BY <1>6 DEF Answered, Goes
  <2>2. /\ RequestsTyping' /\ step' \in [Request -> Steps] /\ step'[r] = "done"
        /\ answer'[r] = "rate_limited"
    BY <1>1, <1>3, <1>4, <2>1 DEF RequestsTyping, Steps, Answers
  <2>3. PathInv(r)' /\ AnswersRight(r)
    BY <2>2 DEF PathInv, AnswersRight
  <2>4. OthersStand(r)
    BY <1>1, <1>3, <1>4, <2>1 DEF OthersStand, RequestsTyping
  <2> QED  BY <2>2, <2>3, <2>4 DEF PathStep
<1> QED  BY <1>5, <1>6 DEF DrawAddress

LEMMA SubmittingKeepsPath ==
  ASSUME TypeOK, PathsInv, BoundsAssumption, NEW r \in Request,
         NEW identifier \in Identifier, NEW password \in Password, Submit(r, identifier, password)
  PROVE  PathStep(r) /\ step' \in [Request -> Steps]
<1> DEFINE n == [identifier |-> identifier, password |-> password]
           d == [bucket |-> <<"account", identifier>>, observedAt |-> clock]
<1>1. RequestsTyping /\ step \in [Request -> Steps]
  BY TypesOfRequests
<1>2. PathInv(r) /\ step[r] = "reading"
  BY DEF PathsInv, Submit
<1>3. /\ named' = [named EXCEPT ![r] = n] /\ drawing' = [drawing EXCEPT ![r] = d]
      /\ step' = [step EXCEPT ![r] = "account"]
      /\ UNCHANGED <<client, found, answer, work>>
  BY DEF Submit, Observe, Goes
<1>4. n \in Submission /\ n.identifier = identifier
  BY DEF Submission
<1>5. d \in Drawing /\ d.bucket = <<"account", identifier>>
  <2>1. <<"account", identifier>> \in Bucket
    BY DEF Bucket, Drawer
  <2>2. clock \in -MaxBehind .. MaxTime
    <3>1. /\ time \in 0 .. MaxTime /\ behind \in 0 .. MaxBehind
          /\ MaxTime \in Nat /\ MaxBehind \in Nat
      BY DEF TypeOK, BoundsAssumption
    <3> QED  BY <3>1 DEF clock
  <2> QED  BY <2>1, <2>2 DEF Drawing
<1> HIDE DEF n, d
<1>6. RequestsTyping'
  BY <1>1, <1>3, <1>4, <1>5 DEF RequestsTyping
<1>7. /\ step'[r] = "account" /\ step' \in [Request -> Steps]
      /\ named'[r] = n /\ drawing'[r] = d /\ answer'[r] = answer[r] /\ work'[r] = work[r]
  BY <1>1, <1>3 DEF RequestsTyping, Steps
<1>8. PathInv(r)' /\ AnswersRight(r)
  BY <1>2, <1>4, <1>5, <1>7 DEF PathInv, AnswersRight, DrawsFor
<1>9. OthersStand(r)
  BY <1>1, <1>3 DEF OthersStand, RequestsTyping
<1> QED  BY <1>6, <1>7, <1>8, <1>9 DEF PathStep

LEMMA DrawingForTheAccountKeepsPath ==
  ASSUME TypeOK, PathsInv, BoundsAssumption, NEW r \in Request, DrawAccount(r)
  PROVE  PathStep(r) /\ step' \in [Request -> Steps]
<1>1. RequestsTyping /\ step \in [Request -> Steps]
  BY TypesOfRequests
<1>2. /\ step[r] = "account" /\ answer[r] = "none" /\ work[r] = <<"address">>
      /\ named[r] \in Submission /\ DrawsFor(r, "account", named[r].identifier)
  BY DEF PathsInv, PathInv, DrawAccount
<1>3. /\ client' \in [Request -> Client \cup {Nothing}]
      /\ named' \in [Request -> {Nothing} \cup Submission]
      /\ found' \in [Request -> Kind \cup {Nothing}]
      /\ \A q \in Request : step'[q] # "done" =>
           client'[q] = client[q] /\ named'[q] = named[q] /\ found'[q] = found[q]
  BY Forgetting DEF DrawAccount
<1>4. /\ work' \in [Request -> Seq(Costing)]
      /\ work'[r] = Append(<<"address">>, "account")
      /\ drawing' \in [Request -> {Nothing} \cup Drawing]
      /\ \A q \in Request \ {r} : work'[q] = work[q] /\ drawing'[q] = drawing[q]
  BY <1>2, DrawsCost DEF DrawAccount
<1>5. work'[r] = <<"address", "account">>
  BY <1>4, CostsInOrder
<1>6. ASSUME NEW with \in {"rate_limited", "invalid_credentials"}, Answered(r, with),
             with = "invalid_credentials" => named[r].password = "unusable"
      PROVE  PathStep(r) /\ step' \in [Request -> Steps]
  <2>1. step' = [step EXCEPT ![r] = "done"] /\ answer' = [answer EXCEPT ![r] = with]
    BY <1>6 DEF Answered, Goes
  <2>2. /\ RequestsTyping' /\ step' \in [Request -> Steps] /\ step'[r] = "done"
        /\ answer'[r] = with
    BY <1>1, <1>3, <1>4, <2>1 DEF RequestsTyping, Steps, Answers
  <2>3. PathInv(r)' /\ AnswersRight(r)
    BY <1>5, <1>6, <2>2 DEF PathInv, AnswersRight
  <2>4. OthersStand(r)
    BY <1>1, <1>3, <1>4, <2>1 DEF OthersStand, RequestsTyping
  <2> QED  BY <2>2, <2>3, <2>4 DEF PathStep
<1>7. CASE Answered(r, "rate_limited")
  BY <1>6, <1>7
<1>8. CASE named[r].password = "unusable" /\ Answered(r, VisibleCode("password_mismatch"))
  <2>1. VisibleCode("password_mismatch") = "invalid_credentials"
    BY DEF VisibleCode
  <2> QED  BY <1>6, <1>8, <2>1
<1>9. CASE named[r].password # "unusable" /\ Goes(r, "checking") /\ UNCHANGED answer
  <2>1. step' = [step EXCEPT ![r] = "checking"] /\ answer' = answer
    BY <1>9 DEF Goes
  <2>2. RequestsTyping' /\ step' \in [Request -> Steps] /\ step'[r] = "checking"
    BY <1>1, <1>3, <1>4, <2>1 DEF RequestsTyping, Steps
  <2>3. named'[r] = named[r]
    BY <1>3, <2>2
  <2>4. PathInv(r)' /\ AnswersRight(r)
    BY <1>2, <1>5, <1>9, <2>1, <2>2, <2>3 DEF PathInv, AnswersRight
  <2>5. OthersStand(r)
    BY <1>1, <1>3, <1>4, <2>1 DEF OthersStand
  <2> QED  BY <2>2, <2>4, <2>5 DEF PathStep
<1> QED  BY <1>7, <1>8, <1>9 DEF DrawAccount

LEMMA CheckingKeepsPath ==
  ASSUME TypeOK, PathsInv, NEW r \in Request, Check(r)
  PROVE  PathStep(r)
<1>1. RequestsTyping /\ step \in [Request -> Steps]
  BY TypesOfRequests
<1>2. /\ step[r] = "checking" /\ answer[r] = "none" /\ work[r] = <<"address", "account">>
      /\ named[r] \in Submission /\ named[r].password # "unusable"
  BY DEF PathsInv, PathInv, Check
<1> DEFINE kind == account[named[r].identifier]
<1>3. kind \in Kind
  BY <1>2 DEF TypeOK, Submission
<1> HIDE DEF kind
<1>4. /\ found' = [found EXCEPT ![r] = kind] /\ Costs(r, "check")
      /\ UNCHANGED <<client, drawing, named, answer>>
  BY DEF Check, kind
<1>5. PICK to \in {"queued", "deriving"} : step' = [step EXCEPT ![r] = to]
  BY DEF Check, Acquire, Goes
<1>6. /\ work' \in [Request -> Seq(Costing)]
      /\ work'[r] = Append(<<"address", "account">>, "check")
      /\ \A q \in Request \ {r} : work'[q] = work[q]
  BY <1>1, <1>2, <1>4, Costlier DEF RequestsTyping, Costing
<1>7. work'[r] = <<"address", "account", "check">>
  BY <1>6, CostsInOrder
<1>8. RequestsTyping'
  BY <1>1, <1>3, <1>4, <1>6 DEF RequestsTyping
<1>9. /\ step'[r] = to /\ named'[r] = named[r] /\ found'[r] = kind /\ answer'[r] = answer[r]
  BY <1>1, <1>4, <1>5 DEF RequestsTyping
<1>10. PathInv(r)' /\ AnswersRight(r)
  BY <1>2, <1>3, <1>7, <1>9 DEF PathInv, AnswersRight
<1>11. OthersStand(r)
  BY <1>1, <1>4, <1>5, <1>6 DEF OthersStand, RequestsTyping
<1> QED  BY <1>8, <1>10, <1>11 DEF PathStep

\* A verdict on a usable password opens only a current or outdated credential,
\* and to the right password; every answer says so alike.
LEMMA OutcomesAreRight ==
  ASSUME NEW kind \in Kind, NEW password
  PROVE  LET outcome == Outcome(kind, Verdict(kind, password))
         IN  /\ outcome \in {"signed_in", "invalid_credentials"}
             /\ outcome = "signed_in" => password = "right" /\ kind \in {"current", "outdated"}
<1> DEFINE verdict == Verdict(kind, password)
           outcome == Outcome(kind, verdict)
<1>1. /\ verdict \in {"user_not_found", "no_password_credential", "legacy_scheme_rejected",
                      "password_mismatch", "verified"}
      /\ verdict = "verified" =>
           password = "right" /\ kind \in {"disabled", "disabledOutdated", "current", "outdated"}
  <2>1. CASE kind \in {"unknown", "broken", "bare", "foreign", "copied"}
    BY <2>1 DEF Verdict
  <2>2. CASE kind \in {"disabled", "disabledOutdated", "current", "outdated"}
    <3>1. verdict = IF password # "right" THEN "password_mismatch" ELSE "verified"
      BY <2>2 DEF Verdict
    <3> QED  BY <2>2, <3>1
  <2> QED  BY <2>1, <2>2 DEF Kind, Outdated
<1> HIDE DEF verdict
<1>2. \A reason \in {"user_not_found", "no_password_credential", "legacy_scheme_rejected",
                      "password_mismatch", "user_disabled_on_sign_in"} :
        VisibleCode(reason) = "invalid_credentials"
  BY DEF VisibleCode
<1>3. CASE verdict # "verified"
  <2>1. /\ VisibleCode(verdict) = "invalid_credentials"
        /\ VisibleCode("user_disabled_on_sign_in") = "invalid_credentials"
    BY <1>1, <1>2, <1>3
  <2>2. outcome = "invalid_credentials"
    <3>1. CASE kind \in {"disabled", "disabledOutdated"}
      BY <1>3, <2>1, <3>1 DEF Outcome
    <3>2. CASE kind \notin {"disabled", "disabledOutdated"}
      BY <1>3, <2>1, <3>2 DEF Outcome
    <3> QED  BY <3>1, <3>2
  <2> QED  BY <2>2 DEF verdict
<1>4. CASE verdict = "verified"
  <2>1. CASE kind \in {"disabled", "disabledOutdated"}
    <3>1. outcome = VisibleCode("user_disabled_on_sign_in")
      BY <1>4, <2>1 DEF Outcome
    <3> QED  BY <1>2, <3>1 DEF verdict
  <2>2. CASE kind \in {"current", "outdated"}
    <3>1. outcome = "signed_in"
      BY <1>4, <2>2 DEF Outcome
    <3> QED  BY <1>1, <1>4, <2>2, <3>1 DEF verdict
  <2> QED  BY <1>1, <1>4, <2>1, <2>2
<1> QED  BY <1>3, <1>4

\* The step of another request, as the semaphore leaves it.
LEMMA LeavingLetsOthersStand ==
  ASSUME TypeOK, PlacesInv, NEW r \in Request, step[r] = "deriving",
         NEW to \in Steps \ {"queued", "deriving"}, NEW with \in Answers, Leave(r, to, with),
         ForgetTheDone, UNCHANGED drawing, \A q \in Request \ {r} : work'[q] = work[q]
  PROVE  OthersStand(r) /\ answer' \in [Request -> Answers]
<1>1. /\ step'[r] = to
      /\ \A q \in Request \ {r} :
           /\ step'[q] = step[q] \/ (step[q] = "queued" /\ step'[q] \in {"deriving", "done"})
           /\ \/ answer'[q] = answer[q] /\ (step'[q] = "done" => (step[q] = "done" \/ answer[q] # "none"))
              \/ /\ step[q] = "queued" /\ answer[q] = "none"
                 /\ answer'[q] = "rate_limited" /\ step'[q] = "done"
      /\ answer'[r] = with
      /\ answer' = [q \in Request |-> answer'[q]]
  BY LeavingKeepsPlaces
<1>2. \A q \in Request : step'[q] # "done" =>
        client'[q] = client[q] /\ named'[q] = named[q] /\ found'[q] = found[q]
  BY Forgetting
<1>3. OthersStand(r)
  <2>1. ASSUME NEW q \in Request \ {r}
        PROVE  \/ step'[q] = step[q] /\ answer'[q] = answer[q]
               \/ step[q] = "queued" /\ step'[q] = "deriving" /\ answer'[q] = answer[q]
               \/ step[q] = "queued" /\ step'[q] = "done" /\ answer[q] # "none" /\ answer'[q] = answer[q]
               \/ step[q] = "queued" /\ step'[q] = "done" /\ answer[q] = "none" /\ answer'[q] = "rate_limited"
    BY <1>1
  <2> QED  BY <1>2, <2>1 DEF OthersStand
<1>4. \A q \in Request : answer'[q] \in Answers
  BY <1>1, TypesOfRequests DEF RequestsTyping, Answers
<1> QED  BY <1>1, <1>3, <1>4

LEMMA DerivingKeepsPath ==
  ASSUME TypeOK, PlacesInv, PathsInv, NEW r \in Request, Derive(r)
  PROVE  PathStep(r)
<1> DEFINE verdict == Verdict(found[r], named[r].password)
           rehash == verdict = "verified" /\ found[r] \in Outdated
           to == IF rehash THEN "answered" ELSE "done"
           with == Outcome(found[r], verdict)
<1>1. RequestsTyping /\ step \in [Request -> Steps]
  BY TypesOfRequests
<1>2. /\ step[r] = "deriving" /\ answer[r] = "none"
      /\ work[r] = <<"address", "account", "check">>
      /\ named[r] \in Submission /\ named[r].password # "unusable"
      /\ found[r] \in Kind
  BY DEF PathsInv, PathInv, Derive
<1>3. /\ Leave(r, to, with)
      /\ Costs(r, "derive") /\ ForgetTheDone /\ UNCHANGED drawing
  BY DEF Derive
<1>4. /\ with \in {"signed_in", "invalid_credentials"}
      /\ with = "signed_in" => named[r].password = "right" /\ found[r] \in {"current", "outdated"}
  BY <1>2, OutcomesAreRight
<1>5. to \in {"answered", "done"}
  OBVIOUS
<1> HIDE DEF to, with
<1>6. to \in Steps \ {"queued", "deriving"} /\ with \in Answers
  BY <1>4, <1>5 DEF Steps, Answers
<1>7. /\ work' \in [Request -> Seq(Costing)]
      /\ work'[r] = Append(<<"address", "account", "check">>, "derive")
      /\ \A q \in Request \ {r} : work'[q] = work[q]
  BY <1>1, <1>2, <1>3, Costlier DEF RequestsTyping, Costing
<1>8. work'[r] = <<"address", "account", "check", "derive">>
  BY <1>7, CostsInOrder
<1>9. OthersStand(r) /\ answer' \in [Request -> Answers]
  BY <1>2, <1>3, <1>6, <1>7, LeavingLetsOthersStand
<1>10. step'[r] = to /\ answer'[r] = with
  BY <1>2, <1>3, <1>6, LeavingKeepsPlaces
<1>11. RequestsTyping'
  BY <1>1, <1>3, <1>7, <1>9, Forgetting DEF RequestsTyping
<1>12. PathInv(r)'
  BY <1>4, <1>5, <1>10 DEF PathInv
<1>13. AnswersRight(r)
  BY <1>2, <1>4, <1>8, <1>10 DEF AnswersRight
<1> QED  BY <1>9, <1>11, <1>12, <1>13 DEF PathStep

LEMMA RehashingKeepsPath ==
  ASSUME TypeOK, PlacesInv, NEW r \in Request, Rehash(r)
  PROVE  PathStep(r)
<1>1. RequestsTyping /\ step \in [Request -> Steps]
  BY TypesOfRequests
<1>2. /\ step[r] = "deriving" /\ Leave(r, "resealing", answer[r])
      /\ ForgetTheDone /\ UNCHANGED <<drawing, work>>
  BY DEF Rehash
<1>3. "resealing" \in Steps \ {"queued", "deriving"} /\ answer[r] \in Answers
  BY <1>1 DEF Steps, RequestsTyping
<1>4. OthersStand(r) /\ answer' \in [Request -> Answers]
  BY <1>2, <1>3, LeavingLetsOthersStand
<1>5. step'[r] = "resealing" /\ answer'[r] = answer[r]
  BY <1>2, <1>3, LeavingKeepsPlaces
<1>6. RequestsTyping'
  BY <1>1, <1>2, <1>4, Forgetting DEF RequestsTyping
<1>7. PathInv(r)' /\ AnswersRight(r)
  BY <1>5 DEF PathInv, AnswersRight
<1> QED  BY <1>4, <1>6, <1>7 DEF PathStep

LEMMA GivingUpKeepsPath ==
  ASSUME TypeOK, PlacesInv, NEW r \in Request, WaitLimitPasses(r)
  PROVE  PathStep(r)
<1>1. RequestsTyping /\ step \in [Request -> Steps]
  BY TypesOfRequests
<1>2. step' = [step EXCEPT ![r] = "done"] /\ step[r] = "queued"
  BY GivingUpKeepsPlaces
<1>3. /\ answer' = IF answer[r] = "none" THEN [answer EXCEPT ![r] = "rate_limited"] ELSE answer
      /\ ForgetTheDone /\ UNCHANGED <<drawing, work>>
  BY DEF WaitLimitPasses
<1>4. /\ client' \in [Request -> Client \cup {Nothing}]
      /\ named' \in [Request -> {Nothing} \cup Submission]
      /\ found' \in [Request -> Kind \cup {Nothing}]
      /\ \A q \in Request : step'[q] # "done" =>
           client'[q] = client[q] /\ named'[q] = named[q] /\ found'[q] = found[q]
  BY <1>3, Forgetting
<1>5. RequestsTyping'
  BY <1>1, <1>3, <1>4 DEF RequestsTyping, Answers
<1>6. step'[r] = "done" /\ (answer'[r] # answer[r] => answer'[r] = "rate_limited")
  BY <1>1, <1>2, <1>3 DEF RequestsTyping
<1>7. PathInv(r)' /\ AnswersRight(r)
  BY <1>6 DEF PathInv, AnswersRight
<1>8. OthersStand(r)
  BY <1>1, <1>2, <1>3, <1>4 DEF OthersStand, RequestsTyping
<1> QED  BY <1>5, <1>7, <1>8 DEF PathStep

LEMMA StartingAfterAnswerKeepsPath ==
  ASSUME TypeOK, PathsInv, NEW r \in Request, StartAfterAnswer(r)
  PROVE  PathStep(r)
<1>1. RequestsTyping /\ step \in [Request -> Steps]
  BY TypesOfRequests
<1>2. step[r] = "answered" /\ answer[r] # "none"
  BY DEF PathsInv, PathInv, StartAfterAnswer
<1>3. UNCHANGED <<client, drawing, named, found, answer, work>>
  BY DEF StartAfterAnswer
<1>4. PICK to \in {"queued", "deriving"} : step' = [step EXCEPT ![r] = to]
  BY DEF StartAfterAnswer, Acquire, Goes
<1>5. RequestsTyping'
  BY <1>1, <1>3 DEF RequestsTyping
<1>6. PathInv(r)' /\ AnswersRight(r)
  BY <1>1, <1>2, <1>3, <1>4 DEF PathInv, AnswersRight
<1>7. OthersStand(r)
  BY <1>1, <1>3, <1>4 DEF OthersStand
<1> QED  BY <1>5, <1>6, <1>7 DEF PathStep

LEMMA ResealingKeepsPath ==
  ASSUME TypeOK, NEW r \in Request, Reseal(r)
  PROVE  PathStep(r) /\ step' \in [Request -> Steps] /\ account' \in [Identifier -> Kind]
<1>1. RequestsTyping /\ step \in [Request -> Steps]
  BY TypesOfRequests
<1>2. step' = [step EXCEPT ![r] = "done"] /\ ForgetTheDone /\ UNCHANGED <<drawing, answer, work>>
  BY DEF Reseal, Goes
<1>3. /\ client' \in [Request -> Client \cup {Nothing}]
      /\ named' \in [Request -> {Nothing} \cup Submission]
      /\ found' \in [Request -> Kind \cup {Nothing}]
      /\ \A q \in Request : step'[q] # "done" =>
           client'[q] = client[q] /\ named'[q] = named[q] /\ found'[q] = found[q]
  BY <1>2, Forgetting
<1>4. RequestsTyping' /\ step'[r] = "done" /\ step' \in [Request -> Steps]
  BY <1>1, <1>2, <1>3 DEF RequestsTyping, Steps
<1>5. PathInv(r)' /\ AnswersRight(r)
  BY <1>2, <1>4 DEF PathInv, AnswersRight
<1>6. OthersStand(r)
  BY <1>1, <1>2, <1>3 DEF OthersStand
<1>7. account' \in [Identifier -> Kind]
  <2>1. account \in [Identifier -> Kind] /\ {"current", "disabled"} \subseteq Kind
    BY DEF TypeOK, Kind
  <2> QED  BY <2>1 DEF Reseal
<1> QED  BY <1>4, <1>5, <1>6, <1>7 DEF PathStep

\* With r, all keep their path.
LEMMA AllKeepTheirPath ==
  ASSUME TypeOK, PathsInv, NEW r \in Request, PathStep(r)
  PROVE  PathsInv' /\ \A q \in Request : AnswersRight(q)
<1>1. \A q \in Request \ {r} : PathInv(q)' /\ AnswersRight(q)
  BY OthersKeepTheirPath, OthersAnswerRight DEF PathStep
<1>2. PathInv(r)' /\ AnswersRight(r)
  BY DEF PathStep
<1>3. \A q \in Request : PathInv(q)' /\ AnswersRight(q)
  BY <1>1, <1>2
<1> QED  BY <1>3 DEF PathsInv

\* A step of the clocks or of the sweep is on nobody's path.
LEMMA PathsUntouched ==
  ASSUME TypeOK, PathsInv, UNCHANGED <<requests, work>>
  PROVE  /\ RequestsTyping' /\ step' \in [Request -> Steps]
         /\ PathsInv' /\ \A q \in Request : AnswersRight(q)
<1>1. UNCHANGED <<step, client, drawing, named, found, answer, work>>
  BY DEF requests
<1>2. RequestsTyping' /\ step' \in [Request -> Steps]
  BY <1>1, TypesOfRequests DEF RequestsTyping
<1>3. \A q \in Request : PathInv(q)' <=> PathInv(q)
  BY <1>1 DEF PathInv, DrawsFor
<1>4. \A q \in Request : AnswersRight(q)
  BY <1>1 DEF AnswersRight
<1> QED  BY <1>2, <1>3, <1>4 DEF PathsInv

(***************************************************************************)
(* The buckets.                                                            *)
(***************************************************************************)

LEMMA MaxOfTwo ==
  ASSUME NEW a \in Int, NEW b \in Int
  PROVE  Max({a, b}) = IF a >= b THEN a ELSE b
<1> DEFINE m == IF a >= b THEN a ELSE b
<1>1. m \in {a, b} /\ \A y \in {a, b} : m >= y
  OBVIOUS
<1>2. \A x \in {a, b} : (\A y \in {a, b} : x >= y) => x = m
  OBVIOUS
<1> QED  BY <1>1, <1>2 DEF Max

LEMMA MinOfTwo ==
  ASSUME NEW a \in Int, NEW b \in Int
  PROVE  Min({a, b}) = IF a <= b THEN a ELSE b
<1> DEFINE m == IF a <= b THEN a ELSE b
<1>1. m \in {a, b} /\ \A y \in {a, b} : m <= y
  OBVIOUS
<1>2. \A x \in {a, b} : (\A y \in {a, b} : x <= y) => x = m
  OBVIOUS
<1> QED  BY <1>1, <1>2 DEF Min

\* Division that rounds up.
LEMMA RoundedUp ==
  ASSUME NEW c \in Nat, NEW n \in Nat \ {0}
  PROVE  (c + n - 1) \div n \in Nat /\ ((c + n - 1) \div n) * n >= c
<1> DEFINE a == c + n - 1
           q == a \div n
           m == a % n
<1>1. a \in Nat /\ n \in Nat /\ n > 0
  OBVIOUS
<1> HIDE DEF a
<1>2. q \in Nat /\ m \in 0 .. n - 1 /\ a = n * q + m
  BY <1>1
<1> HIDE DEF q, m
<1>3. q * n = n * q
  BY <1>1, <1>2
<1> DEFINE p == n * q
<1>4. p \in Int
  BY <1>1, <1>2
<1> HIDE DEF p
<1>5. a = p + m
  BY <1>2 DEF p
<1>6. p >= c
  BY <1>1, <1>2, <1>4, <1>5 DEF a
<1> QED  BY <1>2, <1>3, <1>6 DEF p, q, a

LEMMA Monotone ==
  ASSUME NEW a \in Nat, NEW b \in Nat, a >= b, NEW n \in Nat
  PROVE  a * n >= b * n /\ a * n \in Nat /\ b * n \in Nat
<1>1. a - b \in Nat
  OBVIOUS
<1>2. (a - b) * n \in Nat /\ a * n \in Nat /\ b * n \in Nat
  BY <1>1
<1>3. (a - b) * n = a * n - b * n
  OBVIOUS
<1> QED  BY <1>2, <1>3

\* A row outlives its refill unless that takes longer than a row may live, and
\* a wait is long enough for a token.
LEMMA LifetimesRefill ==
  ASSUME BoundsAssumption
  PROVE  BucketLifetime \in Nat /\ (RefillsInALifetime => BucketLifetime * Refill >= Capacity)
<1> DEFINE q == (Capacity + Refill - 1) \div Refill
<1>1. /\ Capacity \in Nat /\ Refill \in Nat \ {0}
      /\ ShortestLifetime \in Nat /\ LongestLifetime \in Nat
  BY DEF BoundsAssumption
<1>2. q \in Nat /\ q * Refill >= Capacity
  BY <1>1, RoundedUp
<1>3. CASE ~RefillsInALifetime
  BY <1>1, <1>3 DEF BucketLifetime
<1>4. CASE RefillsInALifetime
  <2>1. BucketLifetime = Max({ShortestLifetime, q})
    BY <1>4 DEF BucketLifetime
  <2> HIDE DEF q
  <2>2. BucketLifetime \in Nat /\ BucketLifetime >= q
    BY <1>1, <1>2, <2>1, MaxOfTwo
  <2>3. BucketLifetime * Refill >= q * Refill /\ BucketLifetime * Refill \in Nat /\ q * Refill \in Nat
    BY <1>1, <1>2, <2>2, Monotone
  <2> QED  BY <1>1, <1>2, <2>2, <2>3
<1> QED  BY <1>3, <1>4

LEMMA WaitsRefill ==
  ASSUME BoundsAssumption
  PROVE  /\ SecondsUntilNextToken(-1) \in Nat /\ SecondsUntilNextToken(-1) >= 1
         /\ SecondsUntilNextToken(-1) * Refill >= 2
<1> DEFINE q == (2 + Refill - 1) \div Refill
           wait == SecondsUntilNextToken(-1)
<1>1. Refill \in Nat \ {0}
  BY DEF BoundsAssumption
<1>2. q \in Nat /\ q * Refill >= 2
  BY <1>1, RoundedUp
<1>3. wait = Max({1, q})
  <2>1. 1 - (-1) = 2
    OBVIOUS
  <2> QED  BY <2>1 DEF SecondsUntilNextToken
<1> HIDE DEF q, wait
<1>4. wait \in Nat /\ wait >= q /\ wait >= 1
  BY <1>2, <1>3, MaxOfTwo
<1>5. wait * Refill >= q * Refill /\ wait * Refill \in Nat /\ q * Refill \in Nat
  BY <1>1, <1>2, <1>4, Monotone
<1> QED  BY <1>1, <1>2, <1>4, <1>5 DEF wait

BucketRow == [tokens : Int, updated : Int, expires : Int]
MeterRow == [excess : Nat, at : Int, retryAt : Int \cup {Nothing}]

BucketsStep ==
    /\ bucket' \in [Bucket -> {NoRow} \cup BucketRow]
    /\ meter' \in [Bucket -> MeterRow]
    /\ BucketsInv'
    /\ WaitsAreEnough

LEMMA TypesOfBuckets ==
  ASSUME TypeOK
  PROVE  bucket \in [Bucket -> {NoRow} \cup BucketRow] /\ meter \in [Bucket -> MeterRow]
BY DEF TypeOK, BucketRow, MeterRow

\* What the refill gives by a time, from the time of the row.
RefilledBy(at, since) == Max({0, at - since}) * Refill

LEMMA RefillsAreNatural ==
  ASSUME BoundsAssumption, NEW at \in Int, NEW since \in Int
  PROVE  /\ RefilledBy(at, since) \in Nat
         /\ \A n \in Nat : at >= since + n => RefilledBy(at, since) >= n * Refill
<1> DEFINE lag == Max({0, at - since})
<1>1. Refill \in Nat
  BY DEF BoundsAssumption
<1>2. lag \in Nat /\ lag >= at - since
  BY MaxOfTwo
<1> HIDE DEF lag
<1>3. lag * Refill \in Nat
  BY <1>1, <1>2
<1>4. ASSUME NEW n \in Nat, at >= since + n
      PROVE  lag * Refill >= n * Refill
  <2>1. lag >= n
    BY <1>2, <1>4
  <2> QED  BY <1>1, <1>2, <2>1, Monotone
<1> QED  BY <1>3, <1>4 DEF RefilledBy, lag

\* The level and the excess that a draw leaves, of what they were and the refill.
LEMMA LevelsOfADraw ==
  ASSUME NEW capacity \in Nat \ {0}, NEW excess \in Nat, NEW tokens \in -1 .. capacity - 1,
         NEW refill \in Nat
  PROVE  LET level == Min({capacity, Max({0, tokens + refill})})
             left == Max({0, excess - refill})
         IN  /\ level \in 0 .. capacity /\ left \in Nat
             /\ excess <= capacity /\ excess + tokens <= capacity
                  => left <= capacity /\ left + level <= capacity
             /\ refill >= 2 => level >= 1
<1> DEFINE above == Max({0, tokens + refill})
           level == Min({capacity, above})
           left == Max({0, excess - refill})
<1>1. above = IF 0 >= tokens + refill THEN 0 ELSE tokens + refill
  BY MaxOfTwo
<1>2. left = IF 0 >= excess - refill THEN 0 ELSE excess - refill
  BY MaxOfTwo
<1> HIDE DEF above
<1>5. above \in Int
  BY <1>1
<1>3. level = IF capacity <= above THEN capacity ELSE above
  BY <1>5, MinOfTwo
<1> HIDE DEF level, left
<1>4. /\ level \in 0 .. capacity /\ left \in Nat
      /\ excess <= capacity /\ excess + tokens <= capacity
           => left <= capacity /\ left + level <= capacity
      /\ refill >= 2 => level >= 1
  BY <1>1, <1>2, <1>3
<1> QED  BY <1>4 DEF level, left, above

\* One draw from the bucket of its drawer.
LEMMA DrawKeepsBuckets ==
  ASSUME BoundsAssumption, TypeOK, BucketsInv,
         NEW r \in Request, NEW kind, NEW drawer, DrawsFor(r, kind, drawer),
         NEW allowed \in BOOLEAN, Draw(r, drawer, allowed)
  PROVE  BucketsStep
<1> DEFINE b == <<kind, drawer>>
           at == drawing[r].observedAt
           old == bucket[b]
           m == meter[b]
           level == Drawn(old, at) + 1
           left == Max({0, m.excess - RefilledBy(at, m.at)})
           wait == SecondsUntilNextToken(-1)
           row == [tokens |-> level - 1, updated |-> at, expires |-> at + BucketLifetime]
           new == [excess |-> IF allowed THEN left + 1 ELSE left, at |-> at,
                   retryAt |-> IF allowed THEN Nothing ELSE at + wait]
<1>1. /\ Capacity \in Nat \ {0} /\ Refill \in Nat \ {0}
      /\ MaxBehind \in Nat /\ MaxTime \in Nat
      /\ NoRow \notin BucketRow
  BY DEF BoundsAssumption, BucketRow
<1>2. drawing[r] \in Drawing /\ drawing[r].bucket = b
  BY DEF DrawsFor
<1>3. at \in Int /\ b \in Bucket /\ <<b[1], drawer>> = b
  BY <1>1, <1>2 DEF Drawing
<1>4. /\ bucket \in [Bucket -> {NoRow} \cup BucketRow] /\ meter \in [Bucket -> MeterRow]
  BY TypesOfBuckets
<1>5. BucketInv(b)
  BY <1>3 DEF BucketsInv
<1>6. m \in MeterRow /\ old \in {NoRow} \cup BucketRow /\ m.excess \in Nat /\ m.at \in Int
  BY <1>3, <1>4 DEF MeterRow
<1>7. BucketLifetime \in Nat /\ wait \in Nat /\ wait >= 1 /\ wait * Refill >= 2
  BY LifetimesRefill, WaitsRefill
<1>8. /\ RefilledBy(at, m.at) \in Nat
      /\ \A n \in Nat : at >= m.at + n => RefilledBy(at, m.at) >= n * Refill
  BY <1>3, <1>6, RefillsAreNatural
<1>9. /\ level \in 0 .. Capacity /\ left \in Nat
      /\ RefillsInALifetime => left <= Capacity /\ left + level <= Capacity
      /\ m.retryAt # Nothing /\ at >= m.retryAt => level >= 1
  <2>1. CASE old = NoRow
    <3>1. level = Capacity
      BY <1>1, <2>1 DEF Drawn
    <3>2. (RefillsInALifetime => m.excess = 0) /\ m.retryAt = Nothing
      BY <1>5, <2>1 DEF BucketInv
    <3> DEFINE g == RefilledBy(at, m.at)
    <3>3. g \in Nat
      BY <1>8
    <3> HIDE DEF g
    <3>4. Max({0, 0 - g}) = 0
      <4>1. 0 - g \in Int /\ 0 >= 0 - g
        BY <3>3
      <4> QED  BY <4>1, MaxOfTwo
    <3>5. RefillsInALifetime => left = 0
      BY <3>2, <3>4 DEF g
    <3>6. left \in Nat
      <4> DEFINE kept == m.excess - g
      <4>1. kept \in Int
        BY <1>6, <3>3
      <4> HIDE DEF kept
      <4>2. Max({0, kept}) = IF 0 >= kept THEN 0 ELSE kept
        BY <4>1, MaxOfTwo
      <4>3. Max({0, kept}) \in Nat
        BY <4>1, <4>2
      <4> QED  BY <4>3 DEF kept, g
    <3> QED  BY <1>1, <3>1, <3>2, <3>5, <3>6
  <2>2. CASE old # NoRow
    <3> DEFINE g == RefilledBy(at, m.at)
    <3>1. /\ old.tokens \in -1 .. Capacity - 1 /\ m.at = old.updated
          /\ RefillsInALifetime => m.excess + old.tokens <= Capacity /\ m.excess <= Capacity
          /\ m.retryAt # Nothing => m.retryAt = m.at + wait
      BY <1>5, <2>2 DEF BucketInv
    <3> DEFINE top == Min({Capacity, Max({0, old.tokens + g})})
    <3>2. /\ top \in 0 .. Capacity /\ left \in Nat
          /\ RefillsInALifetime => left <= Capacity /\ left + top <= Capacity
          /\ g >= 2 => top >= 1
      BY <1>1, <1>6, <1>8, <3>1, LevelsOfADraw
    <3>5. Drawn(old, at) = top - 1
      BY <2>2, <3>1 DEF Drawn, RefilledBy
    <3> HIDE DEF top
    <3>6. level = top
      <4>1. (top - 1) + 1 = top
        BY <3>2
      <4> QED  BY <3>5, <4>1
    <3>3. /\ level \in 0 .. Capacity /\ left \in Nat
          /\ RefillsInALifetime => left <= Capacity /\ left + level <= Capacity
          /\ g >= 2 => level >= 1
      BY <3>2, <3>6
    <3>4. m.retryAt # Nothing /\ at >= m.retryAt => g >= 2
      <4> SUFFICES ASSUME m.retryAt # Nothing, at >= m.retryAt PROVE g >= 2
        OBVIOUS
      <4>1. at >= m.at + wait
        BY <3>1
      <4>2. g >= wait * Refill
        BY <1>7, <1>8, <4>1
      <4> DEFINE w == wait * Refill
      <4>3. g \in Nat /\ w \in Nat /\ w >= 2
        BY <1>1, <1>7, <1>8
      <4> HIDE DEF g, w
      <4>4. g >= w
        BY <4>2 DEF w
      <4> QED  BY <4>3, <4>4
    <3> QED  BY <3>3, <3>4
  <2> QED  BY <2>1, <2>2
<1>10. RowAfter(old, at) = row
  <2>1. Drawn(old, at) \in Int
    <3>1. CASE old = NoRow
      BY <1>1, <3>1 DEF Drawn
    <3>2. CASE old # NoRow
      <4> DEFINE g == Max({0, at - old.updated}) * Refill
                 above == Max({0, old.tokens + g})
      <4>1. old.tokens \in -1 .. Capacity - 1 /\ old.updated \in Int
        BY <1>5, <1>6, <3>2 DEF BucketInv, BucketRow
      <4>2. g \in Nat
        BY <1>3, <4>1, RefillsAreNatural DEF RefilledBy
      <4> HIDE DEF g
      <4>3. above \in Int
        <5> DEFINE refilled == old.tokens + g
        <5>1. refilled \in Int /\ 0 \in Int
          BY <1>1, <4>1, <4>2
        <5> HIDE DEF refilled
        <5>2. Max({0, refilled}) \in Int
          BY <5>1, MaxOfTwo
        <5> QED  BY <5>2 DEF refilled
      <4> HIDE DEF above
      <4>4. Min({Capacity, above}) \in Int
        <5>1. Capacity \in Int
          BY <1>1
        <5> QED  BY <4>3, <5>1, MinOfTwo
      <4> QED  BY <3>2, <4>4 DEF Drawn, above, g
    <3> QED  BY <3>1, <3>2
  <2>2. level - 1 = Drawn(old, at)
    BY <2>1
  <2> QED  BY <2>2 DEF RowAfter
<1> HIDE DEF level, left
<1>11. (allowed => level >= 1) /\ (~allowed => level = 0)
  <2>1. allowed = (row.tokens >= 0)
    BY <1>2, <1>10 DEF Draw
  <2>2. row.tokens = level - 1
    OBVIOUS
  <2> HIDE DEF row
  <2>3. CASE allowed
    <3>1. row.tokens >= 0
      BY <2>1, <2>3, Zenon
    <3> QED  BY <1>9, <2>2, <2>3, <3>1
  <2>4. CASE ~allowed
    <3>1. ~(row.tokens >= 0)
      BY <2>1, <2>4, Zenon
    <3> QED  BY <1>9, <2>2, <2>4, <3>1
  <2> QED  BY <2>3, <2>4
<1>12. bucket' = [bucket EXCEPT ![b] = row]
  BY <1>2, <1>10 DEF Draw
<1>13. meter' = [meter EXCEPT ![b] = new]
  <2>1. meter' = [meter EXCEPT ![b] = IF allowed THEN Metered(m, at, 1, 0)
                                      ELSE Metered(m, at, 0, SecondsUntilNextToken(row.tokens))]
    BY <1>2, <1>3, <1>10 DEF Draw
  <2>2. Metered(m, at, 1, 0) = [excess |-> left + 1, at |-> at, retryAt |-> Nothing]
    BY DEF Metered, left, RefilledBy
  <2>3. ~allowed => row.tokens = -1
    BY <1>9, <1>11
  <2>4. Metered(m, at, 0, wait) = [excess |-> left, at |-> at, retryAt |-> at + wait]
    <3>1. left + 0 = left /\ wait # 0
      BY <1>7, <1>9
    <3> HIDE DEF wait
    <3> QED  BY <3>1 DEF Metered, left, RefilledBy
  <2>5. CASE allowed
    BY <2>1, <2>2, <2>5
  <2>6. CASE ~allowed
    BY <2>1, <2>3, <2>4, <2>6
  <2> QED  BY <2>5, <2>6
<1>14. row \in BucketRow /\ row # NoRow
  BY <1>1, <1>3, <1>7, <1>9 DEF BucketRow
<1>15. new \in MeterRow
  BY <1>3, <1>7, <1>9 DEF MeterRow
<1>16. BucketInv(b)'
  <2>1. bucket'[b] = row /\ meter'[b] = new
    BY <1>3, <1>4, <1>12, <1>13
  <2>2. /\ row.tokens \in -1 .. Capacity - 1
        /\ RefillsInALifetime => new.excess <= Capacity /\ new.excess + row.tokens <= Capacity
    <3>1. CASE allowed
      BY <1>1, <1>9, <1>11, <3>1
    <3>2. CASE ~allowed
      BY <1>1, <1>9, <1>11, <3>2
    <3> QED  BY <3>1, <3>2
  <2>3. new.at = row.updated /\ row.expires = row.updated + BucketLifetime
    OBVIOUS
  <2>4. new.retryAt # Nothing => row.tokens = -1 /\ new.retryAt = new.at + wait
    <3>1. CASE allowed
      BY <3>1
    <3>2. CASE ~allowed
      <4>1. row.tokens = -1 /\ new.retryAt = at + wait /\ new.at = at
        BY <1>11, <3>2
      <4> QED  BY <4>1
    <3> QED  BY <3>1, <3>2
  <2> HIDE DEF row, new
  <2> QED  BY <1>14, <2>1, <2>2, <2>3, <2>4 DEF BucketInv
<1>17. m.retryAt # Nothing /\ new.at >= m.retryAt => new.retryAt = Nothing
  BY <1>9, <1>11
<1> HIDE DEF row, new, b
<1>18. \A c \in Bucket \ {b} : bucket'[c] = bucket[c] /\ meter'[c] = meter[c]
  BY <1>4, <1>12, <1>13
<1>19. BucketsInv'
  <2>1. \A c \in Bucket \ {b} : BucketInv(c)'
    BY <1>18 DEF BucketsInv, BucketInv
  <2> QED  BY <1>16, <2>1 DEF BucketsInv
<1>20. WaitsAreEnough
  <2>1. meter'[b] = new
    BY <1>3, <1>4, <1>13
  <2> QED  BY <1>17, <1>18, <2>1 DEF WaitsAreEnough
<1> QED  BY <1>3, <1>4, <1>12, <1>13, <1>14, <1>15, <1>19, <1>20 DEF BucketsStep

\* The sweep takes rows that are full by the database's clock.
LEMMA SweepingKeepsBuckets ==
  ASSUME BoundsAssumption, TypeOK, BucketsInv, NEW b \in Bucket, Sweep(b)
  PROVE  BucketsStep
<1> DEFINE m == meter[b]
           g == RefilledBy(time, m.at)
           kept == m.excess - g
           new == [excess |-> Max({0, kept}), at |-> time, retryAt |-> Nothing]
<1>1. /\ bucket \in [Bucket -> {NoRow} \cup BucketRow] /\ meter \in [Bucket -> MeterRow]
      /\ time \in Int /\ Refill \in Nat \ {0} /\ Capacity \in Nat
  <2>1. Refill \in Nat \ {0} /\ Capacity \in Nat /\ MaxTime \in Nat
    BY DEF BoundsAssumption
  <2>2. time \in Int
    BY <2>1 DEF TypeOK
  <2> QED  BY <2>1, <2>2, TypesOfBuckets
<1>2. m \in MeterRow /\ m.excess \in Nat /\ m.at \in Int
  BY <1>1 DEF MeterRow
<1>3. /\ RefillsInALifetime => m.excess <= Capacity
      /\ m.at + BucketLifetime <= time
  <2>1. BucketInv(b) /\ bucket[b] # NoRow /\ bucket[b].expires <= time
    BY DEF BucketsInv, Sweep
  <2> QED  BY <2>1 DEF BucketInv
<1>4. g \in Nat /\ g >= BucketLifetime * Refill
  BY <1>1, <1>2, <1>3, LifetimesRefill, RefillsAreNatural
<1>5. RefillsInALifetime => g >= Capacity
  <2> DEFINE p == BucketLifetime * Refill
  <2>1. p \in Int /\ (RefillsInALifetime => p >= Capacity)
    <3>1. BucketLifetime \in Int /\ Refill \in Int
      BY <1>1, LifetimesRefill
    <3> QED  BY <3>1, LifetimesRefill
  <2> HIDE DEF p, g
  <2>2. g >= p
    BY <1>4 DEF p
  <2> QED  BY <1>1, <1>4, <2>1, <2>2
<1> HIDE DEF g
<1>6. Max({0, kept}) \in Nat /\ (RefillsInALifetime => Max({0, kept}) = 0)
  <2>1. kept \in Int /\ (RefillsInALifetime => 0 >= kept)
    BY <1>1, <1>2, <1>3, <1>4, <1>5
  <2> HIDE DEF kept
  <2>2. Max({0, kept}) = IF 0 >= kept THEN 0 ELSE kept
    BY <2>1, MaxOfTwo
  <2> QED  BY <2>1, <2>2
<1>7. Metered(m, time, 0, 0) = new
  <2>1. Max({0, kept}) + 0 = Max({0, kept})
    BY <1>6
  <2> QED  BY <2>1 DEF Metered, kept, g, RefilledBy
<1>8. bucket' = [bucket EXCEPT ![b] = NoRow] /\ meter' = [meter EXCEPT ![b] = new]
  BY <1>7 DEF Sweep
<1>9. new \in MeterRow
  BY <1>1, <1>6 DEF MeterRow
<1>10. (RefillsInALifetime => new.excess = 0) /\ new.retryAt = Nothing
  BY <1>6
<1> HIDE DEF new
<1>11. bucket'[b] = NoRow /\ meter'[b] = new
  BY <1>1, <1>8
<1>12. \A c \in Bucket \ {b} : bucket'[c] = bucket[c] /\ meter'[c] = meter[c]
  BY <1>1, <1>8
<1>13. BucketInv(b)'
  <2>1. RefillsInALifetime => new.excess <= Capacity
    BY <1>1, <1>10
  <2> QED  BY <1>10, <1>11, <2>1 DEF BucketInv
<1>14. BucketsInv'
  <2>1. \A c \in Bucket \ {b} : BucketInv(c)'
    BY <1>12 DEF BucketsInv, BucketInv
  <2> QED  BY <1>13, <2>1 DEF BucketsInv
<1>15. WaitsAreEnough
  BY <1>10, <1>11, <1>12 DEF WaitsAreEnough
<1> QED  BY <1>1, <1>8, <1>9, <1>14, <1>15 DEF BucketsStep

\* Other steps leave the buckets alone.
LEMMA BucketsUntouched ==
  ASSUME TypeOK, BucketsInv, UNCHANGED limits
  PROVE  BucketsStep
<1>1. bucket' = bucket /\ meter' = meter
  BY DEF limits
<1>2. \A b \in Bucket : BucketInv(b)' <=> BucketInv(b)
  BY <1>1 DEF BucketInv
<1>3. WaitsAreEnough
  BY <1>1 DEF WaitsAreEnough
<1> QED  BY <1>1, <1>2, <1>3, TypesOfBuckets DEF BucketsStep, BucketsInv

(***************************************************************************)
(* The alarms.                                                             *)
(***************************************************************************)

\* No more than those that match them one by one.
LEMMA MatchedByNumber ==
  ASSUME NEW A, NEW B, IsFiniteSet(B),
         \A d, e \in A : d.nth = e.nth => d = e,
         \A d \in A : \E t \in B : t.nth = d.nth
  PROVE  IsFiniteSet(A) /\ Cardinality(A) <= Cardinality(B)
<1> DEFINE match == [d \in A |-> CHOOSE t \in B : t.nth = d.nth]
<1>1. ASSUME NEW d \in A PROVE match[d] \in B /\ match[d].nth = d.nth
  OBVIOUS
<1>2. match \in [A -> B]
  BY <1>1
<1> HIDE DEF match
<1>3. match \in Injection(A, B)
  BY <1>1, <1>2 DEF Injection, IsInjective
<1> QED  BY <1>3, FS_Injection

AlarmsStep ==
    /\ alarms' \in [delivered : SUBSET Delivery, recent : SUBSET [at : Int, nth : Nat],
                    suppressed : Nat, aggregateWindowStart : Int, deliveries : Nat]
    /\ untold' \in Int /\ told' \subseteq Delivery
    /\ AlarmInv'

\* The parts of the memory, by type.
LEMMA TypesOfAlarms ==
  ASSUME BoundsAssumption, TypeOK
  PROVE  /\ time \in Int /\ behind \in Nat /\ clock \in Int /\ Window \in Nat \ {0}
         /\ DeliveriesPerWindow \in Nat \ {0} /\ KeysHeld \in Nat /\ DeliveriesPerWindow <= KeysHeld
         /\ alarms.suppressed \in Nat /\ alarms.deliveries \in Nat
         /\ alarms.aggregateWindowStart \in Int
         /\ alarms.delivered \subseteq Delivery
         /\ \A t \in alarms.recent : t \in [at : Int, nth : Nat] /\ t.at \in Int /\ t.nth \in Nat
         /\ told \subseteq Delivery
         /\ \A d \in Delivery : d.at \in Int /\ d.nth \in Nat /\ d.key \in Alarm
         /\ untold \in Int
         /\ alarms \in [delivered : SUBSET Delivery, recent : SUBSET [at : Int, nth : Nat],
                        suppressed : Nat, aggregateWindowStart : Int, deliveries : Nat]
<1>1. /\ Window \in Nat \ {0} /\ DeliveriesPerWindow \in Nat \ {0}
      /\ KeysHeld \in Nat /\ DeliveriesPerWindow <= KeysHeld
      /\ MaxTime \in Nat /\ MaxBehind \in Nat
  BY DEF BoundsAssumption
<1>2. time \in Int /\ behind \in Nat /\ clock \in Int
  BY <1>1 DEF TypeOK, clock
<1>3. \A d \in Delivery : d.at \in Int /\ d.nth \in Nat /\ d.key \in Alarm
  BY DEF Delivery
<1>4. alarms \in [delivered : SUBSET Delivery, recent : SUBSET [at : Int, nth : Nat],
                  suppressed : Nat, aggregateWindowStart : Int, deliveries : Nat]
      /\ told \subseteq Delivery /\ untold \in Int
  BY DEF TypeOK
<1>5. /\ alarms.suppressed \in Nat /\ alarms.deliveries \in Nat
      /\ alarms.aggregateWindowStart \in Int
      /\ alarms.delivered \subseteq Delivery /\ alarms.recent \subseteq [at : Int, nth : Nat]
  BY <1>4
<1>6. \A t \in [at : Int, nth : Nat] : t.at \in Int /\ t.nth \in Nat
  OBVIOUS
<1> QED  BY <1>1, <1>2, <1>3, <1>4, <1>5, <1>6

\* What of the memory is in the window by the clock of the configuration.
Recent == {t \in alarms.recent : clock - t.at < Window}
Fresh == {d \in told : InWindow(d)}

\* A delivery in the window, and each later one, is still in the memory when
\* what has left it by the configured clock is dropped.
LEMMA FreshAreRecent ==
  ASSUME BoundsAssumption, TypeOK, AlarmInv
  PROVE  /\ \A d \in Fresh, n \in Nat : Outlasts(d, n) =>
              \E t \in Recent : t.nth = n /\ d.at <= t.at + behind
         /\ IsFiniteSet(Recent) /\ Cardinality(Recent) \in Nat
         /\ Cardinality(Recent) <= DeliveriesPerWindow
         /\ IsFiniteSet(Fresh) /\ Cardinality(Fresh) \in Nat
         /\ Cardinality(Fresh) <= Cardinality(Recent)
<1>1. ASSUME NEW d \in Fresh, NEW n \in Nat, Outlasts(d, n)
      PROVE  \E t \in Recent : t.nth = n /\ d.at <= t.at + behind
  <2>1. PICK t \in alarms.recent : t.nth = n /\ d.at <= t.at + behind
    BY <1>1 DEF Outlasts
  <2>2. time - d.at < Window /\ d \in told
    BY DEF Fresh, InWindow
  <2>3. clock - t.at < Window
    <3>1. time \in Int /\ behind \in Int /\ t.at \in Int /\ d.at \in Int /\ Window \in Int
      BY <2>2, TypesOfAlarms
    <3> QED  BY <2>1, <2>2, <3>1 DEF clock
  <2> QED  BY <2>1, <2>3 DEF Recent
<1>2. IsFiniteSet(alarms.recent) /\ Cardinality(alarms.recent) <= DeliveriesPerWindow
  BY DEF AlarmInv, MemoryInv
<1>3. Recent \in SUBSET alarms.recent
  BY DEF Recent
<1>4. /\ IsFiniteSet(Recent) /\ Cardinality(Recent) \in Nat
      /\ Cardinality(Recent) <= DeliveriesPerWindow
  <2>1. /\ IsFiniteSet(Recent) /\ Cardinality(Recent) <= Cardinality(alarms.recent)
    BY <1>2, <1>3, FS_Subset
  <2>2. Cardinality(Recent) \in Nat /\ Cardinality(alarms.recent) \in Nat
    BY <1>2, <2>1, FS_CardinalityType
  <2> QED  BY <1>2, <2>1, <2>2, TypesOfAlarms
<1>5. \A d \in Fresh : \E t \in Recent : t.nth = d.nth
  <2> TAKE d \in Fresh
  <2>1. d \in told /\ d.nth \in Nat /\ InWindow(d)
    BY TypesOfAlarms DEF Fresh
  <2>2. PICK e \in alarms.delivered : e.nth = d.nth
    BY <2>1 DEF AlarmInv, MemoryInv
  <2>3. Outlasts(d, d.nth)
    BY <2>1, <2>2 DEF AlarmInv, MemoryInv
  <2> QED  BY <1>1, <2>1, <2>3
<1>6. \A d, e \in Fresh : d.nth = e.nth => d = e
  BY DEF Fresh, AlarmInv, NumbersInv
<1>7. IsFiniteSet(Fresh) /\ Cardinality(Fresh) <= Cardinality(Recent)
  BY <1>4, <1>5, <1>6, MatchedByNumber
<1>8. Cardinality(Fresh) \in Nat
  BY <1>7, FS_CardinalityType
<1> QED  BY <1>1, <1>4, <1>7, <1>8

\* What a delivery leaves of the history.
LEMMA DeliveriesOfAStep ==
  ASSUME BoundsAssumption, TypeOK, AlarmInv, NEW key \in Alarm, NEW count, Deliver(key, count),
         \A d \in told : d.key = key => ~(time - d.at < Window),
         key = Aggregate \/ Cardinality(Recent) < DeliveriesPerWindow
  PROVE  LET new == [key |-> key, at |-> time, nth |-> alarms.deliveries]
         IN  /\ new \in Delivery
             /\ told' = {d \in told : time - d.at < Window} \cup {new}
             /\ \A d, e \in told' : d.key = e.key => d = e
             /\ \A d, e \in told' : d.nth = e.nth => d = e
             /\ \A d \in told' : d.nth < alarms.deliveries + 1 /\ d.at <= time
             /\ Cardinality({d \in told' : d.key # Aggregate}) <= DeliveriesPerWindow
<1> DEFINE new == [key |-> key, at |-> time, nth |-> alarms.deliveries]
           kept == {d \in told : time - d.at < Window}
<1>1. new \in Delivery /\ new.key = key /\ new.nth = alarms.deliveries /\ new.at = time
  BY TypesOfAlarms DEF Delivery
<1>2. told' = kept \cup {new}
  BY DEF Deliver
<1> HIDE DEF new
<1>3. \A d \in kept : d \in told /\ d.key # key /\ d.nth < alarms.deliveries /\ d.at <= time
                      /\ d.nth \in Nat
  BY TypesOfAlarms DEF AlarmInv, NumbersInv
<1>4. /\ \A d, e \in kept : d.key = e.key => d = e
      /\ \A d, e \in kept : d.nth = e.nth => d = e
  BY DEF AlarmInv, NumbersInv, AlarmsAreAccounted
<1> HIDE DEF kept
<1>5. \A d, e \in told' : d.key = e.key => d = e
  BY <1>1, <1>2, <1>3, <1>4
<1>6. \A d \in kept : d.nth # new.nth
  <2>1. alarms.deliveries \in Nat
    BY TypesOfAlarms
  <2> QED  BY <1>1, <1>3, <2>1
<1>7. \A d, e \in told' : d.nth = e.nth => d = e
  BY <1>2, <1>4, <1>6
<1>8. \A d \in told' : d.nth < alarms.deliveries + 1 /\ d.at <= time
  <2>1. alarms.deliveries \in Nat /\ time \in Int
    BY TypesOfAlarms
  <2>2. \A d \in kept : d.nth < alarms.deliveries + 1 /\ d.at <= time
    BY <1>3, <2>1
  <2>3. new.nth < alarms.deliveries + 1 /\ new.at <= time
    BY <1>1, <2>1
  <2> QED  BY <1>2, <2>2, <2>3
<1>9. Cardinality({d \in told' : d.key # Aggregate}) <= DeliveriesPerWindow
  <2> DEFINE others == {d \in told' : d.key # Aggregate}
  <2>1. /\ IsFiniteSet(Fresh) /\ Cardinality(Fresh) \in Nat /\ Cardinality(Fresh) <= Cardinality(Recent)
        /\ Cardinality(Recent) \in Nat /\ Cardinality(Recent) <= DeliveriesPerWindow
        /\ DeliveriesPerWindow \in Nat
    BY FreshAreRecent, TypesOfAlarms
  <2>2. {d \in kept : d.key # Aggregate} = Fresh
    BY DEF kept, Fresh, InWindow
  <2>3. CASE key = Aggregate
    <3>1. others = Fresh
      BY <1>1, <1>2, <2>2, <2>3
    <3> QED  BY <2>1, <3>1, SMTT(30)
  <2>4. CASE key # Aggregate
    <3>1. others = Fresh \cup {new}
      BY <1>1, <1>2, <2>2, <2>4
    <3>2. Cardinality(others) = IF new \in Fresh THEN Cardinality(Fresh) ELSE Cardinality(Fresh) + 1
      BY <2>1, <3>1, FS_AddElement
    <3>3. Cardinality(Recent) < DeliveriesPerWindow
      BY <2>4
    <3> QED  BY <2>1, <3>2, <3>3
  <2> QED  BY <2>3, <2>4
<1> QED  BY <1>1, <1>2, <1>5, <1>7, <1>8, <1>9 DEF new, kept

\* An alarm held back, and the aggregate that tells of those.
LEMMA HoldingBackKeepsAlarms ==
  ASSUME BoundsAssumption, TypeOK, AlarmInv, NEW key \in Alarm, HoldBack(clock, key),
         UNCHANGED clocks
  PROVE  AlarmsStep
<1> USE DEF AlarmInv
<1>1. time' = time /\ behind' = behind
  BY DEF clocks
<1>2. CASE clock - alarms.aggregateWindowStart >= Window
  <2> DEFINE new == [key |-> Aggregate, at |-> time, nth |-> alarms.deliveries]
  <2>1. /\ Deliver(Aggregate, alarms.suppressed + 1)
        /\ alarms' = [alarms EXCEPT !.aggregateWindowStart = clock, !.suppressed = 0,
                                    !.deliveries = @ + 1]
    BY <1>2 DEF HoldBack
  <2>2. Aggregate \in Alarm
    BY DEF Alarm
  <2>3. \A d \in told : d.key = Aggregate => ~(time - d.at < Window)
    <3> TAKE d \in told
    <3> HAVE d.key = Aggregate
    <3>1. d.at <= alarms.aggregateWindowStart + behind
      BY DEF MemoryInv
    <3>2. /\ d.at \in Int /\ time \in Int /\ behind \in Int /\ Window \in Int
          /\ alarms.aggregateWindowStart \in Int
      BY TypesOfAlarms
    <3> QED  BY <1>2, <3>1, <3>2 DEF clock
  <2>4. /\ new \in Delivery
        /\ told' = {d \in told : time - d.at < Window} \cup {new}
        /\ \A d, e \in told' : d.key = e.key => d = e
        /\ \A d, e \in told' : d.nth = e.nth => d = e
        /\ \A d \in told' : d.nth < alarms.deliveries + 1 /\ d.at <= time
        /\ Cardinality({d \in told' : d.key # Aggregate}) <= DeliveriesPerWindow
    BY <2>1, <2>2, <2>3, DeliveriesOfAStep
  <2>5. new.key = Aggregate /\ new.at = time
    OBVIOUS
  <2> HIDE DEF new
  <2>6. /\ alarms'.delivered = alarms.delivered /\ alarms'.recent = alarms.recent
        /\ alarms'.suppressed = 0 /\ alarms'.aggregateWindowStart = clock
        /\ alarms'.deliveries = alarms.deliveries + 1
        /\ alarms' \in [delivered : SUBSET Delivery, recent : SUBSET [at : Int, nth : Nat],
                        suppressed : Nat, aggregateWindowStart : Int, deliveries : Nat]
    <3>1. alarms.deliveries + 1 \in Nat
      BY TypesOfAlarms
    <3>2. clock \in Int /\ 0 \in Nat
      BY TypesOfAlarms
    <3> QED  BY <2>1, <3>1, <3>2, TypesOfAlarms
  <2>7. untold' = 0
    <3>1. untold' = untold + 1 - (alarms.suppressed + 1) - 0
      BY <2>1 DEF Deliver
    <3>2. untold = alarms.suppressed /\ alarms.suppressed \in Nat
      BY TypesOfAlarms DEF AlarmsAreAccounted
    <3> QED  BY <3>1, <3>2
  <2>8. NumbersInv'
    <3>1. \A n \in Nat : n < alarms.deliveries => n < alarms.deliveries + 1
      BY TypesOfAlarms
    <3>2. \A d \in alarms.delivered : d.nth < alarms.deliveries /\ d.nth \in Nat
      BY TypesOfAlarms DEF NumbersInv
    <3>3. \A t \in alarms.recent : t.nth < alarms.deliveries /\ t.nth \in Nat
      BY TypesOfAlarms DEF NumbersInv
    <3> QED  BY <1>1, <2>4, <2>6, <3>1, <3>2, <3>3 DEF NumbersInv
  <2>9. MemoryInv'
    <3>1. \A d \in told' : d.key # Aggregate => d \in told
      BY <2>4, <2>5
    <3>2. IsFiniteSet(alarms'.recent) /\ Cardinality(alarms'.recent) <= DeliveriesPerWindow
      BY <2>6 DEF MemoryInv
    <3>3. ASSUME NEW d \in told', InWindow(d)'
          PROVE  /\ \E e \in alarms'.delivered : e.nth = d.nth /\ e.key = d.key /\ d.at <= e.at + behind'
                 /\ \A e \in alarms'.delivered : e.nth >= d.nth =>
                      \E t \in alarms'.recent : t.nth = e.nth /\ d.at <= t.at + behind'
      <4>1. d \in told /\ InWindow(d)
        BY <1>1, <3>1, <3>3 DEF InWindow
      <4> QED  BY <1>1, <2>6, <4>1 DEF MemoryInv, Outlasts
    <3>4. \A d \in told' : d.at <= clock + behind
      <4>1. clock + behind = time
        BY TypesOfAlarms DEF clock
      <4> QED  BY <2>4, <4>1
    <3> QED  BY <1>1, <2>6, <3>2, <3>3, <3>4 DEF MemoryInv, Outlasts
  <2>10. AlarmsAreAccounted'
    BY <2>4, <2>6, <2>7 DEF AlarmsAreAccounted
  <2>11. told' \subseteq Delivery
    BY <2>4, TypesOfAlarms
  <2> QED  BY <2>6, <2>7, <2>8, <2>9, <2>10, <2>11 DEF AlarmsStep
<1>3. CASE ~(clock - alarms.aggregateWindowStart >= Window)
  <2>1. /\ alarms' = [alarms EXCEPT !.suppressed = @ + 1]
        /\ untold' = untold + 1 /\ told' = told
    BY <1>3 DEF HoldBack
  <2>2. /\ alarms'.delivered = alarms.delivered /\ alarms'.recent = alarms.recent
        /\ alarms'.suppressed = alarms.suppressed + 1
        /\ alarms'.aggregateWindowStart = alarms.aggregateWindowStart
        /\ alarms'.deliveries = alarms.deliveries
        /\ alarms' \in [delivered : SUBSET Delivery, recent : SUBSET [at : Int, nth : Nat],
                        suppressed : Nat, aggregateWindowStart : Int, deliveries : Nat]
    <3>1. alarms.suppressed + 1 \in Nat
      BY TypesOfAlarms
    <3> QED  BY <2>1, <3>1, TypesOfAlarms
  <2>3. NumbersInv'
    BY <1>1, <2>1, <2>2 DEF NumbersInv
  <2>4. MemoryInv'
    <3>1. \A d \in told : InWindow(d)' <=> InWindow(d)
      BY <1>1 DEF InWindow
    <3> QED  BY <1>1, <2>1, <2>2, <3>1 DEF MemoryInv, Outlasts
  <2>5. AlarmsAreAccounted'
    BY <2>1, <2>2 DEF AlarmsAreAccounted
  <2> QED  BY <2>1, <2>2, <2>3, <2>4, <2>5, TypesOfAlarms DEF AlarmsStep
<1> QED  BY <1>2, <1>3

\* The keys the memory holds after a delivery under the number n: the new one,
\* and every one whose delivery is in the window.
LEMMA HeldKeysCoverTheWindow ==
  ASSUME BoundsAssumption, TypeOK, AlarmInv, Cardinality(Recent) < DeliveriesPerWindow,
         NEW others, others \subseteq alarms.delivered, NEW new \in Delivery,
         new.nth = alarms.deliveries
  PROVE  LET keys == others \cup {new}
         IN  /\ HeldKeys(keys) \subseteq keys
             /\ new \in HeldKeys(keys)
             /\ \A d \in Fresh, e \in others : e.nth = d.nth => e \in HeldKeys(keys)
<1> DEFINE keys == others \cup {new}
<1>1. /\ KeysHeld \in Nat /\ DeliveriesPerWindow \in Nat \ {0} /\ DeliveriesPerWindow <= KeysHeld
      /\ Cardinality(Recent) \in Nat /\ IsFiniteSet(Recent)
      /\ alarms.deliveries \in Nat
  BY TypesOfAlarms, FreshAreRecent
<1>2. \A e \in others : e \in alarms.delivered /\ e.nth \in Nat /\ e.nth < alarms.deliveries
  BY TypesOfAlarms DEF AlarmInv, NumbersInv
<1> HIDE DEF keys
<1>3. HeldKeys(keys) \subseteq keys
  BY DEF HeldKeys
<1>4. new \in HeldKeys(keys)
  <2>1. CASE others = {}
    <3>1. Cardinality(keys) = 1
      <4>1. keys = {new}
        BY <2>1 DEF keys
      <4> QED  BY <4>1, FS_Singleton
    <3>2. ~(Cardinality(keys) > KeysHeld)
      BY <1>1, <3>1
    <3> QED  BY <3>2 DEF HeldKeys, keys
  <2>2. CASE others # {}
    <3>1. PICK e \in others : TRUE
      BY <2>2
    <3>2. e \in keys /\ new \in keys /\ e.nth < new.nth
      BY <1>2 DEF keys
    <3> QED  BY <3>2 DEF HeldKeys
  <2> QED  BY <2>1, <2>2
<1>5. ASSUME NEW d \in Fresh, NEW e \in others, e.nth = d.nth
      PROVE  e \in HeldKeys(keys)
  <2> SUFFICES ASSUME e \notin HeldKeys(keys) PROVE FALSE
    OBVIOUS
  <2>1. e \in keys
    BY DEF keys
  <2>2. Cardinality(keys) > KeysHeld /\ \A f \in keys : ~(f.nth < e.nth)
    BY <2>1 DEF HeldKeys
  <2>3. \A f \in others : f.nth >= d.nth
    <3> TAKE f \in others
    <3>1. f.nth \in Nat /\ e.nth \in Nat /\ ~(f.nth < e.nth)
      BY <1>2, <2>2 DEF keys
    <3> QED  BY <1>5, <3>1
  <2>4. \A f \in others : \E t \in Recent : t.nth = f.nth
    <3> TAKE f \in others
    <3>1. Outlasts(d, f.nth)
      BY <1>2, <2>3 DEF Fresh, AlarmInv, MemoryInv
    <3> QED  BY <1>2, <3>1, FreshAreRecent
  <2>5. \A f, g \in others : f.nth = g.nth => f = g
    BY DEF AlarmInv, NumbersInv
  <2>6. IsFiniteSet(others) /\ Cardinality(others) <= Cardinality(Recent)
    BY <1>1, <2>4, <2>5, MatchedByNumber
  <2>7. /\ Cardinality(others) \in Nat
        /\ Cardinality(keys) = IF new \in others THEN Cardinality(others) ELSE Cardinality(others) + 1
    BY <2>6, FS_CardinalityType, FS_AddElement DEF keys
  <2> QED  BY <1>1, <2>2, <2>6, <2>7
<1> QED  BY <1>3, <1>4, <1>5 DEF keys

LEMMA GoingOutKeepsAlarms ==
  ASSUME BoundsAssumption, TypeOK, AlarmInv, NEW key \in Alarm, key # Aggregate, GoOut(clock, key),
         UNCHANGED clocks
  PROVE  AlarmsStep
<1>1. time' = time /\ behind' = behind
  BY DEF clocks
<1>2. /\ \A d \in Fresh, n \in Nat : Outlasts(d, n) =>
           \E t \in Recent : t.nth = n /\ d.at <= t.at + behind
      /\ IsFiniteSet(Recent) /\ Cardinality(Recent) \in Nat
      /\ Cardinality(Recent) <= DeliveriesPerWindow
  BY FreshAreRecent
<1>3. NumbersInv /\ MemoryInv /\ AlarmsAreAccounted
  BY DEF AlarmInv
<1>4. Recent \subseteq alarms.recent /\ Recent \in SUBSET [at : Int, nth : Nat]
  BY TypesOfAlarms DEF Recent
<1>5. CASE Cardinality(Recent) >= DeliveriesPerWindow
  <2>1. /\ alarms' = [alarms EXCEPT !.recent = Recent, !.suppressed = @ + 1]
        /\ untold' = untold + 1 /\ told' = told
    BY <1>5 DEF GoOut, Recent
  <2>2. /\ alarms'.delivered = alarms.delivered /\ alarms'.recent = Recent
        /\ alarms'.suppressed = alarms.suppressed + 1
        /\ alarms'.aggregateWindowStart = alarms.aggregateWindowStart
        /\ alarms'.deliveries = alarms.deliveries
        /\ alarms' \in [delivered : SUBSET Delivery, recent : SUBSET [at : Int, nth : Nat],
                        suppressed : Nat, aggregateWindowStart : Int, deliveries : Nat]
    <3>1. alarms.suppressed + 1 \in Nat
      BY TypesOfAlarms
    <3> HIDE DEF Recent
    <3> QED  BY <1>4, <2>1, <3>1, TypesOfAlarms
  <2>3. NumbersInv'
    BY <1>1, <1>3, <1>4, <2>1, <2>2 DEF NumbersInv
  <2>4. MemoryInv'
    <3>1. ASSUME NEW d \in told, InWindow(d)'
          PROVE  /\ \E e \in alarms.delivered : e.nth = d.nth /\ e.key = d.key /\ d.at <= e.at + behind
                 /\ \A e \in alarms.delivered : e.nth >= d.nth =>
                      \E t \in Recent : t.nth = e.nth /\ d.at <= t.at + behind
      <4>1. InWindow(d) /\ d \in Fresh
        BY <1>1, <3>1 DEF InWindow, Fresh
      <4>2. \A e \in alarms.delivered : e.nth \in Nat
        BY TypesOfAlarms
      <4> QED  BY <1>2, <1>3, <4>1, <4>2 DEF MemoryInv
    <3> QED  BY <1>1, <1>2, <1>3, <2>1, <2>2, <3>1 DEF MemoryInv, Outlasts
  <2>5. AlarmsAreAccounted'
    BY <1>3, <2>1, <2>2 DEF AlarmsAreAccounted
  <2> QED  BY <2>1, <2>2, <2>3, <2>4, <2>5, TypesOfAlarms DEF AlarmsStep, AlarmInv
<1>6. CASE ~(Cardinality(Recent) >= DeliveriesPerWindow)
  <2> DEFINE nth == alarms.deliveries
             new == [key |-> key, at |-> time, nth |-> nth]
             held == [key |-> key, at |-> clock, nth |-> nth]
             last == [at |-> clock, nth |-> nth]
             others == {d \in alarms.delivered : d.key # key}
             kept == HeldKeys(others \cup {held})
  <2>1. /\ Deliver(key, alarms.suppressed)
        /\ alarms' = [alarms EXCEPT !.recent = Recent \cup {last}, !.delivered = kept,
                                    !.suppressed = 0, !.deliveries = @ + 1]
        /\ ~Heard(clock, key)
    BY <1>6 DEF GoOut, Recent
  <2>2. /\ time \in Int /\ behind \in Nat /\ clock \in Int /\ Window \in Nat /\ nth \in Nat
        /\ clock + behind = time
        /\ Cardinality(Recent) < DeliveriesPerWindow
    BY <1>2, <1>6, TypesOfAlarms DEF clock
  <2>3. \A d \in told : InWindow(d) =>
          \E e \in alarms.delivered : e \in others /\ e.nth = d.nth /\ e.key = d.key /\ d.at <= e.at + behind
    <3> TAKE d \in told
    <3> HAVE InWindow(d)
    <3>1. PICK e \in alarms.delivered : e.nth = d.nth /\ e.key = d.key /\ d.at <= e.at + behind
      BY <1>3 DEF MemoryInv
    <3>2. clock - e.at < Window
      <4>1. time - d.at < Window /\ d.at \in Int /\ e.at \in Int
        BY TypesOfAlarms DEF InWindow
      <4> QED  BY <2>2, <3>1, <4>1 DEF clock
    <3>3. e.key # key
      BY <2>1, <3>2 DEF Heard
    <3> QED  BY <3>1, <3>3
  <2>4. \A d \in told : d.key = key => ~(time - d.at < Window)
    BY <2>3 DEF InWindow
  <2>5. /\ new \in Delivery
        /\ told' = {d \in told : time - d.at < Window} \cup {new}
        /\ \A d, e \in told' : d.key = e.key => d = e
        /\ \A d, e \in told' : d.nth = e.nth => d = e
        /\ \A d \in told' : d.nth < alarms.deliveries + 1 /\ d.at <= time
        /\ Cardinality({d \in told' : d.key # Aggregate}) <= DeliveriesPerWindow
    BY <2>1, <2>2, <2>4, DeliveriesOfAStep
  <2>6. held \in Delivery /\ held.nth = nth /\ held.key = key /\ held.at = clock
    BY <2>2 DEF Delivery
  <2>7. others \subseteq alarms.delivered
    OBVIOUS
  <2>8. last \in [at : Int, nth : Nat] /\ last.nth = nth /\ last.at = clock
    BY <2>2
  <2>9. new.key = key /\ new.nth = nth /\ new.at = time
    OBVIOUS
  <2> HIDE DEF new, held, last, others
  <2>10. /\ kept \subseteq others \cup {held} /\ held \in kept
         /\ \A d \in Fresh, e \in others : e.nth = d.nth => e \in kept
    BY <2>2, <2>6, <2>7, HeldKeysCoverTheWindow
  <2> HIDE DEF kept
  <2>11. kept \subseteq Delivery /\ \A e \in kept : e \in alarms.delivered \/ e = held
    BY <2>6, <2>7, <2>10, TypesOfAlarms
  <2>12. /\ alarms'.delivered = kept /\ alarms'.recent = Recent \cup {last}
         /\ alarms'.suppressed = 0
         /\ alarms'.aggregateWindowStart = alarms.aggregateWindowStart
         /\ alarms'.deliveries = nth + 1
         /\ alarms' \in [delivered : SUBSET Delivery, recent : SUBSET [at : Int, nth : Nat],
                         suppressed : Nat, aggregateWindowStart : Int, deliveries : Nat]
    <3>1. Recent \cup {last} \in SUBSET [at : Int, nth : Nat] /\ kept \in SUBSET Delivery
          /\ nth + 1 \in Nat
      BY <1>4, <2>2, <2>8, <2>11
    <3> DEFINE remembered == Recent \cup {last}
    <3> HIDE DEF remembered
    <3>2. alarms' = [alarms EXCEPT !.recent = remembered, !.delivered = kept,
                                   !.suppressed = 0, !.deliveries = @ + 1]
      BY <2>1 DEF remembered
    <3>3. remembered \in SUBSET [at : Int, nth : Nat]
      BY <3>1 DEF remembered
    <3>4. /\ alarms'.delivered = kept /\ alarms'.recent = remembered
          /\ alarms'.suppressed = 0
          /\ alarms'.aggregateWindowStart = alarms.aggregateWindowStart
          /\ alarms'.deliveries = nth + 1
          /\ alarms' \in [delivered : SUBSET Delivery, recent : SUBSET [at : Int, nth : Nat],
                          suppressed : Nat, aggregateWindowStart : Int, deliveries : Nat]
      BY <3>1, <3>2, <3>3, TypesOfAlarms
    <3> QED  BY <3>4 DEF remembered
  <2>13. untold' = 0
    <3>1. untold' = untold + 1 - alarms.suppressed - 1
      BY <2>1 DEF Deliver
    <3>2. untold = alarms.suppressed /\ alarms.suppressed \in Nat
      BY <1>3, TypesOfAlarms DEF AlarmsAreAccounted
    <3> QED  BY <3>1, <3>2
  <2>14. /\ \A e \in alarms.delivered : e.nth < nth /\ e.nth \in Nat
         /\ \A t \in alarms.recent : t.nth < nth /\ t.nth \in Nat
    BY <1>3, TypesOfAlarms DEF NumbersInv
  <2>15. NumbersInv'
    <3>1. \A n \in Nat : n < nth => n < nth + 1 /\ n # nth
      BY <2>2
    <3>2. nth < nth + 1
      BY <2>2
    <3>3. \A d \in told' : d.nth < alarms'.deliveries /\ d.at <= time'
      BY <1>1, <2>5, <2>12
    <3>4. /\ \A d \in kept : d.nth < nth + 1
          /\ \A d, e \in kept : d.nth = e.nth => d = e
      BY <1>3, <2>6, <2>11, <2>14, <3>1, <3>2 DEF NumbersInv
    <3>5. /\ \A t \in Recent \cup {last} : t.nth < nth + 1
          /\ \A t, u \in Recent \cup {last} : t.nth = u.nth => t = u
      BY <1>3, <1>4, <2>8, <2>14, <3>1, <3>2 DEF NumbersInv
    <3> QED  BY <2>5, <2>12, <3>3, <3>4, <3>5 DEF NumbersInv
  <2>16. MemoryInv'
    <3>1. IsFiniteSet(alarms'.recent) /\ Cardinality(alarms'.recent) <= DeliveriesPerWindow
      <4>1. /\ IsFiniteSet(Recent \cup {last})
            /\ Cardinality(Recent \cup {last}) =
                 IF last \in Recent THEN Cardinality(Recent) ELSE Cardinality(Recent) + 1
        BY <1>2, FS_AddElement
      <4>2. DeliveriesPerWindow \in Nat
        BY TypesOfAlarms
      <4> QED  BY <1>2, <2>2, <2>12, <4>1, <4>2
    <3>2. ASSUME NEW d \in told', InWindow(d)'
          PROVE  /\ \E e \in kept : e.nth = d.nth /\ e.key = d.key /\ d.at <= e.at + behind
                 /\ \A e \in kept : e.nth >= d.nth =>
                      \E t \in Recent \cup {last} : t.nth = e.nth /\ d.at <= t.at + behind
      <4>1. CASE d = new
        <5>1. \A e \in kept : e.nth >= nth => e.nth = nth
          BY <2>2, <2>6, <2>11, <2>14
        <5>2. time <= clock + behind
          BY <2>2
        <5> QED  BY <2>6, <2>8, <2>9, <2>10, <4>1, <5>1, <5>2
      <4>2. CASE d # new
        <5>1. d \in told /\ InWindow(d) /\ d \in Fresh
          BY <1>1, <2>5, <3>2, <4>2 DEF InWindow, Fresh
        <5>2. \E e \in kept : e.nth = d.nth /\ e.key = d.key /\ d.at <= e.at + behind
          BY <2>3, <2>10, <5>1
        <5>3. ASSUME NEW e \in kept, e.nth >= d.nth
              PROVE  \E t \in Recent \cup {last} : t.nth = e.nth /\ d.at <= t.at + behind
          <6>1. CASE e = held
            <7>1. d.at <= clock + behind
              BY <2>2, <2>5
            <7> QED  BY <2>6, <2>8, <6>1, <7>1
          <6>2. CASE e \in alarms.delivered
            <7>1. Outlasts(d, e.nth)
              BY <1>3, <5>1, <5>3, <6>2 DEF MemoryInv
            <7> QED  BY <1>2, <2>14, <5>1, <6>2, <7>1
          <6> QED  BY <2>11, <6>1, <6>2
        <5> QED  BY <5>2, <5>3
      <4> QED  BY <4>1, <4>2
    <3>3. \A d \in told' : d.key = Aggregate => d.at <= alarms.aggregateWindowStart + behind
      BY <1>3, <2>5, <2>9 DEF MemoryInv
    <3> QED  BY <1>1, <2>12, <3>1, <3>2, <3>3 DEF MemoryInv, Outlasts
  <2>17. AlarmsAreAccounted'
    BY <2>5, <2>12, <2>13 DEF AlarmsAreAccounted
  <2>18. told' \subseteq Delivery
    BY <2>5, TypesOfAlarms
  <2> QED  BY <2>12, <2>13, <2>15, <2>16, <2>17, <2>18 DEF AlarmsStep, AlarmInv
<1> QED  BY <1>5, <1>6

\* The clocks go on, and no alarm is raised.
LEMMA AlarmsUntouched ==
  ASSUME BoundsAssumption, TypeOK, AlarmInv, UNCHANGED alarming,
         time' \in Int, behind' \in Int, time' >= time, behind' >= behind
  PROVE  AlarmsStep
<1>1. alarms' = alarms /\ untold' = untold /\ told' = told
  BY DEF alarming
<1>2. NumbersInv /\ MemoryInv /\ AlarmsAreAccounted
  BY DEF AlarmInv
<1>3. time \in Int /\ behind \in Int /\ Window \in Int
  BY TypesOfAlarms
<1>4. \A d \in told : d.at \in Int
  BY TypesOfAlarms
<1>5. NumbersInv'
  <2>1. \A d \in told : d.at <= time'
    BY <1>2, <1>3, <1>4 DEF NumbersInv
  <2> QED  BY <1>1, <1>2, <2>1 DEF NumbersInv
<1>6. MemoryInv'
  <2>1. \A d \in told : InWindow(d)' => InWindow(d)
    BY <1>3, <1>4 DEF InWindow
  <2>2. ASSUME NEW n \in Int, NEW at \in Int, n <= at + behind
        PROVE  n <= at + behind'
    <3>1. PICK later \in Int : later = behind'
      OBVIOUS
    <3>2. later >= behind
      BY <3>1
    <3>3. n <= at + later
      BY <1>3, <2>2, <3>2
    <3> QED  BY <3>1, <3>3
  <2>3. /\ \A e \in alarms.delivered : e.at \in Int
        /\ \A t \in alarms.recent : t.at \in Int
        /\ alarms.aggregateWindowStart \in Int
    BY TypesOfAlarms
  <2>4. \A d \in told, n \in Nat : Outlasts(d, n) =>
          \E t \in alarms.recent : t.nth = n /\ d.at <= t.at + behind'
    BY <1>4, <2>2, <2>3 DEF Outlasts
  <2>5. ASSUME NEW d \in told, InWindow(d)'
        PROVE  /\ \E e \in alarms.delivered : e.nth = d.nth /\ e.key = d.key /\ d.at <= e.at + behind'
               /\ \A e \in alarms.delivered : e.nth >= d.nth =>
                    \E t \in alarms.recent : t.nth = e.nth /\ d.at <= t.at + behind'
    <3>1. \A e \in alarms.delivered : e.nth \in Nat
      BY TypesOfAlarms
    <3>2. InWindow(d)
      BY <2>1, <2>5
    <3> QED  BY <1>2, <1>4, <2>2, <2>3, <2>4, <3>1, <3>2 DEF MemoryInv
  <2>6. \A d \in told : d.key = Aggregate => d.at <= alarms.aggregateWindowStart + behind'
    BY <1>2, <1>4, <2>2, <2>3 DEF MemoryInv
  <2> QED  BY <1>1, <1>2, <2>5, <2>6 DEF MemoryInv, Outlasts
<1>7. AlarmsAreAccounted'
  BY <1>1, <1>2 DEF AlarmsAreAccounted
<1> QED  BY <1>1, <1>5, <1>6, <1>7, TypesOfAlarms DEF AlarmsStep, AlarmInv

LEMMA CheckingKeepsAlarms ==
  ASSUME BoundsAssumption, TypeOK, PathsInv, AlarmInv, NEW r \in Request, Check(r)
  PROVE  AlarmsStep
<1> DEFINE i == named[r].identifier
<1>1. i \in Identifier
  BY DEF PathsInv, PathInv, Check, Submission
<1>2. UNCHANGED clocks /\ Report(account[i], i)
  BY DEF Check
<1> HIDE DEF i
<1>3. /\ <<i, "seal_mismatch">> \in Alarm /\ <<i, "seal_mismatch">> # Aggregate
      /\ <<i, "envelope_binding_mismatch">> \in Alarm
      /\ <<i, "envelope_binding_mismatch">> # Aggregate
  BY <1>1 DEF Alarm, Aggregate
<1>4. ASSUME NEW key \in Alarm, key # Aggregate, Raise(key)
      PROVE  AlarmsStep
  BY <1>2, <1>4, HoldingBackKeepsAlarms, GoingOutKeepsAlarms DEF Raise
<1>5. CASE Raise(<<i, "seal_mismatch">>)
  BY <1>3, <1>4, <1>5
<1>6. CASE Raise(<<i, "envelope_binding_mismatch">>)
  BY <1>3, <1>4, <1>6
<1>7. CASE UNCHANGED alarming
  <2>1. time' = time /\ behind' = behind /\ time \in Int /\ behind \in Int
    BY <1>2, TypesOfAlarms DEF clocks
  <2>2. time' >= time /\ behind' >= behind
    BY <2>1
  <2> QED  BY <1>7, <2>1, <2>2, AlarmsUntouched
<1> QED  BY <1>2, <1>5, <1>6, <1>7 DEF Report

(***************************************************************************)
(* Every step.                                                             *)
(***************************************************************************)

\* What each step keeps, and what it may not do.
RequestsStep ==
    /\ RequestsInv'
    /\ PlacesAreGivenInTurn
    /\ WaitsAreEnough
    /\ \A q \in Request : AnswersRight(q)

ClocksStep == time' \in 0 .. MaxTime /\ behind' \in 0 .. MaxBehind

LEMMA TogetherTheyKeepAll ==
  ASSUME PlacesStep, RequestsTyping', step' \in [Request -> Steps], PathsInv',
         \A q \in Request : AnswersRight(q), BucketsStep, AlarmsStep, ClocksStep,
         account' \in [Identifier -> Kind]
  PROVE  RequestsStep
<1>1. TypeOK'
  BY DEF TypeOK, PlacesStep, RequestsTyping, BucketsStep, AlarmsStep, ClocksStep,
         Waiting, Drawing, Submission, Answers, Costing, BucketRow, MeterRow
<1> QED  BY <1>1 DEF RequestsStep, RequestsInv, PlacesStep, BucketsStep, AlarmsStep

\* A step of one sign-in, from what its action does to each part.
LEMMA StepOfASignIn ==
  ASSUME BoundsAssumption, RequestsInv, NEW r \in Request,
         UNCHANGED clocks, PlacesStep, step' \in [Request -> Steps], PathStep(r), BucketsStep,
         UNCHANGED alarming \/ AlarmsStep, account' \in [Identifier -> Kind]
  PROVE  RequestsStep
<1>1. TypeOK /\ PathsInv /\ AlarmInv
  BY DEF RequestsInv
<1>2. /\ time' = time /\ behind' = behind
      /\ time \in 0 .. MaxTime /\ behind \in 0 .. MaxBehind
      /\ time \in Int /\ behind \in Int
  BY <1>1, TypesOfAlarms DEF clocks, TypeOK
<1>3. ClocksStep
  BY <1>2 DEF ClocksStep
<1>4. AlarmsStep
  <2>1. time' >= time /\ behind' >= behind /\ time' \in Int /\ behind' \in Int
    BY <1>2
  <2> QED  BY <1>1, <2>1, AlarmsUntouched
<1>5. PathsInv' /\ \A q \in Request : AnswersRight(q)
  BY <1>1, AllKeepTheirPath
<1>6. RequestsTyping'
  BY DEF PathStep
<1> QED  BY <1>3, <1>4, <1>5, <1>6, TogetherTheyKeepAll

\* A step by which a request goes on without a place.
LEMMA GoingOnKeepsPlaces ==
  ASSUME TypeOK, PlacesInv, NEW r \in Request, NEW to \in Steps \ {"queued", "deriving"},
         step[r] \notin {"queued", "deriving"}, Goes(r, to), UNCHANGED semaphore
  PROVE  PlacesStep
<1>1. step \in [Request -> Steps]
  BY DEF TypeOK
<1>2. step' = [step EXCEPT ![r] = to]
  BY DEF Goes
<1>3. ASSUME NEW q \in Request
      PROVE  step'[q] = step[q] \/ {step[q], step'[q]} \cap {"queued", "deriving"} = {}
  <2>1. CASE q = r
    BY <1>1, <1>2, <2>1
  <2>2. CASE q # r
    BY <1>1, <1>2, <2>2
  <2> QED  BY <2>1, <2>2
<1> QED  BY <1>3, PlacesUntouched

LEMMA NextKeepsAll ==
  ASSUME BoundsAssumption, RequestsInv, Next
  PROVE  RequestsStep
<1>1. TypeOK /\ PlacesInv /\ PathsInv /\ BucketsInv /\ AlarmInv
  BY DEF RequestsInv
<1>2. account \in [Identifier -> Kind] /\ step \in [Request -> Steps]
  BY <1>1 DEF TypeOK
<1>3. {"done", "address", "reading", "account", "checking"} \subseteq Steps \ {"queued", "deriving"}
  BY DEF Steps
<1>4. ASSUME NEW r \in Request, NEW from \in Client, NEW hops \in 0 .. MaxHops,
             NEW claim \in {<<>>, <<Forged>>}, Arrive(r, from, claim, hops)
      PROVE  RequestsStep
  <2>1. /\ step[r] = "idle"
        /\ Goes(r, "done") \/ Goes(r, "address")
        /\ UNCHANGED <<clocks, account, limits, semaphore, alarming>>
    BY <1>4 DEF Arrive, Answered
  <2>2. PlacesStep
    BY <1>1, <1>3, <2>1, GoingOnKeepsPlaces
  <2>3. BucketsStep
    BY <1>1, <2>1, BucketsUntouched
  <2> QED  BY <1>1, <1>2, <1>4, <2>1, <2>2, <2>3, ArrivingKeepsPath, StepOfASignIn
<1>5. ASSUME NEW r \in Request, DrawAddress(r)
      PROVE  RequestsStep
  <2>1. /\ step[r] = "address" /\ DrawsFor(r, "address", client[r])
        /\ Goes(r, "reading") \/ Goes(r, "done")
        /\ Draw(r, client[r], TRUE) \/ Draw(r, client[r], FALSE)
        /\ UNCHANGED <<clocks, account, semaphore, alarming>>
    BY <1>1, <1>5 DEF DrawAddress, Answered, PathsInv, PathInv
  <2>2. PlacesStep
    BY <1>1, <1>3, <2>1, GoingOnKeepsPlaces
  <2>3. BucketsStep
    BY <1>1, <2>1, DrawKeepsBuckets
  <2> QED  BY <1>1, <1>2, <1>5, <2>1, <2>2, <2>3, DrawingForTheAddressKeepsPath, StepOfASignIn
<1>6. ASSUME NEW r \in Request, NEW i \in Identifier, NEW p \in Password, Submit(r, i, p)
      PROVE  RequestsStep
  <2>1. /\ step[r] = "reading" /\ Goes(r, "account")
        /\ UNCHANGED <<clocks, account, limits, semaphore, alarming>>
    BY <1>6 DEF Submit
  <2>2. PlacesStep
    BY <1>1, <1>3, <2>1, GoingOnKeepsPlaces
  <2>3. BucketsStep
    BY <1>1, <2>1, BucketsUntouched
  <2> QED  BY <1>1, <1>2, <1>6, <2>1, <2>2, <2>3, SubmittingKeepsPath, StepOfASignIn
<1>7. ASSUME NEW r \in Request, DrawAccount(r)
      PROVE  RequestsStep
  <2>1. /\ step[r] = "account" /\ DrawsFor(r, "account", named[r].identifier)
        /\ Goes(r, "checking") \/ Goes(r, "done")
        /\ Draw(r, named[r].identifier, TRUE) \/ Draw(r, named[r].identifier, FALSE)
        /\ UNCHANGED <<clocks, account, semaphore, alarming>>
    BY <1>1, <1>7 DEF DrawAccount, Answered, PathsInv, PathInv
  <2>2. PlacesStep
    BY <1>1, <1>3, <2>1, GoingOnKeepsPlaces
  <2>3. BucketsStep
    BY <1>1, <2>1, DrawKeepsBuckets
  <2> QED  BY <1>1, <1>2, <1>7, <2>1, <2>2, <2>3, DrawingForTheAccountKeepsPath, StepOfASignIn
<1>8. ASSUME NEW r \in Request, Check(r)
      PROVE  RequestsStep
  <2>1. step[r] = "checking" /\ Acquire(r) /\ UNCHANGED <<clocks, account, limits>>
    BY <1>8 DEF Check
  <2>2. PlacesStep /\ step' \in [Request -> Steps]
    BY <1>1, <2>1, AcquireKeepsPlaces
  <2>3. BucketsStep
    BY <1>1, <2>1, BucketsUntouched
  <2>4. PathStep(r) /\ AlarmsStep
    BY <1>1, <1>8, CheckingKeepsPath, CheckingKeepsAlarms
  <2> QED  BY <1>2, <2>1, <2>2, <2>3, <2>4, StepOfASignIn
<1>9. ASSUME NEW r \in Request, Derive(r)
      PROVE  RequestsStep
  <2>1. /\ step[r] = "deriving"
        /\ \E to \in {"answered", "done"} : \E with : Leave(r, to, with)
        /\ UNCHANGED <<clocks, account, limits, alarming>>
    BY <1>9 DEF Derive
  <2>2. {"answered", "done"} \subseteq Steps \ {"queued", "deriving"}
    BY DEF Steps
  <2>3. PlacesStep /\ step' \in [Request -> Steps]
    BY <1>1, <2>1, <2>2, LeavingKeepsPlaces
  <2>4. BucketsStep /\ PathStep(r)
    BY <1>1, <1>9, <2>1, BucketsUntouched, DerivingKeepsPath
  <2> QED  BY <1>2, <2>1, <2>3, <2>4, StepOfASignIn
<1>10. ASSUME NEW r \in Request, WaitLimitPasses(r)
       PROVE  RequestsStep
  <2>1. UNCHANGED <<clocks, account, limits, alarming>>
    BY <1>10 DEF WaitLimitPasses
  <2>2. PlacesStep /\ step' \in [Request -> Steps]
    <3>1. PlacesStep /\ step' = [step EXCEPT ![r] = "done"]
      BY <1>1, <1>10, GivingUpKeepsPlaces
    <3> QED  BY <1>2, <3>1 DEF Steps
  <2>3. BucketsStep /\ PathStep(r)
    BY <1>1, <1>10, <2>1, BucketsUntouched, GivingUpKeepsPath
  <2> QED  BY <1>2, <2>1, <2>2, <2>3, StepOfASignIn
<1>11. ASSUME NEW r \in Request, StartAfterAnswer(r)
       PROVE  RequestsStep
  <2>1. step[r] = "answered" /\ Acquire(r) /\ UNCHANGED <<clocks, account, limits, alarming>>
    BY <1>11 DEF StartAfterAnswer
  <2>2. PlacesStep /\ step' \in [Request -> Steps]
    BY <1>1, <2>1, AcquireKeepsPlaces
  <2>3. BucketsStep /\ PathStep(r)
    BY <1>1, <1>11, <2>1, BucketsUntouched, StartingAfterAnswerKeepsPath
  <2> QED  BY <1>2, <2>1, <2>2, <2>3, StepOfASignIn
<1>12. ASSUME NEW r \in Request, Rehash(r)
       PROVE  RequestsStep
  <2>1. /\ step[r] = "deriving" /\ Leave(r, "resealing", answer[r])
        /\ UNCHANGED <<clocks, account, limits, alarming>>
    BY <1>12 DEF Rehash
  <2>2. "resealing" \in Steps \ {"queued", "deriving"}
    BY DEF Steps
  <2>3. PlacesStep /\ step' \in [Request -> Steps]
    BY <1>1, <2>1, <2>2, LeavingKeepsPlaces
  <2>4. BucketsStep /\ PathStep(r)
    BY <1>1, <1>12, <2>1, BucketsUntouched, RehashingKeepsPath
  <2> QED  BY <1>2, <2>1, <2>3, <2>4, StepOfASignIn
<1>13. ASSUME NEW r \in Request, Reseal(r)
       PROVE  RequestsStep
  <2>1. /\ step[r] = "resealing" /\ Goes(r, "done")
        /\ UNCHANGED <<clocks, limits, semaphore, alarming>>
    BY <1>13 DEF Reseal
  <2>2. PlacesStep
    BY <1>1, <1>3, <2>1, GoingOnKeepsPlaces
  <2>3. BucketsStep
    BY <1>1, <2>1, BucketsUntouched
  <2> QED  BY <1>1, <1>13, <2>1, <2>2, <2>3, ResealingKeepsPath, StepOfASignIn
<1>14. ASSUME UNCHANGED <<account, requests, semaphore, alarming, work>>, BucketsStep,
              ClocksStep, time' >= time, behind' >= behind
       PROVE  RequestsStep
  <2>1. /\ RequestsTyping' /\ step' \in [Request -> Steps]
        /\ PathsInv' /\ \A q \in Request : AnswersRight(q)
    BY <1>1, <1>14, PathsUntouched
  <2>2. PlacesStep
    <3>1. step' = step /\ UNCHANGED semaphore
      BY <1>14 DEF requests
    <3> QED  BY <1>1, <3>1, PlacesUntouched
  <2>3. time' \in Int /\ behind' \in Int
    <3>1. MaxTime \in Nat /\ MaxBehind \in Nat
      BY DEF BoundsAssumption
    <3> QED  BY <1>14, <3>1 DEF ClocksStep
  <2>4. AlarmsStep
    BY <1>1, <1>14, <2>3, AlarmsUntouched
  <2> QED  BY <1>2, <1>14, <2>1, <2>2, <2>4, TogetherTheyKeepAll
<1>15. /\ time \in 0 .. MaxTime /\ behind \in 0 .. MaxBehind
       /\ time \in Int /\ behind \in Int /\ MaxTime \in Nat /\ MaxBehind \in Nat
  BY <1>1, TypesOfAlarms DEF TypeOK, BoundsAssumption
<1>16. ASSUME NEW b \in Bucket, Sweep(b)
       PROVE  RequestsStep
  <2>1. /\ UNCHANGED <<account, requests, semaphore, alarming, work>>
        /\ time' = time /\ behind' = behind
    BY <1>16 DEF Sweep, clocks
  <2>2. ClocksStep /\ time' >= time /\ behind' >= behind
    BY <1>15, <2>1 DEF ClocksStep
  <2>3. BucketsStep
    BY <1>1, <1>16, SweepingKeepsBuckets
  <2> QED  BY <1>14, <2>1, <2>2, <2>3
<1>17. CASE Tick
  <2>1. UNCHANGED <<account, requests, limits, semaphore, alarming, work>>
    BY <1>17 DEF Tick
  <2>2. ClocksStep /\ time' >= time /\ behind' >= behind
    BY <1>15, <1>17 DEF Tick, ClocksStep
  <2> QED  BY <1>1, <1>14, <2>1, <2>2, BucketsUntouched
<1>18. CASE PutBack
  <2>1. UNCHANGED <<account, requests, limits, semaphore, alarming, work>>
    BY <1>18 DEF PutBack
  <2>2. ClocksStep /\ time' >= time /\ behind' >= behind
    BY <1>15, <1>18 DEF PutBack, ClocksStep
  <2> QED  BY <1>1, <1>14, <2>1, <2>2, BucketsUntouched
<1> QED  BY <1>4, <1>5, <1>6, <1>7, <1>8, <1>9, <1>10, <1>11, <1>12, <1>13, <1>16, <1>17, <1>18
         DEF Next

LEMMA StutteringKeepsAll ==
  ASSUME RequestsInv, UNCHANGED vars
  PROVE  RequestsInv'
<1>1. /\ UNCHANGED <<time, behind, account, step, client, drawing, named, found, answer>>
      /\ UNCHANGED <<bucket, meter, inFlight, waiting, alarms, untold, told, work>>
  BY DEF vars, clocks, requests, limits, semaphore, alarming
<1>2. TypeOK'
  BY <1>1 DEF RequestsInv, TypeOK
<1>3. PlacesInv'
  BY <1>1 DEF RequestsInv, PlacesInv, PlacesAreCounted, Derivers, Waiter
<1>4. PathsInv'
  <2>1. \A r \in Request : PathInv(r)' <=> PathInv(r)
    BY <1>1 DEF PathInv, DrawsFor
  <2> QED  BY <2>1 DEF RequestsInv, PathsInv
<1>5. BucketsInv'
  BY <1>1 DEF RequestsInv, BucketsInv, BucketInv
<1>6. AlarmInv'
  <2>1. \A d \in told : InWindow(d)' <=> InWindow(d)
    BY <1>1 DEF InWindow
  <2>2. \A d \in told, n \in Nat : Outlasts(d, n)' <=> Outlasts(d, n)
    BY <1>1 DEF Outlasts
  <2> QED  BY <1>1, <2>1, <2>2 DEF RequestsInv, AlarmInv, NumbersInv, MemoryInv, Outlasts, AlarmsAreAccounted
<1> QED  BY <1>2, <1>3, <1>4, <1>5, <1>6 DEF RequestsInv

LEMMA InitKeepsAll ==
  ASSUME BoundsAssumption, Init
  PROVE  RequestsInv
<1>1. /\ Limit \in Nat \ {0} /\ Capacity \in Nat \ {0} /\ DeliveriesPerWindow \in Nat
      /\ MaxTime \in Nat /\ MaxBehind \in Nat /\ Standings \subseteq [Identifier -> Kind]
  BY DEF BoundsAssumption
<1>2. TypeOK
  <2>1. time \in 0 .. MaxTime /\ behind \in 0 .. MaxBehind /\ inFlight \in 0 .. Limit
    BY <1>1 DEF Init
  <2>2. account \in [Identifier -> Kind]
    BY <1>1 DEF Init
  <2>3. /\ step \in [Request -> Steps]
        /\ client \in [Request -> Client \cup {Nothing}]
        /\ drawing \in [Request -> {Nothing} \cup [bucket : Bucket, observedAt : -MaxBehind .. MaxTime]]
        /\ named \in [Request -> {Nothing} \cup [identifier : Identifier, password : Password]]
        /\ found \in [Request -> Kind \cup {Nothing}]
        /\ answer \in [Request -> {"none", "origin_not_allowed", "rate_limited", "invalid_credentials",
                                   "internal_error", "signed_in"}]
        /\ work \in [Request -> Seq({"address", "account", "check", "derive"})]
    BY DEF Init, Steps
  <2>4. bucket \in [Bucket -> {NoRow} \cup [tokens : Int, updated : Int, expires : Int]]
    BY DEF Init
  <2>5. meter \in [Bucket -> [excess : Nat, at : Int, retryAt : Int \cup {Nothing}]]
    BY DEF Init
  <2>6. waiting \in Seq([request : Request, queuedAt : 0 .. MaxTime])
    BY DEF Init
  <2>7. alarms \in [delivered : SUBSET Delivery, recent : SUBSET [at : Int, nth : Nat],
                    suppressed : Nat, aggregateWindowStart : Int, deliveries : Nat]
    BY DEF Init
  <2>8. untold \in Int /\ told \subseteq Delivery
    BY DEF Init
  <2> QED  BY <2>1, <2>2, <2>3, <2>4, <2>5, <2>6, <2>7, <2>8 DEF TypeOK
<1>3. PlacesInv
  <2>1. Derivers = {} /\ Queued = {}
    BY DEF Init, Derivers, Queued
  <2>2. waiting = <<>> /\ DOMAIN waiting = {} /\ inFlight = 0
    BY DEF Init
  <2>3. IsFiniteSet(Derivers) /\ inFlight = Cardinality(Derivers) /\ inFlight <= Limit
    BY <1>1, <2>1, <2>2, FS_EmptySet
  <2> QED  BY <2>1, <2>2, <2>3 DEF PlacesInv, PlacesAreCounted, Derivers, Queued, Waiter
<1>4. PathsInv
  BY DEF Init, PathsInv, PathInv
<1>5. BucketsInv
  <2>1. \A b \in Bucket : bucket[b] = NoRow /\ meter[b].excess = 0 /\ meter[b].retryAt = Nothing
    BY DEF Init
  <2> QED  BY <1>1, <2>1 DEF BucketsInv, BucketInv
<1>6. AlarmInv
  <2>1. /\ alarms.delivered = {} /\ alarms.recent = {} /\ alarms.suppressed = 0
        /\ told = {} /\ untold = 0
    BY DEF Init
  <2>2. {d \in told : d.key # Aggregate} = {}
    BY <2>1
  <2>5. Cardinality({}) = 0 /\ DeliveriesPerWindow >= 0
    BY <1>1, FS_EmptySet
  <2>3. Cardinality({d \in told : d.key # Aggregate}) <= DeliveriesPerWindow
    BY <2>2, <2>5
  <2>4. IsFiniteSet(alarms.recent) /\ Cardinality(alarms.recent) <= DeliveriesPerWindow
    BY <1>1, <2>1, FS_EmptySet
  <2> QED  BY <2>1, <2>3, <2>4 DEF AlarmInv, NumbersInv, MemoryInv, AlarmsAreAccounted
<1> QED  BY <1>2, <1>3, <1>4, <1>5, <1>6 DEF RequestsInv

(***************************************************************************)
(* The theorems.                                                           *)
(***************************************************************************)

\* The invariant of every behaviour.
LEMMA TheInvariantHolds == Spec => []RequestsInv
<1> USE BoundsAssumption
<1>1. Init => RequestsInv
  BY InitKeepsAll
<1>2. RequestsInv /\ [Next]_vars => RequestsInv'
  BY NextKeepsAll, StutteringKeepsAll DEF RequestsStep
<1> QED  BY <1>1, <1>2, PTL DEF Spec

\* Every variable keeps its type, the numbers of the semaphore and the buckets
\* and the record of the alarms among them.
THEOREM RequestsTyped == Spec => []TypeOK
<1>1. RequestsInv => TypeOK
  BY DEF RequestsInv
<1> QED  BY <1>1, TheInvariantHolds, PTL

\* However many requests come, leave and give up waiting, no place of the
\* semaphore is lost or given twice, and each goes to the first that has not
\* waited past the limit (semaphore.ts:71).
THEOREM PlacesGoOn == Spec => PlacesAreHandedOn
<1> USE BoundsAssumption
<1>1. RequestsInv /\ [Next]_vars => [PlacesAreCounted' /\ PlacesAreGivenInTurn]_vars
  BY NextKeepsAll DEF RequestsStep, RequestsInv, PlacesInv
<1> QED  BY <1>1, TheInvariantHolds, PTL DEF Spec, PlacesAreHandedOn

\* A sign-in that is not turned away costs the same whatever the account is,
\* and only the right password of a usable account opens it (verify.ts:74).
THEOREM SignInsCostAlike == Spec => RefusalsCostAlike
<1> USE BoundsAssumption
<1>1. RequestsInv /\ [Next]_vars =>
        [\A r \in Request : answer'[r] # answer[r] =>
           /\ answer'[r] = "signed_in" =>
                named[r].password = "right" /\ found[r] \in {"current", "outdated"}
           /\ answer'[r] \in {"signed_in", "invalid_credentials"} =>
                work'[r] = IF named[r].password = "unusable" THEN <<"address", "account">>
                           ELSE <<"address", "account", "check", "derive">>]_vars
  BY NextKeepsAll DEF RequestsStep, AnswersRight
<1> QED  BY <1>1, TheInvariantHolds, PTL DEF Spec, RefusalsCostAlike

\* No drawer is allowed more than a full bucket and what the observed time
\* refilled, and the wait a refusal names is enough.
THEOREM BucketsKeepToTheirTerms == Spec => BucketsKeepTheirTerms
<1> USE BoundsAssumption
<1>1. RequestsInv => MetersStayWithinCapacity
  BY DEF RequestsInv, BucketsInv, BucketInv, MetersStayWithinCapacity
<1>2. RequestsInv /\ [Next]_vars => [WaitsAreEnough]_vars
  BY NextKeepsAll DEF RequestsStep
<1> QED  BY <1>1, <1>2, TheInvariantHolds, PTL DEF Spec, BucketsKeepTheirTerms

\* Every alarm raised is told of or counted, no window sees more than the
\* limit of deliveries, and none the same alarm twice (alarm.ts:113).
THEOREM NoAlarmIsDropped == Spec => []AlarmsAreAccounted
<1>1. RequestsInv => AlarmsAreAccounted
  BY DEF RequestsInv, AlarmInv
<1> QED  BY <1>1, TheInvariantHolds, PTL

=============================================================================
