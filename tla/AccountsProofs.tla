--------------------------- MODULE AccountsProofs ---------------------------
(***************************************************************************)
(* Theorems about Accounts: the seal covers the ways in and these keep to  *)
(* their limits, the last way in stays, a sign-in is by a way the account  *)
(* has, a link joins a confirmed address, and a sign-up tells somebody.    *)
(***************************************************************************)
EXTENDS Accounts, FiniteSetTheorems, TLAPS

-----------------------------------------------------------------------------
(* The inductive invariant.                                                *)

\* What a request is called for fits the step it has come to.
CallOf(r) ==
  /\ step[r] \in {"register", "inserted"} => call[r].for \in {"signUp", "oauth"}
  /\ step[r] = "verify" => call[r].for = "oauth"
  /\ step[r] \in {"lock", "locked"} => call[r].for \in {"oauth", "link", "register", "remove"}
  /\ step[r] \in {"check", "record"} => call[r].for = "assert"
  /\ step[r] = "idle" => draws[r] = 0
  /\ call[r].for # "signUp" => draws[r] = 0

\* A request that has found, made or is to change an account knows which.
OwnerOf(r) ==
  /\ step[r] \in {"undo", "remove", "verify", "issue", "lock", "locked", "check", "record"} =>
       owner[r] \in Account
  /\ step[r] = "announce" /\ draws[r] = 0 => owner[r] \in Account

\* The account lock keeps what was read under it.
LockOf(r) ==
  step[r] = "locked" =>
    /\ owner[r] \in Live /\ seen[r] = ways[owner[r]]
    /\ call[r].for = "oauth" => owner[r] \in HeldBy("address") \cap confirmed
    /\ \A q \in Request : q # r /\ step[q] = "locked" => owner[q] # owner[r]

\* A sign-up that met a value in use meets it again, and one that found the
\* address taken knows by whom, as long as no account ended, left the address or
\* gave up the name asked for.
ToldOf(r) ==
  r \notin bereft \cup renamed =>
    /\ step[r] = "violated" => \E v \in Values(r) : HeldBy(v) # {}
    /\ step[r] = "lost" => HeldBy("address") # {}
    /\ draws[r] > 0 => owner[r] # Nobody

OfRequest(r) == CallOf(r) /\ OwnerOf(r) /\ LockOf(r) /\ ToldOf(r)

RequestInv == \A r \in Request : OfRequest(r)

\* An account has finitely many ways in.
FiniteInv == \A u \in Account : IsFiniteSet(ways[u])

AccountsInv ==
  /\ TypeOK
  /\ RequestInv
  /\ FiniteInv
  /\ SealCoversTheWaysIn

-----------------------------------------------------------------------------
(* What the operators do to the requests and the accounts.                 *)

\* What a call is made with.
LEMMA Calls ==
  ASSUME NEW c \in Call \cup {NoCall}
  PROVE  /\ c.for \in {"nothing", "signUp", "oauth", "assert", "link", "register", "remove"}
         /\ c.for \in {"oauth", "link"} => c.way \in Subject
         /\ c.for \in {"assert", "register"} => c.way \in Passkey
         /\ c.for = "remove" => c.way \in Subject \cup Passkey
         /\ c.for \in {"link", "register", "remove"} => c.by \in Account
<1>1. ASSUME NEW Flag,
             NEW d \in [for : {"signUp"}, named : Flag, password : Flag]
                       \cup [for : {"oauth"}, way : Subject, verified : Flag]
                       \cup [for : {"assert"}, way : Passkey]
                       \cup [for : {"link"}, by : Account, way : Subject]
                       \cup [for : {"register"}, by : Account, way : Passkey]
                       \cup [for : {"remove"}, by : Account, way : Subject \cup Passkey]
      PROVE  /\ d.for \in {"nothing", "signUp", "oauth", "assert", "link", "register", "remove"}
             /\ d.for \in {"oauth", "link"} => d.way \in Subject
             /\ d.for \in {"assert", "register"} => d.way \in Passkey
             /\ d.for = "remove" => d.way \in Subject \cup Passkey
             /\ d.for \in {"link", "register", "remove"} => d.by \in Account
  OBVIOUS
<1>2. CASE c \in Call
  BY <1>1, <1>2, Zenon DEF Call
<1>3. CASE c = NoCall
  BY <1>3 DEF NoCall
<1> QED  BY <1>2, <1>3

\* What the invariant says of a request's call.
LEMMA CallTypes ==
  ASSUME TypeOK, NEW r \in Request
  PROVE  /\ call[r].for \in {"nothing", "signUp", "oauth", "assert", "link", "register", "remove"}
         /\ call[r].for \in {"oauth", "link"} => call[r].way \in Subject
         /\ call[r].for \in {"assert", "register"} => call[r].way \in Passkey
         /\ call[r].for = "remove" => call[r].way \in Subject \cup Passkey
         /\ call[r].for \in {"link", "register", "remove"} => call[r].by \in Account
<1>1. call[r] \in Call \cup {NoCall}
  BY DEF TypeOK
<1> QED  BY <1>1, Calls

LEMMA NoCallFor == NoCall.for = "nothing" /\ NoCall \in Call \cup {NoCall}
BY DEF NoCall

\* A request other than r neither moves nor learns anything.
OnlyMoves(r) ==
  \A q \in Request : q # r =>
    /\ step'[q] = step[q] /\ call'[q] = call[q] /\ owner'[q] = owner[q]
    /\ draws'[q] = draws[q] /\ seen'[q] = seen[q]

RequestsTyped ==
  /\ step' \in [Request -> Step] /\ call' \in [Request -> Call \cup {NoCall}]
  /\ owner' \in [Request -> Account \cup {Nobody}] /\ draws' \in [Request -> 0 .. CoverDraws]
  /\ seen' \in [Request -> SUBSET Way]

\* A call ends.
LEMMA EndMoves ==
  ASSUME TypeOK, NEW r \in Request, NEW how, End(r, how)
  PROVE  /\ RequestsTyped /\ OnlyMoves(r)
         /\ step'[r] = "idle" /\ call'[r] = NoCall /\ owner'[r] = Nobody /\ draws'[r] = 0
         /\ seen'[r] = {}
<1>1. /\ step' \in [Request -> Step] /\ step'[r] = "idle"
      /\ \A q \in Request : q # r => step'[q] = step[q]
  BY DEF End, TypeOK, Step
<1>2. /\ call' \in [Request -> Call \cup {NoCall}] /\ call'[r] = NoCall
      /\ \A q \in Request : q # r => call'[q] = call[q]
  BY DEF End, TypeOK
<1>3. /\ owner' \in [Request -> Account \cup {Nobody}] /\ owner'[r] = Nobody
      /\ \A q \in Request : q # r => owner'[q] = owner[q]
  BY DEF End, TypeOK
<1>4. /\ draws' \in [Request -> 0 .. CoverDraws] /\ draws'[r] = 0
      /\ \A q \in Request : q # r => draws'[q] = draws[q]
  BY DEF End, TypeOK, CoverDraws
<1>5. /\ seen' \in [Request -> SUBSET Way] /\ seen'[r] = {}
      /\ \A q \in Request : q # r => seen'[q] = seen[q]
  BY DEF End, TypeOK
<1> QED  BY <1>1, <1>2, <1>3, <1>4, <1>5 DEF RequestsTyped, OnlyMoves

\* A call goes on to another step.
LEMMA ProceedMoves ==
  ASSUME TypeOK, NEW r \in Request, NEW to \in Step, Proceed(r, to)
  PROVE  /\ step' \in [Request -> Step] /\ step'[r] = to
         /\ \A q \in Request : q # r => step'[q] = step[q]
BY DEF Proceed, TypeOK

\* One is taken of what was found.
LEMMA OneOfFound ==
  ASSUME NEW found
  PROVE  /\ found = {} => OneOf(found) = Nobody
         /\ found # {} => OneOf(found) \in found
BY DEF OneOf

-----------------------------------------------------------------------------
(* What a step of one request leaves of the others.                        *)

\* An account nobody else has locked may change; the others keep what was read
\* of them.
AccountStep(r, u) ==
  \/ \A q \in Request : q # r /\ step[q] = "locked" => owner[q] # u
  \/ /\ status'[u] = status[u] /\ holds'[u] = holds[u] /\ ways'[u] = ways[u]
     /\ u \in confirmed' <=> u \in confirmed

\* What is held stays held, or the others know that an account ended or left, or
\* gave up the name they ask for.
NameStep(r) ==
  \/ HeldBy("name") \subseteq HeldBy("name")'
  \/ \A q \in Request : q # r /\ step[q] # "idle" /\ "name" \in Values(q) => q \in renamed'

HoldsStep(r) ==
  \/ HeldBy("address") \subseteq HeldBy("address")' /\ NameStep(r)
  \/ \A q \in Request : q # r /\ step[q] # "idle" => q \in bereft'

Apart(r) ==
  /\ OnlyMoves(r)
  /\ \A u \in Account : AccountStep(r, u)
  /\ HoldsStep(r)
  /\ \A q \in Request : q # r /\ step[q] # "idle" /\ q \in bereft => q \in bereft'
  /\ \A q \in Request : q # r /\ step[q] # "idle" /\ q \in renamed => q \in renamed'
  /\ r \in Request /\ step'[r] = "locked" =>
       \A q \in Request : q # r /\ step[q] = "locked" => owner[q] # owner'[r]

LEMMA OthersKeep ==
  ASSUME AccountsInv, NEW r, Apart(r), NEW q \in Request, q # r
  PROVE  OfRequest(q)'
<1>1. /\ step'[q] = step[q] /\ call'[q] = call[q] /\ owner'[q] = owner[q]
      /\ draws'[q] = draws[q] /\ seen'[q] = seen[q]
  BY DEF Apart, OnlyMoves
<1>2. OfRequest(q)
  BY DEF AccountsInv, RequestInv
<1>3. CallOf(q)' /\ OwnerOf(q)'
  BY <1>1, <1>2 DEF OfRequest, CallOf, OwnerOf
<1>4. LockOf(q)'
  <2> SUFFICES ASSUME step[q] = "locked"
               PROVE  /\ owner[q] \in Live' /\ seen[q] = ways'[owner[q]]
                      /\ call[q].for = "oauth" => owner[q] \in HeldBy("address")' \cap confirmed'
                      /\ \A p \in Request : p # q /\ step'[p] = "locked" => owner'[p] # owner[q]
    BY <1>1 DEF LockOf
  <2>1. /\ owner[q] \in Account /\ owner[q] \in Live /\ seen[q] = ways[owner[q]]
        /\ call[q].for = "oauth" => owner[q] \in HeldBy("address") \cap confirmed
        /\ \A p \in Request : p # q /\ step[p] = "locked" => owner[p] # owner[q]
    BY <1>2 DEF OfRequest, LockOf, Live
  <2>2. /\ status'[owner[q]] = status[owner[q]] /\ holds'[owner[q]] = holds[owner[q]]
        /\ ways'[owner[q]] = ways[owner[q]]
        /\ owner[q] \in confirmed' <=> owner[q] \in confirmed
    BY <2>1 DEF Apart, AccountStep
  <2>3. ASSUME NEW p \in Request, p # q, step'[p] = "locked" PROVE owner'[p] # owner[q]
    <3>1. CASE p = r
      BY <2>3, <3>1 DEF Apart
    <3>2. CASE p # r
      BY <2>1, <2>3, <3>2 DEF Apart, OnlyMoves
    <3> QED  BY <3>1, <3>2
  <2> QED  BY <2>1, <2>2, <2>3 DEF Live, HeldBy
<1>5. ToldOf(q)'
  <2> SUFFICES ASSUME q \notin bereft' \cup renamed'
               PROVE  /\ step[q] = "violated" => \E v \in Values(q) : HeldBy(v)' # {}
                      /\ step[q] = "lost" => HeldBy("address")' # {}
                      /\ draws[q] > 0 => owner[q] # Nobody
    <3>1. Values(q)' = Values(q)
      BY <1>1 DEF Values
    <3> QED  BY <1>1, <3>1 DEF ToldOf
  <2>1. CASE step[q] = "idle"
    BY <1>2, <2>1 DEF OfRequest, CallOf
  <2>2. CASE step[q] # "idle"
    <3>1. /\ q \notin bereft \cup renamed /\ HeldBy("address") \subseteq HeldBy("address")'
          /\ "name" \in Values(q) => HeldBy("name") \subseteq HeldBy("name")'
      BY <2>2 DEF Apart, HoldsStep, NameStep
    <3>2. Values(q) \subseteq {"address", "name"}
      BY DEF Values
    <3>3. /\ step[q] = "violated" => \E v \in Values(q) : HeldBy(v) # {}
          /\ step[q] = "lost" => HeldBy("address") # {}
          /\ draws[q] > 0 => owner[q] # Nobody
      BY <1>2, <3>1 DEF OfRequest, ToldOf
    <3>4. ASSUME step[q] = "violated" PROVE \E v \in Values(q) : HeldBy(v)' # {}
      <4>1. PICK v \in Values(q) : HeldBy(v) # {}
        BY <3>3, <3>4
      <4>2. HeldBy(v) \subseteq HeldBy(v)'
        BY <3>1, <3>2
      <4> QED  BY <4>1, <4>2
    <3>5. ASSUME step[q] = "lost" PROVE HeldBy("address")' # {}
      <4>1. HeldBy("address") # {} /\ HeldBy("address") \subseteq HeldBy("address")'
        BY <3>1, <3>3, <3>5
      <4> QED  BY <4>1
    <3> QED  BY <3>3, <3>4, <3>5
  <2> QED  BY <2>1, <2>2
<1> QED  BY <1>3, <1>4, <1>5 DEF OfRequest

\* A request that has ended owes nothing.
LEMMA IdleKeeps ==
  ASSUME NEW r, step'[r] = "idle", draws'[r] = 0
  PROVE  OfRequest(r)'
BY DEF OfRequest, CallOf, OwnerOf, LockOf, ToldOf

\* A step that keeps what the invariant says of r and of the ways in keeps all of it.
LEMMA StepKeeps ==
  ASSUME AccountsInv, TypeOK', NEW r, Apart(r), r \in Request => OfRequest(r)',
         FiniteInv', SealCoversTheWaysIn'
  PROVE  AccountsInv'
<1>1. ASSUME NEW q \in Request PROVE OfRequest(q)'
  <2>1. CASE q = r
    BY <2>1
  <2>2. CASE q # r
    BY <2>2, OthersKeep
  <2> QED  BY <2>1, <2>2
<1> QED  BY <1>1 DEF AccountsInv, RequestInv

-----------------------------------------------------------------------------
(* The steps that change no account.                                       *)

LEMMA QuietKeeps ==
  ASSUME AccountsInv, NEW r \in Request, UNCHANGED <<status, holds, confirmed, ways, sealed>>,
         link' \in [Account -> {"none", "minted", "mailed", "spent"}],
         RequestsTyped, OnlyMoves(r),
         bereft' \subseteq Request, \A q \in Request : q # r => (q \in bereft' <=> q \in bereft),
         renamed' \subseteq Request, \A q \in Request : q # r => (q \in renamed' <=> q \in renamed),
         calls' \in 0 .. MaxCalls, deletions' \in 0 .. MaxDeletions,
         step'[r] = "locked" => \A q \in Request : q # r /\ step[q] = "locked" => owner[q] # owner'[r],
         OfRequest(r)'
  PROVE  AccountsInv'
<1>1. /\ status' = status /\ holds' = holds /\ confirmed' = confirmed /\ ways' = ways
      /\ sealed' = sealed
  OBVIOUS
<1>2. TypeOK'
  BY <1>1 DEF AccountsInv, TypeOK, RequestsTyped, Live
<1>3. Apart(r)
  BY <1>1 DEF Apart, AccountStep, HoldsStep, NameStep, HeldBy, Live
<1>4. FiniteInv' /\ SealCoversTheWaysIn'
  BY <1>1 DEF AccountsInv, FiniteInv, SealCoversTheWaysIn
<1> QED  BY <1>2, <1>3, <1>4, StepKeeps

\* A call that ends where no account changes.
LEMMA EndKeeps ==
  ASSUME AccountsInv, NEW r \in Request, NEW how, End(r, how), Quietly
  PROVE  AccountsInv'
<1>1. /\ RequestsTyped /\ OnlyMoves(r) /\ step'[r] = "idle" /\ draws'[r] = 0
  BY EndMoves DEF AccountsInv
<1>2. /\ UNCHANGED <<status, holds, confirmed, ways, sealed>> /\ link' = link
      /\ bereft' = bereft /\ renamed' = renamed /\ calls' = calls /\ deletions' = deletions
  BY DEF Quietly, bounds, accounts, told
<1>3. /\ link' \in [Account -> {"none", "minted", "mailed", "spent"}]
      /\ bereft' \subseteq Request /\ renamed' \subseteq Request
      /\ calls' \in 0 .. MaxCalls /\ deletions' \in 0 .. MaxDeletions
  BY <1>2 DEF AccountsInv, TypeOK
<1> QED  BY <1>1, <1>2, <1>3, IdleKeeps, QuietKeeps

\* A call that goes on where no account changes.
LEMMA GoesOn ==
  ASSUME AccountsInv, NEW r \in Request, NEW to \in Step, Proceed(r, to), Quietly,
         call' = call, seen' = seen, owner' \in [Request -> Account \cup {Nobody}],
         draws' \in [Request -> 0 .. CoverDraws],
         \A q \in Request : q # r => owner'[q] = owner[q] /\ draws'[q] = draws[q],
         to # "locked", CallOf(r)', OwnerOf(r)', ToldOf(r)'
  PROVE  AccountsInv'
<1>1. /\ step' \in [Request -> Step] /\ step'[r] = to
      /\ \A q \in Request : q # r => step'[q] = step[q]
  BY ProceedMoves DEF AccountsInv
<1>2. RequestsTyped /\ OnlyMoves(r)
  BY <1>1 DEF RequestsTyped, OnlyMoves, AccountsInv, TypeOK
<1>3. /\ UNCHANGED <<status, holds, confirmed, ways, sealed>> /\ link' = link
      /\ bereft' = bereft /\ renamed' = renamed /\ calls' = calls /\ deletions' = deletions
  BY DEF Quietly, bounds, accounts, told
<1>4. /\ link' \in [Account -> {"none", "minted", "mailed", "spent"}]
      /\ bereft' \subseteq Request /\ renamed' \subseteq Request
      /\ calls' \in 0 .. MaxCalls /\ deletions' \in 0 .. MaxDeletions
  BY <1>3 DEF AccountsInv, TypeOK
<1>5. OfRequest(r)'
  BY <1>1 DEF OfRequest, LockOf
<1> QED  BY <1>1, <1>2, <1>3, <1>4, <1>5, QuietKeeps

LEMMA BeginKeeps ==
  ASSUME AccountsInv, NEW r \in Request, NEW c \in Call, Begin(r, c)
  PROVE  AccountsInv'
<1>1. /\ step[r] = "idle" /\ bereft' = bereft \ {r} /\ renamed' = renamed \ {r}
      /\ draws' = draws /\ seen' = seen
      /\ UNCHANGED <<status, holds, confirmed, ways, sealed>> /\ link' = link
      /\ calls' = calls + 1 /\ calls < MaxCalls /\ deletions' = deletions
  BY DEF Begin, accounts
<1>2. draws[r] = 0
  BY <1>1 DEF AccountsInv, RequestInv, OfRequest, CallOf
<1>3. \/ step' = step /\ call' = call /\ owner' = owner
      \/ /\ call' = [call EXCEPT ![r] = c]
         /\ owner' = [owner EXCEPT ![r] = IF OfTheOwner(c) THEN c.by ELSE Nobody]
         /\ Proceed(r, IF OfTheOwner(c) THEN "lock" ELSE "begun")
  BY DEF Begin
<1>4. c.for \in {"signUp", "oauth", "assert", "link", "register", "remove"} /\ c \in Call \cup {NoCall}
      /\ (OfTheOwner(c) => c.by \in Account)
  <2>1. c.for # "nothing"
    BY Zenon DEF Call
  <2> QED  BY <2>1, Calls DEF OfTheOwner
<1>5. /\ RequestsTyped /\ OnlyMoves(r) /\ step'[r] # "locked" /\ OfRequest(r)'
  <2>1. CASE step' = step /\ call' = call /\ owner' = owner
    <3>1. RequestsTyped /\ OnlyMoves(r)
      BY <1>1, <2>1 DEF RequestsTyped, OnlyMoves, AccountsInv, TypeOK
    <3>2. step'[r] = "idle" /\ draws'[r] = 0
      BY <1>1, <1>2, <2>1
    <3> QED  BY <3>1, <3>2, IdleKeeps
  <2>2. CASE /\ call' = [call EXCEPT ![r] = c]
             /\ owner' = [owner EXCEPT ![r] = IF OfTheOwner(c) THEN c.by ELSE Nobody]
             /\ Proceed(r, IF OfTheOwner(c) THEN "lock" ELSE "begun")
    <3>1. PICK to \in Step : /\ Proceed(r, to) /\ to \in {"lock", "begun"}
                             /\ to = "lock" <=> OfTheOwner(c)
      BY <2>2 DEF Step
    <3>2. /\ step' \in [Request -> Step] /\ step'[r] = to
          /\ \A q \in Request : q # r => step'[q] = step[q]
      BY <3>1, ProceedMoves DEF AccountsInv
    <3>3. /\ call' \in [Request -> Call \cup {NoCall}] /\ call'[r] = c
          /\ \A q \in Request : q # r => call'[q] = call[q]
      BY <1>4, <2>2 DEF AccountsInv, TypeOK
    <3>4. /\ owner' \in [Request -> Account \cup {Nobody}]
          /\ owner'[r] = (IF OfTheOwner(c) THEN c.by ELSE Nobody)
          /\ \A q \in Request : q # r => owner'[q] = owner[q]
      BY <1>4, <2>2 DEF AccountsInv, TypeOK
    <3>5. RequestsTyped /\ OnlyMoves(r)
      BY <1>1, <3>2, <3>3, <3>4 DEF RequestsTyped, OnlyMoves, AccountsInv, TypeOK
    <3>6. draws'[r] = 0
      BY <1>1, <1>2
    <3>7. CallOf(r)'
      BY <1>4, <3>1, <3>2, <3>3, <3>6 DEF CallOf, OfTheOwner
    <3>8. OwnerOf(r)' /\ LockOf(r)' /\ ToldOf(r)'
      BY <1>4, <3>1, <3>2, <3>4, <3>6 DEF OwnerOf, LockOf, ToldOf
    <3> QED  BY <3>1, <3>2, <3>5, <3>7, <3>8 DEF OfRequest
  <2> QED  BY <1>3, <2>1, <2>2
<1>6. /\ link' \in [Account -> {"none", "minted", "mailed", "spent"}]
      /\ bereft' \subseteq Request /\ renamed' \subseteq Request
      /\ calls' \in 0 .. MaxCalls /\ deletions' \in 0 .. MaxDeletions
      /\ \A q \in Request : q # r => (q \in bereft' <=> q \in bereft) /\ (q \in renamed' <=> q \in renamed)
  BY <1>1, BoundsAssumption DEF AccountsInv, TypeOK
<1> QED  BY <1>1, <1>5, <1>6, QuietKeeps

\* The owner that is looked for is the one the address has.
LEMMA FindAddressOwnerKeeps ==
  ASSUME AccountsInv, NEW r \in Request, FindAddressOwner(r)
  PROVE  AccountsInv'
<1> DEFINE found == OneOf(HeldBy("address"))
           drawn == IF step[r] = "lost" \/ HeldBy("address") # {} THEN 1 ELSE 0
<1>1. /\ step[r] \in {"begun", "lost"} /\ call[r].for = "signUp"
      /\ owner' = [owner EXCEPT ![r] = found] /\ draws' = [draws EXCEPT ![r] = drawn]
      /\ Proceed(r, "register") /\ Quietly /\ call' = call /\ seen' = seen
  BY DEF FindAddressOwner
<1>2. /\ HeldBy("address") # {} => found \in HeldBy("address")
      /\ HeldBy("address") = {} => found = Nobody
      /\ HeldBy("address") \subseteq Account /\ Nobody \notin Account
  BY OneOfFound, BoundsAssumption DEF HeldBy, Live
<1> HIDE DEF found
<1>3. /\ owner' \in [Request -> Account \cup {Nobody}] /\ owner'[r] = found
      /\ \A q \in Request : q # r => owner'[q] = owner[q]
  BY <1>1, <1>2 DEF AccountsInv, TypeOK
<1>4. /\ draws' \in [Request -> 0 .. CoverDraws] /\ draws'[r] = drawn
      /\ \A q \in Request : q # r => draws'[q] = draws[q]
  BY <1>1 DEF AccountsInv, TypeOK, CoverDraws
<1>5. step'[r] = "register" /\ "register" \in Step /\ bereft' = bereft /\ renamed' = renamed
  BY <1>1 DEF Proceed, AccountsInv, TypeOK, Step, Quietly, told
<1>6. CallOf(r)' /\ OwnerOf(r)'
  BY <1>1, <1>5 DEF CallOf, OwnerOf
<1>7. ToldOf(r)'
  <2>1. r \notin bereft \cup renamed => (drawn > 0 => HeldBy("address") # {})
    BY DEF AccountsInv, RequestInv, OfRequest, ToldOf
  <2> QED  BY <1>2, <1>3, <1>4, <1>5, <2>1 DEF ToldOf
<1> QED  BY <1>1, <1>3, <1>4, <1>5, <1>6, <1>7, GoesOn

\* Requests whose call goes on unchanged.
LEMMA OnlySteps ==
  ASSUME AccountsInv, NEW r \in Request, NEW to \in Step, Proceed(r, to), Quietly, UNCHANGED requests,
         to # "locked", CallOf(r)', OwnerOf(r)', ToldOf(r)'
  PROVE  AccountsInv'
<1>1. call' = call /\ seen' = seen /\ owner' = owner /\ draws' = draws
  BY DEF requests
<1>2. owner' \in [Request -> Account \cup {Nobody}] /\ draws' \in [Request -> 0 .. CoverDraws]
  BY <1>1 DEF AccountsInv, TypeOK
<1> QED  BY <1>1, <1>2, GoesOn

\* What a call that goes on unchanged still knows.
LEMMA StillTold ==
  ASSUME AccountsInv, NEW r \in Request, Quietly, UNCHANGED requests,
         step'[r] \notin {"violated", "lost"}
  PROVE  ToldOf(r)'
<1>1. bereft' = bereft /\ renamed' = renamed /\ draws' = draws /\ owner' = owner
  BY DEF Quietly, requests, told
<1> QED  BY <1>1 DEF ToldOf, AccountsInv, RequestInv, OfRequest

LEMMA InsertUserKeeps ==
  ASSUME AccountsInv, NEW r \in Request, InsertUser(r)
  PROVE  AccountsInv'
<1>1. step[r] = "register" /\ Quietly /\ OfRequest(r)
  BY DEF InsertUser, AccountsInv, RequestInv
<1>2. ASSUME Proceed(r, "inserted"), UNCHANGED requests PROVE AccountsInv'
  <2>1. step'[r] = "inserted" /\ "inserted" \in Step
    BY <1>2 DEF Proceed, AccountsInv, TypeOK, Step
  <2>2. CallOf(r)' /\ OwnerOf(r)'
    BY <1>1, <1>2, <2>1 DEF OfRequest, CallOf, OwnerOf, requests
  <2>3. ToldOf(r)'
    BY <1>1, <1>2, <2>1, StillTold
  <2> QED  BY <1>1, <1>2, <2>1, <2>2, <2>3, OnlySteps
<1>3. ASSUME Proceed(r, "violated"), UNCHANGED requests, call[r].for = "signUp",
             NEW v \in Values(r), HeldBy(v) # {}
      PROVE  AccountsInv'
  <2>1. step'[r] = "violated" /\ "violated" \in Step
    BY <1>3 DEF Proceed, AccountsInv, TypeOK, Step
  <2>2. CallOf(r)' /\ OwnerOf(r)'
    BY <1>1, <1>3, <2>1 DEF OfRequest, CallOf, OwnerOf, requests
  <2>3. ToldOf(r)'
    <3>1. Values(r)' = Values(r) /\ HeldBy(v)' = HeldBy(v) /\ bereft' = bereft /\ renamed' = renamed
      BY <1>1, <1>3 DEF Values, HeldBy, Live, requests, Quietly, accounts, told
    <3>2. draws'[r] = draws[r] /\ owner'[r] = owner[r]
      BY <1>3 DEF requests
    <3> QED  BY <1>1, <1>3, <2>1, <3>1, <3>2 DEF OfRequest, ToldOf
  <2> QED  BY <1>1, <1>3, <2>1, <2>2, <2>3, OnlySteps
<1>4. ASSUME End(r, "refused") PROVE AccountsInv'
  BY <1>1, <1>4, EndKeeps
<1> QED  BY <1>2, <1>3, <1>4 DEF InsertUser

LEMMA DiscardRegistrationKeeps ==
  ASSUME AccountsInv, NEW r \in Request, DiscardRegistration(r)
  PROVE  AccountsInv'
<1>1. /\ step[r] = "inserted" /\ draws[r] > 0 /\ Proceed(r, "announce") /\ Quietly
      /\ UNCHANGED requests /\ OfRequest(r)
  BY DEF DiscardRegistration, AccountsInv, RequestInv
<1>2. step'[r] = "announce" /\ "announce" \in Step
  BY <1>1 DEF Proceed, AccountsInv, TypeOK, Step
<1>3. draws[r] # 0
  BY <1>1 DEF AccountsInv, TypeOK
<1>4. CallOf(r)' /\ OwnerOf(r)'
  BY <1>1, <1>2, <1>3 DEF OfRequest, CallOf, OwnerOf, requests
<1>5. ToldOf(r)'
  BY <1>1, <1>2, StillTold
<1> QED  BY <1>1, <1>2, <1>4, <1>5, OnlySteps

\* A value in use that was not the name was the address.
LEMMA AskForTheNameKeeps ==
  ASSUME AccountsInv, NEW r \in Request, AskForTheName(r)
  PROVE  AccountsInv'
<1>1. step[r] = "violated" /\ Quietly /\ OfRequest(r)
  BY DEF AskForTheName, AccountsInv, RequestInv
<1>2. ASSUME NEW how, End(r, how) PROVE AccountsInv'
  BY <1>1, <1>2, EndKeeps
<1>3. ASSUME ~ (call[r].named /\ HeldBy("name") # {}), draws[r] # CoverDraws,
             draws' = [draws EXCEPT ![r] = IF @ = 0 THEN 0 ELSE @ + 1],
             Proceed(r, IF draws[r] = 0 THEN "lost" ELSE "register"),
             UNCHANGED <<call, owner, seen>>
      PROVE  AccountsInv'
  <2>1. PICK to \in Step : /\ Proceed(r, to)
                           /\ to = (IF draws[r] = 0 THEN "lost" ELSE "register")
    BY <1>3 DEF Step
  <2>2. step'[r] = to
    BY <2>1 DEF Proceed, AccountsInv, TypeOK
  <2>3. /\ draws' \in [Request -> 0 .. CoverDraws]
        /\ draws'[r] = (IF draws[r] = 0 THEN 0 ELSE draws[r] + 1)
        /\ \A q \in Request : q # r => draws'[q] = draws[q]
    BY <1>3 DEF AccountsInv, TypeOK, CoverDraws
  <2>4. call' = call /\ owner' = owner /\ seen' = seen /\ bereft' = bereft /\ renamed' = renamed
    BY <1>1, <1>3 DEF Quietly, told
  <2>5. draws[r] \in Nat /\ (draws[r] # 0 => call[r].for = "signUp")
    BY <1>1 DEF OfRequest, CallOf, AccountsInv, TypeOK
  <2>6. CallOf(r)' /\ OwnerOf(r)'
    BY <2>1, <2>2, <2>3, <2>4, <2>5 DEF CallOf, OwnerOf
  <2>7. ToldOf(r)'
    <3> SUFFICES ASSUME r \notin bereft \cup renamed
                 PROVE  /\ to = "lost" => HeldBy("address")' # {}
                        /\ draws'[r] > 0 => owner[r] # Nobody
      BY <2>1, <2>2, <2>4 DEF ToldOf
    <3>1. PICK v \in Values(r) : HeldBy(v) # {}
      BY <1>1 DEF OfRequest, ToldOf
    <3>2. v = "address" /\ draws[r] = 0
      BY <1>3, <3>1 DEF Values
    <3>3. HeldBy("address")' = HeldBy("address")
      BY <1>1 DEF Quietly, accounts, HeldBy, Live
    <3> QED  BY <1>1, <2>3, <2>5, <3>1, <3>2, <3>3 DEF OfRequest, ToldOf
  <2>8. owner' \in [Request -> Account \cup {Nobody}]
    BY <2>4 DEF AccountsInv, TypeOK
  <2> QED  BY <1>1, <2>1, <2>3, <2>4, <2>6, <2>7, <2>8, GoesOn
<1> QED  BY <1>2, <1>3 DEF AskForTheName

\* A call that ends where at most a link changes.
LEMMA AnnounceKeeps ==
  ASSUME AccountsInv, NEW r \in Request, Announce(r)
  PROVE  AccountsInv'
<1>1. /\ End(r, "created") /\ UNCHANGED <<status, holds, confirmed, ways, sealed, told, bounds>>
      /\ link' = [u \in Account |->
                   IF u = owner[r] /\ draws[r] = 0 /\ link[u] = "minted" THEN "mailed" ELSE link[u]]
  BY DEF Announce
<1>2. link' \in [Account -> {"none", "minted", "mailed", "spent"}]
  BY <1>1 DEF AccountsInv, TypeOK
<1>3. RequestsTyped /\ OnlyMoves(r) /\ step'[r] = "idle" /\ draws'[r] = 0
  BY <1>1, EndMoves DEF AccountsInv
<1>4. /\ bereft' = bereft /\ bereft' \subseteq Request /\ renamed' = renamed /\ renamed' \subseteq Request
      /\ calls' \in 0 .. MaxCalls /\ deletions' \in 0 .. MaxDeletions
  BY <1>1 DEF AccountsInv, TypeOK, bounds, told
<1> QED  BY <1>1, <1>2, <1>3, <1>4, IdleKeeps, QuietKeeps

LEMMA AnnounceFailsKeeps ==
  ASSUME AccountsInv, NEW r \in Request, AnnounceFails(r)
  PROVE  AccountsInv'
<1>1. /\ step[r] = "announce" /\ OfRequest(r)
      /\ UNCHANGED <<status, holds, confirmed, ways, sealed, told, bounds>>
      /\ \/ link' = link
         \/ link' = [u \in Account |->
                      IF u = owner[r] /\ draws[r] = 0 /\ link[u] = "minted" THEN "mailed" ELSE link[u]]
      /\ IF draws[r] = 0 THEN Proceed(r, "undo") /\ UNCHANGED requests ELSE End(r, "failed")
  BY DEF AnnounceFails, AccountsInv, RequestInv
<1>2. link' \in [Account -> {"none", "minted", "mailed", "spent"}]
  BY <1>1 DEF AccountsInv, TypeOK
<1>3. /\ RequestsTyped /\ OnlyMoves(r) /\ OfRequest(r)' /\ step'[r] # "locked"
  <2>1. CASE draws[r] = 0
    <3>1. Proceed(r, "undo") /\ "undo" \in Step
      BY <1>1, <2>1 DEF Step
    <3>2. /\ step' \in [Request -> Step] /\ step'[r] = "undo"
          /\ \A q \in Request : q # r => step'[q] = step[q]
      BY <3>1, ProceedMoves DEF AccountsInv
    <3>3. call' = call /\ owner' = owner /\ draws' = draws /\ seen' = seen
      BY <1>1, <2>1 DEF requests
    <3>4. RequestsTyped /\ OnlyMoves(r)
      BY <3>2, <3>3 DEF RequestsTyped, OnlyMoves, AccountsInv, TypeOK
    <3> QED
      BY <1>1, <2>1, <3>2, <3>3, <3>4 DEF OfRequest, CallOf, OwnerOf, LockOf, ToldOf
  <2>2. CASE draws[r] # 0
    <3>1. RequestsTyped /\ OnlyMoves(r) /\ step'[r] = "idle" /\ draws'[r] = 0
      BY <1>1, <2>2, EndMoves DEF AccountsInv
    <3> QED  BY <3>1, IdleKeeps
  <2> QED  BY <2>1, <2>2
<1>4. /\ bereft' = bereft /\ bereft' \subseteq Request /\ renamed' = renamed /\ renamed' \subseteq Request
      /\ calls' \in 0 .. MaxCalls /\ deletions' \in 0 .. MaxDeletions
  BY <1>1 DEF AccountsInv, TypeOK, bounds, told
<1> QED  BY <1>1, <1>2, <1>3, <1>4, QuietKeeps

LEMMA SpendLinkKeeps ==
  ASSUME AccountsInv, NEW r \in Request, SpendLink(r)
  PROVE  AccountsInv'
<1>1. /\ step[r] = "undo" /\ OfRequest(r)
      /\ UNCHANGED <<status, holds, confirmed, ways, sealed, requests, told, bounds>>
      /\ link' = [link EXCEPT ![owner[r]] = IF @ = "none" THEN @ ELSE "spent"]
      /\ Proceed(r, "remove") /\ "remove" \in Step
  BY DEF SpendLink, AccountsInv, RequestInv, Step
<1>2. link' \in [Account -> {"none", "minted", "mailed", "spent"}]
  BY <1>1 DEF AccountsInv, TypeOK
<1>3. /\ step' \in [Request -> Step] /\ step'[r] = "remove"
      /\ \A q \in Request : q # r => step'[q] = step[q]
  BY <1>1, ProceedMoves DEF AccountsInv
<1>4. call' = call /\ owner' = owner /\ draws' = draws /\ seen' = seen
  BY <1>1 DEF requests
<1>5. RequestsTyped /\ OnlyMoves(r)
  BY <1>3, <1>4 DEF RequestsTyped, OnlyMoves, AccountsInv, TypeOK
<1>6. OfRequest(r)'
  BY <1>1, <1>3, <1>4 DEF OfRequest, CallOf, OwnerOf, LockOf, ToldOf, told
<1>7. /\ bereft' = bereft /\ bereft' \subseteq Request /\ renamed' = renamed /\ renamed' \subseteq Request
      /\ calls' \in 0 .. MaxCalls /\ deletions' \in 0 .. MaxDeletions
  BY <1>1 DEF AccountsInv, TypeOK, bounds, told
<1> QED  BY <1>1, <1>2, <1>3, <1>5, <1>6, <1>7, QuietKeeps

-----------------------------------------------------------------------------
(* Sign-ins.                                                               *)

LEMMA RefusalKeeps ==
  ASSUME AccountsInv, NEW r \in Request, Veto(r) \/ CreationLosesTheSubject(r) \/ Issue(r)
  PROVE  AccountsInv'
<1>1. CASE Veto(r)
  BY <1>1, EndKeeps DEF Veto
<1>2. CASE CreationLosesTheSubject(r)
  BY <1>2, EndKeeps DEF CreationLosesTheSubject
<1>3. CASE Issue(r)
  BY <1>3, EndKeeps DEF Issue
<1> QED  BY <1>1, <1>2, <1>3

\* Whom a way in or a verified address leads to is an account there is.
LEMMA FoundLive ==
  /\ \A way : OwnersOf(way) \subseteq Live
  /\ \A r : Joinable(r) \subseteq HeldBy("address") \cap confirmed
  /\ HeldBy("address") \subseteq Live /\ Live \subseteq Account
BY DEF OwnersOf, Joinable, HeldBy, Live

\* A call that has found an account goes on with it.
LEMMA FoundKeeps ==
  ASSUME AccountsInv, NEW r \in Request, NEW u \in Account, NEW to \in {"verify", "lock", "check"},
         call[r].for = (IF to = "check" THEN "assert" ELSE "oauth"),
         owner' = [owner EXCEPT ![r] = u], Proceed(r, to), UNCHANGED <<call, draws, seen>>, Quietly
  PROVE  AccountsInv'
<1>1. to \in Step /\ to # "locked"
  BY DEF Step
<1>2. /\ owner' \in [Request -> Account \cup {Nobody}] /\ owner'[r] = u
      /\ \A q \in Request : q # r => owner'[q] = owner[q]
  BY DEF AccountsInv, TypeOK
<1>3. step'[r] = to
  BY <1>1 DEF Proceed, AccountsInv, TypeOK
<1>4. call' = call /\ draws' = draws /\ seen' = seen
  OBVIOUS
<1>5. draws[r] = 0
  BY DEF AccountsInv, RequestInv, OfRequest, CallOf
<1>6. CallOf(r)' /\ OwnerOf(r)' /\ ToldOf(r)'
  BY <1>2, <1>3, <1>4, <1>5 DEF CallOf, OwnerOf, ToldOf
<1>7. draws' \in [Request -> 0 .. CoverDraws]
  BY <1>4 DEF AccountsInv, TypeOK
<1> QED  BY <1>1, <1>2, <1>4, <1>6, <1>7, GoesOn

LEMMA FindAccountKeeps ==
  ASSUME AccountsInv, NEW r \in Request, FindAccount(r)
  PROVE  AccountsInv'
<1>1. step[r] = "begun" /\ call[r].for = "oauth" /\ Quietly /\ OfRequest(r)
  BY DEF FindAccount, Signing, AccountsInv, RequestInv
<1>2. ASSUME Proceed(r, "register"), UNCHANGED requests PROVE AccountsInv'
  <2>1. step'[r] = "register" /\ "register" \in Step
    BY <1>2 DEF Proceed, AccountsInv, TypeOK, Step
  <2>2. CallOf(r)' /\ OwnerOf(r)'
    BY <1>1, <1>2, <2>1 DEF OfRequest, CallOf, OwnerOf, requests
  <2>3. ToldOf(r)'
    BY <1>1, <1>2, <2>1, StillTold
  <2> QED  BY <1>1, <1>2, <2>1, <2>2, <2>3, OnlySteps
<1>3. ASSUME NEW found, found # {}, found \subseteq Account, NEW to \in {"verify", "lock"},
             owner' = [owner EXCEPT ![r] = OneOf(found)], Proceed(r, to),
             UNCHANGED <<call, draws, seen>>
      PROVE  AccountsInv'
  <2>1. OneOf(found) \in Account
    BY <1>3, OneOfFound
  <2> QED  BY <1>1, <1>3, <2>1, FoundKeeps
<1>4. CASE OwnersOf(call[r].way) = {} /\ Joinable(r) = {}
  BY <1>2, <1>4 DEF FindAccount
<1>5. CASE OwnersOf(call[r].way) # {}
  <2>1. /\ owner' = [owner EXCEPT ![r] = OneOf(OwnersOf(call[r].way))]
        /\ Proceed(r, "verify") /\ UNCHANGED <<call, draws, seen>>
    BY <1>5 DEF FindAccount
  <2>2. OwnersOf(call[r].way) \subseteq Account
    BY DEF OwnersOf, Live
  <2> QED  BY <1>3, <1>5, <2>1, <2>2
<1>6. CASE OwnersOf(call[r].way) = {} /\ Joinable(r) # {}
  <2>1. /\ owner' = [owner EXCEPT ![r] = OneOf(Joinable(r))]
        /\ Proceed(r, "lock") /\ UNCHANGED <<call, draws, seen>>
    BY <1>6 DEF FindAccount
  <2>2. Joinable(r) \subseteq Account
    BY FoundLive
  <2> QED  BY <1>3, <1>6, <2>1, <2>2
<1> QED  BY <1>4, <1>5, <1>6

\* A call that goes on to the session it has found the account for.
LEMMA OnToTheSession ==
  ASSUME AccountsInv, NEW r \in Request, step[r] \in {"verify", "check", "record"},
         NEW to \in {"issue", "record"}, to = "record" => step[r] = "check",
         Proceed(r, to), Quietly, UNCHANGED requests
  PROVE  AccountsInv'
<1>1. step'[r] = to /\ to \in Step /\ OfRequest(r)
  BY DEF Proceed, AccountsInv, TypeOK, Step, RequestInv
<1>2. CallOf(r)' /\ OwnerOf(r)'
  BY <1>1 DEF OfRequest, CallOf, OwnerOf, requests
<1>3. ToldOf(r)'
  BY <1>1, StillTold
<1> QED  BY <1>1, <1>2, <1>3, OnlySteps

LEMMA SignInByIdentityKeeps ==
  ASSUME AccountsInv, NEW r \in Request, SignInByIdentity(r)
  PROVE  AccountsInv'
<1>1. CASE Proceed(r, "issue") /\ UNCHANGED requests
  BY <1>1, OnToTheSession DEF SignInByIdentity
<1>2. CASE End(r, "refused")
  BY <1>2, EndKeeps DEF SignInByIdentity
<1> QED  BY <1>1, <1>2 DEF SignInByIdentity

LEMMA FindPasskeyKeeps ==
  ASSUME AccountsInv, NEW r \in Request, FindPasskey(r)
  PROVE  AccountsInv'
<1>1. call[r].for = "assert" /\ Quietly
  BY DEF FindPasskey, Signing
<1>2. CASE OwnersOf(call[r].way) = {}
  BY <1>1, <1>2, EndKeeps DEF FindPasskey
<1>3. CASE OwnersOf(call[r].way) # {}
  <2>1. /\ owner' = [owner EXCEPT ![r] = OneOf(OwnersOf(call[r].way))]
        /\ Proceed(r, "check") /\ UNCHANGED <<call, draws, seen>>
    BY <1>3 DEF FindPasskey
  <2>2. OneOf(OwnersOf(call[r].way)) \in Account
    BY <1>3, OneOfFound DEF OwnersOf, Live
  <2> QED  BY <1>1, <2>1, <2>2, FoundKeeps
<1> QED  BY <1>2, <1>3

LEMMA CheckPasskeyKeeps ==
  ASSUME AccountsInv, NEW r \in Request, CheckPasskey(r)
  PROVE  AccountsInv'
<1>1. CASE Proceed(r, "record") /\ UNCHANGED requests
  BY <1>1, OnToTheSession DEF CheckPasskey
<1>2. CASE End(r, IF owner[r] \in Live THEN "alarmed" ELSE "refused")
  BY <1>2, EndKeeps DEF CheckPasskey
<1> QED  BY <1>1, <1>2 DEF CheckPasskey

LEMMA RecordAssertionKeeps ==
  ASSUME AccountsInv, NEW r \in Request, RecordAssertion(r)
  PROVE  AccountsInv'
<1>1. CASE Proceed(r, "issue") /\ UNCHANGED requests
  BY <1>1, OnToTheSession DEF RecordAssertion
<1>2. CASE End(r, "refused")
  BY <1>2, EndKeeps DEF RecordAssertion
<1> QED  BY <1>1, <1>2 DEF RecordAssertion

-----------------------------------------------------------------------------
(* Changes of the sign-in methods.                                         *)

\* The lock that is free is taken, and what is read under it is what there is.
LEMMA LockAccountKeeps ==
  ASSUME AccountsInv, NEW r \in Request, LockAccount(r)
  PROVE  AccountsInv'
<1>1. step[r] = "lock" /\ LockFree(owner[r]) /\ Quietly /\ OfRequest(r)
  BY DEF LockAccount, AccountsInv, RequestInv
<1>2. CASE End(r, "refused")
  BY <1>1, <1>2, EndKeeps
<1>3. ASSUME owner[r] \in Live, Signing(r, "oauth") => owner[r] \in Joinable(r),
             seen' = [seen EXCEPT ![r] = ways[owner[r]]], Proceed(r, "locked"),
             UNCHANGED <<call, owner, draws>>
      PROVE  AccountsInv'
  <2>1. /\ step' \in [Request -> Step] /\ step'[r] = "locked"
        /\ \A q \in Request : q # r => step'[q] = step[q]
    <3>1. "locked" \in Step
      BY DEF Step
    <3> QED  BY <1>3, <3>1, ProceedMoves DEF AccountsInv
  <2>2. /\ seen' \in [Request -> SUBSET Way] /\ seen'[r] = ways[owner[r]]
        /\ \A q \in Request : q # r => seen'[q] = seen[q]
    BY <1>3 DEF AccountsInv, TypeOK, Live
  <2>3. /\ call' = call /\ owner' = owner /\ draws' = draws
        /\ UNCHANGED <<status, holds, confirmed, ways, sealed>> /\ link' = link
        /\ bereft' = bereft /\ renamed' = renamed /\ calls' = calls /\ deletions' = deletions
    BY <1>1, <1>3 DEF Quietly, accounts, bounds, told
  <2>4. RequestsTyped /\ OnlyMoves(r)
    BY <2>1, <2>2, <2>3 DEF RequestsTyped, OnlyMoves, AccountsInv, TypeOK
  <2>5. \A q \in Request : q # r /\ step[q] = "locked" => owner[q] # owner'[r]
    BY <1>1, <2>3 DEF LockFree
  <2>6. CallOf(r)' /\ OwnerOf(r)' /\ ToldOf(r)'
    BY <1>1, <2>1, <2>3 DEF OfRequest, CallOf, OwnerOf, ToldOf
  <2>7. LockOf(r)'
    <3>1. call[r].for = "oauth" => owner[r] \in HeldBy("address") \cap confirmed
      BY <1>1, <1>3, FoundLive DEF Signing
    <3>2. Live' = Live /\ HeldBy("address")' = HeldBy("address")
      BY <2>3 DEF Live, HeldBy
    <3> QED  BY <1>3, <2>1, <2>2, <2>3, <2>5, <3>1, <3>2 DEF LockOf
  <2>8. /\ link' \in [Account -> {"none", "minted", "mailed", "spent"}]
        /\ bereft' \subseteq Request /\ renamed' \subseteq Request
        /\ calls' \in 0 .. MaxCalls /\ deletions' \in 0 .. MaxDeletions
    BY <2>3 DEF AccountsInv, TypeOK
  <2>9. OfRequest(r)'
    BY <2>6, <2>7 DEF OfRequest
  <2> QED  BY <2>3, <2>4, <2>5, <2>8, <2>9, QuietKeeps
<1> QED  BY <1>2, <1>3 DEF LockAccount

\* Ways in that keep to the limits.
Within(w) ==
  /\ w \subseteq Way /\ IsFiniteSet(w)
  /\ Cardinality(w \cap Subject) <= Limit /\ Cardinality(w \cap Passkey) <= Limit

\* Of finitely many ways in there are finitely many of each kind.
LEMMA KindsFinite ==
  ASSUME NEW w, IsFiniteSet(w), NEW S
  PROVE  IsFiniteSet(w \cap S) /\ Cardinality(w \cap S) \in Nat
<1>1. IsFiniteSet(w \cap S)
  BY FS_Intersection
<1> QED  BY <1>1, FS_CardinalityType

\* Adding a way in below the limit of its kind keeps to the limits.
LEMMA AddedWithin ==
  ASSUME NEW w, Within(w), NEW x \in Subject \cup Passkey,
         Cardinality(w \cap Kind(x)) < Limit
  PROVE  Within(w \cup {x})
<1>1. w \subseteq Way /\ IsFiniteSet(w) /\ x \in Way
  BY DEF Within, Way
<1>2. IsFiniteSet(w \cup {x})
  BY <1>1, FS_AddElement
<1>3. ASSUME NEW S, IsFiniteSet(w \cap S), Cardinality(w \cap S) \in Nat, x \in S,
             Cardinality(w \cap S) < Limit
      PROVE  Cardinality((w \cup {x}) \cap S) <= Limit
  <2>1. (w \cup {x}) \cap S = (w \cap S) \cup {x}
    BY <1>3
  <2>2. ASSUME NEW a, IsFiniteSet(a), Cardinality(a) \in Nat, Cardinality(a) < Limit
        PROVE  Cardinality(a \cup {x}) <= Limit
    <3>1. \/ Cardinality(a \cup {x}) = Cardinality(a)
          \/ Cardinality(a \cup {x}) = Cardinality(a) + 1
      BY <2>2, FS_AddElement
    <3>2. CASE x \in a
      <4>1. a \cup {x} = a
        BY <3>2
      <4> QED  BY <2>2, <4>1, BoundsAssumption
    <3>3. CASE x \notin a
      BY <2>2, <3>1, <3>3, BoundsAssumption
    <3> QED  BY <3>2, <3>3
  <2>3. Cardinality((w \cap S) \cup {x}) <= Limit
    BY <1>3, <2>2
  <2> QED  BY <2>1, <2>3
<1>4. ASSUME NEW S, x \notin S PROVE (w \cup {x}) \cap S = w \cap S
  BY <1>4
<1>5. CASE x \in Subject
  <2>1. x \notin Passkey /\ Kind(x) = Subject
    BY <1>5, BoundsAssumption DEF Kind
  <2>2. Cardinality((w \cup {x}) \cap Subject) <= Limit
    BY <1>1, <1>3, <1>5, <2>1, KindsFinite
  <2>3. Cardinality((w \cup {x}) \cap Passkey) <= Limit
    BY <1>4, <2>1 DEF Within
  <2> QED  BY <1>1, <1>2, <2>2, <2>3 DEF Within
<1>6. CASE x \notin Subject
  <2>1. x \in Passkey /\ Kind(x) = Passkey
    BY <1>6 DEF Kind
  <2>2. Cardinality((w \cup {x}) \cap Passkey) <= Limit
    BY <1>1, <1>3, <2>1, KindsFinite
  <2>3. Cardinality((w \cup {x}) \cap Subject) <= Limit
    BY <1>4, <1>6 DEF Within
  <2> QED  BY <1>1, <1>2, <2>2, <2>3 DEF Within
<1> QED  BY <1>5, <1>6

\* Removing one keeps to them.
LEMMA RemovedWithin ==
  ASSUME NEW w, Within(w), NEW x
  PROVE  Within(w \ {x})
<1>1. w \subseteq Way /\ IsFiniteSet(w) /\ IsFiniteSet(w \ {x})
  BY FS_RemoveElement DEF Within
<1>2. ASSUME NEW S, Cardinality(w \cap S) <= Limit PROVE Cardinality((w \ {x}) \cap S) <= Limit
  <2>1. IsFiniteSet(w \cap S) /\ (w \ {x}) \cap S \subseteq w \cap S
    BY <1>1, KindsFinite
  <2>2. /\ Cardinality((w \ {x}) \cap S) <= Cardinality(w \cap S)
        /\ Cardinality(w \cap S) \in Nat /\ Cardinality((w \ {x}) \cap S) \in Nat
    BY <1>1, <2>1, FS_Subset, KindsFinite
  <2> QED  BY <1>2, <2>2, BoundsAssumption
<1> QED  BY <1>1, <1>2 DEF Within

\* So do no way in and one alone.
LEMMA FewWithin ==
  /\ Within({}) /\ Within({Password})
  /\ \A x \in Subject : Within({x})
<1>1. Within({})
  <2>1. {} \cap Subject = {} /\ {} \cap Passkey = {}
    OBVIOUS
  <2> QED  BY <2>1, FS_EmptySet, BoundsAssumption DEF Within
<1>2. Within({Password})
  <2>1. {Password} \cap Subject = {} /\ {Password} \cap Passkey = {}
    BY BoundsAssumption
  <2>2. IsFiniteSet({Password}) /\ {Password} \subseteq Way
    BY FS_Singleton DEF Way
  <2>3. Cardinality({Password} \cap Subject) <= Limit /\ Cardinality({Password} \cap Passkey) <= Limit
    BY <2>1, FS_EmptySet, BoundsAssumption
  <2> QED  BY <2>2, <2>3 DEF Within
<1>3. ASSUME NEW x \in Subject PROVE Within({x})
  <2>1. {} \cap Kind(x) = {} /\ {} \cup {x} = {x} /\ Cardinality({}) < Limit
    BY FS_EmptySet, BoundsAssumption
  <2>2. Cardinality({} \cap Kind(x)) < Limit
    BY <2>1
  <2>3. Within({} \cup {x})
    BY <1>1, <2>2, AddedWithin
  <2> QED  BY <2>1, <2>3
<1> QED  BY <1>1, <1>2, <1>3

\* What the invariant says of the ways in, account by account.
LEMMA WithinOf ==
  /\ AccountsInv => \A u \in Account : Within(ways[u]) /\ sealed[u] = ways[u]
  /\ ways \in [Account -> SUBSET Way] /\ (\A u \in Account : Within(ways[u]) /\ sealed[u] = ways[u])
       => FiniteInv /\ SealCoversTheWaysIn
BY DEF AccountsInv, TypeOK, FiniteInv, SealCoversTheWaysIn, Within

\* The write under the lock changes what was read under it, and the seal covers
\* what the write leaves.
LEMMA CommitChangeKeeps ==
  ASSUME AccountsInv, NEW r \in Request, CommitChange(r)
  PROVE  AccountsInv'
<1>1. /\ step[r] = "locked" /\ OfRequest(r)
      /\ UNCHANGED <<status, holds, confirmed, link, told, bounds>>
  BY DEF CommitChange, AccountsInv, RequestInv
<1>2. /\ owner[r] \in Account /\ owner[r] \in Live /\ seen[r] = ways[owner[r]]
      /\ \A q \in Request : q # r /\ step[q] = "locked" => owner[q] # owner[r]
  BY <1>1 DEF OfRequest, OwnerOf, LockOf
<1>3. call[r].way \in Subject \cup Passkey /\ call[r].for # "signUp" /\ draws[r] = 0
  <2>1. call[r].for \in {"oauth", "link", "register", "remove"}
    BY <1>1 DEF OfRequest, CallOf
  <2>2. draws[r] = 0
    BY <1>1, <2>1 DEF OfRequest, CallOf
  <2> QED  BY <2>1, <2>2, CallTypes DEF AccountsInv
<1>4. Within(ways[owner[r]]) /\ sealed[owner[r]] = ways[owner[r]]
  BY <1>2, WithinOf
<1>5. \/ ways' = ways /\ sealed' = sealed
      \/ \E w : /\ Within(w) /\ ways' = [ways EXCEPT ![owner[r]] = w]
                /\ sealed' = [sealed EXCEPT ![owner[r]] = w]
  <2>1. CASE call[r].for = "remove"
    <3>1. Within(ways[owner[r]] \ {call[r].way})
      BY <1>4, RemovedWithin
    <3>2. \/ ways' = ways /\ sealed' = sealed
          \/ /\ ways' = [ways EXCEPT ![owner[r]] = ways[owner[r]] \ {call[r].way}]
             /\ sealed' = [sealed EXCEPT ![owner[r]] = ways[owner[r]] \ {call[r].way}]
      BY <1>2, <2>1 DEF CommitChange
    <3> QED  BY <3>1, <3>2
  <2>2. CASE call[r].for # "remove" /\ MayAdd(r)
    <3>1. Within(ways[owner[r]] \cup {call[r].way})
      BY <1>2, <1>3, <1>4, <2>2, AddedWithin DEF MayAdd
    <3>2. /\ ways' = [ways EXCEPT ![owner[r]] = ways[owner[r]] \cup {call[r].way}]
          /\ sealed' = [sealed EXCEPT ![owner[r]] = ways[owner[r]] \cup {call[r].way}]
      BY <1>2, <2>2 DEF CommitChange
    <3> QED  BY <3>1, <3>2
  <2>3. CASE call[r].for # "remove" /\ ~MayAdd(r)
    BY <2>3 DEF CommitChange
  <2> QED  BY <2>1, <2>2, <2>3
<1>6. /\ ways' \in [Account -> SUBSET Way] /\ sealed' \in [Account -> SUBSET Way]
      /\ \A u \in Account : u # owner[r] => ways'[u] = ways[u]
      /\ \A u \in Account : Within(ways'[u]) /\ sealed'[u] = ways'[u]
  <2>1. CASE ways' = ways /\ sealed' = sealed
    BY <2>1, WithinOf DEF AccountsInv, TypeOK
  <2>2. ASSUME NEW w, Within(w), ways' = [ways EXCEPT ![owner[r]] = w],
               sealed' = [sealed EXCEPT ![owner[r]] = w]
        PROVE  <1>6!:
    BY <1>2, <2>2, WithinOf DEF AccountsInv, TypeOK, Within
  <2> QED  BY <1>5, <2>1, <2>2
<1>7. FiniteInv' /\ SealCoversTheWaysIn'
  BY <1>6, WithinOf DEF FiniteInv, SealCoversTheWaysIn, Within
<1>8. /\ RequestsTyped /\ OnlyMoves(r) /\ OfRequest(r)' /\ step'[r] # "locked"
  <2>1. \/ Proceed(r, "issue") /\ UNCHANGED requests
        \/ End(r, "changed") \/ End(r, "refused")
    BY DEF CommitChange
  <2>2. CASE Proceed(r, "issue") /\ UNCHANGED requests
    <3>1. /\ step' \in [Request -> Step] /\ step'[r] = "issue"
          /\ \A q \in Request : q # r => step'[q] = step[q]
      BY <2>2, ProceedMoves DEF AccountsInv, Step
    <3>2. call' = call /\ owner' = owner /\ draws' = draws /\ seen' = seen
      BY <2>2 DEF requests
    <3>3. RequestsTyped /\ OnlyMoves(r)
      BY <3>1, <3>2 DEF RequestsTyped, OnlyMoves, AccountsInv, TypeOK
    <3> QED  BY <1>2, <1>3, <3>1, <3>2, <3>3 DEF OfRequest, CallOf, OwnerOf, LockOf, ToldOf
  <2>3. ASSUME NEW how, End(r, how) PROVE <1>8!:
    <3>1. RequestsTyped /\ OnlyMoves(r) /\ step'[r] = "idle" /\ draws'[r] = 0
      BY <2>3, EndMoves DEF AccountsInv
    <3> QED  BY <3>1, IdleKeeps
  <2> QED  BY <2>1, <2>2, <2>3
<1>9. TypeOK' /\ Apart(r)
  <2>1. /\ status' = status /\ holds' = holds /\ confirmed' = confirmed /\ link' = link
        /\ bereft' = bereft /\ renamed' = renamed /\ calls' = calls /\ deletions' = deletions
    BY <1>1 DEF bounds, told
  <2>2. TypeOK'
    BY <1>6, <1>8, <2>1 DEF AccountsInv, TypeOK, RequestsTyped, Live
  <2>3. HoldsStep(r)
    BY <2>1 DEF HoldsStep, NameStep, HeldBy, Live
  <2>4. \A u \in Account : AccountStep(r, u)
    BY <1>2, <1>6, <2>1 DEF AccountStep
  <2> QED  BY <1>8, <2>1, <2>2, <2>3, <2>4 DEF Apart
<1> QED  BY <1>7, <1>8, <1>9, StepKeeps

-----------------------------------------------------------------------------
(* Accounts that are made, confirmed, moved and ended.                     *)

\* A fresh id becomes an account within the limits, sealed as it is made.
LEMMA CreateKeeps ==
  ASSUME AccountsInv, NEW r \in Request, NEW u \in Account, NEW held \in SUBSET {"address", "name"},
         NEW w, Within(w), NEW verified, NEW minted \in {"none", "minted"},
         Create(r, u, held, w, verified, minted), NEW to \in {"announce", "issue"}, Proceed(r, to),
         draws[r] = 0
  PROVE  AccountsInv'
<1>1. /\ status[u] = "absent" /\ status' = [status EXCEPT ![u] = "live"]
      /\ holds' = [holds EXCEPT ![u] = held]
      /\ ways' = [ways EXCEPT ![u] = w] /\ sealed' = [sealed EXCEPT ![u] = w]
      /\ confirmed' \in {confirmed, confirmed \cup {u}}
      /\ link' = [link EXCEPT ![u] = minted] /\ owner' = [owner EXCEPT ![r] = u]
      /\ call' = call /\ draws' = draws /\ seen' = seen /\ bereft' = bereft
      /\ renamed' = renamed /\ calls' = calls /\ deletions' = deletions
  BY DEF Create, bounds, told
<1>2. /\ step' \in [Request -> Step] /\ step'[r] = to
      /\ \A q \in Request : q # r => step'[q] = step[q]
  BY ProceedMoves DEF AccountsInv, Step
<1>3. /\ owner' \in [Request -> Account \cup {Nobody}] /\ owner'[r] = u
      /\ \A q \in Request : q # r => owner'[q] = owner[q]
  BY <1>1 DEF AccountsInv, TypeOK
<1>4. RequestsTyped /\ OnlyMoves(r)
  BY <1>1, <1>2, <1>3 DEF RequestsTyped, OnlyMoves, AccountsInv, TypeOK
<1>5. OfRequest(r)'
  BY <1>1, <1>2, <1>3 DEF OfRequest, CallOf, OwnerOf, LockOf, ToldOf
<1>6. /\ status' \in [Account -> {"absent", "live", "gone"}]
      /\ status'[u] = "live" /\ \A x \in Account : x # u => status'[x] = status[x]
  BY <1>1 DEF AccountsInv, TypeOK
<1>7. /\ holds' \in [Account -> SUBSET {"address", "name"}]
      /\ \A x \in Account : x # u => holds'[x] = holds[x]
  BY <1>1 DEF AccountsInv, TypeOK
<1>8. /\ ways' \in [Account -> SUBSET Way] /\ sealed' \in [Account -> SUBSET Way]
      /\ \A x \in Account : x # u => ways'[x] = ways[x]
      /\ \A x \in Account : Within(ways'[x]) /\ sealed'[x] = ways'[x]
  BY <1>1, WithinOf DEF AccountsInv, TypeOK, Within
<1>9. FiniteInv' /\ SealCoversTheWaysIn'
  BY <1>8 DEF FiniteInv, SealCoversTheWaysIn, Within
<1>10. link' \in [Account -> {"none", "minted", "mailed", "spent"}]
  BY <1>1 DEF AccountsInv, TypeOK
<1>11. confirmed' \subseteq Live'
  BY <1>1, <1>6 DEF AccountsInv, TypeOK, Live
<1>12. TypeOK'
  BY <1>1, <1>4, <1>6, <1>7, <1>8, <1>10, <1>11 DEF AccountsInv, TypeOK, RequestsTyped
<1>13. Apart(r)
  <2>1. ASSUME NEW x \in Account PROVE AccountStep(r, x)
    <3>1. CASE x = u
      <4>1. ASSUME NEW q \in Request, step[q] = "locked" PROVE owner[q] # u
        <5>1. owner[q] \in Live
          BY <4>1 DEF AccountsInv, RequestInv, OfRequest, LockOf
        <5> QED  BY <1>1, <5>1 DEF Live
      <4> QED  BY <3>1, <4>1 DEF AccountStep
    <3>2. CASE x # u
      BY <1>1, <1>6, <1>7, <1>8, <3>2 DEF AccountStep
    <3> QED  BY <3>1, <3>2
  <2>2. HoldsStep(r)
    <3>1. ASSUME NEW v \in {"address", "name"}, NEW x \in HeldBy(v) PROVE x \in HeldBy(v)'
      BY <1>1, <1>6, <1>7, <3>1 DEF HeldBy, Live
    <3> QED  BY <3>1 DEF HoldsStep, NameStep
  <2> QED  BY <1>1, <1>2, <1>4, <2>1, <2>2 DEF Apart
<1> QED  BY <1>5, <1>9, <1>12, <1>13, StepKeeps

LEMMA CommitRegistrationKeeps ==
  ASSUME AccountsInv, NEW r \in Request, NEW u \in Account, CommitRegistration(r, u)
  PROVE  AccountsInv'
<1>1. Values(r) \in SUBSET {"address", "name"}
  BY DEF Values
<1>2. PICK w \in {{}, {Password}} : Create(r, u, Values(r), w, FALSE, "minted")
  BY DEF CommitRegistration
<1>3. Within(w)
  BY FewWithin
<1>4. draws[r] = 0 /\ Proceed(r, "announce")
  BY DEF CommitRegistration
<1> QED  BY <1>1, <1>2, <1>3, <1>4, CreateKeeps

LEMMA CommitCreationKeeps ==
  ASSUME AccountsInv, NEW r \in Request, NEW u \in Account, CommitCreation(r, u)
  PROVE  AccountsInv'
<1>1. /\ Create(r, u, Values(r), {call[r].way}, call[r].verified, "none")
      /\ call[r].for = "oauth" /\ Proceed(r, "issue") /\ Values(r) \in SUBSET {"address", "name"}
  BY DEF CommitCreation, Signing, Values
<1>2. Within({call[r].way})
  BY <1>1, CallTypes, FewWithin DEF AccountsInv
<1>3. draws[r] = 0
  BY <1>1 DEF AccountsInv, RequestInv, OfRequest, CallOf
<1> QED  BY <1>1, <1>2, <1>3, CreateKeeps

\* An account ends that nobody has locked, and every call that runs is told.
LEMMA RemoveUserKeeps ==
  ASSUME AccountsInv, NEW r, NEW u \in Account, RemoveUser(u), RequestsTyped, OnlyMoves(r),
         r \in Request => step'[r] = "idle" /\ draws'[r] = 0,
         calls' \in 0 .. MaxCalls, deletions' \in 0 .. MaxDeletions
  PROVE  AccountsInv'
<1>1. /\ LockFree(u) /\ status' = [status EXCEPT ![u] = "gone"]
      /\ holds' = [holds EXCEPT ![u] = {}]
      /\ ways' = [ways EXCEPT ![u] = {}] /\ sealed' = [sealed EXCEPT ![u] = {}]
      /\ confirmed' = confirmed \ {u} /\ link' = [link EXCEPT ![u] = "none"]
      /\ bereft' = {q \in Request : step'[q] # "idle"} /\ renamed' = renamed
  BY DEF RemoveUser
<1>2. /\ status' \in [Account -> {"absent", "live", "gone"}]
      /\ \A x \in Account : x # u => status'[x] = status[x]
  BY <1>1 DEF AccountsInv, TypeOK
<1>3. /\ holds' \in [Account -> SUBSET {"address", "name"}]
      /\ \A x \in Account : x # u => holds'[x] = holds[x]
  BY <1>1 DEF AccountsInv, TypeOK
<1>4. /\ ways' \in [Account -> SUBSET Way] /\ sealed' \in [Account -> SUBSET Way]
      /\ \A x \in Account : x # u => ways'[x] = ways[x]
      /\ \A x \in Account : Within(ways'[x]) /\ sealed'[x] = ways'[x]
  BY <1>1, WithinOf, FewWithin DEF AccountsInv, TypeOK
<1>5. FiniteInv' /\ SealCoversTheWaysIn'
  BY <1>4 DEF FiniteInv, SealCoversTheWaysIn, Within
<1>6. link' \in [Account -> {"none", "minted", "mailed", "spent"}] /\ confirmed' \subseteq Live'
  BY <1>1, <1>2 DEF AccountsInv, TypeOK, Live
<1>7. TypeOK'
  BY <1>1, <1>2, <1>3, <1>4, <1>6 DEF AccountsInv, TypeOK, RequestsTyped
<1>8. \A q \in Request : q # r /\ step[q] # "idle" => q \in bereft'
  BY <1>1 DEF OnlyMoves
<1>9. \A x \in Account : AccountStep(r, x)
  BY <1>1, <1>2, <1>3, <1>4 DEF AccountStep, LockFree
<1>10. Apart(r)
  BY <1>1, <1>8, <1>9 DEF Apart, HoldsStep
<1> QED  BY <1>5, <1>7, <1>10, IdleKeeps, StepKeeps

LEMMA RemoveUntoldAccountKeeps ==
  ASSUME AccountsInv, NEW r \in Request, RemoveUntoldAccount(r)
  PROVE  AccountsInv'
<1>1. RequestsTyped /\ OnlyMoves(r) /\ step'[r] = "idle" /\ draws'[r] = 0
  BY EndMoves DEF RemoveUntoldAccount, AccountsInv
<1>2. owner[r] \in Account /\ RemoveUser(owner[r])
  BY DEF RemoveUntoldAccount, AccountsInv, RequestInv, OfRequest, OwnerOf
<1>3. calls' \in 0 .. MaxCalls /\ deletions' \in 0 .. MaxDeletions
  BY DEF RemoveUntoldAccount, AccountsInv, TypeOK, bounds
<1> QED  BY <1>1, <1>2, <1>3, RemoveUserKeeps

\* Where no request moves, each stands as it did.
LEMMA NobodyMoves ==
  ASSUME AccountsInv, UNCHANGED <<step, requests>>
  PROVE  RequestsTyped /\ OnlyMoves(Nobody) /\ Nobody \notin Request
BY BoundsAssumption DEF RequestsTyped, OnlyMoves, requests, AccountsInv, TypeOK

LEMMA DeleteKeeps ==
  ASSUME AccountsInv, NEW u \in Account, Delete(u)
  PROVE  AccountsInv'
<1>1. RequestsTyped /\ OnlyMoves(Nobody) /\ Nobody \notin Request
  BY NobodyMoves DEF Delete
<1>2. calls' \in 0 .. MaxCalls /\ deletions' \in 0 .. MaxDeletions
  BY BoundsAssumption DEF Delete, AccountsInv, TypeOK
<1> QED  BY <1>1, <1>2, RemoveUserKeeps DEF Delete

\* The ways in of an account change with its seal.
WaysStep(u) ==
  /\ ways' \in [Account -> SUBSET Way] /\ sealed' \in [Account -> SUBSET Way]
  /\ \A x \in Account : x # u => ways'[x] = ways[x]
  /\ FiniteInv' /\ SealCoversTheWaysIn'

LEMMA SameWays ==
  ASSUME AccountsInv, NEW u \in Account, UNCHANGED <<ways, sealed>>
  PROVE  WaysStep(u)
<1>1. ways' = ways /\ sealed' = sealed
  OBVIOUS
<1> QED  BY <1>1 DEF WaysStep, AccountsInv, TypeOK, FiniteInv, SealCoversTheWaysIn

\* A password that comes or goes is within every limit.
LEMMA PasswordWithin ==
  ASSUME NEW w \in SUBSET Way, Within(w)
  PROVE  Within(w \cup {Password}) /\ Within(w \ {Password})
<1>1. Password \notin Subject /\ Password \notin Passkey
  BY BoundsAssumption
<1>2. /\ (w \cup {Password}) \cap Subject = w \cap Subject
      /\ (w \cup {Password}) \cap Passkey = w \cap Passkey
      /\ (w \ {Password}) \cap Subject = w \cap Subject
      /\ (w \ {Password}) \cap Passkey = w \cap Passkey
  BY <1>1
<1>3. IsFiniteSet(w \cup {Password}) /\ IsFiniteSet(w \ {Password})
  <2>1. IsFiniteSet(w)
    BY DEF Within
  <2> QED  BY <2>1, FS_AddElement, FS_RemoveElement
<1>4. w \cup {Password} \subseteq Way /\ w \ {Password} \subseteq Way
  BY DEF Way
<1>5. Cardinality(w \cap Subject) <= Limit /\ Cardinality(w \cap Passkey) <= Limit
  BY DEF Within
<1> QED  BY <1>2, <1>3, <1>4, <1>5 DEF Within

LEMMA PasswordSteps ==
  ASSUME AccountsInv, NEW u \in Account, NEW w \in SUBSET Way, Within(w),
         ways' = [ways EXCEPT ![u] = w], sealed' = [sealed EXCEPT ![u] = w]
  PROVE  WaysStep(u)
<1>1. /\ ways' \in [Account -> SUBSET Way] /\ sealed' \in [Account -> SUBSET Way]
      /\ \A x \in Account : x # u => ways'[x] = ways[x]
      /\ \A x \in Account : Within(ways'[x]) /\ sealed'[x] = ways'[x]
  BY WithinOf DEF AccountsInv, TypeOK
<1>2. FiniteInv' /\ SealCoversTheWaysIn'
  BY <1>1 DEF FiniteInv, SealCoversTheWaysIn, Within
<1> QED  BY <1>1, <1>2 DEF WaysStep

\* A change of an account nobody has locked, of which the calls that run for what
\* it gives up are told.
LEMMA ChangeKeeps ==
  ASSUME AccountsInv, NEW u \in Live, LockFree(u), WaysStep(u), UNCHANGED <<status, step, requests, bounds>>,
         holds' \in [Account -> SUBSET {"address", "name"}],
         \A x \in Account : x # u => holds'[x] = holds[x],
         confirmed' \subseteq Live, \A x \in Account : x # u => (x \in confirmed' <=> x \in confirmed),
         link' \in [Account -> {"none", "minted", "mailed", "spent"}],
         bereft' \subseteq Request, renamed' \subseteq Request, HoldsStep(Nobody),
         \A q \in Request : step[q] # "idle" /\ q \in bereft => q \in bereft',
         \A q \in Request : step[q] # "idle" /\ q \in renamed => q \in renamed'
  PROVE  AccountsInv'
<1>1. /\ status' = status /\ calls' = calls /\ deletions' = deletions /\ u \in Account
      /\ UNCHANGED <<step, requests>>
  BY DEF bounds, Live
<1>2. RequestsTyped /\ OnlyMoves(Nobody) /\ Nobody \notin Request
  BY <1>1, NobodyMoves
<1>3. TypeOK'
  BY <1>1, <1>2 DEF AccountsInv, TypeOK, RequestsTyped, WaysStep, Live
<1>4. \A x \in Account : AccountStep(Nobody, x)
  BY <1>1 DEF AccountStep, LockFree, WaysStep
<1>5. Apart(Nobody)
  BY <1>2, <1>4 DEF Apart
<1> QED  BY <1>2, <1>3, <1>5, StepKeeps DEF WaysStep

\* What a confirmation does under the lock.
LEMMA ConfirmSteps ==
  ASSUME AccountsInv, NEW u \in Live, ConfirmUnderTheLock(u)
  PROVE  /\ LockFree(u) /\ WaysStep(u) /\ confirmed' \subseteq Live
         /\ \A x \in Account : x # u => (x \in confirmed' <=> x \in confirmed)
<1>1. u \in Account
  BY DEF Live
<1>2. LockFree(u) /\ confirmed' = confirmed \cup {u}
  BY DEF ConfirmUnderTheLock
<1>3. CASE WithoutThePassword(u)
  <2>1. ways[u] \in SUBSET Way /\ Within(ways[u]) /\ sealed[u] = ways[u]
    BY <1>1, WithinOf DEF AccountsInv, TypeOK
  <2>2. PICK w \in SUBSET Way : w = ways[u] \ {Password} /\ Within(w)
    BY <2>1, PasswordWithin
  <2> QED  BY <1>1, <1>2, <1>3, <2>1, <2>2, PasswordSteps DEF WithoutThePassword, AccountsInv, TypeOK
<1>4. CASE UNCHANGED <<ways, sealed>>
  BY <1>1, <1>2, <1>4, SameWays DEF AccountsInv, TypeOK
<1> QED  BY <1>3, <1>4 DEF ConfirmUnderTheLock

LEMMA ConfirmKeeps ==
  ASSUME AccountsInv, NEW u \in Account, Confirm(u)
  PROVE  AccountsInv'
<1>1. /\ u \in Live /\ ConfirmUnderTheLock(u) /\ UNCHANGED <<status, holds, step, requests, bounds>>
      /\ bereft' = bereft /\ renamed' = renamed
      /\ link' = link \/ link' = [link EXCEPT ![u] = "spent"]
  BY DEF Confirm, told
<1>2. /\ holds' \in [Account -> SUBSET {"address", "name"}] /\ holds' = holds
      /\ link' \in [Account -> {"none", "minted", "mailed", "spent"}]
      /\ bereft' \subseteq Request /\ renamed' \subseteq Request
  BY <1>1 DEF AccountsInv, TypeOK
<1>3. HoldsStep(Nobody)
  BY <1>1 DEF HoldsStep, NameStep, HeldBy, Live
<1> QED  BY <1>1, <1>2, <1>3, ConfirmSteps, ChangeKeeps

LEMMA LeaveAddressKeeps ==
  ASSUME AccountsInv, NEW u \in Account, LeaveAddress(u)
  PROVE  AccountsInv'
<1>1. /\ u \in Live /\ ConfirmUnderTheLock(u) /\ UNCHANGED <<status, step, requests, bounds>>
      /\ holds' = [holds EXCEPT ![u] = @ \ {"address"}]
      /\ link' = [link EXCEPT ![u] = IF @ = "none" THEN @ ELSE "spent"]
      /\ bereft' = {q \in Request : step[q] # "idle"} /\ renamed' = renamed
  BY DEF LeaveAddress, HeldBy
<1>2. /\ holds' \in [Account -> SUBSET {"address", "name"}]
      /\ \A x \in Account : x # u => holds'[x] = holds[x]
      /\ link' \in [Account -> {"none", "minted", "mailed", "spent"}]
      /\ bereft' \subseteq Request /\ renamed' \subseteq Request
  BY <1>1 DEF AccountsInv, TypeOK
<1>3. HoldsStep(Nobody)
  BY <1>1 DEF HoldsStep
<1> QED  BY <1>1, <1>2, <1>3, ConfirmSteps, ChangeKeeps

LEMMA ResetPasswordKeeps ==
  ASSUME AccountsInv, NEW u \in Account, ResetPassword(u)
  PROVE  AccountsInv'
<1>1. /\ u \in Live /\ LockFree(u) /\ UNCHANGED <<status, step, requests, bounds>>
      /\ holds' = holds /\ confirmed' = confirmed /\ link' = link
      /\ bereft' = bereft /\ renamed' = renamed
  BY DEF ResetPassword, told
<1>2. WaysStep(u)
  <2>1. ways[u] \in SUBSET Way /\ Within(ways[u]) /\ sealed[u] = ways[u]
    BY WithinOf DEF AccountsInv, TypeOK
  <2>2. PICK w \in SUBSET Way : w = ways[u] \cup {Password} /\ Within(w)
    BY <2>1, PasswordWithin DEF Way
  <2> QED  BY <2>1, <2>2, PasswordSteps DEF ResetPassword, AccountsInv, TypeOK
<1>3. /\ holds' \in [Account -> SUBSET {"address", "name"}] /\ confirmed' \subseteq Live
      /\ link' \in [Account -> {"none", "minted", "mailed", "spent"}]
      /\ bereft' \subseteq Request /\ renamed' \subseteq Request
  BY <1>1 DEF AccountsInv, TypeOK
<1>4. HoldsStep(Nobody)
  BY <1>1 DEF HoldsStep, NameStep, HeldBy, Live
<1> QED  BY <1>1, <1>2, <1>3, <1>4, ChangeKeeps

LEMMA ChangeNameKeeps ==
  ASSUME AccountsInv, NEW u \in Account, ChangeName(u)
  PROVE  AccountsInv'
<1>1. /\ u \in Live /\ LockFree(u) /\ UNCHANGED <<status, step, requests, bounds>>
      /\ confirmed' = confirmed /\ link' = link /\ UNCHANGED <<ways, sealed>> /\ bereft' = bereft
      /\ status' = status /\ step' = step
  BY DEF ChangeName
<1>2. /\ holds' \in [Account -> SUBSET {"address", "name"}] /\ renamed' \subseteq Request
      /\ \A x \in Account : x # u => holds'[x] = holds[x]
      /\ holds[u] \ {"name"} \subseteq holds'[u]
      /\ \A q \in Request : q \in renamed => q \in renamed'
  BY DEF ChangeName, AccountsInv, TypeOK
<1>3. /\ confirmed' \subseteq Live /\ link' \in [Account -> {"none", "minted", "mailed", "spent"}]
      /\ bereft' \subseteq Request /\ WaysStep(u)
  BY <1>1, SameWays DEF AccountsInv, TypeOK
<1>4. HeldBy("address") \subseteq HeldBy("address")'
  BY <1>1, <1>2 DEF HeldBy, Live
<1>5. NameStep(Nobody)
  <2>1. CASE "name" \in holds[u]
    <3>1. renamed' = renamed \cup {q \in Request : Signing(q, "signUp") /\ call[q].named}
      BY <2>1 DEF ChangeName
    <3> QED  BY <3>1 DEF NameStep, Values, Signing
  <2>2. CASE "name" \notin holds[u]
    <3>1. \A x \in Account : holds[x] \subseteq holds'[x]
      BY <1>2, <2>2
    <3> QED  BY <1>1, <3>1 DEF NameStep, HeldBy, Live
  <2> QED  BY <2>1, <2>2
<1>6. HoldsStep(Nobody)
  BY <1>4, <1>5 DEF HoldsStep
<1> QED  BY <1>1, <1>2, <1>3, <1>6, ChangeKeeps

-----------------------------------------------------------------------------
(* The invariant.                                                          *)

LEMMA InitAccounts ==
  ASSUME Init
  PROVE  AccountsInv
<1>1. PICK there \in BOOLEAN, w \in Standing, h \in SUBSET {"address", "name"} :
         /\ status = [u \in Account |-> IF there /\ u = First THEN "live" ELSE "absent"]
         /\ ways = [u \in Account |-> IF there /\ u = First THEN w ELSE {}]
         /\ holds = [u \in Account |-> IF there /\ u = First THEN h ELSE {}]
         /\ confirmed \in IF there THEN {{}, {First}} ELSE {{}}
  BY DEF Init
<1>2. /\ sealed = ways /\ link = [u \in Account |-> "none"] /\ step = [r \in Request |-> "idle"]
      /\ call = [r \in Request |-> NoCall] /\ owner = [r \in Request |-> Nobody]
      /\ draws = [r \in Request |-> 0] /\ seen = [r \in Request |-> {}]
      /\ bereft = {} /\ renamed = {} /\ calls = 0 /\ deletions = 0
  BY DEF Init
<1>3. Within(w) /\ Within({})
  BY StandingAssumption, FewWithin DEF Within
<1>4. /\ ways \in [Account -> SUBSET Way] /\ sealed \in [Account -> SUBSET Way]
      /\ \A u \in Account : Within(ways[u]) /\ sealed[u] = ways[u]
  BY <1>1, <1>2, <1>3 DEF Within
<1>5. FiniteInv /\ SealCoversTheWaysIn
  BY <1>4, WithinOf
<1>6. confirmed \subseteq Live
  <2>1. First \in Account
    BY BoundsAssumption DEF First
  <2> QED  BY <1>1, <2>1 DEF Live
<1>7. TypeOK
  <2>1. /\ status \in [Account -> {"absent", "live", "gone"}]
        /\ holds \in [Account -> SUBSET {"address", "name"}]
    BY <1>1
  <2>2. /\ link \in [Account -> {"none", "minted", "mailed", "spent"}]
        /\ step \in [Request -> Step] /\ call \in [Request -> Call \cup {NoCall}]
        /\ owner \in [Request -> Account \cup {Nobody}] /\ draws \in [Request -> 0 .. CoverDraws]
        /\ seen \in [Request -> SUBSET Way]
    BY <1>2 DEF Step, CoverDraws
  <2>3. /\ bereft \subseteq Request /\ renamed \subseteq Request
        /\ calls \in 0 .. MaxCalls /\ deletions \in 0 .. MaxDeletions
    BY <1>2, BoundsAssumption
  <2> QED  BY <1>4, <1>6, <2>1, <2>2, <2>3 DEF TypeOK
<1>8. RequestInv
  BY <1>2, NoCallFor DEF RequestInv, OfRequest, CallOf, OwnerOf, LockOf, ToldOf
<1> QED  BY <1>5, <1>7, <1>8 DEF AccountsInv

\* The steps of a request, and those of an account.
ActsAlone(r) ==
  \/ \E c \in Call : Begin(r, c)
  \/ FindAddressOwner(r) \/ InsertUser(r) \/ Veto(r)
  \/ DiscardRegistration(r) \/ AskForTheName(r)
  \/ Announce(r) \/ AnnounceFails(r) \/ SpendLink(r) \/ RemoveUntoldAccount(r)
  \/ FindAccount(r) \/ SignInByIdentity(r) \/ CreationLosesTheSubject(r)
  \/ LockAccount(r) \/ CommitChange(r)
  \/ FindPasskey(r) \/ CheckPasskey(r) \/ RecordAssertion(r) \/ Issue(r)
  \/ \E u \in Account : CommitRegistration(r, u) \/ CommitCreation(r, u)

Happens(u) == Confirm(u) \/ LeaveAddress(u) \/ ResetPassword(u) \/ ChangeName(u) \/ Delete(u)

LEMMA NextActs == Next <=> (\E r \in Request : ActsAlone(r)) \/ (\E u \in Account : Happens(u))
BY Zenon DEF Next, ActsAlone, Happens

LEMMA NextKeeps ==
  ASSUME AccountsInv, [Next]_vars
  PROVE  AccountsInv'
<1>1. ASSUME NEW r \in Request, ActsAlone(r) PROVE AccountsInv'
  <2>1. ASSUME NEW c \in Call, Begin(r, c) PROVE AccountsInv'
    BY <2>1, BeginKeeps
  <2>2. CASE FindAddressOwner(r) \/ InsertUser(r) \/ DiscardRegistration(r) \/ AskForTheName(r)
    BY <2>2, FindAddressOwnerKeeps, InsertUserKeeps, DiscardRegistrationKeeps, AskForTheNameKeeps
  <2>3. CASE Announce(r) \/ AnnounceFails(r) \/ SpendLink(r) \/ RemoveUntoldAccount(r)
    BY <2>3, AnnounceKeeps, AnnounceFailsKeeps, SpendLinkKeeps, RemoveUntoldAccountKeeps
  <2>4. CASE Veto(r) \/ CreationLosesTheSubject(r) \/ Issue(r)
    BY <2>4, RefusalKeeps
  <2>5. CASE FindAccount(r) \/ SignInByIdentity(r) \/ LockAccount(r) \/ CommitChange(r)
    BY <2>5, FindAccountKeeps, SignInByIdentityKeeps, LockAccountKeeps, CommitChangeKeeps
  <2>6. CASE FindPasskey(r) \/ CheckPasskey(r) \/ RecordAssertion(r)
    BY <2>6, FindPasskeyKeeps, CheckPasskeyKeeps, RecordAssertionKeeps
  <2>7. ASSUME NEW u \in Account, CommitRegistration(r, u) \/ CommitCreation(r, u) PROVE AccountsInv'
    BY <2>7, CommitRegistrationKeeps, CommitCreationKeeps
  <2> QED  BY <1>1, <2>1, <2>2, <2>3, <2>4, <2>5, <2>6, <2>7, Zenon DEF ActsAlone
<1>2. ASSUME NEW u \in Account, Happens(u) PROVE AccountsInv'
  BY <1>2, ConfirmKeeps, LeaveAddressKeeps, ResetPasswordKeeps, ChangeNameKeeps, DeleteKeeps DEF Happens
<1>3. ASSUME UNCHANGED vars PROVE AccountsInv'
  <2>1. /\ UNCHANGED <<status, holds, confirmed, ways, sealed>> /\ link' = link
        /\ step' = step /\ bereft' = bereft /\ renamed' = renamed /\ calls' = calls /\ deletions' = deletions
        /\ UNCHANGED <<step, requests>>
    BY <1>3 DEF vars, accounts, bounds, told
  <2>2. RequestsTyped /\ OnlyMoves(Nobody) /\ Nobody \notin Request
    BY <2>1, NobodyMoves
  <2>3. TypeOK'
    BY <2>1, <2>2 DEF AccountsInv, TypeOK, RequestsTyped, Live
  <2>4. FiniteInv' /\ SealCoversTheWaysIn'
    BY <2>1 DEF AccountsInv, FiniteInv, SealCoversTheWaysIn
  <2>5. Apart(Nobody)
    BY <2>1, <2>2 DEF Apart, AccountStep, HoldsStep, NameStep, HeldBy, Live
  <2> QED  BY <2>2, <2>3, <2>4, <2>5, StepKeeps
<1> QED  BY <1>1, <1>2, <1>3, NextActs

LEMMA AccountsInvAlways == Spec => []AccountsInv
<1>1. Init => AccountsInv
  BY InitAccounts
<1>2. AccountsInv /\ [Next]_vars => AccountsInv'
  BY NextKeeps
<1> QED  BY <1>1, <1>2, PTL DEF Spec

\* Every variable keeps its kind, whatever sign-ups, sign-ins, changes of the
\* sign-in methods and deletions interleave (flows/sign-up.ts,
\* oauth/service.ts, webauthn/service.ts, sign-in-methods.ts).
THEOREM AccountsTyped == Spec => []TypeOK
<1>1. AccountsInv => TypeOK
  BY DEF AccountsInv
<1> QED  BY <1>1, AccountsInvAlways, PTL

\* The seal of every account covers exactly the sign-in methods it has, within
\* the limit of each kind: a change reads, writes and seals under the account
\* lock (sealChange and its callers in oauth, webauthn and sign-in-methods).
THEOREM SealsCoverTheWaysIn == Spec => []SealCoversTheWaysIn
<1>1. AccountsInv => SealCoversTheWaysIn
  BY DEF AccountsInv
<1> QED  BY <1>1, AccountsInvAlways, PTL

-----------------------------------------------------------------------------
(* What a step may do.                                                     *)

\* The steps that end in a sign-in.
SignsIn(r) ==
  \/ SignInByIdentity(r) \/ RecordAssertion(r) \/ CommitChange(r)
  \/ \E u \in Account : CommitCreation(r, u)

\* Where a step of r leads: to a sign-in only by those, to an end that was
\* reported as a success or as unmapped only by two.
Leads(r, x) ==
  /\ step' = [step EXCEPT ![r] = x]
  /\ x = "issue" => SignsIn(r)
  /\ x = "idle" => Announce(r) \/ AskForTheName(r) \/ answer' \notin {"created", "unmapped"}

LEMMA EndLeads ==
  ASSUME NEW r, NEW how, End(r, how),
         Announce(r) \/ AskForTheName(r) \/ how \notin {"created", "unmapped"}
  PROVE  \E x : Leads(r, x)
<1>1. Leads(r, "idle")
  BY DEF End, Leads
<1> QED  BY <1>1

LEMMA ProceedLeads ==
  ASSUME NEW r, NEW to, Proceed(r, to), to # "idle", to = "issue" => SignsIn(r)
  PROVE  \E x : Leads(r, x)
<1>1. Leads(r, to)
  BY DEF Proceed, Leads
<1> QED  BY <1>1

LEMMA ActsLead ==
  ASSUME TypeOK, NEW r \in Request, ActsAlone(r)
  PROVE  \E x : Leads(r, x)
<1>1. ASSUME NEW c \in Call, Begin(r, c) PROVE \E x : Leads(r, x)
  <2>1. CASE answer' = "username_taken" /\ step' = step
    <3>1. step' = [step EXCEPT ![r] = "idle"]
      BY <1>1, <2>1 DEF Begin, TypeOK
    <3>2. Leads(r, "idle")
      BY <2>1, <3>1 DEF Leads
    <3> QED  BY <3>2
  <2>2. CASE Proceed(r, IF OfTheOwner(c) THEN "lock" ELSE "begun")
    BY <2>2, ProceedLeads
  <2> QED  BY <1>1, <2>1, <2>2 DEF Begin
<1>2. CASE FindAddressOwner(r)
  BY <1>2, ProceedLeads DEF FindAddressOwner
<1>3. CASE InsertUser(r)
  BY <1>3, ProceedLeads, EndLeads DEF InsertUser
<1>4. CASE Veto(r) \/ CreationLosesTheSubject(r) \/ RemoveUntoldAccount(r)
  BY <1>4, EndLeads DEF Veto, CreationLosesTheSubject, RemoveUntoldAccount
<1>5. CASE DiscardRegistration(r) \/ SpendLink(r)
  BY <1>5, ProceedLeads DEF DiscardRegistration, SpendLink
<1>6. CASE AskForTheName(r)
  <2>1. \/ \E how : End(r, how)
        \/ Proceed(r, IF draws[r] = 0 THEN "lost" ELSE "register")
    BY <1>6 DEF AskForTheName
  <2>2. ASSUME NEW how, End(r, how) PROVE \E x : Leads(r, x)
    BY <1>6, <2>2, EndLeads
  <2>3. CASE Proceed(r, IF draws[r] = 0 THEN "lost" ELSE "register")
    BY <2>3, ProceedLeads
  <2> QED  BY <2>1, <2>2, <2>3
<1>7. CASE Announce(r)
  <2>1. End(r, "created")
    BY <1>7 DEF Announce
  <2> QED  BY <1>7, <2>1, EndLeads
<1>8. CASE AnnounceFails(r)
  BY <1>8, ProceedLeads, EndLeads DEF AnnounceFails
<1>9. CASE FindAccount(r)
  <2>1. \E to \in {"register", "verify", "lock"} : Proceed(r, to)
    BY <1>9 DEF FindAccount
  <2> QED  BY <2>1, ProceedLeads
<1>10. CASE SignInByIdentity(r)
  <2>1. Proceed(r, "issue") \/ End(r, "refused")
    BY <1>10 DEF SignInByIdentity
  <2> QED  BY <1>10, <2>1, ProceedLeads, EndLeads DEF SignsIn
<1>11. CASE LockAccount(r)
  <2>1. Proceed(r, "locked") \/ End(r, "refused")
    BY <1>11 DEF LockAccount
  <2> QED  BY <2>1, ProceedLeads, EndLeads
<1>12. CASE CommitChange(r)
  <2>1. Proceed(r, "issue") \/ End(r, "changed") \/ End(r, "refused")
    BY <1>12 DEF CommitChange
  <2> QED  BY <1>12, <2>1, ProceedLeads, EndLeads DEF SignsIn
<1>13. CASE FindPasskey(r)
  <2>1. Proceed(r, "check") \/ End(r, "refused")
    BY <1>13 DEF FindPasskey
  <2> QED  BY <2>1, ProceedLeads, EndLeads
<1>14. CASE CheckPasskey(r)
  <2>1. Proceed(r, "record") \/ End(r, "alarmed") \/ End(r, "refused")
    BY <1>14 DEF CheckPasskey
  <2> QED  BY <2>1, ProceedLeads, EndLeads
<1>15. CASE RecordAssertion(r)
  <2>1. Proceed(r, "issue") \/ End(r, "refused")
    BY <1>15 DEF RecordAssertion
  <2> QED  BY <1>15, <2>1, ProceedLeads, EndLeads DEF SignsIn
<1>16. CASE Issue(r)
  <2>1. End(r, "signed_in") \/ End(r, "failed")
    BY <1>16 DEF Issue
  <2> QED  BY <2>1, EndLeads
<1>17. ASSUME NEW u \in Account, CommitRegistration(r, u) PROVE \E x : Leads(r, x)
  BY <1>17, ProceedLeads DEF CommitRegistration
<1>18. ASSUME NEW u \in Account, CommitCreation(r, u) PROVE \E x : Leads(r, x)
  <2>1. Proceed(r, "issue")
    BY <1>18 DEF CommitCreation
  <2> QED  BY <1>18, <2>1, ProceedLeads DEF SignsIn
<1> QED
  BY <1>1, <1>2, <1>3, <1>4, <1>5, <1>6, <1>7, <1>8, <1>9, <1>10, <1>11, <1>12, <1>13, <1>14,
     <1>15, <1>16, <1>17, <1>18, Zenon DEF ActsAlone

\* Only a request's own steps move it.
LEMMA WhoMoves ==
  ASSUME AccountsInv, [Next]_vars, NEW q \in Request, step'[q] # step[q]
  PROVE  /\ step'[q] = "issue" => SignsIn(q)
         /\ step'[q] = "idle" =>
              Announce(q) \/ AskForTheName(q) \/ answer' \notin {"created", "unmapped"}
<1>1. ASSUME NEW r \in Request, ActsAlone(r) PROVE \E x : Leads(q, x) /\ step'[q] = x
  <2>1. PICK x : Leads(r, x)
    BY <1>1, ActsLead DEF AccountsInv
  <2>2. step' = [step EXCEPT ![r] = x] /\ step \in [Request -> Step]
    BY <2>1 DEF Leads, AccountsInv, TypeOK
  <2>3. q = r /\ step'[q] = x
    BY <2>2
  <2> QED  BY <2>1, <2>3
<1>2. ASSUME NEW u \in Account, Happens(u) PROVE FALSE
  BY <1>2 DEF Happens, Confirm, LeaveAddress, ResetPassword, ChangeName, Delete
<1>3. ~ UNCHANGED vars
  BY DEF vars
<1>4. PICK x : Leads(q, x) /\ step'[q] = x
  BY <1>1, <1>2, <1>3, NextActs
<1> QED  BY <1>4 DEF Leads

LEMMA CommittedChange ==
  ASSUME AccountsInv, NEW r \in Request, CommitChange(r)
  PROVE  /\ owner[r] \in Live /\ UNCHANGED <<status, holds>>
         /\ \A u \in Account : u # owner[r] => ways'[u] = ways[u]
         /\ ways'[owner[r]] # {} \/ ways'[owner[r]] = ways[owner[r]]
         /\ step'[r] = "issue" =>
              /\ call[r].for = "oauth" /\ owner'[r] = owner[r]
              /\ call[r].way \in ways'[owner[r]]
              /\ owner[r] \in HeldBy("address") \cap confirmed
<1>1. /\ step[r] = "locked" /\ OfRequest(r) /\ UNCHANGED <<status, holds>>
  BY DEF CommitChange, AccountsInv, RequestInv
<1>2. /\ owner[r] \in Account /\ owner[r] \in Live
      /\ call[r].for = "oauth" => owner[r] \in HeldBy("address") \cap confirmed
      /\ ways \in [Account -> SUBSET Way] /\ step \in [Request -> Step]
  BY <1>1 DEF OfRequest, OwnerOf, LockOf, AccountsInv, TypeOK
<1>3. CASE call[r].for = "remove" /\ MayRemove(r)
  <2>1. ways' = [ways EXCEPT ![owner[r]] = ways[owner[r]] \ {call[r].way}] /\ End(r, "changed")
    BY <1>3 DEF CommitChange
  <2>2. step'[r] = "idle"
    BY <1>2, <2>1 DEF End
  <2> QED  BY <1>1, <1>2, <1>3, <2>1, <2>2 DEF MayRemove
<1>4. CASE call[r].for # "remove" /\ MayAdd(r)
  <2>1. /\ ways' = [ways EXCEPT ![owner[r]] = ways[owner[r]] \cup {call[r].way}]
        /\ IF call[r].for = "oauth" THEN Proceed(r, "issue") /\ UNCHANGED requests
           ELSE End(r, "changed")
    BY <1>4 DEF CommitChange
  <2>2. step'[r] = "issue" => call[r].for = "oauth" /\ owner'[r] = owner[r]
    BY <1>2, <2>1 DEF End, requests
  <2> QED  BY <1>1, <1>2, <2>1, <2>2
<1>5. CASE IF call[r].for = "remove" THEN ~MayRemove(r) ELSE ~MayAdd(r)
  <2>1. ways' = ways /\ End(r, "refused")
    BY <1>5 DEF CommitChange
  <2>2. step'[r] = "idle"
    BY <1>2, <2>1 DEF End
  <2> QED  BY <1>1, <1>2, <2>1, <2>2
<1> QED  BY <1>3, <1>4, <1>5

\* What a first confirmation takes of an account's ways in.
LosesThePassword(u) == ways'[u] = ways[u] \ {Password} /\ u \in confirmed' \ confirmed

\* The ways in of an account change with it, by a committed change, or where the
\* password comes, or goes with the first confirmation.
LEMMA WaysChange ==
  ASSUME AccountsInv, [Next]_vars, NEW u \in Live, status'[u] = "live", ways'[u] # ways[u]
  PROVE  \/ \E r \in Request : CommitChange(r) /\ owner[r] = u
         \/ Password \in ways'[u]
         \/ LosesThePassword(u)
<1> SUFFICES ASSUME \A r \in Request : ~(CommitChange(r) /\ owner[r] = u),
                    Password \notin ways'[u], ~ LosesThePassword(u)
             PROVE  FALSE
  OBVIOUS
<1>1. /\ u \in Account /\ status[u] = "live" /\ ways \in [Account -> SUBSET Way]
      /\ status \in [Account -> {"absent", "live", "gone"}]
  BY DEF Live, AccountsInv, TypeOK
<1>2. ASSUME NEW x \in Account, RemoveUser(x) PROVE FALSE
  <2>1. u = x
    BY <1>1, <1>2 DEF RemoveUser
  <2> QED  BY <1>1, <1>2, <2>1 DEF RemoveUser
<1>3. ASSUME NEW r, NEW x \in Account, NEW held, NEW w, NEW verified, NEW minted,
             Create(r, x, held, w, verified, minted)
      PROVE  FALSE
  BY <1>1, <1>3 DEF Create
<1>4. ~ Quietly /\ ways' # ways
  BY DEF Quietly, accounts
<1>5. ASSUME NEW r \in Request, ActsAlone(r) PROVE FALSE
  <2>1. \A c \in Call : ~ Begin(r, c)
    BY <1>4, Zenon DEF Begin, accounts
  <2>2. ~ (FindAddressOwner(r) \/ InsertUser(r) \/ Veto(r) \/ DiscardRegistration(r) \/ AskForTheName(r))
    BY <1>4, Zenon DEF FindAddressOwner, InsertUser, Veto, DiscardRegistration, AskForTheName
  <2>3. ~ (Announce(r) \/ AnnounceFails(r) \/ SpendLink(r))
    BY <1>4 DEF Announce, AnnounceFails, SpendLink
  <2>4. ~ RemoveUntoldAccount(r)
    BY <1>2 DEF RemoveUntoldAccount, AccountsInv, RequestInv, OfRequest, OwnerOf
  <2>5. ~ (FindAccount(r) \/ SignInByIdentity(r) \/ CreationLosesTheSubject(r) \/ LockAccount(r))
    BY <1>4, Zenon DEF FindAccount, SignInByIdentity, CreationLosesTheSubject, LockAccount
  <2>6. ~ CommitChange(r)
    BY <1>1, CommittedChange
  <2>7. ~ (FindPasskey(r) \/ CheckPasskey(r) \/ RecordAssertion(r) \/ Issue(r))
    BY <1>4, Zenon DEF FindPasskey, CheckPasskey, RecordAssertion, Issue
  <2>8. \A x \in Account : ~ (CommitRegistration(r, x) \/ CommitCreation(r, x))
    BY <1>3 DEF CommitRegistration, CommitCreation
  <2> QED  BY <1>5, <2>1, <2>2, <2>3, <2>4, <2>5, <2>6, <2>7, <2>8, Zenon DEF ActsAlone
<1>6. ASSUME NEW x \in Account, Happens(x) PROVE FALSE
  <2>1. CASE Confirm(x) \/ LeaveAddress(x)
    <3>1. ConfirmUnderTheLock(x)
      BY <2>1 DEF Confirm, LeaveAddress
    <3>2. ways' = [ways EXCEPT ![x] = ways[x] \ {Password}] /\ x \notin confirmed /\ x \in confirmed'
      BY <1>4, <3>1 DEF ConfirmUnderTheLock, WithoutThePassword
    <3>3. u = x
      BY <1>1, <3>2
    <3> QED  BY <1>1, <3>2, <3>3 DEF LosesThePassword
  <2>2. CASE ResetPassword(x)
    BY <1>1, <2>2 DEF ResetPassword
  <2>3. CASE ChangeName(x)
    BY <1>4, <2>3 DEF ChangeName
  <2>4. CASE Delete(x)
    BY <1>2, <2>4 DEF Delete
  <2> QED  BY <1>6, <2>1, <2>2, <2>3, <2>4 DEF Happens
<1>7. ~ UNCHANGED vars
  BY <1>4 DEF vars, accounts
<1> QED  BY <1>5, <1>6, <1>7, NextActs

\* What removeSignInMethod counts under the lock is what it leaves
\* (sign-in-methods.ts:111): an account keeps a way in for as long as it lives,
\* but for the only password that its first confirmation deletes
\* (flows/confirmation.ts).
THEOREM TheLastWayInStays == Spec => LastWayInStays
<1>1. ASSUME AccountsInv, [Next]_vars, NEW u \in Live, ways[u] # {}, status'[u] = "live", ways'[u] = {}
      PROVE  ways[u] = {Password} /\ u \in confirmed' \ confirmed
  <2>1. LosesThePassword(u)
    BY <1>1, WaysChange, CommittedChange
  <2> QED  BY <1>1, <2>1 DEF LosesThePassword
<1>2. AccountsInv /\ [Next]_vars =>
        [\A u \in Live : ways[u] # {} /\ status'[u] = "live" /\ ways'[u] = {}
           => ways[u] = {Password} /\ u \in confirmed' \ confirmed]_vars
  BY <1>1
<1> QED  BY <1>2, AccountsInvAlways, PTL DEF Spec, LastWayInStays

\* Whoever is signed in by a subject or a passkey is signed in to the account
\* that has it at that moment: theIdentityUnderItsAccountLock and
\* recordAssertion look again at what was found before (oauth/service.ts,
\* webauthn/service.ts).
THEOREM SignInsAreByAHeldWay == Spec => SignsInByAHeldWay
<1>1. ASSUME AccountsInv, [Next]_vars, NEW r \in Request, step[r] # "issue", step'[r] = "issue"
      PROVE  call[r].way \in ways'[owner'[r]] /\ status'[owner'[r]] = "live"
  <2>1. SignsIn(r)
    BY <1>1, WhoMoves
  <2>2. step \in [Request -> Step] /\ owner \in [Request -> Account \cup {Nobody}]
    BY <1>1 DEF AccountsInv, TypeOK
  <2>3. CASE SignInByIdentity(r) \/ RecordAssertion(r)
    <3>1. \A how : ~ End(r, how)
      BY <1>1, <2>2 DEF End
    <3>2. /\ owner[r] \in OwnersOf(call[r].way) /\ UNCHANGED requests /\ Quietly
      BY <2>3, <3>1 DEF SignInByIdentity, RecordAssertion
    <3>3. owner' = owner /\ ways' = ways /\ status' = status
      BY <3>2 DEF requests, Quietly, accounts
    <3> QED  BY <3>2, <3>3 DEF OwnersOf, Live
  <2>4. CASE CommitChange(r)
    BY <1>1, <2>4, CommittedChange DEF Live
  <2>5. ASSUME NEW u \in Account, CommitCreation(r, u)
        PROVE  call[r].way \in ways'[owner'[r]] /\ status'[owner'[r]] = "live"
    <3>1. /\ ways' = [ways EXCEPT ![u] = {call[r].way}] /\ owner' = [owner EXCEPT ![r] = u]
          /\ status' = [status EXCEPT ![u] = "live"]
      BY <2>5 DEF CommitCreation, Create
    <3> QED  BY <1>1, <2>2, <3>1 DEF AccountsInv, TypeOK
  <2> QED  BY <2>1, <2>3, <2>4, <2>5 DEF SignsIn
<1>2. AccountsInv /\ [Next]_vars =>
        [\A r \in Request : step[r] # "issue" /\ step'[r] = "issue"
           => call[r].way \in ways'[owner'[r]] /\ status'[owner'[r]] = "live"]_vars
  BY <1>1
<1> QED  BY <1>2, AccountsInvAlways, PTL DEF Spec, SignsInByAHeldWay

\* A provider sign-in that joins an account joins one whose own address is the
\* verified one: accountAnAutomaticLinkMayJoin is asked again under the lock,
\* and the lock keeps the answer true to the commit (oauth/service.ts).
THEOREM LinksAreToConfirmedAddresses == Spec => LinksJoinConfirmedAddresses
<1>1. ASSUME AccountsInv, [Next]_vars, NEW r \in Request, step[r] = "locked", step'[r] = "issue"
      PROVE  owner[r] \in HeldBy("address") \cap confirmed
  <2>1. SignsIn(r)
    BY <1>1, WhoMoves
  <2>2. CommitChange(r)
    BY <1>1, <2>1 DEF SignsIn, SignInByIdentity, RecordAssertion, CommitCreation
  <2> QED  BY <1>1, <2>2, CommittedChange
<1>2. AccountsInv /\ [Next]_vars =>
        [\A r \in Request : step[r] = "locked" /\ step'[r] = "issue"
           => owner[r] \in HeldBy("address") \cap confirmed]_vars
  BY <1>1
<1> QED  BY <1>2, AccountsInvAlways, PTL DEF Spec, LinksJoinConfirmedAddresses

\* A sign-up that answers as created has mailed the new account or the owner of
\* the address, and none ends in a unique violation it cannot name (E-947),
\* unless an account ended, left the address or gave up the name asked for
\* meanwhile (flows/sign-up.ts).
THEOREM EverySignUpTells == Spec => EverySignUpIsTold
<1>1. ASSUME AccountsInv, [Next]_vars, NEW r \in Request \ (bereft \cup renamed),
             step[r] # "idle", step'[r] = "idle"
      PROVE  /\ answer' = "created" => mail' # "none"
             /\ answer' # "unmapped"
  <2>1. Announce(r) \/ AskForTheName(r) \/ answer' \notin {"created", "unmapped"}
    BY <1>1, WhoMoves
  <2>2. /\ ToldOf(r) /\ draws[r] \in Nat /\ step \in [Request -> Step]
    BY <1>1 DEF AccountsInv, RequestInv, OfRequest, TypeOK
  <2>3. CASE Announce(r)
    <3>1. answer' = "created"
      BY <2>3 DEF Announce, End
    <3>2. mail' # "none"
      BY <1>1, <2>2, <2>3 DEF Announce, ToldOf
    <3> QED  BY <3>1, <3>2
  <2>4. CASE AskForTheName(r)
    <3>1. PICK v \in Values(r) : HeldBy(v) # {}
      BY <1>1, <2>2, <2>4 DEF AskForTheName, ToldOf
    <3>2. ASSUME draws[r] = CoverDraws PROVE call[r].named /\ HeldBy("name") # {}
      BY <3>1, <3>2 DEF Values, CoverDraws
    <3>3. CASE call[r].named /\ HeldBy("name") # {}
      BY <2>4, <3>3 DEF AskForTheName, End
    <3>4. CASE ~ (call[r].named /\ HeldBy("name") # {})
      <4>1. Proceed(r, IF draws[r] = 0 THEN "lost" ELSE "register")
        BY <2>4, <3>2, <3>4 DEF AskForTheName
      <4> QED  BY <4>1 DEF Proceed
    <3> QED  BY <3>3, <3>4
  <2> QED  BY <2>1, <2>3, <2>4
<1>2. AccountsInv /\ [Next]_vars =>
        [\A r \in Request \ (bereft \cup renamed) : step[r] # "idle" /\ step'[r] = "idle"
           => /\ answer' = "created" => mail' # "none"
              /\ answer' # "unmapped"]_vars
  BY <1>1
<1> QED  BY <1>2, AccountsInvAlways, PTL DEF Spec, EverySignUpIsTold

=============================================================================
