------------------------ MODULE OneTimeTokensProofs ------------------------
(***************************************************************************)
(* Theorems about OneTimeTokens: one link of a purpose stands, a link that *)
(* stands is of its purpose's generation and of the account's address, no  *)
(* link is blamed, and the locks are taken in one order by all requests.   *)
(***************************************************************************)
EXTENDS OneTimeTokens, FiniteSetTheorems, TLAPS

-----------------------------------------------------------------------------
(* The inductive invariant.                                                *)

Minting(r) == pc[r] \in {"asked", "serialising", "minting", "inserted"}

Redeeming(r) == pc[r] \in {"consumed", "withdrawing", "deleting", "locking", "spending"}

\* r, which changes the address, has looked for the links of a purpose.
Leaves(r, purpose) ==
  \/ pc[r] \in {"withdrawing", "deleting"} /\ purpose \notin work[r].left
  \/ pc[r] = "locking" /\ rows[work[r].token].purpose = "email_change"

\* The token a request mints is nobody else's, and its row was read from the
\* account before whatever made it late or overtaken.
MintOf(r) ==
  Minting(r) =>
    /\ work[r].token \in Token /\ rows[work[r].token] = Unissued
    /\ \A other \in Request : other # r => work[other].token # work[r].token
    /\ work[r].row.life = "present" /\ work[r].row.purpose \in Purpose
    /\ work[r].row.address = account.address \/ work[r].token \in late
    /\ pc[r] # "asked" => \/ work[r].row.generation = seal.generation[work[r].row.purpose]
                          \/ work[r].token \in overtaken

\* A token that was minted is known until its message is answered for.
SentOf(r) == pc[r] \in {"sending", "undoing"} => work[r].token \in Token

\* The advisory lock is held from the serialising statement to the commit.
MinterOf(r) == minter = r <=> pc[r] \in {"minting", "inserted"}

\* Before a minted row is inserted, the mint holds every row it supersedes.
InsertOf(r) ==
  pc[r] = "inserted" =>
    \A token \in Token :
      rows[token].life = "present" /\ rows[token].purpose = work[r].row.purpose => holder[token] = r

\* Rows are held by open transactions that have deleted them.
HoldOf(r) ==
  \A token \in Token : holder[token] = r =>
    rows[token].life = "present" /\ (pc[r] = "inserted" \/ Redeeming(r))

LockOf(r) == lock = r => pc[r] \in LockedFrom

\* A redemption holds its own row, and withdraws only for a change of address.
RedeemOf(r) ==
  /\ Redeeming(r) => work[r].token \in Token /\ holder[work[r].token] = r
  /\ pc[r] \in {"withdrawing", "deleting"} => rows[work[r].token].purpose = "email_change"

\* A link the change of r has withdrawn, is about to withdraw, or cannot reach.
Reached(r, token) ==
  \/ holder[token] = r
  \/ token \in late
  \/ pc[r] = "deleting" /\ token \in work[r].sought

\* A change of address reaches every link of a purpose it has looked for, and
\* knows of every mint it cannot reach.
WithdrawOf(r) ==
  \A purpose \in Purpose : Leaves(r, purpose) =>
    /\ \A token \in Token :
         rows[token].life = "present" /\ rows[token].purpose = purpose => Reached(r, token)
    /\ \A q \in Request : Minting(q) /\ work[q].row.purpose = purpose => work[q].token \in late

OfRequest(r) ==
  /\ MintOf(r) /\ SentOf(r) /\ MinterOf(r) /\ InsertOf(r) /\ HoldOf(r) /\ LockOf(r)
  /\ RedeemOf(r) /\ WithdrawOf(r)

RequestInv == \A r \in Request : OfRequest(r)

\* A row that stands has a purpose, and is the only one of it.
UniqueInv ==
  \A token \in Token : rows[token].life = "present" =>
    /\ rows[token].purpose \in Purpose
    /\ \A other \in Token :
         rows[other].life = "present" /\ rows[other].purpose = rows[token].purpose => other = token

\* The token redeemed last is gone.
BlameInv ==
  /\ \A token \in Token : seal.last = token => rows[token].life = "gone"
  /\ NoLinkIsBlamed

LinksInv ==
  /\ TypeOK
  /\ RequestInv
  /\ UniqueInv
  /\ LinksAreCurrent
  /\ ChangeWithdrawsEveryLink
  /\ BlameInv

-----------------------------------------------------------------------------
(* What the operators do to what the requests remember and to the rows.    *)

\* A request other than r neither moves nor learns anything.
OnlyMoves(r) == \A q \in Request : q # r => pc'[q] = pc[q] /\ work'[q] = work[q]

\* The types the steps are reasoned with.
LEMMA Types ==
  ASSUME TypeOK
  PROVE  /\ seal.version \in Nat /\ seal.generation \in [Purpose -> Nat]
         /\ seal.last \in Token \cup {NoToken}
         /\ account.address \in Address
         /\ \A token \in Token : rows[token] \in Row
         /\ \A r \in Request : /\ work[r] \in Work /\ work[r].token \in Token \cup {NoToken}
                               /\ work[r].row \in Row /\ work[r].left \in SUBSET Purpose
                               /\ work[r].sought \in SUBSET Token
<1>1. ASSUME NEW Flag, NEW f \in [address: Address, disabled: Flag] PROVE f.address \in Address
  OBVIOUS
<1>2. account.address \in Address
  BY <1>1 DEF TypeOK
<1>3. seal \in [version: Nat, generation: [Purpose -> Nat], last: Token \cup {NoToken}]
  BY DEF TypeOK
<1>4. ASSUME NEW w \in Work
      PROVE  /\ w.token \in Token \cup {NoToken} /\ w.row \in Row /\ w.left \in SUBSET Purpose
             /\ w.sought \in SUBSET Token
  BY DEF Work
<1>5. \A r \in Request : work[r] \in Work
  BY DEF TypeOK
<1>6. \A token \in Token : rows[token] \in Row
  BY DEF TypeOK
<1> QED  BY <1>2, <1>3, <1>4, <1>5, <1>6

\* A request that has nothing to remember.
LEMMA NoWorkType ==
  /\ Unissued \in Row /\ Unissued.life = "unissued"
  /\ NoWork \in Work /\ NoWork.token = NoToken /\ NoWork.row = Unissued
<1>1. Unissued \in Row /\ Unissued.life = "unissued"
  BY OneTimeTokensAssumption DEF Unissued, Row
<1> QED  BY <1>1 DEF NoWork, Work

\* A request goes to another step.
LEMMA GotoMoves ==
  ASSUME TypeOK, NEW r \in Request, NEW step \in Step, Goto(r, step)
  PROVE  /\ pc' \in [Request -> Step]
         /\ pc'[r] = step
         /\ \A q \in Request : q # r => pc'[q] = pc[q]
BY DEF TypeOK, Goto

\* What a request remembers is replaced.
LEMMA WorkMoves ==
  ASSUME TypeOK, NEW r \in Request, NEW w \in Work, work' = [work EXCEPT ![r] = w]
  PROVE  /\ work' \in [Request -> Work]
         /\ work'[r] = w
         /\ \A q \in Request : q # r => work'[q] = work[q]
BY DEF TypeOK

\* A request ends and forgets.
LEMMA FinishMoves ==
  ASSUME TypeOK, NEW r \in Request, Finish(r)
  PROVE  /\ pc' \in [Request -> Step] /\ work' \in [Request -> Work]
         /\ pc'[r] = "idle" /\ work'[r] = NoWork
         /\ OnlyMoves(r)
<1>1. pc' \in [Request -> Step] /\ pc'[r] = "idle" /\ \A q \in Request : q # r => pc'[q] = pc[q]
  BY DEF Finish, TypeOK, Step
<1>2. work' = [work EXCEPT ![r] = NoWork]
  BY DEF Finish
<1> QED  BY <1>1, <1>2, NoWorkType, WorkMoves DEF OnlyMoves

\* A transaction that ends gives back what it holds.
LEMMA ReleaseFrees ==
  ASSUME TypeOK, NEW r \in Request, Release(r)
  PROVE  /\ holder' \in [Token -> Request \cup {Nobody}]
         /\ minter' \in Request \cup {Nobody} /\ lock' \in Request \cup {Nobody}
         /\ \A token \in Token : holder'[token] = IF holder[token] = r THEN Nobody ELSE holder[token]
         /\ minter' = IF minter = r THEN Nobody ELSE minter
         /\ lock' = IF lock = r THEN Nobody ELSE lock
BY DEF Release, TypeOK

\* What a statement deletes is gone, and keeps what it said.
Ended(token) ==
  /\ rows'[token].life = "gone" /\ rows'[token].purpose = rows[token].purpose
  /\ rows'[token].generation = rows[token].generation /\ rows'[token].address = rows[token].address

LEMMA RowEnds ==
  ASSUME NEW row \in Row
  PROVE  LET ended == [row EXCEPT !.life = "gone"]
         IN  /\ ended \in Row /\ ended.life = "gone" /\ ended.purpose = row.purpose
             /\ ended.generation = row.generation /\ ended.address = row.address
BY DEF Row

LEMMA DeletedRows ==
  ASSUME TypeOK, NEW tokens, rows' = Deleted(tokens)
  PROVE  /\ rows' \in [Token -> Row]
         /\ \A token \in Token : IF token \in tokens THEN Ended(token) ELSE rows'[token] = rows[token]
<1>1. \A token \in Token : /\ token \in tokens => rows'[token] = [rows[token] EXCEPT !.life = "gone"]
                           /\ token \notin tokens => rows'[token] = rows[token]
  BY DEF Deleted
<1>2. \A token \in Token : token \in tokens => rows'[token] \in Row /\ Ended(token)
  <2> SUFFICES ASSUME NEW token \in Token, token \in tokens
               PROVE  rows'[token] \in Row /\ Ended(token)
    OBVIOUS
  <2> DEFINE ended == [rows[token] EXCEPT !.life = "gone"]
  <2>1. rows[token] \in Row
    BY Types
  <2>2. /\ ended \in Row /\ ended.life = "gone" /\ ended.purpose = rows[token].purpose
        /\ ended.generation = rows[token].generation /\ ended.address = rows[token].address
    BY <2>1, RowEnds
  <2>3. rows'[token] = ended
    BY <1>1
  <2> HIDE DEF ended
  <2> QED  BY <2>2, <2>3 DEF Ended
<1>3. \A token \in Token : rows'[token] \in Row
  BY <1>1, <1>2, Types
<1>4. rows' = [token \in Token |-> rows'[token]]
  BY DEF Deleted
<1> QED  BY <1>1, <1>2, <1>3, <1>4

-----------------------------------------------------------------------------
(* What a step of one request leaves of the others.                        *)

\* A row is left alone, deleted by r or while nobody holds
\* it, or inserted by r.
RowStep(r, token) ==
  \/ rows'[token] = rows[token]
  \/ /\ \A q \in Request : Minting(q) => work[q].token # token
     /\ holder[token] \in {r, Nobody} /\ Ended(token)
  \/ /\ r \in Request /\ pc[r] = "inserted" /\ token = work[r].token
     /\ rows'[token] = work[r].row

\* The generation of one purpose moves, and every mint that read it is noted.
GenerationStep ==
  \/ seal'.generation = seal.generation
  \/ \E moved \in Purpose :
       /\ \A purpose \in Purpose \ {moved} : seal'.generation[purpose] = seal.generation[purpose]
       /\ \A q \in Request : /\ pc[q] \in {"serialising", "minting", "inserted"}
                             /\ work[q].row.purpose = moved
                             => work[q].token \in overtaken'

\* A step of r, or of nobody, as the other requests see it.
Apart(r) ==
  /\ OnlyMoves(r)
  /\ \A token \in Token :
       /\ RowStep(r, token)
       /\ holder[token] \notin {r, Nobody} => holder'[token] = holder[token]
       /\ holder'[token] \in {holder[token], r, Nobody}
  /\ minter \notin {r, Nobody} => minter' = minter
  /\ minter' \in {minter, r, Nobody}
  /\ lock \notin {r, Nobody} => lock' = lock
  /\ lock' \in {lock, r, Nobody}
  /\ late \subseteq late' /\ overtaken \subseteq overtaken'
  /\ \/ account'.address = account.address
     \/ r \in Request /\ \A purpose \in Purpose : Leaves(r, purpose)
  /\ GenerationStep

\* r takes no token that is being minted, and what it begins to mint is noted by
\* those who have withdrawn its purpose.
Disjoint(r, q) ==
  r \in Request =>
    /\ Minting(q) => work'[r].token # work[q].token
    /\ Minting(r)' =>
         \/ Minting(r) /\ work'[r].token = work[r].token /\ work'[r].row.purpose = work[r].row.purpose
         \/ Leaves(q, work'[r].row.purpose) => work'[r].token \in late'

LEMMA OthersKeep ==
  ASSUME LinksInv, NEW r, Apart(r), NEW q \in Request, q # r, Disjoint(r, q)
  PROVE  OfRequest(q)'
<1>1. pc'[q] = pc[q] /\ work'[q] = work[q] /\ q # Nobody
  BY OneTimeTokensAssumption DEF Apart, OnlyMoves
<1>2. OfRequest(q) /\ (r \in Request => OfRequest(r))
  BY DEF LinksInv, RequestInv
<1>3. /\ Minting(q)' = Minting(q) /\ Redeeming(q)' = Redeeming(q)
  BY <1>1 DEF Minting, Redeeming
<1>4. MintOf(q)'
  <2> SUFFICES ASSUME Minting(q) PROVE MintOf(q)'
    BY <1>3 DEF MintOf
  <2>1. /\ work[q].token \in Token /\ rows[work[q].token] = Unissued
        /\ \A other \in Request : other # q => work[other].token # work[q].token
        /\ work[q].row.life = "present" /\ work[q].row.purpose \in Purpose
    BY <1>2 DEF OfRequest, MintOf
  <2>2. RowStep(r, work[q].token)
    BY <2>1 DEF Apart
  <2>3. rows'[work[q].token] = Unissued
    BY <2>1, <2>2 DEF RowStep
  <2>4. \A other \in Request : other # q => work'[other].token # work[q].token
    BY <2>1 DEF Apart, OnlyMoves, Disjoint
  <2>5. work[q].row.address = account'.address \/ work[q].token \in late'
    <3>1. CASE account'.address = account.address
      BY <1>2, <3>1 DEF OfRequest, MintOf, Apart
    <3>2. CASE r \in Request /\ \A purpose \in Purpose : Leaves(r, purpose)
      BY <1>2, <2>1, <3>2 DEF OfRequest, WithdrawOf, Apart
    <3> QED  BY <3>1, <3>2 DEF Apart
  <2>6. pc[q] # "asked" => \/ work[q].row.generation = seal'.generation[work[q].row.purpose]
                           \/ work[q].token \in overtaken'
    <3>1. CASE seal'.generation = seal.generation
      BY <1>2, <3>1 DEF OfRequest, MintOf, Apart
    <3>2. CASE seal'.generation # seal.generation
      <4>1. PICK moved \in Purpose :
              /\ \A purpose \in Purpose \ {moved} : seal'.generation[purpose] = seal.generation[purpose]
              /\ \A p \in Request : /\ pc[p] \in {"serialising", "minting", "inserted"}
                                    /\ work[p].row.purpose = moved
                                    => work[p].token \in overtaken'
        BY <3>2 DEF Apart, GenerationStep
      <4>2. CASE work[q].row.purpose = moved
        BY <4>1, <4>2 DEF Minting
      <4>3. CASE work[q].row.purpose # moved
        BY <1>2, <2>1, <4>1, <4>3 DEF OfRequest, MintOf, Apart
      <4> QED  BY <4>2, <4>3
    <3> QED  BY <3>1, <3>2
  <2> QED  BY <1>1, <2>1, <2>3, <2>4, <2>5, <2>6 DEF MintOf
<1>5. MinterOf(q)'
  BY <1>1, <1>2 DEF OfRequest, MinterOf, Apart
<1>6. LockOf(q)' /\ SentOf(q)'
  BY <1>1, <1>2 DEF OfRequest, LockOf, SentOf, Apart
<1>7. InsertOf(q)'
  <2> SUFFICES ASSUME pc[q] = "inserted", NEW token \in Token,
                      rows'[token].life = "present", rows'[token].purpose = work[q].row.purpose
               PROVE  holder'[token] = q
    BY <1>1 DEF InsertOf
  <2>1. minter = q
    BY <1>2 DEF OfRequest, MinterOf
  <2>2. ~ (r \in Request /\ pc[r] = "inserted")
    BY <1>2, <2>1 DEF OfRequest, MinterOf
  <2>3. rows'[token] = rows[token]
    BY <2>2 DEF Apart, RowStep, Ended
  <2>4. holder[token] = q
    BY <1>2, <2>3 DEF OfRequest, InsertOf
  <2> QED  BY <1>1, <2>4 DEF Apart
<1>8. \A token \in Token : holder[token] = q => rows'[token] = rows[token] /\ rows[token].life = "present"
  <2> SUFFICES ASSUME NEW token \in Token, holder[token] = q
               PROVE  rows'[token] = rows[token] /\ rows[token].life = "present"
    OBVIOUS
  <2>1. rows[token].life = "present"
    BY <1>2 DEF OfRequest, HoldOf
  <2>2. r \in Request /\ pc[r] = "inserted" => rows[work[r].token].life = "unissued"
    BY <1>2, NoWorkType DEF OfRequest, MintOf, Minting
  <2> QED  BY <1>1, <2>1, <2>2 DEF Apart, RowStep
<1>9. HoldOf(q)'
  <2>1. \A token \in Token : holder'[token] = q => holder[token] = q
    BY <1>1 DEF Apart
  <2> QED  BY <1>1, <1>2, <1>3, <1>8, <2>1 DEF OfRequest, HoldOf
<1>10. RedeemOf(q)'
  <2>1. Redeeming(q) => work[q].token \in Token /\ holder[work[q].token] = q
    BY <1>2 DEF OfRequest, RedeemOf
  <2>2. Redeeming(q) => holder'[work[q].token] = q /\ rows'[work[q].token] = rows[work[q].token]
    BY <1>1, <1>8, <2>1 DEF Apart
  <2> QED  BY <1>1, <1>2, <1>3, <2>1, <2>2 DEF OfRequest, RedeemOf, Redeeming
<1>11. WithdrawOf(q)'
  <2> SUFFICES ASSUME NEW purpose \in Purpose, Leaves(q, purpose)'
               PROVE  /\ \A token \in Token :
                           rows'[token].life = "present" /\ rows'[token].purpose = purpose =>
                             Reached(q, token)'
                      /\ \A p \in Request : Minting(p)' /\ work'[p].row.purpose = purpose =>
                           work'[p].token \in late'
    BY DEF WithdrawOf
  <2>1. Leaves(q, purpose)
    <3>1. Redeeming(q) => rows'[work[q].token] = rows[work[q].token]
      BY <1>2, <1>8 DEF OfRequest, RedeemOf
    <3> QED  BY <1>1, <3>1 DEF Leaves, Redeeming
  <2>2. /\ \A token \in Token :
             rows[token].life = "present" /\ rows[token].purpose = purpose => Reached(q, token)
        /\ \A p \in Request : Minting(p) /\ work[p].row.purpose = purpose => work[p].token \in late
    BY <1>2, <2>1 DEF OfRequest, WithdrawOf
  <2>3. ASSUME NEW token \in Token, rows'[token].life = "present", rows'[token].purpose = purpose
        PROVE  Reached(q, token)'
    <3>1. CASE rows'[token] = rows[token]
      BY <1>1, <2>2, <2>3, <3>1 DEF Apart, Reached
    <3>2. CASE rows'[token] # rows[token]
      <4>1. /\ r \in Request /\ pc[r] = "inserted" /\ token = work[r].token
            /\ rows'[token] = work[r].row
        BY <2>3, <3>2 DEF Apart, RowStep, Ended
      <4> QED  BY <2>2, <2>3, <4>1 DEF Apart, Minting, Reached
    <3> QED  BY <3>1, <3>2
  <2>4. ASSUME NEW p \in Request, Minting(p)', work'[p].row.purpose = purpose
        PROVE  work'[p].token \in late'
    <3>1. CASE p # r
      BY <2>2, <2>4, <3>1 DEF Apart, OnlyMoves, Minting
    <3>2. CASE p = r
      BY <2>1, <2>2, <2>4, <3>2 DEF Apart, Disjoint
    <3> QED  BY <3>1, <3>2
  <2> QED  BY <2>3, <2>4
<1> QED  BY <1>4, <1>5, <1>6, <1>7, <1>9, <1>10, <1>11 DEF OfRequest

\* A request that has ended owes nothing.
LEMMA IdleKeeps ==
  ASSUME LinksInv, NEW r \in Request, pc'[r] = "idle", minter' # r, lock' # r,
         \A token \in Token : holder'[token] # r
  PROVE  OfRequest(r)'
BY DEF OfRequest, MintOf, SentOf, MinterOf, InsertOf, HoldOf, LockOf, RedeemOf, WithdrawOf, Minting,
       Redeeming, Leaves

-----------------------------------------------------------------------------
(* Minting, and the steps that change no row.                              *)

\* A step that changes neither the account nor its rows.
Quiet == seal' = seal /\ account' = account /\ rows' = rows

LEMMA QuietKeeps ==
  ASSUME LinksInv, NEW r \in Request, Quiet, OnlyMoves(r),
         pc' \in [Request -> Step], work' \in [Request -> Work],
         holder' \in [Token -> Request \cup {Nobody}],
         minter' \in Request \cup {Nobody}, lock' \in Request \cup {Nobody},
         mailed' \subseteq Token,
         \A token \in Token : /\ holder[token] \notin {r, Nobody} => holder'[token] = holder[token]
                              /\ holder'[token] \in {holder[token], r, Nobody},
         minter \notin {r, Nobody} => minter' = minter, minter' \in {minter, r, Nobody},
         lock \notin {r, Nobody} => lock' = lock, lock' \in {lock, r, Nobody},
         late' \subseteq Token, late \subseteq late',
         effective' = effective, overtaken' = overtaken,
         blamed' = FALSE,
         \A q \in Request : q # r => Disjoint(r, q),
         OfRequest(r)'
  PROVE  LinksInv'
<1>1. seal' = seal /\ account' = account /\ rows' = rows
  BY DEF Quiet
<1>2. TypeOK'
  BY <1>1 DEF LinksInv, TypeOK
<1>3. Apart(r)
  BY <1>1 DEF Apart, RowStep, GenerationStep
<1>4. RequestInv'
  BY <1>3, OthersKeep DEF RequestInv
<1>5. UniqueInv' /\ LinksAreCurrent'
  BY <1>1 DEF LinksInv, UniqueInv, LinksAreCurrent, Current
<1>6. ChangeWithdrawsEveryLink'
  BY <1>1 DEF LinksInv, ChangeWithdrawsEveryLink
<1>7. BlameInv'
  BY <1>1 DEF LinksInv, BlameInv, NoLinkIsBlamed
<1> QED  BY <1>2, <1>4, <1>5, <1>6, <1>7 DEF LinksInv

\* No transaction of r holds a lock or a row while it asks for one or mails it.
LEMMA NothingHeld ==
  ASSUME LinksInv, NEW r \in Request, pc[r] \in {"idle", "asked", "serialising", "sending", "undoing"}
  PROVE  minter # r /\ lock # r /\ \A token \in Token : holder[token] # r
BY DEF LinksInv, RequestInv, OfRequest, MinterOf, LockOf, HoldOf, Redeeming, LockedFrom

\* Nobody is blamed yet.
LEMMA NotBlamed == LinksInv => blamed = FALSE
BY DEF LinksInv, BlameInv, NoLinkIsBlamed, TypeOK

LEMMA AskForLinkKeeps ==
  ASSUME LinksInv, NEW r \in Request, NEW token \in Token, NEW purpose \in Purpose,
         NEW to \in Address, AskForLink(r, token, purpose, to)
  PROVE  LinksInv'
<1> DEFINE row == [life |-> "present", purpose |-> purpose, generation |-> 0,
                   address |-> account.address, to |-> to]
           w == [NoWork EXCEPT !.token = token, !.row = row]
<1>1. /\ pc[r] = "idle" /\ rows[token] = Unissued
      /\ \A q \in Request : work[q].token # token
      /\ Goto(r, "asked") /\ work' = [work EXCEPT ![r] = w]
      /\ late' = (IF Withdrawn(purpose) THEN late \cup {token} ELSE late)
      /\ seal' = seal /\ account' = account /\ rows' = rows /\ holder' = holder /\ minter' = minter
      /\ lock' = lock /\ mailed' = mailed /\ effective' = effective /\ overtaken' = overtaken
      /\ blamed' = blamed
  BY DEF AskForLink, locks
<1>2. /\ row \in Row /\ row.life = "present" /\ row.purpose = purpose
      /\ row.address = account.address
  BY Types DEF LinksInv, Row
<1> HIDE DEF row
<1>3. w \in Work /\ w.token = token /\ w.row = row
  BY <1>2, NoWorkType DEF Work
<1> HIDE DEF w
<1>4. /\ pc' \in [Request -> Step] /\ pc'[r] = "asked"
      /\ work' \in [Request -> Work] /\ work'[r] = w /\ OnlyMoves(r)
  BY <1>1, <1>3, GotoMoves, WorkMoves DEF LinksInv, Step, OnlyMoves
<1>5. late' \subseteq Token /\ late \subseteq late'
  BY <1>1 DEF LinksInv, TypeOK
<1>6. \A q \in Request : Leaves(q, purpose) => token \in late'
  BY <1>1 DEF Leaves, Withdrawn
<1>7. \A q \in Request : q # r => Disjoint(r, q)
  BY <1>1, <1>2, <1>3, <1>4, <1>6 DEF Disjoint
<1>8. OfRequest(r)'
  <2>1. MintOf(r)'
    BY <1>1, <1>2, <1>3, <1>4 DEF MintOf, OnlyMoves
  <2>2. /\ SentOf(r)' /\ MinterOf(r)' /\ InsertOf(r)' /\ HoldOf(r)' /\ LockOf(r)'
        /\ RedeemOf(r)' /\ WithdrawOf(r)'
    BY <1>1, <1>4, NothingHeld
    DEF SentOf, MinterOf, InsertOf, HoldOf, LockOf, RedeemOf, WithdrawOf, Redeeming, Leaves
  <2> QED  BY <2>1, <2>2 DEF OfRequest
<1>9. /\ holder' \in [Token -> Request \cup {Nobody}] /\ minter' \in Request \cup {Nobody}
      /\ lock' \in Request \cup {Nobody} /\ mailed' \subseteq Token
  BY <1>1 DEF LinksInv, TypeOK
<1> QED  BY <1>1, <1>4, <1>5, <1>7, <1>8, <1>9, NotBlamed, QuietKeeps DEF Quiet

LEMMA ReadGenerationKeeps ==
  ASSUME LinksInv, NEW r \in Request, ReadGeneration(r)
  PROVE  LinksInv'
<1> DEFINE generation == seal.generation[work[r].row.purpose]
           row == [work[r].row EXCEPT !.generation = generation]
           w == [work[r] EXCEPT !.row = row]
<1>1. /\ pc[r] = "asked" /\ Goto(r, "serialising") /\ work' = [work EXCEPT ![r] = w]
      /\ seal' = seal /\ account' = account /\ rows' = rows /\ holder' = holder /\ minter' = minter
      /\ lock' = lock /\ mailed' = mailed /\ effective' = effective /\ overtaken' = overtaken
      /\ late' = late /\ blamed' = blamed
  BY DEF ReadGeneration, locks, history, LinksInv, TypeOK
<1>2. /\ work[r].token \in Token /\ rows[work[r].token] = Unissued
      /\ \A other \in Request : other # r => work[other].token # work[r].token
      /\ work[r].row.life = "present" /\ work[r].row.purpose \in Purpose
      /\ work[r].row.address = account.address \/ work[r].token \in late
      /\ work[r] \in Work /\ work[r].row \in Row
  BY <1>1, Types DEF LinksInv, RequestInv, OfRequest, MintOf, Minting
<1>3. generation \in Nat
  BY <1>2, Types DEF LinksInv
<1> HIDE DEF generation
<1>4. /\ row \in Row /\ row.life = "present" /\ row.purpose = work[r].row.purpose
      /\ row.address = work[r].row.address /\ row.generation = generation
  BY <1>2, <1>3 DEF Row
<1> HIDE DEF row
<1>5. w \in Work /\ w.token = work[r].token /\ w.row = row
  BY <1>2, <1>4 DEF Work
<1> HIDE DEF w
<1>6. /\ pc' \in [Request -> Step] /\ pc'[r] = "serialising"
      /\ work' \in [Request -> Work] /\ work'[r] = w /\ OnlyMoves(r)
  <2>1. TypeOK /\ "serialising" \in Step
    BY DEF LinksInv, Step
  <2>2. /\ pc' \in [Request -> Step] /\ pc'[r] = "serialising"
        /\ \A q \in Request : q # r => pc'[q] = pc[q]
    BY <1>1, <2>1, GotoMoves
  <2>3. /\ work' \in [Request -> Work] /\ work'[r] = w
        /\ \A q \in Request : q # r => work'[q] = work[q]
    BY <1>1, <1>5, <2>1, WorkMoves
  <2> QED  BY <2>2, <2>3 DEF OnlyMoves
<1>7. \A q \in Request : q # r => Disjoint(r, q)
  BY <1>1, <1>2, <1>4, <1>5, <1>6 DEF Disjoint, Minting
<1>8. MintOf(r)'
  BY <1>1, <1>2, <1>4, <1>5, <1>6 DEF MintOf, OnlyMoves, generation
<1>9. /\ SentOf(r)' /\ MinterOf(r)' /\ InsertOf(r)' /\ HoldOf(r)' /\ LockOf(r)'
      /\ RedeemOf(r)' /\ WithdrawOf(r)'
  BY <1>1, <1>6, NothingHeld
  DEF SentOf, MinterOf, InsertOf, HoldOf, LockOf, RedeemOf, WithdrawOf, Redeeming, Leaves
<1>10. /\ holder' \in [Token -> Request \cup {Nobody}] /\ minter' \in Request \cup {Nobody}
       /\ lock' \in Request \cup {Nobody} /\ mailed' \subseteq Token /\ late' \subseteq Token
  BY <1>1 DEF LinksInv, TypeOK
<1> QED  BY <1>1, <1>6, <1>7, <1>8, <1>9, <1>10, NotBlamed, QuietKeeps DEF Quiet, OfRequest

LEMMA SerialiseKeeps ==
  ASSUME LinksInv, NEW r \in Request, Serialise(r)
  PROVE  LinksInv'
<1>1. /\ pc[r] = "serialising" /\ minter = Nobody /\ minter' = r /\ Goto(r, "minting")
      /\ seal' = seal /\ account' = account /\ rows' = rows /\ holder' = holder /\ work' = work
      /\ lock' = lock /\ mailed' = mailed /\ effective' = effective /\ overtaken' = overtaken
      /\ late' = late /\ blamed' = blamed
  BY DEF Serialise, history
<1>2. pc' \in [Request -> Step] /\ pc'[r] = "minting" /\ OnlyMoves(r)
  BY <1>1, GotoMoves DEF LinksInv, Step, OnlyMoves
<1>3. \A q \in Request : q # r => Disjoint(r, q)
  BY <1>1, <1>2 DEF Disjoint, Minting, LinksInv, RequestInv, OfRequest, MintOf
<1>4. MintOf(r)'
  BY <1>1, <1>2 DEF LinksInv, RequestInv, OfRequest, MintOf, Minting
<1>5. /\ SentOf(r)' /\ MinterOf(r)' /\ InsertOf(r)' /\ HoldOf(r)' /\ LockOf(r)'
      /\ RedeemOf(r)' /\ WithdrawOf(r)'
  BY <1>1, <1>2, NothingHeld
  DEF SentOf, MinterOf, InsertOf, HoldOf, LockOf, RedeemOf, WithdrawOf, Redeeming, Leaves
<1>6. /\ holder' \in [Token -> Request \cup {Nobody}] /\ minter' \in Request \cup {Nobody}
      /\ lock' \in Request \cup {Nobody} /\ mailed' \subseteq Token /\ late' \subseteq Token
      /\ work' \in [Request -> Work]
  BY <1>1 DEF LinksInv, TypeOK
<1> QED  BY <1>1, <1>2, <1>3, <1>4, <1>5, <1>6, NotBlamed, QuietKeeps DEF Quiet, OfRequest

LEMMA ReplaceKeeps ==
  ASSUME LinksInv, NEW r \in Request, Replace(r)
  PROVE  LinksInv'
<1> DEFINE superseded == Present(work[r].row.purpose)
<1>1. /\ pc[r] = "minting" /\ Unheld(superseded) /\ Goto(r, "inserted")
      /\ holder' = [token \in Token |-> IF token \in superseded THEN r ELSE holder[token]]
      /\ seal' = seal /\ account' = account /\ rows' = rows /\ minter' = minter /\ work' = work
      /\ lock' = lock /\ mailed' = mailed /\ effective' = effective /\ overtaken' = overtaken
      /\ late' = late /\ blamed' = blamed
  BY DEF Replace, history
<1>2. pc' \in [Request -> Step] /\ pc'[r] = "inserted" /\ OnlyMoves(r)
  BY <1>1, GotoMoves DEF LinksInv, Step, OnlyMoves
<1>3. /\ holder' \in [Token -> Request \cup {Nobody}]
      /\ \A token \in Token :
           IF rows[token].life = "present" /\ rows[token].purpose = work[r].row.purpose
           THEN holder[token] = Nobody /\ holder'[token] = r
           ELSE holder'[token] = holder[token]
  BY <1>1 DEF LinksInv, TypeOK, Unheld, Present
<1>4. \A q \in Request : q # r => Disjoint(r, q)
  BY <1>1, <1>2 DEF Disjoint, Minting, LinksInv, RequestInv, OfRequest, MintOf
<1>5. /\ MintOf(r)' /\ minter = r /\ lock # r /\ \A token \in Token : holder[token] # r
  BY <1>1, <1>2
  DEF LinksInv, RequestInv, OfRequest, MintOf, Minting, MinterOf, LockOf, LockedFrom, HoldOf, Redeeming
<1>6. /\ SentOf(r)' /\ MinterOf(r)' /\ InsertOf(r)' /\ HoldOf(r)' /\ LockOf(r)'
      /\ RedeemOf(r)' /\ WithdrawOf(r)'
  BY <1>1, <1>2, <1>3, <1>5
  DEF SentOf, MinterOf, InsertOf, HoldOf, LockOf, RedeemOf, WithdrawOf, Redeeming, Leaves
<1>7. /\ minter' \in Request \cup {Nobody}
      /\ lock' \in Request \cup {Nobody} /\ mailed' \subseteq Token /\ late' \subseteq Token
      /\ work' \in [Request -> Work]
  BY <1>1 DEF LinksInv, TypeOK
<1> QED
  BY <1>1, <1>2, <1>3, <1>4, <1>5, <1>6, <1>7, NotBlamed, QuietKeeps DEF Quiet, OfRequest

\* A step that keeps what the invariant says of r and of the rows keeps all of it.
LEMMA StepKeeps ==
  ASSUME LinksInv, TypeOK', NEW r, Apart(r),
         \A q \in Request : q # r => Disjoint(r, q),
         r \in Request => OfRequest(r)',
         UniqueInv', LinksAreCurrent', ChangeWithdrawsEveryLink', BlameInv'
  PROVE  LinksInv'
<1>1. ASSUME NEW q \in Request PROVE OfRequest(q)'
  <2>1. CASE q = r
    BY <2>1
  <2>2. CASE q # r
    BY <2>2, OthersKeep
  <2> QED  BY <2>1, <2>2
<1> QED  BY <1>1 DEF LinksInv, RequestInv

\* Rows that end leave the others as they are.
LEMMA EndedRows ==
  ASSUME LinksInv, TypeOK', seal' = seal, account' = account, blamed' = blamed,
         late' = late, overtaken' = overtaken,
         \A token \in Token : rows'[token] = rows[token] \/ Ended(token)
  PROVE  UniqueInv' /\ LinksAreCurrent' /\ ChangeWithdrawsEveryLink' /\ BlameInv'
<1>1. \A token \in Token : rows'[token].life = "present" => rows'[token] = rows[token]
  BY DEF Ended
<1>2. UniqueInv'
  BY <1>1 DEF LinksInv, UniqueInv
<1>3. LinksAreCurrent'
  BY <1>1 DEF LinksInv, LinksAreCurrent, Current
<1>4. ChangeWithdrawsEveryLink'
  BY <1>1 DEF LinksInv, ChangeWithdrawsEveryLink
<1>5. BlameInv'
  BY DEF LinksInv, BlameInv, NoLinkIsBlamed, Ended
<1> QED  BY <1>2, <1>3, <1>4, <1>5

\* A statement of its own deletes rows nobody holds and nobody mints.
LEMMA DeletionKeeps ==
  ASSUME LinksInv, NEW r, NEW token \in Token, rows' = Deleted({token}),
         holder[token] = Nobody, \A q \in Request : Minting(q) => work[q].token # token,
         UNCHANGED <<seal, account, holder, minter, lock, mailed, effective, overtaken, late, blamed>>,
         OnlyMoves(r), pc' \in [Request -> Step], work' \in [Request -> Work],
         r \in Request => pc'[r] = "idle" /\ work'[r] = NoWork /\ minter # r /\ lock # r
                          /\ \A other \in Token : holder[other] # r
  PROVE  LinksInv'
<1>1. /\ seal' = seal /\ account' = account /\ holder' = holder /\ minter' = minter /\ lock' = lock
      /\ mailed' = mailed /\ effective' = effective /\ overtaken' = overtaken /\ late' = late
      /\ blamed' = blamed
  OBVIOUS
<1>2. /\ rows' \in [Token -> Row] /\ Ended(token)
      /\ \A other \in Token : other # token => rows'[other] = rows[other]
  BY DeletedRows DEF LinksInv
<1>3. TypeOK'
  BY <1>1, <1>2 DEF LinksInv, TypeOK
<1>4. Apart(r)
  BY <1>1, <1>2 DEF Apart, RowStep, GenerationStep
<1>5. \A q \in Request : q # r => Disjoint(r, q)
  BY NoWorkType, OneTimeTokensAssumption
  DEF LinksInv, RequestInv, OfRequest, MintOf, Disjoint, Minting
<1>6. r \in Request => OfRequest(r)'
  BY <1>1, IdleKeeps
<1>7. UniqueInv' /\ LinksAreCurrent' /\ ChangeWithdrawsEveryLink' /\ BlameInv'
  BY <1>1, <1>2, <1>3, EndedRows
<1> QED  BY <1>3, <1>4, <1>5, <1>6, <1>7, StepKeeps

LEMMA SweepKeeps ==
  ASSUME LinksInv, NEW token \in Token, Sweep(token)
  PROVE  LinksInv'
<1>1. /\ rows[token].life = "present" /\ holder[token] = Nobody /\ rows' = Deleted({token})
      /\ UNCHANGED <<seal, account, holder, minter, lock, mailed, effective, overtaken, late, blamed>>
      /\ pc' = pc /\ work' = work
  BY DEF Sweep, Unheld, locks, history
<1>2. \A q \in Request : Minting(q) => work[q].token # token
  BY <1>1, NoWorkType DEF LinksInv, RequestInv, OfRequest, MintOf
<1>3. OnlyMoves(Nobody) /\ pc' \in [Request -> Step] /\ work' \in [Request -> Work]
  BY <1>1 DEF OnlyMoves, LinksInv, TypeOK
<1> QED  BY <1>1, <1>2, <1>3, DeletionKeeps, OneTimeTokensAssumption

\* A request that sends or undoes has a token, which is its own.
LEMMA SentToken ==
  ASSUME LinksInv, NEW r \in Request, pc[r] = "undoing"
  PROVE  \A q \in Request : Minting(q) => work[q].token # work[r].token
BY DEF LinksInv, RequestInv, OfRequest, MintOf, Minting

LEMMA UndoKeeps ==
  ASSUME LinksInv, NEW r \in Request, Undo(r)
  PROVE  LinksInv'
<1>1. /\ pc[r] = "undoing" /\ rows' = Deleted({work[r].token}) /\ Finish(r)
      /\ UNCHANGED <<seal, account, holder, minter, lock, mailed, effective, overtaken, late, blamed>>
  BY DEF Undo, locks, history
<1>2. /\ pc'[r] = "idle" /\ work'[r] = NoWork /\ OnlyMoves(r)
      /\ pc' \in [Request -> Step] /\ work' \in [Request -> Work]
  BY <1>1, FinishMoves DEF LinksInv
<1>3. minter # r /\ lock # r /\ \A other \in Token : holder[other] # r
  BY <1>1, NothingHeld
<1>4. work[r].token \in Token
  BY <1>1 DEF LinksInv, RequestInv, OfRequest, SentOf
<1>5. holder[work[r].token] = Nobody
  BY <1>4 DEF Undo, Unheld
<1> QED  BY <1>1, <1>2, <1>3, <1>4, <1>5, SentToken, DeletionKeeps

LEMMA SendKeeps ==
  ASSUME LinksInv, NEW r \in Request, Send(r)
  PROVE  LinksInv'
<1>1. /\ pc[r] = "sending" /\ seal' = seal /\ account' = account /\ rows' = rows /\ holder' = holder
      /\ minter' = minter /\ lock' = lock /\ effective' = effective /\ overtaken' = overtaken
      /\ late' = late /\ blamed' = blamed
      /\ Finish(r) \/ (Goto(r, "undoing") /\ work' = work)
      /\ mailed' \in {mailed, mailed \cup {work[r].token}}
  BY DEF Send, locks, history
<1>2. work[r].token \in Token
  BY <1>1 DEF LinksInv, RequestInv, OfRequest, SentOf
<1>3. /\ pc' \in [Request -> Step] /\ work' \in [Request -> Work] /\ OnlyMoves(r)
      /\ \/ pc'[r] = "idle" /\ work'[r] = NoWork
         \/ pc'[r] = "undoing" /\ work'[r] = work[r]
  <2>1. CASE Finish(r)
    BY <2>1, FinishMoves DEF LinksInv
  <2>2. CASE Goto(r, "undoing") /\ work' = work
    <3>1. TypeOK /\ "undoing" \in Step
      BY DEF LinksInv, Step
    <3> QED  BY <2>2, <3>1, GotoMoves DEF OnlyMoves, TypeOK
  <2> QED  BY <1>1, <2>1, <2>2
<1>4. \A q \in Request : q # r => Disjoint(r, q)
  BY <1>1, <1>3, NoWorkType, OneTimeTokensAssumption
  DEF LinksInv, RequestInv, OfRequest, MintOf, Disjoint, Minting
<1>5. OfRequest(r)'
  BY <1>1, <1>2, <1>3, NothingHeld
  DEF OfRequest, MintOf, SentOf, MinterOf, InsertOf, HoldOf, LockOf, RedeemOf, WithdrawOf, Minting,
      Redeeming, Leaves
<1>6. /\ holder' \in [Token -> Request \cup {Nobody}] /\ minter' \in Request \cup {Nobody}
      /\ lock' \in Request \cup {Nobody} /\ mailed' \subseteq Token /\ late' \subseteq Token
  BY <1>1, <1>2 DEF LinksInv, TypeOK
<1> QED  BY <1>1, <1>3, <1>4, <1>5, <1>6, NotBlamed, QuietKeeps DEF Quiet

\* The row that is inserted is the only one of its purpose, for the mint holds
\* all it supersedes.
LEMMA CommitMintKeeps ==
  ASSUME LinksInv, NEW r \in Request, CommitMint(r)
  PROVE  LinksInv'
<1> DEFINE minted == work[r].token
           row == work[r].row
<1>1. /\ pc[r] = "inserted" /\ rows' = [Deleted(HeldBy(r)) EXCEPT ![minted] = row]
      /\ Release(r) /\ Goto(r, "sending")
      /\ seal' = seal /\ account' = account /\ mailed' = mailed /\ work' = work
      /\ effective' = effective /\ overtaken' = overtaken /\ late' = late /\ blamed' = blamed
  BY DEF CommitMint, history
<1>2. OfRequest(r) /\ TypeOK
  BY DEF LinksInv, RequestInv
<1>3. /\ minted \in Token /\ rows[minted] = Unissued
      /\ \A other \in Request : other # r => work[other].token # minted
      /\ row.life = "present" /\ row.purpose \in Purpose /\ row \in Row
      /\ row.address = account.address \/ minted \in late
      /\ row.generation = seal.generation[row.purpose] \/ minted \in overtaken
  BY <1>1, <1>2, Types DEF OfRequest, MintOf, Minting
<1>4. /\ rows' \in [Token -> Row] /\ rows'[minted] = row
      /\ \A token \in Token : token # minted =>
           IF holder[token] = r THEN Ended(token) ELSE rows'[token] = rows[token]
  <2> DEFINE deleted == Deleted(HeldBy(r))
  <2>1. /\ deleted \in [Token -> Row]
        /\ \A token \in Token :
             IF holder[token] = r
             THEN /\ deleted[token].life = "gone" /\ deleted[token].purpose = rows[token].purpose
                  /\ deleted[token].generation = rows[token].generation
                  /\ deleted[token].address = rows[token].address
             ELSE deleted[token] = rows[token]
    <3>1. \A token \in Token :
            deleted[token] = IF holder[token] = r THEN [rows[token] EXCEPT !.life = "gone"]
                                                  ELSE rows[token]
      BY DEF Deleted, HeldBy
    <3>2. \A token \in Token : rows[token] \in Row
      BY <1>2, Types
    <3>3. deleted = [token \in Token |-> deleted[token]]
      BY DEF Deleted
    <3> HIDE DEF deleted
    <3>4. ASSUME NEW token \in Token
          PROVE  /\ deleted[token] \in Row
                 /\ IF holder[token] = r
                    THEN /\ deleted[token].life = "gone" /\ deleted[token].purpose = rows[token].purpose
                         /\ deleted[token].generation = rows[token].generation
                         /\ deleted[token].address = rows[token].address
                    ELSE deleted[token] = rows[token]
      <4> DEFINE ended == [rows[token] EXCEPT !.life = "gone"]
      <4>1. /\ ended \in Row /\ ended.life = "gone" /\ ended.purpose = rows[token].purpose
            /\ ended.generation = rows[token].generation /\ ended.address = rows[token].address
        BY <3>2, RowEnds
      <4>2. deleted[token] = IF holder[token] = r THEN ended ELSE rows[token]
        BY <3>1
      <4> HIDE DEF ended
      <4> QED  BY <3>2, <4>1, <4>2
    <3> QED  BY <3>3, <3>4
  <2>2. rows' = [deleted EXCEPT ![minted] = row]
    BY <1>1
  <2> HIDE DEF deleted, minted, row
  <2> QED  BY <1>3, <2>1, <2>2 DEF Ended
<1>5. /\ pc' \in [Request -> Step] /\ pc'[r] = "sending" /\ OnlyMoves(r)
  BY <1>1, <1>2, GotoMoves DEF Step, OnlyMoves
<1>6. /\ holder' \in [Token -> Request \cup {Nobody}]
      /\ minter' \in Request \cup {Nobody} /\ lock' \in Request \cup {Nobody}
      /\ \A token \in Token : holder'[token] = IF holder[token] = r THEN Nobody ELSE holder[token]
      /\ minter' = IF minter = r THEN Nobody ELSE minter
      /\ lock' = IF lock = r THEN Nobody ELSE lock
  BY <1>1, <1>2, ReleaseFrees
<1>7. TypeOK'
  BY <1>1, <1>2, <1>4, <1>5, <1>6 DEF TypeOK
<1>8. \A token \in Token : RowStep(r, token)
  <2>1. \A token \in Token : holder[token] = r => \A q \in Request : Minting(q) => work[q].token # token
    BY <1>2, NoWorkType DEF LinksInv, RequestInv, OfRequest, MintOf, HoldOf
  <2> QED  BY <1>1, <1>4, <2>1 DEF RowStep
<1>9. Apart(r)
  BY <1>1, <1>5, <1>6, <1>8 DEF Apart, GenerationStep
<1>10. \A q \in Request : q # r => Disjoint(r, q)
  BY <1>1, <1>3, <1>5 DEF Disjoint, Minting
<1>11. OfRequest(r)'
  BY <1>1, <1>3, <1>5, <1>6, OneTimeTokensAssumption
  DEF OfRequest, MintOf, SentOf, MinterOf, InsertOf, HoldOf, LockOf, RedeemOf, WithdrawOf, Minting,
      Redeeming, Leaves
<1>12. \A token \in Token : rows'[token].life = "present" =>
         token = minted \/ (rows'[token] = rows[token] /\ rows[token].purpose # row.purpose)
  BY <1>1, <1>2, <1>4 DEF OfRequest, InsertOf, Ended
<1>13. UniqueInv'
  BY <1>3, <1>4, <1>12 DEF LinksInv, UniqueInv
<1>14. LinksAreCurrent'
  BY <1>1, <1>3, <1>4, <1>12 DEF LinksInv, LinksAreCurrent, Current
<1>15. ChangeWithdrawsEveryLink'
  BY <1>1, <1>3, <1>4, <1>12 DEF LinksInv, ChangeWithdrawsEveryLink
<1>16. BlameInv'
  BY <1>1, <1>3, <1>4, NoWorkType DEF LinksInv, BlameInv, NoLinkIsBlamed, Ended
<1> QED  BY <1>7, <1>9, <1>10, <1>11, <1>13, <1>14, <1>15, <1>16, StepKeeps

-----------------------------------------------------------------------------
(* Redemption.                                                             *)

LEMMA ConsumeKeeps ==
  ASSUME LinksInv, NEW r \in Request, NEW token \in Token, Consume(r, token)
  PROVE  LinksInv'
<1> DEFINE w == [NoWork EXCEPT !.token = token]
<1>1. PICK step \in Step :
        /\ step = (IF rows[token].purpose = "password_reset" THEN "locking" ELSE "consumed")
        /\ Goto(r, step)
  BY DEF Consume, Step
<1>2. /\ pc[r] = "idle" /\ rows[token].life = "present" /\ holder[token] = Nobody
      /\ holder' = [holder EXCEPT ![token] = r] /\ work' = [work EXCEPT ![r] = w]
      /\ seal' = seal /\ account' = account /\ rows' = rows /\ minter' = minter /\ lock' = lock
      /\ mailed' = mailed /\ effective' = effective /\ overtaken' = overtaken /\ late' = late
      /\ blamed' = blamed
  BY DEF Consume, Unheld, history
<1>3. w \in Work /\ w.token = token
  BY NoWorkType DEF Work
<1> HIDE DEF w
<1>4. /\ pc' \in [Request -> Step] /\ pc'[r] = step
      /\ work' \in [Request -> Work] /\ work'[r] = w /\ OnlyMoves(r)
  <2>1. /\ pc' \in [Request -> Step] /\ pc'[r] = step
        /\ \A q \in Request : q # r => pc'[q] = pc[q]
    BY <1>1, GotoMoves DEF LinksInv
  <2>2. /\ work' \in [Request -> Work] /\ work'[r] = w
        /\ \A q \in Request : q # r => work'[q] = work[q]
    BY <1>2, <1>3, WorkMoves DEF LinksInv
  <2> QED  BY <2>1, <2>2 DEF OnlyMoves
<1>5. /\ holder' \in [Token -> Request \cup {Nobody}] /\ holder'[token] = r
      /\ \A other \in Token : other # token => holder'[other] = holder[other]
  BY <1>2 DEF LinksInv, TypeOK
<1>6. \A q \in Request : q # r => Disjoint(r, q)
  BY <1>1, <1>2, <1>3, <1>4, NoWorkType
  DEF LinksInv, RequestInv, OfRequest, MintOf, Disjoint, Minting
<1>7. OfRequest(r)'
  <2>1. pc'[r] \in {"locking", "consumed"} /\ ~ Minting(r)' /\ Redeeming(r)'
    BY <1>1, <1>4 DEF Minting, Redeeming
  <2>2. minter # r /\ lock # r /\ \A other \in Token : holder[other] # r
    BY <1>2, NothingHeld
  <2>3. MintOf(r)' /\ SentOf(r)' /\ MinterOf(r)' /\ InsertOf(r)' /\ HoldOf(r)' /\ LockOf(r)'
    BY <1>2, <1>5, <2>1, <2>2 DEF MintOf, SentOf, MinterOf, InsertOf, HoldOf, LockOf
  <2>4. RedeemOf(r)' /\ WithdrawOf(r)'
    BY <1>1, <1>2, <1>3, <1>4, <1>5 DEF RedeemOf, WithdrawOf, Leaves
  <2> QED  BY <2>3, <2>4 DEF OfRequest
<1>8. /\ minter' \in Request \cup {Nobody}
      /\ lock' \in Request \cup {Nobody} /\ mailed' \subseteq Token /\ late' \subseteq Token
  BY <1>2 DEF LinksInv, TypeOK
<1> QED  BY <1>2, <1>4, <1>5, <1>6, <1>7, <1>8, NotBlamed, QuietKeeps DEF Quiet

\* A transaction that rolls back leaves its rows as they were.
LEMMA RollBackKeeps ==
  ASSUME LinksInv, NEW r \in Request, RollBack(r),
         UNCHANGED <<effective, overtaken, late>>, blamed' = FALSE
  PROVE  LinksInv'
<1>1. /\ Release(r) /\ Finish(r) /\ seal' = seal /\ account' = account /\ rows' = rows
      /\ mailed' = mailed /\ effective' = effective /\ overtaken' = overtaken /\ late' = late
  BY DEF RollBack
<1>2. /\ pc'[r] = "idle" /\ work'[r] = NoWork /\ OnlyMoves(r)
      /\ pc' \in [Request -> Step] /\ work' \in [Request -> Work]
  BY <1>1, FinishMoves DEF LinksInv
<1>3. /\ holder' \in [Token -> Request \cup {Nobody}]
      /\ minter' \in Request \cup {Nobody} /\ lock' \in Request \cup {Nobody}
      /\ \A token \in Token : holder'[token] = IF holder[token] = r THEN Nobody ELSE holder[token]
      /\ minter' = IF minter = r THEN Nobody ELSE minter
      /\ lock' = IF lock = r THEN Nobody ELSE lock
  BY <1>1, ReleaseFrees DEF LinksInv
<1>4. \A q \in Request : q # r => Disjoint(r, q)
  BY <1>2, NoWorkType, OneTimeTokensAssumption
  DEF LinksInv, RequestInv, OfRequest, MintOf, Disjoint, Minting
<1>5. OfRequest(r)'
  BY <1>2, <1>3, IdleKeeps, OneTimeTokensAssumption
<1>6. mailed' \subseteq Token /\ late' \subseteq Token
  BY <1>1 DEF LinksInv, TypeOK
<1> QED  BY <1>1, <1>2, <1>3, <1>4, <1>5, <1>6, QuietKeeps DEF Quiet

LEMMA CrashKeeps ==
  ASSUME LinksInv, NEW r \in Request, Crash(r)
  PROVE  LinksInv'
BY RollBackKeeps, NotBlamed DEF Crash, history

\* The row a redemption holds stands, so that it is not the one redeemed last.
LEMMA HeldRowStands ==
  ASSUME LinksInv, NEW r \in Request, Redeeming(r)
  PROVE  /\ work[r].token \in Token /\ holder[work[r].token] = r
         /\ rows[work[r].token].life = "present" /\ rows[work[r].token].purpose \in Purpose
         /\ seal.last # work[r].token
<1>1. work[r].token \in Token /\ holder[work[r].token] = r
  BY DEF LinksInv, RequestInv, OfRequest, RedeemOf
<1>2. rows[work[r].token].life = "present"
  BY <1>1 DEF LinksInv, RequestInv, OfRequest, HoldOf
<1> QED  BY <1>1, <1>2 DEF LinksInv, UniqueInv, BlameInv

\* r goes on in its transaction, remembers which links it has withdrawn and seeks,
\* and takes no row but to withdraw it.
LEMMA GoesOn ==
  ASSUME LinksInv, NEW r \in Request, Redeeming(r), Quiet,
         NEW step \in {"withdrawing", "deleting", "locking", "spending"}, Goto(r, step),
         NEW w \in Work, w.token = work[r].token, work' = [work EXCEPT ![r] = w],
         UNCHANGED <<minter, lock, mailed, effective, overtaken, blamed>>,
         holder' \in [Token -> Request \cup {Nobody}],
         \A token \in Token :
           \/ holder'[token] = holder[token]
           \/ holder[token] = Nobody /\ holder'[token] = r /\ rows[token].life = "present",
         late' \subseteq Token, late \subseteq late',
         pc[r] \in LockedFrom => step \in LockedFrom,
         step \in {"withdrawing", "deleting"} => rows[work[r].token].purpose = "email_change",
         \A purpose \in Purpose : Leaves(r, purpose)' =>
           /\ \A token \in Token :
                rows[token].life = "present" /\ rows[token].purpose = purpose => Reached(r, token)'
           /\ \A q \in Request : Minting(q) /\ work[q].row.purpose = purpose =>
                work[q].token \in late'
  PROVE  LinksInv'
<1>1. /\ seal' = seal /\ account' = account /\ rows' = rows /\ minter' = minter /\ lock' = lock
      /\ mailed' = mailed /\ effective' = effective /\ overtaken' = overtaken /\ blamed' = blamed
  BY DEF Quiet
<1>2. /\ pc' \in [Request -> Step] /\ pc'[r] = step
      /\ work' \in [Request -> Work] /\ work'[r] = w /\ OnlyMoves(r)
  <2>1. TypeOK /\ step \in Step
    BY DEF LinksInv, Step
  <2>2. /\ pc' \in [Request -> Step] /\ pc'[r] = step
        /\ \A q \in Request : q # r => pc'[q] = pc[q]
    BY <2>1, GotoMoves
  <2>3. /\ work' \in [Request -> Work] /\ work'[r] = w
        /\ \A q \in Request : q # r => work'[q] = work[q]
    BY <2>1, WorkMoves
  <2> QED  BY <2>2, <2>3 DEF OnlyMoves
<1>3. ~ Minting(r)' /\ Redeeming(r)' /\ ~ Minting(r)
  BY <1>2 DEF Minting, Redeeming
<1>4. \A q \in Request : q # r => Disjoint(r, q)
  BY <1>2, <1>3 DEF LinksInv, RequestInv, OfRequest, MintOf, Disjoint
<1>5. OfRequest(r)'
  <2>1. OfRequest(r)
    BY DEF LinksInv, RequestInv
  <2>2. work[r].token \in Token /\ holder'[work[r].token] = r
    BY HeldRowStands, OneTimeTokensAssumption
  <2>3. minter # r
    BY <2>1, <1>3 DEF OfRequest, MinterOf, Redeeming
  <2>4. MintOf(r)' /\ SentOf(r)' /\ MinterOf(r)' /\ InsertOf(r)' /\ RedeemOf(r)'
    BY <1>1, <1>2, <1>3, <2>2, <2>3 DEF MintOf, SentOf, MinterOf, InsertOf, RedeemOf
  <2>5. HoldOf(r)' /\ LockOf(r)'
    BY <1>1, <1>2, <1>3, <2>1 DEF OfRequest, HoldOf, LockOf, LockedFrom
  <2>6. WithdrawOf(r)'
    <3>1. \A q \in Request : Minting(q)' => Minting(q) /\ work'[q] = work[q]
      BY <1>2, <1>3 DEF Minting, OnlyMoves
    <3> QED  BY <1>1, <3>1 DEF WithdrawOf
  <2> QED  BY <2>4, <2>5, <2>6 DEF OfRequest
<1>6. /\ minter' \in Request \cup {Nobody} /\ lock' \in Request \cup {Nobody}
      /\ mailed' \subseteq Token
  BY <1>1 DEF LinksInv, TypeOK
<1>7. \A token \in Token : /\ holder[token] \notin {r, Nobody} => holder'[token] = holder[token]
                           /\ holder'[token] \in {holder[token], r, Nobody}
  OBVIOUS
<1> QED  BY <1>1, <1>2, <1>4, <1>5, <1>6, <1>7, NotBlamed, QuietKeeps

LEMMA CheckAccountKeeps ==
  ASSUME LinksInv, NEW r \in Request, CheckAccount(r)
  PROVE  LinksInv'
<1>1. pc[r] = "consumed" /\ Redeeming(r)
  BY DEF CheckAccount, Redeeming
<1>2. CASE rows[work[r].token].address = account.address /\ Current(work[r].token)
  <2> DEFINE purpose == rows[work[r].token].purpose
             w == [work[r] EXCEPT !.left = Purpose]
  <2>1. PICK step \in {"withdrawing", "deleting", "locking", "spending"} :
          /\ Goto(r, step) /\ step # "deleting"
          /\ step = "withdrawing" => purpose = "email_change"
          /\ step = "locking" => purpose # "email_change"
    BY <1>2 DEF CheckAccount, AfterCheck
  <2>2. /\ work' = [work EXCEPT ![r] = w]
        /\ UNCHANGED <<seal, account, rows, holder, minter, lock, mailed, effective, overtaken, late, blamed>>
    BY <1>2 DEF CheckAccount, locks, LinksInv, TypeOK
  <2>3. w \in Work /\ w.token = work[r].token /\ w.left = Purpose
    BY Types DEF LinksInv, Work
  <2> HIDE DEF w
  <2>4. pc'[r] = step /\ work'[r] = w
    BY <2>1, <2>2 DEF Goto, LinksInv, TypeOK
  <2>5. \A p \in Purpose : ~ Leaves(r, p)'
    BY <2>1, <2>2, <2>3, <2>4 DEF Leaves
  <2>6. /\ holder' \in [Token -> Request \cup {Nobody}] /\ late' \subseteq Token
        /\ \A token \in Token : holder'[token] = holder[token]
    BY <2>2 DEF LinksInv, TypeOK
  <2>7. pc[r] \notin LockedFrom
    BY <1>1 DEF LockedFrom
  <2> HIDE DEF purpose
  <2>8. step \in {"withdrawing", "deleting"} => rows[work[r].token].purpose = "email_change"
    BY <2>1 DEF purpose
  <2>9. Quiet /\ late \subseteq late' /\ UNCHANGED <<minter, lock, mailed, effective, overtaken, blamed>>
    BY <2>2 DEF Quiet
  <2> QED  BY <1>1, <2>1, <2>2, <2>3, <2>5, <2>6, <2>7, <2>8, <2>9, GoesOn
<1>3. CASE ~ (rows[work[r].token].address = account.address /\ Current(work[r].token))
  <2>1. RollBack(r) /\ UNCHANGED <<effective, overtaken, late>>
    BY <1>3 DEF CheckAccount
  <2>2. blamed' = FALSE
    BY <1>1, <1>3, HeldRowStands, NotBlamed DEF CheckAccount, Blame
  <2> QED  BY <2>1, <2>2, RollBackKeeps
<1> QED  BY <1>2, <1>3

\* What the statement's snapshot does not show is being minted.
LEMMA BeginWithdrawKeeps ==
  ASSUME LinksInv, NEW r \in Request, NEW purpose \in Purpose, BeginWithdraw(r, purpose)
  PROVE  LinksInv'
<1> DEFINE minting == {work[q].token : q \in {q \in Request :
                         pc[q] \in {"asked", "serialising", "minting", "inserted"}
                           /\ work[q].row.purpose = purpose}}
           left == work[r].left \ {purpose}
           sought == Present(purpose) \ HeldBy(r)
           w == [work[r] EXCEPT !.left = left, !.sought = sought]
<1>1. /\ pc[r] = "withdrawing" /\ purpose \in work[r].left /\ Goto(r, "deleting")
      /\ late' = late \cup minting
      /\ UNCHANGED <<seal, account, rows, holder, minter, lock, mailed, effective, overtaken, blamed>>
      /\ work' = [work EXCEPT ![r] = w]
  BY DEF BeginWithdraw, locks, LinksInv, TypeOK
<1>2. Redeeming(r) /\ pc[r] \notin LockedFrom /\ OfRequest(r)
  BY <1>1 DEF Redeeming, LockedFrom, LinksInv, RequestInv
<1>3. rows[work[r].token].purpose = "email_change"
  BY <1>1, <1>2 DEF OfRequest, RedeemOf
<1>4. \A q \in Request : Minting(q) =>
        work[q].token \in Token /\ (work[q].row.purpose = purpose => work[q].token \in minting)
  BY DEF Minting, LinksInv, RequestInv, OfRequest, MintOf
<1>5. minting \subseteq Token
  BY <1>4 DEF Minting
<1> HIDE DEF minting
<1>6. late' \subseteq Token /\ late \subseteq late'
  BY <1>1, <1>5 DEF LinksInv, TypeOK
<1>7. left \in SUBSET Purpose /\ sought \in SUBSET Token
  BY Types DEF LinksInv, Present
<1>8. /\ \A token \in Token : rows[token].life = "present" /\ rows[token].purpose = purpose =>
           holder[token] = r \/ token \in sought
      /\ \A other \in Purpose : other \notin left => other = purpose \/ other \notin work[r].left
  BY DEF Present, HeldBy
<1> HIDE DEF left, sought
<1>9. w \in Work /\ w.token = work[r].token /\ w.left = left /\ w.sought = sought
  BY <1>7, Types DEF LinksInv, Work
<1> HIDE DEF w
<1>10. pc'[r] = "deleting" /\ work'[r] = w
  BY <1>1 DEF Goto, LinksInv, TypeOK
<1>11. ASSUME NEW other \in Purpose, Leaves(r, other)'
       PROVE  /\ \A token \in Token :
                   rows[token].life = "present" /\ rows[token].purpose = other => Reached(r, token)'
              /\ \A q \in Request : Minting(q) /\ work[q].row.purpose = other =>
                   work[q].token \in late'
  <2>1. CASE other = purpose
    BY <1>1, <1>4, <1>8, <1>9, <1>10, <2>1 DEF Reached
  <2>2. CASE other # purpose
    <3>1. Leaves(r, other)
      BY <1>1, <1>8, <1>9, <1>10, <1>11, <2>2 DEF Leaves
    <3>2. \A token \in Token : Reached(r, token) => Reached(r, token)'
      BY <1>1, <1>6 DEF Reached
    <3> QED  BY <1>2, <1>6, <3>1, <3>2 DEF OfRequest, WithdrawOf
  <2> QED  BY <2>1, <2>2
<1>12. /\ holder' \in [Token -> Request \cup {Nobody}]
       /\ \A token \in Token : holder'[token] = holder[token]
  BY <1>1 DEF LinksInv, TypeOK
<1>13. Quiet /\ UNCHANGED <<minter, lock, mailed, effective, overtaken, blamed>>
  BY <1>1 DEF Quiet
<1> QED  BY <1>1, <1>2, <1>3, <1>6, <1>9, <1>11, <1>12, <1>13, GoesOn

\* The statement holds what it sought and still stands.
LEMMA WithdrawKeeps ==
  ASSUME LinksInv, NEW r \in Request, Withdraw(r)
  PROVE  LinksInv'
<1> DEFINE standing == {token \in work[r].sought : rows[token].life = "present"}
           w == [work[r] EXCEPT !.sought = {}]
<1>1. /\ pc[r] = "deleting" /\ Unheld(standing)
      /\ holder' = [token \in Token |-> IF token \in standing THEN r ELSE holder[token]]
      /\ UNCHANGED <<seal, account, rows, minter, lock, mailed, effective, overtaken, late, blamed>>
      /\ work' = [work EXCEPT ![r] = w]
  BY DEF Withdraw, history, LinksInv, TypeOK
<1>2. PICK step \in {"withdrawing", "deleting", "locking", "spending"} :
        /\ step = (IF work[r].left = {} THEN "locking" ELSE "withdrawing")
        /\ Goto(r, step)
  BY DEF Withdraw
<1>3. Redeeming(r) /\ pc[r] \notin LockedFrom /\ OfRequest(r)
  BY <1>1 DEF Redeeming, LockedFrom, LinksInv, RequestInv
<1>4. rows[work[r].token].purpose = "email_change"
  BY <1>1, <1>3 DEF OfRequest, RedeemOf
<1>5. /\ holder' \in [Token -> Request \cup {Nobody}]
      /\ \A token \in Token :
           /\ \/ holder'[token] = holder[token]
              \/ holder[token] = Nobody /\ holder'[token] = r /\ rows[token].life = "present"
           /\ rows[token].life = "present" /\ token \in work[r].sought => holder'[token] = r
           /\ holder[token] = r => holder'[token] = r
  BY <1>1 DEF Unheld, LinksInv, TypeOK
<1> HIDE DEF standing
<1>6. w \in Work /\ w.token = work[r].token /\ w.left = work[r].left
  BY Types DEF LinksInv, Work
<1> HIDE DEF w
<1>7. pc'[r] = step /\ work'[r] = w /\ late' = late /\ late' \subseteq Token
  BY <1>1, <1>2 DEF Goto, LinksInv, TypeOK
<1>8. ASSUME NEW purpose \in Purpose, Leaves(r, purpose)'
      PROVE  /\ \A token \in Token :
                  rows[token].life = "present" /\ rows[token].purpose = purpose => Reached(r, token)'
             /\ \A q \in Request : Minting(q) /\ work[q].row.purpose = purpose =>
                  work[q].token \in late'
  <2>1. Leaves(r, purpose)
    BY <1>1, <1>2, <1>6, <1>7, <1>8 DEF Leaves
  <2>2. \A token \in Token : rows[token].life = "present" /\ Reached(r, token) => Reached(r, token)'
    BY <1>5, <1>7 DEF Reached
  <2> QED  BY <1>3, <1>7, <2>1, <2>2 DEF OfRequest, WithdrawOf
<1>9. Quiet /\ UNCHANGED <<minter, lock, mailed, effective, overtaken, blamed>>
  BY <1>1 DEF Quiet
<1> QED  BY <1>1, <1>2, <1>3, <1>4, <1>5, <1>6, <1>7, <1>8, <1>9, GoesOn

LEMMA TakeAccountLockKeeps ==
  ASSUME LinksInv, NEW r \in Request, TakeAccountLock(r)
  PROVE  LinksInv'
<1>1. /\ pc[r] \in LockedFrom /\ lock = Nobody /\ lock' = r
      /\ seal' = seal /\ account' = account /\ rows' = rows /\ holder' = holder /\ minter' = minter
      /\ mailed' = mailed /\ pc' = pc /\ work' = work /\ effective' = effective
      /\ overtaken' = overtaken /\ late' = late /\ blamed' = blamed
  BY DEF TakeAccountLock, history
<1>2. \A q \in Request : q # r => Disjoint(r, q)
  BY <1>1 DEF LinksInv, RequestInv, OfRequest, MintOf, Disjoint, Minting
<1>3. OfRequest(r)'
  BY <1>1 DEF LinksInv, RequestInv, OfRequest, MintOf, SentOf, MinterOf, InsertOf, HoldOf, LockOf,
              RedeemOf, WithdrawOf, Reached, Minting, Redeeming, Leaves
<1>4. /\ OnlyMoves(r) /\ pc' \in [Request -> Step] /\ work' \in [Request -> Work]
      /\ holder' \in [Token -> Request \cup {Nobody}] /\ minter' \in Request \cup {Nobody}
      /\ lock' \in Request \cup {Nobody} /\ mailed' \subseteq Token /\ late' \subseteq Token
  BY <1>1 DEF OnlyMoves, LinksInv, TypeOK
<1> QED  BY <1>1, <1>2, <1>3, <1>4, NotBlamed, QuietKeeps DEF Quiet

LEMMA RefuseKeeps ==
  ASSUME LinksInv, NEW r \in Request, Refuse(r)
  PROVE  LinksInv'
<1>1. Redeeming(r)
  BY DEF Refuse, LockedFrom, Redeeming
<1>2. blamed' = FALSE
  BY <1>1, HeldRowStands, NotBlamed DEF Refuse, Blame
<1>3. RollBack(r) /\ UNCHANGED <<effective, overtaken, late>>
  BY DEF Refuse
<1> QED  BY <1>2, <1>3, RollBackKeeps

\* A token's own generation moves with its redemption.
LEMMA MovedSeal ==
  ASSUME TypeOK, NEW token \in Token, rows[token].purpose \in Purpose
  PROVE  /\ Moved(token) \in [version: Nat, generation: [Purpose -> Nat], last: Token \cup {NoToken}]
         /\ Moved(token).last = token
         /\ \A purpose \in Purpose : purpose # rows[token].purpose =>
              Moved(token).generation[purpose] = seal.generation[purpose]
<1> DEFINE own == rows[token].purpose
<1>1. /\ seal \in [version: Nat, generation: [Purpose -> Nat], last: Token \cup {NoToken}]
      /\ own \in Purpose /\ Drawn \in Nat
  BY DEF TypeOK, Drawn
<1> HIDE DEF own
<1>2. ASSUME NEW d \in Nat,
             NEW s \in [version: Nat, generation: [Purpose -> Nat], last: Token \cup {NoToken}]
      PROVE  LET moved == [s EXCEPT !.version = d, !.generation[own] = d, !.last = token]
             IN  /\ moved \in [version: Nat, generation: [Purpose -> Nat], last: Token \cup {NoToken}]
                 /\ moved.last = token
                 /\ \A purpose \in Purpose : purpose # own => moved.generation[purpose] = s.generation[purpose]
  BY <1>1
<1> DEFINE moved == [seal EXCEPT !.version = Drawn, !.generation[own] = Drawn, !.last = token]
<1>3. Moved(token) = moved
  BY DEF Moved, own
<1>4. /\ moved \in [version: Nat, generation: [Purpose -> Nat], last: Token \cup {NoToken}]
      /\ moved.last = token
      /\ \A purpose \in Purpose : purpose # own => moved.generation[purpose] = seal.generation[purpose]
  <2> HIDE DEF own
  <2> QED  BY <1>1, <1>2
<1> HIDE DEF moved
<1> QED  BY <1>3, <1>4 DEF own

\* A redemption that commits ends its row with those it holds: the rows of its
\* purpose are gone, and those of other purposes are of their own generations.
LEMMA CommitKeeps ==
  ASSUME LinksInv, NEW r \in Request, pc[r] \in LockedFrom, CommitRedemption(r),
         account' \in [address: Address, disabled: BOOLEAN], effective' \subseteq Token,
         \/ account'.address = account.address
         \/ pc[r] = "locking" /\ rows[work[r].token].purpose = "email_change"
  PROVE  LinksInv'
<1> DEFINE token == work[r].token
           own == rows[token].purpose
<1>1. /\ rows' = Deleted(HeldBy(r)) /\ seal' = Moved(token) /\ Release(r) /\ Finish(r)
      /\ overtaken' = overtaken \cup
           {work[q].token : q \in {q \in Request :
              pc[q] \in {"serialising", "minting", "inserted"} /\ work[q].row.purpose = own}}
      /\ mailed' = mailed /\ late' = late /\ blamed' = blamed
  BY DEF CommitRedemption
<1>2. TypeOK /\ OfRequest(r) /\ Redeeming(r)
  BY DEF LinksInv, RequestInv, LockedFrom, Redeeming
<1>3. /\ token \in Token /\ holder[token] = r /\ rows[token].life = "present" /\ own \in Purpose
  BY <1>2, HeldRowStands
<1>4. /\ seal' \in [version: Nat, generation: [Purpose -> Nat], last: Token \cup {NoToken}]
      /\ seal'.last = token
      /\ \A purpose \in Purpose : purpose # own =>
           seal'.generation[purpose] = seal.generation[purpose]
  BY <1>1, <1>2, <1>3, MovedSeal
<1>5. /\ rows' \in [Token -> Row]
      /\ \A other \in Token : IF holder[other] = r THEN Ended(other) ELSE rows'[other] = rows[other]
  BY <1>1, <1>2, DeletedRows DEF HeldBy
<1>6. /\ pc'[r] = "idle" /\ work'[r] = NoWork /\ OnlyMoves(r)
      /\ pc' \in [Request -> Step] /\ work' \in [Request -> Work]
  BY <1>1, <1>2, FinishMoves
<1>7. /\ holder' \in [Token -> Request \cup {Nobody}]
      /\ minter' \in Request \cup {Nobody} /\ lock' \in Request \cup {Nobody}
      /\ \A other \in Token : holder'[other] = IF holder[other] = r THEN Nobody ELSE holder[other]
      /\ minter' = IF minter = r THEN Nobody ELSE minter
      /\ lock' = IF lock = r THEN Nobody ELSE lock
  BY <1>1, <1>2, ReleaseFrees
<1>8. /\ \A q \in Request : /\ pc[q] \in {"serialising", "minting", "inserted"}
                            /\ work[q].row.purpose = own
                            => work[q].token \in overtaken'
      /\ overtaken \subseteq overtaken'
  BY <1>1
<1>9. overtaken' \subseteq Token
  <2>1. \A q \in Request : Minting(q) => work[q].token \in Token
    BY DEF LinksInv, RequestInv, OfRequest, MintOf
  <2> QED  BY <1>1, <1>2, <2>1 DEF Minting, TypeOK
<1>10. TypeOK'
  BY <1>1, <1>2, <1>4, <1>5, <1>6, <1>7, <1>9, Zenon DEF TypeOK
<1> HIDE DEF token
<1>11. \A other \in Token : RowStep(r, other)
  <2>1. \A other \in Token : holder[other] = r => \A q \in Request : Minting(q) => work[q].token # other
    BY <1>2, NoWorkType DEF LinksInv, RequestInv, OfRequest, MintOf, HoldOf
  <2> QED  BY <1>5, <2>1 DEF RowStep
<1>12. GenerationStep
  BY <1>3, <1>4, <1>8 DEF GenerationStep
<1>13. \/ account'.address = account.address
       \/ \A purpose \in Purpose : Leaves(r, purpose)
  BY DEF Leaves, token
<1>14. Apart(r)
  BY <1>1, <1>6, <1>7, <1>8, <1>11, <1>12, <1>13 DEF Apart
<1>15. \A q \in Request : q # r => Disjoint(r, q)
  BY <1>6, NoWorkType, OneTimeTokensAssumption
  DEF LinksInv, RequestInv, OfRequest, MintOf, Disjoint, Minting
<1>16. OfRequest(r)'
  BY <1>6, <1>7, IdleKeeps, OneTimeTokensAssumption
<1>17. \A other \in Token : rows'[other].life = "present" =>
         /\ rows'[other] = rows[other] /\ holder[other] # r /\ other # token
         /\ rows[other].purpose \in Purpose /\ rows[other].purpose # own
  BY <1>3, <1>5 DEF Ended, LinksInv, UniqueInv
<1>18. UniqueInv'
  BY <1>17 DEF LinksInv, UniqueInv
<1>19. LinksAreCurrent'
  BY <1>4, <1>8, <1>17 DEF LinksInv, LinksAreCurrent, Current
<1>20. ChangeWithdrawsEveryLink'
  <2>1. CASE account'.address = account.address
    BY <1>1, <1>17, <2>1 DEF LinksInv, ChangeWithdrawsEveryLink
  <2>2. CASE \A purpose \in Purpose : Leaves(r, purpose)
    BY <1>1, <1>2, <1>17, <2>2 DEF OfRequest, WithdrawOf, Reached, LockedFrom, ChangeWithdrawsEveryLink
  <2> QED  BY <1>13, <2>1, <2>2
<1>21. BlameInv'
  <2>1. Ended(token)
    BY <1>3, <1>5
  <2> QED  BY <1>1, <1>3, <1>4, <2>1 DEF LinksInv, BlameInv, NoLinkIsBlamed, Ended
<1> QED  BY <1>10, <1>14, <1>15, <1>16, <1>18, <1>19, <1>20, <1>21, StepKeeps

\* The account after a change.
LEMMA AccountMoves ==
  ASSUME TypeOK
  PROVE  /\ account \in [address: Address, disabled: BOOLEAN]
         /\ \A to \in Address :
              [account EXCEPT !.address = to] \in [address: Address, disabled: BOOLEAN]
         /\ \A disabled \in BOOLEAN :
              /\ [account EXCEPT !.disabled = disabled] \in [address: Address, disabled: BOOLEAN]
              /\ [account EXCEPT !.disabled = disabled].address = account.address
<1>1. account \in [address: Address, disabled: BOOLEAN]
  BY DEF TypeOK
<1>2. ASSUME NEW Flag, NEW f \in [address: Address, disabled: Flag], NEW to \in Address, NEW flag \in Flag
      PROVE  /\ [f EXCEPT !.address = to] \in [address: Address, disabled: Flag]
             /\ [f EXCEPT !.disabled = flag] \in [address: Address, disabled: Flag]
             /\ [f EXCEPT !.disabled = flag].address = f.address
  OBVIOUS
<1>3. TRUE \in BOOLEAN /\ FirstAddress \in Address
  BY OneTimeTokensAssumption
<1> QED  BY <1>1, <1>2, <1>3, Zenon

LEMMA ConfirmKeeps ==
  ASSUME LinksInv, NEW r \in Request, Confirm(r)
  PROVE  LinksInv'
<1> DEFINE token == work[r].token
<1>1. /\ pc[r] = "locking" /\ CommitRedemption(r) /\ effective' = effective \cup {token}
      /\ account' = IF rows[token].purpose = "email_change"
                    THEN [account EXCEPT !.address = rows[token].to] ELSE account
  BY DEF Confirm
<1>2. Redeeming(r) /\ pc[r] \in LockedFrom
  BY <1>1 DEF Redeeming, LockedFrom
<1>3. token \in Token
  BY <1>2, HeldRowStands
<1>4. rows[token].to \in Address
  BY <1>3, Types DEF LinksInv, Row
<1>5. account' \in [address: Address, disabled: BOOLEAN]
  BY <1>1, <1>4, AccountMoves, Zenon DEF LinksInv
<1>6. effective' \subseteq Token
  BY <1>1, <1>3 DEF LinksInv, TypeOK
<1>7. \/ account'.address = account.address
      \/ pc[r] = "locking" /\ rows[token].purpose = "email_change"
  BY <1>1
<1> QED  BY <1>1, <1>2, <1>5, <1>6, <1>7, CommitKeeps

LEMMA ResetKeeps ==
  ASSUME LinksInv, NEW r \in Request, Reset(r) \/ SpendOnDisabled(r)
  PROVE  LinksInv'
<1>1. /\ CommitRedemption(r) /\ account' = account
      /\ effective' \in {effective, effective \cup {work[r].token}}
  BY DEF Reset, SpendOnDisabled
<1>2. Redeeming(r) /\ pc[r] \in LockedFrom
  BY DEF Reset, SpendOnDisabled, Redeeming, LockedFrom
<1>3. work[r].token \in Token
  BY <1>2, HeldRowStands
<1>4. account' \in [address: Address, disabled: BOOLEAN]
  BY <1>1, AccountMoves DEF LinksInv
<1>5. effective' \subseteq Token
  BY <1>1, <1>3 DEF LinksInv, TypeOK
<1> QED  BY <1>1, <1>2, <1>4, <1>5, CommitKeeps

LEMMA SetDisabledKeeps ==
  ASSUME LinksInv, NEW disabled \in BOOLEAN, SetDisabled(disabled)
  PROVE  LinksInv'
<1>1. /\ account' = [account EXCEPT !.disabled = disabled] /\ seal' = [seal EXCEPT !.version = Drawn]
      /\ rows' = rows /\ holder' = holder /\ minter' = minter /\ lock' = lock /\ mailed' = mailed
      /\ pc' = pc /\ work' = work /\ effective' = effective /\ overtaken' = overtaken /\ late' = late
      /\ blamed' = blamed
  BY DEF SetDisabled, locks, history
<1>2. account' \in [address: Address, disabled: BOOLEAN] /\ account'.address = account.address
  BY <1>1, AccountMoves, Zenon DEF LinksInv
<1>3. /\ seal' \in [version: Nat, generation: [Purpose -> Nat], last: Token \cup {NoToken}]
      /\ seal'.generation = seal.generation /\ seal'.last = seal.last
  BY <1>1 DEF LinksInv, TypeOK, Drawn
<1>4. TypeOK'
  BY <1>1, <1>2, <1>3, Zenon DEF LinksInv, TypeOK
<1>5. Apart(Nobody)
  BY <1>1, <1>2, <1>3 DEF Apart, OnlyMoves, RowStep, GenerationStep
<1>6. \A q \in Request : Disjoint(Nobody, q)
  BY OneTimeTokensAssumption DEF Disjoint
<1>7. UniqueInv' /\ LinksAreCurrent'
  BY <1>1, <1>3 DEF LinksInv, UniqueInv, LinksAreCurrent, Current
<1>8. ChangeWithdrawsEveryLink' /\ BlameInv'
  BY <1>1, <1>2, <1>3 DEF LinksInv, ChangeWithdrawsEveryLink, BlameInv, NoLinkIsBlamed
<1> QED  BY <1>4, <1>5, <1>6, <1>7, <1>8, StepKeeps, OneTimeTokensAssumption

-----------------------------------------------------------------------------
(* The invariant holds of every behaviour.                                 *)

LEMMA LinksInvInit == Init => LinksInv
<1> SUFFICES ASSUME Init PROVE LinksInv
  OBVIOUS
<1>1. /\ seal = [version |-> 1, generation |-> [purpose \in Purpose |-> 1], last |-> NoToken]
      /\ account = [address |-> FirstAddress, disabled |-> FALSE]
      /\ rows = [token \in Token |-> Unissued] /\ holder = [token \in Token |-> Nobody]
      /\ minter = Nobody /\ lock = Nobody /\ mailed = {}
      /\ pc = [r \in Request |-> "idle"] /\ work = [r \in Request |-> NoWork]
      /\ effective = {} /\ overtaken = {} /\ late = {} /\ blamed = FALSE
  BY DEF Init
<1>2. TypeOK
  <2>1. seal \in [version: Nat, generation: [Purpose -> Nat], last: Token \cup {NoToken}]
    BY <1>1
  <2>2. account \in [address: Address, disabled: BOOLEAN]
    BY <1>1, OneTimeTokensAssumption, Zenon
  <2>3. /\ rows \in [Token -> Row] /\ holder \in [Token -> Request \cup {Nobody}]
        /\ pc \in [Request -> Step] /\ work \in [Request -> Work]
    BY <1>1, NoWorkType DEF Step
  <2>4. blamed \in BOOLEAN
    BY <1>1, Zenon
  <2> QED  BY <1>1, <2>1, <2>2, <2>3, <2>4 DEF TypeOK
<1>3. RequestInv
  BY <1>1, OneTimeTokensAssumption
  DEF RequestInv, OfRequest, MintOf, SentOf, MinterOf, InsertOf, HoldOf, LockOf, RedeemOf,
      WithdrawOf, Minting, Redeeming, Leaves
<1>4. \A token \in Token : rows[token].life = "unissued"
  BY <1>1, NoWorkType
<1>5. UniqueInv /\ LinksAreCurrent /\ ChangeWithdrawsEveryLink /\ BlameInv
  BY <1>1, <1>4, OneTimeTokensAssumption
  DEF UniqueInv, LinksAreCurrent, ChangeWithdrawsEveryLink, BlameInv, NoLinkIsBlamed
<1> QED  BY <1>2, <1>3, <1>5 DEF LinksInv

LEMMA LinksInvNext == LinksInv /\ [Next]_vars => LinksInv'
<1> SUFFICES ASSUME LinksInv, [Next]_vars PROVE LinksInv'
  OBVIOUS
<1>1. ASSUME NEW r \in Request, Proceed(r) PROVE LinksInv'
  BY <1>1, ReadGenerationKeeps, SerialiseKeeps, ReplaceKeeps, CommitMintKeeps, SendKeeps, UndoKeeps,
     CheckAccountKeeps, BeginWithdrawKeeps, WithdrawKeeps, TakeAccountLockKeeps, ConfirmKeeps, ResetKeeps, RefuseKeeps
  DEF Proceed
<1>2. ASSUME NEW r \in Request, NEW token \in Token, NEW purpose \in Purpose, NEW to \in Address,
             AskForLink(r, token, purpose, to)
      PROVE  LinksInv'
  BY <1>2, AskForLinkKeeps
<1>3. ASSUME NEW r \in Request, NEW token \in Token, Consume(r, token) PROVE LinksInv'
  BY <1>3, ConsumeKeeps
<1>4. ASSUME Environment PROVE LinksInv'
  BY <1>4, SetDisabledKeeps, SweepKeeps, CrashKeeps, Zenon DEF Environment
<1>5. ASSUME UNCHANGED vars PROVE LinksInv'
  BY <1>5
  DEF vars, locks, history, LinksInv, TypeOK, RequestInv, OfRequest, MintOf, SentOf, MinterOf,
      InsertOf, HoldOf, LockOf, RedeemOf, WithdrawOf, Reached, Minting, Redeeming, Leaves, UniqueInv,
      LinksAreCurrent, Current, ChangeWithdrawsEveryLink, BlameInv, NoLinkIsBlamed
<1> QED  BY <1>1, <1>2, <1>3, <1>4, <1>5 DEF Next

LEMMA LinksInvAlways == Spec => []LinksInv
BY LinksInvInit, LinksInvNext, PTL DEF Spec

-----------------------------------------------------------------------------
(* The theorems.                                                           *)

\* Every value the rows, the locks and the requests take is one the code can hold.
THEOREM OneTimeTokensTyped == Spec => []TypeOK
BY LinksInvAlways, PTL DEF LinksInv

\* replaceStatement leaves the link it inserts the only one of its purpose, however
\* many requests mint, redeem, roll back and sweep meanwhile.
THEOREM MintsSupersede == Spec => []OneLinkPerPurpose
<1>1. LinksInv => OneLinkPerPurpose
  <2> SUFFICES ASSUME LinksInv, NEW purpose \in Purpose PROVE Cardinality(Present(purpose)) <= 1
    BY DEF OneLinkPerPurpose
  <2>1. CASE Present(purpose) = {}
    BY <2>1, FS_EmptySet
  <2>2. CASE Present(purpose) # {}
    <3>1. PICK token \in Present(purpose) : TRUE
      BY <2>2
    <3>2. Present(purpose) = {token}
      BY <3>1 DEF LinksInv, UniqueInv, Present
    <3> QED  BY <3>2, FS_Singleton
  <2> QED  BY <2>1, <2>2
<1> QED  BY <1>1, LinksInvAlways, PTL

\* movesOfSpentToken moves the generation of the redeemed link's purpose and ends no
\* live link, for any number of requests and purposes.
THEOREM RedemptionsEndTheirOwnLink == Spec => []LinksAreCurrent
BY LinksInvAlways, PTL DEF LinksInv

\* withdrawTokensOf reaches every link of the old address but those whose mint is
\* under way when its statement looks, or begins before the change commits.
THEOREM ChangesReachEveryLink == Spec => []ChangeWithdrawsEveryLink
BY LinksInvAlways, PTL DEF LinksInv

\* refuseATokenWrittenBack never fires where only the library writes.
THEOREM LinksAreNotBlamed == Spec => []NoLinkIsBlamed
BY LinksInvAlways, PTL DEF LinksInv, BlameInv

\* Advisory lock, token rows and account row are taken in that order by every
\* request, so that no ring of requests, however large, waits for itself: what a
\* member holds is of a later kind than what it waits for.
THEOREM LocksAreTakenInOrder == Spec => []NobodyWaitsInACircle
<1>1. LinksInv => NobodyWaitsInACircle
  <2> SUFFICES ASSUME LinksInv, NEW ring \in (SUBSET Request) \ {{}},
                      \A r \in ring : \E q \in ring \ {r} : WaitsFor(r, q)
               PROVE  FALSE
    BY DEF NobodyWaitsInACircle
  <2>1. \A r \in ring : OfRequest(r) /\ r \in Request /\ r # Nobody
    BY OneTimeTokensAssumption DEF LinksInv, RequestInv
  <2>2. \A r \in ring : pc[r] \in {"serialising", "minting", "deleting", "locking", "spending"}
    BY DEF WaitsFor, LockedFrom
  <2>3. \A r \in ring : pc[r] \notin LockedFrom
    <3> SUFFICES ASSUME NEW r \in ring, pc[r] \in LockedFrom PROVE FALSE
      OBVIOUS
    <3>1. PICK q \in ring : q # r /\ lock = q
      BY DEF WaitsFor, LockedFrom
    <3>2. pc[q] \in LockedFrom
      BY <2>1, <3>1 DEF OfRequest, LockOf
    <3>3. PICK p \in ring : p # q /\ lock = p
      BY <3>2 DEF WaitsFor, LockedFrom
    <3> QED  BY <3>1, <3>3
  <2>4. \A q \in ring, token \in Token : holder[token] = q =>
          pc[q] = "deleting" /\ rows[work[q].token].purpose = "email_change"
          /\ work[q].token \in Token /\ rows[work[q].token].life = "present"
    BY <2>1, <2>2, <2>3 DEF OfRequest, HoldOf, RedeemOf, Redeeming, LockedFrom
  <2>5. \A r \in ring : pc[r] # "deleting"
    <3> SUFFICES ASSUME NEW r \in ring, pc[r] = "deleting" PROVE FALSE
      OBVIOUS
    <3>1. PICK q \in ring, token \in Token : q # r /\ holder[token] = q
      BY <2>1, Types DEF WaitsFor, LockedFrom, LinksInv
    <3>2. work[r].token = work[q].token
      BY <2>1, <2>4, <3>1 DEF OfRequest, RedeemOf, HoldOf, Redeeming, LinksInv, UniqueInv
    <3> QED  BY <2>1, <2>4, <3>1, <3>2 DEF OfRequest, RedeemOf, Redeeming
  <2>6. \A r \in ring : pc[r] # "minting"
    BY <2>4, <2>5 DEF WaitsFor, LockedFrom, Present
  <2>7. \A r \in ring : pc[r] # "serialising"
    BY <2>1, <2>2, <2>5, <2>6 DEF WaitsFor, LockedFrom, OfRequest, MinterOf
  <2> QED  BY <2>2, <2>3, <2>5, <2>6, <2>7 DEF LockedFrom
<1> QED  BY <1>1, LinksInvAlways, PTL

=============================================================================
