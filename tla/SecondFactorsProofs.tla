------------------------- MODULE SecondFactorsProofs -------------------------
(***************************************************************************)
(* Theorems about SecondFactors: the attempts of a pending row are counted *)
(* before a factor is evaluated, a row, a step and a code stand for one    *)
(* session, only a deletion that a booking overtook blames its row, and a  *)
(* completion stands on both factors.                                      *)
(***************************************************************************)
EXTENDS SecondFactors, FiniteSetTheorems, TLAPS

-----------------------------------------------------------------------------
(* The inductive invariant.                                                *)

\* The next version drawn is a fresh name: nothing of the account, nothing a
\* request remembers and nothing a session stands on is newer than the seal.
FreshInv ==
  /\ seal.epoch <= seal.version /\ seal.components <= seal.version
  /\ seal.attempt <= seal.version
  /\ factors.secret <= seal.version /\ factors.set <= seal.version
  /\ \A r \in Request : work[r].epoch <= seal.version /\ work[r].components <= seal.version
  /\ \A proof \in spent : proof.of <= seal.version

\* A request at work has a token; while its row is not inserted, no other has it.
TokenOf(r) ==
  pc[r] # "idle" =>
    /\ work[r].token \in Pending
    /\ IF pc[r] \in {"offered", "inserting"}
       THEN /\ rows[work[r].token] = Unissued
            /\ work[r].row.attempts = 0
            /\ \A other \in Request : other # r => work[other].token # work[r].token
       ELSE rows[work[r].token].life # "unissued"

\* The row a transaction has written stays as it is until the transaction ends.
LockOf(r) ==
  /\ pc[r] \in {"booked", "consumed"} => holder[work[r].token] = r /\ Present(work[r].token)
  /\ pc[r] = "booked" => rows[work[r].token] = work[r].row

\* A booking that may still be written has budget left.
BudgetOf(r) ==
  pc[r] \in {"booking", "booked", "unsealed"} => work[r].row.attempts < MaximumPendingAttempts

\* A row that is no longer what a booking read has advanced or is gone.
MoveOf(r) ==
  /\ pc[r] \in {"booking", "unsealed"} /\ Present(work[r].token) =>
       rows[work[r].token] = work[r].row \/ Advanced(work[r].row, rows[work[r].token])
  /\ pc[r] = "missed" /\ Present(work[r].token) /\ work[r].token \notin expired =>
       Advanced(work[r].row, rows[work[r].token])

\* What a request has proved is the account's as long as no change came between.
Fresh(r) == work[r].components = seal.components

Proven(r) == pc[r] \in {"verified", "consuming", "consumed"} /\ Fresh(r)

ProofOf(r) ==
  /\ pc[r] = "matched" =>
       \E step \in TimeStep, secret \in Nat :
         /\ work[r].proof = {[factor |-> "totp", of |-> secret, is |-> step]}
         /\ secret # 0
         /\ Fresh(r) => secret = factors.secret
  /\ Proven(r) => \A proof \in work[r].proof :
       /\ Held(proof)
       /\ proof.factor = "totp" => proof.of # 0 /\ proof.is \in used
       /\ proof.factor = "recovery" => proof.is \notin factors.codes
       /\ proof \notin spent
       /\ \A other \in Request : Proven(other) /\ other # r => proof \notin work[other].proof

\* A request that consumes its row stands on the epoch of the row; the seal its
\* deletion read is no newer than the account's, and named the row only with a
\* generation the row has had.
SeenOf(r) ==
  /\ pc[r] = "consumed" /\ work[r].epoch = seal.epoch => rows[work[r].token].epoch = seal.epoch
  /\ pc[r] = "consuming" =>
       /\ work[r].epoch = seal.epoch => work[r].seen.epoch = seal.epoch
       /\ work[r].seen.attempt <= seal.version
       /\ work[r].seen.last = work[r].token /\ Present(work[r].token) =>
            work[r].seen.attempt <= rows[work[r].token].generation

RequestInv ==
  \A r \in Request : TokenOf(r) /\ LockOf(r) /\ BudgetOf(r) /\ MoveOf(r) /\ ProofOf(r) /\ SeenOf(r)

\* The requests whose attempt is booked and not yet evaluated.
Evaluating(token) == {r \in Request : pc[r] = "evaluating" /\ work[r].token = token}

\* Every booked attempt is evaluated once at most, and no more are booked than
\* the budget allows.
CountInv ==
  \A token \in Pending :
    /\ IsFiniteSet(Evaluating(token))
    /\ evaluated[token] + Cardinality(Evaluating(token)) <= rows[token].attempts
    /\ rows[token].attempts <= MaximumPendingAttempts

BookingsBlameNobody == "row" \notin reported

\* The row booked last is of the account's generation, and no booking blames a row.
LastInv ==
  /\ \A token \in Pending : seal.last = token =>
       rows[token].life # "unissued" /\ rows[token].generation = seal.attempt
  /\ BookingsBlameNobody

\* What a session stands on is never proved again.
SpentInv ==
  /\ \A proof \in spent :
       /\ proof.factor = "totp" => proof.of # 0
       /\ proof.factor = "totp" /\ proof.of = factors.secret => proof.is \in used
       /\ proof.factor = "recovery" /\ proof.of = factors.set => proof.is \notin factors.codes
  /\ \A token \in completed : rows[token].life = "gone"
  /\ OneSessionPerProof

FactorsInv ==
  /\ TypeOK
  /\ FreshInv
  /\ RequestInv
  /\ CountInv
  /\ LastInv
  /\ SpentInv

-----------------------------------------------------------------------------
(* What the operators do to what the requests remember and to the rows.    *)

\* A request other than r neither moves nor learns anything.
OnlyMoves(r) == \A q \in Request : q # r => pc'[q] = pc[q] /\ work'[q] = work[q]

\* A request goes to another step.
LEMMA GotoMoves ==
  ASSUME TypeOK, NEW r \in Request, NEW step \in Step, Goto(r, step)
  PROVE  /\ pc' \in [Request -> Step]
         /\ pc'[r] = step
         /\ \A q \in Request : q # r => pc'[q] = pc[q]
BY DEF TypeOK, Goto

\* A request that has nothing to remember.
LEMMA NoWorkType ==
  /\ Unissued \in Row /\ NoWork \in Work
  /\ NoWork.token = NoPending /\ NoWork.epoch = 0 /\ NoWork.components = 0
  /\ NoWork.row = Unissued /\ NoWork.proof = {}
<1>1. Unissued \in Row /\ NothingSeen \in Seen
  BY DEF Unissued, Row, NothingSeen, Seen
<1> QED  BY <1>1 DEF NoWork, Work

\* What a request remembers is replaced.
LEMMA WorkMoves ==
  ASSUME TypeOK, NEW r \in Request, NEW w \in Work, work' = [work EXCEPT ![r] = w]
  PROVE  /\ work' \in [Request -> Work]
         /\ work'[r] = w
         /\ \A q \in Request : q # r => work'[q] = work[q]
BY DEF TypeOK

\* A request ends and forgets.
LEMMA FinishMoves ==
  ASSUME TypeOK, NEW r \in Request, Finish(r)
  PROVE  /\ pc' \in [Request -> Step] /\ work' \in [Request -> Work]
         /\ pc'[r] = "idle" /\ work'[r] = NoWork
         /\ OnlyMoves(r)
<1>1. pc' \in [Request -> Step] /\ pc'[r] = "idle" /\ \A q \in Request : q # r => pc'[q] = pc[q]
  BY DEF Finish, TypeOK, Step
<1>2. work' = [work EXCEPT ![r] = NoWork]
  BY DEF Finish
<1> QED  BY <1>1, <1>2, NoWorkType, WorkMoves DEF OnlyMoves

\* A request gives back the rows its transaction holds.
LEMMA ReleaseFrees ==
  ASSUME TypeOK, NEW r \in Request, holder' = Released(r)
  PROVE  /\ holder' \in [Pending -> Request \cup {Nobody}]
         /\ \A token \in Pending : holder'[token] = IF holder[token] = r THEN Nobody ELSE holder[token]
BY DEF Released, TypeOK

\* A row is replaced.
LEMMA RowReplaced ==
  ASSUME TypeOK, NEW token \in Pending, NEW row \in Row, rows' = [rows EXCEPT ![token] = row]
  PROVE  /\ rows' \in [Pending -> Row]
         /\ rows'[token] = row
         /\ \A other \in Pending : other # token => rows'[other] = rows[other]
BY DEF TypeOK

\* The fields of what a request remembers.
LEMMA WorkFields ==
  ASSUME NEW w \in Work
  PROVE  /\ w.token \in Pending \cup {NoPending} /\ w.row \in Row
         /\ w.offered \in SUBSET {"totp", "recovery"}
         /\ w.epoch \in Nat /\ w.components \in Nat /\ w.proof \in SUBSET Proof
         /\ w.seen \in Seen
         /\ \A row \in Row : /\ [w EXCEPT !.row = row] \in Work
                             /\ [w EXCEPT !.row = row].token = w.token
                             /\ [w EXCEPT !.row = row].row = row
                             /\ [w EXCEPT !.row = row].epoch = w.epoch
                             /\ [w EXCEPT !.row = row].components = w.components
                             /\ [w EXCEPT !.row = row].proof = w.proof
BY DEF Work

\* The fields of a row, and what is done to them.
LEMMA RowFields ==
  ASSUME NEW row \in Row
  PROVE  /\ row.life \in {"unissued", "present", "gone"}
         /\ row.attempts \in Nat /\ row.epoch \in Nat /\ row.generation \in Nat /\ row.key \in Nat
BY DEF Row

LEMMA RowEnds ==
  ASSUME NEW row \in Row, NEW life \in {"unissued", "present", "gone"}
  PROVE  LET ended == [row EXCEPT !.life = life]
         IN  /\ ended \in Row /\ ended.life = life /\ ended.attempts = row.attempts
             /\ ended.epoch = row.epoch /\ ended.generation = row.generation /\ ended.key = row.key
BY DEF Row

LEMMA RowCounts ==
  ASSUME TypeOK, NEW row \in Row, NEW generation \in Nat
  PROVE  LET counted == Counted(row, generation)
         IN  /\ counted \in Row /\ counted.life = row.life /\ counted.attempts = row.attempts + 1
             /\ counted.epoch = row.epoch /\ counted.generation = generation
             /\ counted.key = keyNow
<1>1. keyNow \in Nat
  BY DEF TypeOK
<1>2. row.attempts + 1 \in Nat
  BY RowFields
<1> DEFINE counted == [row EXCEPT !.attempts = row.attempts + 1, !.generation = generation, !.key = keyNow]
<1>3. Counted(row, generation) = counted
  BY DEF Counted
<1>4. ASSUME NEW n \in Nat, NEW k \in Nat
      PROVE  LET row2 == [row EXCEPT !.attempts = n, !.generation = generation, !.key = k]
             IN  /\ row2 \in Row /\ row2.life = row.life /\ row2.attempts = n
                 /\ row2.epoch = row.epoch /\ row2.generation = generation /\ row2.key = k
  BY DEF Row
<1>5. /\ counted \in Row /\ counted.life = row.life /\ counted.attempts = row.attempts + 1
      /\ counted.epoch = row.epoch /\ counted.generation = generation /\ counted.key = keyNow
  BY <1>1, <1>2, <1>4
<1> HIDE DEF counted
<1> QED  BY <1>3, <1>5

\* A row that was counted or bound to a newer key has advanced, and what has
\* advanced since was behind before.
LEMMA AdvancedChains ==
  ASSUME NEW row \in Row, NEW between \in Row, NEW reread \in Row,
         row = between \/ Advanced(row, between), Advanced(between, reread)
  PROVE  Advanced(row, reread)
BY RowFields DEF Advanced

\* The seal after a change.
SealRow == [version: Nat, epoch: Nat, components: Nat, attempt: Nat, last: Pending \cup {NoPending}]

LEMMA SealMoves ==
  ASSUME seal \in SealRow
  PROVE  /\ Drawn \in Nat /\ Drawn > seal.version
         /\ Changed \in SealRow /\ Changed.version = Drawn /\ Changed.components = Drawn
         /\ Changed.epoch = seal.epoch /\ Changed.attempt = seal.attempt /\ Changed.last = seal.last
         /\ Raised \in SealRow /\ Raised.version = Drawn /\ Raised.components = Drawn
         /\ Raised.epoch = Drawn /\ Raised.attempt = seal.attempt /\ Raised.last = seal.last
         /\ \A token \in Pending :
              /\ Moved(token) \in SealRow /\ Moved(token).version = Drawn
              /\ Moved(token).components = seal.components /\ Moved(token).epoch = seal.epoch
              /\ Moved(token).attempt = Drawn /\ Moved(token).last = token
<1>1. Drawn \in Nat /\ Drawn > seal.version
  BY DEF SealRow, Drawn
<1>2. /\ Changed \in SealRow /\ Changed.version = Drawn /\ Changed.components = Drawn
      /\ Changed.epoch = seal.epoch /\ Changed.attempt = seal.attempt /\ Changed.last = seal.last
  BY <1>1 DEF SealRow, Changed
<1>3. /\ Raised \in SealRow /\ Raised.version = Drawn /\ Raised.components = Drawn
      /\ Raised.epoch = Drawn /\ Raised.attempt = seal.attempt /\ Raised.last = seal.last
  BY <1>1, <1>2 DEF SealRow, Raised
<1>4. ASSUME NEW token \in Pending
      PROVE  /\ Moved(token) \in SealRow /\ Moved(token).version = Drawn
             /\ Moved(token).components = seal.components /\ Moved(token).epoch = seal.epoch
             /\ Moved(token).attempt = Drawn /\ Moved(token).last = token
  BY <1>1 DEF SealRow, Moved
<1> QED  BY <1>1, <1>2, <1>3, <1>4

\* The types the steps are reasoned with.
LEMMA Types ==
  ASSUME TypeOK
  PROVE  /\ seal \in SealRow
         /\ seal.version \in Nat /\ seal.epoch \in Nat /\ seal.components \in Nat
         /\ seal.attempt \in Nat /\ seal.last \in Pending \cup {NoPending}
         /\ factors.secret \in Nat /\ factors.set \in Nat /\ factors.codes \subseteq Code
         /\ \A token \in Pending : rows[token] \in Row
         /\ \A r \in Request : /\ pc[r] \in Step /\ work[r] \in Work
                               /\ work[r].row \in Row /\ work[r].proof \subseteq Proof
                               /\ work[r].epoch \in Nat /\ work[r].components \in Nat
                               /\ work[r].token \in Pending \cup {NoPending}
         /\ \A token \in Pending : evaluated[token] \in Nat
<1>1. /\ \A token \in Pending : rows[token] \in Row /\ evaluated[token] \in Nat
      /\ \A r \in Request : pc[r] \in Step /\ work[r] \in Work
  BY DEF TypeOK
<1>2. /\ seal \in SealRow
      /\ seal.version \in Nat /\ seal.epoch \in Nat /\ seal.components \in Nat
      /\ seal.attempt \in Nat /\ seal.last \in Pending \cup {NoPending}
  BY DEF TypeOK, SealRow
<1>3. factors.secret \in Nat /\ factors.set \in Nat /\ factors.codes \subseteq Code
  <2>1. ASSUME NEW Flag, NEW f \in [secret: Nat, set: Nat, codes: SUBSET Code, disabled: Flag]
        PROVE  f.secret \in Nat /\ f.set \in Nat /\ f.codes \subseteq Code
    OBVIOUS
  <2> QED  BY <2>1 DEF TypeOK
<1>4. ASSUME NEW r \in Request
      PROVE  /\ work[r].row \in Row /\ work[r].proof \subseteq Proof
             /\ work[r].epoch \in Nat /\ work[r].components \in Nat
             /\ work[r].token \in Pending \cup {NoPending}
  BY <1>1, WorkFields
<1> QED  BY <1>1, <1>2, <1>3, <1>4

-----------------------------------------------------------------------------
(* What a step of one request leaves of the others.                        *)

\* A row is left alone, inserted by r, ended, or counted or bound to a newer key.
RowStep(r, token) ==
  \/ rows'[token] = rows[token]
  \/ /\ r \in Request /\ pc[r] = "inserting" /\ work[r].token = token
     /\ rows[token] = Unissued /\ rows'[token].life # "unissued"
  \/ Present(token) /\ rows'[token].life = "gone"
  \/ /\ Present(token) /\ rows'[token].life = "present" /\ Advanced(rows[token], rows'[token])
     /\ rows'[token].generation \in {rows[token].generation, Drawn}

\* The account is left as a check before read it, or its components are renewed.
SameAccount ==
  /\ seal'.components = seal.components /\ seal'.epoch = seal.epoch
  /\ factors'.secret = factors.secret /\ factors'.set = factors.set
  /\ factors'.codes = factors.codes /\ used \subseteq used'

NewAccount == seal'.components = Drawn /\ seal'.epoch \in {seal.epoch, Drawn}

\* A step of r, or of nobody, as the other requests see it.
Apart(r) ==
  /\ OnlyMoves(r)
  /\ SameAccount \/ NewAccount
  /\ seal' = seal \/ seal'.version = Drawn
  /\ \A token \in Pending : RowStep(r, token)
  /\ \A q \in Request : q # r /\ pc[q] \in {"booked", "consumed"} =>
       holder'[work[q].token] = holder[work[q].token] /\ rows'[work[q].token] = rows[work[q].token]
  /\ expired \subseteq expired'

\* What the requests remember stays theirs: r takes no token of a row that is
\* not inserted yet, and proves nothing that another has proved.
Disjoint(r, q) ==
  /\ pc[q] \in {"offered", "inserting"} /\ r \in Request => work'[r].token # work[q].token
  /\ Proven(q) /\ SameAccount =>
       /\ \A proof \in work[q].proof : proof \notin spent' \ spent
       /\ r \in Request /\ Proven(r)' => \A proof \in work[q].proof : proof \notin work'[r].proof

LEMMA HoldersKeep ==
  ASSUME FactorsInv, NEW q \in Request, pc[q] \in {"booked", "consumed"}
  PROVE  /\ work[q].token \in Pending /\ Present(work[q].token)
         /\ holder[work[q].token] = q /\ holder[work[q].token] # Nobody
BY SecondFactorsAssumption DEF FactorsInv, RequestInv, TokenOf, LockOf

LEMMA OthersKeep ==
  ASSUME FactorsInv, TypeOK', NEW r, Apart(r),
         NEW q \in Request, q # r, Disjoint(r, q)
  PROVE  /\ TokenOf(q)' /\ LockOf(q)' /\ BudgetOf(q)' /\ MoveOf(q)'
         /\ ProofOf(q)' /\ SeenOf(q)'
<1> USE DEF FactorsInv, RequestInv
<1>1. pc'[q] = pc[q] /\ work'[q] = work[q]
  BY DEF Apart, OnlyMoves
<1>2. /\ TokenOf(q) /\ LockOf(q) /\ BudgetOf(q) /\ MoveOf(q) /\ ProofOf(q) /\ SeenOf(q)
      /\ r \in Request => TokenOf(r)
  OBVIOUS
<1>3. pc[q] # "idle" => work[q].token \in Pending /\ RowStep(r, work[q].token)
  BY <1>2 DEF TokenOf, Apart
<1>4. work[q].epoch < Drawn /\ work[q].components < Drawn
  <2>1. seal.version \in Nat /\ work[q].epoch \in Nat /\ work[q].components \in Nat
    BY Types
  <2>2. work[q].epoch <= seal.version /\ work[q].components <= seal.version
    BY DEF FreshInv
  <2> QED  BY <2>1, <2>2 DEF Drawn
<1>5. TokenOf(q)'
  <2> SUFFICES ASSUME pc[q] # "idle" PROVE TokenOf(q)'
    BY <1>1 DEF TokenOf
  <2>1. CASE pc[q] \in {"offered", "inserting"}
    <3>1. rows[work[q].token] = Unissued /\ work[q].row.attempts = 0
          /\ \A other \in Request : other # q => work[other].token # work[q].token
      BY <1>2, <2>1 DEF TokenOf
    <3>2. rows'[work[q].token] = Unissued
      BY <1>3, <2>1, <3>1 DEF RowStep, Present, Unissued
    <3>3. \A other \in Request : other # q => work'[other].token # work[q].token
      BY <2>1, <3>1 DEF Apart, OnlyMoves, Disjoint
    <3> QED  BY <1>1, <1>3, <2>1, <3>1, <3>2, <3>3 DEF TokenOf
  <2>2. CASE pc[q] \notin {"offered", "inserting"}
    <3>1. rows[work[q].token].life # "unissued"
      BY <1>2, <2>2 DEF TokenOf
    <3>2. rows'[work[q].token].life # "unissued"
      BY <1>3, <3>1 DEF RowStep, Present
    <3> QED  BY <1>1, <1>3, <2>2, <3>2 DEF TokenOf
  <2> QED  BY <2>1, <2>2
<1>6. LockOf(q)'
  <2> SUFFICES ASSUME pc[q] \in {"booked", "consumed"} PROVE LockOf(q)'
    BY <1>1 DEF LockOf
  <2>1. holder[work[q].token] = q /\ work[q].token \in Pending
    BY <1>2, <1>3 DEF LockOf
  <2>2. holder'[work[q].token] = q /\ rows'[work[q].token] = rows[work[q].token]
    BY <2>1 DEF Apart
  <2> QED  BY <1>1, <1>2, <2>2 DEF LockOf, Present
<1>7. BudgetOf(q)'
  BY <1>1, <1>2 DEF BudgetOf
<1>8. MoveOf(q)'
  <2> SUFFICES ASSUME pc[q] \in {"booking", "unsealed", "missed"},
                      rows'[work[q].token].life = "present"
               PROVE  MoveOf(q)'
    BY <1>1 DEF MoveOf, Present
  <2>1. work[q].token \in Pending /\ rows[work[q].token].life # "unissued"
        /\ RowStep(r, work[q].token)
    BY <1>2, <1>3 DEF TokenOf
  <2>2. /\ Present(work[q].token)
        /\ \/ rows'[work[q].token] = rows[work[q].token]
           \/ Advanced(rows[work[q].token], rows'[work[q].token])
    BY <2>1 DEF RowStep, Unissued, Present
  <2>3. work[q].row \in Row /\ rows[work[q].token] \in Row /\ rows'[work[q].token] \in Row
    BY <2>1, Types DEF TypeOK
  <2>4. pc[q] = "missed" /\ work[q].token \notin expired' => work[q].token \notin expired
    BY DEF Apart
  <2>5. Advanced(work[q].row, rows[work[q].token]) => Advanced(work[q].row, rows'[work[q].token])
    BY <2>2, <2>3, AdvancedChains
  <2>6. rows[work[q].token] = work[q].row =>
          rows'[work[q].token] = work[q].row \/ Advanced(work[q].row, rows'[work[q].token])
    BY <2>2
  <2>7. ASSUME pc[q] \in {"booking", "unsealed"}
        PROVE  rows'[work[q].token] = work[q].row \/ Advanced(work[q].row, rows'[work[q].token])
    BY <1>2, <2>2, <2>5, <2>6, <2>7 DEF MoveOf
  <2>8. ASSUME pc[q] = "missed", work[q].token \notin expired'
        PROVE  Advanced(work[q].row, rows'[work[q].token])
    BY <1>2, <2>2, <2>4, <2>5, <2>8 DEF MoveOf
  <2> QED  BY <1>1, <2>7, <2>8 DEF MoveOf, Advanced
<1>9. SeenOf(q)'
  <2>1. work[q].epoch = seal'.epoch => seal'.epoch = seal.epoch
    <3>1. Drawn \in Nat /\ work[q].epoch \in Nat
      BY Types, SealMoves
    <3> QED  BY <1>4, <3>1 DEF Apart, SameAccount, NewAccount
  <2>2. ASSUME pc[q] = "consumed", work[q].epoch = seal'.epoch
        PROVE  rows'[work[q].token].epoch = seal'.epoch
    <3>1. holder[work[q].token] = q /\ work[q].token \in Pending
      BY <1>2, <1>3, <2>2 DEF LockOf
    <3>2. rows'[work[q].token] = rows[work[q].token]
      BY <2>2 DEF Apart
    <3> QED  BY <1>2, <2>1, <2>2, <3>2 DEF SeenOf
  <2>3. ASSUME pc[q] = "consuming"
        PROVE  /\ work[q].epoch = seal'.epoch => work[q].seen.epoch = seal'.epoch
               /\ work[q].seen.attempt <= seal'.version
               /\ work[q].seen.last = work[q].token /\ Present(work[q].token)' =>
                    work[q].seen.attempt <= rows'[work[q].token].generation
    <3>1. /\ work[q].epoch = seal.epoch => work[q].seen.epoch = seal.epoch
          /\ work[q].seen.attempt <= seal.version
          /\ work[q].seen.last = work[q].token /\ Present(work[q].token) =>
               work[q].seen.attempt <= rows[work[q].token].generation
      BY <1>2, <2>3 DEF SeenOf
    <3>2. /\ seal.version \in Nat /\ Drawn \in Nat /\ Drawn > seal.version
          /\ work[q].seen.attempt \in Nat
      BY Types, SealMoves, WorkFields DEF Seen
    <3>3. work[q].seen.attempt <= seal'.version /\ work[q].seen.attempt <= Drawn
      BY <3>1, <3>2 DEF Apart
    <3>4. work[q].token \in Pending /\ rows[work[q].token].life # "unissued"
          /\ RowStep(r, work[q].token)
      BY <1>2, <1>3, <2>3 DEF TokenOf
    <3>5. ASSUME work[q].seen.last = work[q].token, rows'[work[q].token].life = "present"
          PROVE  work[q].seen.attempt <= rows'[work[q].token].generation
      <4>1. /\ Present(work[q].token)
            /\ rows'[work[q].token].generation \in {rows[work[q].token].generation, Drawn}
        BY <3>4, <3>5 DEF RowStep, Unissued, Present
      <4> QED  BY <3>1, <3>3, <3>5, <4>1
    <3> QED  BY <1>1, <2>1, <3>1, <3>3, <3>5 DEF Present
  <2> QED  BY <1>1, <2>2, <2>3 DEF SeenOf, Present
<1>10. ProofOf(q)'
  <2>1. CASE SameAccount
    <3>1. Fresh(q)' <=> Fresh(q)
      BY <1>1, <2>1 DEF Fresh, SameAccount
    <3>2. Proven(q)' <=> Proven(q)
      BY <1>1, <3>1 DEF Proven
    <3>3. ASSUME Proven(q), NEW proof \in work[q].proof
          PROVE  /\ Held(proof)'
                 /\ proof.factor = "totp" => proof.of # 0 /\ proof.is \in used'
                 /\ proof.factor = "recovery" => proof.is \notin factors'.codes
                 /\ proof \notin spent'
                 /\ \A other \in Request :
                      Proven(other)' /\ other # q => proof \notin work'[other].proof
      <4>1. /\ Held(proof)
            /\ proof.factor = "totp" => proof.of # 0 /\ proof.is \in used
            /\ proof.factor = "recovery" => proof.is \notin factors.codes
            /\ proof \notin spent
            /\ \A other \in Request : Proven(other) /\ other # q => proof \notin work[other].proof
        BY <1>2, <3>3 DEF ProofOf
      <4>2. /\ Held(proof)'
            /\ proof.factor = "totp" => proof.of # 0 /\ proof.is \in used'
            /\ proof.factor = "recovery" => proof.is \notin factors'.codes
        BY <2>1, <4>1 DEF SameAccount, Held
      <4>3. proof \notin spent'
        BY <2>1, <3>3, <4>1 DEF Disjoint
      <4>4. ASSUME NEW other \in Request, Proven(other)', other # q
            PROVE  proof \notin work'[other].proof
        <5>1. CASE other = r
          BY <2>1, <3>3, <4>4, <5>1 DEF Disjoint
        <5>2. CASE other # r
          BY <2>1, <4>1, <4>4, <5>2 DEF Apart, OnlyMoves, Proven, Fresh, SameAccount
        <5> QED  BY <5>1, <5>2
      <4> QED  BY <4>2, <4>3, <4>4
    <3>4. factors'.secret = factors.secret
      BY <2>1 DEF SameAccount
    <3> QED  BY <1>1, <1>2, <3>1, <3>2, <3>3, <3>4 DEF ProofOf
  <2>2. CASE NewAccount
    <3>1. ~ Fresh(q)'
      <4>1. Drawn \in Nat /\ work[q].components \in Nat
        BY Types, SealMoves
      <4> QED  BY <1>1, <1>4, <2>2, <4>1 DEF Fresh, NewAccount
    <3> QED  BY <1>1, <1>2, <3>1 DEF ProofOf, Proven
  <2> QED  BY <2>1, <2>2 DEF Apart
<1> QED  BY <1>5, <1>6, <1>7, <1>8, <1>9, <1>10

-----------------------------------------------------------------------------
(* The attempts that are booked and not evaluated yet.                     *)

\* A step in which no attempt is newly booked or evaluated.
LEMMA CountStays ==
  ASSUME FactorsInv, TypeOK', evaluated' = evaluated,
         \A token \in Pending : /\ Evaluating(token)' \subseteq Evaluating(token)
                                /\ rows[token].attempts <= rows'[token].attempts
                                /\ rows'[token].attempts <= MaximumPendingAttempts
  PROVE  CountInv'
<1> SUFFICES ASSUME NEW token \in Pending
             PROVE  /\ IsFiniteSet(Evaluating(token)')
                    /\ evaluated[token] + Cardinality(Evaluating(token)') <= rows'[token].attempts
  BY DEF CountInv
<1>1. /\ IsFiniteSet(Evaluating(token))
      /\ evaluated[token] + Cardinality(Evaluating(token)) <= rows[token].attempts
  BY DEF FactorsInv, CountInv
<1>2. /\ IsFiniteSet(Evaluating(token)')
      /\ Cardinality(Evaluating(token)') <= Cardinality(Evaluating(token))
  BY <1>1, FS_Subset
<1>3. Cardinality(Evaluating(token)) \in Nat /\ Cardinality(Evaluating(token)') \in Nat
  BY <1>1, <1>2, FS_CardinalityType
<1>4. evaluated[token] \in Nat /\ rows[token].attempts \in Nat /\ rows'[token].attempts \in Nat
  BY Types, RowFields DEF FactorsInv, TypeOK
<1>5. rows[token].attempts <= rows'[token].attempts
  OBVIOUS
<1> QED  BY <1>1, <1>2, <1>3, <1>4, <1>5

\* An evaluated attempt leaves the booked ones and is counted as evaluated.
LEMMA CountEvaluates ==
  ASSUME FactorsInv, TypeOK', NEW r \in Request, OnlyMoves(r),
         pc[r] = "evaluating", pc'[r] # "evaluating", rows' = rows,
         Evaluated(work[r].token)
  PROVE  CountInv'
<1> SUFFICES ASSUME NEW token \in Pending
             PROVE  /\ IsFiniteSet(Evaluating(token)')
                    /\ evaluated'[token] + Cardinality(Evaluating(token)') <= rows[token].attempts
                    /\ rows[token].attempts <= MaximumPendingAttempts
  BY DEF CountInv
<1>1. /\ IsFiniteSet(Evaluating(token))
      /\ evaluated[token] + Cardinality(Evaluating(token)) <= rows[token].attempts
      /\ rows[token].attempts <= MaximumPendingAttempts
  BY DEF FactorsInv, CountInv
<1>2. Evaluating(token)' = Evaluating(token) \ {r}
  BY DEF Evaluating, OnlyMoves
<1>3. IsFiniteSet(Evaluating(token)')
  BY <1>1, <1>2, FS_RemoveElement
<1>4. Cardinality(Evaluating(token)) \in Nat /\ Cardinality(Evaluating(token)') \in Nat
  BY <1>1, <1>3, FS_CardinalityType
<1>5. evaluated[token] \in Nat /\ rows[token].attempts \in Nat
  BY Types, RowFields DEF FactorsInv
<1>6. CASE work[r].token = token
  <2>1. evaluated'[token] = evaluated[token] + 1
    BY <1>6 DEF Evaluated, FactorsInv, TypeOK
  <2>2. r \in Evaluating(token)
    BY <1>6 DEF Evaluating
  <2>3. Cardinality(Evaluating(token)') = Cardinality(Evaluating(token)) - 1
    BY <1>1, <1>2, <2>2, FS_RemoveElement
  <2> QED  BY <1>1, <1>3, <1>4, <1>5, <2>1, <2>3
<1>7. CASE work[r].token # token
  <2>1. evaluated'[token] = evaluated[token]
    BY <1>7 DEF Evaluated, FactorsInv, TypeOK
  <2>2. Evaluating(token)' = Evaluating(token)
    BY <1>2, <1>7 DEF Evaluating
  <2> QED  BY <1>1, <1>3, <2>1, <2>2
<1> QED  BY <1>6, <1>7

\* A booked attempt is counted on its row.
LEMMA CountBooks ==
  ASSUME FactorsInv, TypeOK', NEW r \in Request, OnlyMoves(r),
         pc[r] # "evaluating", pc'[r] = "evaluating", evaluated' = evaluated,
         work[r].token \in Pending, work'[r].token = work[r].token,
         rows'[work[r].token].attempts = rows[work[r].token].attempts + 1,
         rows[work[r].token].attempts < MaximumPendingAttempts,
         \A token \in Pending : token # work[r].token => rows'[token] = rows[token]
  PROVE  CountInv'
<1> SUFFICES ASSUME NEW token \in Pending
             PROVE  /\ IsFiniteSet(Evaluating(token)')
                    /\ evaluated[token] + Cardinality(Evaluating(token)') <= rows'[token].attempts
                    /\ rows'[token].attempts <= MaximumPendingAttempts
  BY DEF CountInv
<1>1. /\ IsFiniteSet(Evaluating(token))
      /\ evaluated[token] + Cardinality(Evaluating(token)) <= rows[token].attempts
      /\ rows[token].attempts <= MaximumPendingAttempts
  BY DEF FactorsInv, CountInv
<1>2. evaluated[token] \in Nat /\ rows[token].attempts \in Nat /\ MaximumPendingAttempts \in Nat
  BY Types, RowFields, SecondFactorsAssumption DEF FactorsInv
<1>3. CASE work[r].token = token
  <2>1. Evaluating(token)' = Evaluating(token) \cup {r} /\ r \notin Evaluating(token)
    BY <1>3 DEF Evaluating, OnlyMoves
  <2>2. /\ IsFiniteSet(Evaluating(token)')
        /\ Cardinality(Evaluating(token)') = Cardinality(Evaluating(token)) + 1
    BY <1>1, <2>1, FS_AddElement
  <2>3. Cardinality(Evaluating(token)) \in Nat
    BY <1>1, FS_CardinalityType
  <2>4. /\ rows'[token].attempts = rows[token].attempts + 1
        /\ rows[token].attempts < MaximumPendingAttempts
    BY <1>3
  <2> QED  BY <1>1, <1>2, <2>2, <2>3, <2>4
<1>4. CASE work[r].token # token
  <2>1. Evaluating(token)' = Evaluating(token)
    BY <1>4 DEF Evaluating, OnlyMoves
  <2>2. rows'[token] = rows[token]
    BY <1>4
  <2> QED  BY <1>1, <2>1, <2>2
<1> QED  BY <1>3, <1>4

-----------------------------------------------------------------------------
(* Steps that only move a request.                                         *)

OfRequest(r) == TokenOf(r) /\ LockOf(r) /\ BudgetOf(r) /\ MoveOf(r) /\ ProofOf(r) /\ SeenOf(r)

\* A request that has ended owes nothing.
LEMMA IdleKeeps ==
  ASSUME NEW r, pc'[r] = "idle"
  PROVE  OfRequest(r)'
BY DEF OfRequest, TokenOf, LockOf, BudgetOf, MoveOf, ProofOf, SeenOf, Proven

Quiet == UNCHANGED <<accountVars, rows, keyNow, evaluated, completed, spent, twice>>

\* A request that waits for the anchors, the locks or its answer changes nothing
\* but what it remembers and the rows it holds.
LEMMA QuietKeeps ==
  ASSUME FactorsInv, NEW r, Quiet, OnlyMoves(r),
         pc' \in [Request -> Step], work' \in [Request -> Work],
         holder' \in [Pending -> Request \cup {Nobody}],
         \A token \in Pending : holder[token] \notin {r, Nobody} => holder'[token] = holder[token],
         expired' \in SUBSET Pending, expired \subseteq expired',
         reported' \in SUBSET {"row", "deletion", "factor"}, BookingsBlameNobody',
         r \in Request =>
           /\ pc'[r] # "evaluating"
           /\ OfRequest(r)'
           /\ work'[r].epoch <= seal.version /\ work'[r].components <= seal.version
           /\ \A q \in Request : q # r /\ pc[q] \in {"offered", "inserting"} =>
                work'[r].token # work[q].token
           /\ Proven(r)' => Proven(r) /\ work'[r].proof = work[r].proof
  PROVE  FactorsInv'
<1>1. /\ seal' = seal /\ factors' = factors /\ used' = used /\ rows' = rows /\ keyNow' = keyNow
      /\ evaluated' = evaluated /\ completed' = completed /\ spent' = spent /\ twice' = twice
  BY DEF Quiet, accountVars
<1>2. TypeOK'
  BY <1>1 DEF FactorsInv, TypeOK
<1>3. FreshInv'
  BY <1>1 DEF FactorsInv, FreshInv, OnlyMoves
<1>4. SameAccount /\ Apart(r)
  BY <1>1, HoldersKeep DEF SameAccount, Apart, RowStep
<1>5. ASSUME NEW q \in Request, q # r PROVE OfRequest(q)'
  <2>1. Proven(q) /\ r \in Request /\ Proven(r)' =>
          \A proof \in work[q].proof : proof \notin work'[r].proof
    BY <1>5 DEF FactorsInv, RequestInv, ProofOf
  <2>2. Disjoint(r, q)
    BY <1>1, <1>5, <2>1 DEF Disjoint
  <2> QED  BY <1>2, <1>4, <1>5, <2>2, OthersKeep DEF OfRequest
<1>6. RequestInv'
  BY <1>5 DEF RequestInv, OfRequest
<1>7. CountInv'
  <2>1. \A token \in Pending : Evaluating(token)' \subseteq Evaluating(token)
    BY DEF Evaluating, OnlyMoves
  <2>2. \A token \in Pending : /\ rows[token].attempts \in Nat
                               /\ rows[token].attempts <= MaximumPendingAttempts
    BY Types, RowFields DEF FactorsInv, CountInv
  <2>3. \A token \in Pending : rows[token].attempts <= rows'[token].attempts
    BY <1>1, <2>2
  <2> QED  BY <1>1, <1>2, <2>1, <2>2, <2>3, CountStays
<1>8. LastInv' /\ SpentInv'
  BY <1>1 DEF FactorsInv, LastInv, SpentInv, OneSessionPerProof
<1> QED  BY <1>2, <1>3, <1>6, <1>7, <1>8 DEF FactorsInv

-----------------------------------------------------------------------------
(* The actions.                                                            *)

\* A request that ends and gives back its rows, by losing its connection, by
\* rolling back, or refused.
LEMMA EndKeeps ==
  ASSUME FactorsInv, NEW r \in Request, Finish(r), Quiet,
         holder' = Released(r) \/ holder' = holder, expired' = expired,
         reported' = reported \/ reported' = reported \cup {"deletion"}
  PROVE  FactorsInv'
<1>1. /\ pc' \in [Request -> Step] /\ work' \in [Request -> Work]
      /\ pc'[r] = "idle" /\ work'[r] = NoWork /\ OnlyMoves(r)
  BY FinishMoves DEF FactorsInv
<1>2. /\ holder' \in [Pending -> Request \cup {Nobody}]
      /\ \A token \in Pending : holder[token] \notin {r, Nobody} => holder'[token] = holder[token]
  BY ReleaseFrees DEF FactorsInv, TypeOK
<1>3. OfRequest(r)'
  BY <1>1, IdleKeeps
<1>4. 0 <= seal.version
  BY Types DEF FactorsInv
<1>5. /\ work'[r].epoch <= seal.version /\ work'[r].components <= seal.version
      /\ work'[r].token = NoPending
  BY <1>1, <1>4, NoWorkType
<1>6. ~ Proven(r)' /\ pc'[r] # "evaluating"
  BY <1>1 DEF Proven
<1>7. \A q \in Request : pc[q] \in {"offered", "inserting"} => work[q].token \in Pending
  BY DEF FactorsInv, RequestInv, TokenOf
<1>8. /\ expired' \in SUBSET Pending /\ expired \subseteq expired'
      /\ reported' \in SUBSET {"row", "deletion", "factor"} /\ BookingsBlameNobody'
  BY DEF FactorsInv, TypeOK, LastInv, BookingsBlameNobody
<1> QED  BY <1>1, <1>2, <1>3, <1>5, <1>6, <1>7, <1>8, QuietKeeps, SecondFactorsAssumption

LEMMA CrashKeeps ==
  ASSUME FactorsInv, NEW r \in Request, Crash(r)
  PROVE  FactorsInv'
BY EndKeeps DEF Crash, Quiet, accountVars, history

\* The first factor names a token nobody has and reads the account's epoch.
LEMMA CheckFirstFactorKeeps ==
  ASSUME FactorsInv, NEW r \in Request, NEW token \in Pending, CheckFirstFactor(r, token)
  PROVE  FactorsInv'
<1> DEFINE w == [NoWork EXCEPT !.token = token, !.offered = Available, !.row.epoch = seal.epoch]
<1>1. /\ w \in Work /\ w.token = token /\ w.epoch = 0 /\ w.components = 0
      /\ w.row.attempts = 0 /\ w.proof = {}
  <2>1. seal.epoch \in Nat /\ Available \in SUBSET {"totp", "recovery"}
    BY Types DEF FactorsInv, Available
  <2> HIDE DEF FactorsInv
  <2> QED  BY <2>1 DEF NoWork, Unissued, NothingSeen, Seen, Work, Row
<1>2. work' = [work EXCEPT ![r] = w] /\ Goto(r, "offered")
  BY DEF CheckFirstFactor
<1> HIDE DEF w
<1>3. /\ pc' \in [Request -> Step] /\ work' \in [Request -> Work]
      /\ pc'[r] = "offered" /\ work'[r] = w /\ OnlyMoves(r)
  BY <1>1, <1>2, GotoMoves, WorkMoves, ZenonT(60) DEF FactorsInv, OnlyMoves, Step
<1>4. /\ Quiet /\ holder' = holder /\ expired' = expired /\ reported' = reported
      /\ rows[token] = Unissued /\ \A other \in Request : work[other].token # token
  BY DEF CheckFirstFactor, Quiet, accountVars, history
<1>5. /\ holder' \in [Pending -> Request \cup {Nobody}] /\ expired' \in SUBSET Pending
      /\ reported' \in SUBSET {"row", "deletion", "factor"} /\ BookingsBlameNobody'
  BY <1>4 DEF FactorsInv, TypeOK, LastInv, BookingsBlameNobody
<1>6. rows' = rows
  BY <1>4 DEF Quiet
<1>7. TokenOf(r)'
  BY <1>1, <1>3, <1>4, <1>6 DEF TokenOf, OnlyMoves
<1>8. OfRequest(r)' /\ ~ Proven(r)'
  BY <1>3, <1>7 DEF OfRequest, LockOf, BudgetOf, MoveOf, ProofOf, SeenOf, Proven
<1>9. work'[r].epoch <= seal.version /\ work'[r].components <= seal.version
  BY <1>1, <1>3, Types DEF FactorsInv
<1> QED  BY <1>1, <1>3, <1>4, <1>5, <1>8, <1>9, QuietKeeps

LEMMA ReadAccountStateKeeps ==
  ASSUME FactorsInv, NEW r \in Request, ReadAccountState(r)
  PROVE  FactorsInv'
<1> DEFINE row == [work[r].row EXCEPT !.generation = seal.attempt]
           w == [work[r] EXCEPT !.row = row]
<1>1. /\ row \in Row /\ row.attempts = work[r].row.attempts
  <2>1. ASSUME NEW old \in Row, NEW n \in Nat
        PROVE  [old EXCEPT !.generation = n] \in Row /\ [old EXCEPT !.generation = n].attempts = old.attempts
    BY DEF Row
  <2> QED  BY <2>1, Types DEF FactorsInv
<1>2. work' = [work EXCEPT ![r] = w] /\ Goto(r, "inserting") /\ pc[r] = "offered"
  BY DEF ReadAccountState
<1> HIDE DEF row
<1>3. /\ w \in Work /\ w.token = work[r].token /\ w.row = row
      /\ w.epoch = work[r].epoch /\ w.components = work[r].components
  BY <1>1, WorkFields, Types DEF FactorsInv
<1> HIDE DEF w
<1>4. /\ pc' \in [Request -> Step] /\ work' \in [Request -> Work]
      /\ pc'[r] = "inserting" /\ work'[r] = w /\ OnlyMoves(r)
  BY <1>2, <1>3, GotoMoves, WorkMoves DEF FactorsInv, OnlyMoves, Step
<1>5. Quiet /\ holder' = holder /\ expired' = expired /\ reported' = reported /\ rows' = rows
  BY DEF ReadAccountState, Quiet, accountVars, history
<1>6. /\ holder' \in [Pending -> Request \cup {Nobody}] /\ expired' \in SUBSET Pending
      /\ reported' \in SUBSET {"row", "deletion", "factor"} /\ BookingsBlameNobody'
  BY <1>5 DEF FactorsInv, TypeOK, LastInv, BookingsBlameNobody
<1>7. /\ work[r].token \in Pending /\ rows[work[r].token] = Unissued /\ work[r].row.attempts = 0
      /\ \A other \in Request : other # r => work[other].token # work[r].token
  BY <1>2 DEF FactorsInv, RequestInv, TokenOf
<1>8. TokenOf(r)'
  BY <1>1, <1>3, <1>4, <1>5, <1>7 DEF TokenOf, OnlyMoves
<1>9. OfRequest(r)' /\ ~ Proven(r)'
  BY <1>4, <1>8 DEF OfRequest, LockOf, BudgetOf, MoveOf, ProofOf, SeenOf, Proven
<1>10. work'[r].epoch <= seal.version /\ work'[r].components <= seal.version
  BY <1>3, <1>4 DEF FactorsInv, FreshInv
<1> QED  BY <1>3, <1>4, <1>5, <1>6, <1>7, <1>9, <1>10, QuietKeeps

\* The row booked last is never found a generation behind.
LEMMA NothingWrittenBack ==
  ASSUME FactorsInv, NEW token \in Pending
  PROVE  ~ WrittenBack(token, rows[token], SealRead)
BY DEF FactorsInv, LastInv, WrittenBack, SealRead

LEMMA PresentTokenKeeps ==
  ASSUME FactorsInv, NEW r \in Request, NEW token \in Pending, PresentToken(r, token)
  PROVE  FactorsInv'
<1> DEFINE w == [NoWork EXCEPT !.token = token, !.row = rows[token]]
<1>1. w \in Work /\ w.token = token /\ w.row = rows[token] /\ w.epoch = 0 /\ w.components = 0
  BY Types, NoWorkType DEF FactorsInv, NoWork, Work
<1>2. /\ pc[r] = "idle" /\ Present(token) /\ reported' = reported
      /\ Quiet /\ holder' = holder /\ expired' = expired /\ rows' = rows
      /\ \/ /\ Goto(r, "booking") /\ work' = [work EXCEPT ![r] = w]
            /\ rows[token].attempts < MaximumPendingAttempts
         \/ UNCHANGED <<pc, work>>
  BY NothingWrittenBack DEF PresentToken, Quiet, accountVars, Blame
<1> HIDE DEF w
<1>3. /\ holder' \in [Pending -> Request \cup {Nobody}] /\ expired' \in SUBSET Pending
      /\ reported' \in SUBSET {"row", "deletion", "factor"} /\ BookingsBlameNobody'
  BY <1>2 DEF FactorsInv, TypeOK, LastInv, BookingsBlameNobody
<1>4. CASE UNCHANGED <<pc, work>>
  <2>1. /\ pc' \in [Request -> Step] /\ work' \in [Request -> Work] /\ OnlyMoves(r)
        /\ pc'[r] = "idle" /\ work'[r] = work[r]
    BY <1>2, <1>4 DEF OnlyMoves, FactorsInv, TypeOK
  <2>2. OfRequest(r)' /\ ~ Proven(r)'
    BY <2>1, IdleKeeps DEF Proven
  <2>3. /\ work'[r].epoch <= seal.version /\ work'[r].components <= seal.version
        /\ \A q \in Request : q # r /\ pc[q] \in {"offered", "inserting"} =>
             work'[r].token # work[q].token
    BY <2>1 DEF FactorsInv, FreshInv, RequestInv, TokenOf
  <2> QED  BY <1>2, <1>3, <2>1, <2>2, <2>3, QuietKeeps
<1>5. CASE /\ Goto(r, "booking") /\ work' = [work EXCEPT ![r] = w]
           /\ rows[token].attempts < MaximumPendingAttempts
  <2>1. /\ pc' \in [Request -> Step] /\ work' \in [Request -> Work]
        /\ pc'[r] = "booking" /\ work'[r] = w /\ OnlyMoves(r)
    BY <1>1, <1>5, GotoMoves, WorkMoves, ZenonT(60) DEF FactorsInv, OnlyMoves, Step
  <2>2. OfRequest(r)' /\ ~ Proven(r)'
    BY <1>1, <1>2, <1>5, <2>1
    DEF OfRequest, TokenOf, LockOf, BudgetOf, MoveOf, ProofOf, SeenOf, Proven, Present
  <2>3. work'[r].epoch <= seal.version /\ work'[r].components <= seal.version
    BY <1>1, <2>1, Types DEF FactorsInv
  <2>4. \A q \in Request : pc[q] \in {"offered", "inserting"} => work[q].token # token
    BY <1>2 DEF FactorsInv, RequestInv, TokenOf, Present, Unissued
  <2> QED  BY <1>1, <1>2, <1>3, <2>1, <2>2, <2>3, <2>4, QuietKeeps
<1> QED  BY <1>2, <1>4, <1>5

\* A request that keeps what it remembers goes on to a step it owes nothing new at.
LEMMA GoesOn ==
  ASSUME FactorsInv, NEW r \in Request, NEW step \in Step, Goto(r, step), Quiet,
         work' = work, expired' = expired, reported' = reported,
         holder' \in [Pending -> Request \cup {Nobody}],
         \A token \in Pending : holder[token] \notin {r, Nobody} => holder'[token] = holder[token],
         step # "evaluating", OfRequest(r)', Proven(r)' => Proven(r)
  PROVE  FactorsInv'
<1>1. /\ pc' \in [Request -> Step] /\ work' \in [Request -> Work] /\ pc'[r] = step /\ OnlyMoves(r)
  BY GotoMoves DEF FactorsInv, OnlyMoves, TypeOK
<1>2. /\ work[r].epoch <= seal.version /\ work[r].components <= seal.version
      /\ \A q \in Request : q # r /\ pc[q] \in {"offered", "inserting"} =>
           work[r].token # work[q].token
  BY DEF FactorsInv, FreshInv, RequestInv, TokenOf
<1>3. /\ expired' \in SUBSET Pending /\ reported' \in SUBSET {"row", "deletion", "factor"} /\ BookingsBlameNobody'
  BY DEF FactorsInv, TypeOK, LastInv, BookingsBlameNobody
<1> QED  BY <1>1, <1>2, <1>3, QuietKeeps

LEMMA BookRowKeeps ==
  ASSUME FactorsInv, NEW r \in Request, BookRow(r)
  PROVE  FactorsInv'
<1>1. /\ pc[r] = "booking" /\ Unmoved(r) /\ Unlocked(work[r].token)
      /\ holder' = [holder EXCEPT ![work[r].token] = r] /\ Goto(r, "booked")
      /\ Quiet /\ work' = work /\ rows' = rows /\ expired' = expired /\ reported' = reported
  BY DEF BookRow, Quiet, accountVars, history
<1>2. work[r].token \in Pending /\ TokenOf(r) /\ BudgetOf(r)
  BY <1>1 DEF FactorsInv, RequestInv, TokenOf
<1>3. /\ holder' \in [Pending -> Request \cup {Nobody}] /\ holder'[work[r].token] = r
      /\ \A token \in Pending : holder[token] \notin {r, Nobody} => holder'[token] = holder[token]
  BY <1>1, <1>2 DEF FactorsInv, TypeOK, Unlocked
<1>4. pc'[r] = "booked" /\ \A q \in Request : q # r => pc'[q] = pc[q]
  BY <1>1, GotoMoves DEF FactorsInv, Step
<1>5. OfRequest(r)' /\ ~ Proven(r)'
  BY <1>1, <1>2, <1>3, <1>4
  DEF OfRequest, TokenOf, LockOf, BudgetOf, MoveOf, ProofOf, SeenOf, Proven, Unmoved, Present
<1> QED  BY <1>1, <1>3, <1>4, <1>5, GoesOn DEF Step

\* A booking misses a row that is not what it read: it has advanced or is gone.
LEMMA MissRowKeeps ==
  ASSUME FactorsInv, NEW r \in Request, MissRow(r)
  PROVE  FactorsInv'
<1>1. /\ pc[r] \in {"booking", "unsealed"}
      /\ ~ Unmoved(r) \/ work[r].token \in expired
      /\ Goto(r, "missed") /\ holder' = holder
      /\ Quiet /\ work' = work /\ rows' = rows /\ expired' = expired /\ reported' = reported
  BY DEF MissRow, Quiet, accountVars, history
<1>2. TokenOf(r) /\ MoveOf(r)
  BY DEF FactorsInv, RequestInv
<1>3. pc'[r] = "missed" /\ \A q \in Request : q # r => pc'[q] = pc[q]
  BY <1>1, GotoMoves DEF FactorsInv, Step
<1>4. TokenOf(r)'
  BY <1>1, <1>2, <1>3 DEF TokenOf
<1>5. MoveOf(r)'
  BY <1>1, <1>2, <1>3 DEF MoveOf, Unmoved, Present, Advanced
<1>6. OfRequest(r)' /\ ~ Proven(r)'
  BY <1>3, <1>4, <1>5 DEF OfRequest, LockOf, BudgetOf, ProofOf, SeenOf, Proven
<1>7. holder' \in [Pending -> Request \cup {Nobody}]
  BY <1>1 DEF FactorsInv, TypeOK
<1> QED  BY <1>1, <1>6, <1>7, GoesOn DEF Step

\* The seal refuses the booking.
LEMMA RefuseSealKeeps ==
  ASSUME FactorsInv, NEW r \in Request, RefuseSeal(r)
  PROVE  FactorsInv'
<1>1. /\ pc[r] = "booked" /\ holder' = Released(r) /\ Goto(r, "unsealed")
      /\ Quiet /\ work' = work /\ rows' = rows /\ expired' = expired /\ reported' = reported
  BY DEF RefuseSeal, Quiet, accountVars, history
<1>2. TokenOf(r) /\ LockOf(r) /\ BudgetOf(r)
  BY DEF FactorsInv, RequestInv
<1>3. pc'[r] = "unsealed" /\ \A q \in Request : q # r => pc'[q] = pc[q]
  BY <1>1, GotoMoves DEF FactorsInv, Step
<1>4. /\ holder' \in [Pending -> Request \cup {Nobody}]
      /\ \A token \in Pending : holder[token] \notin {r, Nobody} => holder'[token] = holder[token]
  BY <1>1, ReleaseFrees DEF FactorsInv
<1>5. OfRequest(r)' /\ ~ Proven(r)'
  BY <1>1, <1>2, <1>3
  DEF OfRequest, TokenOf, LockOf, BudgetOf, MoveOf, ProofOf, SeenOf, Proven, Present
<1> QED  BY <1>1, <1>4, <1>5, GoesOn DEF Step

\* A booking that finds the generation moved rolls back; it moved with another row.
LEMMA RollBackBookingKeeps ==
  ASSUME FactorsInv, NEW r \in Request, RollBackBooking(r)
  PROVE  FactorsInv'
<1>1. /\ pc[r] = "booked" /\ work[r].row.generation # seal.attempt
      /\ reported' = reported \cup (IF seal.last = work[r].token THEN {"row"} ELSE {})
      /\ holder' = Released(r) /\ Finish(r) /\ Quiet /\ expired' = expired
  BY DEF RollBackBooking, Quiet, accountVars
<1>2. work[r].token \in Pending /\ rows[work[r].token] = work[r].row
  BY <1>1 DEF FactorsInv, RequestInv, TokenOf, LockOf
<1>3. reported' = reported
  BY <1>1, <1>2 DEF FactorsInv, LastInv
<1> QED  BY <1>1, <1>3, EndKeeps

\* A missed booking follows the row it finds.
LEMMA RereadRowKeeps ==
  ASSUME FactorsInv, NEW r \in Request, RereadRow(r)
  PROVE  FactorsInv'
<1> DEFINE token == work[r].token
           w == [work[r] EXCEPT !.row = rows[token]]
<1>1. pc[r] = "missed" /\ token \in Pending /\ MoveOf(r) /\ TokenOf(r)
  BY DEF FactorsInv, RequestInv, TokenOf, RereadRow
<1>2. Present(token) /\ token \notin expired => Advanced(work[r].row, rows[token])
  BY <1>1 DEF MoveOf
<1>3. reported' = reported
  BY <1>1, <1>2, NothingWrittenBack DEF RereadRow
<1>4. /\ Quiet /\ holder' = holder /\ expired' = expired /\ rows' = rows
      /\ \/ Finish(r)
         \/ /\ Goto(r, "booking") /\ work' = [work EXCEPT ![r] = w] /\ Present(token)
            /\ rows[token].attempts < MaximumPendingAttempts
  BY DEF RereadRow, Quiet, accountVars
<1>5. CASE Finish(r)
  BY <1>3, <1>4, <1>5, EndKeeps
<1>6. CASE /\ Goto(r, "booking") /\ work' = [work EXCEPT ![r] = w] /\ Present(token)
           /\ rows[token].attempts < MaximumPendingAttempts
  <2>1. /\ w \in Work /\ w.token = token /\ w.row = rows[token]
        /\ w.epoch = work[r].epoch /\ w.components = work[r].components
    BY <1>1, WorkFields, Types DEF FactorsInv
  <2>2. /\ pc' \in [Request -> Step] /\ work' \in [Request -> Work]
        /\ pc'[r] = "booking" /\ work'[r] = w /\ OnlyMoves(r)
    BY <1>6, <2>1, GotoMoves, WorkMoves DEF FactorsInv, OnlyMoves, Step
  <2> HIDE DEF w
  <2>3. OfRequest(r)' /\ ~ Proven(r)'
    BY <1>1, <1>4, <1>6, <2>1, <2>2
    DEF OfRequest, TokenOf, LockOf, BudgetOf, MoveOf, ProofOf, SeenOf, Proven, Present
  <2>4. /\ work'[r].epoch <= seal.version /\ work'[r].components <= seal.version
        /\ \A q \in Request : q # r /\ pc[q] \in {"offered", "inserting"} =>
             work'[r].token # work[q].token
    BY <2>1, <2>2 DEF FactorsInv, FreshInv, RequestInv, TokenOf
  <2>5. /\ holder' \in [Pending -> Request \cup {Nobody}] /\ expired' \in SUBSET Pending
        /\ reported' \in SUBSET {"row", "deletion", "factor"} /\ BookingsBlameNobody'
    BY <1>3, <1>4 DEF FactorsInv, TypeOK, LastInv, BookingsBlameNobody
  <2> QED  BY <1>4, <2>2, <2>3, <2>4, <2>5, QuietKeeps
<1> QED  BY <1>4, <1>5, <1>6

\* A request whose proof stands is still the one that holds it when it has only
\* gone on to another step of the completion.
LEMMA CompletionKeepsProof ==
  ASSUME FactorsInv, NEW r \in Request, pc[r] \in {"verified", "consuming"},
         pc'[r] \in {"consuming", "consumed"}, \A q \in Request : q # r => pc'[q] = pc[q],
         seal' = seal, factors' = factors, used' = used, spent' = spent,
         \A q \in Request : /\ work'[q].proof = work[q].proof
                            /\ work'[q].components = work[q].components
  PROVE  ProofOf(r)' /\ (Proven(r)' => Proven(r))
<1>1. ProofOf(r)
  BY DEF FactorsInv, RequestInv
<1>2. Proven(r)' => Proven(r)
  BY DEF Proven, Fresh
<1>3. ASSUME Proven(r), NEW other \in Request, Proven(other)', other # r
      PROVE  Proven(other)
  BY <1>3 DEF Proven, Fresh
<1>4. ASSUME Proven(r), NEW proof \in work[r].proof
      PROVE  /\ Held(proof)'
             /\ proof.factor = "totp" => proof.of # 0 /\ proof.is \in used'
             /\ proof.factor = "recovery" => proof.is \notin factors'.codes
             /\ proof \notin spent'
             /\ \A other \in Request :
                  Proven(other)' /\ other # r => proof \notin work'[other].proof
  BY <1>1, <1>3, <1>4 DEF ProofOf, Held
<1>5. ProofOf(r)'
  BY <1>2, <1>4 DEF ProofOf
<1> QED  BY <1>2, <1>5

\* The deletion begins with the seal as it is.
LEMMA BeginConsumeKeeps ==
  ASSUME FactorsInv, NEW r \in Request, BeginConsume(r)
  PROVE  FactorsInv'
<1> DEFINE token == work[r].token
           w == [work[r] EXCEPT !.seen = SealRead]
<1>1. pc[r] = "verified" /\ token \in Pending /\ TokenOf(r)
  BY DEF FactorsInv, RequestInv, TokenOf, BeginConsume
<1>2. /\ Quiet /\ expired' = expired /\ rows' = rows /\ seal' = seal /\ reported' = reported
      /\ holder' = holder
      /\ Finish(r) \/ (Goto(r, "consuming") /\ work' = [work EXCEPT ![r] = w])
  BY DEF BeginConsume, Quiet, accountVars, history
<1>3. CASE Finish(r)
  BY <1>2, <1>3, EndKeeps
<1>4. CASE Goto(r, "consuming") /\ work' = [work EXCEPT ![r] = w]
  <2>1. SealRead \in Seen /\ SealRead.epoch = seal.epoch /\ SealRead.attempt = seal.attempt
        /\ SealRead.last = seal.last
    BY Types DEF FactorsInv, SealRead, Seen
  <2>2. /\ w \in Work /\ w.token = token /\ w.row = work[r].row /\ w.epoch = work[r].epoch
        /\ w.components = work[r].components /\ w.proof = work[r].proof
        /\ w.seen.epoch = seal.epoch /\ w.seen.attempt = seal.attempt /\ w.seen.last = seal.last
    <3>1. ASSUME NEW seen \in Seen
          PROVE  LET v == [work[r] EXCEPT !.seen = seen]
                 IN  /\ v \in Work /\ v.token = work[r].token /\ v.row = work[r].row
                     /\ v.epoch = work[r].epoch /\ v.components = work[r].components
                     /\ v.proof = work[r].proof /\ v.seen = seen
      <4>1. work[r] \in Work
        BY Types DEF FactorsInv
      <4> QED  BY <4>1 DEF Work
    <3> HIDE DEF w
    <3>2. w = [work[r] EXCEPT !.seen = SealRead]
      BY DEF w
    <3> QED  BY <2>1, <3>1, <3>2
  <2> HIDE DEF w
  <2>3. /\ pc' \in [Request -> Step] /\ work' \in [Request -> Work]
        /\ pc'[r] = "consuming" /\ work'[r] = w /\ OnlyMoves(r)
    BY <1>4, <2>2, GotoMoves, WorkMoves DEF FactorsInv, OnlyMoves, Step
  <2>4. TokenOf(r)' /\ LockOf(r)' /\ BudgetOf(r)' /\ MoveOf(r)'
    BY <1>1, <1>2, <2>2, <2>3 DEF TokenOf, LockOf, BudgetOf, MoveOf
  <2>5. SeenOf(r)'
    <3>1. /\ seal.attempt \in Nat /\ seal.version \in Nat /\ seal.attempt <= seal.version
          /\ seal.last = token => rows[token].generation = seal.attempt
      BY <1>1, Types DEF FactorsInv, FreshInv, LastInv
    <3> QED  BY <1>2, <2>2, <2>3, <3>1 DEF SeenOf
  <2>6. ProofOf(r)' /\ (Proven(r)' => Proven(r))
    <3>1. \A q \in Request : /\ work'[q].proof = work[q].proof
                             /\ work'[q].components = work[q].components
      BY <2>2, <2>3 DEF OnlyMoves
    <3>2. factors' = factors /\ used' = used /\ spent' = spent
      BY <1>2 DEF Quiet, accountVars
    <3> QED  BY <1>1, <1>2, <2>3, <3>1, <3>2, CompletionKeepsProof DEF OnlyMoves
  <2>7. OfRequest(r)'
    BY <2>4, <2>5, <2>6 DEF OfRequest
  <2>8. /\ work'[r].epoch <= seal.version /\ work'[r].components <= seal.version
        /\ \A q \in Request : q # r /\ pc[q] \in {"offered", "inserting"} =>
             work'[r].token # work[q].token
    BY <2>2, <2>3 DEF FactorsInv, FreshInv, RequestInv, TokenOf
  <2>9. /\ holder' \in [Pending -> Request \cup {Nobody}] /\ expired' \in SUBSET Pending
        /\ reported' \in SUBSET {"row", "deletion", "factor"} /\ BookingsBlameNobody'
    BY <1>2 DEF FactorsInv, TypeOK, LastInv, BookingsBlameNobody
  <2>10. pc'[r] # "evaluating" /\ work'[r].proof = work[r].proof
    BY <2>2, <2>3
  <2> QED  BY <1>2, <2>3, <2>6, <2>7, <2>8, <2>9, <2>10, QuietKeeps
<1> QED  BY <1>2, <1>3, <1>4

\* The row is locked until the session is issued, and is of the epoch the
\* deletion read.
LEMMA ConsumePendingKeeps ==
  ASSUME FactorsInv, NEW r \in Request, ConsumePending(r)
  PROVE  FactorsInv'
<1> DEFINE token == work[r].token
<1>1. pc[r] = "consuming" /\ token \in Pending /\ TokenOf(r) /\ SeenOf(r)
  BY DEF FactorsInv, RequestInv, TokenOf, ConsumePending
<1>2. /\ Unlocked(token) /\ Quiet /\ expired' = expired /\ rows' = rows /\ seal' = seal
      /\ \/ /\ Finish(r) /\ holder' = holder
            /\ reported' = reported \/ reported' = reported \cup {"deletion"}
         \/ /\ holder' = [holder EXCEPT ![token] = r] /\ Goto(r, "consumed") /\ work' = work
            /\ Present(token) /\ Current(rows[token], work[r].seen) /\ reported' = reported
  BY DEF ConsumePending, Quiet, accountVars, Current, WrittenBack
<1>3. CASE /\ Finish(r) /\ holder' = holder
           /\ reported' = reported \/ reported' = reported \cup {"deletion"}
  BY <1>2, <1>3, EndKeeps
<1>4. CASE /\ holder' = [holder EXCEPT ![token] = r] /\ Goto(r, "consumed") /\ work' = work
           /\ Present(token) /\ Current(rows[token], work[r].seen) /\ reported' = reported
  <2>1. /\ holder' \in [Pending -> Request \cup {Nobody}] /\ holder'[token] = r
        /\ \A other \in Pending : holder[other] \notin {r, Nobody} => holder'[other] = holder[other]
    BY <1>1, <1>2, <1>4 DEF FactorsInv, TypeOK, Unlocked
  <2>2. pc'[r] = "consumed" /\ \A q \in Request : q # r => pc'[q] = pc[q]
    BY <1>4, GotoMoves DEF FactorsInv, Step
  <2>3. /\ factors' = factors /\ used' = used /\ spent' = spent
    BY <1>2 DEF Quiet, accountVars
  <2>4. TokenOf(r)' /\ LockOf(r)' /\ BudgetOf(r)' /\ MoveOf(r)' /\ SeenOf(r)'
    BY <1>1, <1>2, <1>4, <2>1, <2>2
    DEF TokenOf, LockOf, BudgetOf, MoveOf, SeenOf, Present, Current
  <2>5. ProofOf(r)' /\ (Proven(r)' => Proven(r))
    BY <1>1, <1>2, <1>4, <2>2, <2>3, CompletionKeepsProof
  <2>6. OfRequest(r)'
    BY <2>4, <2>5 DEF OfRequest
  <2> QED  BY <1>2, <1>4, <2>1, <2>5, <2>6, GoesOn DEF Step
<1> QED  BY <1>2, <1>3, <1>4

\* A step keeps the invariant if it keeps that of the request it moves and of
\* the account, and stays apart from the others.
LEMMA StepKeeps ==
  ASSUME FactorsInv, TypeOK', NEW r, Apart(r),
         \A q \in Request : q # r => Disjoint(r, q),
         r \in Request => OfRequest(r)',
         FreshInv', CountInv', LastInv', SpentInv'
  PROVE  FactorsInv'
<1>1. ASSUME NEW q \in Request PROVE OfRequest(q)'
  <2>1. CASE q = r
    BY <2>1
  <2>2. CASE q # r
    BY <2>2, OthersKeep DEF OfRequest
  <2> QED  BY <2>1, <2>2
<1> QED  BY <1>1 DEF FactorsInv, RequestInv, OfRequest

\* A pending row ends: cancelled, with its last attempt, or with the session
\* that is issued for it.
LEMMA RowEndKeeps ==
  ASSUME FactorsInv, NEW r, NEW token \in Pending, Present(token), holder[token] \in {r, Nobody},
         rows' = [rows EXCEPT ![token].life = "gone"],
         UNCHANGED <<accountVars, keyNow, evaluated, expired, reported>>,
         OnlyMoves(r), pc' \in [Request -> Step], work' \in [Request -> Work],
         r \in Request => pc'[r] = "idle" /\ work'[r] = NoWork,
         holder' \in [Pending -> Request \cup {Nobody}],
         \A other \in Pending : holder[other] \notin {r, Nobody} => holder'[other] = holder[other],
         \/ completed' = completed /\ spent' = spent
         \/ /\ r \in Request /\ Proven(r)
            /\ completed' = completed \cup {token} /\ spent' = spent \cup work[r].proof,
         twice' = FALSE
  PROVE  FactorsInv'
<1> DEFINE row == [rows[token] EXCEPT !.life = "gone"]
<1>1. /\ row \in Row /\ row.life = "gone" /\ row.attempts = rows[token].attempts
      /\ row.generation = rows[token].generation
  BY Types, RowEnds DEF FactorsInv
<1> HIDE DEF row
<1>2. rows' = [rows EXCEPT ![token] = row]
  BY DEF row
<1>3. /\ rows' \in [Pending -> Row] /\ rows'[token] = row
      /\ \A other \in Pending : other # token => rows'[other] = rows[other]
  BY <1>1, <1>2, RowReplaced DEF FactorsInv
<1>4. /\ seal' = seal /\ factors' = factors /\ used' = used /\ keyNow' = keyNow
      /\ evaluated' = evaluated /\ expired' = expired /\ reported' = reported
  BY DEF accountVars
<1>5. \A proof \in spent' :
        proof \in spent \/ (r \in Request /\ Proven(r) /\ proof \in work[r].proof)
  <2>1. CASE spent' = spent
    BY <2>1
  <2>2. CASE r \in Request /\ Proven(r) /\ spent' = spent \cup work[r].proof
    BY <2>2
  <2> QED  BY <2>1, <2>2
<1>6. TypeOK'
  <2>1. spent' \subseteq Proof
    <3>1. spent \subseteq Proof /\ (r \in Request => work[r].proof \subseteq Proof)
      BY Types DEF FactorsInv, TypeOK
    <3> QED  BY <1>5, <3>1
  <2>2. completed' \subseteq Pending
    BY DEF FactorsInv, TypeOK
  <2> QED  BY <1>3, <1>4, <2>1, <2>2, ZenonT(60) DEF FactorsInv, TypeOK
<1>7. Apart(r)
  <2>1. \A q \in Request : q # r /\ pc[q] \in {"booked", "consumed"} =>
          work[q].token \in Pending /\ holder[work[q].token] \notin {r, Nobody}
    BY HoldersKeep
  <2> QED  BY <1>1, <1>3, <1>4, <2>1 DEF Apart, RowStep, SameAccount
<1>8. ASSUME NEW q \in Request, q # r PROVE Disjoint(r, q)
  <2>1. pc[q] \in {"offered", "inserting"} => work[q].token \in Pending
    BY DEF FactorsInv, RequestInv, TokenOf
  <2>2. r \in Request => work'[r].token = NoPending /\ ~ Proven(r)'
    BY NoWorkType DEF Proven
  <2>3. Proven(q) => \A proof \in work[q].proof : proof \notin spent' \ spent
    BY <1>5, <1>8 DEF FactorsInv, RequestInv, ProofOf
  <2> QED  BY <2>1, <2>2, <2>3, SecondFactorsAssumption DEF Disjoint
<1>9. r \in Request => OfRequest(r)'
  BY IdleKeeps
<1>10. FreshInv'
  <2>1. 0 <= seal.version
    BY Types DEF FactorsInv
  <2>2. \A q \in Request : work'[q].epoch <= seal.version /\ work'[q].components <= seal.version
    BY <2>1, NoWorkType DEF FactorsInv, FreshInv, OnlyMoves
  <2>3. ASSUME NEW proof \in spent' PROVE proof.of <= seal.version
    <3>1. CASE proof \in spent
      BY <3>1 DEF FactorsInv, FreshInv
    <3>2. CASE r \in Request /\ Proven(r) /\ proof \in work[r].proof
      <4>1. Held(proof)
        BY <3>2 DEF FactorsInv, RequestInv, ProofOf
      <4> QED  BY <4>1 DEF FactorsInv, FreshInv, Held
    <3> QED  BY <1>5, <3>1, <3>2
  <2> QED  BY <1>4, <2>2, <2>3 DEF FactorsInv, FreshInv
<1>11. CountInv'
  <2>1. \A other \in Pending : Evaluating(other)' \subseteq Evaluating(other)
    BY DEF Evaluating, OnlyMoves
  <2>2. \A other \in Pending : /\ rows[other].attempts \in Nat
                               /\ rows[other].attempts <= MaximumPendingAttempts
                               /\ rows'[other].attempts = rows[other].attempts
    BY <1>1, <1>3, Types, RowFields DEF FactorsInv, CountInv
  <2>3. \A other \in Pending : rows[other].attempts <= rows'[other].attempts
    BY <2>2
  <2> QED  BY <1>4, <1>6, <2>1, <2>2, <2>3, CountStays
<1>12. LastInv'
  BY <1>1, <1>3, <1>4 DEF FactorsInv, LastInv, BookingsBlameNobody
<1>13. SpentInv'
  <2>1. \A other \in completed' : rows'[other].life = "gone"
    BY <1>1, <1>3 DEF FactorsInv, SpentInv, TypeOK
  <2>2. ASSUME NEW proof \in spent'
        PROVE  /\ proof.factor = "totp" => proof.of # 0
               /\ proof.factor = "totp" /\ proof.of = factors.secret => proof.is \in used
               /\ proof.factor = "recovery" /\ proof.of = factors.set => proof.is \notin factors.codes
    <3>1. CASE proof \in spent
      BY <3>1 DEF FactorsInv, SpentInv
    <3>2. CASE r \in Request /\ Proven(r) /\ proof \in work[r].proof
      BY <3>2 DEF FactorsInv, RequestInv, ProofOf
    <3> QED  BY <1>5, <3>1, <3>2
  <2> QED  BY <1>4, <2>1, <2>2 DEF SpentInv, OneSessionPerProof
<1> QED  BY <1>6, <1>7, <1>8, <1>9, <1>10, <1>11, <1>12, <1>13, StepKeeps

LEMMA CancelKeeps ==
  ASSUME FactorsInv, NEW token \in Pending, Cancel(token)
  PROVE  FactorsInv'
<1>1. /\ Present(token) /\ holder[token] \in {Nobody}
      /\ rows' = [rows EXCEPT ![token].life = "gone"]
      /\ UNCHANGED <<accountVars, keyNow, evaluated, expired, reported>>
      /\ pc' = pc /\ work' = work /\ holder' = holder /\ completed' = completed /\ spent' = spent
      /\ twice' = twice
  BY DEF Cancel, Unlocked, history
<1>2. /\ OnlyMoves(Nobody) /\ pc' \in [Request -> Step] /\ work' \in [Request -> Work]
      /\ holder' \in [Pending -> Request \cup {Nobody}]
  BY <1>1 DEF OnlyMoves, FactorsInv, TypeOK
<1>3. twice' = FALSE
  BY <1>1 DEF FactorsInv, SpentInv, OneSessionPerProof, TypeOK
<1> QED  BY <1>1, <1>2, <1>3, RowEndKeeps, SecondFactorsAssumption

\* The last attempt takes the row with it.
LEMMA FailAttemptKeeps ==
  ASSUME FactorsInv, NEW r \in Request, FailAttempt(r)
  PROVE  FactorsInv'
<1> DEFINE token == work[r].token
<1>1. /\ pc[r] = "failed" /\ token \in Pending
      /\ Finish(r) /\ UNCHANGED <<accountVars, expired, holder, keyNow, history>>
      /\ \/ rows' = rows
         \/ /\ Unlocked(token) /\ Present(token)
            /\ rows' = [rows EXCEPT ![token].life = "gone"]
  BY DEF FactorsInv, RequestInv, TokenOf, FailAttempt, Deleted
<1>2. CASE rows' = rows
  BY <1>1, <1>2, EndKeeps DEF Quiet, accountVars, history
<1>3. CASE /\ Unlocked(token) /\ Present(token)
           /\ rows' = [rows EXCEPT ![token].life = "gone"]
  <2>1. /\ UNCHANGED <<accountVars, keyNow, evaluated, expired, reported>>
        /\ holder' = holder /\ completed' = completed /\ spent' = spent /\ twice' = twice
        /\ holder[token] \in {r, Nobody}
    BY <1>1, <1>3 DEF history, Unlocked
  <2>2. /\ OnlyMoves(r) /\ pc' \in [Request -> Step] /\ work' \in [Request -> Work]
        /\ pc'[r] = "idle" /\ work'[r] = NoWork
    BY <1>1, FinishMoves DEF FactorsInv
  <2>3. twice' = FALSE /\ holder' \in [Pending -> Request \cup {Nobody}]
    BY <2>1 DEF FactorsInv, SpentInv, OneSessionPerProof, TypeOK
  <2> HIDE DEF token
  <2> QED  BY <1>1, <1>3, <2>1, <2>2, <2>3, RowEndKeeps
<1> QED  BY <1>1, <1>2, <1>3

\* The session is issued for a row that is still there, on a proof that stood
\* for nothing before.
LEMMA IssueSessionKeeps ==
  ASSUME FactorsInv, NEW r \in Request, IssueSession(r)
  PROVE  FactorsInv'
<1> DEFINE token == work[r].token
<1>1. /\ pc[r] = "consumed" /\ token \in Pending /\ holder[token] = r /\ Present(token)
      /\ ProofOf(r)
  BY DEF FactorsInv, RequestInv, TokenOf, LockOf, IssueSession
<1>2. /\ holder' = Released(r) /\ Finish(r)
      /\ UNCHANGED <<accountVars, expired, keyNow, evaluated, reported>>
      /\ \/ UNCHANGED <<rows, completed, spent, twice>>
         \/ /\ Authorised(r) /\ rows' = [rows EXCEPT ![token].life = "gone"]
            /\ completed' = completed \cup {token} /\ spent' = spent \cup work[r].proof
            /\ twice' = (twice \/ token \in completed \/ work[r].proof \cap spent # {})
  BY DEF IssueSession
<1>3. CASE UNCHANGED <<rows, completed, spent, twice>>
  BY <1>2, <1>3, EndKeeps DEF Quiet, accountVars
<1>4. CASE /\ Authorised(r) /\ rows' = [rows EXCEPT ![token].life = "gone"]
           /\ completed' = completed \cup {token} /\ spent' = spent \cup work[r].proof
           /\ twice' = (twice \/ token \in completed \/ work[r].proof \cap spent # {})
  <2>1. Proven(r)
    BY <1>1, <1>4 DEF Authorised, Proven, Fresh
  <2>2. token \notin completed /\ work[r].proof \cap spent = {} /\ ~ twice
    BY <1>1, <2>1 DEF ProofOf, FactorsInv, SpentInv, OneSessionPerProof, Present
  <2>3. twice' = FALSE
    BY <1>4, <2>2
  <2>4. /\ OnlyMoves(r) /\ pc' \in [Request -> Step] /\ work' \in [Request -> Work]
        /\ pc'[r] = "idle" /\ work'[r] = NoWork
    BY <1>2, FinishMoves DEF FactorsInv
  <2>5. /\ holder' \in [Pending -> Request \cup {Nobody}]
        /\ \A other \in Pending : holder[other] \notin {r, Nobody} => holder'[other] = holder[other]
    BY <1>2, ReleaseFrees DEF FactorsInv
  <2> HIDE DEF token
  <2> QED  BY <1>1, <1>2, <1>4, <2>1, <2>3, <2>4, <2>5, RowEndKeeps
<1> QED  BY <1>2, <1>3, <1>4

\* The pending row is inserted under the token only this request has, or deleted
\* at once.
LEMMA InsertPendingKeeps ==
  ASSUME FactorsInv, NEW r \in Request, InsertPending(r)
  PROVE  FactorsInv'
<1> DEFINE token == work[r].token
           inserted == [work[r].row EXCEPT !.life = "present", !.key = keyNow]
<1>1. /\ pc[r] = "inserting" /\ token \in Pending /\ rows[token] = Unissued
      /\ work[r].row.attempts = 0
      /\ \A other \in Request : other # r => work[other].token # token
  BY DEF FactorsInv, RequestInv, TokenOf, InsertPending
<1>2. PICK row \in {inserted, [inserted EXCEPT !.life = "gone"]} : rows' = [rows EXCEPT ![token] = row]
  BY DEF InsertPending
<1>3. /\ row \in Row /\ row.life # "unissued" /\ row.attempts = 0
  <2>1. ASSUME NEW old \in Row, NEW n \in Nat, NEW life \in {"present", "gone"}
        PROVE  LET new == [old EXCEPT !.life = life, !.key = n]
               IN  new \in Row /\ new.life = life /\ new.attempts = old.attempts
    BY DEF Row
  <2>2. work[r].row \in Row /\ keyNow \in Nat
    BY Types DEF FactorsInv, TypeOK
  <2>3. inserted \in Row /\ inserted.life = "present" /\ inserted.attempts = 0
    BY <1>1, <2>1, <2>2
  <2> HIDE DEF inserted
  <2> DEFINE ended == [inserted EXCEPT !.life = "gone"]
  <2>4. ended \in Row /\ ended.life = "gone" /\ ended.attempts = inserted.attempts
    BY <2>3, RowEnds, Zenon
  <2> HIDE DEF ended
  <2>5. row = inserted \/ row = ended
    BY DEF ended
  <2> QED  BY <2>3, <2>4, <2>5
<1>4. /\ Finish(r)
      /\ UNCHANGED <<accountVars, expired, holder, keyNow, evaluated, completed, spent, twice>>
      /\ reported' \in SUBSET {"row", "deletion", "factor"} /\ BookingsBlameNobody'
  BY DEF InsertPending, FactorsInv, TypeOK, LastInv, BookingsBlameNobody
<1> HIDE DEF inserted
<1>5. /\ rows' \in [Pending -> Row] /\ rows'[token] = row
      /\ \A other \in Pending : other # token => rows'[other] = rows[other]
  BY <1>1, <1>2, <1>3, RowReplaced DEF FactorsInv
<1>6. /\ pc' \in [Request -> Step] /\ work' \in [Request -> Work]
      /\ pc'[r] = "idle" /\ work'[r] = NoWork /\ OnlyMoves(r)
  BY <1>4, FinishMoves DEF FactorsInv
<1>7. /\ seal' = seal /\ factors' = factors /\ used' = used /\ keyNow' = keyNow
      /\ evaluated' = evaluated /\ expired' = expired /\ holder' = holder
      /\ completed' = completed /\ spent' = spent /\ twice' = twice
  BY <1>4 DEF accountVars
<1>8. TypeOK'
  BY <1>4, <1>5, <1>6, <1>7 DEF FactorsInv, TypeOK
<1>9. Apart(r)
  <2>1. \A q \in Request : q # r /\ pc[q] \in {"booked", "consumed"} =>
          work[q].token \in Pending /\ work[q].token # token
    BY <1>1, HoldersKeep
  <2> QED  BY <1>1, <1>3, <1>5, <1>6, <1>7, <2>1 DEF Apart, RowStep, SameAccount
<1>10. ASSUME NEW q \in Request, q # r PROVE Disjoint(r, q)
  <2>1. pc[q] \in {"offered", "inserting"} => work[q].token \in Pending
    BY DEF FactorsInv, RequestInv, TokenOf
  <2>2. work'[r].token = NoPending /\ ~ Proven(r)'
    BY <1>6, NoWorkType DEF Proven
  <2> QED  BY <1>7, <2>1, <2>2, SecondFactorsAssumption DEF Disjoint
<1>11. OfRequest(r)'
  BY <1>6, IdleKeeps
<1>12. FreshInv'
  <2>1. 0 <= seal.version
    BY Types DEF FactorsInv
  <2> QED  BY <1>6, <1>7, <2>1, NoWorkType DEF FactorsInv, FreshInv, OnlyMoves
<1>13. CountInv'
  <2>1. \A other \in Pending : Evaluating(other)' \subseteq Evaluating(other)
    BY <1>6 DEF Evaluating, OnlyMoves
  <2>2. \A other \in Pending : /\ rows[other].attempts \in Nat
                               /\ rows[other].attempts <= MaximumPendingAttempts
    BY Types, RowFields DEF FactorsInv, CountInv
  <2>3. rows[token].attempts = 0
    BY <1>1 DEF Unissued
  <2>4. \A other \in Pending : rows'[other].attempts = rows[other].attempts
    BY <1>3, <1>5, <2>3
  <2>5. \A other \in Pending : rows[other].attempts <= rows'[other].attempts
    BY <2>2, <2>4
  <2> QED  BY <1>7, <1>8, <2>1, <2>2, <2>4, <2>5, CountStays
<1>14. LastInv'
  <2>1. seal.last # token
    BY <1>1 DEF FactorsInv, LastInv, Unissued
  <2> QED  BY <1>4, <1>5, <1>7, <2>1 DEF FactorsInv, LastInv
<1>15. SpentInv'
  <2>1. token \notin completed
    BY <1>1 DEF FactorsInv, SpentInv, Unissued
  <2>2. \A other \in completed : other \in Pending /\ rows'[other].life = "gone"
    BY <1>5, <2>1 DEF FactorsInv, SpentInv, TypeOK
  <2> QED  BY <1>7, <2>2 DEF FactorsInv, SpentInv, OneSessionPerProof
<1> QED  BY <1>8, <1>9, <1>10, <1>11, <1>12, <1>13, <1>14, <1>15, StepKeeps

\* An attempt is booked: on its row, and with the account's generation unless
\* the seal refuses.
LEMMA BookingKeeps ==
  ASSUME FactorsInv, NEW r \in Request, pc[r] \in {"booked", "unsealed"},
         NEW token \in Pending, token = work[r].token,
         Present(token), rows[token] = work[r].row, holder[token] \in {r, Nobody},
         NEW generation \in Nat,
         rows' = [rows EXCEPT ![token] = Counted(work[r].row, generation)],
         work' = [work EXCEPT ![r].row = rows'[token]],
         Goto(r, "evaluating"),
         holder' \in [Pending -> Request \cup {Nobody}],
         \A other \in Pending : holder[other] \notin {r, Nobody} => holder'[other] = holder[other],
         UNCHANGED <<factors, used, expired, keyNow, history>>,
         \/ seal' = seal /\ generation = rows[token].generation
         \/ seal' = Moved(token) /\ generation = Drawn
  PROVE  FactorsInv'
<1> DEFINE row == Counted(work[r].row, generation)
           w == [work[r] EXCEPT !.row = row]
<1>1. /\ row \in Row /\ row.life = "present" /\ row.attempts = rows[token].attempts + 1
      /\ row.generation = generation
  <2>1. TypeOK /\ work[r].row \in Row /\ work[r].row.life = "present"
    BY Types DEF FactorsInv, Present
  <2> QED  BY <2>1, RowCounts
<1> HIDE DEF row
<1>2. rows' = [rows EXCEPT ![token] = row]
  BY DEF row
<1>3. /\ rows' \in [Pending -> Row] /\ rows'[token] = row
      /\ \A other \in Pending : other # token => rows'[other] = rows[other]
  BY <1>1, <1>2, RowReplaced, ZenonT(60) DEF FactorsInv
<1>4. work' = [work EXCEPT ![r] = w]
  BY <1>3
<1>5. /\ w \in Work /\ w.token = token /\ w.row = row
      /\ w.epoch = work[r].epoch /\ w.components = work[r].components
  BY <1>1, WorkFields, Types DEF FactorsInv
<1> HIDE DEF w
<1>6. /\ pc' \in [Request -> Step] /\ work' \in [Request -> Work]
      /\ pc'[r] = "evaluating" /\ work'[r] = w /\ OnlyMoves(r)
  <2>1. TypeOK /\ "evaluating" \in Step
    BY DEF FactorsInv, Step
  <2>2. /\ pc' \in [Request -> Step] /\ pc'[r] = "evaluating"
        /\ \A q \in Request : q # r => pc'[q] = pc[q]
    BY <2>1, GotoMoves
  <2>3. /\ work' \in [Request -> Work] /\ work'[r] = w
        /\ \A q \in Request : q # r => work'[q] = work[q]
    BY <1>4, <1>5, <2>1, WorkMoves
  <2> QED  BY <2>2, <2>3 DEF OnlyMoves
<1>7. /\ factors' = factors /\ used' = used /\ expired' = expired /\ keyNow' = keyNow
      /\ evaluated' = evaluated /\ completed' = completed /\ spent' = spent /\ twice' = twice
      /\ reported' = reported
  BY DEF history
<1>8. /\ seal' \in SealRow /\ seal'.components = seal.components /\ seal'.epoch = seal.epoch
      /\ seal'.version >= seal.version /\ seal.version \in Nat /\ seal'.version \in Nat
      /\ seal'.attempt <= seal'.version
  <2>1. seal.attempt <= seal.version /\ seal.version \in Nat /\ seal.attempt \in Nat
    BY Types DEF FactorsInv, FreshInv
  <2> QED  BY <2>1, SealMoves, Types DEF FactorsInv
<1>9. rows[token].attempts \in Nat /\ rows[token].attempts < MaximumPendingAttempts
      /\ MaximumPendingAttempts \in Nat
  BY Types, RowFields, SecondFactorsAssumption DEF FactorsInv, RequestInv, BudgetOf
<1>10. Advanced(rows[token], row) /\ row.generation \in {rows[token].generation, Drawn}
  BY <1>1, <1>9 DEF Advanced
<1>11. TypeOK'
  BY <1>3, <1>6, <1>7, <1>8 DEF FactorsInv, TypeOK, SealRow
<1>12. Apart(r)
  <2>1. \A q \in Request : q # r /\ pc[q] \in {"booked", "consumed"} =>
          work[q].token \in Pending /\ holder[work[q].token] \notin {r, Nobody}
    BY HoldersKeep
  <2>2. SameAccount /\ (seal' = seal \/ seal'.version = Drawn)
    BY <1>7, <1>8, SealMoves, Types DEF FactorsInv, SameAccount
  <2>3. \A other \in Pending : RowStep(r, other)
    BY <1>1, <1>3, <1>10 DEF RowStep, Present
  <2> QED  BY <1>3, <1>6, <1>7, <2>1, <2>2, <2>3 DEF Apart
<1>13. ASSUME NEW q \in Request, q # r PROVE Disjoint(r, q)
  <2>1. pc[q] \in {"offered", "inserting"} => work[q].token # token
    BY DEF FactorsInv, RequestInv, TokenOf, Present, Unissued
  <2> QED  BY <1>5, <1>6, <1>7, <2>1 DEF Disjoint, Proven
<1>14. OfRequest(r)'
  BY <1>1, <1>3, <1>5, <1>6
  DEF OfRequest, TokenOf, LockOf, BudgetOf, MoveOf, ProofOf, SeenOf, Proven
<1>15. FreshInv'
  <2>1. \A n \in Nat : n <= seal.version => n <= seal'.version
    BY <1>8
  <2>2. /\ seal.epoch \in Nat /\ seal.components \in Nat /\ factors.secret \in Nat /\ factors.set \in Nat
        /\ \A q \in Request : work[q].epoch \in Nat /\ work[q].components \in Nat
        /\ \A proof \in spent : proof.of \in Nat
    BY Types DEF FactorsInv, TypeOK, Proof
  <2>3. \A q \in Request : /\ work'[q].epoch = work[q].epoch
                           /\ work'[q].components = work[q].components
    BY <1>5, <1>6 DEF OnlyMoves
  <2> QED  BY <1>7, <1>8, <2>1, <2>2, <2>3 DEF FactorsInv, FreshInv
<1>16. CountInv'
  BY <1>1, <1>3, <1>5, <1>6, <1>7, <1>9, <1>11, CountBooks
<1>17. LastInv'
  <2>1. CASE seal' = seal /\ generation = rows[token].generation
    BY <1>1, <1>3, <1>7, <2>1 DEF FactorsInv, LastInv, BookingsBlameNobody
  <2>2. CASE seal' = Moved(token) /\ generation = Drawn
    <3>1. seal'.last = token /\ seal'.attempt = Drawn
      BY <2>2, SealMoves, Types DEF FactorsInv
    <3> QED  BY <1>1, <1>3, <1>7, <2>2, <3>1 DEF FactorsInv, LastInv, BookingsBlameNobody
  <2> QED  BY <2>1, <2>2
<1>18. SpentInv'
  <2>1. \A other \in completed : other \in Pending /\ rows'[other].life = "gone"
    BY <1>3 DEF FactorsInv, SpentInv, TypeOK, Present
  <2> QED  BY <1>7, <2>1 DEF FactorsInv, SpentInv, OneSessionPerProof
<1> QED  BY <1>11, <1>12, <1>13, <1>14, <1>15, <1>16, <1>17, <1>18, StepKeeps

LEMMA CommitBookingKeeps ==
  ASSUME FactorsInv, NEW r \in Request, CommitBooking(r)
  PROVE  FactorsInv'
<1> DEFINE token == work[r].token
<1>1. pc[r] = "booked" /\ token \in Pending /\ Present(token) /\ rows[token] = work[r].row
      /\ holder[token] = r
  BY DEF FactorsInv, RequestInv, TokenOf, LockOf, CommitBooking
<1>2. /\ rows' = [rows EXCEPT ![token] = Counted(work[r].row, Drawn)]
      /\ seal' = Moved(token) /\ work' = [work EXCEPT ![r].row = rows'[token]]
      /\ holder' = Released(r) /\ Goto(r, "evaluating")
      /\ UNCHANGED <<factors, used, expired, keyNow, history>>
  BY DEF CommitBooking
<1>3. /\ holder' \in [Pending -> Request \cup {Nobody}]
      /\ \A other \in Pending : holder[other] \notin {r, Nobody} => holder'[other] = holder[other]
  BY <1>2, ReleaseFrees DEF FactorsInv
<1>4. Drawn \in Nat
  BY SealMoves, Types DEF FactorsInv
<1> QED  BY <1>1, <1>2, <1>3, <1>4, BookingKeeps

LEMMA BookUnsealedKeeps ==
  ASSUME FactorsInv, NEW r \in Request, BookUnsealed(r)
  PROVE  FactorsInv'
<1> DEFINE token == work[r].token
<1>1. /\ pc[r] = "unsealed" /\ token \in Pending /\ Present(token) /\ rows[token] = work[r].row
      /\ holder[token] = Nobody
  BY DEF FactorsInv, RequestInv, TokenOf, BookUnsealed, Unmoved, Unlocked
<1>2. /\ rows' = [rows EXCEPT ![token] = Counted(work[r].row, work[r].row.generation)]
      /\ seal' = seal /\ work' = [work EXCEPT ![r].row = rows'[token]]
      /\ holder' = holder /\ Goto(r, "evaluating")
      /\ UNCHANGED <<factors, used, expired, keyNow, history>>
  BY DEF BookUnsealed, accountVars
<1>3. holder' \in [Pending -> Request \cup {Nobody}]
  BY <1>2 DEF FactorsInv, TypeOK
<1>4. work[r].row.generation \in Nat
  BY Types, RowFields DEF FactorsInv
<1> QED  BY <1>1, <1>2, <1>3, <1>4, BookingKeeps

\* An attempt is evaluated without a change of the account.
LEMMA EvaluationKeeps ==
  ASSUME FactorsInv, NEW r \in Request, pc[r] = "evaluating", Evaluated(work[r].token),
         NEW step \in {"failed", "matched"}, Goto(r, step),
         NEW w \in Work, work' = [work EXCEPT ![r] = w],
         w.token = work[r].token, w.epoch <= seal.version, w.components <= seal.version,
         step = "matched" =>
           \E is \in TimeStep : w.proof = {[factor |-> "totp", of |-> factors.secret, is |-> is]}
                                /\ factors.secret # 0,
         UNCHANGED <<accountVars, rows, expired, holder, keyNow, completed, spent, twice, reported>>
  PROVE  FactorsInv'
<1>1. /\ pc' \in [Request -> Step] /\ work' \in [Request -> Work]
      /\ pc'[r] = step /\ work'[r] = w /\ OnlyMoves(r)
  <2>1. TypeOK /\ step \in Step
    BY DEF FactorsInv, Step
  <2>2. /\ pc' \in [Request -> Step] /\ pc'[r] = step
        /\ \A q \in Request : q # r => pc'[q] = pc[q]
    BY <2>1, GotoMoves
  <2>3. /\ work' \in [Request -> Work] /\ work'[r] = w
        /\ \A q \in Request : q # r => work'[q] = work[q]
    BY <2>1, WorkMoves
  <2> QED  BY <2>2, <2>3 DEF OnlyMoves
<1>2. /\ seal' = seal /\ factors' = factors /\ used' = used /\ rows' = rows /\ expired' = expired
      /\ holder' = holder /\ keyNow' = keyNow /\ completed' = completed /\ spent' = spent
      /\ twice' = twice /\ reported' = reported
  BY DEF accountVars
<1>3. /\ work[r].token \in Pending /\ rows[work[r].token].life # "unissued"
  BY DEF FactorsInv, RequestInv, TokenOf
<1>4. evaluated' \in [Pending -> Nat]
  BY <1>3 DEF Evaluated, FactorsInv, TypeOK
<1>5. TypeOK'
  BY <1>1, <1>2, <1>4 DEF FactorsInv, TypeOK
<1>6. Apart(r)
  BY <1>1, <1>2 DEF Apart, RowStep, SameAccount
<1>7. ASSUME NEW q \in Request, q # r PROVE Disjoint(r, q)
  BY <1>1, <1>2, <1>7 DEF FactorsInv, RequestInv, TokenOf, Disjoint, Proven
<1>8. factors.secret \in Nat
  BY Types DEF FactorsInv
<1>9. OfRequest(r)'
  BY <1>1, <1>2, <1>3, <1>8
  DEF OfRequest, TokenOf, LockOf, BudgetOf, MoveOf, ProofOf, SeenOf, Proven
<1>10. FreshInv'
  BY <1>1, <1>2 DEF FactorsInv, FreshInv, OnlyMoves
<1>11. CountInv'
  BY <1>1, <1>2, <1>5, CountEvaluates
<1>12. LastInv' /\ SpentInv'
  BY <1>2 DEF FactorsInv, LastInv, BookingsBlameNobody, SpentInv, OneSessionPerProof
<1> QED  BY <1>5, <1>6, <1>7, <1>9, <1>10, <1>11, <1>12, StepKeeps

LEMMA RejectFactorKeeps ==
  ASSUME FactorsInv, NEW r \in Request, RejectFactor(r)
  PROVE  FactorsInv'
<1>1. /\ pc[r] = "evaluating" /\ Evaluated(work[r].token) /\ Goto(r, "failed") /\ work' = work
      /\ UNCHANGED <<accountVars, rows, expired, holder, keyNow, completed, spent, twice, reported>>
  BY DEF RejectFactor
<1>2. work[r] \in Work /\ work' = [work EXCEPT ![r] = work[r]]
  BY <1>1 DEF FactorsInv, TypeOK
<1>3. work[r].epoch <= seal.version /\ work[r].components <= seal.version
  BY DEF FactorsInv, FreshInv
<1> QED  BY <1>1, <1>2, <1>3, EvaluationKeeps

LEMMA MatchStepKeeps ==
  ASSUME FactorsInv, NEW r \in Request, NEW step \in TimeStep, MatchStep(r, step)
  PROVE  FactorsInv'
<1> DEFINE proof == [factor |-> "totp", of |-> factors.secret, is |-> step]
           w == [work[r] EXCEPT !.epoch = seal.epoch, !.components = seal.components,
                                !.proof = {proof}]
<1>1. /\ pc[r] = "evaluating" /\ Evaluated(work[r].token) /\ Goto(r, "matched")
      /\ work' = [work EXCEPT ![r] = w] /\ factors.secret # 0
      /\ UNCHANGED <<accountVars, rows, expired, holder, keyNow, completed, spent, twice, reported>>
  BY DEF MatchStep, FactorsInv, TypeOK
<1>2. proof \in Proof
  BY Types DEF FactorsInv, Proof
<1>3. seal.epoch \in Nat /\ seal.components \in Nat /\ work[r] \in Work
  BY Types DEF FactorsInv
<1>4. /\ w \in Work /\ w.token = work[r].token /\ w.epoch = seal.epoch
      /\ w.components = seal.components /\ w.proof = {proof}
  <2> HIDE DEF proof
  <2> QED  BY <1>2, <1>3 DEF Work
<1>5. w.epoch <= seal.version /\ w.components <= seal.version
  BY <1>4 DEF FactorsInv, FreshInv
<1>6. \E is \in TimeStep : w.proof = {[factor |-> "totp", of |-> factors.secret, is |-> is]}
                           /\ factors.secret # 0
  BY <1>1, <1>4
<1> HIDE DEF w
<1> QED  BY <1>1, <1>4, <1>5, <1>6, EvaluationKeeps

\* A step is claimed that the ledger did not hold, so that nobody has proved it.
LEMMA ClaimStepKeeps ==
  ASSUME FactorsInv, NEW r \in Request, ClaimStep(r)
  PROVE  FactorsInv'
<1>1. PICK is \in TimeStep, secret \in Nat :
        /\ work[r].proof = {[factor |-> "totp", of |-> secret, is |-> is]}
        /\ secret # 0 /\ (Fresh(r) => secret = factors.secret)
  BY DEF FactorsInv, RequestInv, ProofOf, ClaimStep
<1> DEFINE proof == [factor |-> "totp", of |-> secret, is |-> is]
<1>2. proof.factor = "totp" /\ proof.of = secret /\ proof.is = is /\ work[r].proof = {proof}
  BY <1>1
<1> HIDE DEF proof
<1>3. StepOf(r) = is
  BY <1>2 DEF StepOf
<1>4. PICK step \in Step : /\ Goto(r, step) /\ step \in {"failed", "verified"}
                           /\ step = "verified" => is \notin used
  BY <1>3 DEF ClaimStep, Step
<1>5. /\ pc[r] = "matched" /\ used' = used \cup {is}
      /\ seal' = seal /\ factors' = factors /\ rows' = rows /\ expired' = expired
      /\ holder' = holder /\ keyNow' = keyNow /\ work' = work /\ evaluated' = evaluated
      /\ completed' = completed /\ spent' = spent /\ twice' = twice /\ reported' = reported
  BY <1>3 DEF ClaimStep, history
<1>6. /\ pc' \in [Request -> Step] /\ pc'[r] = step /\ OnlyMoves(r)
  BY <1>4, <1>5, GotoMoves DEF FactorsInv, OnlyMoves
<1>7. work[r].token \in Pending /\ rows[work[r].token].life # "unissued"
  BY <1>5 DEF FactorsInv, RequestInv, TokenOf
<1>8. TypeOK'
  <2>1. used' \subseteq TimeStep
    BY <1>5 DEF FactorsInv, TypeOK
  <2> QED  BY <1>5, <1>6, <2>1 DEF FactorsInv, TypeOK
<1>9. SameAccount /\ Apart(r)
  BY <1>5, <1>6 DEF Apart, RowStep, SameAccount
<1>10. step = "verified" /\ Fresh(r) =>
         /\ proof \notin spent
         /\ \A q \in Request : Proven(q) => proof \notin work[q].proof
  <2> SUFFICES ASSUME step = "verified", Fresh(r)
               PROVE  /\ proof \notin spent
                      /\ \A q \in Request : Proven(q) => proof \notin work[q].proof
    OBVIOUS
  <2>1. is \notin used /\ secret = factors.secret
    BY <1>1, <1>4
  <2>2. proof \notin spent
    BY <1>2, <2>1 DEF FactorsInv, SpentInv
  <2>3. \A q \in Request : Proven(q) => proof \notin work[q].proof
    BY <1>2, <2>1 DEF FactorsInv, RequestInv, ProofOf
  <2> QED  BY <2>2, <2>3
<1>11. Proven(r)' => step = "verified" /\ Fresh(r)
  BY <1>4, <1>5, <1>6 DEF Proven, Fresh
<1>12. ASSUME NEW q \in Request, q # r PROVE Disjoint(r, q)
  <2>1. pc[q] \in {"offered", "inserting"} => work'[r].token # work[q].token
    BY <1>5, <1>12 DEF FactorsInv, RequestInv, TokenOf
  <2>2. Proven(q) /\ Proven(r)' => \A p \in work[q].proof : p \notin work'[r].proof
    BY <1>2, <1>5, <1>10, <1>11
  <2> QED  BY <1>5, <2>1, <2>2 DEF Disjoint
<1>13. TokenOf(r)' /\ LockOf(r)' /\ BudgetOf(r)' /\ MoveOf(r)' /\ SeenOf(r)'
  BY <1>4, <1>5, <1>6, <1>7 DEF TokenOf, LockOf, BudgetOf, MoveOf, SeenOf
<1>14. ProofOf(r)'
  <2>1. ASSUME Proven(r)'
        PROVE  \A p \in work'[r].proof :
                 /\ Held(p)'
                 /\ p.factor = "totp" => p.of # 0 /\ p.is \in used'
                 /\ p.factor = "recovery" => p.is \notin factors'.codes
                 /\ p \notin spent'
                 /\ \A other \in Request : Proven(other)' /\ other # r => p \notin work'[other].proof
    <3>1. secret = factors.secret /\ proof \notin spent
          /\ \A q \in Request : Proven(q) => proof \notin work[q].proof
      BY <1>1, <1>10, <1>11, <2>1
    <3>2. \A q \in Request : q # r /\ Proven(q)' => Proven(q) /\ work'[q].proof = work[q].proof
      BY <1>5, <1>6 DEF Proven, Fresh, OnlyMoves
    <3>3. Held(proof)'
      BY <1>2, <1>5, <3>1 DEF Held
    <3> QED  BY <1>1, <1>2, <1>5, <3>1, <3>2, <3>3
  <2> QED  BY <1>4, <1>6, <2>1 DEF ProofOf
<1>15. FreshInv'
  BY <1>5 DEF FactorsInv, FreshInv
<1>16. CountInv'
  <2>1. \A other \in Pending : Evaluating(other)' \subseteq Evaluating(other)
    BY <1>4, <1>5, <1>6 DEF Evaluating, OnlyMoves
  <2>2. \A other \in Pending : /\ rows[other].attempts \in Nat
                               /\ rows[other].attempts <= MaximumPendingAttempts
    BY Types, RowFields DEF FactorsInv, CountInv
  <2>3. \A other \in Pending : rows[other].attempts <= rows'[other].attempts
    BY <1>5, <2>2
  <2> QED  BY <1>5, <1>8, <2>1, <2>2, <2>3, CountStays
<1>17. LastInv' /\ SpentInv'
  BY <1>5 DEF FactorsInv, LastInv, BookingsBlameNobody, SpentInv, OneSessionPerProof
<1>18. OfRequest(r)'
  BY <1>13, <1>14 DEF OfRequest
<1> QED  BY <1>8, <1>9, <1>12, <1>15, <1>16, <1>17, <1>18, StepKeeps

Factors == [secret: Nat, set: Nat, codes: SUBSET Code, disabled: BOOLEAN]

\* The sealed components after a change.
LEMMA FactorsMove ==
  ASSUME NEW f \in Factors, NEW n \in Nat, NEW set \in SUBSET Code, NEW flag \in BOOLEAN
  PROVE  /\ [f EXCEPT !.disabled = flag] \in Factors
         /\ [f EXCEPT !.disabled = flag].secret = f.secret
         /\ [f EXCEPT !.disabled = flag].set = f.set
         /\ [f EXCEPT !.disabled = flag].codes = f.codes
         /\ [f EXCEPT !.secret = n] \in Factors
         /\ [f EXCEPT !.secret = n].secret = n
         /\ [f EXCEPT !.secret = n].set = f.set
         /\ [f EXCEPT !.secret = n].codes = f.codes
         /\ [f EXCEPT !.codes = set] \in Factors
         /\ [f EXCEPT !.codes = set].secret = f.secret
         /\ [f EXCEPT !.codes = set].set = f.set
         /\ [f EXCEPT !.codes = set].codes = set
<1>1. ASSUME NEW Flag, NEW g \in [secret: Nat, set: Nat, codes: SUBSET Code, disabled: Flag],
             NEW b \in Flag
      PROVE  LET G == [secret: Nat, set: Nat, codes: SUBSET Code, disabled: Flag]
             IN  /\ [g EXCEPT !.disabled = b] \in G
                 /\ [g EXCEPT !.disabled = b].secret = g.secret
                 /\ [g EXCEPT !.disabled = b].set = g.set
                 /\ [g EXCEPT !.disabled = b].codes = g.codes
                 /\ [g EXCEPT !.secret = n] \in G
                 /\ [g EXCEPT !.secret = n].secret = n
                 /\ [g EXCEPT !.secret = n].set = g.set
                 /\ [g EXCEPT !.secret = n].codes = g.codes
                 /\ [g EXCEPT !.codes = set] \in G
                 /\ [g EXCEPT !.codes = set].secret = g.secret
                 /\ [g EXCEPT !.codes = set].set = g.set
                 /\ [g EXCEPT !.codes = set].codes = set
  OBVIOUS
<1> QED  BY <1>1, Zenon DEF Factors

LEMMA SetMoves ==
  ASSUME NEW f \in Factors, NEW n \in Nat, NEW set \in SUBSET Code
  PROVE  LET moved == [f EXCEPT !.set = n, !.codes = set]
         IN  moved \in Factors /\ moved.secret = f.secret /\ moved.set = n
<1>1. ASSUME NEW Flag, NEW g \in [secret: Nat, set: Nat, codes: SUBSET Code, disabled: Flag]
      PROVE  LET moved == [g EXCEPT !.set = n, !.codes = set]
             IN  /\ moved \in [secret: Nat, set: Nat, codes: SUBSET Code, disabled: Flag]
                 /\ moved.secret = g.secret /\ moved.set = n
  OBVIOUS
<1> QED  BY <1>1, Zenon DEF Factors

\* A change of the account renews its components, so that nothing that was
\* proved before authorises any more.
LEMMA ChangeKeeps ==
  ASSUME FactorsInv, NEW r, seal' \in {Changed, Raised},
         factors' \in Factors, factors'.secret <= Drawn, factors'.set <= Drawn,
         used' \subseteq TimeStep, evaluated' \in [Pending -> Nat],
         pc' \in [Request -> Step], work' \in [Request -> Work], OnlyMoves(r),
         UNCHANGED <<rows, expired, holder, keyNow, completed, twice, reported>>,
         spent' \subseteq Proof,
         \A proof \in spent' :
           /\ proof.of <= Drawn
           /\ proof.factor = "totp" => proof.of # 0
           /\ proof.factor = "totp" /\ proof.of = factors'.secret => proof.is \in used'
           /\ proof.factor = "recovery" /\ proof.of = factors'.set => proof.is \notin factors'.codes,
         TypeOK' => CountInv',
         r \in Request =>
           /\ OfRequest(r)'
           /\ work'[r].token = work[r].token /\ pc[r] # "idle"
           /\ work'[r].epoch <= Drawn /\ work'[r].components <= Drawn
  PROVE  FactorsInv'
<1>1. /\ rows' = rows /\ expired' = expired /\ holder' = holder /\ keyNow' = keyNow
      /\ completed' = completed /\ twice' = twice /\ reported' = reported
  OBVIOUS
<1>2. /\ seal' \in SealRow /\ seal'.version = Drawn /\ seal'.components = Drawn
      /\ seal'.epoch \in {seal.epoch, Drawn}
      /\ seal'.attempt = seal.attempt /\ seal'.last = seal.last
      /\ Drawn \in Nat /\ Drawn > seal.version
      /\ seal.version \in Nat /\ seal.epoch \in Nat /\ seal.attempt \in Nat
      /\ seal.epoch <= seal.version /\ seal.attempt <= seal.version
  BY SealMoves, Types DEF FactorsInv, FreshInv
<1>3. TypeOK'
  BY <1>1, <1>2 DEF FactorsInv, TypeOK, SealRow, Factors
<1>4. NewAccount /\ ~ SameAccount
  <2>1. seal.components \in Nat /\ seal.components <= seal.version
    BY Types DEF FactorsInv, FreshInv
  <2> QED  BY <1>2, <2>1 DEF NewAccount, SameAccount
<1>5. Apart(r)
  BY <1>1, <1>2, <1>4 DEF Apart, RowStep
<1>6. ASSUME NEW q \in Request, q # r PROVE Disjoint(r, q)
  BY <1>4, <1>6 DEF FactorsInv, RequestInv, TokenOf, Disjoint
<1>7. FreshInv'
  <2>1. \A q \in Request : q # r =>
          /\ work'[q] = work[q] /\ work[q].epoch \in Nat /\ work[q].components \in Nat
          /\ work[q].epoch <= seal.version /\ work[q].components <= seal.version
    BY Types DEF FactorsInv, FreshInv, OnlyMoves
  <2>2. \A q \in Request : work'[q].epoch <= Drawn /\ work'[q].components <= Drawn
    BY <1>2, <2>1
  <2> QED  BY <1>2, <2>2 DEF FreshInv
<1>8. LastInv' /\ SpentInv'
  BY <1>1, <1>2 DEF FactorsInv, LastInv, BookingsBlameNobody, SpentInv, OneSessionPerProof
<1> QED  BY <1>3, <1>5, <1>6, <1>7, <1>8, StepKeeps

\* What a session stands on is older than the change.
LEMMA SpentIsOld ==
  ASSUME FactorsInv
  PROVE  /\ Drawn \in Nat /\ Drawn # 0 /\ factors \in Factors
         /\ factors.secret \in Nat /\ factors.secret < Drawn
         /\ factors.set \in Nat /\ factors.set < Drawn
         /\ spent \subseteq Proof
         /\ \A proof \in spent : proof.of \in Nat /\ proof.of < Drawn
<1>1. /\ seal.version \in Nat /\ factors.secret \in Nat /\ factors.set \in Nat
      /\ factors.secret <= seal.version /\ factors.set <= seal.version
      /\ \A proof \in spent : proof.of <= seal.version
  BY Types DEF FactorsInv, FreshInv
<1>2. spent \subseteq Proof /\ factors \in Factors
  BY DEF FactorsInv, TypeOK, Factors
<1>3. \A proof \in spent : proof.of \in Nat
  BY <1>2 DEF Proof
<1> QED  BY <1>1, <1>2, <1>3 DEF Drawn

\* The account changes on its own: revoked, disabled, its factors removed,
\* enrolled or generated anew.
LEMMA AccountKeeps ==
  ASSUME FactorsInv, seal' \in {Changed, Raised},
         factors' \in Factors, factors'.secret <= Drawn, factors'.set <= Drawn,
         used' \subseteq TimeStep,
         UNCHANGED <<pc, work, evaluated, rows, expired, holder, keyNow, completed, twice, reported>>,
         spent' \subseteq Proof,
         \A proof \in spent' :
           /\ proof.of <= Drawn
           /\ proof.factor = "totp" => proof.of # 0
           /\ proof.factor = "totp" /\ proof.of = factors'.secret => proof.is \in used'
           /\ proof.factor = "recovery" /\ proof.of = factors'.set => proof.is \notin factors'.codes
  PROVE  FactorsInv'
<1>1. OnlyMoves(Nobody) /\ pc' \in [Request -> Step] /\ work' \in [Request -> Work]
      /\ evaluated' \in [Pending -> Nat]
  BY DEF OnlyMoves, FactorsInv, TypeOK
<1>2. TypeOK' => CountInv'
  BY DEF FactorsInv, CountInv, Evaluating
<1> QED  BY <1>1, <1>2, ChangeKeeps, SecondFactorsAssumption

LEMMA RevokeEveryKeeps == FactorsInv /\ RevokeEvery => FactorsInv'
<1> SUFFICES ASSUME FactorsInv, RevokeEvery PROVE FactorsInv'
  OBVIOUS
<1>1. /\ seal' = Raised /\ factors' = factors /\ used' = used /\ spent' = spent
      /\ UNCHANGED <<pc, work, evaluated, rows, expired, holder, keyNow, completed, twice, reported>>
  BY DEF RevokeEvery, history
<1>2. used' \subseteq TimeStep
  BY <1>1 DEF FactorsInv, TypeOK
<1>3. factors'.secret <= Drawn /\ factors'.set <= Drawn /\ \A proof \in spent : proof.of <= Drawn
  BY <1>1, SpentIsOld
<1> QED  BY <1>1, <1>2, <1>3, SpentIsOld, AccountKeeps DEF FactorsInv, SpentInv

LEMMA SetDisabledKeeps ==
  ASSUME FactorsInv, NEW disabled \in BOOLEAN, SetDisabled(disabled)
  PROVE  FactorsInv'
<1>1. /\ seal' = Changed /\ factors' = [factors EXCEPT !.disabled = disabled]
      /\ used' = used /\ spent' = spent
      /\ UNCHANGED <<pc, work, evaluated, rows, expired, holder, keyNow, completed, twice, reported>>
  BY DEF SetDisabled, history
<1>2. used' \subseteq TimeStep
  BY <1>1 DEF FactorsInv, TypeOK
<1>3. /\ factors' \in Factors /\ factors'.secret = factors.secret /\ factors'.set = factors.set
      /\ factors'.codes = factors.codes
  <2>1. 0 \in Nat /\ {} \in SUBSET Code /\ factors \in Factors
    BY SpentIsOld
  <2> DEFINE f == [factors EXCEPT !.disabled = disabled]
  <2>2. f \in Factors /\ f.secret = factors.secret /\ f.set = factors.set /\ f.codes = factors.codes
    BY <2>1, FactorsMove, ZenonT(30)
  <2> HIDE DEF f
  <2>3. factors' = f
    BY <1>1, Zenon DEF f
  <2> QED  BY <2>2, <2>3
<1>4. factors'.secret <= Drawn /\ factors'.set <= Drawn /\ \A proof \in spent : proof.of <= Drawn
  BY <1>3, SpentIsOld
<1> QED  BY <1>1, <1>2, <1>3, <1>4, SpentIsOld, AccountKeeps DEF FactorsInv, SpentInv

\* The ledger goes with the secret its steps were of.
LEMMA RemoveTotpKeeps ==
  ASSUME FactorsInv, NEW step \in TimeStep, RemoveTotp(step)
  PROVE  FactorsInv'
<1> DEFINE proof == [factor |-> "totp", of |-> factors.secret, is |-> step]
<1>1. /\ seal' = Changed /\ factors' = [factors EXCEPT !.secret = 0] /\ factors.secret # 0
      /\ used' = {} /\ spent' = spent \cup {proof}
      /\ UNCHANGED <<pc, work, evaluated, rows, expired, holder, keyNow, completed, twice, reported>>
  BY DEF RemoveTotp
<1>2. proof \in Proof /\ proof.factor = "totp" /\ proof.of = factors.secret
  BY SpentIsOld DEF Proof
<1> HIDE DEF proof
<1>3. /\ factors' \in Factors /\ factors'.secret = 0 /\ factors'.set = factors.set
      /\ factors'.codes = factors.codes
  <2>1. TRUE \in BOOLEAN /\ 0 \in Nat /\ {} \in SUBSET Code /\ Code \in SUBSET Code
        /\ factors \in Factors /\ Drawn \in Nat
    BY SpentIsOld
  <2> QED  BY <1>1, <2>1, FactorsMove
<1>4. /\ factors'.secret <= Drawn /\ factors'.set <= Drawn /\ spent' \subseteq Proof
      /\ \A p \in spent' : p.of <= Drawn
  BY <1>1, <1>2, <1>3, SpentIsOld
<1>5. \A p \in spent' : p.factor = "totp" => p.of # 0
  BY <1>1, <1>2 DEF FactorsInv, SpentInv
<1>6. \A p \in spent' : p.factor = "recovery" /\ p.of = factors'.set => p.is \notin factors'.codes
  BY <1>1, <1>2, <1>3 DEF FactorsInv, SpentInv
<1> QED  BY <1>1, <1>3, <1>4, <1>5, <1>6, AccountKeeps

\* A new secret is of a version no session stands on, and its first step is
\* claimed with it.
LEMMA EnrolTotpKeeps ==
  ASSUME FactorsInv, NEW step \in TimeStep, EnrolTotp(step)
  PROVE  FactorsInv'
<1> DEFINE proof == [factor |-> "totp", of |-> Drawn, is |-> step]
<1>1. /\ seal' = Changed /\ factors' = [factors EXCEPT !.secret = Drawn]
      /\ used' = used \cup {step} /\ spent' = spent \cup {proof}
      /\ UNCHANGED <<pc, work, evaluated, rows, expired, holder, keyNow, completed, twice, reported>>
  BY DEF EnrolTotp
<1>2. proof \in Proof /\ proof.factor = "totp" /\ proof.of = Drawn /\ proof.is = step
  BY SpentIsOld DEF Proof
<1> HIDE DEF proof
<1>3. /\ factors' \in Factors /\ factors'.secret = Drawn /\ factors'.set = factors.set
      /\ factors'.codes = factors.codes
  <2>1. TRUE \in BOOLEAN /\ 0 \in Nat /\ {} \in SUBSET Code /\ Code \in SUBSET Code
        /\ factors \in Factors /\ Drawn \in Nat
    BY SpentIsOld
  <2> QED  BY <1>1, <2>1, FactorsMove
<1>4. /\ factors'.secret <= Drawn /\ factors'.set <= Drawn /\ spent' \subseteq Proof
      /\ \A p \in spent' : p.of <= Drawn
  BY <1>1, <1>2, <1>3, SpentIsOld
<1>5. used' \subseteq TimeStep
  BY <1>1 DEF FactorsInv, TypeOK
<1>6. \A p \in spent' : /\ p.factor = "totp" => p.of # 0
                        /\ p.factor = "totp" /\ p.of = factors'.secret => p.is \in used'
  BY <1>1, <1>2, <1>3, SpentIsOld DEF FactorsInv, SpentInv
<1>7. \A p \in spent' : p.factor = "recovery" /\ p.of = factors'.set => p.is \notin factors'.codes
  BY <1>1, <1>2, <1>3 DEF FactorsInv, SpentInv
<1> QED  BY <1>1, <1>3, <1>4, <1>5, <1>6, <1>7, AccountKeeps

LEMMA GenerateCodesKeeps == FactorsInv /\ GenerateCodes => FactorsInv'
<1> SUFFICES ASSUME FactorsInv, GenerateCodes PROVE FactorsInv'
  OBVIOUS
<1>1. /\ seal' = Changed /\ factors' = [factors EXCEPT !.set = Drawn, !.codes = Code]
      /\ used' = used /\ spent' = spent
      /\ UNCHANGED <<pc, work, evaluated, rows, expired, holder, keyNow, completed, twice, reported>>
  BY DEF GenerateCodes, history
<1>2. used' \subseteq TimeStep
  BY <1>1 DEF FactorsInv, TypeOK
<1>3. factors' \in Factors /\ factors'.secret = factors.secret /\ factors'.set = Drawn
  <2>1. Code \in SUBSET Code /\ TRUE \in BOOLEAN /\ factors \in Factors /\ Drawn \in Nat
    BY SpentIsOld
  <2> DEFINE f == [factors EXCEPT !.set = Drawn, !.codes = Code]
  <2>4. f \in Factors /\ f.secret = factors.secret /\ f.set = Drawn
    BY <2>1, SetMoves, ZenonT(60)
  <2> HIDE DEF f
  <2>3. factors' = f
    BY <1>1, Zenon DEF f
  <2> QED  BY <2>3, <2>4
<1>4. factors'.secret <= Drawn /\ factors'.set <= Drawn /\ \A proof \in spent : proof.of <= Drawn
  BY <1>3, SpentIsOld
<1>5. \A proof \in spent : proof.of # factors'.set
  BY <1>3, SpentIsOld
<1> QED  BY <1>1, <1>2, <1>3, <1>4, <1>5, SpentIsOld, AccountKeeps DEF FactorsInv, SpentInv

\* A code is spent with the change it makes: no session stands on it, and no
\* request has proved anything that still authorises.
LEMMA SpendCodeKeeps ==
  ASSUME FactorsInv, NEW r \in Request, NEW code \in Code, SpendCode(r, code)
  PROVE  FactorsInv'
<1>p. PICK proof : proof = [factor |-> "recovery", of |-> factors.set, is |-> code]
  OBVIOUS
<1> DEFINE w == [work[r] EXCEPT !.epoch = seal.epoch, !.components = Drawn, !.proof = {proof}]
           left == factors.codes \ {code}
<1>1. /\ pc[r] = "evaluating" /\ code \in factors.codes
      /\ factors' = [factors EXCEPT !.codes = left] /\ seal' = Changed
      /\ Evaluated(work[r].token) /\ Goto(r, "verified")
      /\ work' = [work EXCEPT ![r] = w]
      /\ used' = used /\ rows' = rows /\ expired' = expired /\ holder' = holder
      /\ keyNow' = keyNow /\ completed' = completed /\ spent' = spent /\ twice' = twice
      /\ reported' = reported
  BY <1>p DEF SpendCode, FactorsInv, TypeOK
<1>2. /\ proof \in Proof /\ proof.factor = "recovery" /\ proof.of = factors.set
      /\ proof.is = code
  BY <1>p, SpentIsOld DEF Proof
<1>3. /\ seal.epoch \in Nat /\ seal.epoch <= seal.version /\ seal.version \in Nat
      /\ work[r] \in Work /\ Drawn \in Nat /\ Drawn > seal.version
  BY Types, SealMoves DEF FactorsInv, FreshInv
<1>4. /\ w \in Work /\ w.token = work[r].token /\ w.row = work[r].row /\ w.epoch = seal.epoch
      /\ w.components = Drawn /\ w.proof = {proof}
  <2>1. ASSUME NEW d \in Nat
        PROVE  LET v == [work[r] EXCEPT !.epoch = seal.epoch, !.components = d, !.proof = {proof}]
               IN  /\ v \in Work /\ v.token = work[r].token /\ v.row = work[r].row
                   /\ v.epoch = seal.epoch /\ v.components = d /\ v.proof = {proof}
    BY <1>2, <1>3 DEF Work
  <2> QED  BY <1>3, <2>1
<1> HIDE DEF w
<1>5. /\ pc' \in [Request -> Step] /\ pc'[r] = "verified"
      /\ work' \in [Request -> Work] /\ work'[r] = w /\ OnlyMoves(r)
  <2>1. TypeOK /\ "verified" \in Step
    BY DEF FactorsInv, Step
  <2>2. /\ pc' \in [Request -> Step] /\ pc'[r] = "verified"
        /\ \A q \in Request : q # r => pc'[q] = pc[q]
    BY <1>1, <2>1, GotoMoves
  <2>3. /\ work' \in [Request -> Work] /\ work'[r] = w
        /\ \A q \in Request : q # r => work'[q] = work[q]
    BY <1>1, <1>4, <2>1, WorkMoves
  <2> QED  BY <2>2, <2>3 DEF OnlyMoves
<1>6. /\ factors' \in Factors /\ factors'.secret = factors.secret /\ factors'.set = factors.set
      /\ factors'.codes = left
  <2>1. factors \in Factors /\ left \in SUBSET Code /\ 0 \in Nat /\ TRUE \in BOOLEAN
    BY SpentIsOld DEF Factors
  <2> HIDE DEF left
  <2>2. ASSUME NEW set \in SUBSET Code
        PROVE  LET g == [factors EXCEPT !.codes = set]
               IN  g \in Factors /\ g.secret = factors.secret /\ g.set = factors.set /\ g.codes = set
    BY <2>1, FactorsMove, ZenonT(30)
  <2> QED  BY <1>1, <2>1, <2>2
<1>7. /\ seal'.components = Drawn /\ seal'.epoch = seal.epoch
  BY <1>1, SealMoves, Types DEF FactorsInv
<1>8. work[r].token \in Pending /\ rows[work[r].token].life # "unissued"
  BY <1>1 DEF FactorsInv, RequestInv, TokenOf
<1>9. evaluated' \in [Pending -> Nat]
  BY <1>1, <1>8 DEF Evaluated, FactorsInv, TypeOK
<1>10. proof \notin spent
  BY <1>1, <1>2 DEF FactorsInv, SpentInv
<1>11. \A other \in Request : other # r => ~ Proven(other)'
  <2>1. \A other \in Request : other # r => work'[other].components # Drawn
    BY <1>3, <1>5, Types DEF FactorsInv, FreshInv, OnlyMoves
  <2> QED  BY <1>7, <2>1 DEF Proven, Fresh
<1>12. OfRequest(r)'
  <2>1. TokenOf(r)' /\ LockOf(r)' /\ BudgetOf(r)' /\ MoveOf(r)' /\ SeenOf(r)'
    BY <1>1, <1>4, <1>5, <1>8 DEF TokenOf, LockOf, BudgetOf, MoveOf, SeenOf
  <2>2. Held(proof)' /\ proof.is \notin factors'.codes
    BY <1>2, <1>6 DEF Held
  <2>3. ProofOf(r)'
    BY <1>1, <1>2, <1>4, <1>5, <1>10, <1>11, <2>2 DEF ProofOf
  <2> QED  BY <2>1, <2>3 DEF OfRequest
<1>13. TypeOK' => CountInv'
  BY <1>1, <1>5, CountEvaluates
<1>14. used' \subseteq TimeStep /\ spent' \subseteq Proof
  BY <1>1 DEF FactorsInv, TypeOK
<1>15. \A p \in spent' :
          /\ p.of <= Drawn
          /\ p.factor = "totp" => p.of # 0
          /\ p.factor = "totp" /\ p.of = factors'.secret => p.is \in used'
          /\ p.factor = "recovery" /\ p.of = factors'.set => p.is \notin factors'.codes
  BY <1>1, <1>6, SpentIsOld DEF FactorsInv, SpentInv
<1>16. factors'.secret <= Drawn /\ factors'.set <= Drawn
  BY <1>6, SpentIsOld
<1>17. work'[r].token = work[r].token /\ work'[r].epoch <= Drawn /\ work'[r].components <= Drawn
  BY <1>3, <1>4, <1>5
<1>18. seal' \in {Changed, Raised} /\ pc[r] # "idle"
       /\ UNCHANGED <<rows, expired, holder, keyNow, completed, twice, reported>>
  BY <1>1
<1> HIDE DEF left
<1> QED  BY <1>5, <1>6, <1>9, <1>12, <1>13, <1>14, <1>15, <1>16, <1>17, <1>18, ChangeKeeps

LEMMA ExpireKeeps ==
  ASSUME FactorsInv, NEW token \in Pending, Expire(token)
  PROVE  FactorsInv'
<1>1. /\ Quiet /\ pc' = pc /\ work' = work /\ holder' = holder /\ reported' = reported
      /\ expired' = expired \cup {token}
  BY DEF Expire, Quiet, accountVars, history
<1>2. /\ OnlyMoves(Nobody) /\ pc' \in [Request -> Step] /\ work' \in [Request -> Work]
      /\ holder' \in [Pending -> Request \cup {Nobody}] /\ expired' \in SUBSET Pending
      /\ reported' \in SUBSET {"row", "deletion", "factor"}
  BY <1>1 DEF OnlyMoves, FactorsInv, TypeOK
<1>3. BookingsBlameNobody'
  BY <1>1 DEF FactorsInv, LastInv, BookingsBlameNobody
<1> QED  BY <1>1, <1>2, <1>3, QuietKeeps, SecondFactorsAssumption

\* A row bound to a newer key has advanced, and only a row nobody holds is.
LEMMA RebindKeeps ==
  ASSUME FactorsInv, NEW token \in Pending, Rebind(token)
  PROVE  FactorsInv'
<1> DEFINE row == [rows[token] EXCEPT !.key = keyNow]
<1>1. /\ Present(token) /\ holder[token] = Nobody /\ rows[token].key < keyNow
      /\ rows' = [rows EXCEPT ![token] = row]
      /\ seal' = seal /\ factors' = factors /\ used' = used /\ expired' = expired
      /\ holder' = holder /\ keyNow' = keyNow /\ pc' = pc /\ work' = work
      /\ evaluated' = evaluated /\ completed' = completed /\ spent' = spent /\ twice' = twice
      /\ reported' = reported
  BY DEF Rebind, Unlocked, accountVars, history, FactorsInv, TypeOK
<1>2. rows[token] \in Row /\ keyNow \in Nat
  BY DEF FactorsInv, TypeOK
<1>3. /\ row \in Row /\ row.life = rows[token].life /\ row.attempts = rows[token].attempts
      /\ row.epoch = rows[token].epoch /\ row.generation = rows[token].generation
      /\ row.key = keyNow
  BY <1>2 DEF Row
<1> HIDE DEF row
<1>4. /\ rows' \in [Pending -> Row] /\ rows'[token] = row
      /\ \A other \in Pending : other # token => rows'[other] = rows[other]
  BY <1>1, <1>3, RowReplaced DEF FactorsInv
<1>5. TypeOK'
  BY <1>1, <1>4 DEF FactorsInv, TypeOK
<1>6. Advanced(rows[token], row)
  BY <1>1, <1>2, <1>3, RowFields DEF Advanced
<1>7. \A other \in Pending : RowStep(Nobody, other)
  BY <1>1, <1>3, <1>4, <1>6 DEF RowStep, Present
<1>8. Apart(Nobody)
  <2>1. \A q \in Request : pc[q] \in {"booked", "consumed"} =>
          work[q].token \in Pending /\ work[q].token # token
    BY <1>1, HoldersKeep
  <2> QED  BY <1>1, <1>4, <1>7, <2>1 DEF Apart, OnlyMoves, SameAccount
<1>9. ASSUME NEW q \in Request PROVE Disjoint(Nobody, q)
  BY <1>1, SecondFactorsAssumption DEF Disjoint
<1>10. FreshInv'
  BY <1>1 DEF FactorsInv, FreshInv
<1>11. \A other \in Pending : /\ rows'[other].attempts = rows[other].attempts
                              /\ rows'[other].generation = rows[other].generation
                              /\ rows'[other].life = rows[other].life
  BY <1>3, <1>4
<1>12. CountInv'
  BY <1>1, <1>11 DEF FactorsInv, CountInv, Evaluating
<1>13. LastInv'
  BY <1>1, <1>11 DEF FactorsInv, LastInv, BookingsBlameNobody
<1>14. SpentInv'
  <2>1. completed \subseteq Pending
    BY DEF FactorsInv, TypeOK
  <2> QED  BY <1>1, <1>11, <2>1 DEF FactorsInv, SpentInv, OneSessionPerProof
<1> QED  BY <1>5, <1>8, <1>9, <1>10, <1>12, <1>13, <1>14, StepKeeps, SecondFactorsAssumption

\* The key is rotated, or nothing happens.
LEMMA RotateKeyKeeps ==
  ASSUME FactorsInv,
         \/ RotateKey
         \/ UNCHANGED vars
  PROVE  FactorsInv'
<1>1. /\ seal' = seal /\ factors' = factors /\ used' = used /\ rows' = rows /\ expired' = expired
      /\ holder' = holder /\ pc' = pc /\ work' = work /\ evaluated' = evaluated
      /\ completed' = completed /\ spent' = spent /\ twice' = twice /\ reported' = reported
  BY DEF RotateKey, vars, accountVars, history
<1>2. keyNow' \in Nat
  BY DEF RotateKey, vars, FactorsInv, TypeOK
<1>3. TypeOK'
  BY <1>1, <1>2 DEF FactorsInv, TypeOK
<1>4. FreshInv' /\ LastInv' /\ SpentInv'
  BY <1>1 DEF FactorsInv, FreshInv, LastInv, BookingsBlameNobody, SpentInv, OneSessionPerProof, Held
<1>5. CountInv'
  BY <1>1 DEF FactorsInv, CountInv, Evaluating
<1>6. RequestInv'
  BY <1>1 DEF FactorsInv, RequestInv, TokenOf, LockOf, BudgetOf, MoveOf, ProofOf, SeenOf,
              Proven, Fresh, Held, Present, Advanced
<1> QED  BY <1>3, <1>4, <1>5, <1>6 DEF FactorsInv

-----------------------------------------------------------------------------
(* The invariant holds of every behaviour.                                 *)

LEMMA FactorsInvInit == Init => FactorsInv
<1> SUFFICES ASSUME Init PROVE FactorsInv
  OBVIOUS
<1>1. /\ seal = [version |-> 1, epoch |-> 1, components |-> 1, attempt |-> 1, last |-> NoPending]
      /\ factors = [secret |-> 1, set |-> 1, codes |-> Code, disabled |-> FALSE]
      /\ rows = [token \in Pending |-> Unissued]
      /\ pc = [r \in Request |-> "idle"] /\ work = [r \in Request |-> NoWork]
      /\ evaluated = [token \in Pending |-> 0]
      /\ completed = {} /\ spent = {} /\ twice = FALSE /\ reported = {}
  BY DEF Init
<1>2. TypeOK
  <2>1. factors \in [secret: Nat, set: Nat, codes: SUBSET Code, disabled: BOOLEAN]
    BY <1>1, Zenon
  <2>2. /\ pc \in [Request -> Step] /\ work \in [Request -> Work] /\ rows \in [Pending -> Row]
    BY <1>1, NoWorkType DEF Step
  <2>3. seal \in [version: Nat, epoch: Nat, components: Nat, attempt: Nat,
                  last: Pending \cup {NoPending}]
    BY <1>1
  <2>4. /\ used \subseteq TimeStep /\ expired \subseteq Pending
        /\ holder \in [Pending -> Request \cup {Nobody}] /\ keyNow \in Nat
        /\ evaluated \in [Pending -> Nat]
        /\ completed \subseteq Pending /\ spent \subseteq Proof /\ twice \in BOOLEAN
        /\ reported \subseteq {"row", "deletion", "factor"}
    BY DEF Init
  <2> QED  BY <2>1, <2>2, <2>3, <2>4 DEF TypeOK
<1>3. FreshInv
  BY <1>1, NoWorkType DEF FreshInv
<1>4. RequestInv
  BY <1>1 DEF RequestInv, TokenOf, LockOf, BudgetOf, MoveOf, ProofOf, SeenOf, Proven
<1>5. CountInv
  <2>1. \A token \in Pending : Evaluating(token) = {}
    BY <1>1 DEF Evaluating
  <2> QED  BY <1>1, <2>1, FS_EmptySet, SecondFactorsAssumption DEF CountInv, Unissued
<1>6. LastInv /\ SpentInv
  BY <1>1, SecondFactorsAssumption
  DEF LastInv, BookingsBlameNobody, SpentInv, OneSessionPerProof
<1> QED  BY <1>2, <1>3, <1>4, <1>5, <1>6 DEF FactorsInv

LEMMA FactorsInvNext == FactorsInv /\ [Next]_vars => FactorsInv'
<1> SUFFICES ASSUME FactorsInv, [Next]_vars PROVE FactorsInv'
  OBVIOUS
<1>1. ASSUME NEW r \in Request, Proceed(r) PROVE FactorsInv'
  BY <1>1, ReadAccountStateKeeps, InsertPendingKeeps, BookRowKeeps, MissRowKeeps,
     CommitBookingKeeps, RollBackBookingKeeps, RefuseSealKeeps, BookUnsealedKeeps,
     RereadRowKeeps, RejectFactorKeeps, MatchStepKeeps, SpendCodeKeeps, ClaimStepKeeps,
     FailAttemptKeeps, BeginConsumeKeeps, ConsumePendingKeeps, IssueSessionKeeps
  DEF Proceed
<1>2. ASSUME NEW r \in Request, NEW token \in Pending,
             CheckFirstFactor(r, token) \/ PresentToken(r, token)
      PROVE  FactorsInv'
  BY <1>2, CheckFirstFactorKeeps, PresentTokenKeeps
<1>3. ASSUME NEW disabled \in BOOLEAN, SetDisabled(disabled) PROVE FactorsInv'
  BY <1>3, SetDisabledKeeps, Zenon
<1>4. ASSUME NEW step \in TimeStep, RemoveTotp(step) \/ EnrolTotp(step) PROVE FactorsInv'
  BY <1>4, RemoveTotpKeeps, EnrolTotpKeeps
<1>5. ASSUME NEW token \in Pending, Cancel(token) \/ Expire(token) \/ Rebind(token)
      PROVE  FactorsInv'
  BY <1>5, CancelKeeps, ExpireKeeps, RebindKeeps
<1>6. ASSUME NEW r \in Request, Crash(r) PROVE FactorsInv'
  BY <1>6, CrashKeeps
<1>7. ASSUME Environment PROVE FactorsInv'
  BY <1>3, <1>4, <1>5, <1>6, <1>7, RevokeEveryKeeps, GenerateCodesKeeps, RotateKeyKeeps, Zenon
  DEF Environment
<1> QED  BY <1>1, <1>2, <1>7, RotateKeyKeeps DEF Next

LEMMA FactorsInvAlways == Spec => []FactorsInv
BY FactorsInvInit, FactorsInvNext, PTL DEF Spec

-----------------------------------------------------------------------------
(* The theorems.                                                           *)

\* Every value the rows, the requests and the account take is one the code can hold.
THEOREM SecondFactorsTyped == Spec => []TypeOK
BY FactorsInvAlways, PTL DEF FactorsInv

\* However many requests, crashes, rebindings and refused seals there are, no factor
\* is evaluated before countAttemptStatement counted its attempt, and no row is
\* counted past MAXIMUM_PENDING_ATTEMPTS.
THEOREM EveryEvaluationIsCounted == Spec => []AttemptsAreCounted
<1>1. FactorsInv => AttemptsAreCounted
  <2> SUFFICES ASSUME FactorsInv, NEW token \in Pending
               PROVE  /\ evaluated[token] <= rows[token].attempts
                      /\ rows[token].attempts <= MaximumPendingAttempts
    BY DEF AttemptsAreCounted
  <2>1. /\ IsFiniteSet(Evaluating(token))
        /\ evaluated[token] + Cardinality(Evaluating(token)) <= rows[token].attempts
        /\ rows[token].attempts <= MaximumPendingAttempts
    BY DEF FactorsInv, CountInv
  <2>2. Cardinality(Evaluating(token)) \in Nat
    BY <2>1, FS_CardinalityType
  <2>3. evaluated[token] \in Nat /\ rows[token].attempts \in Nat
    BY Types, RowFields DEF FactorsInv
  <2> QED  BY <2>1, <2>2, <2>3
<1> QED  BY <1>1, FactorsInvAlways, PTL

\* A pending row, a time step of one secret and a recovery code of one set stand for
\* one session at most, for any number of requests that present them at once.
THEOREM ProofsAreSpentOnce == Spec => []OneSessionPerProof
BY FactorsInvAlways, PTL DEF FactorsInv, SpentInv

\* Where only the library writes, a booking, the read after a missed one and a presented
\* token never report a row as written back; consume reports one only if another attempt on
\* it was booked between the snapshot of deleteStatement and the row's lock.
THEOREM OnlyRacingDeletionsBlame == Spec => OnlyRacingDeletionsAreBlamed
<1> DEFINE Races == \E r \in Request :
             /\ pc[r] = "consuming" /\ Present(work[r].token)
             /\ rows[work[r].token].generation > work[r].seen.attempt
<1>1. ASSUME FactorsInv, [Next]_vars, "deletion" \in reported' \ reported PROVE Races
  <2>1. PICK r \in Request : ConsumePending(r)
    <3>1. ASSUME NEW r \in Request, Proceed(r), ~ ConsumePending(r) PROVE FALSE
      <4>1. \/ ReadAccountState(r) \/ InsertPending(r) \/ BookRow(r) \/ MissRow(r)
            \/ CommitBooking(r) \/ RollBackBooking(r) \/ RefuseSeal(r) \/ BookUnsealed(r)
            \/ RereadRow(r) \/ RejectFactor(r) \/ ClaimStep(r) \/ FailAttempt(r)
            \/ BeginConsume(r) \/ IssueSession(r)
            \/ (\E step \in TimeStep : MatchStep(r, step)) \/ (\E code \in Code : SpendCode(r, code))
        BY <3>1 DEF Proceed
      <4>2. CASE InsertPending(r) \/ RollBackBooking(r) \/ RereadRow(r)
        BY <1>1, <4>2 DEF InsertPending, RollBackBooking, RereadRow
      <4>3. CASE ~ (InsertPending(r) \/ RollBackBooking(r) \/ RereadRow(r))
        BY <1>1, <4>1, <4>3 DEF history, ReadAccountState, BookRow, MissRow, CommitBooking,
           RefuseSeal, BookUnsealed, RejectFactor, ClaimStep, FailAttempt, BeginConsume,
           IssueSession, MatchStep, SpendCode
      <4> QED  BY <4>2, <4>3
    <3>2. ASSUME NEW r \in Request, NEW token \in Pending,
                 CheckFirstFactor(r, token) \/ PresentToken(r, token)
          PROVE  FALSE
      BY <1>1, <3>2 DEF history, CheckFirstFactor, PresentToken, Blame
    <3>3. ASSUME Environment PROVE FALSE
      BY <1>1, <3>3 DEF Environment, history, RevokeEvery, SetDisabled, RemoveTotp, EnrolTotp,
         GenerateCodes, Cancel, Expire, Rebind, RotateKey, Crash
    <3>4. ASSUME UNCHANGED vars PROVE FALSE
      BY <1>1, <3>4 DEF vars, history
    <3> QED  BY <1>1, <3>1, <3>2, <3>3, <3>4 DEF Next
  <2>2. /\ pc[r] = "consuming" /\ Present(work[r].token)
        /\ WrittenBack(work[r].token, rows[work[r].token], work[r].seen)
    BY <1>1, <2>1 DEF ConsumePending
  <2>3. work[r].token \in Pending /\ SeenOf(r)
    BY <1>1, <2>2 DEF FactorsInv, RequestInv, TokenOf
  <2>4. rows[work[r].token].generation \in Nat /\ work[r].seen.attempt \in Nat
    BY <1>1, <2>3, Types, RowFields, WorkFields DEF FactorsInv, Seen
  <2>5. rows[work[r].token].generation > work[r].seen.attempt
    BY <2>2, <2>3, <2>4 DEF SeenOf, WrittenBack
  <2> QED  BY <2>2, <2>5
<1> HIDE DEF Races
<1>2. FactorsInv' => "row" \notin reported'
  BY DEF FactorsInv, LastInv, BookingsBlameNobody
<1>3. FactorsInv /\ FactorsInv' /\ [Next]_vars =>
        [/\ "row" \notin reported' /\ ("deletion" \in reported' \ reported => Races)]_vars
  BY <1>1, <1>2
<1>4. Spec => [][/\ "row" \notin reported'
                 /\ ("deletion" \in reported' \ reported => Races)]_vars
  BY <1>3, FactorsInvAlways, PTL DEF Spec
<1> QED  BY <1>4 DEF OnlyRacingDeletionsAreBlamed, Races

\* complete issues a session only while the epoch of the pending row is the
\* account's and what the second factor proved is of the account's secret or set.
THEOREM CompletionsStandOnBothFactors == Spec => CompletionStandsOnBothFactors
<1> DEFINE Completes(token) ==
             \E r \in Request :
               /\ work[r].token = token
               /\ rows[token].epoch = seal.epoch
               /\ \A proof \in work[r].proof : Held(proof)
<1>1. ASSUME FactorsInv, [Next]_vars, NEW token \in completed' \ completed PROVE Completes(token)
  <2>1. PICK r \in Request : IssueSession(r)
    BY <1>1, ZenonT(60)
    DEF Next, vars, accountVars, history, CheckFirstFactor, PresentToken, Proceed,
        ReadAccountState, InsertPending, BookRow, MissRow, CommitBooking, RollBackBooking,
        RefuseSeal, BookUnsealed, RereadRow, RejectFactor, MatchStep, SpendCode, ClaimStep,
        FailAttempt, BeginConsume, ConsumePending, Environment, RevokeEvery, SetDisabled, RemoveTotp,
        EnrolTotp, GenerateCodes, Cancel, Expire, Rebind, RotateKey, Crash
  <2>2. pc[r] = "consumed" /\ Authorised(r) /\ token = work[r].token
    BY <1>1, <2>1 DEF IssueSession
  <2>3. ProofOf(r) /\ SeenOf(r)
    BY <1>1 DEF FactorsInv, RequestInv
  <2>4. Proven(r) /\ work[r].epoch = seal.epoch
    BY <2>2 DEF Proven, Fresh, Authorised
  <2> QED  BY <2>2, <2>3, <2>4 DEF ProofOf, SeenOf
<1>2. FactorsInv /\ [Next]_vars =>
        [\A token \in completed' \ completed : Completes(token)]_vars
  BY <1>1
<1> QED  BY <1>2, FactorsInvAlways, PTL DEF Spec, CompletionStandsOnBothFactors

=============================================================================
