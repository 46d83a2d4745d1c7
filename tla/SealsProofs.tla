---------------------------- MODULE SealsProofs ----------------------------
(* Theorems about Seals: what an anchor may hold, that requests which only *)
(* interleave are not reported, and that rows put back stay unusable.      *)
EXTENDS Seals, TLAPS, WellFoundedInduction

(***************************************************************************)
(* The inductive invariant.                                                *)
(***************************************************************************)

Held == Seal \cup {NoSeal}

\* A stored row is a committed one or one whose digest does not verify.
Stored(s) == s = NoSeal \/ s \in written \/ s.digest = Unverifiable

\* What a request or an anchor holds is the stored seal or an older one.
Fits(x) == x = NoSeal \/ x = seal \/ VersionOf(x) < VersionOf(seal)

WrittenInv ==
    /\ Stored(seal)
    /\ \A r \in Request : Stored(read[r])
    /\ AnchorsHearOnlyCommittedSeals

\* A floor overtakes an answer only by a seal that is not above the stored one.
OrderInv ==
    /\ \A m \in sent : m.seal.version <= VersionOf(seal)
    /\ \A r \in Request : VersionOf(read[r]) <= VersionOf(seal)
    /\ \A r \in Request, a \in Anchor : reading[r][a] \in Held =>
         /\ VersionOf(reading[r][a]) <= VersionOf(floor[a])
         /\ \/ VersionOf(floor[a]) <= VersionOf(reading[r][a])
            \/ VersionOf(floor[a]) <= VersionOf(seal)

\* The holder of the account lock works on the stored seal, which no anchor is
\* ahead of.
LockInv ==
    \A r \in Request : step[r] = "sealing" =>
        /\ ~ lost
        /\ read[r] = seal
        /\ VersionOf(seal) < MaximumSealNumber
        /\ \A a \in Anchor : VersionOf(floor[a]) <= VersionOf(seal)
        /\ \A q \in Request : step[q] = "sealing" => q = r

\* No rows were put back: everything is the stored seal or older than it.
HonestInv ==
    ~ lost =>
        /\ StateVerdict(seal) \notin {"seal_missing", "seal_mismatch"}
        /\ \A a \in Anchor : Fits(floor[a])
        /\ \A m \in sent : Fits(m.seal)
        /\ \A r \in Request : Fits(read[r])
        /\ \A r \in Request, a \in Anchor :
             reading[r][a] \in Held => Fits(reading[r][a])

\* Rows were put back: every request that gets all its answers can tell.
LostInv ==
    lost =>
        /\ Noticeable(seal)
        /\ sent = {}
        /\ \A r \in Request, a \in Anchor :
             reading[r][a] \in {Unasked, Malformed, floor[a]}
        /\ \A r \in Request : step[r] = "resolving" => read[r] = seal

SealsInv ==
    /\ TypeOK
    /\ WrittenInv
    /\ OrderInv
    /\ LockInv
    /\ HonestInv
    /\ LostInv
    /\ NoRequestIsBlamed

(***************************************************************************)
(* Numbers: Base(r) is the greatest version among finitely many.           *)
(***************************************************************************)

\* A nonempty set of natural numbers has a least element.
LEMMA LeastExists ==
  ASSUME NEW S \in SUBSET Nat, S # {}
  PROVE  \E x \in S : \A y \in S : x <= y
<1> DEFINE R == {ss \in Nat \X Nat : ss[1] < ss[2]}
<1>1. IsWellFoundedOn(R, Nat)
  BY NatLessThanWellFounded DEF OpToRel
<1>2. \E x \in S : \A y \in S : <<y, x>> \notin R
  <2> HIDE DEF R
  <2> QED  BY <1>1, WFMin
<1>3. \A x, y \in Nat : <<y, x>> \notin R => x <= y
  BY SMT
<1> QED  BY <1>2, <1>3

\* A nonempty set of natural numbers with a bound has a greatest element.
LEMMA GreatestExists ==
  ASSUME NEW N \in Nat, NEW S \in SUBSET (0 .. N), S # {}
  PROVE  \E x \in S : \A y \in S : y <= x
<1> DEFINE T == {N - x : x \in S}
<1>1. T \in SUBSET Nat
  BY SMT
<1>2. T # {}
  OBVIOUS
<1>3. PICK t \in T : \A u \in T : t <= u
  BY <1>1, <1>2, LeastExists
<1>4. PICK x \in S : t = N - x
  OBVIOUS
<1>5. \A y \in S : y <= x
  BY <1>3, <1>4
<1> QED  BY <1>5

\* Versions are natural numbers up to the highest one; only the absence of a
\* seal has none.
LEMMA VersionType ==
  ASSUME NEW s \in Held
  PROVE  /\ VersionOf(s) \in 0 .. MaximumSealNumber
         /\ s # NoSeal => VersionOf(s) = s.version /\ s.version \in Version
         /\ VersionOf(s) = 0 <=> s = NoSeal
BY BoundsAssumption, SealsAssumption DEF Held, Seal, VersionOf, Version

\* The version a reseal builds on is one of those it read, and none is higher.
LEMMA BaseIsHighest ==
  ASSUME NEW r \in Request, seal \in Held,
         \A a \in Anchor : reading[r][a] \in Held
  PROVE  /\ Base(r) \in 0 .. MaximumSealNumber
         /\ VersionOf(seal) <= Base(r)
         /\ \A a \in Anchor : VersionOf(reading[r][a]) <= Base(r)
<1> DEFINE Holdings == {seal} \cup {reading[r][a] : a \in Anchor}
           Versions == {VersionOf(s) : s \in Holdings}
<1>1. Holdings \subseteq Held
  OBVIOUS
<1>2. Versions \subseteq 0 .. MaximumSealNumber
  BY <1>1, VersionType
<1>3. Versions # {} /\ MaximumSealNumber \in Nat
  BY BoundsAssumption
<1>4. \E v \in Versions : \A w \in Versions : w <= v
  BY <1>2, <1>3, GreatestExists
<1>5. Base(r) = CHOOSE v \in Versions : \A w \in Versions : w <= v
  BY DEF Base
<1>6. Base(r) \in Versions /\ \A w \in Versions : w <= Base(r)
  BY <1>4, <1>5
<1>7. VersionOf(seal) \in Versions /\ \A a \in Anchor : VersionOf(reading[r][a]) \in Versions
  OBVIOUS
<1> QED  BY <1>2, <1>6, <1>7

(***************************************************************************)
(* The verdicts.                                                           *)
(***************************************************************************)

\* A state passes if every anchor answered and holds nothing newer and no other
\* seal of the same version; otherwise it fails by the anchors.
LEMMA AnchorsDecide ==
  ASSUME NEW s \in Held, NEW answers \in [Anchor -> Held \cup {Malformed}]
  PROVE  /\ AnchorVerdict(s, answers) \in {"ahead_of_anchor", "within_floor"} <=>
              \A a \in Anchor : /\ answers[a] # Malformed
                                /\ \/ answers[a] = NoSeal \/ answers[a] = s
                                   \/ VersionOf(answers[a]) < VersionOf(s)
         /\ AnchorVerdict(s, answers) = "anchor_unavailable" <=>
              \E a \in Anchor : answers[a] = Malformed
         /\ AnchorVerdict(s, answers) = "ahead_of_anchor" => s # NoSeal
<1> DEFINE floors == {answers[a] : a \in Anchor} \ {NoSeal}
<1>1. Malformed \in floors <=> \E a \in Anchor : answers[a] = Malformed
  BY SealsAssumption
<1>2. CASE Malformed \in floors
  BY <1>1, <1>2 DEF AnchorVerdict
<1>3. CASE Malformed \notin floors
  <2>1. \A a \in Anchor : answers[a] \in Held
    BY <1>1, <1>3
  <2>2. VersionOf(s) \in Nat /\ \A a \in Anchor : VersionOf(answers[a]) \in Nat
    BY <2>1, VersionType
  <2>3. \A f \in floors : f \in Held /\ f # NoSeal /\ VersionOf(f) = f.version /\ f.version \in Nat
    BY <2>1, VersionType DEF Version
  <2>4. (\E f \in floors : VersionOf(s) < f.version)
          <=> \E a \in Anchor : VersionOf(s) < VersionOf(answers[a])
    <3>1. \A a \in Anchor : VersionOf(s) < VersionOf(answers[a]) => answers[a] \in floors
      BY <2>1, <2>2, VersionType
    <3> QED  BY <3>1, <2>1, <2>3
  <2>5. (\E f \in floors : VersionOf(s) = f.version /\ s # f)
          <=> \E a \in Anchor : answers[a] # NoSeal /\ VersionOf(s) = VersionOf(answers[a]) /\ s # answers[a]
    BY <2>1, <2>3
  <2>6. (\E a \in Anchor : VersionOf(s) > VersionOf(answers[a])) => s # NoSeal
    BY <2>2, VersionType
  <2>7. AnchorVerdict(s, answers) =
          IF \E a \in Anchor : VersionOf(s) < VersionOf(answers[a])
            THEN "version_below_anchor"
          ELSE IF \E a \in Anchor : /\ answers[a] # NoSeal /\ s # answers[a]
                                    /\ VersionOf(s) = VersionOf(answers[a])
            THEN "anchor_mismatch"
          ELSE IF \E a \in Anchor : VersionOf(s) > VersionOf(answers[a])
            THEN "ahead_of_anchor"
          ELSE "within_floor"
    <3> DEFINE Newer == \E f \in floors : VersionOf(s) < f.version
               Other == \E f \in floors : VersionOf(s) = f.version /\ s # f
    <3>1. AnchorVerdict(s, answers) =
            IF Malformed \in floors THEN "anchor_unavailable"
            ELSE IF Newer THEN "version_below_anchor"
            ELSE IF Other THEN "anchor_mismatch"
            ELSE IF \E a \in Anchor : VersionOf(s) > VersionOf(answers[a])
                   THEN "ahead_of_anchor"
            ELSE "within_floor"
      BY DEF AnchorVerdict
    <3>2. Newer <=> \E a \in Anchor : VersionOf(s) < VersionOf(answers[a])
      BY <2>4
    <3>3. Other <=> \E a \in Anchor : /\ answers[a] # NoSeal /\ s # answers[a]
                                     /\ VersionOf(s) = VersionOf(answers[a])
      BY <2>5
    <3> HIDE DEF Newer, Other, floors
    <3> QED  BY <3>1, <3>2, <3>3, <1>3
  <2>8. \A a \in Anchor : answers[a] = NoSeal => VersionOf(answers[a]) = 0
    BY DEF VersionOf
  <2> HIDE DEF floors
  <2> QED  BY <1>1, <1>3, <2>2, <2>6, <2>7, <2>8
<1> QED  BY <1>2, <1>3

Broken == {"seal_missing", "seal_mismatch"}

\* A read is used if its own state is sound and no anchor is ahead of it.
LEMMA RefusalDecides ==
  ASSUME NEW s \in Held, NEW answers \in [Anchor -> Held \cup {Malformed}]
  PROVE  /\ Refusal(s, answers) = "none" =>
              /\ StateVerdict(s) \notin Broken
              /\ \A a \in Anchor : /\ answers[a] # Malformed
                                   /\ \/ answers[a] = NoSeal \/ answers[a] = s
                                      \/ VersionOf(answers[a]) < VersionOf(s)
         /\ (/\ StateVerdict(s) \notin Broken
             /\ \A a \in Anchor : \/ answers[a] = Malformed \/ answers[a] = NoSeal
                                  \/ answers[a] = s
                                  \/ VersionOf(answers[a]) < VersionOf(s))
              => Refusal(s, answers) \in {"none", "anchor_unavailable"}
         /\ Refusal(s, answers) = "none" /\ AnchorVerdict(s, answers) = "ahead_of_anchor"
              => s # NoSeal
<1>1. AnchorVerdict(s, answers) # "none"
  BY DEF AnchorVerdict
<1>2. StateVerdict(s) # "none"
  BY DEF StateVerdict
<1>3. Refusal(s, answers) = IF StateVerdict(s) \in Broken THEN StateVerdict(s)
        ELSE IF AnchorVerdict(s, answers) \in {"ahead_of_anchor", "within_floor"} THEN "none"
        ELSE AnchorVerdict(s, answers)
  BY DEF Refusal, Broken
<1>4. CASE StateVerdict(s) \in Broken
  BY <1>2, <1>3, <1>4
<1>5. CASE StateVerdict(s) \notin Broken
  <2>1. Refusal(s, answers) = "none"
          <=> AnchorVerdict(s, answers) \in {"ahead_of_anchor", "within_floor"}
    BY <1>1, <1>3, <1>5
  <2>2. AnchorVerdict(s, answers) = "anchor_unavailable"
          => Refusal(s, answers) = "anchor_unavailable"
    BY <1>3, <1>5
  <2> QED  BY <1>5, <2>1, <2>2, AnchorsDecide
<1> QED  BY <1>4, <1>5

\* The answers to a request that has all of them.
LEMMA AskedType ==
  ASSUME TypeOK, NEW r \in Request, Asked(r)
  PROVE  reading[r] \in [Anchor -> Held \cup {Malformed}]
<1>1. reading[r] \in [Anchor -> Seal \cup {NoSeal, Unasked, Malformed}]
  BY DEF TypeOK
<1> QED  BY <1>1 DEF Asked, Held

\* Without rows put back the stored seal is refused at most because an anchor
\* did not answer.
LEMMA HonestSealPasses ==
  ASSUME SealsInv, ~ lost, NEW r \in Request, Asked(r)
  PROVE  Refusal(seal, reading[r]) \in {"none", "anchor_unavailable"}
<1>1. seal \in Held
  BY DEF SealsInv, TypeOK, Held
<1>2. reading[r] \in [Anchor -> Held \cup {Malformed}]
  BY AskedType DEF SealsInv
<1>3. \A a \in Anchor : reading[r][a] \in Held => Fits(reading[r][a])
  BY DEF SealsInv, HonestInv
<1>4. \A a \in Anchor : \/ reading[r][a] = Malformed \/ reading[r][a] = NoSeal
                        \/ reading[r][a] = seal
                        \/ VersionOf(reading[r][a]) < VersionOf(seal)
  BY <1>2, <1>3 DEF Fits
<1>5. StateVerdict(seal) \notin Broken
  BY DEF SealsInv, HonestInv, Broken
<1> QED  BY <1>1, <1>2, <1>4, <1>5, RefusalDecides

\* With rows put back it is refused by whoever has all the answers.
LEMMA LostSealFails ==
  ASSUME SealsInv, lost, NEW r \in Request, Asked(r)
  PROVE  Refusal(seal, reading[r]) # "none"
<1> SUFFICES ASSUME Refusal(seal, reading[r]) = "none"
             PROVE  FALSE
  OBVIOUS
<1>1. seal \in Held /\ \A a \in Anchor : floor[a] \in Held
  BY DEF SealsInv, TypeOK, Held
<1>2. reading[r] \in [Anchor -> Held \cup {Malformed}]
  BY AskedType DEF SealsInv
<1>3. /\ StateVerdict(seal) \notin Broken
      /\ \A a \in Anchor : /\ reading[r][a] # Malformed
                           /\ \/ reading[r][a] = NoSeal \/ reading[r][a] = seal
                              \/ VersionOf(reading[r][a]) < VersionOf(seal)
  BY <1>1, <1>2, RefusalDecides
<1>4. \A a \in Anchor : reading[r][a] = floor[a]
  BY <1>3 DEF SealsInv, LostInv, Asked
<1>5. Noticeable(seal)
  BY DEF SealsInv, LostInv
<1>6. PICK a \in Anchor : floor[a] # NoSeal /\ seal # floor[a]
                          /\ VersionOf(seal) <= floor[a].version
  BY <1>3, <1>5 DEF Noticeable, StateVerdict, Broken
<1>7. VersionOf(floor[a]) < VersionOf(seal)
  BY <1>3, <1>4, <1>6
<1>8. VersionOf(floor[a]) = floor[a].version /\ floor[a].version \in Nat /\ VersionOf(seal) \in Nat
  BY <1>1, <1>6, VersionType DEF Version
<1> QED  BY <1>6, <1>7, <1>8

(***************************************************************************)
(* The invariant is inductive.                                             *)
(***************************************************************************)

\* A first account: sealed by the sign-up, or unsealed while migrating.
LEMMA SealsInvInit == Init => SealsInv
<1> SUFFICES ASSUME Init PROVE SealsInv
  OBVIOUS
<1>1. First \in Seal /\ VersionOf(First) = 1
  BY BoundsAssumption, SealsAssumption DEF First, Seal, Version, VersionOf
<1>2. seal \in Held /\ written = {seal} \ {NoSeal} /\ Stored(seal)
  BY <1>1 DEF Init, Held, Stored
<1>3. sent \subseteq [to : Anchor, seal : Seal] /\ \A m \in sent : m.seal = seal /\ seal # NoSeal
  BY <1>1 DEF Init, ToEveryAnchor
<1>4. TypeOK
  <2>1. written \subseteq Seal /\ seal \in Seal \cup {NoSeal}
    BY <1>1, <1>2 DEF Init, Held
  <2>2. outages \in 0 .. MaxOutages /\ restarts \in 0 .. MaxRestarts
    BY BoundsAssumption DEF Init
  <2> QED  BY <1>3, <2>1, <2>2 DEF Init, TypeOK
<1>5. WrittenInv
  BY <1>2, <1>3 DEF Init, WrittenInv, Stored, AnchorsHearOnlyCommittedSeals
<1>6. \A r \in Request, a \in Anchor : reading[r][a] \notin Held
  BY SealsAssumption DEF Init, Held
<1>7. OrderInv
  BY <1>2, <1>3, <1>6, VersionType DEF Init, OrderInv, VersionOf
<1>8. LockInv /\ LostInv /\ NoRequestIsBlamed
  BY DEF Init, LockInv, LostInv, NoRequestIsBlamed
<1>9. HonestInv
  BY <1>1, <1>3, <1>6, SealsAssumption
  DEF Init, HonestInv, Fits, StateVerdict, First, Unverifiable
<1> QED  BY <1>4, <1>5, <1>7, <1>8, <1>9 DEF SealsInv

\* Every version a variable holds is a number.
LEMMA VersionsType ==
  ASSUME TypeOK
  PROVE  /\ VersionOf(seal) \in 0 .. MaximumSealNumber
         /\ \A a \in Anchor : VersionOf(floor[a]) \in 0 .. MaximumSealNumber
         /\ \A r \in Request : VersionOf(read[r]) \in 0 .. MaximumSealNumber
         /\ \A m \in sent : /\ VersionOf(m.seal) \in 0 .. MaximumSealNumber
                            /\ m.seal \in Seal /\ m.seal # NoSeal /\ m.to \in Anchor
                            /\ VersionOf(m.seal) = m.seal.version
<1>1. /\ seal \in Held
      /\ \A a \in Anchor : floor[a] \in Held
      /\ \A r \in Request : read[r] \in Held
  BY DEF TypeOK, Held
<1>2. \A m \in sent : m.seal \in Seal /\ m.seal # NoSeal /\ m.to \in Anchor /\ m.seal \in Held
  BY SealsAssumption DEF TypeOK, Held
<1> QED  BY <1>1, <1>2, VersionType

\* A request begins, or asks one more anchor.
LEMMA BeginKeeps ==
  ASSUME SealsInv, NEW r \in Request, Begin(r) \/ BeginResolution(r)
  PROVE  SealsInv'
<1> USE DEF SealsInv, Begin, BeginResolution, account, request, history
<1>1. TypeOK'
  <2>1. step' \in [Request -> {"idle", "asking", "resolving", "sealing"}]
    BY DEF TypeOK
  <2>2. read' \in [Request -> Seal \cup {NoSeal}]
    BY DEF TypeOK
  <2> QED  BY <2>1, <2>2 DEF TypeOK
<1>2. WrittenInv'
  BY DEF TypeOK, WrittenInv, Stored, AnchorsHearOnlyCommittedSeals
<1>3. OrderInv'
  BY VersionsType DEF TypeOK, OrderInv
<1>4. LockInv'
  BY DEF TypeOK, LockInv
<1>5. HonestInv'
  BY DEF TypeOK, HonestInv, Fits, StateVerdict, Held
<1>6. LostInv'
  BY DEF TypeOK, LostInv, Noticeable
<1>7. NoRequestIsBlamed'
  BY DEF NoRequestIsBlamed
<1> QED  BY <1>1, <1>2, <1>3, <1>4, <1>5, <1>6, <1>7

LEMMA AskKeeps ==
  ASSUME SealsInv, NEW r \in Request, NEW a \in Anchor, Ask(r, a)
  PROVE  SealsInv'
<1> USE DEF SealsInv, Ask, account, request, history
<1>0. \A q \in Request, b \in Anchor :
        \/ reading'[q][b] = reading[q][b]
        \/ q = r /\ b = a /\ reading'[q][b] \in {floor[a], Malformed}
  BY DEF TypeOK
<1>1. TypeOK'
  <2>1. reading' \in [Request -> [Anchor -> Seal \cup {NoSeal, Unasked, Malformed}]]
    BY DEF TypeOK
  <2>2. outages' \in 0 .. MaxOutages
    BY BoundsAssumption DEF TypeOK
  <2> QED  BY <2>1, <2>2 DEF TypeOK
<1>2. WrittenInv'
  BY DEF TypeOK, WrittenInv, Stored, AnchorsHearOnlyCommittedSeals
<1>3. OrderInv'
  <2>1. Malformed \notin Held
    BY SealsAssumption DEF Held
  <2> QED  BY <1>0, <2>1, VersionsType DEF OrderInv
<1>4. LockInv'
  BY DEF TypeOK, LockInv
<1>5. HonestInv'
  <2>1. Malformed \notin Held
    BY SealsAssumption DEF Held
  <2> QED  BY <1>0, <2>1 DEF HonestInv, Fits, StateVerdict
<1>6. LostInv'
  BY <1>0 DEF LostInv, Noticeable
<1>7. NoRequestIsBlamed'
  BY DEF NoRequestIsBlamed
<1> QED  BY <1>1, <1>2, <1>3, <1>4, <1>5, <1>6, <1>7

\* A request ends: what it held is gone.
LEMMA EndType ==
  ASSUME TypeOK, NEW r \in Request, NEW how, End(r, how)
  PROVE  /\ step' \in [Request -> {"idle", "asking", "resolving", "sealing"}]
         /\ reading' \in [Request -> [Anchor -> Seal \cup {NoSeal, Unasked, Malformed}]]
         /\ read' \in [Request -> Seal \cup {NoSeal}]
         /\ attempt' \in [Request -> {1, 2}]
         /\ step'[r] = "idle" /\ read'[r] = NoSeal
         /\ \A a \in Anchor : reading'[r][a] = Unasked
         /\ \A q \in Request : q # r => /\ step'[q] = step[q]
                                        /\ read'[q] = read[q]
                                        /\ reading'[q] = reading[q]
BY DEF End, TypeOK

\* A check or a resolution ends with its verdict.  A read that is used is a
\* committed seal, so that it may be told to an anchor that is behind.
LEMMA JudgeKeeps ==
  ASSUME SealsInv, NEW r \in Request, NEW kind \in {"check", "resolve"}, NEW s \in Held,
         Asked(r), Judge(r, kind, s),
         Stored(s), VersionOf(s) <= VersionOf(seal), ~ lost => Fits(s),
         kind = "check" \/ lost => s = seal
  PROVE  /\ SealsInv'
         /\ lost => answer' = "broken"
<1> DEFINE refusal == Refusal(s, reading[r])
<1> USE DEF SealsInv
<1>1. reading[r] \in [Anchor -> Held \cup {Malformed}]
  BY AskedType
<1>2. /\ refusal = "none" => StateVerdict(s) \notin Broken
      /\ refusal = "none" /\ AnchorVerdict(s, reading[r]) = "ahead_of_anchor" => s # NoSeal
  BY <1>1, RefusalDecides
<1>3. refusal = "none" /\ AnchorVerdict(s, reading[r]) = "ahead_of_anchor"
        => s \in written /\ s \in Seal
  BY <1>2 DEF Stored, StateVerdict, Broken, Held
<1>4. lost => refusal # "none"
  BY LostSealFails
<1>5. ~ lost /\ kind = "check" => refusal \in {"none", "anchor_unavailable"}
  BY HonestSealPasses
<1>6. /\ End(r, IF refusal = "none" THEN "usable" ELSE "broken")
      /\ Blame(kind, refusal)
      /\ \/ sent' = sent
         \/ sent' = sent \cup ToEveryAnchor(s) /\ s \in written /\ s \in Seal /\ ~ lost
      /\ mode' = mode /\ seal' = seal /\ floor' = floor /\ change' = change
      /\ written' = written /\ lost' = lost /\ outages' = outages /\ restarts' = restarts
  BY <1>3, <1>4 DEF Judge, account
<1> HIDE DEF refusal
<1>7. /\ step' \in [Request -> {"idle", "asking", "resolving", "sealing"}]
      /\ reading' \in [Request -> [Anchor -> Seal \cup {NoSeal, Unasked, Malformed}]]
      /\ read' \in [Request -> Seal \cup {NoSeal}]
      /\ attempt' \in [Request -> {1, 2}]
      /\ step'[r] = "idle" /\ read'[r] = NoSeal
      /\ \A a \in Anchor : reading'[r][a] = Unasked
      /\ \A q \in Request : q # r => /\ step'[q] = step[q]
                                     /\ read'[q] = read[q]
                                     /\ reading'[q] = reading[q]
  BY <1>6, EndType
<1>8. \A m \in sent' : m \in sent \/ /\ m.to \in Anchor /\ m.seal = s /\ s \in written
                                     /\ s \in Seal /\ m \in [to : Anchor, seal : Seal]
  BY <1>6 DEF ToEveryAnchor
<1>9. blamed' = blamed \/ blamed' = blamed \cup {"resolve"}
  BY <1>4, <1>5, <1>6 DEF Blame
<1>10. Unasked \notin Held /\ VersionOf(NoSeal) = 0 /\ VersionOf(seal) \in Nat
  BY SealsAssumption, VersionsType DEF Held, VersionOf
<1>11. s \in Seal => VersionOf(s) = s.version
  BY SealsAssumption DEF VersionOf
<1>12. TypeOK'
  <2>1. sent' \subseteq [to : Anchor, seal : Seal]
    BY <1>8 DEF TypeOK
  <2>2. answer' \in {"usable", "broken"}
    BY <1>6 DEF End
  <2>3. blamed' \subseteq Changes \cup {"check", "resolve"}
    BY <1>9 DEF TypeOK
  <2> QED  BY <1>6, <1>7, <2>1, <2>2, <2>3 DEF TypeOK
<1>13. WrittenInv'
  BY <1>6, <1>7, <1>8 DEF WrittenInv, Stored, AnchorsHearOnlyCommittedSeals
<1>14. OrderInv'
  <2>1. \A m \in sent' : m.seal.version <= VersionOf(seal)
    BY <1>8, <1>11 DEF OrderInv
  <2>2. \A q \in Request : VersionOf(read'[q]) <= VersionOf(seal)
    BY <1>7, <1>10 DEF OrderInv
  <2>3. \A q \in Request, a \in Anchor : reading'[q][a] \in Held =>
          reading'[q][a] = reading[q][a] /\ reading[q][a] \in Held
    BY <1>7, <1>10
  <2> QED  BY <1>6, <2>1, <2>2, <2>3 DEF OrderInv
<1>15. LockInv'
  <2> SUFFICES ASSUME NEW q \in Request, step'[q] = "sealing"
               PROVE  /\ q # r /\ step[q] = "sealing" /\ read'[q] = read[q]
                      /\ \A p \in Request : step'[p] = "sealing" => step[p] = "sealing"
    BY <1>6 DEF LockInv
  <2>1. \A p \in Request : step'[p] = "sealing" =>
          p # r /\ step[p] = "sealing" /\ read'[p] = read[p]
    BY <1>7
  <2> QED  BY <2>1
<1>16. HonestInv'
  <2> SUFFICES ASSUME ~ lost PROVE HonestInv'
    BY <1>6 DEF HonestInv
  <2>1. \A m \in sent' : Fits(m.seal)
    BY <1>8 DEF HonestInv
  <2>2. \A q \in Request : read'[q] = NoSeal \/ read'[q] = read[q]
    BY <1>7
  <2>3. \A q \in Request, a \in Anchor : reading'[q][a] \in Held => reading'[q][a] = reading[q][a]
    BY <1>7, <1>10
  <2> QED  BY <1>6, <2>1, <2>2, <2>3 DEF HonestInv, Fits, StateVerdict
<1>17. LostInv'
  BY <1>6, <1>7, ZenonT(30) DEF LostInv, Noticeable
<1>18. NoRequestIsBlamed'
  BY <1>9 DEF NoRequestIsBlamed
<1>19. lost => answer' = "broken"
  BY <1>4, <1>6 DEF End
<1> QED  BY <1>12, <1>13, <1>14, <1>15, <1>16, <1>17, <1>18, <1>19

\* A check judges the stored seal, a resolution the seal it read.
LEMMA CheckKeeps ==
  ASSUME SealsInv, NEW r \in Request, Check(r)
  PROVE  SealsInv' /\ (lost => answer' = "broken")
<1>1. seal \in Held /\ Stored(seal) /\ Fits(seal) /\ VersionOf(seal) \in Nat
  BY VersionsType DEF SealsInv, TypeOK, Held, WrittenInv, Fits
<1>2. VersionOf(seal) <= VersionOf(seal)
  BY <1>1
<1>3. Asked(r) /\ Judge(r, "check", seal)
  BY DEF Check
<1> QED  BY <1>1, <1>2, <1>3, JudgeKeeps

LEMMA ResolveKeeps ==
  ASSUME SealsInv, NEW r \in Request, Resolve(r)
  PROVE  SealsInv' /\ (lost => answer' = "broken")
<1>1. /\ read[r] \in Held /\ Stored(read[r]) /\ VersionOf(read[r]) <= VersionOf(seal)
      /\ ~ lost => Fits(read[r])
  BY DEF SealsInv, TypeOK, Held, WrittenInv, OrderInv, HonestInv
<1>2. lost => read[r] = seal
  BY DEF SealsInv, LostInv, Resolve
<1>3. Asked(r) /\ Judge(r, "resolve", read[r])
  BY DEF Resolve
<1>4. "resolve" = "check" \/ lost => read[r] = seal
  BY <1>2
<1> QED  BY <1>1, <1>3, <1>4, JudgeKeeps

\* A resolution that found an anchor ahead reads again.
LEMMA ReadAgainKeeps ==
  ASSUME SealsInv, NEW r \in Request, ReadAgain(r)
  PROVE  SealsInv'
<1> USE DEF SealsInv, ReadAgain, account, request, history
<1>1. /\ \A q \in Request : /\ q # r => read'[q] = read[q] /\ reading'[q] = reading[q]
      /\ read'[r] = seal
      /\ \A a \in Anchor : reading'[r][a] = Unasked
  BY DEF TypeOK
<1>2. Unasked \notin Held /\ VersionOf(seal) \in Nat
  BY SealsAssumption, VersionsType DEF Held
<1>3. TypeOK'
  <2>1. reading' \in [Request -> [Anchor -> Seal \cup {NoSeal, Unasked, Malformed}]]
    BY DEF TypeOK
  <2>2. read' \in [Request -> Seal \cup {NoSeal}] /\ attempt' \in [Request -> {1, 2}]
    BY DEF TypeOK
  <2> QED  BY <2>1, <2>2 DEF TypeOK
<1>4. WrittenInv'
  BY <1>1 DEF WrittenInv, Stored, AnchorsHearOnlyCommittedSeals
<1>5. OrderInv'
  BY <1>1, <1>2 DEF OrderInv
<1>6. LockInv'
  BY <1>1 DEF LockInv
<1>7. HonestInv'
  BY <1>1, <1>2 DEF HonestInv, Fits, StateVerdict
<1>8. LostInv'
  BY <1>1 DEF LostInv, Noticeable
<1>9. NoRequestIsBlamed'
  BY DEF NoRequestIsBlamed
<1> QED  BY <1>3, <1>4, <1>5, <1>6, <1>7, <1>8, <1>9

\* An anchor records what it is told, or fails to.
LEMMA RecordKeeps ==
  ASSUME SealsInv, NEW m \in sent, Record(m) \/ RecordFails(m)
  PROVE  SealsInv'
<1> USE DEF SealsInv
<1>1. /\ mode' = mode /\ seal' = seal /\ step' = step /\ change' = change
      /\ reading' = reading /\ read' = read /\ attempt' = attempt
      /\ written' = written /\ lost' = lost /\ blamed' = blamed /\ restarts' = restarts
      /\ answer' = "none" /\ sent' = sent \ {m}
      /\ outages' \in 0 .. MaxOutages
  BY BoundsAssumption DEF Record, RecordFails, account, request, history, TypeOK
<1>2. /\ m.seal \in Seal /\ m.seal # NoSeal /\ m.to \in Anchor
      /\ VersionOf(m.seal) = m.seal.version /\ m.seal.version \in Nat
      /\ m.seal.version <= VersionOf(seal) /\ m.seal \in written
      /\ ~ lost
  BY VersionsType DEF WrittenInv, AnchorsHearOnlyCommittedSeals, OrderInv, LostInv
<1>3. /\ floor' \in [Anchor -> Seal \cup {NoSeal}]
      /\ \A a \in Anchor : \/ floor'[a] = floor[a]
                           \/ /\ floor'[a] = m.seal
                              /\ VersionOf(floor[a]) < m.seal.version
  BY <1>2 DEF Record, RecordFails, account, TypeOK
<1>4. /\ VersionOf(seal) \in Nat
      /\ \A a \in Anchor : VersionOf(floor[a]) \in Nat
      /\ \A q \in Request, a \in Anchor :
           reading[q][a] \in Held => VersionOf(reading[q][a]) \in Nat
  BY VersionsType, VersionType
<1>5. TypeOK'
  BY <1>1, <1>3 DEF TypeOK
<1>6. WrittenInv'
  BY <1>1, <1>2, <1>3 DEF WrittenInv, Stored, AnchorsHearOnlyCommittedSeals
<1>7. OrderInv'
  BY <1>1, <1>2, <1>3, <1>4 DEF OrderInv
<1>8. LockInv'
  BY <1>1, <1>2, <1>3, <1>4 DEF LockInv
<1>9. HonestInv'
  <2>1. Fits(m.seal)
    BY <1>2 DEF HonestInv
  <2> QED  BY <1>1, <1>2, <1>3, <2>1 DEF HonestInv, Fits, StateVerdict
<1>10. LostInv'
  BY <1>1, <1>2 DEF LostInv
<1>11. NoRequestIsBlamed'
  BY <1>1 DEF NoRequestIsBlamed
<1> QED  BY <1>5, <1>6, <1>7, <1>8, <1>9, <1>10, <1>11

\* The service restarts over the rows it left or over others.
LEMMA RestartKeeps ==
  ASSUME SealsInv, Restart(seal) \/ \E s \in {NoSeal} \cup written
             \cup [version : Version, digest : {Unverifiable}] : Restart(s)
  PROVE  SealsInv'
<1> USE DEF SealsInv
<1>1. PICK s : /\ Restart(s)
               /\ s \in {seal, NoSeal} \cup written
                          \cup [version : Version, digest : {Unverifiable}]
  OBVIOUS
<1>2. s \in Seal \cup {NoSeal} /\ Stored(s)
  BY <1>1 DEF Stored, TypeOK, Seal, WrittenInv
<1>3. /\ seal' = s /\ mode' = mode /\ floor' = floor /\ written' = written /\ blamed' = blamed
      /\ lost' = IF s = seal THEN lost ELSE Noticeable(s)
      /\ sent' = {} /\ answer' = "none" /\ outages' = outages
      /\ \A r \in Request : step'[r] = "idle" /\ read'[r] = NoSeal
      /\ \A r \in Request, a \in Anchor : reading'[r][a] = Unasked
  BY <1>1 DEF Restart
<1>4. /\ Unasked \notin Held /\ VersionOf(NoSeal) = 0 /\ VersionOf(s) \in Nat
      /\ \A a \in Anchor : VersionOf(floor[a]) \in Nat /\ floor[a] \in Held
      /\ \A a \in Anchor : floor[a] # NoSeal => VersionOf(floor[a]) = floor[a].version
  BY <1>2, SealsAssumption, VersionType DEF Held, VersionOf, TypeOK
<1>5. TypeOK'
  <2>1. /\ step' \in [Request -> {"idle", "asking", "resolving", "sealing"}]
        /\ reading' \in [Request -> [Anchor -> Seal \cup {NoSeal, Unasked, Malformed}]]
        /\ read' \in [Request -> Seal \cup {NoSeal}]
        /\ attempt' \in [Request -> {1, 2}]
        /\ change' = "none"
    BY <1>1 DEF Restart
  <2>2. restarts' \in 0 .. MaxRestarts
    BY <1>1, BoundsAssumption DEF Restart, TypeOK
  <2>3. lost' \in BOOLEAN
    <3>1. Noticeable(s) \in BOOLEAN
      BY DEF Noticeable
    <3>2. lost \in BOOLEAN
      BY DEF TypeOK
    <3> QED  BY <1>3, <3>1, <3>2
  <2> QED  BY <1>2, <1>3, <2>1, <2>2, <2>3 DEF TypeOK
<1>6. WrittenInv'
  BY <1>2, <1>3 DEF WrittenInv, Stored, AnchorsHearOnlyCommittedSeals
<1>7. OrderInv'
  BY <1>3, <1>4 DEF OrderInv
<1>8. LockInv'
  BY <1>3 DEF LockInv
<1>9. HonestInv'
  <2> SUFFICES ASSUME ~ lost' PROVE HonestInv'
    BY DEF HonestInv
  <2>1. StateVerdict(s) \notin {"seal_missing", "seal_mismatch"}
    BY <1>3 DEF HonestInv, StateVerdict, Noticeable
  <2>2. \A a \in Anchor : floor[a] = NoSeal \/ floor[a] = s \/ VersionOf(floor[a]) < VersionOf(s)
    <3>1. CASE s = seal
      BY <1>3, <3>1 DEF HonestInv, Fits
    <3>2. CASE s # seal
      <4>1. ~ Noticeable(s)
        BY <1>3, <3>2
      <4> QED  BY <1>4, <4>1 DEF Noticeable
    <3> QED  BY <3>1, <3>2
  <2> QED  BY <1>3, <1>4, <2>1, <2>2 DEF HonestInv, Fits, StateVerdict
<1>10. LostInv'
  <2>1. lost' => Noticeable(s)
    BY <1>3 DEF LostInv
  <2>2. Noticeable(s) => Noticeable(seal)'
    BY <1>3 DEF Noticeable
  <2> QED  BY <1>3, <2>1, <2>2 DEF LostInv
<1>11. NoRequestIsBlamed'
  BY <1>3 DEF NoRequestIsBlamed
<1> QED  BY <1>5, <1>6, <1>7, <1>8, <1>9, <1>10, <1>11

\* A request that is refused leaves everything else as it was.
LEMMA RefusedKeeps ==
  ASSUME SealsInv, NEW r \in Request, End(r, "refused"),
         UNCHANGED <<account, sent, change, history, outages, restarts>>
  PROVE  SealsInv'
<1> USE DEF SealsInv
<1>1. /\ mode' = mode /\ seal' = seal /\ floor' = floor /\ change' = change /\ sent' = sent
      /\ written' = written /\ lost' = lost /\ blamed' = blamed
      /\ outages' = outages /\ restarts' = restarts /\ answer' = "refused"
  BY DEF End, account, history
<1>2. /\ step' \in [Request -> {"idle", "asking", "resolving", "sealing"}]
      /\ reading' \in [Request -> [Anchor -> Seal \cup {NoSeal, Unasked, Malformed}]]
      /\ read' \in [Request -> Seal \cup {NoSeal}]
      /\ attempt' \in [Request -> {1, 2}]
  BY EndType
<1>3. \A q \in Request : /\ step'[q] = "idle" \/ (step'[q] = step[q] /\ read'[q] = read[q])
                         /\ read'[q] = NoSeal \/ read'[q] = read[q]
  <2>1. /\ step'[r] = "idle" /\ read'[r] = NoSeal
        /\ \A q \in Request : q # r => step'[q] = step[q] /\ read'[q] = read[q]
    BY EndType
  <2> QED  BY <2>1
<1>4. \A q \in Request, a \in Anchor :
        reading'[q][a] = Unasked \/ reading'[q][a] = reading[q][a]
  BY EndType
<1>5. Unasked \notin Held /\ VersionOf(NoSeal) = 0 /\ VersionOf(seal) \in Nat
  BY SealsAssumption, VersionsType DEF Held, VersionOf
<1>6. TypeOK'
  BY <1>1, <1>2 DEF TypeOK
<1>7. WrittenInv'
  BY <1>1, <1>3 DEF WrittenInv, Stored, AnchorsHearOnlyCommittedSeals
<1>8. OrderInv'
  BY <1>1, <1>3, <1>4, <1>5 DEF OrderInv
<1>9. LockInv'
  BY <1>1, <1>3 DEF LockInv
<1>10. HonestInv'
  BY <1>1, <1>3, <1>4, <1>5 DEF HonestInv, Fits, StateVerdict
<1>11. LostInv'
  BY <1>1, <1>3, <1>4 DEF LostInv, Noticeable
<1>12. NoRequestIsBlamed'
  BY <1>1 DEF NoRequestIsBlamed
<1> QED  BY <1>6, <1>7, <1>8, <1>9, <1>10, <1>11, <1>12

\* A change that takes the lock has asked every anchor and found none ahead of
\* what it read under the lock; none can get ahead while it holds the lock,
\* since only seals of commits are on their way.
LEMMA VerifyKeeps ==
  ASSUME SealsInv, NEW r \in Request, NEW kind \in Changes, Verify(r, kind)
  PROVE  SealsInv' /\ answer' \in {"none", "refused"}
<1> USE DEF SealsInv
<1>1. Asked(r) /\ LockFree /\ step[r] = "asking"
  BY DEF Verify
<1>2. CASE ChangeRefusal(r) # "none"
  <2>1. End(r, "refused") /\ Blame(kind, ChangeRefusal(r))
        /\ UNCHANGED <<account, sent, change, written, lost, outages, restarts>>
    BY <1>2 DEF Verify
  <2>2. blamed' = blamed
    <3>1. ~ lost => ChangeRefusal(r) \in {"anchor_unavailable", "version_exhausted"}
      BY <1>1, <1>2, HonestSealPasses DEF ChangeRefusal
    <3> QED  BY <2>1, <3>1 DEF Blame
  <2>3. UNCHANGED <<account, sent, change, history, outages, restarts>>
    BY <2>1, <2>2 DEF history
  <2> QED  BY <2>1, <2>3, RefusedKeeps DEF End
<1>3. CASE ChangeRefusal(r) = "none"
  <2>1. /\ step' = [step EXCEPT ![r] = "sealing"]
        /\ change' = kind
        /\ read' = [read EXCEPT ![r] = seal]
        /\ reading' = [reading EXCEPT ![r] = [a \in Anchor |-> Unasked]]
        /\ answer' = "none"
        /\ attempt' = attempt /\ blamed' = blamed
        /\ mode' = mode /\ seal' = seal /\ floor' = floor /\ sent' = sent
        /\ written' = written /\ lost' = lost /\ outages' = outages /\ restarts' = restarts
    BY <1>3 DEF Verify, account
  <2>2. Refusal(seal, reading[r]) = "none" /\ VersionOf(seal) # MaximumSealNumber
    BY <1>3 DEF ChangeRefusal
  <2>3. ~ lost
    BY <1>1, <2>2, LostSealFails
  <2>4. VersionOf(seal) \in 0 .. MaximumSealNumber /\ VersionOf(seal) < MaximumSealNumber
    BY <2>2, VersionsType, BoundsAssumption
  <2>5. \A a \in Anchor : VersionOf(floor[a]) <= VersionOf(seal)
    BY <2>3, VersionsType DEF HonestInv, Fits, VersionOf
  <2>6. /\ \A q \in Request : q # r => /\ read'[q] = read[q] /\ reading'[q] = reading[q]
                                       /\ step'[q] = step[q] /\ step'[q] # "sealing"
        /\ read'[r] = seal
        /\ \A a \in Anchor : reading'[r][a] = Unasked
    BY <1>1, <2>1 DEF TypeOK, LockFree
  <2>7. Unasked \notin Held
    BY SealsAssumption DEF Held
  <2>8. TypeOK'
    <3>1. reading' \in [Request -> [Anchor -> Seal \cup {NoSeal, Unasked, Malformed}]]
      BY <2>1 DEF TypeOK
    <3>2. read' \in [Request -> Seal \cup {NoSeal}]
      BY <2>1 DEF TypeOK
    <3>3. step' \in [Request -> {"idle", "asking", "resolving", "sealing"}]
      BY <2>1 DEF TypeOK
    <3> QED  BY <2>1, <3>1, <3>2, <3>3 DEF TypeOK
  <2>9. WrittenInv'
    BY <2>1, <2>6 DEF WrittenInv, Stored, AnchorsHearOnlyCommittedSeals
  <2>10. OrderInv'
    BY <2>1, <2>4, <2>6, <2>7 DEF OrderInv
  <2>11. LockInv'
    BY <2>1, <2>3, <2>4, <2>5, <2>6 DEF LockInv
  <2>12. HonestInv'
    BY <2>1, <2>6, <2>7 DEF HonestInv, Fits, StateVerdict
  <2>13. LostInv'
    BY <2>1, <2>3 DEF LostInv
  <2>14. NoRequestIsBlamed'
    BY <2>1 DEF NoRequestIsBlamed
  <2> QED  BY <2>1, <2>8, <2>9, <2>10, <2>11, <2>12, <2>13, <2>14
<1> QED  BY <1>2, <1>3

\* A new seal above all that the others hold or are told keeps the invariant
\* and ends a loss: what a commit and a reseal share.
LEMMA NewSealKeeps ==
  ASSUME SealsInv, NEW r \in Request, NEW new \in Seal, NEW how \in {"sealed", "resealed"},
         End(r, how), seal' = new, new.digest # Unverifiable,
         written' = written \cup {new}, sent' = sent \cup ToEveryAnchor(new),
         lost' = FALSE, change' \in Changes \cup {"none"},
         blamed' = blamed, mode' = mode, floor' = floor,
         outages' = outages, restarts' = restarts,
         \A a \in Anchor : VersionOf(floor[a]) < new.version,
         VersionOf(seal) < new.version,
         \A q \in Request : step[q] = "sealing" => q = r
  PROVE  SealsInv'
<1> USE DEF SealsInv
<1>1. /\ step' \in [Request -> {"idle", "asking", "resolving", "sealing"}]
      /\ reading' \in [Request -> [Anchor -> Seal \cup {NoSeal, Unasked, Malformed}]]
      /\ read' \in [Request -> Seal \cup {NoSeal}]
      /\ attempt' \in [Request -> {1, 2}]
  BY EndType
<1>2. \A q \in Request : step'[q] # "sealing" /\ (read'[q] = NoSeal \/ read'[q] = read[q])
  BY EndType
<1>3. \A q \in Request, a \in Anchor :
        reading'[q][a] = Unasked \/ reading'[q][a] = reading[q][a]
  BY EndType
<1>4. /\ Unasked \notin Held /\ VersionOf(NoSeal) = 0
      /\ VersionOf(new) = new.version /\ new.version \in Nat /\ new # NoSeal /\ new \in Held
  BY SealsAssumption DEF Held, VersionOf, Seal, Version
<1>5. \A m \in sent' : m \in sent \/ /\ m.to \in Anchor /\ m.seal = new
                                     /\ m \in [to : Anchor, seal : Seal]
  <2>1. \A m \in sent' : m \in sent \/ \E a \in Anchor : m = [to |-> a, seal |-> new]
    BY DEF ToEveryAnchor
  <2>2. \A a \in Anchor : /\ [to |-> a, seal |-> new].to = a
                          /\ [to |-> a, seal |-> new].seal = new
                          /\ [to |-> a, seal |-> new] \in [to : Anchor, seal : Seal]
    OBVIOUS
  <2>3. ASSUME NEW m \in sent', m \notin sent
        PROVE  m.to \in Anchor /\ m.seal = new /\ m \in [to : Anchor, seal : Seal]
    <3>1. PICK a \in Anchor : m = [to |-> a, seal |-> new]
      BY <2>1, <2>3
    <3> QED  BY <2>2, <3>1
  <2> QED  BY <2>3
<1>6. /\ VersionOf(seal) \in Nat
      /\ \A a \in Anchor : VersionOf(floor[a]) \in Nat
      /\ \A q \in Request : VersionOf(read[q]) \in Nat
      /\ \A q \in Request, a \in Anchor : reading[q][a] \in Held => VersionOf(reading[q][a]) \in Nat
      /\ \A m \in sent : VersionOf(m.seal) = m.seal.version /\ m.seal.version \in Nat
  BY VersionsType, VersionType
<1>7. \A x \in Held : VersionOf(x) <= VersionOf(seal) => VersionOf(x) < new.version
  BY <1>4, <1>6, VersionType
<1>8. TypeOK'
  <2>1. sent' \subseteq [to : Anchor, seal : Seal]
    BY <1>5 DEF TypeOK
  <2>2. answer' \in {"sealed", "resealed"}
    BY DEF End
  <2> QED  BY <1>1, <2>1, <2>2 DEF TypeOK
<1>9. WrittenInv'
  <2>1. \A m \in sent' : m.seal \in written'
    BY <1>5 DEF WrittenInv, AnchorsHearOnlyCommittedSeals
  <2> QED  BY <1>2, <2>1 DEF WrittenInv, Stored, AnchorsHearOnlyCommittedSeals
<1>10. OrderInv'
  <2>1. \A m \in sent' : m.seal.version <= new.version
    BY <1>4, <1>5, <1>6 DEF OrderInv
  <2>2. \A q \in Request : VersionOf(read'[q]) <= new.version
    BY <1>2, <1>4, <1>6 DEF OrderInv
  <2>3. \A q \in Request, a \in Anchor : reading'[q][a] \in Held =>
          VersionOf(reading'[q][a]) <= VersionOf(floor[a])
    BY <1>3, <1>4 DEF OrderInv
  <2>4. \A a \in Anchor : VersionOf(floor[a]) <= new.version
    BY <1>4, <1>6
  <2> QED  BY <1>4, <2>1, <2>2, <2>3, <2>4 DEF OrderInv
<1>11. LockInv'
  BY <1>2 DEF LockInv
<1>12. HonestInv'
  <2>1. StateVerdict(seal)' = "valid"
    BY <1>4 DEF StateVerdict
  <2>2. \A q \in Request : VersionOf(read'[q]) < new.version
    BY <1>2, <1>4, <1>6 DEF OrderInv, Seal, Version
  <2>3. \A q \in Request, a \in Anchor : reading'[q][a] \in Held =>
          VersionOf(reading'[q][a]) < new.version
    <3>1. \A q \in Request, a \in Anchor : reading[q][a] \in Held =>
            VersionOf(reading[q][a]) <= VersionOf(floor[a])
      BY DEF OrderInv
    <3> QED  BY <1>3, <1>4, <1>6, <3>1
  <2>4. \A m \in sent' : m.seal = new \/ VersionOf(m.seal) < new.version
    BY <1>4, <1>5, <1>6 DEF OrderInv
  <2> QED  BY <1>4, <2>1, <2>2, <2>3, <2>4 DEF HonestInv, Fits
<1>13. LostInv' /\ NoRequestIsBlamed'
  BY DEF LostInv, NoRequestIsBlamed
<1> QED  BY <1>8, <1>9, <1>10, <1>11, <1>12, <1>13

\* The commit writes over the row it read, which is still the stored one.
LEMMA CommitKeeps ==
  ASSUME SealsInv, NEW r \in Request, Commit(r)
  PROVE  /\ SealsInv'
         /\ ~ lost
         /\ seal' # seal => \A a \in Anchor : seal'.version > VersionOf(floor[a])
<1> USE DEF SealsInv
<1>1. /\ step[r] = "sealing" /\ ~ lost /\ read[r] = seal
      /\ VersionOf(seal) < MaximumSealNumber
      /\ \A a \in Anchor : VersionOf(floor[a]) <= VersionOf(seal)
      /\ \A q \in Request : step[q] = "sealing" => q = r
  BY DEF Commit, LockInv
<1>2. /\ seal' = NextSeal(r)
      /\ written' = written \cup ({NextSeal(r)} \ {NoSeal})
      /\ sent' = IF LeavesUnsealed(r) THEN sent ELSE sent \cup ToEveryAnchor(NextSeal(r))
      /\ End(r, "sealed") /\ blamed' = blamed /\ change' = "none"
      /\ mode' = mode /\ floor' = floor /\ lost' = FALSE
      /\ outages' = outages /\ restarts' = restarts
  <2>1. lost \in BOOLEAN
    BY DEF TypeOK
  <2> QED  BY <1>1, <2>1 DEF Commit
<1>3. /\ VersionOf(seal) \in 0 .. MaximumSealNumber
      /\ \A a \in Anchor : VersionOf(floor[a]) \in 0 .. MaximumSealNumber
      /\ MaximumSealNumber \in Nat /\ MaxRestarts \in Nat
  BY VersionsType, BoundsAssumption
<1>4. CASE LeavesUnsealed(r) \/ Maintains(r)
  <2>1. seal' = seal
    BY <1>1, <1>2, <1>4 DEF NextSeal
  <2>2. /\ seal = NoSeal => written' = written /\ sent' = sent
        /\ seal # NoSeal => /\ seal \in written /\ written' = written
                            /\ sent' = sent \/ sent' = sent \cup ToEveryAnchor(seal)
    <3>1. seal = NoSeal => LeavesUnsealed(r)
      BY <1>1, <1>4 DEF Maintains
    <3>2. seal # NoSeal => seal \in written
      BY <1>1 DEF WrittenInv, Stored, HonestInv, StateVerdict
    <3> QED  BY <1>2, <2>1, <3>1, <3>2
  <2>3. \A m \in sent' : m \in sent \/ /\ m.to \in Anchor /\ m.seal = seal /\ seal \in written
                                       /\ seal \in Seal /\ m \in [to : Anchor, seal : Seal]
    <3>1. ASSUME NEW m, NEW a \in Anchor, seal \in Seal, m = [to |-> a, seal |-> seal]
          PROVE  m.to \in Anchor /\ m.seal = seal /\ m \in [to : Anchor, seal : Seal]
      BY <3>1
    <3>2. seal # NoSeal => seal \in Seal
      BY DEF TypeOK
    <3>3. \A m \in sent' : m \in sent \/ /\ seal \in written /\ seal \in Seal
                                         /\ \E a \in Anchor : m = [to |-> a, seal |-> seal]
      BY <2>2, <3>2 DEF ToEveryAnchor
    <3> QED  BY <3>1, <3>3
  <2>4. /\ step' \in [Request -> {"idle", "asking", "resolving", "sealing"}]
        /\ reading' \in [Request -> [Anchor -> Seal \cup {NoSeal, Unasked, Malformed}]]
        /\ read' \in [Request -> Seal \cup {NoSeal}]
        /\ attempt' \in [Request -> {1, 2}]
    BY <1>2, EndType
  <2>5. \A q \in Request : step'[q] # "sealing" /\ (read'[q] = NoSeal \/ read'[q] = read[q])
    BY <1>1, <1>2, EndType
  <2>6. \A q \in Request, a \in Anchor :
          reading'[q][a] = Unasked \/ reading'[q][a] = reading[q][a]
    BY <1>2, EndType
  <2>7. Unasked \notin Held /\ VersionOf(NoSeal) = 0
        /\ (seal \in Seal => VersionOf(seal) = seal.version)
    BY SealsAssumption DEF Held, VersionOf
  <2>8. TypeOK'
    <3>1. sent' \subseteq [to : Anchor, seal : Seal] /\ written' = written
      BY <2>2, <2>3 DEF TypeOK
    <3> QED  BY <1>2, <2>1, <2>4, <3>1 DEF TypeOK, End
  <2>9. WrittenInv'
    <3>1. \A m \in sent' : m.seal \in written
      BY <2>3 DEF WrittenInv, AnchorsHearOnlyCommittedSeals
    <3> QED  BY <1>2, <2>1, <2>2, <2>5, <3>1 DEF WrittenInv, Stored, AnchorsHearOnlyCommittedSeals
  <2>10. OrderInv'
    <3>1. \A m \in sent' : m.seal.version <= VersionOf(seal)
      BY <1>3, <2>3, <2>7 DEF OrderInv
    <3>2. \A q \in Request : VersionOf(read'[q]) <= VersionOf(seal)
      BY <1>3, <2>5, <2>7 DEF OrderInv
    <3>3. \A q \in Request, a \in Anchor : reading'[q][a] \in Held =>
            reading'[q][a] = reading[q][a] /\ reading[q][a] \in Held
      BY <2>6, <2>7
    <3> QED  BY <1>2, <2>1, <3>1, <3>2, <3>3 DEF OrderInv
  <2>11. LockInv'
    BY <2>5 DEF LockInv
  <2>12. HonestInv'
    <3>1. \A m \in sent' : Fits(m.seal)
      BY <1>1, <2>3 DEF HonestInv, Fits
    <3>2. \A q \in Request : Fits(read'[q])
      BY <1>1, <2>5 DEF HonestInv, Fits
    <3>3. \A q \in Request, a \in Anchor : reading'[q][a] \in Held => Fits(reading'[q][a])
      BY <1>1, <2>6, <2>7 DEF HonestInv
    <3> QED  BY <1>1, <1>2, <2>1, <3>1, <3>2, <3>3 DEF HonestInv, Fits, StateVerdict
  <2>13. LostInv' /\ NoRequestIsBlamed'
    BY <1>2 DEF LostInv, NoRequestIsBlamed
  <2> QED  BY <1>1, <2>1, <2>8, <2>9, <2>10, <2>11, <2>12, <2>13
<1>5. CASE ~ (LeavesUnsealed(r) \/ Maintains(r))
  <2> DEFINE new == [version |-> VersionOf(seal) + 1, digest |-> restarts]
  <2>1. NextSeal(r) = new
    BY <1>1, <1>5 DEF NextSeal
  <2>2. /\ new \in Seal /\ new.digest # Unverifiable /\ new.version = VersionOf(seal) + 1
        /\ new # NoSeal
    BY <1>1, <1>3, SealsAssumption DEF Seal, Version, TypeOK, Unverifiable
  <2>3. seal' = new /\ written' = written \cup {new} /\ sent' = sent \cup ToEveryAnchor(new)
    BY <1>2, <1>5, <2>1, <2>2
  <2> HIDE DEF new
  <2>4. /\ \A a \in Anchor : VersionOf(floor[a]) < new.version
        /\ VersionOf(seal) < new.version
    BY <1>1, <1>3, <2>2
  <2>5. SealsInv'
    BY <1>1, <1>2, <2>2, <2>3, <2>4, NewSealKeeps
  <2> QED  BY <1>1, <1>3, <2>2, <2>3, <2>4, <2>5
<1> QED  BY <1>4, <1>5

\* A reseal counts on from the highest version it knows of, which is above every
\* floor: a floor that has moved since it answered moved to a committed seal no
\* newer than the stored one.
LEMMA ResealKeeps ==
  ASSUME SealsInv, NEW r \in Request, Reseal(r)
  PROVE  /\ SealsInv'
         /\ answer' = "resealed"
         /\ \A a \in Anchor : seal'.version > VersionOf(floor[a])
<1> USE DEF SealsInv
<1> DEFINE new == [version |-> Base(r) + 1, digest |-> restarts]
<1>1. /\ Asked(r) /\ Answered(r) /\ LockFree /\ Base(r) < MaximumSealNumber
      /\ seal' = new /\ written' = written \cup {new} /\ sent' = sent \cup ToEveryAnchor(new)
      /\ lost' = FALSE /\ End(r, "resealed")
      /\ mode' = mode /\ change' = change /\ floor' = floor /\ blamed' = blamed
      /\ outages' = outages /\ restarts' = restarts
  BY DEF Reseal
<1>2. seal \in Held /\ \A a \in Anchor : reading[r][a] \in Held
  BY <1>1, AskedType DEF TypeOK, Held, Answered
<1>3. /\ Base(r) \in 0 .. MaximumSealNumber
      /\ VersionOf(seal) <= Base(r)
      /\ \A a \in Anchor : VersionOf(reading[r][a]) <= Base(r)
  BY <1>2, BaseIsHighest
<1>4. /\ \A a \in Anchor : VersionOf(floor[a]) \in 0 .. MaximumSealNumber
      /\ \A a \in Anchor : VersionOf(reading[r][a]) \in 0 .. MaximumSealNumber
      /\ VersionOf(seal) \in 0 .. MaximumSealNumber
      /\ MaximumSealNumber \in Nat /\ MaxRestarts \in Nat
  BY <1>2, VersionsType, VersionType, BoundsAssumption
<1>5. \A a \in Anchor : VersionOf(floor[a]) <= Base(r)
  BY <1>2, <1>3, <1>4 DEF OrderInv
<1>6. /\ new \in Seal /\ new.digest # Unverifiable /\ new.version = Base(r) + 1
  BY <1>1, <1>3, <1>4 DEF Seal, Version, TypeOK, Unverifiable
<1> HIDE DEF new
<1>7. /\ \A a \in Anchor : VersionOf(floor[a]) < new.version
      /\ VersionOf(seal) < new.version
  BY <1>3, <1>4, <1>5, <1>6
<1>8. change' \in Changes \cup {"none"} /\ \A q \in Request : step[q] = "sealing" => q = r
  BY <1>1 DEF TypeOK, LockFree
<1>9. SealsInv'
  BY <1>1, <1>6, <1>7, <1>8, NewSealKeeps
<1>10. answer' = "resealed"
  BY <1>1 DEF End
<1>11. new.version \in Nat
  BY <1>3, <1>6
<1> QED  BY <1>1, <1>4, <1>7, <1>9, <1>10, <1>11

\* Nothing changes.
LEMMA StutterKeeps == SealsInv /\ UNCHANGED vars => SealsInv'
<1> SUFFICES ASSUME SealsInv, UNCHANGED vars PROVE SealsInv'
  OBVIOUS
<1> USE DEF SealsInv, vars, account, request, history
<1>1. TypeOK'
  BY DEF TypeOK
<1>2. WrittenInv'
  BY DEF WrittenInv, Stored, AnchorsHearOnlyCommittedSeals
<1>3. OrderInv'
  BY DEF OrderInv
<1>4. LockInv'
  BY DEF LockInv
<1>5. HonestInv'
  BY DEF HonestInv, Fits, StateVerdict
<1>6. LostInv'
  BY DEF LostInv, Noticeable
<1>7. NoRequestIsBlamed'
  BY DEF NoRequestIsBlamed
<1> QED  BY <1>1, <1>2, <1>3, <1>4, <1>5, <1>6, <1>7

\* Every step keeps the invariant, and does to the seal and to an account whose
\* rows were put back what the action properties allow.
Careful ==
    /\ SealsInv'
    /\ (seal' # seal /\ restarts' = restarts)
         => \A a \in Anchor : seal'.version > VersionOf(floor[a])
    /\ lost /\ restarts' = restarts
         => answer' \in {"none", "broken", "refused", "resealed"}

LEMMA NextIsCareful == SealsInv /\ Next => Careful
<1> SUFFICES ASSUME SealsInv, Next PROVE Careful
  OBVIOUS
<1>1. ASSUME NEW r \in Request, Begin(r) \/ BeginResolution(r) PROVE Careful
  BY <1>1, BeginKeeps DEF Careful, Begin, BeginResolution, account
<1>2. ASSUME NEW r \in Request, NEW a \in Anchor, Ask(r, a) PROVE Careful
  BY <1>2, AskKeeps DEF Careful, Ask, account
<1>3. ASSUME NEW r \in Request, Check(r) PROVE Careful
  BY <1>3, CheckKeeps DEF Careful, Check, Judge, account
<1>4. ASSUME NEW r \in Request, ReadAgain(r) PROVE Careful
  BY <1>4, ReadAgainKeeps DEF Careful, ReadAgain, account
<1>5. ASSUME NEW r \in Request, Resolve(r) PROVE Careful
  BY <1>5, ResolveKeeps DEF Careful, Resolve, Judge, account
<1>6. ASSUME NEW r \in Request, NEW kind \in Changes, Verify(r, kind) PROVE Careful
  BY <1>6, VerifyKeeps DEF Careful, Verify, account
<1>7. ASSUME NEW r \in Request, Commit(r) PROVE Careful
  BY <1>7, CommitKeeps DEF Careful
<1>8. ASSUME NEW r \in Request, ResealRefused(r) PROVE Careful
  BY <1>8, RefusedKeeps DEF Careful, ResealRefused, End, account
<1>9. ASSUME NEW r \in Request, Reseal(r) PROVE Careful
  BY <1>9, ResealKeeps DEF Careful
<1>10. ASSUME NEW m \in sent, Record(m) \/ RecordFails(m) PROVE Careful
  BY <1>10, RecordKeeps DEF Careful, Record, RecordFails, account
<1>11. ASSUME NEW s \in {seal, NoSeal} \cup written
                         \cup [version : Version, digest : {Unverifiable}], Restart(s)
       PROVE  Careful
  <2>1. SealsInv'
    BY <1>11, RestartKeeps
  <2>2. restarts' # restarts
    BY <1>11, BoundsAssumption DEF Restart, SealsInv, TypeOK
  <2> QED  BY <2>1, <2>2 DEF Careful
<1> QED  BY <1>1, <1>2, <1>3, <1>4, <1>5, <1>6, <1>7, <1>8, <1>9, <1>10, <1>11 DEF Next

LEMMA SealsInvAlways == Spec => []SealsInv
<1>1. SealsInv /\ [Next]_vars => SealsInv'
  BY NextIsCareful, StutterKeeps DEF Careful
<1> QED  BY <1>1, SealsInvInit, PTL DEF Spec

(***************************************************************************)
(* The theorems.                                                           *)
(***************************************************************************)

\* Every variable holds a value of its kind.
THEOREM SealsTyped == Spec => []TypeOK
BY SealsInvAlways, PTL DEF SealsInv

\* Requests that interleave, recordings that come late and anchors that fail
\* never make the library report a change or a check as someone's doing: only
\* rows put back do, and resolutions, which ask after the read
\* (security-state/runtime.ts, anchor.ts).
THEOREM OnlyResolutionsAreBlamed == Spec => []NoRequestIsBlamed
BY SealsInvAlways, PTL DEF SealsInv

\* An anchor holds and is told only what a commit has sealed, whatever rows
\* come back in between (runtime.ts, checkedRead's re-recording).
THEOREM AnchorsHoldCommittedSeals == Spec => []AnchorsHearOnlyCommittedSeals
<1>1. SealsInv => AnchorsHearOnlyCommittedSeals
  BY DEF SealsInv, WrittenInv
<1> QED  BY <1>1, SealsInvAlways, PTL

\* A seal written by a change or a reseal lies above every floor of that moment
\* (sealing.ts, security-state-maintenance.ts).
THEOREM SealsRise == Spec => SealsRiseAboveEveryFloor
<1>1. SealsInv /\ [Next]_vars =>
        [(seal' # seal /\ restarts' = restarts)
            => \A a \in Anchor : seal'.version > VersionOf(floor[a])]_vars
  BY NextIsCareful DEF Careful
<1> QED  BY <1>1, SealsInvAlways, PTL DEF Spec, SealsRiseAboveEveryFloor

\* Rows put back that an anchor can tell are used by nothing, through any number
\* of checks, resolutions, changes and further restarts, until a reseal.
THEOREM LostRowsStayUnused == Spec => OnlyAResealRevives
<1>1. SealsInv /\ [Next]_vars =>
        [lost /\ restarts' = restarts
            => answer' \in {"none", "broken", "refused", "resealed"}]_vars
  BY NextIsCareful DEF Careful
<1> QED  BY <1>1, SealsInvAlways, PTL DEF Spec, OnlyAResealRevives

=============================================================================
