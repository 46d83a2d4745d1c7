------------------------------- MODULE Seals -------------------------------
(* The seal of one account and the anchors that remember it.               *)
(*                                                                         *)
(* Every change of an account's sign-in methods is sealed under the        *)
(* account lock with the next version (security-state/sealing.ts); after   *)
(* the commit, and outside the lock, every anchor is told of the new seal. *)
(* Every check, change and session resolution asks the anchors for the     *)
(* highest version they hold and refuses a stored state below it           *)
(* (security-state/anchor.ts, runtime.ts).  An anchor may not answer, may  *)
(* lose what it is told, and learns of seals in any order.  The service    *)
(* may restart, also over rows put back from a backup, which is what the   *)
(* seal and the anchors are there to notice; an administrator's reseal     *)
(* (auth/security-state-maintenance.ts) makes such an account usable.      *)
(*                                                                         *)
(* An account that has never been sealed exists in the mode "migrating"    *)
(* only.  The digest of a seal is the number of the restart after which it *)
(* was computed: two states of one version have two digests.               *)
EXTENDS Integers, FiniteSets

CONSTANTS Request,              \* requests and maintenance calls
          Anchor,               \* the anchors the plugins contribute
          MaximumSealNumber,    \* the last version a seal may carry
          MaxOutages,           \* bound: answers and recordings an anchor fails
          MaxRestarts,          \* bound: restarts of the service
          NoSeal, Unasked, Malformed

ASSUME BoundsAssumption ==
    /\ MaximumSealNumber \in Nat \ {0}
    /\ MaxOutages \in Nat
    /\ MaxRestarts \in Nat

VARIABLES mode,         \* whether every account must have a seal
          seal,         \* the stored seal row
          floor,        \* for each anchor the highest seal it recorded
          sent,         \* recordings on their way to an anchor
          step,         \* of each request: where it stands
          change,       \* of the request that holds the account lock: its kind
          reading,      \* what each anchor answered it
          read,         \* the seal it read
          attempt,      \* of a resolution: the first or the second
          written,      \* history: every seal the library committed
          lost,         \* history: rows were put back and not resealed since
          blamed,       \* history: kinds of requests refused for no reason
          answer,       \* history: how the request of the last step ended
          outages, restarts

account == <<mode, seal, floor>>
request == <<step, change, reading, read, attempt>>
history == <<written, lost, blamed>>
vars == <<account, sent, request, history, answer, outages, restarts>>

Version == 1 .. MaximumSealNumber
Unverifiable == -1
Seal == [version : Version, digest : {Unverifiable} \cup 0 .. MaxRestarts]

ASSUME SealsAssumption ==
    /\ NoSeal \notin Seal
    /\ Unasked \notin Seal \cup {NoSeal}
    /\ Malformed \notin Seal \cup {NoSeal, Unasked}

(***************************************************************************)
(* The verdicts on one read.                                               *)
(***************************************************************************)

VersionOf(s) == IF s = NoSeal THEN 0 ELSE s.version

\* checkSecurityState: the seal against the components of the same statement.
StateVerdict(s) ==
    IF s = NoSeal THEN IF mode = "required" THEN "seal_missing" ELSE "unsealed"
    ELSE IF s.digest = Unverifiable THEN "seal_mismatch" ELSE "valid"

\* Mutant: an account without a seal has nothing an anchor could be ahead of.
AnchorVerdictOfSeals(s, answers) ==
    LET floors == {answers[a] : a \in Anchor} \ {NoSeal} IN
    IF Malformed \in floors THEN "anchor_unavailable"
    ELSE IF s = NoSeal THEN "within_floor"
    ELSE IF \E f \in floors : VersionOf(s) < f.version THEN "version_below_anchor"
    ELSE IF \E f \in floors : VersionOf(s) = f.version /\ s # f THEN "anchor_mismatch"
    ELSE IF \E a \in Anchor : VersionOf(s) > VersionOf(answers[a]) THEN "ahead_of_anchor"
    ELSE "within_floor"

\* compareWithAnchors: the seal against every floor.
AnchorVerdict(s, answers) ==
    LET floors == {answers[a] : a \in Anchor} \ {NoSeal} IN
    IF Malformed \in floors THEN "anchor_unavailable"
    ELSE IF \E f \in floors : VersionOf(s) < f.version THEN "version_below_anchor"
    ELSE IF \E f \in floors : VersionOf(s) = f.version /\ s # f THEN "anchor_mismatch"
    ELSE IF \E a \in Anchor : VersionOf(s) > VersionOf(answers[a]) THEN "ahead_of_anchor"
    ELSE "within_floor"

\* brokenVerdictOf: the state's own verdict goes before the anchors'.
Refusal(s, answers) ==
    IF StateVerdict(s) \in {"seal_missing", "seal_mismatch"} THEN StateVerdict(s)
    ELSE IF AnchorVerdict(s, answers) \in {"ahead_of_anchor", "within_floor"} THEN "none"
    ELSE AnchorVerdict(s, answers)

\* recordSealWithAnchors: every anchor is told, none is waited for.
ToEveryAnchor(s) == {[to |-> a, seal |-> s] : a \in Anchor}

(***************************************************************************)
(* The account as it begins: sealed by the sign-up, or never sealed.       *)
(***************************************************************************)

First == [version |-> 1, digest |-> 0]

Init ==
    /\ \/ mode = "required" /\ seal = First
       \/ mode = "migrating" /\ seal = NoSeal
    /\ floor = [a \in Anchor |-> NoSeal]
    /\ sent = IF seal = NoSeal THEN {} ELSE ToEveryAnchor(seal)
    /\ step = [r \in Request |-> "idle"]
    /\ change = "none"
    /\ reading = [r \in Request |-> [a \in Anchor |-> Unasked]]
    /\ read = [r \in Request |-> NoSeal]
    /\ attempt = [r \in Request |-> 1]
    /\ answer = "none"
    /\ written = {seal} \ {NoSeal}
    /\ lost = FALSE
    /\ blamed = {}
    /\ outages = 0
    /\ restarts = 0

(***************************************************************************)
(* Requests.                                                               *)
(***************************************************************************)

\* Every request but a resolution asks the anchors first; until they have
\* answered it does not matter what it is for.
Begin(r) ==
    /\ step[r] = "idle"
    /\ step' = [step EXCEPT ![r] = "asking"]
    /\ answer' = "none"
    /\ UNCHANGED <<account, sent, change, reading, read, attempt, history, outages, restarts>>

\* A resolution reads session and state in its one statement and then asks.
BeginResolution(r) ==
    /\ step[r] = "idle"
    /\ step' = [step EXCEPT ![r] = "resolving"]
    /\ read' = [read EXCEPT ![r] = seal]
    /\ answer' = "none"
    /\ UNCHANGED <<account, sent, change, reading, attempt, history, outages, restarts>>

\* consultAnchors: the anchors answer one by one, or not.
Ask(r, a) ==
    /\ step[r] \in {"asking", "resolving"}
    /\ reading[r][a] = Unasked
    /\ \/ reading' = [reading EXCEPT ![r][a] = floor[a]] /\ UNCHANGED outages
       \/ /\ outages < MaxOutages
          /\ outages' = outages + 1
          /\ reading' = [reading EXCEPT ![r][a] = Malformed]
    /\ answer' = "none"
    /\ UNCHANGED <<account, sent, step, change, read, attempt, history, restarts>>

Asked(r) == \A a \in Anchor : reading[r][a] # Unasked

End(r, how) ==
    /\ step' = [step EXCEPT ![r] = "idle"]
    /\ reading' = [reading EXCEPT ![r] = [a \in Anchor |-> Unasked]]
    /\ read' = [read EXCEPT ![r] = NoSeal]
    /\ attempt' = [attempt EXCEPT ![r] = 1]
    /\ answer' = how

\* The alarm names a state someone changed past the library.
Blame(kind, reason) ==
    blamed' = IF lost \/ reason \in {"none", "anchor_unavailable", "version_exhausted"}
                THEN blamed ELSE blamed \cup {kind}

\* Mutant: an anchor that is behind is told whatever the verdict on the read.
JudgeAfterTelling(r, kind, s) ==
    LET refusal == Refusal(s, reading[r]) IN
    /\ End(r, IF refusal = "none" THEN "usable" ELSE "broken")
    /\ Blame(kind, refusal)
    /\ sent' = IF AnchorVerdict(s, reading[r]) = "ahead_of_anchor"
                 THEN sent \cup ToEveryAnchor(s) ELSE sent
    /\ UNCHANGED <<account, change, written, lost, outages, restarts>>

\* Mutant: the anchors are told by the changes only.
JudgeTellingNobody(r, kind, s) ==
    LET refusal == Refusal(s, reading[r]) IN
    /\ End(r, IF refusal = "none" THEN "usable" ELSE "broken")
    /\ Blame(kind, refusal)
    /\ UNCHANGED <<account, sent, change, written, lost, outages, restarts>>

\* checkedRead: refuse and raise the alarm, or use the read and tell an anchor
\* that is behind.
Judge(r, kind, s) ==
    LET refusal == Refusal(s, reading[r]) IN
    /\ End(r, IF refusal = "none" THEN "usable" ELSE "broken")
    /\ Blame(kind, refusal)
    /\ sent' = IF refusal = "none" /\ AnchorVerdict(s, reading[r]) = "ahead_of_anchor"
                 THEN sent \cup ToEveryAnchor(s) ELSE sent
    /\ UNCHANGED <<account, change, written, lost, outages, restarts>>

\* checkAccount
Check(r) == step[r] = "asking" /\ Asked(r) /\ Judge(r, "check", seal)

\* sessionStateCheckOf: a state below an anchor is read once more.
BelowTheAnchor(r) == AnchorVerdict(read[r], reading[r]) = "version_below_anchor"

ReadAgain(r) ==
    /\ step[r] = "resolving" /\ Asked(r)
    /\ attempt[r] = 1 /\ BelowTheAnchor(r)
    /\ attempt' = [attempt EXCEPT ![r] = 2]
    /\ read' = [read EXCEPT ![r] = seal]
    /\ reading' = [reading EXCEPT ![r] = [a \in Anchor |-> Unasked]]
    /\ answer' = "none"
    /\ UNCHANGED <<account, sent, step, change, history, outages, restarts>>

Resolve(r) ==
    /\ step[r] = "resolving" /\ Asked(r)
    /\ attempt[r] = 2 \/ ~BelowTheAnchor(r)
    /\ Judge(r, "resolve", read[r])

(***************************************************************************)
(* Changes: the state is verified under the lock and sealed anew.          *)
(***************************************************************************)

\* A change by the account's owner; one by a path without a proof of ownership;
\* a maintenance run, which leaves every component as it was.
Changes == {"change", "unproven", "maintain"}

\* Mutant: a change does not wait for the account lock.
NobodyWaits == TRUE

LockFree == \A r \in Request : step[r] # "sealing"

\* Why a change is refused once it has read the state under the lock.
ChangeRefusal(r) ==
    IF Refusal(seal, reading[r]) # "none" THEN Refusal(seal, reading[r])
    ELSE IF VersionOf(seal) = MaximumSealNumber THEN "version_exhausted"
    ELSE "none"

\* sealUnderAccountLock, up to the verdict on what it read.
Verify(r, kind) ==
    /\ step[r] = "asking" /\ Asked(r)
    /\ LockFree
    /\ IF ChangeRefusal(r) = "none"
         THEN /\ step' = [step EXCEPT ![r] = "sealing"]
              /\ change' = kind
              /\ read' = [read EXCEPT ![r] = seal]
              /\ reading' = [reading EXCEPT ![r] = [a \in Anchor |-> Unasked]]
              /\ answer' = "none"
              /\ UNCHANGED <<attempt, blamed>>
         ELSE /\ End(r, "refused")
              /\ Blame(kind, ChangeRefusal(r))
              /\ UNCHANGED change
    /\ UNCHANGED <<account, sent, written, lost, outages, restarts>>

\* A path without a proof of ownership leaves an unsealed account unsealed.
LeavesUnsealed(r) == change = "unproven" /\ read[r] = NoSeal

\* A maintenance run that finds nothing to rewrite under a newer key leaves a sealed
\* account unchanged; one that rewrites it is a change like any other.
Maintains(r) == change = "maintain" /\ read[r] # NoSeal

\* A change of no component keeps the seal it verified.
NextSeal(r) ==
    IF LeavesUnsealed(r) \/ Maintains(r) THEN read[r]
    ELSE [version |-> VersionOf(read[r]) + 1, digest |-> restarts]

\* writeSealRow, over the row that was read, and the commit; recordSealLater.
Commit(r) ==
    /\ step[r] = "sealing"
    /\ change' = "none"
    /\ IF seal = read[r]
         THEN /\ seal' = NextSeal(r)
              /\ written' = written \cup ({NextSeal(r)} \ {NoSeal})
              /\ sent' = IF LeavesUnsealed(r) THEN sent
                           ELSE sent \cup ToEveryAnchor(NextSeal(r))
              /\ End(r, "sealed")
              /\ UNCHANGED blamed
         ELSE /\ End(r, "refused")
              /\ Blame(change, "seal_mismatch")
              /\ UNCHANGED <<seal, written, sent>>
    /\ UNCHANGED <<mode, floor, lost, outages, restarts>>

(***************************************************************************)
(* resealSecurityState: an administrator confirms what is stored.          *)
(***************************************************************************)

\* Mutant: a reseal counts on from the stored version.
StoredVersion(r) == VersionOf(seal)

\* The version a reseal builds on: the stored one or the highest floor.
Base(r) ==
    LET versions == {VersionOf(s) : s \in {seal} \cup {reading[r][a] : a \in Anchor}} IN
    CHOOSE v \in versions : \A w \in versions : w <= v

Answered(r) == \A a \in Anchor : reading[r][a] # Malformed

ResealRefused(r) ==
    /\ step[r] = "asking" /\ Asked(r)
    /\ Answered(r) => LockFree /\ Base(r) = MaximumSealNumber
    /\ End(r, "refused")
    /\ UNCHANGED <<account, sent, change, history, outages, restarts>>

\* One transaction under the lock that verifies nothing of what it seals.
Reseal(r) ==
    /\ step[r] = "asking" /\ Asked(r)
    /\ Answered(r)
    /\ LockFree
    /\ Base(r) < MaximumSealNumber
    /\ LET new == [version |-> Base(r) + 1, digest |-> restarts] IN
       /\ seal' = new
       /\ written' = written \cup {new}
       /\ sent' = sent \cup ToEveryAnchor(new)
    /\ lost' = FALSE
    /\ End(r, "resealed")
    /\ UNCHANGED <<mode, change, floor, blamed, outages, restarts>>

(***************************************************************************)
(* The anchors, which keep the highest version they are told, and the      *)
(* restarts.                                                               *)
(***************************************************************************)

Record(m) ==
    /\ m \in sent
    /\ sent' = sent \ {m}
    /\ floor' = [floor EXCEPT ![m.to] = IF VersionOf(@) < m.seal.version THEN m.seal ELSE @]
    /\ answer' = "none"
    /\ UNCHANGED <<mode, seal, request, history, outages, restarts>>

RecordFails(m) ==
    /\ m \in sent
    /\ outages < MaxOutages
    /\ outages' = outages + 1
    /\ sent' = sent \ {m}
    /\ answer' = "none"
    /\ UNCHANGED <<account, request, history, restarts>>

\* Rows put back that an anchor, the seal or its absence gives away: the anchor
\* holds a newer seal, or another one of the same version.
Noticeable(s) ==
    \/ s = NoSeal /\ mode = "required"
    \/ s # NoSeal /\ s.digest = Unverifiable
    \/ \E a \in Anchor : floor[a] # NoSeal /\ s # floor[a] /\ VersionOf(s) <= floor[a].version

\* The processes end with what they had in flight; the database comes back
\* as it was, as it had been, or with a seal row that is not the state's.
Restart(s) ==
    /\ restarts < MaxRestarts
    /\ restarts' = restarts + 1
    /\ seal' = s
    /\ lost' = IF s = seal THEN lost ELSE Noticeable(s)
    /\ sent' = {}
    /\ step' = [r \in Request |-> "idle"]
    /\ change' = "none"
    /\ reading' = [r \in Request |-> [a \in Anchor |-> Unasked]]
    /\ read' = [r \in Request |-> NoSeal]
    /\ attempt' = [r \in Request |-> 1]
    /\ answer' = "none"
    /\ UNCHANGED <<mode, floor, written, blamed, outages>>

Next ==
    \/ \E r \in Request : \/ Begin(r) \/ BeginResolution(r)
                          \/ \E a \in Anchor : Ask(r, a)
                          \/ Check(r) \/ ReadAgain(r) \/ Resolve(r)
                          \/ \E kind \in Changes : Verify(r, kind)
                          \/ Commit(r)
                          \/ ResealRefused(r) \/ Reseal(r)
    \/ \E m \in sent : Record(m) \/ RecordFails(m)
    \/ \E s \in {seal, NoSeal} \cup written
                  \cup [version : Version, digest : {Unverifiable}] : Restart(s)

Spec == Init /\ [][Next]_vars

\* What is on its way to an anchor and is not lost arrives.
FairSpec ==
    Spec /\ \A m \in [to : Anchor, seal : Seal] : WF_vars(Record(m))

(***************************************************************************)
(* Properties.                                                             *)
(***************************************************************************)

\* Every variable holds a value of its kind.
TypeOK ==
    /\ mode \in {"required", "migrating"}
    /\ seal \in Seal \cup {NoSeal}
    /\ floor \in [Anchor -> Seal \cup {NoSeal}]
    /\ sent \subseteq [to : Anchor, seal : Seal]
    /\ step \in [Request -> {"idle", "asking", "resolving", "sealing"}]
    /\ change \in Changes \cup {"none"}
    /\ reading \in [Request -> [Anchor -> Seal \cup {NoSeal, Unasked, Malformed}]]
    /\ read \in [Request -> Seal \cup {NoSeal}]
    /\ attempt \in [Request -> {1, 2}]
    /\ written \subseteq Seal
    /\ lost \in BOOLEAN
    /\ blamed \subseteq Changes \cup {"check", "resolve"}
    /\ answer \in {"none", "usable", "broken", "sealed", "refused", "resealed"}
    /\ outages \in 0 .. MaxOutages
    /\ restarts \in 0 .. MaxRestarts

\* Whatever the anchors hold or are told was sealed by a commit: a seal row no
\* check has verified never reaches them (the reason of checkedRead's
\* re-recording, runtime.ts:342).
AnchorsHearOnlyCommittedSeals ==
    /\ \A a \in Anchor : floor[a] # NoSeal => floor[a] \in written
    /\ \A m \in sent : m.seal \in written

\* Requests that only interleave with each other, late recordings and anchors
\* that fail are never reported as someone's change past the library: an anchor
\* asked before the read is never ahead of it.  Resolutions, which ask after
\* it, are left to ResolutionsAreNotBlamed.
NoRequestIsBlamed == blamed \subseteq {"resolve"}

\* A resolution that meets no rows put back raises no alarm: "the anchor can
\* only be ahead of a legitimate state by a reseal that committed after the
\* read, and one re-read sees that reseal" (decision E-3353).
ResolutionsAreNotBlamed == "resolve" \notin blamed

\* A seal a commit writes lies above every floor at that moment, also when the
\* anchors were asked long before it and when it is a reseal over older rows:
\* no anchor ever holds another seal of its version.
SealsRiseAboveEveryFloor ==
    [][(seal' # seal /\ restarts' = restarts)
         => \A a \in Anchor : seal'.version > VersionOf(floor[a])]_vars

\* Rows put back from a backup, which an anchor can tell, are used by no check,
\* resolution or change, however many follow, until an administrator reseals.
OnlyAResealRevives ==
    [][lost /\ restarts' = restarts
         => answer' \in {"none", "broken", "refused", "resealed"}]_vars

\* An anchor that missed a seal learns it from the checks that follow: if
\* checks keep finding the account usable, every anchor ends up with its seal.
AnchorsCatchUp ==
    ([]<>(answer = "usable") /\ []<>(answer = "none")) => <>[](\A a \in Anchor : floor[a] = seal)

=============================================================================
