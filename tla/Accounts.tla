------------------------------ MODULE Accounts ------------------------------
(* How an account comes to be, gains and loses its ways in, and ends.      *)
(*                                                                         *)
(* Sign-ups for one address and one name (flows/sign-up.ts), sign-ins and  *)
(* automatic links through a provider's subject (oauth/service.ts),        *)
(* passkey ceremonies (factor/webauthn/service.ts), the removal of a       *)
(* sign-in method (identity/sign-in-methods.ts), confirmation, password    *)
(* reset, changes of address and name, and deletion.  A sign-up answers    *)
(* alike whether the address is free or taken: a taken one runs the        *)
(* registration with a drawn address and rolls it back (a cover).          *)
(*                                                                         *)
(* Inserts are visible once committed; before that their unique values     *)
(* make other inserts wait.  A change of sign-in methods holds the account *)
(* lock from its read to its commit and seals what it leaves.              *)
EXTENDS Naturals, FiniteSets

CONSTANTS Request,      \* requests, each serving one call after the other
          Account,      \* account ids, drawn once each
          Subject,      \* subjects of the provider
          Passkey,      \* credential ids of authenticators
          Operation,    \* what the requests are called for, and the changes that come besides
          Standing,     \* the ways in the account there is at first may have
          Limit,        \* identities and passkeys an account may hold, each
          MaxCalls,     \* bound: calls the requests serve
          MaxDeletions, \* bound: accounts the application deletes
          Password, Nobody

ASSUME BoundsAssumption ==
    /\ Limit \in Nat \ {0}
    /\ MaxCalls \in Nat /\ MaxDeletions \in Nat
    /\ Account # {} /\ Nobody \notin Account \cup Request
    /\ Password \notin Subject \cup Passkey
    /\ Subject \cap Passkey = {}

Way == {Password} \cup Subject \cup Passkey

\* An account keeps to the limits from the start.
ASSUME StandingAssumption ==
    \A w \in Standing :
        /\ w \subseteq Way /\ IsFiniteSet(w)
        /\ Cardinality(w \cap Subject) <= Limit /\ Cardinality(w \cap Passkey) <= Limit

CoverDraws == 2

VARIABLES status,       \* of each id: absent, live or gone
          holds,        \* the contested values of its row: address, name
          confirmed,    \* accounts whose address is verified
          ways, sealed, \* its sign-in methods, and those its seal covers
          link,         \* its confirmation link: none, minted, mailed or spent
          step, call,   \* of each request: where it stands and for what
          owner,        \* the account it found, made or changes
          draws,        \* cover addresses drawn; 0: not a cover
          seen,         \* the ways in it read under the lock
          mail,         \* history: the mail sent in the last step
          answer,       \* history: how a call ended in the last step
          bereft,       \* history: calls since which an account ended or left the address
          renamed,      \* history: sign-ups for the name since which an account gave it up
          calls, deletions

accounts == <<status, holds, confirmed, ways, sealed, link>>
requests == <<call, owner, draws, seen>>
bounds == <<calls, deletions>>
told == <<bereft, renamed>>
vars == <<accounts, step, requests, mail, answer, told, bounds>>

Live == {u \in Account : status[u] = "live"}
HeldBy(value) == {u \in Live : value \in holds[u]}
OwnersOf(way) == {u \in Live : way \in ways[u]}
OneOf(found) == IF found = {} THEN Nobody ELSE CHOOSE u \in found : TRUE
Kind(way) == IF way \in Subject THEN Subject ELSE Passkey

(***************************************************************************)
(* Calls by a visitor, by a holder of a provider account or an             *)
(* authenticator, and by the account's owner.                              *)
(***************************************************************************)

NoCall == [for |-> "nothing"]

Call ==
    {c \in [for : {"signUp"}, named : BOOLEAN, password : BOOLEAN]
           \cup [for : {"oauth"}, way : Subject, verified : BOOLEAN]
           \cup [for : {"assert"}, way : Passkey]
           \cup [for : {"link"}, by : Account, way : Subject]
           \cup [for : {"register"}, by : Account, way : Passkey]
           \cup [for : {"remove"}, by : Account, way : Subject \cup Passkey] :
        c.for \in Operation}

Step == {"idle", "begun", "lost", "register", "inserted", "violated", "announce", "undo", "remove",
         "verify", "issue", "lock", "locked", "check", "record"}

\* The calls that come with a session of the account they change.
OfTheOwner(c) == c.for \in {"link", "register", "remove"}

First == CHOOSE u \in Account : TRUE

\* No account, or one that signed up or was made by a provider sign-in.
Init ==
    /\ \E there \in BOOLEAN, w \in Standing, h \in SUBSET {"address", "name"} :
          /\ status = [u \in Account |-> IF there /\ u = First THEN "live" ELSE "absent"]
          /\ ways = [u \in Account |-> IF there /\ u = First THEN w ELSE {}]
          /\ holds = [u \in Account |-> IF there /\ u = First THEN h ELSE {}]
          /\ confirmed \in IF there THEN {{}, {First}} ELSE {{}}
    /\ sealed = ways
    /\ link = [u \in Account |-> "none"]
    /\ step = [r \in Request |-> "idle"]
    /\ call = [r \in Request |-> NoCall]
    /\ owner = [r \in Request |-> Nobody]
    /\ draws = [r \in Request |-> 0]
    /\ seen = [r \in Request |-> {}]
    /\ mail = "none"
    /\ answer = "none"
    /\ bereft = {}
    /\ renamed = {}
    /\ calls = 0
    /\ deletions = 0

End(r, how) ==
    /\ step' = [step EXCEPT ![r] = "idle"]
    /\ call' = [call EXCEPT ![r] = NoCall]
    /\ owner' = [owner EXCEPT ![r] = Nobody]
    /\ draws' = [draws EXCEPT ![r] = 0]
    /\ seen' = [seen EXCEPT ![r] = {}]
    /\ answer' = how

Proceed(r, to) ==
    /\ step' = [step EXCEPT ![r] = to]
    /\ answer' = "none"

\* What a call that only reads leaves alone.
Quietly == mail' = "none" /\ UNCHANGED <<accounts, told, bounds>>

\* A call of the owner comes with a session of a live account; a ceremony and a
\* provider's answer come with the challenge or the flow they have consumed.  A
\* sign-up refuses a name it finds taken before it looks for the address.
Begin(r, c) ==
    /\ step[r] = "idle"
    /\ calls < MaxCalls
    /\ OfTheOwner(c) => c.by \in Live
    /\ calls' = calls + 1
    /\ mail' = "none"
    /\ bereft' = bereft \ {r}
    /\ renamed' = renamed \ {r}
    /\ UNCHANGED <<accounts, draws, seen, deletions>>
    /\ IF c.for = "signUp" /\ c.named /\ HeldBy("name") # {}
         THEN answer' = "username_taken" /\ UNCHANGED <<step, call, owner>>
         ELSE /\ call' = [call EXCEPT ![r] = c]
              /\ owner' = [owner EXCEPT ![r] = IF OfTheOwner(c) THEN c.by ELSE Nobody]
              /\ Proceed(r, IF OfTheOwner(c) THEN "lock" ELSE "begun")

(***************************************************************************)
(* Sign-up.                                                                *)
(***************************************************************************)

\* Mutant: a registration that lost the race is covered for the owner it looked
\* for before it.
FindAddressOwnerOnce(r) ==
    /\ step[r] \in {"begun", "lost"} /\ call[r].for = "signUp"
    /\ owner' = [owner EXCEPT ![r] = IF step[r] = "lost" THEN @ ELSE OneOf(HeldBy("address"))]
    /\ draws' = [draws EXCEPT ![r] =
           IF step[r] = "lost" \/ HeldBy("address") # {} THEN 1 ELSE 0]
    /\ Proceed(r, "register")
    /\ Quietly /\ UNCHANGED <<call, seen>>

\* addressOwner, outside any transaction: it decides between account and cover.
FindAddressOwner(r) ==
    /\ step[r] \in {"begun", "lost"} /\ call[r].for = "signUp"
    /\ owner' = [owner EXCEPT ![r] = OneOf(HeldBy("address"))]
    /\ draws' = [draws EXCEPT ![r] =
           IF step[r] = "lost" \/ HeldBy("address") # {} THEN 1 ELSE 0]
    /\ Proceed(r, "register")
    /\ Quietly /\ UNCHANGED <<call, seen>>

\* The unique values a registration inserts; a cover draws its address.
Values(r) ==
    {v \in {"address", "name"} :
        IF v = "address" THEN draws[r] = 0 ELSE call[r].for = "signUp" /\ call[r].named}

Contested(r) ==
    \E q \in Request \ {r} : step[q] = "inserted" /\ Values(q) \cap Values(r) # {}

\* createUser, which waits for the end of a transaction that inserted one of
\* the values; createAccountFor refuses where a sign-up asks what it met.
InsertUser(r) ==
    /\ step[r] = "register"
    /\ ~Contested(r)
    /\ IF \A v \in Values(r) : HeldBy(v) = {} THEN Proceed(r, "inserted") /\ UNCHANGED requests
       ELSE IF call[r].for = "signUp" THEN Proceed(r, "violated") /\ UNCHANGED requests
       ELSE End(r, "refused")
    /\ Quietly

\* A hook refuses, or the process dies: the transaction rolls back.
Veto(r) ==
    /\ step[r] = "inserted"
    /\ End(r, "refused")
    /\ Quietly

\* The account an uncommitted registration makes of a fresh id.
Create(r, u, held, way, verified, minted) ==
    /\ status[u] = "absent"
    /\ status' = [status EXCEPT ![u] = "live"]
    /\ holds' = [holds EXCEPT ![u] = held]
    /\ ways' = [ways EXCEPT ![u] = way]
    /\ sealed' = [sealed EXCEPT ![u] = way]
    /\ confirmed' = IF verified THEN confirmed \cup {u} ELSE confirmed
    /\ link' = [link EXCEPT ![u] = minted]
    /\ owner' = [owner EXCEPT ![r] = u]
    /\ mail' = "none"
    /\ UNCHANGED <<call, draws, seen, told, bounds>>

CommitRegistration(r, u) ==
    /\ step[r] = "inserted" /\ call[r].for = "signUp" /\ draws[r] = 0
    /\ Create(r, u, Values(r), IF call[r].password THEN {Password} ELSE {}, FALSE, "minted")
    /\ Proceed(r, "announce")

\* A cover ends with its transaction and leaves no row.
DiscardRegistration(r) ==
    /\ step[r] = "inserted" /\ draws[r] > 0
    /\ Proceed(r, "announce")
    /\ Quietly /\ UNCHANGED requests

\* refuseTheNameIfItWasTheName, and the next draw of a cover.
AskForTheName(r) ==
    /\ step[r] = "violated"
    /\ IF call[r].named /\ HeldBy("name") # {} THEN End(r, "username_taken")
       ELSE IF draws[r] = CoverDraws THEN End(r, "unmapped")
       ELSE /\ draws' = [draws EXCEPT ![r] = IF @ = 0 THEN 0 ELSE @ + 1]
            /\ Proceed(r, IF draws[r] = 0 THEN "lost" ELSE "register")
            /\ UNCHANGED <<call, owner, seen>>
    /\ Quietly

\* announce: the confirmation to a new account, the notice to the owner of a
\* taken address, if the owner was there when it was looked for.
Announce(r) ==
    /\ step[r] = "announce"
    /\ mail' = IF draws[r] = 0 THEN "confirmation"
               ELSE IF owner[r] = Nobody THEN "none" ELSE "notice"
    /\ link' = [u \in Account |->
           IF u = owner[r] /\ draws[r] = 0 /\ link[u] = "minted" THEN "mailed" ELSE link[u]]
    /\ End(r, "created")
    /\ UNCHANGED <<status, holds, confirmed, ways, sealed, told, bounds>>

\* sendOrUndo: a send that reports a failure may have delivered.
AnnounceFails(r) ==
    /\ step[r] = "announce"
    /\ draws[r] > 0 => owner[r] # Nobody
    /\ \/ mail' = "none" /\ UNCHANGED link
       \/ /\ mail' = IF draws[r] = 0 THEN "confirmation" ELSE "notice"
          /\ link' = [u \in Account |->
                 IF u = owner[r] /\ draws[r] = 0 /\ link[u] = "minted" THEN "mailed" ELSE link[u]]
    /\ IF draws[r] = 0 THEN Proceed(r, "undo") /\ UNCHANGED requests ELSE End(r, "failed")
    /\ UNCHANGED <<status, holds, confirmed, ways, sealed, told, bounds>>

SpendLink(r) ==
    /\ step[r] = "undo"
    /\ link' = [link EXCEPT ![owner[r]] = IF @ = "none" THEN @ ELSE "spent"]
    /\ Proceed(r, "remove")
    /\ mail' = "none"
    /\ UNCHANGED <<status, holds, confirmed, ways, sealed, requests, told, bounds>>

\* Mutant: a change of sign-in methods does not wait for the account lock.
LockFreely(u) == TRUE

LockFree(u) == \A r \in Request : step[r] = "locked" => owner[r] # u

\* deleteUser and what cascades from the row.
RemoveUser(u) ==
    /\ LockFree(u)
    /\ status' = [status EXCEPT ![u] = "gone"]
    /\ holds' = [holds EXCEPT ![u] = {}]
    /\ ways' = [ways EXCEPT ![u] = {}]
    /\ sealed' = [sealed EXCEPT ![u] = {}]
    /\ confirmed' = confirmed \ {u}
    /\ link' = [link EXCEPT ![u] = "none"]
    /\ bereft' = {r \in Request : step'[r] # "idle"}
    /\ UNCHANGED renamed
    /\ mail' = "none"

RemoveUntoldAccount(r) ==
    /\ step[r] = "remove"
    /\ End(r, "failed")
    /\ RemoveUser(owner[r])
    /\ UNCHANGED bounds

(***************************************************************************)
(* Sign-in through a provider's subject.                                   *)
(***************************************************************************)

Signing(r, for) == step[r] # "idle" /\ call[r].for = for

\* accountAnAutomaticLinkMayJoin: the verified address of a trusted provider
\* joins the account whose own address is verified.
Joinable(r) == IF call[r].verified THEN HeldBy("address") \cap confirmed ELSE {}

\* accountForSignIn, up to the lock or the insert it decides for.
FindAccount(r) ==
    /\ step[r] = "begun" /\ Signing(r, "oauth")
    /\ LET existing == OwnersOf(call[r].way) IN
       IF existing = {} /\ Joinable(r) = {}
         THEN Proceed(r, "register") /\ UNCHANGED requests
         ELSE /\ owner' = [owner EXCEPT ![r] =
                     OneOf(IF existing # {} THEN existing ELSE Joinable(r))]
              /\ Proceed(r, IF existing # {} THEN "verify" ELSE "lock")
              /\ UNCHANGED <<call, draws, seen>>
    /\ Quietly

\* Mutant: the identity found before the lock is the one signed in with.
SignInByIdentityFound(r) ==
    /\ step[r] = "verify"
    /\ LockFree(owner[r])
    /\ Proceed(r, "issue") /\ UNCHANGED requests
    /\ Quietly

\* theIdentityUnderItsAccountLock and checkedIdentityOf.
SignInByIdentity(r) ==
    /\ step[r] = "verify"
    /\ LockFree(owner[r])
    /\ IF owner[r] \in OwnersOf(call[r].way) /\ call[r].way \in sealed[owner[r]]
         THEN Proceed(r, "issue") /\ UNCHANGED requests
         ELSE End(r, "refused")
    /\ Quietly

\* createAccountFor and insertIdentityOfSignIn; a subject linked meanwhile rolls
\* the account back.
CommitCreation(r, u) ==
    /\ step[r] = "inserted" /\ Signing(r, "oauth")
    /\ OwnersOf(call[r].way) = {}
    /\ Create(r, u, Values(r), {call[r].way}, call[r].verified, "none")
    /\ Proceed(r, "issue")

CreationLosesTheSubject(r) ==
    /\ step[r] = "inserted" /\ Signing(r, "oauth")
    /\ OwnersOf(call[r].way) # {}
    /\ End(r, "refused")
    /\ Quietly

(***************************************************************************)
(* Changes of the sign-in methods, under the account lock.                 *)
(***************************************************************************)

\* Mutant: the account found before the lock is the one joined.
LockAccountFound(r) ==
    /\ step[r] = "lock"
    /\ LockFree(owner[r])
    /\ IF owner[r] \in Live
         THEN /\ seen' = [seen EXCEPT ![r] = ways[owner[r]]]
              /\ Proceed(r, "locked")
              /\ UNCHANGED <<call, owner, draws>>
         ELSE End(r, "refused")
    /\ Quietly

\* sealChange reads under the lock; an automatic link looks once more whether
\* it may join.
LockAccount(r) ==
    /\ step[r] = "lock"
    /\ LockFree(owner[r])
    /\ IF owner[r] \in Live /\ (Signing(r, "oauth") => owner[r] \in Joinable(r))
         THEN /\ seen' = [seen EXCEPT ![r] = ways[owner[r]]]
              /\ Proceed(r, "locked")
              /\ UNCHANGED <<call, owner, draws>>
         ELSE End(r, "refused")
    /\ Quietly

\* assertBelowCredentialLimit and the unique pair or credential id;
\* removeSignInMethod counts what is left without the one it removes.
MayAdd(r) ==
    /\ OwnersOf(call[r].way) = {}
    /\ Cardinality(seen[r] \cap Kind(call[r].way)) < Limit

\* Mutant: the way in to be removed is counted with those that are left.
MayRemoveTheLast(r) == ways[owner[r]] # {}

MayRemove(r) == ways[owner[r]] \ {call[r].way} # {}

\* The write and the seal over the components as the write leaves them.
CommitChange(r) ==
    /\ step[r] = "locked"
    /\ LET u == owner[r]
           removing == call[r].for = "remove"
       IN  IF IF removing THEN MayRemove(r) ELSE MayAdd(r)
             THEN /\ ways' = [ways EXCEPT ![u] =
                         IF removing THEN @ \ {call[r].way} ELSE @ \cup {call[r].way}]
                  /\ sealed' = [sealed EXCEPT ![u] =
                         IF removing THEN seen[r] \ {call[r].way} ELSE seen[r] \cup {call[r].way}]
                  /\ IF call[r].for = "oauth"
                       THEN Proceed(r, "issue") /\ UNCHANGED requests
                       ELSE End(r, "changed")
             ELSE End(r, "refused") /\ UNCHANGED <<ways, sealed>>
    /\ mail' = "none"
    /\ UNCHANGED <<status, holds, confirmed, link, told, bounds>>

(***************************************************************************)
(* Sign-in with a passkey.                                                 *)
(***************************************************************************)

\* findCredentialByCredentialId, without a lock.
FindPasskey(r) ==
    /\ step[r] = "begun" /\ Signing(r, "assert")
    /\ IF OwnersOf(call[r].way) = {} THEN End(r, "refused")
       ELSE /\ owner' = [owner EXCEPT ![r] = OneOf(OwnersOf(call[r].way))]
            /\ Proceed(r, "check")
            /\ UNCHANGED <<call, draws, seen>>
    /\ Quietly

\* verifyCheckedAssertion: the passkey must be one of those the seal covers.  An
\* account that is gone has none; a passkey removed meanwhile raises the alarm.
CheckPasskey(r) ==
    /\ step[r] = "check"
    /\ IF call[r].way \in sealed[owner[r]] THEN Proceed(r, "record") /\ UNCHANGED requests
       ELSE End(r, IF owner[r] \in Live THEN "alarmed" ELSE "refused")
    /\ Quietly

\* recordAssertion writes to the row that was verified, or to none.
RecordAssertion(r) ==
    /\ step[r] = "record"
    /\ IF owner[r] \in OwnersOf(call[r].way) THEN Proceed(r, "issue") /\ UNCHANGED requests
       ELSE End(r, "refused")
    /\ Quietly

\* The session, or the pending second factor, of an account still there.
Issue(r) ==
    /\ step[r] = "issue"
    /\ End(r, IF owner[r] \in Live THEN "signed_in" ELSE "failed")
    /\ Quietly

(***************************************************************************)
(* What redemptions of mailed links and the application do to an account.  *)
(***************************************************************************)

\* The password is deleted and the seal covers what is left.
WithoutThePassword(u) ==
    /\ ways' = [ways EXCEPT ![u] = @ \ {Password}]
    /\ sealed' = [sealed EXCEPT ![u] = @ \ {Password}]

\* confirmAddress, but for the link and the address: the first confirmation
\* deletes a password that was not set in the session it comes with, be it the
\* only way in, and a later one deletes nothing.  Whether it comes with that
\* session is the confirmer's.
ConfirmUnderTheLock(u) ==
    /\ LockFree(u)
    /\ confirmed' = confirmed \cup {u}
    /\ \/ u \notin confirmed /\ WithoutThePassword(u)
       \/ UNCHANGED <<ways, sealed>>
    /\ mail' = "none" /\ answer' = "none"

\* A redeemed verification spends the link; a magic link, or a verification asked
\* for later, proves the account's address as well.
Confirm(u) ==
    /\ u \in Live
    /\ \/ link[u] = "mailed" /\ link' = [link EXCEPT ![u] = "spent"]
       \/ UNCHANGED link
    /\ ConfirmUnderTheLock(u)
    /\ UNCHANGED <<status, holds, step, requests, told, bounds>>

\* A redeemed change of address leaves the contested one, withdraws the link and
\* confirms the new one.
LeaveAddress(u) ==
    /\ u \in HeldBy("address")
    /\ holds' = [holds EXCEPT ![u] = @ \ {"address"}]
    /\ link' = [link EXCEPT ![u] = IF @ = "none" THEN @ ELSE "spent"]
    /\ ConfirmUnderTheLock(u)
    /\ bereft' = {r \in Request : step[r] # "idle"}
    /\ UNCHANGED <<status, step, requests, renamed, bounds>>

\* replacePassword, of a reset by mail or by a recovery code: it confirms nothing.
ResetPassword(u) ==
    /\ "resetPassword" \in Operation
    /\ u \in Live
    /\ LockFree(u)
    /\ ways' = [ways EXCEPT ![u] = @ \cup {Password}]
    /\ sealed' = [sealed EXCEPT ![u] = @ \cup {Password}]
    /\ mail' = "none" /\ answer' = "none"
    /\ UNCHANGED <<status, holds, confirmed, link, step, requests, told, bounds>>

\* updateUsername, one statement on the account's row: it gives the contested name
\* up for another, or takes it where it is free, waiting for a transaction that
\* inserted it.
ChangeName(u) ==
    /\ "changeName" \in Operation
    /\ u \in Live
    /\ LockFree(u)
    /\ IF "name" \in holds[u]
         THEN /\ holds' = [holds EXCEPT ![u] = @ \ {"name"}]
              /\ renamed' = renamed \cup {r \in Request : Signing(r, "signUp") /\ call[r].named}
         ELSE /\ HeldBy("name") = {}
              /\ \A r \in Request : step[r] = "inserted" => "name" \notin Values(r)
              /\ holds' = [holds EXCEPT ![u] = @ \cup {"name"}]
              /\ UNCHANGED renamed
    /\ mail' = "none" /\ answer' = "none"
    /\ UNCHANGED <<status, confirmed, ways, sealed, link, step, requests, bereft, bounds>>

Delete(u) ==
    /\ u \in Live
    /\ deletions < MaxDeletions
    /\ deletions' = deletions + 1
    /\ answer' = "none"
    /\ UNCHANGED <<step, requests, calls>>
    /\ RemoveUser(u)

Next ==
    \/ \E r \in Request :
          \/ \E c \in Call : Begin(r, c)
          \/ FindAddressOwner(r) \/ InsertUser(r) \/ Veto(r)
          \/ DiscardRegistration(r) \/ AskForTheName(r)
          \/ Announce(r) \/ AnnounceFails(r) \/ SpendLink(r) \/ RemoveUntoldAccount(r)
          \/ FindAccount(r) \/ SignInByIdentity(r) \/ CreationLosesTheSubject(r)
          \/ LockAccount(r) \/ CommitChange(r)
          \/ FindPasskey(r) \/ CheckPasskey(r) \/ RecordAssertion(r) \/ Issue(r)
          \/ \E u \in Account : CommitRegistration(r, u) \/ CommitCreation(r, u)
    \/ \E u \in Account :
          \/ Confirm(u) \/ LeaveAddress(u) \/ ResetPassword(u) \/ ChangeName(u) \/ Delete(u)

Spec == Init /\ [][Next]_vars

(***************************************************************************)
(* Properties.                                                             *)
(***************************************************************************)

\* Every variable holds a value of its kind.
TypeOK ==
    /\ status \in [Account -> {"absent", "live", "gone"}]
    /\ holds \in [Account -> SUBSET {"address", "name"}]
    /\ confirmed \subseteq Live
    /\ ways \in [Account -> SUBSET Way]
    /\ sealed \in [Account -> SUBSET Way]
    /\ link \in [Account -> {"none", "minted", "mailed", "spent"}]
    /\ step \in [Request -> Step]
    /\ call \in [Request -> Call \cup {NoCall}]
    /\ owner \in [Request -> Account \cup {Nobody}]
    /\ draws \in [Request -> 0 .. CoverDraws]
    /\ seen \in [Request -> SUBSET Way]
    /\ bereft \subseteq Request /\ renamed \subseteq Request
    /\ calls \in 0 .. MaxCalls /\ deletions \in 0 .. MaxDeletions

\* The seal of an account covers exactly the sign-in methods it has, and they
\* keep to the limit, whatever links, registrations and removals run at once.
SealCoversTheWaysIn ==
    \A u \in Account :
        /\ sealed[u] = ways[u]
        /\ Cardinality(ways[u] \cap Subject) <= Limit
        /\ Cardinality(ways[u] \cap Passkey) <= Limit

\* Two removals at once never take an account's last way in (sign-in-methods.ts:111):
\* one that has a way in keeps one for as long as it lives, but for the password that
\* was its only one when its address is confirmed for the first time (S-LINK-4).
LastWayInStays ==
    [][\A u \in Live : ways[u] # {} /\ status'[u] = "live" /\ ways'[u] = {}
         => ways[u] = {Password} /\ u \in confirmed' \ confirmed]_vars

\* Whoever is signed in by a subject or a passkey is signed in to the account
\* that has it then, not to the one that had it when it was looked up.
SignsInByAHeldWay ==
    [][\A r \in Request : step[r] # "issue" /\ step'[r] = "issue"
         => call[r].way \in ways'[owner'[r]] /\ status'[owner'[r]] = "live"]_vars

\* A provider sign-in is linked only to an account it creates or one that has
\* the address the provider verified, itself verified, when the link is made.
LinksJoinConfirmedAddresses ==
    [][\A r \in Request : step[r] = "locked" /\ step'[r] = "issue"
         => owner[r] \in HeldBy("address") \cap confirmed]_vars

\* A sign-up that answers as created has mailed somebody, the new account or the
\* owner of the address, unless an account ended or left the address while it ran, or
\* gave up the name it asked for; without that none ends in a unique violation it
\* cannot name (E-947).
EverySignUpIsTold ==
    [][\A r \in Request \ (bereft \cup renamed) : step[r] # "idle" /\ step'[r] = "idle"
         => /\ answer' = "created" => mail' # "none"
            /\ answer' # "unmapped"]_vars

\* The decision log on a sign-up that mails nobody: it "needs a registration and a
\* deletion to interleave inside one request" (docs/decisions/log.md:7159).
UntoldOnlyByAnEnd ==
    [][\A r \in Request \ bereft : step[r] # "idle" /\ step'[r] = "idle"
         => (answer' = "created" => mail' # "none")]_vars

\* "removeTheAccountNobodyWasToldAbout" (sign-up.ts:225): an account deleted
\* because its confirmation could not be sent is one nobody has confirmed.
ConfirmedAccountsStay ==
    [][\A r \in Request : step[r] = "remove" /\ step'[r] = "idle"
         => owner[r] \notin confirmed \cap HeldBy("address")]_vars

=============================================================================
