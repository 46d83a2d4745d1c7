--------------------------- MODULE MigrationsProofs ---------------------------
(***************************************************************************)
(* Theorems about Migrations, for any number of runners, builds and        *)
(* migrations and whatever the SQL of the plugins turns out to do: the     *)
(* ledger tells the schema, what is committed keeps to its owner, a run    *)
(* that ended well leaves its build up to date, and no migration fails on  *)
(* another's.                                                              *)
(***************************************************************************)
EXTENDS Migrations, TLAPS

-----------------------------------------------------------------------------
(* The inductive invariant.                                                *)

InHand(r) == grants[r].asked \cup grants[r].found \cup grants[r].given

\* A run that grants has every table of its plan that stands still in hand.
GrantsInHand(r) ==
  /\ InHand(r) \subseteq DeclaredTablesOf(work[r].build)
  /\ \A n \in OwnTables(schema, DeclaredTablesOf(work[r].build)) :
       schema[n].maker \in Plan[work[r].build] => n \in InHand(r)

\* What a runner has passed is recorded; one that grants or has ended well has
\* passed all of its plan; one that holds the lock runs a migration that the
\* ledger does not have, and the library's waits for nobody's grants; then it is
\* about to commit what that migration made of the schema that still stands.
RunInv(r) ==
  /\ pc[r] # "idle" => work[r].build \in Build
  /\ work[r].through \subseteq ledger
  /\ pc[r] \in {"asking", "granting", "done"} => Left(r) = {}
  /\ pc[r] \in {"asking", "granting"} => GrantsInHand(r)
  /\ pc[r] = "done" =>
       \A n \in OwnTables(schema, DeclaredTablesOf(work[r].build)) :
         schema[n].maker \in Plan[work[r].build] => n \in granted
  /\ pc[r] = "running" =>
       \E m \in Upcoming(r) : /\ work[r].doing = {m} /\ AlreadyApplied(m) = {}
                              /\ r \in behind => Owner(m) # "core"
  /\ pc[r] = "applied" =>
       \E m \in Upcoming(r) : /\ work[r].doing = {m} /\ work[r].draft = After(m)
                              /\ AlreadyApplied(m) = {} /\ Executable(m)

\* What a stopped runner says of why it stopped.
VerdictInv(r) ==
  pc[r] = "stopped" =>
    CASE work[r].verdict = "error"    -> \A m \in Upcoming(r) : Owner(m) # "core"
      [] work[r].verdict = "checksum" ->
           \E m \in Plan[work[r].build], row \in ledger : SameMigration(m, row) /\ m # row
      [] work[r].verdict = "grant"    -> work[r].build \in Build /\ Left(r) = {}
      [] OTHER -> TRUE

\* The plugins' role reaches only what a recorded migration of a plugin declared.
GrantsInv == \A n \in granted : \E m \in ledger : Owner(m) # "core" /\ n \in Declares(m)

DeclaredBy(owner, n) == \E m \in ledger : Owner(m) = owner /\ n \in Declares(m)

\* What a relation inherits from was declared by its owner, standing or not.
ParentsInv ==
  \A n \in Name : schema[n] # Absent =>
    \A parent \in schema[n].parents : DeclaredBy(Owner(schema[n].maker), parent)

MigrationsInv ==
  /\ TypeOK
  /\ \A r \in Runner : RunInv(r) /\ VerdictInv(r)
  /\ GrantsInv
  /\ ParentsInv
  /\ LedgerTellsTheSchema
  /\ OwnersAlone

-----------------------------------------------------------------------------
(* Migrations, deeds and relations.                                        *)

Owners == Plugin \cup {"core"}

\* What is known of a migration.
LEMMA FactsOf ==
  ASSUME NEW m \in Migration
  PROVE  Owner(m) \in Owners /\ Version(m) \in Nat /\ Declares(m) \in SUBSET Name
BY MigrationsAssumption DEF Owners, Owner, Version, Declares

LEMMA DoneTyped == \A m, deed : Done(m, deed) \subseteq Name
BY DEF Done

\* The SQL of the library creates what it declares and does nothing else.
LEMMA CoreDeeds ==
  ASSUME NEW m \in Migration, Owner(m) = "core"
  PROVE  /\ Done(m, "create") = Declares(m)
         /\ \A deed : deed # "create" => Done(m, deed) = {}
<1>1. DeedsOf(m) = {[does |-> "create", to |-> n] : n \in Declares(m)} /\ Declares(m) \subseteq Name
  BY FactsOf DEF DeedsOf
<1>2. \A n, deed : [does |-> deed, to |-> n] \in DeedsOf(m) <=> deed = "create" /\ n \in Declares(m)
  <2>1. ASSUME NEW n, NEW deed, [does |-> deed, to |-> n] \in DeedsOf(m)
        PROVE  deed = "create" /\ n \in Declares(m)
    <3>1. PICK x \in Declares(m) : [does |-> deed, to |-> n] = [does |-> "create", to |-> x]
      BY <1>1, <2>1
    <3>2. [does |-> deed, to |-> n].does = [does |-> "create", to |-> x].does
          /\ [does |-> deed, to |-> n].to = [does |-> "create", to |-> x].to
      BY <3>1
    <3> QED  BY <3>2
  <2> QED  BY <1>1, <2>1
<1> QED  BY <1>1, <1>2 DEF Done

\* Changing one relation of the schema, field by field.
Changed(made, s, t, d, p) ==
  [made EXCEPT !.shaped = s, !.reached = t, !.dangles = d, !.parents = p]

LEMMA RelationUpdates ==
  ASSUME NEW made \in Relation, NEW s \in SUBSET Owners, NEW t \in SUBSET Owners, NEW d \in BOOLEAN,
         NEW p \in SUBSET Name
  PROVE  LET after == Changed(made, s, t, d, p)
         IN  /\ after \in Relation /\ after # Absent
             /\ after.maker = made.maker /\ after.kind = made.kind
             /\ after.shaped = s /\ after.reached = t /\ after.parents = p
<1> DEFINE after == Changed(made, s, t, d, p)
<1>1. ASSUME NEW Kinds, NEW Flag, NEW x \in [maker : Migration, kind : Kinds, shaped : SUBSET Owners,
                                             reached : SUBSET Owners, dangles : Flag, parents : SUBSET Name],
             NEW b \in Flag
      PROVE  LET y == [x EXCEPT !.shaped = s, !.reached = t, !.dangles = b, !.parents = p]
             IN  /\ y \in [maker : Migration, kind : Kinds, shaped : SUBSET Owners,
                           reached : SUBSET Owners, dangles : Flag, parents : SUBSET Name]
                 /\ y.maker = x.maker /\ y.kind = x.kind
                 /\ y.shaped = s /\ y.reached = t /\ y.dangles = b /\ y.parents = p
  OBVIOUS
<1>2. /\ after \in Relation
      /\ after.maker = made.maker /\ after.kind = made.kind
      /\ after.shaped = s /\ after.reached = t /\ after.dangles = d /\ after.parents = p
  BY <1>1, Zenon DEF Relation, Owners, Changed
<1> QED  BY <1>2, AbsentAssumption

LEMMA RelationFields ==
  ASSUME NEW x \in Relation
  PROVE  /\ x # Absent
         /\ x.maker \in Migration /\ x.shaped \in SUBSET Owners /\ x.reached \in SUBSET Owners
         /\ x.dangles \in BOOLEAN /\ x.parents \in SUBSET Name
BY AbsentAssumption DEF Relation, Owners

\* A relation as it is made.
LEMMA FreshFields ==
  ASSUME NEW m \in Migration, NEW kind \in {"table", "view"}
  PROVE  /\ Fresh(m, kind) \in Relation
         /\ Fresh(m, kind).maker = m /\ Fresh(m, kind).kind = kind
         /\ Fresh(m, kind).shaped = {Owner(m)} /\ Fresh(m, kind).reached = {}
         /\ Fresh(m, kind).dangles = FALSE /\ Fresh(m, kind).parents = {}
<1>1. Owner(m) \in Owners
  BY FactsOf
<1> QED  BY <1>1 DEF Fresh, Relation, Owners

LEMMA AfterAt ==
  ASSUME NEW m, NEW n \in Name
  PROVE  After(m)[n] =
           IF n \in Done(m, "drop") \/ Made(m, n) = Absent THEN Absent
           ELSE [Made(m, n) EXCEPT
                   !.shaped  = IF n \in Shaped(m) THEN @ \cup {Owner(m)} ELSE @,
                   !.reached = IF n \in Reached(m) THEN @ \cup {Owner(m)} ELSE @,
                   !.dangles = @ \/ n \in Done(m, "dangle"),
                   !.parents = IF n \in Done(m, "create") THEN Done(m, "inherit") ELSE @]
BY DEF After

LEMMA MadeOf ==
  ASSUME NEW m, NEW n
  PROVE  /\ n \in Created(m) => Made(m, n) = Fresh(m, "table") \/ Made(m, n) = Fresh(m, "view")
         /\ n \notin Done(m, "view") /\ n \in Created(m) => Made(m, n) = Fresh(m, "table")
         /\ n \notin Created(m) => Made(m, n) = schema[n]
BY DEF Made, Created

\* What the transaction makes of a relation that is there.
LEMMA ShapedAfter ==
  ASSUME NEW m \in Migration, NEW n \in Name, Made(m, n) \in Relation, n \notin Done(m, "drop")
  PROVE  /\ After(m)[n] \in Relation /\ After(m)[n] # Absent
         /\ After(m)[n].maker = Made(m, n).maker /\ After(m)[n].kind = Made(m, n).kind
         /\ After(m)[n].shaped = IF n \in Shaped(m) THEN Made(m, n).shaped \cup {Owner(m)}
                                 ELSE Made(m, n).shaped
         /\ After(m)[n].reached = IF n \in Reached(m) THEN Made(m, n).reached \cup {Owner(m)}
                                  ELSE Made(m, n).reached
         /\ After(m)[n].parents = IF n \in Done(m, "create") THEN Done(m, "inherit")
                                  ELSE Made(m, n).parents
<1>1. PICK made \in Relation : made = Made(m, n)
  OBVIOUS
<1>2. /\ made # Absent
      /\ made.shaped \in SUBSET Owners /\ made.reached \in SUBSET Owners
      /\ made.dangles \in BOOLEAN /\ made.parents \in SUBSET Name
  BY <1>1, RelationFields
<1>3. PICK s \in SUBSET Owners :
         s = IF n \in Shaped(m) THEN made.shaped \cup {Owner(m)} ELSE made.shaped
  BY <1>2, FactsOf
<1>4. PICK t \in SUBSET Owners :
         t = IF n \in Reached(m) THEN made.reached \cup {Owner(m)} ELSE made.reached
  BY <1>2, FactsOf
<1>5. PICK d \in BOOLEAN : d = (made.dangles \/ n \in Done(m, "dangle"))
  BY Zenon
<1>6. PICK p \in SUBSET Name :
         p = IF n \in Done(m, "create") THEN Done(m, "inherit") ELSE made.parents
  BY <1>2, DoneTyped
<1>7. After(m)[n] = Changed(made, s, t, d, p)
  BY <1>1, <1>2, <1>3, <1>4, <1>5, <1>6, AfterAt DEF Changed
<1>8. /\ made \in Relation /\ s \in SUBSET Owners /\ t \in SUBSET Owners
      /\ d \in BOOLEAN /\ p \in SUBSET Name
  BY <1>1, <1>3, <1>4, <1>5, <1>6, Zenon
<1>9. LET after == Changed(made, s, t, d, p)
      IN  /\ after \in Relation /\ after # Absent
          /\ after.maker = made.maker /\ after.kind = made.kind
          /\ after.shaped = s /\ after.reached = t /\ after.parents = p
  BY RelationUpdates
<1> QED  BY <1>1, <1>3, <1>4, <1>6, <1>7, <1>9

\* A name after the migration: dropped, made by it, or what it was.
LEMMA AfterOf ==
  ASSUME TypeOK, NEW m \in Migration, NEW n \in Name
  PROVE  /\ n \in Done(m, "drop") => After(m)[n] = Absent
         /\ n \notin Done(m, "drop") /\ n \in Created(m) =>
              /\ After(m)[n] \in Relation /\ After(m)[n] # Absent /\ After(m)[n].maker = m
              /\ n \notin Done(m, "view") => After(m)[n].kind = "table"
              /\ After(m)[n].shaped \subseteq {Owner(m)} /\ After(m)[n].reached \subseteq {Owner(m)}
              /\ After(m)[n].parents \subseteq Done(m, "inherit")
         /\ n \notin Done(m, "drop") /\ n \notin Created(m) /\ schema[n] = Absent => After(m)[n] = Absent
         /\ n \notin Done(m, "drop") /\ n \notin Created(m) /\ schema[n] # Absent =>
              /\ After(m)[n] \in Relation /\ After(m)[n] # Absent
              /\ After(m)[n].maker = schema[n].maker /\ After(m)[n].kind = schema[n].kind
              /\ After(m)[n].parents = schema[n].parents
              /\ After(m)[n].shaped \subseteq
                   (IF n \in Shaped(m) THEN schema[n].shaped \cup {Owner(m)} ELSE schema[n].shaped)
              /\ After(m)[n].reached \subseteq
                   (IF n \in Reached(m) THEN schema[n].reached \cup {Owner(m)} ELSE schema[n].reached)
<1>1. CASE n \in Done(m, "drop")
  BY <1>1, AfterAt
<1>2. CASE n \notin Done(m, "drop") /\ n \in Created(m)
  <2>1. PICK kind \in {"table", "view"} : /\ Made(m, n) = Fresh(m, kind)
                                          /\ n \notin Done(m, "view") => kind = "table"
    BY <1>2, MadeOf
  <2>2. /\ Fresh(m, kind) \in Relation /\ Fresh(m, kind).maker = m /\ Fresh(m, kind).kind = kind
        /\ Fresh(m, kind).shaped = {Owner(m)} /\ Fresh(m, kind).reached = {}
        /\ Fresh(m, kind).parents = {}
    <3>1. CASE kind = "table"
      BY <3>1, FreshFields
    <3>2. CASE kind = "view"
      BY <3>2, FreshFields
    <3> QED  BY <2>1, <3>1, <3>2
  <2>3. /\ Made(m, n) \in Relation /\ Made(m, n).maker = m /\ Made(m, n).kind = kind
        /\ Made(m, n).shaped = {Owner(m)} /\ Made(m, n).reached = {} /\ Made(m, n).parents = {}
    BY <2>1, <2>2, Zenon
  <2> QED  BY <1>2, <2>1, <2>3, ShapedAfter, ZenonT(30)
<1>3. CASE n \notin Done(m, "drop") /\ n \notin Created(m) /\ schema[n] = Absent
  <2>1. Made(m, n) = Absent
    BY <1>3, MadeOf
  <2>2. After(m)[n] = Absent
    BY <2>1, AfterAt, Zenon
  <2> QED  BY <1>3, <2>2
<1>4. CASE n \notin Done(m, "drop") /\ n \notin Created(m) /\ schema[n] # Absent
  <2>1. Made(m, n) = schema[n] /\ schema[n] \in Relation
    BY <1>4, MadeOf DEF TypeOK
  <2>2. /\ After(m)[n] \in Relation /\ After(m)[n] # Absent
        /\ After(m)[n].maker = schema[n].maker /\ After(m)[n].kind = schema[n].kind
        /\ After(m)[n].shaped = (IF n \in Shaped(m) THEN schema[n].shaped \cup {Owner(m)}
                                 ELSE schema[n].shaped)
        /\ After(m)[n].reached = (IF n \in Reached(m) THEN schema[n].reached \cup {Owner(m)}
                                  ELSE schema[n].reached)
        /\ After(m)[n].parents = (IF n \in Done(m, "create") THEN Done(m, "inherit")
                                  ELSE schema[n].parents)
    BY <1>4, <2>1, ShapedAfter
  <2>3. n \notin Done(m, "create")
    BY <1>4 DEF Created
  <2> QED  BY <1>4, <2>2, <2>3
<1> QED  BY <1>1, <1>2, <1>3, <1>4

LEMMA AfterTyped ==
  ASSUME TypeOK, NEW m \in Migration
  PROVE  After(m) \in [Name -> Relation \cup {Absent}]
<1>1. ASSUME NEW n \in Name PROVE After(m)[n] \in Relation \cup {Absent}
  BY AfterOf
<1>2. After(m) = [n \in Name |-> After(m)[n]]
  BY DEF After
<1> QED  BY <1>1, <1>2

-----------------------------------------------------------------------------
(* The order of a plan, and what its declarations say of owners.           *)

\* A name is declared for one owner only.
LEMMA OneOwner ==
  ASSUME NEW m1 \in Migration, NEW m2 \in Migration, NEW n, n \in Declares(m1), n \in Declares(m2)
  PROVE  Owner(m1) = Owner(m2) /\ (Owner(m1) = "core" => Version(m1) = Version(m2))
<1>1. Declares(m1) \cap Declares(m2) # {}
  OBVIOUS
<1> QED  BY <1>1, DeclarationsAssumption

LEMMA PositionTyped ==
  ASSUME NEW build \in Build, NEW m \in Plan[build]
  PROVE  Position(build, Owner(m)) \in Nat
<1>1. CASE Owner(m) = "core"
  BY <1>1 DEF Position
<1>2. CASE Owner(m) # "core"
  <2>1. \E i \in DOMAIN Order[build] : Order[build][i] = Owner(m)
    BY <1>2, DeclarationsAssumption
  <2>2. DOMAIN Order[build] \subseteq Nat
    BY MigrationsAssumption
  <2>3. (CHOOSE i \in DOMAIN Order[build] : Order[build][i] = Owner(m)) \in DOMAIN Order[build]
    BY <2>1
  <2> QED  BY <1>2, <2>2, <2>3 DEF Position
<1> QED  BY <1>1, <1>2

\* Of two migrations of a plan at most one comes before the other.
LEMMA BeforeIsAsymmetric ==
  ASSUME NEW build \in Build, NEW m1 \in Plan[build], NEW m2 \in Plan[build],
         Before(build, m1, m2)
  PROVE  ~Before(build, m2, m1)
<1>1. Plan[build] \subseteq Migration
  BY MigrationsAssumption
<1>2. /\ Position(build, Owner(m1)) \in Nat /\ Position(build, Owner(m2)) \in Nat
      /\ Version(m1) \in Nat /\ Version(m2) \in Nat
  BY <1>1, PositionTyped, FactsOf
<1> QED  BY <1>2 DEF Before

\* A run comes to one migration at a time, of its own plan.
LEMMA UpcomingIsOne ==
  ASSUME NEW r, work[r].build \in Build, NEW m \in Upcoming(r)
  PROVE  /\ m \in Plan[work[r].build] /\ m \in Migration
         /\ \A other \in Upcoming(r) : other = m
<1>1. m \in Plan[work[r].build] /\ Plan[work[r].build] \subseteq Migration
  BY MigrationsAssumption DEF Upcoming, Left
<1>2. ASSUME NEW other \in Upcoming(r), other # m PROVE FALSE
  <2>1. Before(work[r].build, m, other) /\ Before(work[r].build, other, m)
    BY <1>2 DEF Upcoming
  <2>2. other \in Plan[work[r].build]
    BY DEF Upcoming, Left
  <2> QED  BY <1>1, <2>1, <2>2, BeforeIsAsymmetric
<1> QED  BY <1>1, <1>2

\* What a plugin's earlier migrations declare is declared by the ledger.
LEMMA EarlierOnesAreRecorded ==
  ASSUME NEW r, work[r].build \in Build, work[r].through \subseteq ledger,
         NEW m \in Upcoming(r), NEW n \in DeclaredBefore(r, m)
  PROVE  DeclaredBy(Owner(m), n)
<1>1. PICK x \in Plan[work[r].build] : Owner(x) = Owner(m) /\ Version(x) < Version(m) /\ n \in Declares(x)
  BY DEF DeclaredBefore
<1>2. m \in Plan[work[r].build] /\ m \in Migration /\ x \in Migration
  BY <1>1, UpcomingIsOne, MigrationsAssumption
<1>3. Version(x) \in Nat /\ Version(m) \in Nat /\ Position(work[r].build, Owner(m)) \in Nat
  BY <1>2, FactsOf, PositionTyped
<1>4. ~Before(work[r].build, m, x)
  BY <1>1, <1>3 DEF Before
<1>5. x # m
  BY <1>1, <1>3
<1>6. x \in work[r].through
  BY <1>1, <1>4, <1>5 DEF Upcoming, Left
<1> QED  BY <1>1, <1>6 DEF DeclaredBy


-----------------------------------------------------------------------------
(* A migration that passes keeps to its owner.                             *)

\* A name that its owner has declared, with this migration at the latest.
Ours(m, n) == n \in Declares(m) \/ DeclaredBy(Owner(m), n)

KeepsToItsOwner(m) ==
  /\ Done(m, "code") \cup Done(m, "loose") = {}
  /\ \A n \in Created(m) : n \notin Done(m, "drop") /\ After(m)[n].kind = "table" /\ Ours(m, n)
  /\ \A n \in Done(m, "inherit") : Ours(m, n)
  /\ \A n \in Shaped(m) \cup Reached(m) \cup Done(m, "drop") : schema[n] # Absent => Ours(m, n)
  /\ \A n \in Declares(m) : schema[n] = Absent /\ n \in Created(m)

\* The SQL of the library does, because PostgreSQL creates nothing that exists.
LEMMA CoreKeepsToItsOwner ==
  ASSUME TypeOK, NEW m \in Migration, Owner(m) = "core", Executable(m)
  PROVE  KeepsToItsOwner(m)
<1>1. /\ Done(m, "create") = Declares(m) /\ Declares(m) \subseteq Name
      /\ Done(m, "code") = {} /\ Done(m, "loose") = {} /\ Done(m, "inherit") = {}
      /\ Done(m, "drop") = {} /\ Done(m, "view") = {} /\ Done(m, "replace") = {}
      /\ Done(m, "alter") = {} /\ Done(m, "dangle") = {}
      /\ Done(m, "write") = {} /\ Done(m, "read") = {}
  BY CoreDeeds, FactsOf
<1>2. Created(m) = Declares(m) /\ Shaped(m) = {} /\ Reached(m) = {}
  BY <1>1 DEF Created, Shaped, Reached
<1>3. \A n \in Declares(m) : schema[n] = Absent
  BY <1>1 DEF Executable
<1>4. \A n \in Declares(m) : After(m)[n].kind = "table"
  BY <1>1, <1>2, AfterOf
<1> QED  BY <1>1, <1>2, <1>3, <1>4 DEF KeepsToItsOwner, Ours

\* A plugin's does, because it is judged by what it did.
LEMMA AcceptedKeepsToItsOwner ==
  ASSUME TypeOK, NEW r, work[r].build \in Build, work[r].through \subseteq ledger,
         NEW m \in Upcoming(r), Accepted(r, m, After(m))
  PROVE  KeepsToItsOwner(m)
<1> DEFINE declared  == DeclaredBefore(r, m) \cup Declares(m)
           ownBefore == OwnTables(schema, DeclaredBefore(r, m))
           own       == OwnTables(After(m), declared)
<1>1. m \in Migration /\ Declares(m) \subseteq Name
  BY UpcomingIsOne, FactsOf
<1>2. \A n \in declared : Ours(m, n)
  BY EarlierOnesAreRecorded DEF Ours
<1>3. \A n \in ownBefore \cup own : n \in declared
  BY DEF OwnTables
<1>4. \A n \in own : After(m)[n] # Absent /\ After(m)[n].kind = "table"
  BY DEF OwnTables
<1>5. /\ Done(m, "inherit") \subseteq own
      /\ Done(m, "code") = {} /\ Done(m, "loose") = {} /\ Created(m) \subseteq own
      /\ Reached(m) \subseteq declared
      /\ \A n \in Name \ (ownBefore \cup own) : schema[n] # Absent => After(m)[n] # Absent /\ n \notin Shaped(m)
      /\ \A n \in Declares(m) : schema[n] = Absent /\ After(m)[n] # Absent
  <2>1. /\ Done(m, "inherit") \subseteq own /\ Done(m, "code") = {}
        /\ Done(m, "loose") = {} /\ Created(m) \subseteq own
        /\ Reached(m) \subseteq declared
    BY DEF Accepted, EveryInheritanceIsAmongItsOwn, NoCodeIsLeftBehind, EveryCreatedObjectBelongs,
           NoForeignRowIsReached
  <2>2. \A n \in Name \ (ownBefore \cup own) : schema[n] # Absent => After(m)[n] # Absent /\ n \notin Shaped(m)
    BY DEF Accepted, EveryOtherObjectIsLeft, NoForeignObjectIsAltered
  <2>3. \A n \in Declares(m) : schema[n] = Absent /\ After(m)[n] # Absent
    <3>1. Declares(m) = {n \in Name : schema[n] = Absent /\ After(m)[n] # Absent
                                      /\ After(m)[n].kind = "table"}
      BY DEF Accepted, TheTablesThatAppearedAreDeclared
    <3> QED  BY <3>1
  <2> QED  BY <2>1, <2>2, <2>3
<1> HIDE DEF declared, ownBefore, own
<1>6. \A n \in Created(m) : n \notin Done(m, "drop") /\ After(m)[n].kind = "table" /\ Ours(m, n)
  <2> TAKE n \in Created(m)
  <2>1. n \in own /\ n \in Name
    BY <1>5, DoneTyped DEF Created
  <2>2. n \in Done(m, "drop") => After(m)[n] = Absent
    BY <1>1, <2>1, AfterOf
  <2> QED  BY <1>2, <1>3, <1>4, <2>1, <2>2
<1>7. \A n \in Shaped(m) \cup Reached(m) \cup Done(m, "drop") : schema[n] # Absent => Ours(m, n)
  <2> SUFFICES ASSUME NEW n \in Shaped(m) \cup Reached(m) \cup Done(m, "drop"), schema[n] # Absent
               PROVE  n \in declared
    BY <1>2
  <2>1. n \in Name
    BY DoneTyped DEF Shaped, Reached
  <2>2. n \in Done(m, "drop") => After(m)[n] = Absent
    BY <1>1, <2>1, AfterOf
  <2> QED  BY <1>3, <1>5, <2>1, <2>2
<1>8. \A n \in Declares(m) : n \in Created(m)
  <2> TAKE n \in Declares(m)
  <2>1. schema[n] = Absent /\ After(m)[n] # Absent /\ n \in Name
    BY <1>1, <1>5
  <2> QED  BY <1>1, <2>1, AfterOf
<1> QED  BY <1>2, <1>3, <1>5, <1>6, <1>7, <1>8 DEF KeepsToItsOwner


\* What the ledger will say once the migration is in it.
DeclaredWith(m, owner, n) == DeclaredBy(owner, n) \/ (owner = Owner(m) /\ n \in Declares(m))

\* A name that an owner has declared and the migration calls its own is its own.
LEMMA OursIsOneOwners ==
  ASSUME TypeOK, NEW m \in Migration, NEW n, Ours(m, n), NEW owner, DeclaredBy(owner, n)
  PROVE  owner = Owner(m)
<1>1. PICK x \in ledger : Owner(x) = owner /\ n \in Declares(x)
  BY DEF DeclaredBy
<1>2. PICK y \in Migration : Owner(y) = Owner(m) /\ n \in Declares(y)
  BY DEF Ours, DeclaredBy, TypeOK
<1>3. x \in Migration
  BY DEF TypeOK
<1> QED  BY <1>1, <1>2, <1>3, OneOwner

\* What stands of a relation when a migration that keeps to its owner has run.
LEMMA WhatStandsIsItsOwners ==
  ASSUME TypeOK, ParentsInv, LedgerTellsTheSchema, OwnersAlone,
         NEW m \in Migration, KeepsToItsOwner(m), NEW n \in Name, After(m)[n] # Absent
  PROVE  LET maker == After(m)[n].maker
         IN  /\ maker \in ledger \cup {m}
             /\ After(m)[n].kind = "table"
             /\ After(m)[n].shaped \subseteq {Owner(maker)} /\ After(m)[n].reached \subseteq {Owner(maker)}
             /\ DeclaredWith(m, Owner(maker), n)
             /\ \A parent \in After(m)[n].parents : DeclaredWith(m, Owner(maker), parent)
             /\ maker = m \/ /\ n \notin Created(m) /\ n \notin Done(m, "drop") /\ schema[n] # Absent
                             /\ maker = schema[n].maker
<1>1. n \notin Done(m, "drop")
  BY AfterOf
<1>2. CASE n \in Created(m)
  <2>1. /\ After(m)[n].maker = m /\ After(m)[n].kind = "table" /\ Ours(m, n)
        /\ After(m)[n].shaped \subseteq {Owner(m)} /\ After(m)[n].reached \subseteq {Owner(m)}
        /\ After(m)[n].parents \subseteq Done(m, "inherit")
    BY <1>1, <1>2, AfterOf DEF KeepsToItsOwner
  <2>2. \A parent \in Done(m, "inherit") : Ours(m, parent)
    BY DEF KeepsToItsOwner
  <2>3. \A name : Ours(m, name) => DeclaredWith(m, Owner(m), name)
    BY DEF Ours, DeclaredWith
  <2>4. DeclaredWith(m, Owner(m), n) /\ \A parent \in After(m)[n].parents : DeclaredWith(m, Owner(m), parent)
    BY <2>1, <2>2, <2>3
  <2> QED  BY <2>1, <2>4
<1>3. CASE n \notin Created(m)
  <2>1. schema[n] # Absent
    BY <1>1, <1>3, AfterOf
  <2>2. PICK owner : owner = Owner(schema[n].maker)
    OBVIOUS
  <2>3. /\ schema[n].kind = "table" /\ schema[n].maker \in ledger
        /\ schema[n].shaped \subseteq {owner} /\ schema[n].reached \subseteq {owner}
        /\ DeclaredBy(owner, n)
        /\ \A parent \in schema[n].parents : DeclaredBy(owner, parent)
    BY <2>1, <2>2 DEF OwnersAlone, ParentsInv, LedgerTellsTheSchema, DeclaredBy
  <2>4. n \in Shaped(m) \cup Reached(m) => owner = Owner(m)
    <3>1. n \in Shaped(m) \cup Reached(m) => Ours(m, n)
      BY <2>1 DEF KeepsToItsOwner
    <3> QED  BY <2>3, <3>1, OursIsOneOwners
  <2>5. /\ After(m)[n].maker = schema[n].maker /\ After(m)[n].kind = schema[n].kind
        /\ After(m)[n].parents = schema[n].parents
        /\ After(m)[n].shaped \subseteq {owner} /\ After(m)[n].reached \subseteq {owner}
    <3>1. /\ After(m)[n].maker = schema[n].maker /\ After(m)[n].kind = schema[n].kind
          /\ After(m)[n].parents = schema[n].parents
          /\ After(m)[n].shaped \subseteq
               (IF n \in Shaped(m) THEN schema[n].shaped \cup {Owner(m)} ELSE schema[n].shaped)
          /\ After(m)[n].reached \subseteq
               (IF n \in Reached(m) THEN schema[n].reached \cup {Owner(m)} ELSE schema[n].reached)
      BY <1>1, <1>3, <2>1, AfterOf
    <3> QED  BY <2>3, <2>4, <3>1
  <2>6. DeclaredWith(m, owner, n) /\ \A parent \in schema[n].parents : DeclaredWith(m, owner, parent)
    BY <2>3 DEF DeclaredWith
  <2>7. /\ After(m)[n].maker \in ledger /\ Owner(After(m)[n].maker) = owner
        /\ After(m)[n].kind = "table"
    BY <2>2, <2>3, <2>5
  <2>8. \A parent \in After(m)[n].parents : DeclaredWith(m, owner, parent)
    BY <2>5, <2>6
  <2> QED  BY <1>1, <1>3, <2>1, <2>5, <2>6, <2>7, <2>8
<1> QED  BY <1>2, <1>3

\* A recorded migration's table stands, or was taken away by its own plugin.
Stands(m, n) ==
  \/ schema[n] # Absent /\ schema[n].maker = m
  \/ \E other \in ledger \ {m} : /\ Owner(other) = Owner(m)
                                 /\ n \in Done(other, "drop") \cup Done(other, "replace")

StandsWith(m, x, n) ==
  \/ After(m)[n] # Absent /\ After(m)[n].maker = x
  \/ \E other \in (ledger \cup {m}) \ {x} : /\ Owner(other) = Owner(x)
                                            /\ n \in Done(other, "drop") \cup Done(other, "replace")

LEMMA WhatStoodStandsOrItsOwnerTookIt ==
  ASSUME TypeOK, LedgerTellsTheSchema, OwnersAlone, NEW m \in Migration, KeepsToItsOwner(m),
         Executable(m), m \notin ledger, NEW x \in ledger, NEW n \in Declares(x)
  PROVE  StandsWith(m, x, n)
<1>1. x \in Migration /\ n \in Name /\ x # m
  BY FactsOf DEF TypeOK
<1>2. Stands(x, n)
  BY DEF LedgerTellsTheSchema, Stands
<1>3. CASE schema[n] # Absent /\ schema[n].maker = x
  <2>1. CASE n \in Done(m, "drop") \cup Done(m, "replace")
    <3>1. Ours(m, n)
      BY <1>3, <2>1 DEF KeepsToItsOwner, Created
    <3>2. DeclaredBy(Owner(x), n)
      BY DEF DeclaredBy
    <3>3. Owner(x) = Owner(m)
      BY <3>1, <3>2, OursIsOneOwners
    <3> QED  BY <1>1, <2>1, <3>3 DEF StandsWith
  <2>2. CASE n \notin Done(m, "drop") \cup Done(m, "replace")
    <3>1. n \notin Created(m)
      BY <1>3, <2>2 DEF Created, Executable
    <3> QED  BY <1>1, <1>3, <2>2, <3>1, AfterOf DEF StandsWith
  <2> QED  BY <2>1, <2>2
<1>4. CASE \E other \in ledger \ {x} : /\ Owner(other) = Owner(x)
                                       /\ n \in Done(other, "drop") \cup Done(other, "replace")
  BY <1>4 DEF StandsWith
<1> QED  BY <1>2, <1>3, <1>4 DEF Stands

\* The migration's own tables are the ones it made.
LEMMA WhatItDeclaresStands ==
  ASSUME TypeOK, NEW m \in Migration, KeepsToItsOwner(m), NEW n \in Declares(m)
  PROVE  StandsWith(m, m, n)
<1>1. n \in Name /\ n \in Created(m) /\ n \notin Done(m, "drop")
  BY FactsOf DEF KeepsToItsOwner
<1> QED  BY <1>1, AfterOf DEF StandsWith


-----------------------------------------------------------------------------
(* What a runner remembers.                                                *)

Drafts   == [Name -> Relation \cup {Absent}]
Verdicts == {"none", "duplicate", "checksum", "error", "role", "refused", "grant"}

Worked(x, through, doing, draft, verdict) ==
  [x EXCEPT !.through = through, !.doing = doing, !.draft = draft, !.verdict = verdict]

\* Changing what a runner remembers, field by field.
LEMMA WorkUpdates ==
  ASSUME NEW x \in Work, NEW through \in SUBSET Migration, NEW doing \in SUBSET Migration,
         NEW draft \in Drafts, NEW verdict \in Verdicts
  PROVE  LET y == Worked(x, through, doing, draft, verdict)
         IN  /\ y \in Work
             /\ y.build = x.build /\ y.through = through /\ y.doing = doing
             /\ y.draft = draft /\ y.verdict = verdict
<1> DEFINE y == Worked(x, through, doing, draft, verdict)
<1>1. Work = [build : Build \cup {NoBuild}, through : SUBSET Migration, doing : SUBSET Migration,
              draft : Drafts, verdict : Verdicts]
  BY DEF Work, Drafts, Verdicts
<1> HIDE DEF Drafts, Verdicts
<1> QED  BY <1>1 DEF Worked

LEMMA WorkFields ==
  ASSUME NEW x \in Work
  PROVE  /\ x.through \in SUBSET Migration /\ x.doing \in SUBSET Migration
         /\ x.draft \in Drafts /\ x.verdict \in Verdicts
<1>1. Work = [build : Build \cup {NoBuild}, through : SUBSET Migration, doing : SUBSET Migration,
              draft : Drafts, verdict : Verdicts]
  BY DEF Work, Drafts, Verdicts
<1> QED  BY <1>1

\* A runner stops: only its verdict changes.
LEMMA VerdictStep ==
  ASSUME TypeOK, NEW r \in Runner, NEW verdict \in Verdicts
  PROVE  \E y \in Work :
           /\ [work EXCEPT ![r].verdict = verdict] = [work EXCEPT ![r] = y]
           /\ y.build = work[r].build /\ y.through = work[r].through
           /\ y.doing = work[r].doing /\ y.draft = work[r].draft
           /\ y.verdict = verdict
<1>1. PICK x \in Work : x = work[r]
  BY DEF TypeOK
<1>2. /\ x.through \in SUBSET Migration /\ x.doing \in SUBSET Migration
      /\ x.draft \in Drafts /\ x.verdict \in Verdicts
  BY WorkFields
<1>3. x = [build |-> x.build, through |-> x.through, doing |-> x.doing,
           draft |-> x.draft, verdict |-> x.verdict]
  BY DEF Work
<1>4. [x EXCEPT !.verdict = verdict] = Worked(x, x.through, x.doing, x.draft, verdict)
  BY <1>3 DEF Worked
<1>5. LET y == Worked(x, x.through, x.doing, x.draft, verdict)
      IN  /\ y \in Work
          /\ y.build = x.build /\ y.through = x.through /\ y.doing = x.doing
          /\ y.draft = x.draft /\ y.verdict = verdict
  <2>1. x.through \in SUBSET Migration /\ x.doing \in SUBSET Migration
    BY <1>2
  <2> QED  BY <1>2, <2>1, WorkUpdates
<1>6. [work EXCEPT ![r].verdict = verdict] = [work EXCEPT ![r] = Worked(x, x.through, x.doing, x.draft, verdict)]
  BY <1>1, <1>4 DEF TypeOK
<1> QED  BY <1>1, <1>5, <1>6

\* A runner passes a migration that the ledger has.
LEMMA PassStep ==
  ASSUME TypeOK, NEW r \in Runner, NEW m \in Migration
  PROVE  \E y \in Work :
           /\ [work EXCEPT ![r].through = @ \cup {m}] = [work EXCEPT ![r] = y]
           /\ y.build = work[r].build /\ y.through = work[r].through \cup {m}
           /\ y.doing = work[r].doing /\ y.draft = work[r].draft
           /\ y.verdict = work[r].verdict
<1>1. PICK x \in Work : x = work[r]
  BY DEF TypeOK
<1>2. /\ x.through \in SUBSET Migration /\ x.doing \in SUBSET Migration
      /\ x.draft \in Drafts /\ x.verdict \in Verdicts
  BY WorkFields
<1>3. x = [build |-> x.build, through |-> x.through, doing |-> x.doing,
           draft |-> x.draft, verdict |-> x.verdict]
  BY DEF Work
<1>4. [x EXCEPT !.through = @ \cup {m}] = Worked(x, x.through \cup {m}, x.doing, x.draft, x.verdict)
  BY <1>3 DEF Worked
<1>5. LET y == Worked(x, x.through \cup {m}, x.doing, x.draft, x.verdict)
      IN  /\ y \in Work
          /\ y.build = x.build /\ y.through = x.through \cup {m} /\ y.doing = x.doing
          /\ y.draft = x.draft /\ y.verdict = x.verdict
  <2>1. x.through \cup {m} \in SUBSET Migration /\ x.doing \in SUBSET Migration
    BY <1>2
  <2> QED  BY <1>2, <2>1, WorkUpdates
<1>6. [work EXCEPT ![r].through = @ \cup {m}] = [work EXCEPT ![r] = Worked(x, x.through \cup {m}, x.doing, x.draft, x.verdict)]
  BY <1>1, <1>4 DEF TypeOK
<1> QED  BY <1>1, <1>5, <1>6

\* What a runner remembers that has committed a migration, has rolled one back.
Committed(r, m, draft)        == [work EXCEPT ![r].through = @ \cup {m}, ![r].doing = {}, ![r].draft = draft]
RolledBack(r, draft, verdict) == [work EXCEPT ![r].doing = {}, ![r].draft = draft, ![r].verdict = verdict]

\* A runner takes a migration on.
LEMMA BeginStep ==
  ASSUME TypeOK, NEW r \in Runner, NEW m \in Migration
  PROVE  \E y \in Work :
           /\ [work EXCEPT ![r].doing = {m}] = [work EXCEPT ![r] = y]
           /\ y.build = work[r].build /\ y.through = work[r].through
           /\ y.doing = {m} /\ y.draft = work[r].draft
           /\ y.verdict = work[r].verdict
<1>1. PICK x \in Work : x = work[r]
  BY DEF TypeOK
<1>2. /\ x.through \in SUBSET Migration /\ x.doing \in SUBSET Migration
      /\ x.draft \in Drafts /\ x.verdict \in Verdicts
  BY WorkFields
<1>3. x = [build |-> x.build, through |-> x.through, doing |-> x.doing,
           draft |-> x.draft, verdict |-> x.verdict]
  BY DEF Work
<1>4. [x EXCEPT !.doing = {m}] = Worked(x, x.through, {m}, x.draft, x.verdict)
  BY <1>3 DEF Worked
<1>5. LET y == Worked(x, x.through, {m}, x.draft, x.verdict)
      IN  /\ y \in Work
          /\ y.build = x.build /\ y.through = x.through /\ y.doing = {m}
          /\ y.draft = x.draft /\ y.verdict = x.verdict
  <2>1. x.through \in SUBSET Migration /\ {m} \in SUBSET Migration
    BY <1>2
  <2> QED  BY <1>2, <2>1, WorkUpdates
<1>6. [work EXCEPT ![r].doing = {m}] = [work EXCEPT ![r] = Worked(x, x.through, {m}, x.draft, x.verdict)]
  BY <1>1, <1>4 DEF TypeOK
<1> QED  BY <1>1, <1>5, <1>6

\* Its statements have run.
LEMMA DraftStep ==
  ASSUME TypeOK, NEW r \in Runner, NEW draft \in Drafts
  PROVE  \E y \in Work :
           /\ [work EXCEPT ![r].draft = draft] = [work EXCEPT ![r] = y]
           /\ y.build = work[r].build /\ y.through = work[r].through
           /\ y.doing = work[r].doing /\ y.draft = draft
           /\ y.verdict = work[r].verdict
<1>1. PICK x \in Work : x = work[r]
  BY DEF TypeOK
<1>2. /\ x.through \in SUBSET Migration /\ x.doing \in SUBSET Migration
      /\ x.draft \in Drafts /\ x.verdict \in Verdicts
  BY WorkFields
<1>3. x = [build |-> x.build, through |-> x.through, doing |-> x.doing,
           draft |-> x.draft, verdict |-> x.verdict]
  BY DEF Work
<1>4. [x EXCEPT !.draft = draft] = Worked(x, x.through, x.doing, draft, x.verdict)
  BY <1>3 DEF Worked
<1>5. LET y == Worked(x, x.through, x.doing, draft, x.verdict)
      IN  /\ y \in Work
          /\ y.build = x.build /\ y.through = x.through /\ y.doing = x.doing
          /\ y.draft = draft /\ y.verdict = x.verdict
  <2>1. x.through \in SUBSET Migration /\ x.doing \in SUBSET Migration
    BY <1>2
  <2> QED  BY <1>2, <2>1, WorkUpdates
<1>6. [work EXCEPT ![r].draft = draft] = [work EXCEPT ![r] = Worked(x, x.through, x.doing, draft, x.verdict)]
  BY <1>1, <1>4 DEF TypeOK
<1> QED  BY <1>1, <1>5, <1>6

\* A runner has committed a migration.
LEMMA CommitStep ==
  ASSUME TypeOK, NEW r \in Runner, NEW m \in Migration, NEW draft \in Drafts
  PROVE  \E y \in Work :
           /\ Committed(r, m, draft) = [work EXCEPT ![r] = y]
           /\ y.build = work[r].build /\ y.through = work[r].through \cup {m}
           /\ y.doing = {} /\ y.draft = draft
           /\ y.verdict = work[r].verdict
<1>1. PICK x \in Work : x = work[r]
  BY DEF TypeOK
<1>2. /\ x.through \in SUBSET Migration /\ x.doing \in SUBSET Migration
      /\ x.draft \in Drafts /\ x.verdict \in Verdicts
  BY WorkFields
<1>3. x = [build |-> x.build, through |-> x.through, doing |-> x.doing,
           draft |-> x.draft, verdict |-> x.verdict]
  BY DEF Work
<1>4. [[[x EXCEPT !.through = @ \cup {m}] EXCEPT !.doing = {}] EXCEPT !.draft = draft] = Worked(x, x.through \cup {m}, {}, draft, x.verdict)
  BY <1>3 DEF Worked
<1>5. LET y == Worked(x, x.through \cup {m}, {}, draft, x.verdict)
      IN  /\ y \in Work
          /\ y.build = x.build /\ y.through = x.through \cup {m} /\ y.doing = {}
          /\ y.draft = draft /\ y.verdict = x.verdict
  <2>1. x.through \cup {m} \in SUBSET Migration /\ {} \in SUBSET Migration
    BY <1>2
  <2> QED  BY <1>2, <2>1, WorkUpdates
<1>6. Committed(r, m, draft) = [work EXCEPT ![r] = Worked(x, x.through \cup {m}, {}, draft, x.verdict)]
  BY <1>1, <1>4 DEF TypeOK, Committed
<1> QED  BY <1>1, <1>5, <1>6

\* A runner has rolled a migration back.
LEMMA RefuseStep ==
  ASSUME TypeOK, NEW r \in Runner, NEW draft \in Drafts, NEW verdict \in Verdicts
  PROVE  \E y \in Work :
           /\ RolledBack(r, draft, verdict) = [work EXCEPT ![r] = y]
           /\ y.build = work[r].build /\ y.through = work[r].through
           /\ y.doing = {} /\ y.draft = draft
           /\ y.verdict = verdict
<1>1. PICK x \in Work : x = work[r]
  BY DEF TypeOK
<1>2. /\ x.through \in SUBSET Migration /\ x.doing \in SUBSET Migration
      /\ x.draft \in Drafts /\ x.verdict \in Verdicts
  BY WorkFields
<1>3. x = [build |-> x.build, through |-> x.through, doing |-> x.doing,
           draft |-> x.draft, verdict |-> x.verdict]
  BY DEF Work
<1>4. [[[x EXCEPT !.doing = {}] EXCEPT !.draft = draft] EXCEPT !.verdict = verdict] = Worked(x, x.through, {}, draft, verdict)
  BY <1>3 DEF Worked
<1>5. LET y == Worked(x, x.through, {}, draft, verdict)
      IN  /\ y \in Work
          /\ y.build = x.build /\ y.through = x.through /\ y.doing = {}
          /\ y.draft = draft /\ y.verdict = verdict
  <2>1. x.through \in SUBSET Migration /\ {} \in SUBSET Migration
    BY <1>2
  <2> QED  BY <1>2, <2>1, WorkUpdates
<1>6. RolledBack(r, draft, verdict) = [work EXCEPT ![r] = Worked(x, x.through, {}, draft, verdict)]
  BY <1>1, <1>4 DEF TypeOK, RolledBack
<1> QED  BY <1>1, <1>5, <1>6

-----------------------------------------------------------------------------
(* Steps that leave the ledger and the schema alone.                       *)

LEMMA DeedsStay ==
  ASSUME script' = script
  PROVE  /\ \A m, deed : Done(m, deed)' = Done(m, deed)
         /\ \A m : Created(m)' = Created(m) /\ Shaped(m)' = Shaped(m) /\ Reached(m)' = Reached(m)
<1>1. \A m : DeedsOf(m)' = DeedsOf(m)
  BY DEF DeedsOf
<1>2. \A m, deed : Done(m, deed)' = Done(m, deed)
  BY <1>1 DEF Done
<1> QED  BY <1>2 DEF Created, Shaped, Reached

\* What a migration would do to a schema that stands.
LEMMA EffectsStay ==
  ASSUME UNCHANGED <<script, schema, ledger>>
  PROVE  \A m : /\ After(m)' = After(m)
                /\ AlreadyApplied(m)' = AlreadyApplied(m)
                /\ Executable(m)' <=> Executable(m)
<1>1. \A m, deed : Done(m, deed)' = Done(m, deed)
  BY DeedsStay
<1>2. \A m : Shaped(m)' = Shaped(m) /\ Reached(m)' = Reached(m)
  BY DeedsStay
<1> TAKE m
<1>3. After(m)' = After(m)
  <2>1. /\ Done(m, "create")' = Done(m, "create") /\ Done(m, "replace")' = Done(m, "replace")
        /\ Done(m, "view")' = Done(m, "view") /\ Done(m, "drop")' = Done(m, "drop")
        /\ Done(m, "dangle")' = Done(m, "dangle") /\ Done(m, "inherit")' = Done(m, "inherit")
        /\ Shaped(m)' = Shaped(m) /\ Reached(m)' = Reached(m)
        /\ Owner(m)' = Owner(m) /\ Fresh(m, "table")' = Fresh(m, "table")
        /\ Fresh(m, "view")' = Fresh(m, "view")
    BY <1>1, <1>2 DEF Owner, Fresh
  <2>2. schema' = schema
    OBVIOUS
  <2>3. \A n \in Name : Made(m, n)' = Made(m, n)
    BY <2>1, <2>2 DEF Made
  <2> QED  BY <2>1, <2>3, ZenonT(30) DEF After
<1>4. AlreadyApplied(m)' = AlreadyApplied(m)
  BY DEF AlreadyApplied
<1>5. Executable(m)' <=> Executable(m)
  BY <1>1 DEF Executable
<1> QED  BY <1>3, <1>4, <1>5

\* A runner that does nothing keeps what is known of it.
LEMMA OthersStay ==
  ASSUME NEW q \in Runner, RunInv(q), VerdictInv(q), pc'[q] = pc[q], work'[q] = work[q],
         UNCHANGED <<script, schema, ledger>>, granted \subseteq granted', grants'[q] = grants[q],
         q \in behind' => q \in behind \/ \A m \in work[q].doing : Owner(m) # "core"
  PROVE  RunInv(q)' /\ VerdictInv(q)'
<1>1. Left(q)' = Left(q) /\ Upcoming(q)' = Upcoming(q)
  BY DEF Left, Upcoming
<1>2. OwnTables(schema, DeclaredTablesOf(work[q].build))' = OwnTables(schema, DeclaredTablesOf(work[q].build))
  BY DEF OwnTables
<1>3. \A m : After(m)' = After(m) /\ AlreadyApplied(m)' = AlreadyApplied(m)
             /\ (Executable(m)' <=> Executable(m))
  BY EffectsStay
<1>4. RunInv(q)'
  <2>1. GrantsInHand(q)' <=> GrantsInHand(q)
    BY <1>2 DEF GrantsInHand, InHand
  <2>2. ASSUME NEW m \in Upcoming(q), work[q].doing = {m}, q \in behind => Owner(m) # "core"
        PROVE  q \in behind' => Owner(m) # "core"
    BY <2>2
  <2> QED  BY <1>1, <1>2, <1>3, <2>1, <2>2 DEF RunInv
<1>5. VerdictInv(q)'
  BY <1>1 DEF VerdictInv
<1> QED  BY <1>4, <1>5

\* What one runner does without touching the database.
LEMMA QuietStep ==
  ASSUME MigrationsInv, NEW r \in Runner, TypeOK', RunInv(r)', VerdictInv(r)',
         UNCHANGED <<script, schema, ledger, extras, granted, ran>>,
         \A q \in Runner \ {r} : pc'[q] = pc[q] /\ work'[q] = work[q],
         \A q \in Runner \ {r} : grants'[q] = grants[q] /\ (q \in behind' => q \in behind)
  PROVE  MigrationsInv'
<1>1. \A q \in Runner : RunInv(q) /\ VerdictInv(q)
  BY DEF MigrationsInv
<1>2. \A q \in Runner : RunInv(q)' /\ VerdictInv(q)'
  BY <1>1, OthersStay
<1>4. GrantsInv' /\ ParentsInv'
  BY DEF MigrationsInv, GrantsInv, ParentsInv, DeclaredBy
<1>5. LedgerTellsTheSchema'
  BY DeedsStay DEF MigrationsInv, LedgerTellsTheSchema
<1>6. OwnersAlone'
  BY DEF MigrationsInv, OwnersAlone, EveryReferenceCascades
<1> QED  BY <1>2, <1>4, <1>5, <1>6 DEF MigrationsInv

\* A runner whose statement may be waiting.
MayBeBehind(r) == pc[r] \in {"running", "asking"} \/ grants[r].found # {}

\* The types of the grants under way.
GrantsTyped ==
  /\ granter \in Runner \cup {Nobody}
  /\ grants \in [Runner -> Grants]
  /\ behind \subseteq Runner
  /\ \A r \in Runner : /\ (granter = r) = (pc[r] = "granting")
                       /\ grants[r].found # {} => pc[r] = "granting"
                       /\ r \in behind => pc[r] \in {"running", "asking"} \/ grants[r].found # {}

\* They stay when a runner goes on with its grants, or with anything else.
LEMMA GrantsStay ==
  ASSUME TypeOK, NEW r \in Runner, NEW step \in Step, NEW g \in Grants,
         pc' = [pc EXCEPT ![r] = step], grants' = [grants EXCEPT ![r] = g],
         granter' \in {Nobody, r, granter}, granter \in {Nobody, r, granter'},
         (granter' = r) <=> (step = "granting"),
         g.found # {} => step = "granting",
         \A q \in behind' : /\ q \in Runner
                            /\ (q # r /\ q \in behind) \/ MayBeBehind(q)'
  PROVE  GrantsTyped'
<1>1. grants' \in [Runner -> Grants] /\ granter' \in Runner \cup {Nobody} /\ behind' \subseteq Runner
  BY DEF TypeOK
<1>2. \A q \in Runner : /\ (granter' = q) = (pc'[q] = "granting")
                        /\ grants'[q].found # {} => pc'[q] = "granting"
                        /\ q \in behind' => pc'[q] \in {"running", "asking"} \/ grants'[q].found # {}
  <2> TAKE q \in Runner
  <2>1. CASE q = r
    BY <2>1 DEF TypeOK, MayBeBehind
  <2>2. CASE q # r
    <3>1. pc'[q] = pc[q] /\ grants'[q] = grants[q]
      BY <2>2 DEF TypeOK
    <3>2. (granter' = q) <=> (granter = q)
      BY <2>2, MigrationsAssumption
    <3> QED  BY <3>1, <3>2 DEF TypeOK, MayBeBehind
  <2> QED  BY <2>1, <2>2
<1> QED  BY <1>1, <1>2 DEF GrantsTyped

\* A runner without grants goes on and leaves those of others alone.
LEMMA OthersGrantsStay ==
  ASSUME TypeOK, NEW r \in Runner, NEW step \in Step, pc[r] # "granting", step # "granting",
         pc' = [pc EXCEPT ![r] = step], UNCHANGED <<granter, grants>>,
         behind' \subseteq behind, r \in behind' => step \in {"running", "asking"}
  PROVE  GrantsTyped'
<1>1. /\ grants[r] \in Grants /\ grants' = [grants EXCEPT ![r] = grants[r]]
      /\ granter # r /\ grants[r].found = {} /\ behind \subseteq Runner
  BY DEF TypeOK
<1>2. \A q \in behind' : /\ q \in Runner
                         /\ (q # r /\ q \in behind) \/ MayBeBehind(q)'
  BY <1>1 DEF TypeOK, MayBeBehind
<1>3. PICK g \in Grants : g = grants[r]
  BY <1>1
<1> QED  BY <1>1, <1>2, <1>3, GrantsStay

\* The types stay when a runner goes on and the lock with it.
LEMMA TypesStay ==
  ASSUME TypeOK, NEW r \in Runner, NEW step \in Step, NEW y \in Work,
         pc' = [pc EXCEPT ![r] = step], work' = [work EXCEPT ![r] = y],
         UNCHANGED <<ledger, schema, extras, granted, script, ran>>, ledgers' \subseteq {"core", "plugin"},
         lock' \in {Nobody, r, lock}, lock \in {Nobody, r, lock'},
         (lock' = r) <=> (step \in {"running", "applied"}), (lock' = r) <=> (y.doing # {}),
         GrantsTyped'
  PROVE  TypeOK'
<1>1. pc' \in [Runner -> Step] /\ work' \in [Runner -> Work] /\ lock' \in Runner \cup {Nobody}
  BY DEF TypeOK
<1>2. \A q \in Runner : (lock' = q) = (pc'[q] \in {"running", "applied"}) /\ (lock' = q) = (work'[q].doing # {})
  <2> TAKE q \in Runner
  <2>1. CASE q = r
    BY <2>1 DEF TypeOK
  <2>2. CASE q # r
    <3>1. pc'[q] = pc[q] /\ work'[q] = work[q]
      BY <2>2 DEF TypeOK
    <3>2. (lock' = q) <=> (lock = q)
      BY <2>2, MigrationsAssumption
    <3> QED  BY <3>1, <3>2 DEF TypeOK
  <2> QED  BY <2>1, <2>2
<1> QED  BY <1>1, <1>2 DEF TypeOK, GrantsTyped

\* Who holds the lock, and what that says of a runner elsewhere in its run.
LEMMA HolderOf ==
  ASSUME TypeOK, NEW r \in Runner
  PROVE  /\ work[r] \in Work /\ pc[r] \in Step
         /\ (lock = r) <=> (pc[r] \in {"running", "applied"})
         /\ (lock = r) <=> (work[r].doing # {})
         /\ r \in behind => pc[r] \in {"running", "asking", "granting"}
BY DEF TypeOK

\* The types stay when a runner goes on that has no grants and waits for none.
LEMMA QuietTypes ==
  ASSUME TypeOK, NEW r \in Runner, NEW step \in Step, NEW y \in Work, step # "granting",
         pc[r] \notin {"running", "asking", "granting"},
         pc' = [pc EXCEPT ![r] = step], work' = [work EXCEPT ![r] = y],
         UNCHANGED <<ledger, schema, extras, granted, script, ran>>, ledgers' \subseteq {"core", "plugin"},
         UNCHANGED <<granter, grants, behind>>,
         lock' \in {Nobody, r, lock}, lock \in {Nobody, r, lock'},
         (lock' = r) <=> (step \in {"running", "applied"}), (lock' = r) <=> (y.doing # {})
  PROVE  TypeOK'
<1>1. pc[r] # "granting" /\ r \notin behind /\ behind' \subseteq behind
  BY HolderOf
<1>2. GrantsTyped'
  BY <1>1, OthersGrantsStay
<1> QED  BY <1>2, TypesStay

\* What a runner held of grants is free when it ends.
LEMMA Released ==
  ASSUME TypeOK, NEW r \in Runner, NEW step \in Step \ {"granting"}, pc' = [pc EXCEPT ![r] = step],
         grants' = [grants EXCEPT ![r] = NoGrants], behind' = behind \ {r},
         granter' = IF granter = r THEN Nobody ELSE granter
  PROVE  GrantsTyped'
<1>1. NoGrants \in Grants /\ NoGrants.found = {} /\ Nobody # r
  BY MigrationsAssumption DEF NoGrants, Grants
<1>2. PICK g \in Grants : g = NoGrants
  BY <1>1
<1>3. \A q \in behind' : q \in Runner /\ q # r /\ q \in behind
  BY DEF TypeOK
<1>4. /\ granter' \in {Nobody, r, granter} /\ granter \in {Nobody, r, granter'}
      /\ (granter' = r) <=> (step = "granting")
  BY <1>1
<1> QED  BY <1>1, <1>2, <1>3, <1>4, GrantsStay

LEMMA GrantsAreTyped == TypeOK => GrantsTyped
BY DEF TypeOK, GrantsTyped


-----------------------------------------------------------------------------
(* The steps, one by one.                                                  *)

LEMMA NoWorkTyped ==
  /\ NoWork \in Work /\ NoWork.build = NoBuild /\ NoWork.through = {} /\ NoWork.doing = {}
  /\ NoWork.draft \in Drafts /\ NoWork.verdict = "none"
<1>1. Work = [build : Build \cup {NoBuild}, through : SUBSET Migration, doing : SUBSET Migration,
              draft : Drafts, verdict : Verdicts]
  BY DEF Work, Drafts, Verdicts
<1>2. [n \in Name |-> Absent] \in Drafts
  BY DEF Drafts
<1>3. "none" \in Verdicts
  BY DEF Verdicts
<1> QED  BY <1>1, <1>2, <1>3 DEF NoWork

\* A runner that stops says why; one that is in a run does not hold the lock then.
LEMMA StopKeeps ==
  ASSUME MigrationsInv, NEW r \in Runner, pc[r] \in {"checking", "next"},
         NEW verdict \in Verdicts \ {"grant"}, Stop(r, verdict),
         verdict = "error" => \A m \in Upcoming(r) : Owner(m) # "core",
         verdict = "checksum" =>
           \E m \in Plan[work[r].build], row \in ledger : SameMigration(m, row) /\ m # row
  PROVE  MigrationsInv'
<1>1. TypeOK /\ RunInv(r)
  BY DEF MigrationsInv
<1>2. work[r] \in Work /\ lock # r /\ work[r].doing = {}
  BY <1>1, HolderOf
<1>3. PICK y \in Work : /\ work' = [work EXCEPT ![r] = y]
                        /\ y.build = work[r].build /\ y.through = work[r].through
                        /\ y.doing = {} /\ y.verdict = verdict
  <2>1. PICK y \in Work :
           /\ [work EXCEPT ![r].verdict = verdict] = [work EXCEPT ![r] = y]
           /\ y.build = work[r].build /\ y.through = work[r].through
           /\ y.doing = work[r].doing /\ y.draft = work[r].draft /\ y.verdict = verdict
    BY <1>1, VerdictStep
  <2> QED  BY <1>2, <2>1 DEF Stop
<1>4. /\ pc' = [pc EXCEPT ![r] = "stopped"] /\ lock' = lock /\ script' = script
      /\ UNCHANGED <<ledgers, ledger, schema, extras, granted, granter, grants, behind, ran>>
  BY DEF Stop, database, granting
<1>5. pc'[r] = "stopped" /\ work'[r] = y /\ \A q \in Runner \ {r} : pc'[q] = pc[q] /\ work'[q] = work[q]
  BY <1>1, <1>3, <1>4 DEF TypeOK
<1>6. TypeOK'
  <2>1. "stopped" \in Step /\ ledgers' \subseteq {"core", "plugin"}
    BY <1>1, <1>4 DEF TypeOK, Step
  <2> QED  BY <1>1, <1>2, <1>3, <1>4, <2>1, QuietTypes
<1>7. RunInv(r)'
  BY <1>1, <1>2, <1>3, <1>4, <1>5 DEF RunInv
<1>8. VerdictInv(r)'
  <2>1. Upcoming(r)' = Upcoming(r)
    BY <1>3, <1>5 DEF Upcoming, Left
  <2>2. verdict # "grant"
    OBVIOUS
  <2> QED  BY <1>3, <1>4, <1>5, <2>1, <2>2 DEF VerdictInv
<1> QED  BY <1>4, <1>5, <1>6, <1>7, <1>8, QuietStep

LEMMA StartKeeps ==
  ASSUME MigrationsInv, NEW r \in Runner, NEW build \in Build, Start(r, build)
  PROVE  MigrationsInv'
<1>1. TypeOK /\ lock # r /\ pc[r] \notin {"running", "asking", "granting"}
  BY HolderOf DEF MigrationsInv, Start
<1>2. PICK y \in Work : /\ work' = [work EXCEPT ![r] = y] /\ y.build = build /\ y.through = {}
                        /\ y.doing = {} /\ y.verdict \in {"duplicate", "none"}
  <2>1. NoWork \in [build : Build \cup {NoBuild}, through : SUBSET Migration, doing : SUBSET Migration,
                    draft : Drafts, verdict : Verdicts]
        /\ NoWork.through = {} /\ NoWork.doing = {}
    BY NoWorkTyped DEF Work, Drafts, Verdicts
  <2>2. PICK verdict \in Verdicts : /\ verdict = IF ClaimedTwice(build) THEN "duplicate" ELSE "none"
                                    /\ verdict \in {"duplicate", "none"}
    BY DEF Verdicts
  <2>3. [NoWork EXCEPT !.build = build, !.verdict = verdict]
          \in [build : Build \cup {NoBuild}, through : SUBSET Migration, doing : SUBSET Migration,
               draft : Drafts, verdict : Verdicts]
    BY <2>1
  <2>4. [NoWork EXCEPT !.build = build, !.verdict = verdict] \in Work
    BY <2>3 DEF Work, Drafts, Verdicts
  <2>5. /\ [NoWork EXCEPT !.build = build, !.verdict = verdict].build = build
        /\ [NoWork EXCEPT !.build = build, !.verdict = verdict].through = {}
        /\ [NoWork EXCEPT !.build = build, !.verdict = verdict].doing = {}
        /\ [NoWork EXCEPT !.build = build, !.verdict = verdict].verdict = verdict
    BY <2>1
  <2> QED  BY <2>2, <2>4, <2>5 DEF Start
<1>3. PICK step \in {"stopped", "creating"} : pc' = [pc EXCEPT ![r] = step]
  BY DEF Start
<1>4. /\ lock' = lock /\ script' = script
      /\ UNCHANGED <<ledgers, ledger, schema, extras, granted, granter, grants, behind, ran>>
  BY DEF Start, database, granting
<1>5. pc'[r] = step /\ work'[r] = y /\ \A q \in Runner \ {r} : pc'[q] = pc[q] /\ work'[q] = work[q]
  BY <1>1, <1>2, <1>3 DEF TypeOK
<1>6. TypeOK'
  <2>1. step \in Step /\ ledgers' \subseteq {"core", "plugin"}
    BY <1>1, <1>3, <1>4 DEF TypeOK, Step
  <2> QED  BY <1>1, <1>2, <1>3, <1>4, <2>1, QuietTypes
<1>7. RunInv(r)' /\ VerdictInv(r)'
  BY <1>2, <1>3, <1>5 DEF RunInv, VerdictInv
<1> QED  BY <1>4, <1>5, <1>6, <1>7, QuietStep

LEMMA CreateLedgersKeeps ==
  ASSUME MigrationsInv, NEW r \in Runner, CreateLedgers(r)
  PROVE  MigrationsInv'
<1>1. /\ TypeOK /\ RunInv(r) /\ lock # r /\ work[r] \in Work /\ work[r].doing = {}
      /\ pc[r] = "creating"
  BY HolderOf DEF MigrationsInv, CreateLedgers
<1>2. /\ pc' = [pc EXCEPT ![r] = "checking"] /\ work' = work /\ lock' = lock /\ script' = script
      /\ UNCHANGED <<ledger, schema, extras, granted, granter, grants, behind, ran>>
  BY DEF CreateLedgers, granting
<1>3. pc'[r] = "checking" /\ \A q \in Runner \ {r} : pc'[q] = pc[q] /\ work'[q] = work[q]
  BY <1>1, <1>2 DEF TypeOK
<1>4. TypeOK'
  <2>1. work' = [work EXCEPT ![r] = work[r]]
    BY <1>1, <1>2 DEF TypeOK
  <2>2. "checking" \in Step /\ ledgers' \subseteq {"core", "plugin"}
    BY <1>1 DEF TypeOK, Step, CreateLedgers
  <2> QED  BY <1>1, <1>2, <2>1, <2>2, QuietTypes
<1>5. RunInv(r)' /\ VerdictInv(r)'
  BY <1>1, <1>2, <1>3 DEF RunInv, VerdictInv, CreateLedgers
<1> QED  BY <1>2, <1>3, <1>4, <1>5, QuietStep

LEMMA CheckLedgerKeeps ==
  ASSUME MigrationsInv, NEW r \in Runner, CheckLedger(r)
  PROVE  MigrationsInv'
<1>1. TypeOK /\ RunInv(r) /\ lock # r /\ work[r] \in Work /\ work[r].doing = {} /\ pc[r] = "checking"
  BY HolderOf DEF MigrationsInv, CheckLedger
<1>2. CASE \E m \in CorePlan(work[r].build) : \E row \in AlreadyApplied(m) : ChecksumChanged(m, row)
  <2>0. PICK m \in CorePlan(work[r].build) : \E row \in AlreadyApplied(m) : ChecksumChanged(m, row)
    BY <1>2
  <2>1. PICK row \in AlreadyApplied(m) : ChecksumChanged(m, row)
    BY <2>0
  <2>2. m \in Plan[work[r].build] /\ row \in ledger /\ SameMigration(m, row) /\ m # row
    BY <2>1 DEF CorePlan, AlreadyApplied, ChecksumChanged, SameMigration
  <2>3. Stop(r, "checksum") /\ "checksum" \in Verdicts
    BY <1>2 DEF CheckLedger, Verdicts
  <2> QED  BY <1>1, <2>2, <2>3, StopKeeps
<1>3. CASE ~\E m \in CorePlan(work[r].build) : \E row \in AlreadyApplied(m) : ChecksumChanged(m, row)
  <2>1. /\ pc' = [pc EXCEPT ![r] = "next"] /\ work' = work /\ lock' = lock /\ script' = script
        /\ UNCHANGED <<ledgers, ledger, schema, extras, granted, granter, grants, behind, ran>>
    BY <1>3 DEF CheckLedger, database, granting
  <2>2. pc'[r] = "next" /\ \A q \in Runner \ {r} : pc'[q] = pc[q] /\ work'[q] = work[q]
    BY <1>1, <2>1 DEF TypeOK
  <2>3. TypeOK'
    <3>1. work' = [work EXCEPT ![r] = work[r]]
      BY <1>1, <2>1 DEF TypeOK
    <3>2. "next" \in Step /\ ledgers' \subseteq {"core", "plugin"}
      BY <1>1, <2>1 DEF TypeOK, Step
    <3> QED  BY <1>1, <2>1, <3>1, <3>2, QuietTypes
  <2>4. RunInv(r)' /\ VerdictInv(r)'
    BY <1>1, <2>1, <2>2 DEF RunInv, VerdictInv
  <2> QED  BY <2>1, <2>2, <2>3, <2>4, QuietStep
<1> QED  BY <1>2, <1>3


LEMMA SkipMigrationKeeps ==
  ASSUME MigrationsInv, NEW r \in Runner, SkipMigration(r)
  PROVE  MigrationsInv'
<1>1. /\ TypeOK /\ RunInv(r) /\ lock # r /\ work[r] \in Work /\ work[r].doing = {}
      /\ pc[r] = "next" /\ work[r].build \in Build
  BY HolderOf DEF MigrationsInv, SkipMigration, RunInv
<1>2. PICK m \in Upcoming(r) : \E row \in AlreadyApplied(m) :
        IF ChecksumChanged(m, row)
        THEN Stop(r, "checksum")
        ELSE /\ work' = [work EXCEPT ![r].through = @ \cup {m}]
             /\ UNCHANGED <<database, script, lock, pc, granting, ran>>
  BY DEF SkipMigration
<1>3. PICK row \in AlreadyApplied(m) :
        IF ChecksumChanged(m, row)
        THEN Stop(r, "checksum")
        ELSE /\ work' = [work EXCEPT ![r].through = @ \cup {m}]
             /\ UNCHANGED <<database, script, lock, pc, granting, ran>>
  BY <1>2
<1>4. m \in Plan[work[r].build] /\ m \in Migration
  BY <1>1, UpcomingIsOne
<1>5. row \in ledger /\ SameMigration(m, row)
  BY DEF AlreadyApplied, SameMigration
<1>6. CASE ChecksumChanged(m, row)
  <2>1. Stop(r, "checksum") /\ "checksum" \in Verdicts /\ m # row
    BY <1>3, <1>6 DEF Verdicts, ChecksumChanged
  <2> QED  BY <1>1, <1>4, <1>5, <2>1, StopKeeps
<1>7. CASE ~ChecksumChanged(m, row)
  <2>1. PICK y \in Work :
           /\ [work EXCEPT ![r].through = @ \cup {m}] = [work EXCEPT ![r] = y]
           /\ y.build = work[r].build /\ y.through = work[r].through \cup {m}
           /\ y.doing = work[r].doing /\ y.draft = work[r].draft /\ y.verdict = work[r].verdict
    BY <1>1, <1>4, PassStep
  <2>2. /\ work' = [work EXCEPT ![r] = y] /\ pc' = pc /\ lock' = lock /\ script' = script
        /\ UNCHANGED <<ledgers, ledger, schema, extras, granted, granter, grants, behind, ran>>
    BY <1>3, <1>7, <2>1 DEF database, granting
  <2>3. pc'[r] = "next" /\ work'[r] = y /\ \A q \in Runner \ {r} : pc'[q] = pc[q] /\ work'[q] = work[q]
    BY <1>1, <2>2 DEF TypeOK
  <2>4. m \in ledger
    BY <1>5, <1>7 DEF ChecksumChanged
  <2>5. TypeOK'
    <3>1. pc' = [pc EXCEPT ![r] = "next"]
      BY <1>1, <2>2 DEF TypeOK
    <3>2. "next" \in Step /\ ledgers' \subseteq {"core", "plugin"} /\ y.doing = {}
      BY <1>1, <2>1, <2>2 DEF TypeOK, Step
    <3> QED  BY <1>1, <2>2, <3>1, <3>2, QuietTypes
  <2>6. RunInv(r)' /\ VerdictInv(r)'
    BY <1>1, <2>1, <2>2, <2>3, <2>4 DEF RunInv, VerdictInv
  <2> QED  BY <2>2, <2>3, <2>5, <2>6, QuietStep
<1> QED  BY <1>6, <1>7

LEMMA RefuseRoleKeeps ==
  ASSUME MigrationsInv, NEW r \in Runner, RefuseRole(r)
  PROVE  MigrationsInv'
<1>1. pc[r] = "next" /\ Stop(r, "role") /\ "role" \in Verdicts
  BY DEF RefuseRole, Verdicts
<1> QED  BY <1>1, StopKeeps

\* The statements of the library never fail on what stands: a name that it would
\* create is there only if the ledger has the migration.
LEMMA CoreStatementsRun ==
  ASSUME MigrationsInv, NEW m \in Migration, Owner(m) = "core", AlreadyApplied(m) = {}
  PROVE  Executable(m)
<1>1. /\ Done(m, "create") = Declares(m) /\ Declares(m) \subseteq Name
      /\ \A deed : deed # "create" => Done(m, deed) = {}
  BY CoreDeeds, FactsOf
<1>2. ASSUME NEW n \in Declares(m), schema[n] # Absent PROVE FALSE
  <2>1. \E x \in ledger : Owner(x) = Owner(schema[n].maker) /\ n \in Declares(x)
    BY <1>1, <1>2 DEF MigrationsInv, OwnersAlone
  <2>2. PICK x \in ledger : n \in Declares(x)
    BY <2>1
  <2>3. x \in Migration
    BY DEF MigrationsInv, TypeOK
  <2>4. Owner(x) = Owner(m) /\ Version(x) = Version(m)
    BY <2>2, <2>3, OneOwner
  <2> QED  BY <2>4 DEF AlreadyApplied, SameMigration
<1>3. UNION {Done(m, deed) : deed \in {"alter", "dangle", "inherit", "write", "read"}} = {}
  BY <1>1
<1>4. Done(m, "view") = {} /\ Done(m, "drop") = {} /\ Done(m, "replace") = {}
  BY <1>1
<1> QED  BY <1>1, <1>2, <1>3, <1>4 DEF Executable

\* They change nothing that stands, so they wait for nobody's grants.
LEMMA CoreTouchesNothing ==
  ASSUME NEW m \in Migration, Owner(m) = "core"
  PROVE  Touched(m) = {}
<1>1. \A deed : deed # "create" => Done(m, deed) = {}
  BY CoreDeeds
<1>2. Shaped(m) = {}
  BY <1>1 DEF Shaped
<1>3. UNION {Done(m, deed) : deed \in {"drop", "replace", "inherit"}} = {}
  BY <1>1
<1> QED  BY <1>2, <1>3 DEF Touched

LEMMA BeginMigrationKeeps ==
  ASSUME MigrationsInv, NEW r \in Runner, BeginMigration(r)
  PROVE  MigrationsInv'
<1>1. /\ TypeOK /\ RunInv(r) /\ work[r] \in Work /\ r \notin behind
      /\ pc[r] = "next" /\ work[r].build \in Build /\ lock = Nobody
  BY HolderOf DEF MigrationsInv, BeginMigration, RunInv
<1>2. PICK m \in Upcoming(r) : AlreadyApplied(m) = {} /\ work' = [work EXCEPT ![r].doing = {m}]
  BY DEF BeginMigration
<1>3. m \in Migration
  BY <1>1, UpcomingIsOne
<1>4. PICK y \in Work :
         /\ [work EXCEPT ![r].doing = {m}] = [work EXCEPT ![r] = y]
         /\ y.build = work[r].build /\ y.through = work[r].through
         /\ y.doing = {m} /\ y.draft = work[r].draft /\ y.verdict = work[r].verdict
  BY <1>1, <1>3, BeginStep
<1>5. /\ work' = [work EXCEPT ![r] = y] /\ pc' = [pc EXCEPT ![r] = "running"] /\ lock' = r
      /\ script' = script
      /\ UNCHANGED <<ledgers, ledger, schema, extras, granted, granter, grants, behind, ran>>
  BY <1>2, <1>4 DEF BeginMigration, database, granting
<1>6. pc'[r] = "running" /\ work'[r] = y /\ \A q \in Runner \ {r} : pc'[q] = pc[q] /\ work'[q] = work[q]
  BY <1>1, <1>5 DEF TypeOK
<1>7. TypeOK'
  <2>1. "running" \in Step /\ ledgers' \subseteq {"core", "plugin"} /\ y.doing # {}
    BY <1>1, <1>4, <1>5 DEF TypeOK, Step
  <2> QED  BY <1>1, <1>5, <2>1, QuietTypes
<1>8. RunInv(r)' /\ VerdictInv(r)'
  <2>1. Upcoming(r)' = Upcoming(r)
    BY <1>4, <1>6 DEF Upcoming, Left
  <2>2. AlreadyApplied(m)' = {} /\ r \notin behind' /\ m \in Upcoming(r)'
    BY <1>1, <1>2, <1>5, <2>1, EffectsStay
  <2> QED  BY <1>1, <1>4, <1>5, <1>6, <2>2 DEF RunInv, VerdictInv
<1> QED  BY <1>5, <1>6, <1>7, <1>8, QuietStep

LEMMA ApplyMigrationKeeps ==
  ASSUME MigrationsInv, NEW r \in Runner, ApplyMigration(r)
  PROVE  MigrationsInv'
<1>1. /\ TypeOK /\ RunInv(r) /\ work[r] \in Work
      /\ pc[r] = "running" /\ work[r].build \in Build /\ lock = r
  BY HolderOf DEF MigrationsInv, ApplyMigration, RunInv
<1>2. PICK m \in Upcoming(r) : work[r].doing = {m} /\ AlreadyApplied(m) = {}
  BY <1>1 DEF RunInv
<1>3. m \in Migration
  BY <1>1, UpcomingIsOne
<1>4. Executable(m) /\ work' = [work EXCEPT ![r].draft = After(m)]
  BY <1>2 DEF ApplyMigration
<1>5. After(m) \in Drafts
  BY <1>1, <1>3, AfterTyped DEF Drafts
<1>6. PICK y \in Work :
         /\ [work EXCEPT ![r].draft = After(m)] = [work EXCEPT ![r] = y]
         /\ y.build = work[r].build /\ y.through = work[r].through
         /\ y.doing = work[r].doing /\ y.draft = After(m) /\ y.verdict = work[r].verdict
  <2>1. PICK draft \in Drafts : draft = After(m)
    BY <1>5
  <2> QED  BY <1>1, <2>1, DraftStep
<1>7. /\ work' = [work EXCEPT ![r] = y] /\ pc' = [pc EXCEPT ![r] = "applied"] /\ lock' = lock
      /\ script' = script /\ behind' = behind \ {r}
      /\ UNCHANGED <<ledgers, ledger, schema, extras, granted, granter, grants, ran>>
  BY <1>4, <1>6 DEF ApplyMigration, database
<1>8. pc'[r] = "applied" /\ work'[r] = y /\ \A q \in Runner \ {r} : pc'[q] = pc[q] /\ work'[q] = work[q]
  BY <1>1, <1>7 DEF TypeOK
<1>9. TypeOK'
  <2>1. "applied" \in Step /\ ledgers' \subseteq {"core", "plugin"} /\ y.doing # {}
    BY <1>1, <1>2, <1>6, <1>7 DEF TypeOK, Step
  <2>2. GrantsTyped'
    BY <1>1, <1>7, <2>1, OthersGrantsStay
  <2> QED  BY <1>1, <1>7, <2>1, <2>2, TypesStay
<1>10. RunInv(r)' /\ VerdictInv(r)'
  <2>1. /\ work'[r].build = work[r].build /\ work'[r].through = work[r].through
        /\ work'[r].doing = {m} /\ work'[r].draft = After(m)
    BY <1>2, <1>6, <1>8
  <2>2. Upcoming(r)' = Upcoming(r)
    BY <2>1 DEF Upcoming, Left
  <2>3. After(m)' = After(m) /\ AlreadyApplied(m)' = {} /\ Executable(m)'
    BY <1>2, <1>4, <1>7, EffectsStay
  <2>4. m \in Upcoming(r)'
    BY <2>2
  <2>5. work'[r].through \subseteq ledger' /\ work'[r].build \in Build
    BY <1>1, <1>7, <2>1 DEF RunInv
  <2> QED  BY <1>8, <2>1, <2>3, <2>4, <2>5 DEF RunInv, VerdictInv
<1> QED  BY <1>7, <1>8, <1>9, <1>10, QuietStep

\* A runner whose migration is rolled back, with what it says of why.
LEMMA RollBackKeeps ==
  ASSUME MigrationsInv, NEW r \in Runner, pc[r] \in {"running", "applied"}, NEW verdict \in {"error", "refused"},
         verdict = "error" => \A m \in Upcoming(r) : Owner(m) # "core",
         work' = [work EXCEPT ![r].doing = {}, ![r].draft = NoWork.draft, ![r].verdict = verdict],
         pc' = [pc EXCEPT ![r] = "stopped"], lock' = Nobody, behind' = behind \ {r},
         UNCHANGED <<database, script, granter, grants, ran>>
  PROVE  MigrationsInv'
<1>1. TypeOK /\ RunInv(r) /\ lock = r
  BY HolderOf DEF MigrationsInv
<1>2. PICK y \in Work :
         /\ [work EXCEPT ![r].doing = {}, ![r].draft = NoWork.draft, ![r].verdict = verdict]
              = [work EXCEPT ![r] = y]
         /\ y.build = work[r].build /\ y.through = work[r].through
         /\ y.doing = {} /\ y.draft = NoWork.draft /\ y.verdict = verdict
  <2>1. NoWork.draft \in Drafts /\ verdict \in Verdicts
    BY NoWorkTyped DEF Verdicts
  <2>2. PICK draft \in Drafts : draft = NoWork.draft
    BY <2>1
  <2>4. \E y \in Work :
           /\ RolledBack(r, draft, verdict) = [work EXCEPT ![r] = y]
           /\ y.build = work[r].build /\ y.through = work[r].through
           /\ y.doing = {} /\ y.draft = draft /\ y.verdict = verdict
    BY <1>1, <2>1, RefuseStep
  <2> QED  BY <2>2, <2>4 DEF RolledBack
<1>3. /\ work' = [work EXCEPT ![r] = y] /\ script' = script
      /\ UNCHANGED <<ledgers, ledger, schema, extras, granted, granter, grants, ran>>
  BY <1>2 DEF database
<1>4. pc'[r] = "stopped" /\ work'[r] = y /\ \A q \in Runner \ {r} : pc'[q] = pc[q] /\ work'[q] = work[q]
  <2>1. work \in [Runner -> Work] /\ pc \in [Runner -> Step]
    BY <1>1 DEF TypeOK
  <2>2. pc'[r] = "stopped" /\ \A q \in Runner \ {r} : pc'[q] = pc[q]
    BY <2>1
  <2>3. [work EXCEPT ![r] = y][r] = y /\ \A q \in Runner \ {r} : [work EXCEPT ![r] = y][q] = work[q]
    BY <2>1
  <2> QED  BY <1>3, <2>2, <2>3
<1>5. TypeOK'
  <2>1. "stopped" \in Step /\ ledgers' \subseteq {"core", "plugin"} /\ Nobody # r
    BY <1>1, <1>3, MigrationsAssumption DEF TypeOK, Step
  <2>2. GrantsTyped'
    BY <1>1, <1>3, <2>1, OthersGrantsStay
  <2> QED  BY <1>1, <1>2, <1>3, <2>1, <2>2, TypesStay
<1>6. RunInv(r)' /\ VerdictInv(r)'
  <2>1. Upcoming(r)' = Upcoming(r)
    BY <1>2, <1>4 DEF Upcoming, Left
  <2>2. VerdictInv(r)'
    BY <1>2, <1>4, <2>1 DEF VerdictInv
  <2> QED  BY <1>1, <1>2, <1>3, <1>4, <2>2 DEF RunInv
<1> QED  BY <1>3, <1>4, <1>5, <1>6, QuietStep

LEMMA FailMigrationKeeps ==
  ASSUME MigrationsInv, NEW r \in Runner, FailMigration(r)
  PROVE  MigrationsInv'
<1>1. TypeOK /\ RunInv(r) /\ pc[r] = "running" /\ work[r].build \in Build
  BY DEF MigrationsInv, FailMigration, RunInv
<1>2. PICK m \in Upcoming(r) : /\ work[r].doing = {m} /\ AlreadyApplied(m) = {}
                               /\ r \in behind => Owner(m) # "core"
  BY <1>1 DEF RunInv
<1>3. m \in Migration /\ \A other \in Upcoming(r) : other = m
  BY <1>1, UpcomingIsOne
<1>4. \/ ~Executable(m)
      \/ r \in behind
      \/ \E q \in Holders(r, m) : Deadlocked(q, m)
  BY <1>2 DEF FailMigration
<1>5. Owner(m) # "core"
  <2>1. (\E q \in Holders(r, m) : Deadlocked(q, m)) => Touched(m) # {}
    BY DEF Deadlocked
  <2> QED  BY <1>2, <1>3, <1>4, <2>1, CoreStatementsRun, CoreTouchesNothing
<1>6. \A other \in Upcoming(r) : Owner(other) # "core"
  BY <1>3, <1>5
<1> QED  BY <1>1, <1>6, RollBackKeeps DEF FailMigration

LEMMA RefuseMigrationKeeps ==
  ASSUME MigrationsInv, NEW r \in Runner, RefuseMigration(r)
  PROVE  MigrationsInv'
<1>1. TypeOK /\ pc[r] = "applied"
  BY DEF MigrationsInv, RefuseMigration
<1>2. behind' = behind \ {r} /\ UNCHANGED <<database, script, granter, grants, ran>>
  BY <1>1, HolderOf DEF RefuseMigration, granting
<1> QED  BY <1>1, <1>2, RollBackKeeps DEF RefuseMigration

LEMMA CrashKeeps ==
  ASSUME MigrationsInv, NEW r \in Runner, Crash(r)
  PROVE  MigrationsInv'
<1>1. TypeOK
  BY DEF MigrationsInv
<1>2. /\ work' = [work EXCEPT ![r] = NoWork] /\ pc' = [pc EXCEPT ![r] = "idle"]
      /\ lock' = IF lock = r THEN Nobody ELSE lock
      /\ granter' = IF granter = r THEN Nobody ELSE granter
      /\ grants' = [grants EXCEPT ![r] = NoGrants] /\ behind' = behind \ {r}
      /\ script' = script /\ UNCHANGED <<ledgers, ledger, schema, extras, granted, ran>>
  BY DEF Crash, database
<1>3. /\ pc'[r] = "idle" /\ work'[r] = NoWork
      /\ \A q \in Runner \ {r} : pc'[q] = pc[q] /\ work'[q] = work[q] /\ grants'[q] = grants[q]
  BY <1>1, <1>2 DEF TypeOK
<1>4. TypeOK'
  <2>1. "idle" \in Step /\ ledgers' \subseteq {"core", "plugin"} /\ lock' # r
    BY <1>1, <1>2, MigrationsAssumption DEF TypeOK, Step
  <2>2. GrantsTyped'
    BY <1>1, <1>2, <2>1, Released
  <2> QED  BY <1>1, <1>2, <2>1, <2>2, NoWorkTyped, TypesStay
<1>5. RunInv(r)' /\ VerdictInv(r)'
  BY <1>3, NoWorkTyped DEF RunInv, VerdictInv
<1> QED  BY <1>2, <1>3, <1>4, <1>5, QuietStep

-----------------------------------------------------------------------------
(* The grants.                                                             *)

\* What is declared are names.
LEMMA DeclaredAreNames ==
  ASSUME NEW build \in Build
  PROVE  DeclaredTablesOf(build) \subseteq Name
<1> SUFFICES ASSUME NEW n \in DeclaredTablesOf(build) PROVE n \in Name
  OBVIOUS
<1>1. PICK m \in PluginPlan(build) : n \in Declares(m)
  BY DEF DeclaredTablesOf
<1>2. m \in Migration
  BY <1>1, MigrationsAssumption DEF PluginPlan
<1> QED  BY <1>1, <1>2, FactsOf

\* Changing what a runner has in hand, field by field.
LEMMA GrantFields ==
  ASSUME NEW g \in Grants
  PROVE  /\ g.asked \in SUBSET Name /\ g.found \in SUBSET Name /\ g.given \in SUBSET Name
         /\ g = [asked |-> g.asked, found |-> g.found, given |-> g.given]
BY DEF Grants

InHands(asked, found, given) == [asked |-> asked, found |-> found, given |-> given]

LEMMA GrantUpdates ==
  ASSUME NEW asked \in SUBSET Name, NEW found \in SUBSET Name, NEW given \in SUBSET Name
  PROVE  /\ InHands(asked, found, given) \in Grants
         /\ InHands(asked, found, given).asked = asked
         /\ InHands(asked, found, given).found = found
         /\ InHands(asked, found, given).given = given
BY DEF Grants, InHands

\* What a runner has in hand that has looked for a table, has granted on one.
LookedUp(r, asked, found)  == [grants EXCEPT ![r].asked = asked, ![r].found = found]
GrantedOn(r, found, given) == [grants EXCEPT ![r].found = found, ![r].given = given]

LEMMA LookedUpStep ==
  ASSUME grants \in [Runner -> Grants], NEW r \in Runner,
         NEW asked \in SUBSET Name, NEW found \in SUBSET Name
  PROVE  LookedUp(r, asked, found) = [grants EXCEPT ![r] = InHands(asked, found, grants[r].given)]
<1>1. PICK x \in Grants : x = grants[r]
  OBVIOUS
<1>2. x = InHands(x.asked, x.found, x.given)
  BY <1>1, GrantFields DEF InHands
<1>3. [[x EXCEPT !.asked = asked] EXCEPT !.found = found] = InHands(asked, found, x.given)
  <2>1. [x EXCEPT !.asked = asked] = InHands(asked, x.found, x.given)
    BY <1>2 DEF InHands
  <2>2. [InHands(asked, x.found, x.given) EXCEPT !.found = found] = InHands(asked, found, x.given)
    BY DEF InHands
  <2> QED  BY <2>1, <2>2
<1>4. LookedUp(r, asked, found) = [grants EXCEPT ![r] = [[x EXCEPT !.asked = asked] EXCEPT !.found = found]]
  BY <1>1 DEF LookedUp
<1> QED  BY <1>1, <1>3, <1>4

LEMMA GrantedStep ==
  ASSUME grants \in [Runner -> Grants], NEW r \in Runner,
         NEW found \in SUBSET Name, NEW given \in SUBSET Name
  PROVE  GrantedOn(r, found, given) = [grants EXCEPT ![r] = InHands(grants[r].asked, found, given)]
<1>1. PICK x \in Grants : x = grants[r]
  OBVIOUS
<1>2. x = InHands(x.asked, x.found, x.given)
  BY <1>1, GrantFields DEF InHands
<1>3. [[x EXCEPT !.found = found] EXCEPT !.given = given] = InHands(x.asked, found, given)
  <2>1. [x EXCEPT !.found = found] = InHands(x.asked, found, x.given)
    BY <1>2 DEF InHands
  <2>2. [InHands(x.asked, found, x.given) EXCEPT !.given = given] = InHands(x.asked, found, given)
    BY DEF InHands
  <2> QED  BY <2>1, <2>2
<1>4. GrantedOn(r, found, given) = [grants EXCEPT ![r] = [[x EXCEPT !.found = found] EXCEPT !.given = given]]
  BY <1>1 DEF GrantedOn
<1> QED  BY <1>1, <1>3, <1>4

\* A runner goes on with its grants and touches nothing else.
LEMMA GrantingKeeps ==
  ASSUME MigrationsInv, NEW r \in Runner, NEW step \in {"asking", "granting"}, NEW g \in Grants,
         pc[r] \in {"next", "asking", "granting"}, Left(r) = {},
         pc' = [pc EXCEPT ![r] = step], grants' = [grants EXCEPT ![r] = g],
         granter' \in {Nobody, r, granter}, granter \in {Nobody, r, granter'},
         (granter' = r) <=> (step = "granting"),
         g.found # {} => step = "granting",
         behind' \subseteq behind, r \in behind' => step = "asking" \/ g.found # {},
         LET hand == g.asked \cup g.found \cup g.given
         IN  /\ hand \subseteq DeclaredTablesOf(work[r].build)
             /\ \A n \in OwnTables(schema, DeclaredTablesOf(work[r].build)) :
                  schema[n].maker \in Plan[work[r].build] => n \in hand,
         UNCHANGED <<database, script, lock, work, ran>>
  PROVE  MigrationsInv'
<1>1. /\ TypeOK /\ RunInv(r) /\ lock # r /\ work[r] \in Work /\ work[r].doing = {}
      /\ behind \subseteq Runner
  BY HolderOf DEF MigrationsInv, TypeOK
<1>2. /\ pc'[r] = step /\ grants'[r] = g /\ work'[r] = work[r]
      /\ \A q \in Runner \ {r} : pc'[q] = pc[q] /\ work'[q] = work[q] /\ grants'[q] = grants[q]
  BY <1>1 DEF TypeOK
<1>3. UNCHANGED <<script, ledgers, ledger, schema, extras, granted, ran, lock, work>>
  BY DEF database
<1>4. step \in Step
  BY DEF Step
<1>5. TypeOK'
  <2>1. GrantsTyped'
    <3>1. \A q \in behind' : /\ q \in Runner
                             /\ (q # r /\ q \in behind) \/ MayBeBehind(q)'
      BY <1>1, <1>2 DEF MayBeBehind
    <3> QED  BY <1>1, <1>4, <3>1, GrantsStay
  <2>2. work' = [work EXCEPT ![r] = work[r]] /\ ledgers' \subseteq {"core", "plugin"}
    BY <1>1, <1>3 DEF TypeOK
  <2>3. PICK y \in Work : y = work[r]
    BY <1>1
  <2> QED  BY <1>1, <1>3, <1>4, <2>1, <2>2, <2>3, TypesStay
<1>6. RunInv(r)' /\ VerdictInv(r)'
  <2>1. OwnTables(schema, DeclaredTablesOf(work[r].build))' = OwnTables(schema, DeclaredTablesOf(work[r].build))
    BY <1>3 DEF OwnTables
  <2>2. GrantsInHand(r)'
    BY <1>2, <1>3, <2>1 DEF GrantsInHand, InHand
  <2>3. Left(r)' = {}
    BY <1>3 DEF Left
  <2> QED  BY <1>1, <1>2, <1>3, <2>2, <2>3 DEF RunInv, VerdictInv
<1> QED  BY <1>2, <1>3, <1>5, <1>6, QuietStep

LEMMA BeginGrantsKeeps ==
  ASSUME MigrationsInv, NEW r \in Runner, BeginGrants(r)
  PROVE  MigrationsInv'
<1>1. /\ TypeOK /\ pc[r] = "next" /\ Left(r) = {} /\ work[r].build \in Build /\ granter # r
  BY DEF MigrationsInv, BeginGrants, RunInv, TypeOK
<1>2. PICK asked \in SUBSET Name : asked = DeclaredTablesOf(work[r].build)
  BY <1>1, DeclaredAreNames
<1>3. PICK g \in Grants : /\ g = InHands(asked, {}, {})
                          /\ g.asked = asked /\ g.found = {} /\ g.given = {}
  <2>1. asked \in SUBSET Name /\ {} \in SUBSET Name
    BY <1>2
  <2> QED  BY <2>1, GrantUpdates
<1>4. /\ grants' = [grants EXCEPT ![r] = g] /\ pc' = [pc EXCEPT ![r] = "asking"]
      /\ granter' = granter /\ behind' = behind /\ UNCHANGED <<database, script, lock, work, ran>>
  <2>1. [NoGrants EXCEPT !.asked = asked] = g
    BY <1>3 DEF NoGrants, InHands
  <2> QED  BY <1>2, <2>1 DEF BeginGrants
<1>5. /\ g.asked \cup g.found \cup g.given \subseteq DeclaredTablesOf(work[r].build)
      /\ \A n \in OwnTables(schema, DeclaredTablesOf(work[r].build)) :
           schema[n].maker \in Plan[work[r].build] => n \in g.asked \cup g.found \cup g.given
  BY <1>2, <1>3 DEF OwnTables
<1> QED  BY <1>1, <1>3, <1>4, <1>5, GrantingKeeps

\* What is known of a run in the middle of its grants.
LEMMA GrantingRun ==
  ASSUME MigrationsInv, NEW r \in Runner, pc[r] \in {"asking", "granting"}
  PROVE  /\ TypeOK /\ Left(r) = {} /\ work[r].build \in Build /\ GrantsInHand(r)
         /\ grants[r] \in Grants /\ (granter = r) = (pc[r] = "granting") /\ behind \subseteq Runner
         /\ grants[r].found # {} => pc[r] = "granting"
         /\ r \in behind => pc[r] = "asking" \/ grants[r].found # {}
         /\ work[r].through \subseteq ledger
BY DEF MigrationsInv, RunInv, TypeOK

LEMMA GrantOnSchemaKeeps ==
  ASSUME MigrationsInv, NEW r \in Runner, GrantOnSchema(r)
  PROVE  MigrationsInv'
<1>1. pc[r] = "asking" /\ granter = Nobody /\ granter' = r /\ pc' = [pc EXCEPT ![r] = "granting"]
      /\ behind' \subseteq behind /\ r \notin behind' /\ grants' = grants
      /\ UNCHANGED <<database, script, lock, work, ran>>
  BY DEF GrantOnSchema
<1>2. /\ TypeOK /\ Left(r) = {} /\ work[r].build \in Build /\ GrantsInHand(r) /\ grants[r] \in Grants
  BY <1>1, GrantingRun
<1>3. PICK g \in Grants : g = grants[r]
  BY <1>2
<1>4. grants' = [grants EXCEPT ![r] = g]
  BY <1>1, <1>2, <1>3 DEF TypeOK
<1>5. /\ g.asked \cup g.found \cup g.given \subseteq DeclaredTablesOf(work[r].build)
      /\ \A n \in OwnTables(schema, DeclaredTablesOf(work[r].build)) :
           schema[n].maker \in Plan[work[r].build] => n \in g.asked \cup g.found \cup g.given
  BY <1>2, <1>3 DEF GrantsInHand, InHand
<1> QED  BY <1>1, <1>2, <1>4, <1>5, GrantingKeeps

LEMMA LookUpTableKeeps ==
  ASSUME MigrationsInv, NEW r \in Runner, LookUpTable(r)
  PROVE  MigrationsInv'
<1>1. /\ pc[r] = "granting" /\ grants[r].found = {}
      /\ UNCHANGED <<database, script, lock, pc, work, granter, behind, ran>>
  BY DEF LookUpTable
<1>2. /\ TypeOK /\ Left(r) = {} /\ work[r].build \in Build /\ GrantsInHand(r) /\ grants[r] \in Grants
      /\ granter = r /\ r \notin behind'
  BY <1>1, GrantingRun
<1>3. PICK n \in grants[r].asked :
        grants' = [grants EXCEPT ![r].asked = @ \ {n}, ![r].found = OwnTables(schema, {n})]
  BY DEF LookUpTable
<1>4. /\ grants[r].asked \in SUBSET Name /\ grants[r].given \in SUBSET Name
      /\ grants[r] = [asked |-> grants[r].asked, found |-> grants[r].found, given |-> grants[r].given]
  BY <1>2, GrantFields
<1>5. PICK asked \in SUBSET Name, found \in SUBSET Name, given \in SUBSET Name :
         /\ asked = grants[r].asked \ {n} /\ found = OwnTables(schema, {n}) /\ given = grants[r].given
  BY <1>4 DEF OwnTables
<1>6. PICK g \in Grants : /\ g = InHands(asked, found, given)
                          /\ g.asked = asked /\ g.found = found /\ g.given = given
  <2>1. asked \in SUBSET Name /\ found \in SUBSET Name /\ given \in SUBSET Name
    BY <1>5
  <2> QED  BY <2>1, GrantUpdates
<1>7. grants' = [grants EXCEPT ![r] = g] /\ pc' = [pc EXCEPT ![r] = "granting"]
  <2>1. grants \in [Runner -> Grants] /\ pc' = [pc EXCEPT ![r] = "granting"]
    BY <1>1, <1>2 DEF TypeOK
  <2>2. grants' = LookedUp(r, asked, found)
    BY <1>3, <1>5, <2>1 DEF LookedUp
  <2>3. asked \in SUBSET Name /\ found \in SUBSET Name /\ given \in SUBSET Name
    BY <1>5
  <2>4. LookedUp(r, asked, found)
          = [grants EXCEPT ![r] = InHands(asked, found, grants[r].given)]
    BY <2>1, <2>3, LookedUpStep
  <2> QED  BY <1>5, <1>6, <2>1, <2>2, <2>4
<1>8. /\ g.asked \cup g.found \cup g.given \subseteq DeclaredTablesOf(work[r].build)
      /\ \A name \in OwnTables(schema, DeclaredTablesOf(work[r].build)) :
           schema[name].maker \in Plan[work[r].build] => name \in g.asked \cup g.found \cup g.given
  <2>1. \A name \in Name : name \in found <=> name = n /\ name \in OwnTables(schema, {n})
    BY <1>5 DEF OwnTables
  <2>2. n \in grants[r].asked /\ n \in Name
    BY <1>3, <1>4
  <2>3. g.asked \cup g.found \cup g.given \subseteq InHand(r)
    BY <1>5, <1>6, <2>1, <2>2 DEF InHand
  <2>4. ASSUME NEW name \in OwnTables(schema, DeclaredTablesOf(work[r].build)), name \in InHand(r)
        PROVE  name \in g.asked \cup g.found \cup g.given
    <3>1. CASE name = n
      <4>1. name \in OwnTables(schema, {n})
        BY <3>1 DEF OwnTables
      <4> QED  BY <1>6, <2>1, <2>2, <3>1, <4>1
    <3>2. CASE name # n
      BY <1>1, <1>5, <1>6, <2>4, <3>2 DEF InHand
    <3> QED  BY <3>1, <3>2
  <2> QED  BY <1>2, <2>3, <2>4 DEF GrantsInHand
<1> QED  BY <1>1, <1>2, <1>7, <1>8, GrantingKeeps

LEMMA GrantOnTableKeeps ==
  ASSUME MigrationsInv, NEW r \in Runner, GrantOnTable(r)
  PROVE  MigrationsInv'
<1>1. /\ pc[r] = "granting" /\ behind' \subseteq behind /\ r \notin behind'
      /\ UNCHANGED <<database, script, lock, pc, work, granter, ran>>
  BY DEF GrantOnTable
<1>2. /\ TypeOK /\ Left(r) = {} /\ work[r].build \in Build /\ GrantsInHand(r) /\ grants[r] \in Grants
      /\ granter = r
  BY <1>1, GrantingRun
<1>3. PICK n \in grants[r].found :
        grants' = [grants EXCEPT ![r].found = @ \ {n}, ![r].given = @ \cup {n}]
  BY DEF GrantOnTable
<1>4. /\ grants[r].asked \in SUBSET Name /\ grants[r].found \in SUBSET Name
      /\ grants[r].given \in SUBSET Name
      /\ grants[r] = [asked |-> grants[r].asked, found |-> grants[r].found, given |-> grants[r].given]
  BY <1>2, GrantFields
<1>5. PICK asked \in SUBSET Name, found \in SUBSET Name, given \in SUBSET Name :
         /\ asked = grants[r].asked /\ found = grants[r].found \ {n} /\ given = grants[r].given \cup {n}
  BY <1>4
<1>6. PICK g \in Grants : /\ g = InHands(asked, found, given)
                          /\ g.asked = asked /\ g.found = found /\ g.given = given
  <2>1. asked \in SUBSET Name /\ found \in SUBSET Name /\ given \in SUBSET Name
    BY <1>5
  <2> QED  BY <2>1, GrantUpdates
<1>7. grants' = [grants EXCEPT ![r] = g] /\ pc' = [pc EXCEPT ![r] = "granting"]
  <2>1. grants \in [Runner -> Grants] /\ pc' = [pc EXCEPT ![r] = "granting"]
    BY <1>1, <1>2 DEF TypeOK
  <2>2. grants' = GrantedOn(r, found, given)
    BY <1>3, <1>5, <2>1 DEF GrantedOn
  <2>3. asked \in SUBSET Name /\ found \in SUBSET Name /\ given \in SUBSET Name
    BY <1>5
  <2>4. GrantedOn(r, found, given)
          = [grants EXCEPT ![r] = InHands(grants[r].asked, found, given)]
    BY <2>1, <2>3, GrantedStep
  <2> QED  BY <1>5, <1>6, <2>1, <2>2, <2>4
<1>8. /\ g.asked \cup g.found \cup g.given \subseteq DeclaredTablesOf(work[r].build)
      /\ \A name \in OwnTables(schema, DeclaredTablesOf(work[r].build)) :
           schema[name].maker \in Plan[work[r].build] => name \in g.asked \cup g.found \cup g.given
  BY <1>2, <1>5, <1>6 DEF GrantsInHand, InHand
<1> QED  BY <1>1, <1>2, <1>7, <1>8, GrantingKeeps

LEMMA FailGrantsKeeps ==
  ASSUME MigrationsInv, NEW r \in Runner, FailGrants(r)
  PROVE  MigrationsInv'
<1>1. pc[r] \in {"asking", "granting"}
  BY DEF FailGrants, MigrationsInv, TypeOK
<1>2. /\ TypeOK /\ RunInv(r) /\ Left(r) = {} /\ work[r].build \in Build
      /\ lock # r /\ work[r] \in Work /\ work[r].doing = {}
  BY <1>1, GrantingRun, HolderOf DEF MigrationsInv
<1>3. /\ granter' = IF granter = r THEN Nobody ELSE granter
      /\ grants' = [grants EXCEPT ![r] = NoGrants] /\ behind' = behind \ {r}
      /\ pc' = [pc EXCEPT ![r] = "stopped"]
      /\ UNCHANGED <<script, lock, ran, ledgers, ledger, schema, extras, granted>>
  BY DEF FailGrants, database
<1>4. PICK y \in Work : /\ work' = [work EXCEPT ![r] = y]
                        /\ y.build = work[r].build /\ y.through = work[r].through
                        /\ y.doing = {} /\ y.verdict = "grant"
  <2>1. PICK verdict \in Verdicts : verdict = "grant"
    BY DEF Verdicts
  <2>2. PICK y \in Work :
           /\ [work EXCEPT ![r].verdict = verdict] = [work EXCEPT ![r] = y]
           /\ y.build = work[r].build /\ y.through = work[r].through
           /\ y.doing = work[r].doing /\ y.draft = work[r].draft /\ y.verdict = verdict
    BY <1>2, VerdictStep
  <2> QED  BY <1>2, <2>1, <2>2 DEF FailGrants
<1>5. /\ pc'[r] = "stopped" /\ work'[r] = y
      /\ \A q \in Runner \ {r} : pc'[q] = pc[q] /\ work'[q] = work[q] /\ grants'[q] = grants[q]
  BY <1>2, <1>3, <1>4 DEF TypeOK
<1>6. TypeOK'
  <2>1. "stopped" \in Step \ {"granting"} /\ ledgers' \subseteq {"core", "plugin"}
    BY <1>2, <1>3 DEF TypeOK, Step
  <2>2. GrantsTyped'
    BY <1>2, <1>3, <2>1, Released
  <2> QED  BY <1>2, <1>3, <1>4, <2>1, <2>2, TypesStay
<1>7. RunInv(r)' /\ VerdictInv(r)'
  <2>1. Left(r)' = {}
    BY <1>2, <1>4, <1>5 DEF Left
  <2>2. VerdictInv(r)'
    BY <1>2, <1>4, <1>5, <2>1 DEF VerdictInv
  <2> QED  BY <1>2, <1>3, <1>4, <1>5, <2>2 DEF RunInv
<1> QED  BY <1>3, <1>5, <1>6, <1>7, QuietStep

LEMMA CommitGrantsKeeps ==
  ASSUME MigrationsInv, NEW r \in Runner, CommitGrants(r)
  PROVE  MigrationsInv'
<1>1. /\ pc[r] = "granting" /\ grants[r].asked = {} /\ grants[r].found = {}
      /\ granted' = granted \cup grants[r].given /\ granter' = Nobody
      /\ grants' = [grants EXCEPT ![r] = NoGrants] /\ behind' = behind \cup WaitsForGrantsOf(r)
      /\ pc' = [pc EXCEPT ![r] = "done"] /\ work' = work /\ lock' = lock /\ script' = script
      /\ UNCHANGED <<ledgers, ledger, schema, extras, ran>>
  BY DEF CommitGrants
<1>2. /\ TypeOK /\ RunInv(r) /\ lock # r /\ work[r] \in Work /\ work[r].doing = {} /\ Left(r) = {}
      /\ work[r].build \in Build /\ work[r].through \subseteq ledger /\ GrantsInHand(r)
      /\ grants[r] \in Grants /\ granter = r /\ r \notin behind
  BY <1>1, HolderOf, GrantingRun DEF MigrationsInv
<1>3. /\ pc'[r] = "done"
      /\ \A q \in Runner \ {r} : pc'[q] = pc[q] /\ work'[q] = work[q] /\ grants'[q] = grants[q]
  BY <1>1, <1>2 DEF TypeOK
<1>4. InHand(r) = grants[r].given
  BY <1>1 DEF InHand
<1>5. \A n \in grants[r].given : \E m \in ledger : Owner(m) # "core" /\ n \in Declares(m)
  <2> TAKE n \in grants[r].given
  <2>1. PICK m \in PluginPlan(work[r].build) : n \in Declares(m)
    BY <1>2, <1>4 DEF GrantsInHand, DeclaredTablesOf
  <2>2. m \in ledger /\ Owner(m) # "core"
    BY <1>2, <2>1 DEF PluginPlan, Left
  <2> QED  BY <2>1, <2>2
<1>6. \A q \in WaitsForGrantsOf(r) :
        /\ q \in Runner /\ q # r /\ pc[q] \in {"running", "asking"}
        /\ \A m \in work[q].doing : Owner(m) # "core"
  <2> TAKE q \in WaitsForGrantsOf(r)
  <2>1. q \in Runner /\ q # r /\ pc[q] \in {"running", "asking"}
    BY DEF WaitsForGrantsOf
  <2>2. CASE pc[q] = "asking"
    BY <1>2, <2>1, <2>2, HolderOf
  <2>3. CASE pc[q] = "running"
    <3>1. PICK m \in work[q].doing : r \in Holders(q, m)
      BY <2>3 DEF WaitsForGrantsOf
    <3>2. Touched(m) # {}
      BY <3>1 DEF Holders
    <3>3. RunInv(q)
      BY <2>1 DEF MigrationsInv
    <3>4. work[q].doing = {m} /\ m \in Upcoming(q) /\ work[q].build \in Build
      BY <2>3, <3>1, <3>3 DEF RunInv
    <3>5. m \in Migration
      BY <3>4, UpcomingIsOne
    <3> QED  BY <2>1, <3>2, <3>4, <3>5, CoreTouchesNothing
  <2> QED  BY <2>1, <2>2, <2>3
<1>7. TypeOK'
  <2>1. granted' \subseteq Name
    BY <1>1, <1>2, GrantFields DEF TypeOK
  <2>2. pc' \in [Runner -> Step] /\ "done" \in Step
    BY <1>1, <1>2 DEF TypeOK, Step
  <2>3. \A q \in Runner : (lock' = q) = (pc'[q] \in {"running", "applied"}) /\ (lock' = q) = (work'[q].doing # {})
    BY <1>1, <1>2, <1>3 DEF TypeOK
  <2>4. GrantsTyped'
    <3>1. NoGrants \in Grants /\ NoGrants.found = {} /\ Nobody # r
      BY MigrationsAssumption DEF NoGrants, Grants
    <3>2. PICK g \in Grants : g = NoGrants
      BY <3>1
    <3>3. ASSUME NEW q \in behind'
          PROVE  q \in Runner /\ ((q # r /\ q \in behind) \/ MayBeBehind(q)')
      <4>1. behind \subseteq Runner
        BY <1>2 DEF TypeOK
      <4>2. CASE q \in behind
        BY <1>2, <4>1, <4>2
      <4>3. CASE q \in WaitsForGrantsOf(r)
        BY <1>3, <1>6, <4>3 DEF MayBeBehind
      <4> QED  BY <1>1, <4>2, <4>3
    <3>4. /\ granter' \in {Nobody, r, granter} /\ granter \in {Nobody, r, granter'}
          /\ (granter' = r) <=> ("done" = "granting")
          /\ g.found # {} => "done" = "granting"
      BY <1>1, <1>2, <3>1, <3>2
    <3>5. pc' = [pc EXCEPT ![r] = "done"] /\ grants' = [grants EXCEPT ![r] = g] /\ TypeOK /\ "done" \in Step
      BY <1>1, <1>2, <2>2, <3>2
    <3> HIDE DEF NoGrants
    <3> QED  BY <3>3, <3>4, <3>5, GrantsStay
  <2> QED  BY <1>1, <1>2, <2>1, <2>2, <2>3, <2>4 DEF TypeOK, GrantsTyped
<1>8. \A q \in Runner : RunInv(q)' /\ VerdictInv(q)'
  <2>1. \A q \in Runner : RunInv(q) /\ VerdictInv(q)
    BY DEF MigrationsInv
  <2>2. \A q \in Runner \ {r} : RunInv(q)' /\ VerdictInv(q)'
    <3> TAKE q \in Runner \ {r}
    <3>1. q \in behind' => q \in behind \/ \A m \in work[q].doing : Owner(m) # "core"
      BY <1>1, <1>6
    <3>2. granted \subseteq granted'
      BY <1>1
    <3> QED  BY <1>1, <1>3, <2>1, <3>1, <3>2, OthersStay
  <2>3. Left(r)' = {}
    BY <1>1, <1>2 DEF Left
  <2>4. \A n \in OwnTables(schema, DeclaredTablesOf(work[r].build))' :
          schema'[n].maker \in Plan[work'[r].build] => n \in granted'
    BY <1>1, <1>2, <1>4 DEF OwnTables, GrantsInHand
  <2>5. RunInv(r)' /\ VerdictInv(r)'
    BY <1>1, <1>2, <1>3, <2>3, <2>4 DEF RunInv, VerdictInv
  <2> QED  BY <2>2, <2>5
<1>9. GrantsInv' /\ ParentsInv'
  BY <1>1, <1>5 DEF MigrationsInv, GrantsInv, ParentsInv, DeclaredBy
<1>10. LedgerTellsTheSchema'
  BY <1>1, DeedsStay DEF MigrationsInv, LedgerTellsTheSchema
<1>11. OwnersAlone'
  <2>1. \A n \in Name : schema[n] # Absent => (n \in grants[r].given => Owner(schema[n].maker) # "core")
    <3> SUFFICES ASSUME NEW n \in Name, schema[n] # Absent, n \in grants[r].given
                 PROVE  Owner(schema[n].maker) # "core"
      OBVIOUS
    <3>1. PICK m \in ledger : Owner(m) # "core" /\ n \in Declares(m)
      BY <1>5
    <3>2. PICK x \in ledger : Owner(x) = Owner(schema[n].maker) /\ n \in Declares(x)
      BY DEF MigrationsInv, OwnersAlone
    <3>3. x \in Migration /\ m \in Migration
      BY <1>2 DEF TypeOK
    <3> QED  BY <3>1, <3>2, <3>3, OneOwner
  <2> QED  BY <1>1, <2>1 DEF MigrationsInv, OwnersAlone, EveryReferenceCascades
<1> QED  BY <1>7, <1>8, <1>9, <1>10, <1>11 DEF MigrationsInv

-----------------------------------------------------------------------------
(* The commit of a migration.                                              *)

\* What a runner commits is what its migration made of the schema that stands, and
\* it keeps to its owner.
LEMMA WhatIsCommitted ==
  ASSUME MigrationsInv, NEW r \in Runner, CommitMigration(r)
  PROVE  \E m \in Upcoming(r) :
           /\ work[r].build \in Build /\ m \in Plan[work[r].build] /\ m \in Migration
           /\ m \notin ledger /\ AlreadyApplied(m) = {} /\ Executable(m) /\ KeepsToItsOwner(m)
           /\ EveryReferenceCascades(After(m))
           /\ schema' = After(m) /\ ledger' = ledger \cup {m} /\ ran' = [ran EXCEPT ![m] = @ + 1]
           /\ extras' = extras /\ granted' = granted \ (Done(m, "drop") \cup Done(m, "replace"))
           /\ work' = [work EXCEPT ![r].through = @ \cup {m}, ![r].doing = {}, ![r].draft = NoWork.draft]
<1>1. TypeOK /\ RunInv(r) /\ pc[r] = "applied"
  BY DEF MigrationsInv, CommitMigration
<1>2. PICK m \in Upcoming(r) : /\ work[r].doing = {m} /\ work[r].draft = After(m)
                               /\ AlreadyApplied(m) = {} /\ Executable(m)
  BY <1>1 DEF RunInv
<1>3. work[r].build \in Build /\ work[r].through \subseteq ledger
  BY <1>1 DEF RunInv
<1>4. m \in Plan[work[r].build] /\ m \in Migration
  BY <1>3, UpcomingIsOne
<1>5. m \notin ledger
  BY <1>2 DEF AlreadyApplied, SameMigration
<1>6. /\ Passes(r, m)
      /\ schema' = work[r].draft
      /\ extras' = IF Done(m, "code") \cup Done(m, "loose") # {} THEN extras \cup {Owner(m)} ELSE extras
      /\ granted' = granted \ (Done(m, "drop") \cup Done(m, "replace"))
      /\ ledger' = ledger \cup {m}
      /\ ran' = [ran EXCEPT ![m] = @ + 1]
      /\ work' = [work EXCEPT ![r].through = @ \cup {m}, ![r].doing = {}, ![r].draft = NoWork.draft]
  BY <1>2 DEF CommitMigration
<1>7. KeepsToItsOwner(m)
  <2>1. CASE Owner(m) = "core"
    BY <1>1, <1>2, <1>4, <2>1, CoreKeepsToItsOwner
  <2>2. CASE Owner(m) # "core"
    <3>1. Accepted(r, m, After(m))
      BY <1>2, <1>6, <2>2 DEF Passes
    <3> QED  BY <1>1, <1>3, <3>1, AcceptedKeepsToItsOwner
  <2> QED  BY <2>1, <2>2
<1>8. extras' = extras
  BY <1>6, <1>7 DEF KeepsToItsOwner
<1>9. EveryReferenceCascades(After(m))
  BY <1>2, <1>6 DEF Passes
<1> QED  BY <1>2, <1>3, <1>4, <1>5, <1>6, <1>7, <1>8, <1>9


LEMMA CommitMigrationKeeps ==
  ASSUME MigrationsInv, NEW r \in Runner, CommitMigration(r)
  PROVE  MigrationsInv'
<1>1. PICK m \in Upcoming(r) :
         /\ work[r].build \in Build /\ m \in Plan[work[r].build] /\ m \in Migration
         /\ m \notin ledger /\ AlreadyApplied(m) = {} /\ Executable(m) /\ KeepsToItsOwner(m)
         /\ EveryReferenceCascades(After(m))
         /\ schema' = After(m) /\ ledger' = ledger \cup {m} /\ ran' = [ran EXCEPT ![m] = @ + 1]
         /\ extras' = extras /\ granted' = granted \ (Done(m, "drop") \cup Done(m, "replace"))
         /\ work' = [work EXCEPT ![r].through = @ \cup {m}, ![r].doing = {}, ![r].draft = NoWork.draft]
  BY WhatIsCommitted
<1>2. /\ TypeOK /\ GrantsInv /\ ParentsInv /\ LedgerTellsTheSchema /\ OwnersAlone
      /\ RunInv(r) /\ lock = r /\ pc[r] = "applied" /\ r \notin behind
  BY HolderOf DEF MigrationsInv, CommitMigration
<1>3. PICK y \in Work : /\ work' = [work EXCEPT ![r] = y]
                        /\ y.build = work[r].build /\ y.through = work[r].through \cup {m} /\ y.doing = {}
  <2>1. PICK draft \in Drafts : draft = NoWork.draft
    BY NoWorkTyped
  <2>2. \E y \in Work :
           /\ Committed(r, m, draft) = [work EXCEPT ![r] = y]
           /\ y.build = work[r].build /\ y.through = work[r].through \cup {m}
           /\ y.doing = {} /\ y.draft = draft /\ y.verdict = work[r].verdict
    BY <1>1, <1>2, CommitStep, SMTT(30)
  <2> QED  BY <1>1, <2>1, <2>2 DEF Committed
<1>4. /\ pc' = [pc EXCEPT ![r] = "next"] /\ lock' = Nobody /\ ledgers' = ledgers /\ script' = script
      /\ granter' = granter /\ grants' = grants
      /\ \A q \in behind' : q \in behind \/ (q \in Runner /\ grants[q].found # {})
  BY DEF CommitMigration
<1>5. pc'[r] = "next" /\ work'[r] = y /\ \A q \in Runner \ {r} : pc'[q] = pc[q] /\ work'[q] = work[q]
  BY <1>2, <1>3, <1>4 DEF TypeOK
<1>6. TypeOK'
  <2>1. pc' \in [Runner -> Step] /\ work' \in [Runner -> Work] /\ lock' = Nobody
    BY <1>2, <1>3, <1>4 DEF TypeOK, Step
  <2>2. schema' \in [Name -> Relation \cup {Absent}]
    BY <1>1, <1>2, AfterTyped
  <2>3. ran' \in [Migration -> Nat]
    BY <1>1, <1>2 DEF TypeOK
  <2>4. \A q \in Runner : (lock' = q) = (pc'[q] \in {"running", "applied"}) /\ (lock' = q) = (work'[q].doing # {})
    <3> TAKE q \in Runner
    <3>1. lock' # q
      BY <1>4, MigrationsAssumption
    <3>2. pc'[q] \notin {"running", "applied"} /\ work'[q].doing = {}
      <4>1. CASE q = r
        BY <1>3, <1>5, <4>1
      <4>2. CASE q # r
        <5>1. pc[q] \notin {"running", "applied"} /\ work[q].doing = {}
          BY <1>2, <4>2, HolderOf
        <5> QED  BY <1>5, <4>2, <5>1
      <4> QED  BY <4>1, <4>2
    <3> QED  BY <3>1, <3>2
  <2>5. GrantsTyped'
    <3>1. \A q \in behind' : /\ q \in Runner
                             /\ (q # r /\ q \in behind) \/ MayBeBehind(q)'
      BY <1>2, <1>4, <1>5 DEF TypeOK, MayBeBehind
    <3>2. PICK g \in Grants : g = grants[r]
      BY <1>2 DEF TypeOK
    <3>3. g.found = {} /\ granter # r /\ grants' = [grants EXCEPT ![r] = g] /\ "next" \in Step
      BY <1>2, <1>4, <3>2 DEF TypeOK, Step
    <3> QED  BY <1>2, <1>4, <3>1, <3>3, GrantsStay
  <2> QED  BY <1>1, <1>2, <1>4, <2>1, <2>2, <2>3, <2>4, <2>5 DEF TypeOK, GrantsTyped
<1>7. \A n \in Name : After(m)[n] # Absent =>
        /\ After(m)[n].maker \in ledger \cup {m}
        /\ After(m)[n].kind = "table"
        /\ After(m)[n].shaped \subseteq {Owner(After(m)[n].maker)}
        /\ After(m)[n].reached \subseteq {Owner(After(m)[n].maker)}
        /\ DeclaredWith(m, Owner(After(m)[n].maker), n)
        /\ \A parent \in After(m)[n].parents : DeclaredWith(m, Owner(After(m)[n].maker), parent)
        /\ After(m)[n].maker = m \/ /\ n \notin Created(m) /\ n \notin Done(m, "drop") /\ schema[n] # Absent
                                    /\ After(m)[n].maker = schema[n].maker
  BY <1>1, <1>2, WhatStandsIsItsOwners
<1>8. GrantsInv'
  BY <1>1, <1>2 DEF GrantsInv
<1>9. ParentsInv'
  <2> SUFFICES ASSUME NEW n \in Name, After(m)[n] # Absent, NEW parent \in After(m)[n].parents
               PROVE  \E x \in ledger \cup {m} : Owner(x) = Owner(After(m)[n].maker) /\ parent \in Declares(x)
    BY <1>1 DEF ParentsInv, DeclaredBy, Owner, Declares
  <2>1. DeclaredWith(m, Owner(After(m)[n].maker), parent)
    BY <1>7
  <2> QED  BY <1>1, <2>1 DEF DeclaredWith, DeclaredBy
<1>10. LedgerTellsTheSchema'
  <2>1. \A x \in Migration : ran'[x] = IF x \in ledger' THEN 1 ELSE 0
    BY <1>1, <1>2 DEF LedgerTellsTheSchema, TypeOK
  <2>2. \A m1, m2 \in ledger' : SameMigration(m1, m2) => m1 = m2
    <3>1. \A x \in ledger : ~SameMigration(x, m) /\ ~SameMigration(m, x)
      BY <1>1 DEF AlreadyApplied, SameMigration
    <3> QED  BY <1>1, <1>2, <3>1 DEF LedgerTellsTheSchema
  <2>3. \A n \in Name : schema'[n] # Absent => schema'[n].maker \in ledger'
    BY <1>1, <1>7
  <2>4. \A x \in ledger' : \A n \in Declares(x) :
          \/ schema'[n] # Absent /\ schema'[n].maker = x
          \/ \E other \in ledger' \ {x} : /\ Owner(other) = Owner(x)
                                          /\ n \in Done(other, "drop") \cup Done(other, "replace")
    <3> SUFFICES ASSUME NEW x \in ledger \cup {m}, NEW n \in Declares(x)
                 PROVE  StandsWith(m, x, n)
      BY <1>1 DEF StandsWith
    <3>1. CASE x \in ledger
      BY <1>1, <1>2, <3>1, WhatStoodStandsOrItsOwnerTookIt
    <3>2. CASE x = m
      BY <1>1, <1>2, <3>2, WhatItDeclaresStands
    <3> QED  BY <3>1, <3>2
  <2>5. \A x, deed : Done(x, deed)' = Done(x, deed)
    BY <1>4, DeedsStay
  <2> QED  BY <2>1, <2>2, <2>3, <2>4, <2>5 DEF LedgerTellsTheSchema
<1>11. OwnersAlone'
  <2>1. EveryReferenceCascades(schema)' /\ extras' = {}
    BY <1>1, <1>2 DEF OwnersAlone, EveryReferenceCascades
  <2>2. ASSUME NEW n \in Name, schema'[n] # Absent, NEW owner, owner = Owner(schema'[n].maker)
        PROVE  /\ schema'[n].kind = "table"
               /\ schema'[n].shaped \subseteq {owner}
               /\ schema'[n].reached \subseteq {owner}
               /\ \E x \in ledger' : Owner(x) = owner /\ n \in Declares(x)
               /\ \A parent \in schema'[n].parents :
                    schema'[parent] # Absent => Owner(schema'[parent].maker) = owner
               /\ n \in granted' => owner # "core"
    <3>1. /\ schema'[n].kind = "table"
          /\ schema'[n].shaped \subseteq {owner} /\ schema'[n].reached \subseteq {owner}
          /\ \A parent \in schema'[n].parents : DeclaredWith(m, owner, parent)
      BY <1>1, <1>7, <2>2
    <3>2. \A name \in Name : schema'[name] # Absent =>
            \E x \in ledger' : Owner(x) = Owner(schema'[name].maker) /\ name \in Declares(x)
      BY <1>1, <1>7 DEF DeclaredWith, DeclaredBy
    <3>3. PICK x \in ledger' : Owner(x) = owner /\ n \in Declares(x)
      BY <2>2, <3>2
    <3>4. ledger' \subseteq Migration
      BY <1>6 DEF TypeOK
    <3>5. ASSUME NEW parent \in schema'[n].parents, schema'[parent] # Absent
          PROVE  Owner(schema'[parent].maker) = owner
      <4>1. PICK w \in ledger' : Owner(w) = owner /\ parent \in Declares(w)
        BY <1>1, <3>1 DEF DeclaredWith, DeclaredBy
      <4>2. parent \in Name
        BY <3>4, <4>1, FactsOf
      <4>3. PICK z \in ledger' : Owner(z) = Owner(schema'[parent].maker) /\ parent \in Declares(z)
        BY <3>2, <3>5, <4>2
      <4> QED  BY <3>4, <4>1, <4>3, OneOwner
    <3>6. n \in granted' => owner # "core"
      <4>1. n \in granted' => \E w \in ledger : Owner(w) # "core" /\ n \in Declares(w)
        BY <1>1, <1>2 DEF GrantsInv
      <4> QED  BY <1>1, <3>3, <3>4, <4>1, OneOwner
    <3> QED  BY <3>1, <3>3, <3>5, <3>6
  <2> QED  BY <2>1, <2>2 DEF OwnersAlone, Owner, Declares
<1>12. \A q \in Runner : RunInv(q)' /\ VerdictInv(q)'
  <2> TAKE q \in Runner
  <2>1. CASE q = r
    BY <1>1, <1>2, <1>3, <1>5, <2>1 DEF RunInv, VerdictInv
  <2>2. CASE q # r
    <3>1. /\ RunInv(q) /\ VerdictInv(q) /\ pc[q] \notin {"running", "applied"}
          /\ pc'[q] = pc[q] /\ work'[q] = work[q] /\ InHand(q)' = InHand(q)
      BY <1>2, <1>4, <1>5, <2>2, HolderOf DEF MigrationsInv, InHand
    <3>2. Left(q)' = Left(q) /\ Upcoming(q)' = Upcoming(q)
      BY <3>1 DEF Left, Upcoming
    <3>3. VerdictInv(q)'
      BY <1>1, <3>1, <3>2 DEF VerdictInv
    <3>4. ASSUME pc[q] \in {"asking", "granting", "done"},
                 NEW n \in OwnTables(schema, DeclaredTablesOf(work[q].build))',
                 schema'[n].maker \in Plan[work[q].build]
          PROVE  /\ n \notin Created(m) /\ n \notin Done(m, "drop")
                 /\ n \in OwnTables(schema, DeclaredTablesOf(work[q].build))
                 /\ schema[n].maker \in Plan[work[q].build]
      <4>1. /\ n \in DeclaredTablesOf(work[q].build) /\ schema'[n] # Absent /\ schema'[n].kind = "table"
        BY <3>1 DEF OwnTables
      <4>2. n \in Name
        <5>1. PICK x \in PluginPlan(work[q].build) : n \in Declares(x)
          BY <4>1 DEF DeclaredTablesOf
        <5>2. x \in Migration
          BY <3>1, <3>4, MigrationsAssumption DEF RunInv, PluginPlan
        <5> QED  BY <5>1, <5>2, FactsOf
      <4>3. schema'[n].maker # m
        BY <1>1, <3>1, <3>4 DEF RunInv, Left
      <4>4. n \notin Created(m) /\ n \notin Done(m, "drop") /\ schema[n] # Absent
            /\ schema'[n].maker = schema[n].maker
        BY <1>1, <1>7, <4>1, <4>2, <4>3
      <4>5. schema[n].kind = "table"
        BY <1>2, <4>2, <4>4 DEF OwnersAlone
      <4>6. n \in OwnTables(schema, DeclaredTablesOf(work[q].build))
        BY <4>1, <4>4, <4>5 DEF OwnTables
      <4> QED  BY <3>4, <4>4, <4>6
    <3>5. pc[q] = "done" => \A n \in OwnTables(schema, DeclaredTablesOf(work[q].build))' :
                              schema'[n].maker \in Plan[work[q].build] => n \in granted'
      <4> SUFFICES ASSUME pc[q] = "done", NEW n \in OwnTables(schema, DeclaredTablesOf(work[q].build))',
                          schema'[n].maker \in Plan[work[q].build]
                   PROVE  n \in granted'
        OBVIOUS
      <4>1. n \notin Created(m) /\ n \notin Done(m, "drop") /\ n \in granted
        BY <3>1, <3>4 DEF RunInv
      <4> QED  BY <1>1, <4>1 DEF Created
    <3>6. pc[q] \in {"asking", "granting"} => GrantsInHand(q)'
      BY <3>1, <3>4 DEF RunInv, GrantsInHand
    <3>7. RunInv(q)'
      BY <1>1, <3>1, <3>2, <3>5, <3>6 DEF RunInv
    <3> QED  BY <3>3, <3>7
  <2> QED  BY <2>1, <2>2
<1> QED  BY <1>6, <1>8, <1>9, <1>10, <1>11, <1>12 DEF MigrationsInv


-----------------------------------------------------------------------------
(* The invariant holds in every state.                                     *)

LEMMA InitMigrations == Init => MigrationsInv
<1> SUFFICES ASSUME Init PROVE MigrationsInv
  OBVIOUS
<1>1. \A n \in Name : schema[n] = Absent
  BY DEF Init
<1>2. \A r \in Runner : pc[r] = "idle" /\ work[r] = NoWork
  BY DEF Init
<1>3. TypeOK
  <2>1. pc \in [Runner -> Step] /\ work \in [Runner -> Work]
    BY NoWorkTyped DEF Init, Step
  <2>2. \A r \in Runner : (lock = r) = (pc[r] \in {"running", "applied"}) /\ (lock = r) = (work[r].doing # {})
    BY <1>2, NoWorkTyped, MigrationsAssumption DEF Init
  <2>3. NoGrants \in Grants /\ NoGrants.found = {}
    BY DEF NoGrants, Grants
  <2>4. GrantsTyped
    BY <1>2, <2>3, MigrationsAssumption DEF Init, GrantsTyped
  <2> QED  BY <2>1, <2>2, <2>4 DEF Init, TypeOK, GrantsTyped
<1>4. \A r \in Runner : RunInv(r) /\ VerdictInv(r)
  BY <1>2, NoWorkTyped DEF RunInv, VerdictInv
<1>5. GrantsInv /\ ParentsInv
  BY <1>1, <1>2 DEF Init, GrantsInv, ParentsInv
<1>6. LedgerTellsTheSchema
  BY <1>1 DEF Init, LedgerTellsTheSchema
<1>7. OwnersAlone
  BY <1>1 DEF Init, OwnersAlone, EveryReferenceCascades
<1> QED  BY <1>3, <1>4, <1>5, <1>6, <1>7 DEF MigrationsInv

LEMMA MigrationsStep == MigrationsInv /\ [Next]_vars => MigrationsInv'
<1> SUFFICES ASSUME MigrationsInv, [Next]_vars PROVE MigrationsInv'
  OBVIOUS
<1>1. CASE Next
  <2>1. PICK r \in Runner : \/ \E build \in Build : Start(r, build)
                            \/ Run(r)
                            \/ Crash(r)
    BY <1>1 DEF Next
  <2>2. CASE \E build \in Build : Start(r, build)
    BY <2>2, StartKeeps
  <2>3. CASE CreateLedgers(r)
    BY <2>3, CreateLedgersKeeps
  <2>4. CASE CheckLedger(r)
    BY <2>4, CheckLedgerKeeps
  <2>5. CASE SkipMigration(r)
    BY <2>5, SkipMigrationKeeps
  <2>6. CASE RefuseRole(r)
    BY <2>6, RefuseRoleKeeps
  <2>7. CASE BeginMigration(r)
    BY <2>7, BeginMigrationKeeps
  <2>8. CASE ApplyMigration(r)
    BY <2>8, ApplyMigrationKeeps
  <2>9. CASE FailMigration(r)
    BY <2>9, FailMigrationKeeps
  <2>10. CASE CommitMigration(r)
    BY <2>10, CommitMigrationKeeps
  <2>11. CASE RefuseMigration(r)
    BY <2>11, RefuseMigrationKeeps
  <2>12. CASE BeginGrants(r)
    BY <2>12, BeginGrantsKeeps
  <2>13. CASE GrantOnSchema(r)
    BY <2>13, GrantOnSchemaKeeps
  <2>14. CASE LookUpTable(r)
    BY <2>14, LookUpTableKeeps
  <2>15. CASE GrantOnTable(r)
    BY <2>15, GrantOnTableKeeps
  <2>16. CASE FailGrants(r)
    BY <2>16, FailGrantsKeeps
  <2>17. CASE CommitGrants(r)
    BY <2>17, CommitGrantsKeeps
  <2>18. CASE Crash(r)
    BY <2>18, CrashKeeps
  <2> QED  BY <2>1, <2>2, <2>3, <2>4, <2>5, <2>6, <2>7, <2>8, <2>9, <2>10, <2>11, <2>12,
              <2>13, <2>14, <2>15, <2>16, <2>17, <2>18 DEF Run
<1>2. CASE UNCHANGED vars
  <2>1. /\ pc' = pc /\ work' = work /\ lock' = lock /\ script' = script /\ ran' = ran
        /\ UNCHANGED <<ledgers, ledger, schema, extras, granted, granter, grants, behind>>
    BY <1>2 DEF vars, database, granting
  <2>2. \A q \in Runner : RunInv(q)' /\ VerdictInv(q)'
    <3>1. \A q \in Runner : RunInv(q) /\ VerdictInv(q)
      BY DEF MigrationsInv
    <3> QED  BY <2>1, <3>1, OthersStay
  <2>3. TypeOK'
    BY <2>1 DEF MigrationsInv, TypeOK
  <2>4. GrantsInv' /\ ParentsInv'
    BY <2>1 DEF MigrationsInv, GrantsInv, ParentsInv, DeclaredBy
  <2>5. LedgerTellsTheSchema'
    BY <2>1, DeedsStay DEF MigrationsInv, LedgerTellsTheSchema
  <2>6. OwnersAlone'
    BY <2>1 DEF MigrationsInv, OwnersAlone, EveryReferenceCascades
  <2> QED  BY <2>2, <2>3, <2>4, <2>5, <2>6 DEF MigrationsInv
<1> QED  BY <1>1, <1>2

LEMMA MigrationsInvAlways == Spec => []MigrationsInv
BY InitMigrations, MigrationsStep, PTL DEF Spec

-----------------------------------------------------------------------------
(* What the module promises.                                               *)

(* At every moment each part of the state has its type, and the runner that holds   *)
(* the schema's advisory lock is the one whose migration's transaction is open      *)
(* (withSchemaLock): no two such transactions are ever open at once.                *)
THEOREM MigrationsTyped == Spec => []TypeOK
BY MigrationsInvAlways, PTL DEF MigrationsInv

(* However many processes migrate at once and wherever one dies, the ledger records *)
(* exactly the migrations whose statements were committed, each once, and the       *)
(* tables of those stand unless their own plugin took them away: the look into the  *)
(* ledger, the statements and the ledger row are one transaction under the lock     *)
(* (applyMigration, applyOwnedMigration).                                           *)
THEOREM LedgersTellTheSchema == Spec => []LedgerTellsTheSchema
BY MigrationsInvAlways, PTL DEF MigrationsInv

(* Whatever the SQL of the plugins does, the committed schema keeps to its owners:  *)
(* the nine checks of applyOwnedMigration and the check of the references leave no  *)
(* combination of deeds through by which a plugin shapes, reads, inherits from or   *)
(* takes away what another or the library owns, as long as a name is declared for   *)
(* one owner only.                                                                  *)
THEOREM OwnersStayAlone == Spec => []OwnersAlone
BY MigrationsInvAlways, PTL DEF MigrationsInv

\* A run that has passed all of its plan has its build up to date.
LEMMA PlanIsUpToDate ==
  ASSUME MigrationsInv, NEW r \in Runner, Left(r) = {}
  PROVE  UpToDate(work[r].build) /\ PluginPlan(work[r].build) \subseteq ledger
<1>1. Plan[work[r].build] \subseteq ledger
  BY DEF MigrationsInv, RunInv, Left
<1>2. \A m \in CorePlan(work[r].build) : m \in ledger
  BY <1>1 DEF CorePlan
<1>3. \A m \in CorePlan(work[r].build) : \E row \in ledger : SameMigration(m, row) /\ SameMigration(row, m)
  BY <1>2 DEF SameMigration
<1>4. \A m1, m2 \in ledger : SameMigration(m1, m2) => m1 = m2
  BY DEF MigrationsInv, LedgerTellsTheSchema
<1>5. UpToDate(work[r].build)
  BY <1>2, <1>3, <1>4 DEF UpToDate, PendingVersions, ChangedVersions
<1> QED  BY <1>1, <1>5 DEF PluginPlan

(* A migrate() that returned without an error left all that its build plans in the  *)
(* ledger with the SQL it was built with, and so it stays, whatever other builds    *)
(* migrate afterwards: readSchemaStatus says so, and the plugins' role reaches      *)
(* the tables of that plan.                                                         *)
THEOREM DoneRunsAreUpToDate == Spec => []DoneIsUpToDate
<1>1. MigrationsInv => DoneIsUpToDate
  BY PlanIsUpToDate DEF MigrationsInv, RunInv, DoneIsUpToDate
<1> QED  BY <1>1, MigrationsInvAlways, PTL

(* Processes that start at once do not fail on one another's migrations: a          *)
(* statement of the library never meets what another runner made or waits for its   *)
(* grants, since the ledger was asked under the lock and the library's SQL only     *)
(* creates; ChecksumMismatchError is raised only for SQL that differs from what the *)
(* ledger really holds; and where grants meet outside the lock and one run's are    *)
(* lost, all that its build plans is in the schema.                                 *)
THEOREM NoMigrationFailsBecauseOfAnother == Spec => []NoMigrationFailsOnAnother
<1>1. MigrationsInv => NoMigrationFailsOnAnother
  <2> SUFFICES ASSUME MigrationsInv, NEW r \in Runner, pc[r] = "stopped"
               PROVE  CASE work[r].verdict = "error"    -> \A m \in Upcoming(r) : Owner(m) # "core"
                        [] work[r].verdict = "checksum" ->
                             \E m \in Plan[work[r].build], row \in ledger : SameMigration(m, row) /\ m # row
                        [] work[r].verdict = "grant"    ->
                             PluginPlan(work[r].build) \subseteq ledger /\ UpToDate(work[r].build)
                        [] OTHER -> TRUE
    BY DEF NoMigrationFailsOnAnother
  <2>1. VerdictInv(r)
    BY DEF MigrationsInv
  <2> QED  BY <2>1, PlanIsUpToDate DEF VerdictInv
<1> QED  BY <1>1, MigrationsInvAlways, PTL
=============================================================================
