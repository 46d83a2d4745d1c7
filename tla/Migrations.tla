------------------------------ MODULE Migrations ------------------------------
(***************************************************************************)
(* migrate(): several processes bring one schema up to date                *)
(* (src/core/db/migration-runner.ts, cascade-guard.ts, schema-status.ts,   *)
(* src/core/plugin/database-role.ts).                                      *)
(*                                                                         *)
(* Every migration is a transaction of its own under the schema's advisory *)
(* lock, which looks the migration up in the ledger, runs its statements   *)
(* and records it.  A plugin's migration is judged before the commit by    *)
(* what it did, as the catalogue and the counters of its own transaction   *)
(* show it.  The grants to the plugins' role that end a run are one        *)
(* transaction without that lock: PostgreSQL has a statement that changes  *)
(* a row of its catalogue wait for another's open change of it, and fail   *)
(* once that is committed.                                                 *)
(*                                                                         *)
(* The SQL of a migration is what tells it from others of its owner and    *)
(* version, as its checksum does; what it does is a set of deeds.  The two *)
(* ledger tables are one set of rows with an owner, "core" for the library *)
(* itself.                                                                 *)
(***************************************************************************)
EXTENDS Naturals, FiniteSets, Sequences

CONSTANTS
  Runner,         \* the processes that call migrate()
  Plugin,         \* the plugin ids, owners of migrations
  Name,           \* the names a relation of the schema may have
  Migration,      \* all migrations; two of one owner and version differ in their SQL
  Facts,          \* the owner, the version and the tables each declares (core SQL: creates)
  Build,          \* what a process may have been built with
  Plan,           \* the migrations of each build
  Order,          \* the plugins of each build in the order they depend on one another
  Script,         \* what the SQL of the plugins' migrations may turn out to do
  CarriesPrefix,  \* namesTableOfPlugin: for each plugin the names its id begins
  Absent, Nobody, NoBuild

Owner(m)    == Facts[m].owner
Version(m)  == Facts[m].version
Declares(m) == Facts[m].declares

Deed == [does : {"create", "view", "drop", "replace", "alter", "dangle", "inherit", "write",
                 "read", "code", "loose"},
         to : Name]

ASSUME MigrationsAssumption ==
  /\ "core" \notin Plugin
  /\ Nobody \notin Runner
  /\ NoBuild \notin Build
  /\ Facts \in [Migration -> [owner : Plugin \cup {"core"}, version : Nat, declares : SUBSET Name]]
  /\ Plan \in [Build -> SUBSET Migration]
  /\ Order \in [Build -> Seq(Plugin)]
  /\ Script \subseteq [Migration -> SUBSET Deed]
  /\ CarriesPrefix \in [Plugin -> SUBSET Name]

(* A plugin of a build is among those it orders; a name is declared for one owner   *)
(* only, and for core migrations of one version only.                               *)
ASSUME DeclarationsAssumption ==
  /\ \A build \in Build : \A m \in Plan[build] :
       Owner(m) # "core" => \E i \in DOMAIN Order[build] : Order[build][i] = Owner(m)
  /\ \A m1, m2 \in Migration : Declares(m1) \cap Declares(m2) # {} =>
       /\ Owner(m1) = Owner(m2)
       /\ Owner(m1) = "core" => Version(m1) = Version(m2)

VARIABLES
  ledgers,   \* the ledger tables that exist
  ledger,    \* the migrations recorded in them
  schema,    \* the relations of the schema
  extras,    \* the plugins that left code or another object behind
  granted,   \* the tables the plugins' database role may reach
  script,    \* what each plugin migration does when it runs
  lock,      \* the runner that holds the schema's advisory lock
  pc,        \* where each runner is
  work,      \* what each runner remembers
  granter,   \* the runner whose open transaction has granted on the schema
  grants,    \* of each runner, the tables still to be granted, the one looked up, the ones granted
  behind,    \* the runners whose statement may have waited for a change since committed
  \* history, read by properties only
  ran        \* how often the statements of each migration were committed

database == <<ledgers, ledger, schema, extras, granted>>
granting == <<granter, grants, behind>>
vars     == <<database, script, lock, pc, work, granting, ran>>

Relation == [maker : Migration, kind : {"table", "view"}, shaped : SUBSET (Plugin \cup {"core"}),
             reached : SUBSET (Plugin \cup {"core"}), dangles : BOOLEAN, parents : SUBSET Name]

ASSUME AbsentAssumption == Absent \notin Relation

Work == [build : Build \cup {NoBuild}, through : SUBSET Migration, doing : SUBSET Migration,
         draft : [Name -> Relation \cup {Absent}],
         verdict : {"none", "duplicate", "checksum", "error", "role", "refused", "grant"}]

Grants == [asked : SUBSET Name, found : SUBSET Name, given : SUBSET Name]

Step == {"idle", "creating", "checking", "next", "running", "applied", "asking", "granting", "done",
         "stopped"}

TypeOK ==
  /\ ledgers \subseteq {"core", "plugin"}
  /\ ledger \subseteq Migration
  /\ schema \in [Name -> Relation \cup {Absent}]
  /\ extras \subseteq Plugin
  /\ granted \subseteq Name
  /\ script \in Script
  /\ lock \in Runner \cup {Nobody}
  /\ pc \in [Runner -> Step]
  /\ work \in [Runner -> Work]
  /\ \A r \in Runner : /\ (lock = r) = (pc[r] \in {"running", "applied"})
                       /\ (lock = r) = (work[r].doing # {})
  /\ granter \in Runner \cup {Nobody}
  /\ grants \in [Runner -> Grants]
  /\ behind \subseteq Runner
  /\ \A r \in Runner : /\ (granter = r) = (pc[r] = "granting")
                       /\ grants[r].found # {} => pc[r] = "granting"
                       /\ r \in behind => pc[r] \in {"running", "asking"} \/ grants[r].found # {}
  /\ ran \in [Migration -> Nat]

NoWork == [build |-> NoBuild, through |-> {}, doing |-> {},
           draft |-> [n \in Name |-> Absent], verdict |-> "none"]

NoGrants == [asked |-> {}, found |-> {}, given |-> {}]

-----------------------------------------------------------------------------

(* What a script does *)

DeedsOf(m) ==
  IF Owner(m) = "core" THEN {[does |-> "create", to |-> n] : n \in Declares(m)} ELSE script[m]

Done(m, deed) == {n \in Name : [does |-> deed, to |-> n] \in DeedsOf(m)}

Fresh(m, kind) == [maker |-> m, kind |-> kind, shaped |-> {Owner(m)}, reached |-> {},
                   dangles |-> FALSE, parents |-> {}]

\* PostgreSQL refuses to create what exists and to touch what does not
Executable(m) ==
  /\ \A n \in Done(m, "create") \cup Done(m, "view") : schema[n] = Absent
  /\ \A n \in Done(m, "drop") \cup Done(m, "replace") : schema[n] # Absent
  /\ \A n \in UNION {Done(m, deed) : deed \in {"alter", "dangle", "inherit", "write", "read"}} :
       schema[n] # Absent \/ n \in Done(m, "create")

Shaped(m) == UNION {Done(m, deed) : deed \in {"alter", "dangle"}}

Reached(m) == Done(m, "write") \cup Done(m, "read")

\* the relations that stand before and whose rows in the catalogue the statements change
Touched(m) == Shaped(m) \cup UNION {Done(m, deed) : deed \in {"drop", "replace", "inherit"}}

\* the relation of a name as the statements that make relations leave it
Made(m, n) ==
  CASE n \in Done(m, "create") \cup Done(m, "replace") -> Fresh(m, "table")
    [] n \in Done(m, "view") -> Fresh(m, "view")
    [] OTHER -> schema[n]

\* applyStatements: the schema as the transaction sees it afterwards
After(m) ==
  [n \in Name |->
    IF n \in Done(m, "drop") \/ Made(m, n) = Absent
    THEN Absent
    ELSE [Made(m, n) EXCEPT !.shaped  = IF n \in Shaped(m) THEN @ \cup {Owner(m)} ELSE @,
                            !.reached = IF n \in Reached(m) THEN @ \cup {Owner(m)} ELSE @,
                            !.dangles = @ \/ n \in Done(m, "dangle"),
                            !.parents = IF n \in Done(m, "create") THEN Done(m, "inherit") ELSE @]]

-----------------------------------------------------------------------------

(* What a migration is judged by *)

\* assertEveryUserReferenceCascades
EveryReferenceCascades(after) == \A n \in Name : after[n] # Absent => ~after[n].dangles

\* readObjectsOfTheDeclaredTables
OwnTables(relations, declared) ==
  {n \in declared : relations[n] # Absent /\ relations[n].kind = "table"}

\* assertNoDeclaredNameIsAlreadySomebodyElses
DeclaredNamesAreFree(m, ownBefore) == \A n \in Declares(m) : schema[n] = Absent \/ n \in ownBefore

Created(m) == UNION {Done(m, deed) : deed \in {"create", "view", "replace"}}

\* assertEveryRelationItTouchedIsItsOwn
EveryTouchedRelationIsItsOwn(m, after) ==
  \A n \in Created(m) \cup Shaped(m) :
    after[n] # Absent => n \in CarriesPrefix[Owner(m)] /\ after[n].kind = "table"

\* assertEveryInheritanceItMadeIsAmongItsOwnTables
EveryInheritanceIsAmongItsOwn(m, own) == Done(m, "inherit") \subseteq own

\* assertItLeftEveryOtherObjectAsItFoundIt
EveryOtherObjectIsLeft(after, own) ==
  \A n \in Name \ own : schema[n] # Absent => after[n] # Absent /\ after[n].maker = schema[n].maker

\* assertNoForeignObjectWasAlteredInPlace
NoForeignObjectIsAltered(m, own) == \A n \in Name \ own : schema[n] # Absent => n \notin Shaped(m)

\* assertTheTablesThatAppearedAreTheDeclaredOnes
TheTablesThatAppearedAreDeclared(m, after) ==
  {n \in Name : schema[n] = Absent /\ after[n] # Absent /\ after[n].kind = "table"} = Declares(m)

\* assertNoCodeWasLeftBehind
NoCodeIsLeftBehind(m) == Done(m, "code") = {}

\* assertEveryObjectItCreatedBelongsToItsOwnTables
EveryCreatedObjectBelongs(m, own) ==
  /\ Done(m, "loose") = {}
  /\ Created(m) \subseteq own

\* assertNoForeignTableWasReachedByARow
NoForeignRowIsReached(m, declared) == Reached(m) \subseteq declared

-----------------------------------------------------------------------------

(* The plan of a run *)

PluginPlan(build) == {m \in Plan[build] : Owner(m) # "core"}

\* assertNoVersionIsClaimedTwice
ClaimedTwice(build) ==
  \E m1, m2 \in Plan[build] : m1 # m2 /\ Owner(m1) = Owner(m2) /\ Version(m1) = Version(m2)

Left(r) == Plan[work[r].build] \ work[r].through

Position(build, owner) ==
  IF owner = "core" THEN 0 ELSE CHOOSE i \in DOMAIN Order[build] : Order[build][i] = owner

\* inVersionOrder for the core, then byOwnerInDependencyOrder
Before(build, m1, m2) ==
  \/ Position(build, Owner(m1)) < Position(build, Owner(m2))
  \/ Owner(m1) = Owner(m2) /\ Version(m1) < Version(m2)

\* the migration a run comes to next: one, or none at the end
Upcoming(r) == {m \in Left(r) : \A other \in Left(r) \ {m} : Before(work[r].build, m, other)}

\* declaredSoFar: what the plugin's earlier migrations of this build declare
DeclaredBefore(r, m) ==
  UNION {Declares(other) : other \in {x \in Plan[work[r].build] :
                                       Owner(x) = Owner(m) /\ Version(x) < Version(m)}}

SameMigration(m1, m2) == Owner(m1) = Owner(m2) /\ Version(m1) = Version(m2)

\* mutation: the plugin's id is no part of the question
AppliedByAnybody(m) == {row \in ledger : Version(row) = Version(m)}

\* the row of the ledger that a migration's transaction looks for
AlreadyApplied(m) == {row \in ledger : SameMigration(row, m)}

\* mutation: what is recorded under the version is taken for the same migration
NeverChanged(m, row) == FALSE

\* assertChecksumUnchanged
ChecksumChanged(m, row) == row # m

\* mutation: a plugin migration may alter what carries its prefix
JudgedByPrefix(r, m, after) ==
  LET declared == DeclaredBefore(r, m) \cup Declares(m)
      own      == OwnTables(after, declared)
  IN /\ DeclaredNamesAreFree(m, OwnTables(schema, DeclaredBefore(r, m)))
     /\ EveryTouchedRelationIsItsOwn(m, after)
     /\ EveryInheritanceIsAmongItsOwn(m, own)
     /\ EveryOtherObjectIsLeft(after, own \cup OwnTables(schema, DeclaredBefore(r, m)))
     /\ TheTablesThatAppearedAreDeclared(m, after)
     /\ NoCodeIsLeftBehind(m)
     /\ EveryCreatedObjectBelongs(m, own)
     /\ NoForeignRowIsReached(m, declared)

Accepted(r, m, after) ==
  LET declared  == DeclaredBefore(r, m) \cup Declares(m)
      ownBefore == OwnTables(schema, DeclaredBefore(r, m))
      own       == OwnTables(after, declared)
  IN /\ DeclaredNamesAreFree(m, ownBefore)
     /\ EveryTouchedRelationIsItsOwn(m, after)
     /\ EveryInheritanceIsAmongItsOwn(m, own)
     /\ EveryOtherObjectIsLeft(after, ownBefore \cup own)
     /\ NoForeignObjectIsAltered(m, ownBefore \cup own)
     /\ TheTablesThatAppearedAreDeclared(m, after)
     /\ NoCodeIsLeftBehind(m)
     /\ EveryCreatedObjectBelongs(m, own)
     /\ NoForeignRowIsReached(m, declared)

-----------------------------------------------------------------------------

(* readSchemaStatus, which a process may ask before it serves *)

CorePlan(build) == Plan[build] \ PluginPlan(build)

PendingVersions(build) == {m \in CorePlan(build) : \A row \in ledger : ~SameMigration(row, m)}

ChangedVersions(build) == {m \in CorePlan(build) : \E row \in ledger : SameMigration(row, m) /\ row # m}

UpToDate(build) == PendingVersions(build) = {} /\ ChangedVersions(build) = {}

-----------------------------------------------------------------------------

Init ==
  /\ ledgers = {}
  /\ ledger = {}
  /\ schema = [n \in Name |-> Absent]
  /\ extras = {}
  /\ granted = {}
  /\ script \in Script
  /\ lock = Nobody
  /\ pc = [r \in Runner |-> "idle"]
  /\ work = [r \in Runner |-> NoWork]
  /\ granter = Nobody
  /\ grants = [r \in Runner |-> NoGrants]
  /\ behind = {}
  /\ ran = [m \in Migration |-> 0]

Stop(r, verdict) ==
  /\ pc' = [pc EXCEPT ![r] = "stopped"]
  /\ work' = [work EXCEPT ![r].verdict = verdict]
  /\ UNCHANGED <<database, script, lock, granting, ran>>

\* runMigrations is called by a process of some build, again after a run that ended
Start(r, build) ==
  /\ pc[r] \in {"idle", "done", "stopped"}
  /\ pc' = [pc EXCEPT ![r] = IF ClaimedTwice(build) THEN "stopped" ELSE "creating"]
  /\ work' = [work EXCEPT ![r] = [NoWork EXCEPT !.build = build,
                                               !.verdict = IF ClaimedTwice(build) THEN "duplicate" ELSE "none"]]
  /\ UNCHANGED <<database, script, lock, granting, ran>>

\* createLedgers: one transaction under the lock
CreateLedgers(r) ==
  /\ pc[r] = "creating"
  /\ lock = Nobody
  /\ ledgers' = ledgers \cup {"core"} \cup (IF PluginPlan(work[r].build) = {} THEN {} ELSE {"plugin"})
  /\ pc' = [pc EXCEPT ![r] = "checking"]
  /\ UNCHANGED <<ledger, schema, extras, granted, script, lock, work, granting, ran>>

\* readLedger, outside the lock, and the checksums of the core migrations found in it
CheckLedger(r) ==
  /\ pc[r] = "checking"
  /\ IF \E m \in CorePlan(work[r].build) : \E row \in AlreadyApplied(m) : ChecksumChanged(m, row)
     THEN Stop(r, "checksum")
     ELSE /\ pc' = [pc EXCEPT ![r] = "next"]
          /\ UNCHANGED <<database, script, lock, work, granting, ran>>

\* applyMigration and applyOwnedMigration where the ledger has the migration
SkipMigration(r) ==
  /\ pc[r] = "next"
  /\ lock = Nobody
  /\ \E m \in Upcoming(r) : \E row \in AlreadyApplied(m) :
       IF ChecksumChanged(m, row)
       THEN Stop(r, "checksum")
       ELSE /\ work' = [work EXCEPT ![r].through = @ \cup {m}]
            /\ UNCHANGED <<database, script, lock, pc, granting, ran>>

\* assertTheRoleCannotOutrunTheMeasurement, and the counters being off: before each plugin migration;
\* verifyFrom, of the login the plugins' role is of: before the grants
RefuseRole(r) ==
  /\ pc[r] = "next"
  /\ \A m \in Upcoming(r) : Owner(m) # "core"
  /\ Stop(r, "role")

\* mutation: the lock is taken without a wait for its holder
BeginUnlocked(r) ==
  /\ pc[r] = "next"
  /\ \E m \in Upcoming(r) :
       /\ AlreadyApplied(m) = {}
       /\ work' = [work EXCEPT ![r].doing = {m}]
  /\ lock' = r
  /\ pc' = [pc EXCEPT ![r] = "running"]
  /\ UNCHANGED <<database, script, granting, ran>>

\* lockSchema and the look into the ledger, which does not have the migration
BeginMigration(r) ==
  /\ pc[r] = "next"
  /\ lock = Nobody
  /\ \E m \in Upcoming(r) :
       /\ AlreadyApplied(m) = {}
       /\ work' = [work EXCEPT ![r].doing = {m}]
  /\ lock' = r
  /\ pc' = [pc EXCEPT ![r] = "running"]
  /\ UNCHANGED <<database, script, granting, ran>>

\* the runners with an open grant on a table that the statements change
Holders(r, m) == {q \in Runner \ {r} : grants[q].given \cap Touched(m) # {}}

\* the statements have all run, those that waited for an open grant after it was rolled back
ApplyMigration(r) ==
  /\ pc[r] = "running"
  /\ \E m \in work[r].doing :
       /\ Executable(m)
       /\ Holders(r, m) = {}
       /\ work' = [work EXCEPT ![r].draft = After(m)]
  /\ pc' = [pc EXCEPT ![r] = "applied"]
  /\ behind' = behind \ {r}
  /\ UNCHANGED <<database, script, lock, granter, grants, ran>>

\* each waits for what the other has changed, some of the statements having run
Deadlocked(q, m) == grants[q].given \cap Touched(m) # {} /\ grants[q].found \cap Touched(m) # {}

\* one of the statements fails and the transaction rolls back
FailMigration(r) ==
  /\ pc[r] = "running"
  /\ \E m \in work[r].doing :
       \/ ~Executable(m)
       \/ r \in behind
       \/ \E q \in Holders(r, m) : Deadlocked(q, m)
  /\ lock' = Nobody
  /\ pc' = [pc EXCEPT ![r] = "stopped"]
  /\ work' = [work EXCEPT ![r].doing = {}, ![r].draft = NoWork.draft, ![r].verdict = "error"]
  /\ behind' = behind \ {r}
  /\ UNCHANGED <<database, script, granter, grants, ran>>

Passes(r, m) ==
  /\ EveryReferenceCascades(work[r].draft)
  /\ Owner(m) # "core" => Accepted(r, m, work[r].draft)

\* the checks, the row of the ledger and the commit; what was granted on a table ends with it
CommitMigration(r) ==
  /\ pc[r] = "applied"
  /\ \E m \in work[r].doing :
        /\ Passes(r, m)
        /\ schema' = work[r].draft
        /\ extras' = IF Done(m, "code") \cup Done(m, "loose") # {} THEN extras \cup {Owner(m)} ELSE extras
        /\ granted' = granted \ (Done(m, "drop") \cup Done(m, "replace"))
        /\ ledger' = ledger \cup {m}
        /\ ran' = [ran EXCEPT ![m] = @ + 1]
        /\ behind' = behind \cup {q \in Runner : grants[q].found \cap Touched(m) # {}}
        /\ work' = [work EXCEPT ![r].through = @ \cup {m}, ![r].doing = {}, ![r].draft = NoWork.draft]
  /\ lock' = Nobody
  /\ pc' = [pc EXCEPT ![r] = "next"]
  /\ UNCHANGED <<ledgers, script, granter, grants>>

\* MissingCascadeError and every MigrationRefusedError of applyOwnedMigration: the transaction rolls back
RefuseMigration(r) ==
  /\ pc[r] = "applied"
  /\ \E m \in work[r].doing : ~Passes(r, m)
  /\ lock' = Nobody
  /\ pc' = [pc EXCEPT ![r] = "stopped"]
  /\ work' = [work EXCEPT ![r].doing = {}, ![r].draft = NoWork.draft, ![r].verdict = "refused"]
  /\ UNCHANGED <<database, script, granting, ran>>

\* declaredTablesOf
DeclaredTablesOf(build) == UNION {Declares(m) : m \in PluginPlan(build)}

\* grantOwnTablesToThePluginRole, at the end of migrate()
BeginGrants(r) ==
  /\ pc[r] = "next"
  /\ Left(r) = {}
  /\ grants' = [grants EXCEPT ![r] = [NoGrants EXCEPT !.asked = DeclaredTablesOf(work[r].build)]]
  /\ pc' = [pc EXCEPT ![r] = "asking"]
  /\ UNCHANGED <<database, script, lock, work, granter, behind, ran>>

\* GRANT USAGE ON SCHEMA, which waits for another's that is open
GrantOnSchema(r) ==
  /\ pc[r] = "asking"
  /\ granter = Nobody
  /\ granter' = r
  /\ pc' = [pc EXCEPT ![r] = "granting"]
  /\ behind' = behind \ {r}
  /\ UNCHANGED <<database, script, lock, work, grants, ran>>

\* grantOneTable: the look for the table; one that is not there is passed over
LookUpTable(r) ==
  /\ pc[r] = "granting"
  /\ grants[r].found = {}
  /\ \E n \in grants[r].asked :
       grants' = [grants EXCEPT ![r].asked = @ \ {n}, ![r].found = OwnTables(schema, {n})]
  /\ UNCHANGED <<database, script, lock, pc, work, granter, behind, ran>>

\* GRANT on the table and its sequences, which waits for an open change of the table
GrantOnTable(r) ==
  /\ pc[r] = "granting"
  /\ \E n \in grants[r].found :
       /\ schema[n] # Absent
       /\ \A q \in Runner \ {r} : pc[q] = "applied" => \A m \in work[q].doing : n \notin Touched(m)
       /\ grants' = [grants EXCEPT ![r].found = @ \ {n}, ![r].given = @ \cup {n}]
  /\ behind' = behind \ {r}
  /\ UNCHANGED <<database, script, lock, pc, work, granter, ran>>

\* a GRANT meets what another has committed meanwhile, or a table that is gone, and the
\* transaction rolls back; the one on the schema has met another run's
FailGrants(r) ==
  /\ \/ pc[r] \in {"asking", "granting"} /\ r \in behind
     \/ \E n \in grants[r].found :
          \/ schema[n] = Absent
          \/ \E q \in Runner \ {r} : pc[q] = "running" /\ \E m \in work[q].doing : Deadlocked(r, m)
  /\ granter' = IF granter = r THEN Nobody ELSE granter
  /\ grants' = [grants EXCEPT ![r] = NoGrants]
  /\ behind' = behind \ {r}
  /\ pc' = [pc EXCEPT ![r] = "stopped"]
  /\ work' = [work EXCEPT ![r].verdict = "grant"]
  /\ UNCHANGED <<database, script, lock, ran>>

\* the runners that an open grant keeps waiting
WaitsForGrantsOf(r) ==
  {q \in Runner \ {r} : \/ pc[q] = "asking"
                        \/ pc[q] = "running" /\ \E m \in work[q].doing : r \in Holders(q, m)}

\* the commit of the grants
CommitGrants(r) ==
  /\ pc[r] = "granting"
  /\ grants[r].asked = {}
  /\ grants[r].found = {}
  /\ granted' = granted \cup grants[r].given
  /\ granter' = Nobody
  /\ grants' = [grants EXCEPT ![r] = NoGrants]
  /\ behind' = behind \cup WaitsForGrantsOf(r)
  /\ pc' = [pc EXCEPT ![r] = "done"]
  /\ UNCHANGED <<ledgers, ledger, schema, extras, script, lock, work, ran>>

\* mutation: a lock that outlives its transaction
CrashHolding(r) ==
  /\ pc[r] \notin {"idle", "done", "stopped"}
  /\ granter' = IF granter = r THEN Nobody ELSE granter
  /\ grants' = [grants EXCEPT ![r] = NoGrants]
  /\ behind' = behind \ {r}
  /\ pc' = [pc EXCEPT ![r] = "idle"]
  /\ work' = [work EXCEPT ![r] = NoWork]
  /\ UNCHANGED <<database, script, lock, ran>>

\* the process dies: an open transaction rolls back and its locks are free
Crash(r) ==
  /\ pc[r] \notin {"idle", "done", "stopped"}
  /\ lock' = IF lock = r THEN Nobody ELSE lock
  /\ granter' = IF granter = r THEN Nobody ELSE granter
  /\ grants' = [grants EXCEPT ![r] = NoGrants]
  /\ behind' = behind \ {r}
  /\ pc' = [pc EXCEPT ![r] = "idle"]
  /\ work' = [work EXCEPT ![r] = NoWork]
  /\ UNCHANGED <<database, script, ran>>

Run(r) ==
  \/ CreateLedgers(r)
  \/ CheckLedger(r)
  \/ SkipMigration(r)
  \/ RefuseRole(r)
  \/ BeginMigration(r)
  \/ ApplyMigration(r)
  \/ FailMigration(r)
  \/ CommitMigration(r)
  \/ RefuseMigration(r)
  \/ BeginGrants(r)
  \/ GrantOnSchema(r)
  \/ LookUpTable(r)
  \/ GrantOnTable(r)
  \/ FailGrants(r)
  \/ CommitGrants(r)

Next ==
  \E r \in Runner :
    \/ \E build \in Build : Start(r, build)
    \/ Run(r)
    \/ Crash(r)

Spec == Init /\ [][Next]_vars

FairSpec == Spec /\ \A r \in Runner : SF_vars(Run(r))

-----------------------------------------------------------------------------

(* The ledger tells the schema: what it records was committed exactly once and what *)
(* it does not record left nothing, whatever runners met and wherever one died.     *)
(* A table of a recorded migration stands as that migration made it, unless another *)
(* of its own plugin dropped it.                                                    *)
LedgerTellsTheSchema ==
  /\ \A m \in Migration : ran[m] = IF m \in ledger THEN 1 ELSE 0
  /\ \A m1, m2 \in ledger : SameMigration(m1, m2) => m1 = m2
  /\ \A n \in Name : schema[n] # Absent => schema[n].maker \in ledger
  /\ \A m \in ledger : \A n \in Declares(m) :
       \/ schema[n] # Absent /\ schema[n].maker = m
       \/ \E other \in ledger \ {m} : /\ Owner(other) = Owner(m)
                                      /\ n \in Done(other, "drop") \cup Done(other, "replace")

(* Whatever the SQL of a plugin's migration does, what is committed belongs to one  *)
(* owner: no other has shaped a table, reached its rows or inherits from it, every  *)
(* table was declared, nothing but tables is left, and the plugins' role reaches no *)
(* core table (judged by what it did, never by parsing its SQL: E-637); deleting an *)
(* account leaves no row of it behind (S-TOKEN-6).                                  *)
OwnersAlone ==
  /\ EveryReferenceCascades(schema)
  /\ extras = {}
  /\ \A n \in Name : schema[n] # Absent =>
       LET owner == Owner(schema[n].maker)
       IN /\ schema[n].kind = "table"
          /\ schema[n].shaped \subseteq {owner}
          /\ schema[n].reached \subseteq {owner}
          /\ \E m \in ledger : Owner(m) = owner /\ n \in Declares(m)
          /\ \A parent \in schema[n].parents : schema[parent] # Absent => Owner(schema[parent].maker) = owner
          /\ n \in granted => owner # "core"

(* A run that ends well leaves the schema its build expects, with nothing pending   *)
(* and nothing changed, and so it stays while others migrate; every plugin          *)
(* migration is recorded and the plugins' role reaches those of its tables that its *)
(* own plan made and nobody has dropped or replaced.                                *)
DoneIsUpToDate ==
  \A r \in Runner : pc[r] = "done" =>
    /\ UpToDate(work[r].build)
    /\ PluginPlan(work[r].build) \subseteq ledger
    /\ \A n \in OwnTables(schema, DeclaredTablesOf(work[r].build)) :
         schema[n].maker \in Plan[work[r].build] => n \in granted

(* Migrations of runners that start at once do not make each other fail: only a    *)
(* plugin's own SQL meets an error, and a checksum is refused only for SQL that     *)
(* really differs.  What a run does make another's fail is its grants, which the    *)
(* lock does not cover, and by then the other has left its build up to date.        *)
NoMigrationFailsOnAnother ==
  \A r \in Runner : pc[r] = "stopped" =>
    CASE work[r].verdict = "error"    -> \A m \in Upcoming(r) : Owner(m) # "core"
      [] work[r].verdict = "checksum" ->
           \E m \in Plan[work[r].build], row \in ledger : SameMigration(m, row) /\ m # row
      [] work[r].verdict = "grant"    ->
           PluginPlan(work[r].build) \subseteq ledger /\ UpToDate(work[r].build)
      [] OTHER -> TRUE

(* Every run ends, well, stopped or by its process dying: none waits for ever for   *)
(* the lock of another.                                                             *)
EveryRunEnds == \A r \in Runner : pc[r] = "creating" ~> pc[r] \in {"done", "stopped", "idle"}
=============================================================================
