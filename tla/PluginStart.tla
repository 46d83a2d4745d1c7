----------------------------- MODULE PluginStart -----------------------------
(* What the start makes of the plugins an application declares             *)
(* (plugin/registry.ts, auth/instance.ts): one reading of each, the checks *)
(* in the order they refuse, the order of registration; and what the       *)
(* statement check (plugin/own-tables.ts) lets a registered plugin reach.  *)
(*                                                                         *)
(* A name is the tuple of the parts an underscore separates: the id "a_b"  *)
(* is <<"a", "b">>, and a name begins with "a_" when <<"a">> is a proper   *)
(* prefix of it.  Error codes and routes are pairs of a namespace and a    *)
(* name within it.                                                         *)
EXTENDS Integers, Sequences, FiniteSets, SequencesExt

CONSTANTS CoreTables,       \* the tables of the library
          CoreCodes,        \* its error codes
          CoreRoutes,       \* its routes
          CoreNamespaces,   \* the namespaces of its surface
          Schema,           \* the schema both are in
          Nothing

(***************************************************************************)
(* A declaration                                                           *)
(***************************************************************************)
Points == {"beforeSignIn", "afterSignIn", "beforeSessionCreate", "afterSessionCreate",
           "beforeUserCreate", "afterUserCreate", "beforeSessionRevoke"}

Names == Seq(STRING)
Qualified == Names \X STRING
Routes == [name : Qualified, path : STRING, errors : SUBSET Qualified, limited : BOOLEAN,
           exempt : BOOLEAN, coreCookie : BOOLEAN]

\* What a hook calls, one after another, and with which statement.
Asked == {"query", "fail", "leave", "revoke", "throw"} \X STRING
Readings ==
    [id : Names, unknownField : BOOLEAN, dependsOn : Seq(Names), codes : SUBSET Qualified,
     routes : Seq(Routes), rules : SUBSET Qualified, tables : SUBSET Names,
     hooks : [Points -> Seq(Asked)]]

\* What a plugin answers when its fields are read; `later` is what an
\* accessor of it would answer the second time.
Plain(id) ==
    [id |-> id, unknownField |-> FALSE, dependsOn |-> <<>>, codes |-> {}, routes |-> <<>>,
     rules |-> {}, tables |-> {}, hooks |-> [point \in Points |-> <<>>]]
Declared(read) == [read |-> read, later |-> read]

Route(name, path) ==
    [name |-> name, path |-> path, errors |-> {}, limited |-> TRUE, exempt |-> FALSE,
     coreCookie |-> FALSE]

\* Everything past the field check works on one reading of each plugin (E-900).
OneReading(declared) == [i \in DOMAIN declared |-> declared[i].read]

IdsOf(plugins) == {plugins[i].id : i \in DOMAIN plugins}
RoutesOf(plugins) ==
    FlattenSeq([i \in DOMAIN plugins |->
        [j \in DOMAIN plugins[i].routes |->
            [route |-> plugins[i].routes[j], owner |-> plugins[i].id]]])

(***************************************************************************)
(* The checks                                                              *)
(***************************************************************************)
FieldIsUnknown(declared) == \E i \in DOMAIN declared : declared[i].read.unknownField
ReadsACoreCookie(plugin) == \E i \in DOMAIN plugin.routes : plugin.routes[i].coreCookie

IdIsTakenTwice(plugins) ==
    \E i, j \in DOMAIN plugins : i < j /\ plugins[i].id = plugins[j].id

PrefixContainsAnother(plugins) ==
    \E i, j \in DOMAIN plugins : IsStrictPrefix(plugins[i].id, plugins[j].id)

DependencyIsMissing(plugins) ==
    \E i \in DOMAIN plugins : ~ToSet(plugins[i].dependsOn) \subseteq IdsOf(plugins)

CodeIsAnothers(plugin) == \E code \in plugin.codes : code[1] # plugin.id

ErrorIsUndeclared(plugin) ==
    \E i \in DOMAIN plugin.routes :
        ~plugin.routes[i].errors \subseteq CoreCodes \cup plugin.codes

RuleIsUnmatched(plugin) ==
    ~plugin.rules \subseteq {plugin.routes[i].name : i \in DOMAIN plugin.routes}

RouteIsUnlimited(plugin) == \E i \in DOMAIN plugin.routes : ~plugin.routes[i].limited
RouteIsExempt(plugin) == \E i \in DOMAIN plugin.routes : plugin.routes[i].exempt

\* A prefix alone would hand a core table to a plugin (E-907).
NamesTableOfPlugin(table, id) == IsStrictPrefix(id, table) /\ table \notin CoreTables

TableIsAnothers(plugin) == \E table \in plugin.tables : ~NamesTableOfPlugin(table, plugin.id)

\* No two routes, core routes included, share a name or a path.
RouteConflicts(plugins) ==
    LET contributed == RoutesOf(plugins)
        Claim(a, b) == a.name = b.name \/ a.path = b.path
    IN  \E i \in DOMAIN contributed :
           \/ \E core \in CoreRoutes : Claim(core, contributed[i].route)
           \/ \E j \in 1 .. (i - 1) : Claim(contributed[j].route, contributed[i].route)

NamespaceIsTaken(plugins) ==
    \/ IdsOf(plugins) \cap CoreNamespaces # {}
    \/ \E i \in DOMAIN RoutesOf(plugins) : RoutesOf(plugins)[i].route.name[1] \in CoreNamespaces

(***************************************************************************)
(* The order: depth first, every plugin after what it depends on           *)
(***************************************************************************)
PluginOf(plugins, id) == CHOOSE plugin \in ToSet(plugins) : plugin.id = id

\* The ids visited in turn, from what is settled on.  Nothing says that a
\* cycle was met.
InTurn(visit, ids, path, settled) ==
    LET ordered[i \in 0 .. Len(ids)] ==
            IF i = 0 THEN settled
            ELSE IF ordered[i - 1] = Nothing THEN Nothing
            ELSE visit[[id |-> ids[i], path |-> path, settled |-> ordered[i - 1]]]
    IN  ordered[Len(ids)]

\* A visit on its way down: the plugin, what is above it, what is settled.
VisitsOf(ids) == [id : ids, path : SUBSET ids, settled : Seq(ids)]

\* No way down is longer than there are plugins.
Visit(plugins) ==
    LET visit[depth \in 0 .. Len(plugins)] == [call \in VisitsOf(IdsOf(plugins)) |->
            LET below == InTurn(visit[depth - 1], PluginOf(plugins, call.id).dependsOn,
                                call.path \cup {call.id}, call.settled)
            IN  IF Contains(call.settled, call.id) THEN call.settled
                ELSE IF depth = 0 \/ call.id \in call.path \/ below = Nothing THEN Nothing
                ELSE Append(below, call.id)]
    IN  visit[Len(plugins)]

InDependencyOrder(plugins) ==
    InTurn(Visit(plugins), [i \in DOMAIN plugins |-> plugins[i].id], {}, <<>>)

(***************************************************************************)
(* The start                                                               *)
(***************************************************************************)
Refusals == {
    "plugin_field_unknown", "plugin_route_reads_a_core_cookie", "plugin_id_duplicated",
    "plugin_table_prefix_conflict", "plugin_dependency_missing", "plugin_error_code_not_namespaced",
    "plugin_error_code_undeclared", "plugin_rate_limit_rule_unmatched",
    "plugin_route_without_address_rate_limit", "plugin_migration_table_not_prefixed",
    "plugin_dependency_cycle", "plugin_route_exempts_the_origin_check", "plugin_route_conflict"}

\* The refusals in the order the code reaches them.
OwnChecks(plugin) == <<
    <<"plugin_error_code_not_namespaced", CodeIsAnothers(plugin)>>,
    <<"plugin_error_code_undeclared", ErrorIsUndeclared(plugin)>>,
    <<"plugin_rate_limit_rule_unmatched", RuleIsUnmatched(plugin)>>,
    <<"plugin_route_without_address_rate_limit", RouteIsUnlimited(plugin)>>,
    <<"plugin_migration_table_not_prefixed", TableIsAnothers(plugin)>> >>

SomePlugin(plugins, Check(_)) == \E i \in DOMAIN plugins : Check(plugins[i])

Refusal(declared) ==
    LET plugins == OneReading(declared)
        ChecksBefore == <<
            <<"plugin_field_unknown", FieldIsUnknown(declared)>>,
            <<"plugin_route_reads_a_core_cookie", SomePlugin(plugins, ReadsACoreCookie)>>,
            <<"plugin_id_duplicated", IdIsTakenTwice(plugins)>>,
            <<"plugin_table_prefix_conflict", PrefixContainsAnother(plugins)>>,
            <<"plugin_dependency_missing", DependencyIsMissing(plugins)>> >>
            \o FlattenSeq([i \in DOMAIN plugins |-> OwnChecks(plugins[i])])
        ChecksAfter == <<
            <<"plugin_dependency_cycle", InDependencyOrder(plugins) = Nothing>>,
            <<"plugin_route_exempts_the_origin_check", SomePlugin(plugins, RouteIsExempt)>>,
            <<"plugin_route_conflict", RouteConflicts(plugins) \/ NamespaceIsTaken(plugins)>> >>
        FirstOf(checks) == SelectInSeq(checks, LAMBDA check : check[2])
        before == FirstOf(ChecksBefore)
        after == FirstOf(ChecksAfter)
    IN  IF before # 0 THEN ChecksBefore[before][1]
        ELSE IF after # 0 THEN ChecksAfter[after][1] ELSE "none"

(***************************************************************************)
(* The statement check                                                     *)
(***************************************************************************)
\* A statement as the walk reads it: whether its text can be read to the end
\* and is one statement, its leading word, the names in its table positions
\* and every other name; a name is a pair of a schema and a table, Nothing
\* the schema of an unqualified one.
Statement(table) ==
    [whole |-> TRUE, verb |-> "insert", tables |-> {<<Nothing, table>>}, words |-> {}]

Readable == {"select", "insert", "update", "delete", "with"}
Escaping == {<<"set", "config">>, <<"dblink">>}

NamesAnOwnTable(name, id) == name[1] \in {Nothing, Schema} /\ NamesTableOfPlugin(name[2], id)
NamesTheCoreSchema(name, id) == name[1] = Schema /\ ~IsStrictPrefix(id, name[2])

PassesTheWalk(statement, id) ==
    /\ statement.whole
    /\ statement.verb \in Readable
    /\ \A name \in statement.tables \cup statement.words :
          /\ name[2] \notin CoreTables \cup Escaping
          /\ ~NamesTheCoreSchema(name, id)
    /\ \A name \in statement.tables : NamesAnOwnTable(name, id)
=============================================================================
