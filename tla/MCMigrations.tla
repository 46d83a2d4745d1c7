---------------------------- MODULE MCMigrations ----------------------------
(* Small instances of Migrations.  The id of plugin p begins the names of   *)
(* p_q's tables; no build has both.                                         *)
EXTENDS Migrations, TLC

Of(owner, version, declares) == [owner |-> owner, version |-> version, declares |-> declares]

MCFacts ==
     "initial"   :> Of("core", 1, {"user"})
  @@ "email"     :> Of("core", 2, {"session"})
  @@ "username"  :> Of("core", 2, {"session"})
  @@ "first"     :> Of("p", 1, {"p_a", "p_c"})
  @@ "second"    :> Of("p", 2, {"p_b"})
  @@ "sibling"   :> Of("s", 1, {"s_a"})
  @@ "neighbour" :> Of("p_q", 1, {"p_q_a"})

\* a release, an older one, the older one with another plugin, another identity mode, and a version claimed twice
Plans ==
     "plugins" :> {"initial", "email", "first", "second"}
  @@ "older"   :> {"initial", "first"}
  @@ "beside"  :> {"initial", "first", "sibling"}
  @@ "other"   :> {"initial", "username", "neighbour"}
  @@ "clash"   :> {"email", "username"}

Orders == "plugins" :> <<"p">> @@ "older" :> <<"p">> @@ "beside" :> <<"s", "p">> @@ "other" :> <<"p_q">> @@ "clash" :> <<>>

MCPlan  == [build \in Build |-> Plans[build]]
MCOrder == [build \in Build |-> Orders[build]]

To(does, name) == [does |-> does, to |-> name]

WellBehaved ==
  [m \in DOMAIN MCFacts |-> {To("create", n) : n \in IF MCFacts[m].owner = "core" THEN {} ELSE MCFacts[m].declares}]

\* what one of the plugins' migrations may do besides
Beyond ==
     "first"     :> {{To("alter", "p_q_a")}, {To("write", "p_q_a")}, {To("dangle", "p_a")},
                     {To("view", "p_b")}}
  @@ "second"    :> {{To("alter", "p_a"), To("write", "p_a")}, {To("replace", "p_a")},
                     {To("drop", "user")}, {To("read", "user")}, {To("inherit", "p_a")},
                     {To("inherit", "s_a")}, {To("code", "p_b")}, {To("loose", "p_b")}}
  @@ "neighbour" :> {{To("create", "p_b")}}

But(m, more) == [WellBehaved EXCEPT ![m] = @ \cup more]

MCEveryScript == {WellBehaved} \cup UNION {{But(m, more) : more \in Beyond[m]} : m \in DOMAIN Beyond}

\* one that runs, one that replaces one of its own tables and alters another, and one that
\* fails or is refused
MCScript ==
  {WellBehaved, But("second", {To("replace", "p_a"), To("alter", "p_c")}), But("first", {To("alter", "p_q_a")})}

MCCarriesPrefix == "p" :> {"p_a", "p_b", "p_c", "p_q_a"} @@ "p_q" :> {"p_q_a"} @@ "s" :> {"s_a"}

Symmetry == Permutations(Runner)
=============================================================================
