----------------------------- MODULE MCPlugins -----------------------------
(* Small instances of Plugins.                                            *)
EXTENDS Plugins, TLC

CONSTANTS r1, r2, c1, c2

MCCoreTables == {<<"one", "time", "token">>, <<"user">>}
MCCoreCodes == {<<<<"core">>, "invalid_input">>}
MCCoreNamespaces == {<<"session">>}
MCCoreRoutes == {Route(<<<<"session">>, "read">>, "/session")}

P(id) == Plain(<<id>>)

(***************************************************************************)
(* Starts that no request follows                                          *)
(***************************************************************************)
\* Every dependency graph on three plugins, and a diamond under a fourth.
Letters == {<<"a">>, <<"b">>, <<"c">>}
ListOf(set) == SelectSeq(<<<<"a">>, <<"b">>, <<"c">>>>, LAMBDA id : id \in set)
Graph(needs) == [i \in 1 .. 3 |->
    Declared([P(<<"a", "b", "c">>[i]) EXCEPT !.dependsOn = ListOf(needs[i])])]
Diamond == <<
    Declared([P("d") EXCEPT !.dependsOn = <<<<"b">>, <<"c">>>>]),
    Declared([P("b") EXCEPT !.dependsOn = <<<<"a">>>>]),
    Declared([P("c") EXCEPT !.dependsOn = <<<<"a">>>>]),
    Declared(P("a")) >>

\* One mistake each, beside a plugin without one.
Own(route) == [P("b") EXCEPT !.routes = <<route>>]
Ours == Route(<<<<"b">>, "do">>, "/b")
Mistakes == {
    [P("b") EXCEPT !.unknownField = TRUE], P("a"), Plain(<<"a", "b">>), Plain(<<"session">>),
    [P("b") EXCEPT !.dependsOn = <<<<"z">>>>],
    [P("b") EXCEPT !.codes = {<<<<"a">>, "refused">>}],
    [P("b") EXCEPT !.rules = {<<<<"a">>, "do">>}],
    [P("b") EXCEPT !.tables = {<<"a", "note">>}],
    [P("b") EXCEPT !.tables = {<<"b", "note">>}, !.codes = {<<<<"b">>, "refused">>},
                   !.routes = <<[Ours EXCEPT !.errors = {<<<<"b">>, "refused">>}]>>,
                   !.rules = {Ours.name}],
    [Plain(<<"one", "time">>) EXCEPT !.tables = {<<"one", "time", "token">>}],
    Plain(<<"one", "time">>),
    Own([Ours EXCEPT !.errors = {<<<<"b">>, "refused">>}]),
    Own([Ours EXCEPT !.limited = FALSE]), Own([Ours EXCEPT !.exempt = TRUE]),
    Own([Ours EXCEPT !.coreCookie = TRUE]),
    Own(Route(<<<<"session">>, "read">>, "/mine")),
    Own(Route(<<<<"b">>, "do">>, "/session")), Own(Route(<<<<"b">>, "do">>, "/a")) }
Innocent == [P("a") EXCEPT !.tables = {<<"a", "b", "note">>},
                           !.routes = <<Route(<<<<"a">>, "do">>, "/a")>>]
\* A field that answers otherwise when it is read again.
Fickle == <<[read |-> Own(Ours), later |-> Own([Ours EXCEPT !.limited = FALSE])]>>

Application(plugins, sql, conns, asked) ==
    [declared |-> plugins, mode |-> sql, pool |-> conns, course |-> asked]

Starts ==
    LET Started(plugins) == Application(plugins, "unbound", {c1}, [r \in Request |-> "revoke"])
    IN  [key \in {"graph"} \X [1 .. 3 -> SUBSET Letters] |-> Started(Graph(key[2]))]
        @@ [key \in {"mistake"} \X Mistakes |->
              Started(<<Declared(Innocent), Declared(key[2])>>)]
        @@ <<"diamond">> :> Started(Diamond) @@ <<"fickle">> :> Started(Fickle)

(***************************************************************************)
(* Plugins with hooks, and the requests that tell them                     *)
(***************************************************************************)
MCStatements ==
    [a |-> Statement(<<"a", "note">>), b |-> Statement(<<"b", "note">>), core |-> Statement(<<"user">>)]

Hooked(a, b) ==
    <<Declared([P("a") EXCEPT !.hooks = a @@ @]), Declared([P("b") EXCEPT !.hooks = b @@ @])>>
AQuery == <<"query", "a">>
BQuery == <<"query", "b">>
Does(does) == <<does, "b">>

\* Hooks of every kind that await what they call.
Awaiting ==
    Hooked("beforeSessionCreate" :> <<<<"fail", "a">>, Does("revoke")>>,
           "beforeUserCreate" :> <<BQuery>> @@ "afterUserCreate" :> <<BQuery>>
           @@ "afterSessionCreate" :> <<BQuery>> @@ "beforeSessionRevoke" :> <<Does("revoke"), BQuery>>)
\* A hook that leaves a statement running, and one that refuses.
Leaving ==
    Hooked("beforeSessionCreate" :> <<<<"leave", "a">>, <<"query", "core">>>>,
           "afterUserCreate" :> <<BQuery>> @@ "beforeSessionCreate" :> <<Does("revoke")>>
           @@ "afterSessionCreate" :> <<Does("fail"), Does("throw")>>)
Signing == Hooked("beforeSignIn" :> <<AQuery>>, "afterSignIn" :> <<BQuery>>)

\* Under a login: hooks that wait for a check of it, and one that does not.
Checked == Hooked("beforeUserCreate" :> <<AQuery>>, "beforeSessionCreate" :> <<BQuery>>)
Unchecked == Hooked("beforeSessionRevoke" :> <<AQuery>>, "beforeSessionCreate" :> <<Does("leave")>>)

HooksOf == [awaiting |-> Awaiting, leaving |-> Leaving, signing |-> Signing, checked |-> Checked,
            unchecked |-> Unchecked]
Runs(plugins, modes, conns, courses) ==
    [key \in {plugins} \X modes \X courses |->
        Application(HooksOf[key[1]], key[2], conns, r1 :> key[3][1] @@ r2 :> key[3][2])]

\* One connection, but two where a check of the plugin login may wait for one.
MCApplications ==
    Starts
    @@ Runs("awaiting", Modes \ {"login"}, {c1}, {<<"signUp", "reset">>, <<"cover", "change">>})
    @@ Runs("leaving", Modes \ {"login"}, {c1}, {<<"bareSignUp", "reset">>, <<"oauth", "magicLink">>})
    @@ Runs("signing", Modes, {c1}, {<<"password", "passkey">>, <<"factor", "link">>})
    @@ Runs("checked", {"login"}, {c1, c2}, {<<"signUp", "reset">>})
    @@ Runs("unchecked", {"login"}, {c1, c2}, {<<"revoke", "reset">>})

\* Two requests under a plugin login and one connection: one tells a hook
\* outside a transaction, the other inside.
MCOneConnection == Runs("checked", {"login"}, {c1}, {<<"signUp", "reset">>})
=============================================================================
