------------------------------- MODULE Plugins -------------------------------
(* Plugins while requests run: hooks told on the pool and inside           *)
(* transactions, the connection lent to them, and their own-table SQL.     *)
(*                                                                         *)
(* The start registers the plugins (PluginStart).  A request then takes    *)
(* the steps of its path, its `course`: it tells hooks, opens and commits  *)
(* a transaction, runs statements of the core.  A hook told inside a       *)
(* transaction gets a connection lent from it (plugin/registry.ts), which  *)
(* ends when the hooks of that point have returned.  A listener makes the  *)
(* calls its declaration lists, one after another, and may leave one       *)
(* running that it does not await.  Own-table SQL (plugin/own-tables.ts)   *)
(* runs as the library ("unbound"), under a role ("role",                  *)
(* plugin/database-role.ts) or on a login of its own ("login",             *)
(* plugin/login-connection.ts).  Statements sent on one connection run in  *)
(* the order they are sent.                                                *)
EXTENDS PluginStart

CONSTANTS Request,      \* calls of the application
          Conn,         \* the connections of the pool
          Course,       \* the paths requests take
          Applications, \* what is declared, the mode of own-table SQL, the pool, and
                        \* what is asked: a function to [declared, mode, pool, course]
          Statements,   \* what listeners send: a function to statements
          Recheck,      \* how long a passed check of the plugin login is remembered
          Over,         \* a statement left running has ended
          MaxTime, MaxDepth \* bounds: the clock, and how deep a dispatch nests

ASSUME BoundsAssumption == {Recheck, MaxDepth} \subseteq Nat \ {0} /\ MaxTime \in Nat

Modes == {"unbound", "role", "login"}

VARIABLES started, setting, \* the application that was started, and its settings
          refusal,      \* how the start ended
          registered,   \* the ids of the plugins in the order their hooks run
          hooks,        \* what is called at each point, in that order
          at,           \* the steps each request has taken of its path
          answer,       \* how it was answered
          mine,         \* the connection its transaction holds
          stack,        \* its dispatches, the innermost last
          leases,       \* how many connections its dispatches were lent
          running, left,    \* the statement it awaits, and the one it left running
          conn,         \* the connections
          time, granted,    \* the clock; when the plugin login was granted the core
          passes, remembered,   \* checks of that login, and the one remembered
          told, landed, outcome \* history: writes told done, committed; the transaction's end

starting == <<started, setting, refusal, registered, hooks>>
requests == <<at, answer, mine>>
dispatches == <<stack, leases>>
statements == <<running, left>>
login == <<passes, remembered>>
clock == <<time, granted>>
history == <<told, landed, outcome>>
vars == <<starting, requests, dispatches, statements, conn, login, clock, history>>

declared == Applications[started].declared
mode == setting.mode
pool == setting.pool
course == setting.course

(***************************************************************************)
(* The paths                                                               *)
(***************************************************************************)
Told(point) == [does |-> "tell", point |-> point]
Begin == [does |-> "begin"]
Core == [does |-> "core"]
Commit == [does |-> "commit"]
Discard == [does |-> "discard"]
TellSessionCreate(issue) ==
    <<Told("beforeSessionCreate")>> \o issue \o <<Told("afterSessionCreate")>>

\* A hook told inside a transaction is lent its connection, one told outside
\* uses the pool.  A transaction that tells no hook is one core step.
PasswordSignIn ==
    <<Told("beforeSignIn"), Core>> \o TellSessionCreate(<<Core>>) \o <<Told("afterSignIn")>>
PasskeySignIn ==
    <<Told("beforeSignIn"), Core>> \o TellSessionCreate(<<Core>>) \o <<Told("afterSignIn")>>
SecondFactor == TellSessionCreate(<<Core>>) \o <<Told("afterSignIn")>>
Registration(derived) ==
    <<Begin, Core, Told("afterUserCreate"), Core>> \o TellSessionCreate(<<Core>>)
    \o (IF derived THEN <<Core>> ELSE <<>>)
SignUp == <<Told("beforeUserCreate")>> \o Registration(TRUE) \o <<Commit>>
SignUpWithoutPassword == <<Told("beforeUserCreate")>> \o Registration(FALSE) \o <<Commit>>
SignUpCover == <<Told("beforeUserCreate")>> \o Registration(TRUE) \o <<Discard>>
MagicLink ==
    <<Told("beforeSignIn"), Core, Begin, Core, Told("beforeSessionRevoke"), Core, Commit>>
    \o TellSessionCreate(<<Core>>) \o <<Told("afterSignIn")>>
Reset ==
    <<Begin, Core, Told("beforeSessionCreate"), Core, Told("beforeSessionRevoke"), Core, Core, Commit,
      Told("afterSessionCreate")>>
ChangePassword ==
    TellSessionCreate(<<Begin, Core, Told("beforeSessionRevoke"), Core, Core, Commit>>)
OAuthSignUp ==
    <<Told("beforeSignIn"), Begin, Core, Told("beforeUserCreate"), Core,
      Told("afterUserCreate"), Core, Commit>>
    \o TellSessionCreate(<<Core>>) \o <<Told("afterSignIn")>>
OAuthLink ==
    <<Core, Told("beforeSessionRevoke")>> \o TellSessionCreate(<<Core>>)
Revocation == <<Core, Told("beforeSessionRevoke"), Core>>

StepsOf ==
    [password |-> PasswordSignIn, passkey |-> PasskeySignIn, factor |-> SecondFactor,
     signUp |-> SignUp, bareSignUp |-> SignUpWithoutPassword, cover |-> SignUpCover,
     magicLink |-> MagicLink, reset |-> Reset, change |-> ChangePassword,
     oauth |-> OAuthSignUp, link |-> OAuthLink, revoke |-> Revocation]

ASSUME CourseAssumption == Course \subseteq DOMAIN StepsOf

(***************************************************************************)
(* Connections                                                             *)
(***************************************************************************)
Free == [holder |-> Nothing, role |-> "library", saves |-> <<>>, aborted |-> FALSE,
         writes |-> {}]
FreeConns == {c \in pool : conn[c].holder = Nothing}

Orderly(r) == left[r] = Nothing
Lent(r) == mine[r] # Nothing
\* A statement of the library fails in an aborted transaction, and where the
\* role of a plugin was left behind.
RunsForTheLibrary(c) == ~conn[c].aborted /\ conn[c].role = "library"

\* A statement outside a transaction takes a connection for as long as it runs.
PoolAnswers == FreeConns # {}

(***************************************************************************)
(* Requests                                                                *)
(***************************************************************************)
Now(r) == StepsOf[course[r]][at[r] + 1]
IsAt(r, does) == refusal = "none" /\ answer[r] = Nothing /\ stack[r] = <<>> /\ Now(r).does = does

Proceeds(r) ==
    /\ at' = [at EXCEPT ![r] = @ + 1]
    /\ answer' = [answer EXCEPT ![r] =
                    IF at[r] + 1 = Len(StepsOf[course[r]]) THEN "done" ELSE Nothing]

\* The connection goes back to the pool with nothing left of its transaction.
Ends(r, how) ==
    /\ conn' = [conn EXCEPT ![mine[r]] = Free]
    /\ mine' = [mine EXCEPT ![r] = Nothing]
    /\ outcome' = [outcome EXCEPT ![r] = how]

\* An error that nobody catches ends the request and rolls its transaction back.
Fails(r, why) ==
    /\ answer' = [answer EXCEPT ![r] = why]
    /\ stack' = [stack EXCEPT ![r] = <<>>]
    /\ IF Lent(r) THEN Ends(r, "rolledBack") ELSE UNCHANGED <<conn, mine, outcome>>
    /\ UNCHANGED <<starting, at, leases, statements, login, clock, told, landed>>

Open(r) ==
    /\ IsAt(r, "begin")
    /\ \E c \in FreeConns :
          /\ conn' = [conn EXCEPT ![c].holder = r]
          /\ mine' = [mine EXCEPT ![r] = c]
    /\ Proceeds(r)
    /\ UNCHANGED <<starting, dispatches, statements, login, clock, history>>

RunCore(r) ==
    /\ IsAt(r, "core")
    /\ IF Lent(r) THEN RunsForTheLibrary(mine[r]) ELSE PoolAnswers
    /\ Proceeds(r)
    /\ UNCHANGED <<starting, mine, conn, dispatches, statements, login, clock, history>>

CoreFails(r) ==
    /\ IsAt(r, "core") /\ Lent(r) /\ ~RunsForTheLibrary(mine[r])
    /\ Fails(r, "failed")

\* PostgreSQL answers the COMMIT of an aborted transaction by rolling it back.
Close(r) ==
    /\ IsAt(r, "commit")
    /\ Ends(r, IF conn[mine[r]].aborted THEN "rolledBack" ELSE "committed")
    /\ landed' = IF conn[mine[r]].aborted THEN landed ELSE landed \cup conn[mine[r]].writes
    /\ Proceeds(r)
    /\ UNCHANGED <<starting, dispatches, statements, login, clock, told>>

\* A cover runs a registration and throws it away (S-ENUM-3).
ThrowAway(r) ==
    /\ IsAt(r, "discard")
    /\ Ends(r, "discarded") /\ Proceeds(r)
    /\ UNCHANGED <<starting, dispatches, statements, login, clock, told, landed>>

(***************************************************************************)
(* Hooks                                                                   *)
(***************************************************************************)
Listened == hooks["beforeSessionRevoke"] # <<>>

\* Mutant: a hook told inside a transaction uses the pool.
FrameOnThePool(r, point, lent) ==
    [lease |-> 0, silent |-> point = "beforeSessionRevoke", agenda |-> hooks[point]]

\* Inside a transaction every listener of the point shares one lent
\* connection; on the pool there is none (lease 0).  A hook told of a
\* revocation is not told of its own (E-641).
Frame(r, point, lent) ==
    [lease |-> IF lent THEN leases[r] + 1 ELSE 0, silent |-> point = "beforeSessionRevoke",
     agenda |-> hooks[point]]

Dispatches(r, point, lent) ==
    /\ stack' = [stack EXCEPT ![r] = Append(@, Frame(r, point, lent))]
    /\ leases' = [leases EXCEPT ![r] = IF lent THEN @ + 1 ELSE @]

Tell(r) ==
    /\ IsAt(r, "tell")
    /\ Dispatches(r, Now(r).point, Lent(r))
    /\ UNCHANGED <<starting, requests, statements, conn, login, clock, history>>

Top(r) == Last(stack[r])
Listening(r) == stack[r] # <<>> /\ running[r] = Nothing
Calls(r, does) == Listening(r) /\ Top(r).agenda # <<>> /\ Head(Top(r).agenda).does = does
Called(r) == Head(Top(r).agenda)

WithAgenda(r, agenda) == [stack EXCEPT ![r] = Append(Front(@), [Last(@) EXCEPT !.agenda = agenda])]
CallReturns(r) == stack' = WithAgenda(r, Tail(Top(r).agenda))

\* All listeners have returned: the lent connection is given back.
Return(r) ==
    /\ Listening(r) /\ Top(r).agenda = <<>>
    /\ stack' = [stack EXCEPT ![r] = Front(@)]
    /\ IF Len(stack[r]) = 1 THEN Proceeds(r) ELSE UNCHANGED <<at, answer>>
    /\ UNCHANGED <<starting, mine, leases, statements, conn, login, clock, history>>

Refuse(r) ==
    /\ Calls(r, "throw")
    /\ Fails(r, "vetoed")

\* A library statement a hook asks a repository for.
RepositoryAnswers(lease, r) == IF lease = 0 THEN PoolAnswers ELSE RunsForTheLibrary(mine[r])
RepositoryFails(lease, r) == lease # 0 /\ ~RunsForTheLibrary(mine[r])

\* revokeSession: the owner is read, the revocation announced on the same
\* connection unless this context is silent, and only then the row deleted.
FindOwner(r) ==
    /\ Calls(r, "revoke") /\ RepositoryAnswers(Top(r).lease, r)
    /\ \E found \in BOOLEAN :
          LET deletes == WithAgenda(r, <<[Called(r) EXCEPT !.does = "delete"]>> \o Tail(Top(r).agenda))
              announced == Frame(r, "beforeSessionRevoke", Top(r).lease # 0)
          IN  IF ~found THEN CallReturns(r) /\ UNCHANGED leases
              ELSE IF Top(r).silent \/ ~Listened THEN stack' = deletes /\ UNCHANGED leases
              ELSE /\ Len(stack[r]) < MaxDepth
                   /\ stack' = [deletes EXCEPT ![r] = Append(@, announced)]
                   /\ leases' = [leases EXCEPT ![r] = IF announced.lease = 0 THEN @ ELSE @ + 1]
    /\ UNCHANGED <<starting, requests, statements, conn, login, clock, history>>

DeleteSession(r) ==
    /\ Calls(r, "delete") /\ RepositoryAnswers(Top(r).lease, r)
    /\ CallReturns(r)
    /\ UNCHANGED <<starting, requests, leases, statements, conn, login, clock, history>>

RevokeFails(r) ==
    /\ Calls(r, "revoke") \/ Calls(r, "delete")
    /\ RepositoryFails(Top(r).lease, r)
    /\ Fails(r, "failed")

(***************************************************************************)
(* Own-table statements                                                    *)
(***************************************************************************)
\* Mutant: without a role nothing is sent around the statement.
InsideBare ==
    [unbound |-> <<"run">>,
     role |-> <<"read", "save", "switch", "run", "restore", "release">>,
     login |-> <<>>]

\* What is sent for one statement on a lent connection.
Inside == [unbound |-> <<"save", "run", "release">>,
           role |-> <<"read", "save", "switch", "run", "restore", "release">>,
           login |-> <<>>]

Stage(task) == Head(task.stages)

\* Mutant: a check is remembered for good.
IsKnown(id) == id # 0

\* A passed check is remembered for Recheck; a statement called later asks anew.
IsRecent(id) == id # 0 /\ time - passes[id].askedAt < Recheck

\* A statement in execution: the stages it has left, and where it runs.
Task(r, fails) ==
    [lease |-> Top(r).lease, on |-> mine[r], held |-> "library", fails |-> fails, ok |-> TRUE,
     write |-> <<r, Top(r).lease, Len(Top(r).agenda)>>, pass |-> 0, calledAt |-> 0,
     stages |-> IF Top(r).lease = 0 THEN <<"pool">> ELSE Inside[mode]]

\* The plugin login is checked before the statement, unless a check of it is
\* remembered, one still running included.
Begun(r, fails) ==
    LET task == Task(r, fails)
        onTheLogin(pass, stages) ==
            [task EXCEPT !.pass = pass, !.calledAt = time, !.stages = stages]
    IN  IF mode # "login" THEN task
        ELSE IF IsRecent(remembered) THEN onTheLogin(remembered, <<"await", "own">>)
        ELSE onTheLogin(Len(passes) + 1, <<"library", "reach", "own">>)

BeginsACheck ==
    IF mode # "login" \/ IsRecent(remembered) THEN UNCHANGED login
    ELSE /\ passes' = Append(passes, [askedAt |-> time, state |-> "asking"])
         /\ remembered' = Len(passes) + 1

\* A listener awaits the statement and goes on whatever became of it, or
\* leaves it running and goes on at once; one refused by the walk sends nothing.
Query(r) ==
    /\ Calls(r, "query") \/ Calls(r, "fail") \/ Calls(r, "leave")
    /\ IF ~PassesTheWalk(Statements[Called(r).statement], Called(r).plugin)
       THEN CallReturns(r) /\ UNCHANGED <<statements, login>>
       ELSE IF Called(r).does = "leave"
       THEN /\ Orderly(r)
            /\ \E fails \in BOOLEAN : left' = [left EXCEPT ![r] = Begun(r, fails)]
            /\ BeginsACheck /\ CallReturns(r) /\ UNCHANGED running
       ELSE /\ running' = [running EXCEPT ![r] = Begun(r, Called(r).does = "fail")]
            /\ BeginsACheck /\ UNCHANGED <<stack, left>>
    /\ UNCHANGED <<starting, requests, leases, conn, clock, history>>

\* The statement is settled for the listener that awaits it, or for nobody.
Settles(r, task, next) ==
    IF next.stages # <<>>
    THEN /\ \/ task = running[r] /\ running' = [running EXCEPT ![r] = next] /\ UNCHANGED left
            \/ task = left[r] /\ left' = [left EXCEPT ![r] = next] /\ UNCHANGED running
         /\ UNCHANGED <<stack, told>>
    ELSE \/ /\ task = running[r] /\ running' = [running EXCEPT ![r] = Nothing]
            /\ CallReturns(r) /\ UNCHANGED left
            /\ told' = IF next.ok /\ task.lease # 0 /\ mode # "login" THEN told \cup {task.write} ELSE told
         \/ /\ task = left[r] /\ left' = [left EXCEPT ![r] = Over]
            /\ UNCHANGED <<stack, running, told>>

Underway(r) == {running[r], left[r]} \ {Nothing, Over}
InExecution(r, stages, Runs(_)) ==
    \E task \in Underway(r) : Stage(task) \in stages /\ Runs(task)

\* Mutant: the connection is never given back.
UsableForever(r, task) == TRUE

\* Every statement on a lent connection is checked when it is sent (E-2586).
Usable(r, task) == \E i \in DOMAIN stack[r] : stack[r][i].lease = task.lease

(***************************************************************************)
(* A statement on a lent connection                                        *)
(***************************************************************************)
FailsThere(task) ==
    LET k == conn[task.on]
    IN  \/ k.aborted /\ Stage(task) # "rollback"
        \/ Stage(task) = "run" /\ task.fails
        \/ Stage(task) \in {"release", "rollback", "discard"} /\ k.saves = <<>>

\* What PostgreSQL makes of it; a role set since the savepoint is undone with it.
Effect(k, task) ==
    CASE Stage(task) = "read" -> k
      [] Stage(task) = "save" ->
            [k EXCEPT !.saves = Append(@, [role |-> k.role, writes |-> k.writes])]
      [] Stage(task) = "switch" -> [k EXCEPT !.role = "plugin"]
      [] Stage(task) = "run" -> [k EXCEPT !.writes = @ \cup {task.write}]
      [] Stage(task) = "restore" -> [k EXCEPT !.role = task.held]
      [] Stage(task) \in {"release", "discard"} -> [k EXCEPT !.saves = Front(@)]
      [] Stage(task) = "rollback" ->
            [k EXCEPT !.aborted = FALSE, !.role = Last(k.saves).role,
                      !.writes = Last(k.saves).writes]

\* After an error past the savepoint the statement is rolled back to it.
NextOf(task, fails) ==
    LET failed == [task EXCEPT !.ok = FALSE]
    IN  IF ~fails
        THEN [task EXCEPT !.stages = Tail(@),
                          !.held = IF Stage(task) = "read" THEN conn[task.on].role ELSE @]
        ELSE IF Stage(task) \in {"switch", "run", "restore", "release"}
        THEN [failed EXCEPT !.stages = <<"rollback", "discard">>]
        ELSE [failed EXCEPT !.stages = <<>>]

Send(r) ==
    /\ InExecution(r, {"read", "save", "switch", "run", "restore", "release", "rollback", "discard"},
         LAMBDA task :
            IF ~Usable(r, task)
            THEN Settles(r, task, NextOf(task, TRUE)) /\ UNCHANGED conn
            ELSE /\ Settles(r, task, NextOf(task, FailsThere(task)))
                 /\ conn' = [conn EXCEPT ![task.on] =
                        IF FailsThere(task) THEN [@ EXCEPT !.aborted = TRUE] ELSE Effect(@, task)])
    /\ UNCHANGED <<starting, requests, leases, login, clock, landed, outcome>>

(***************************************************************************)
(* A statement on the pool, and on the plugin login                        *)
(***************************************************************************)
SendOnThePool(r) ==
    /\ InExecution(r, {"pool"}, LAMBDA task :
            PoolAnswers /\ Settles(r, task, [task EXCEPT !.stages = <<>>, !.ok = ~task.fails]))
    /\ UNCHANGED <<starting, requests, leases, conn, login, clock, landed, outcome>>

Failed(task) == [task EXCEPT !.stages = <<>>, !.ok = FALSE]
Passed(task) == [task EXCEPT !.stages = Tail(@)]

\* A failed check is forgotten where it is still the one remembered.
CheckEnds(task, state) ==
    /\ passes' = [passes EXCEPT ![task.pass].state = state]
    /\ remembered' = IF state = "failed" /\ remembered = task.pass THEN 0 ELSE remembered

\* The library's login is read on the connection of the context.
AskTheLibrary(r) ==
    /\ InExecution(r, {"library"}, LAMBDA task :
            IF task.lease # 0 /\ ~Usable(r, task)
            THEN CheckEnds(task, "failed") /\ Settles(r, task, Failed(task))
            ELSE /\ task.lease = 0 => PoolAnswers
                 /\ Settles(r, task, Passed(task)) /\ UNCHANGED login)
    /\ UNCHANGED <<starting, requests, leases, conn, clock, landed, outcome>>

AskTheReach(r) ==
    /\ InExecution(r, {"reach"}, LAMBDA task :
            IF granted # Nothing
            THEN CheckEnds(task, "failed") /\ Settles(r, task, Failed(task))
            ELSE CheckEnds(task, "passed") /\ Settles(r, task, Passed(task)))
    /\ UNCHANGED <<starting, requests, leases, conn, clock, landed, outcome>>

AwaitTheCheck(r) ==
    /\ InExecution(r, {"await"}, LAMBDA task :
            /\ passes[task.pass].state # "asking"
            /\ Settles(r, task, IF passes[task.pass].state = "passed"
                                THEN Passed(task) ELSE Failed(task)))
    /\ UNCHANGED <<starting, requests, leases, conn, login, clock, landed, outcome>>

RunOnTheLogin(r) ==
    /\ InExecution(r, {"own"}, LAMBDA task :
            Settles(r, task, [task EXCEPT !.stages = <<>>, !.ok = ~task.fails]))
    /\ UNCHANGED <<starting, requests, leases, conn, login, clock, landed, outcome>>

Tick ==
    /\ mode = "login" /\ time < MaxTime /\ refusal = "none"
    /\ time' = time + 1
    /\ UNCHANGED <<starting, requests, dispatches, statements, conn, login, granted, history>>

\* An operator grants the plugin login a core table.
Grant ==
    /\ mode = "login" /\ granted = Nothing /\ refusal = "none"
    /\ granted' = time
    /\ UNCHANGED <<starting, requests, dispatches, statements, conn, login, time, history>>

(***************************************************************************)
(* The specification                                                       *)
(***************************************************************************)
\* Mutant: the runtime reads the plugins again.
KeptReadAgain(id) == PluginOf([i \in DOMAIN declared |-> declared[i].later], id)

\* The runtime keeps the reading the checks have seen.
Kept(id) == PluginOf(OneReading(declared), id)

\* What the listeners of a point will call, one plugin after another.
Agenda(point, order) ==
    FlattenSeq([i \in DOMAIN order |->
        LET calls == Kept(order[i]).hooks[point]
        IN  [j \in DOMAIN calls |->
                [plugin |-> order[i], does |-> calls[j][1], statement |-> calls[j][2]]]])

CreatePluginRuntime ==
    /\ refusal = Nothing
    /\ refusal' = Refusal(declared)
    /\ registered' = IF refusal' = "none" THEN InDependencyOrder(OneReading(declared)) ELSE <<>>
    /\ hooks' = [point \in Points |-> Agenda(point, registered')]
    /\ UNCHANGED <<started, setting, requests, dispatches, statements, conn, login, clock, history>>

Init ==
    /\ started \in DOMAIN Applications
    /\ LET s == Applications[started]
       IN  setting = [mode |-> s.mode, pool |-> s.pool, course |-> s.course]
    /\ refusal = Nothing /\ registered = <<>> /\ hooks = [point \in Points |-> <<>>]
    /\ at = [r \in Request |-> 0] /\ leases = [r \in Request |-> 0]
    /\ answer = [r \in Request |-> Nothing] /\ mine = [r \in Request |-> Nothing]
    /\ stack = [r \in Request |-> <<>>]
    /\ running = [r \in Request |-> Nothing] /\ left = [r \in Request |-> Nothing]
    /\ conn = [c \in Conn |-> Free]
    /\ time = 0 /\ granted = Nothing
    /\ passes = <<>> /\ remembered = 0
    /\ told = {} /\ landed = {} /\ outcome = [r \in Request |-> Nothing]

Serve(r) ==
    \/ Open(r) \/ RunCore(r) \/ CoreFails(r) \/ Close(r) \/ ThrowAway(r)
    \/ Tell(r) \/ Return(r) \/ Refuse(r)
    \/ FindOwner(r) \/ DeleteSession(r) \/ RevokeFails(r) \/ Query(r)
Execute(r) ==
    \/ Send(r) \/ SendOnThePool(r)
    \/ AskTheLibrary(r) \/ AskTheReach(r) \/ AwaitTheCheck(r) \/ RunOnTheLogin(r)

Proceed == (\E r \in Request : Serve(r) \/ Execute(r)) \/ Tick \/ Grant
Next == CreatePluginRuntime \/ Proceed

\* The event loop and the database go on while there is anything to do; every
\* request has finitely many steps, so no finer fairness is needed.
Spec == Init /\ [][Next]_vars /\ WF_vars(Proceed)

(***************************************************************************)
(* Properties                                                              *)
(***************************************************************************)
Roles == {"library", "plugin"}
Writes == Request \X Nat \X Nat
Calling == [plugin : Names, does : {"query", "fail", "leave", "revoke", "delete", "throw"},
            statement : STRING]
Frames == [lease : Nat, silent : BOOLEAN, agenda : Seq(Calling)]
Stages == {"pool", "read", "save", "switch", "run", "restore", "release", "rollback", "discard",
           "library", "reach", "await", "own"}
Answers == {"done", "failed", "vetoed"}
Outcomes == {"committed", "rolledBack", "discarded"}
Tasks == [lease : Nat, on : Conn \cup {Nothing}, held : Roles, fails : BOOLEAN, ok : BOOLEAN,
          write : Writes, pass : Nat, calledAt : Nat, stages : Seq(Stages)]
Connections ==
    [holder : Request \cup {Nothing}, role : Roles, aborted : BOOLEAN, writes : SUBSET Writes,
     saves : Seq([role : Roles, writes : SUBSET Writes])]
Settings == [mode : Modes, pool : SUBSET Conn, course : [Request -> Course]]

ASSUME ApplicationsAssumption ==
    \A key \in DOMAIN Applications :
        LET a == Applications[key]
        IN  /\ a.declared \in Seq([read : Readings, later : Readings])
            /\ [mode |-> a.mode, pool |-> a.pool, course |-> a.course] \in Settings

ASSUME NothingAssumption ==
    /\ Nothing \notin Request \cup Conn \cup Refusals \cup {"none"} \cup Answers \cup Outcomes
    /\ Nothing \notin Nat /\ Nothing \notin Seq(Names)
    /\ {Nothing, Over} \cap Tasks = {} /\ Over # Nothing

TypeOK ==
    /\ started \in DOMAIN Applications /\ setting \in Settings
    /\ refusal \in Refusals \cup {"none", Nothing} /\ registered \in Seq(Names)
    /\ hooks \in [Points -> Seq(Calling)]
    /\ at \in [Request -> Nat] /\ \A r \in Request : at[r] <= Len(StepsOf[course[r]])
    /\ answer \in [Request -> Answers \cup {Nothing}]
    /\ mine \in [Request -> Conn \cup {Nothing}] /\ leases \in [Request -> Nat]
    /\ stack \in [Request -> Seq(Frames)] /\ \A r \in Request : Len(stack[r]) <= MaxDepth
    /\ running \in [Request -> Tasks \cup {Nothing}]
    /\ left \in [Request -> Tasks \cup {Nothing, Over}]
    /\ conn \in [Conn -> Connections]
    /\ time \in 0 .. MaxTime /\ granted \in 0 .. MaxTime \cup {Nothing}
    /\ passes \in Seq([askedAt : Nat, state : {"asking", "passed", "failed"}])
    /\ remembered \in 0 .. Len(passes)
    /\ told \subseteq Writes /\ landed \subseteq Writes
    /\ outcome \in [Request -> Outcomes \cup {Nothing}]

\* What a plugin could name in a statement of its own.
Reaches(id, table) == PassesTheWalk(Statement(table), id)
\* Plugins each of which depends on one of them.
IsCyclic(plugins) ==
    \E ring \in SUBSET IdsOf(plugins) \ {{}} :
        \A id \in ring : ToSet(PluginOf(plugins, id).dependsOn) \cap ring # {}

\* A start that succeeds keeps every declared plugin once and after what it
\* depends on (inDependencyOrder), and nothing has two owners: no table can be
\* reached by two plugins or is the core's, no two routes share a name or a
\* path, and every registered route is one the checks have seen.  A start is
\* refused as a cycle only where there is one.
SoundStart ==
    LET plugins == OneReading(declared)
        tables == (UNION {plugins[i].tables : i \in DOMAIN plugins}) \cup CoreTables
        owned == RoutesOf([i \in DOMAIN registered |-> Kept(registered[i])])
        Before(i) == {registered[j] : j \in 1 .. (i - 1)}
    IN  /\ refusal = "none" =>
              /\ ToSet(registered) = IdsOf(plugins) /\ Len(registered) = Len(plugins)
              /\ \A i \in DOMAIN registered : ToSet(Kept(registered[i]).dependsOn) \subseteq Before(i)
              /\ \A table \in tables, p, q \in ToSet(registered) :
                    Reaches(p, table) /\ Reaches(q, table) => p = q /\ table \notin CoreTables
              /\ \A i, j \in DOMAIN owned :
                    owned[i].route.name = owned[j].route.name
                    \/ owned[i].route.path = owned[j].route.path => i = j
              /\ \A i \in DOMAIN owned : owned[i].route.limited /\ ~owned[i].route.exempt
        /\ refusal = "plugin_dependency_cycle" => IsCyclic(plugins)

StartIsSound == [][refusal' # refusal => SoundStart']_vars

\* Whatever a lent context writes lands with the transaction it was lent from
\* and at no other moment (E-2586), and where no hook left a statement
\* running, exactly the statements the hooks were told had succeeded land.
WritesShareTheirFate ==
    [][\A r \in Request :
          LET Of(writes) == {write \in writes : write[1] = r}
              commits == mine[r] # Nothing /\ mine'[r] = Nothing /\ outcome'[r] = "committed"
          IN  /\ Of(landed') # Of(landed) => commits
              /\ commits /\ Orderly(r) => Of(landed') = Of(told)]_vars

\* A hook that awaits what it calls costs the request nothing: whatever its
\* statements did, caught failures included, the role, the savepoints and the
\* transaction are as they were before the next core statement (E-2584), and
\* the commit commits.
OrderlyHooksCostNothing ==
    \A r \in Request : Orderly(r) =>
        answer[r] # "failed" /\ ~(answer[r] = "done" /\ outcome[r] = "rolledBack")

\* Every request ends, hooks told inside transactions included, however few
\* connections the pool has (E-2584) and whatever a hook revokes (E-641).
HookedRequestsEnd ==
    \A r \in Request : refusal = "none" ~> answer[r] # Nothing

\* A grant to the plugin login is seen without a restart (E-2647): no statement
\* called Recheck or more after it runs on that login.
GrantsAreSeenInTime ==
    granted # Nothing =>
        \A r \in Request : \A task \in Underway(r) :
            mode = "login" /\ Stage(task) = "own" => task.calledAt < granted + Recheck
=============================================================================
