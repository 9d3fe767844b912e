--------------------------- MODULE ServerLifecycle --------------------------
(***************************************************************************)
(* The life of the process: src/server.ts, src/app.ts and src/infra/db.ts. *)
(*                                                                         *)
(* What runs is a job: the handler of the request on a connection, or the  *)
(* start of the database (Startup).  A job is "js" between two statements  *)
(* and "sql" while it holds a pooled connection for one; a transaction     *)
(* keeps its connection and counts as one statement.                       *)
(*                                                                         *)
(* Two libraries matter.  Node: server.close() stops accepting, and its    *)
(* callback runs when no connection is open; until then an open one may    *)
(* bring further requests.  Sequelize: close() first makes every later     *)
(* statement throw, then waits for those under way.                        *)
(***************************************************************************)
EXTENDS Integers

CONSTANTS
    Conns,                      \* the connections the server has at a time
    Startup,                    \* the job of initializeDBConnection
    MaxStatements,              \* bound on the statements of a job
    APP_FORCE_SHUTDOWN_SECOND,  \* config.ts:78
    Second,                     \* units of setTimeout in a second: 1000 in Node
    MaxTime                     \* bound on the clock, for model checking

ASSUME ServerAssumption ==
    /\ Startup \notin Conns
    /\ MaxStatements \in Nat \ {0}
    /\ APP_FORCE_SHUTDOWN_SECOND \in Nat
    /\ Second \in Nat \ {0}
    /\ MaxTime \in Nat

VARIABLES
    clock,      \* in the units of setTimeout
    job,        \* what each job does and how many statements it has left
    open,       \* the connections that are open
    mounted,    \* have the routes been mounted?
    listening,  \* does the server accept connections?
    draining,   \* has the pool of database connections been closed?
    timers,     \* when the armed timers end
    exit        \* how the process has ended

vars == <<clock, job, open, mounted, listening, draining, timers, exit>>

Jobs == Conns \cup {Startup}

JobState == [pc : {"none", "js", "sql"}, left : 0..MaxStatements]

NoJob == [pc |-> "none", left |-> 0]

Running(j) == job[j].pc # "none"

\* Mutant: initializeDBConnection() is not awaited.
Init_unawaited ==
    /\ clock = 0
    /\ \E n \in 1..MaxStatements :
          job = [j \in Jobs |-> IF j = Startup THEN [pc |-> "js", left |-> n] ELSE NoJob]
    /\ open = {}
    /\ mounted = TRUE
    /\ listening = TRUE
    /\ draining = FALSE
    /\ timers = {}
    /\ exit = "no"

\* app.ts starts the database when it is imported; server.ts then listens.
Init ==
    /\ clock = 0
    /\ \E n \in 1..MaxStatements :
          job = [j \in Jobs |-> IF j = Startup THEN [pc |-> "js", left |-> n] ELSE NoJob]
    /\ open = {}
    /\ mounted = FALSE
    /\ listening = TRUE
    /\ draining = FALSE
    /\ timers = {}
    /\ exit = "no"

-----------------------------------------------------------------------------
connect(c) ==
    /\ listening
    /\ c \notin open
    /\ ~ Running(c)
    /\ open' = open \cup {c}
    /\ UNCHANGED <<clock, job, mounted, listening, draining, timers, exit>>

\* A request before the routes are mounted, or one that needs no statement, is
\* answered at once and leaves no trace.
request(c) ==
    /\ mounted
    /\ c \in open
    /\ ~ Running(c)
    /\ \E n \in 1..MaxStatements : job' = [job EXCEPT ![c] = [pc |-> "js", left |-> n]]
    /\ UNCHANGED <<clock, open, mounted, listening, draining, timers, exit>>

\* The client leaves, or Node ends an idle connection.  Nothing tells the handler.
disconnect(c) ==
    /\ open' = open \ {c}
    /\ open' # open
    /\ UNCHANGED <<clock, job, mounted, listening, draining, timers, exit>>

acquire(j) ==
    /\ job[j].pc = "js"
    /\ ~ draining
    /\ job' = [job EXCEPT ![j].pc = "sql"]
    /\ UNCHANGED <<clock, open, mounted, listening, draining, timers, exit>>

\* After the last statement the handler answers, or the routes are mounted.
answer(j) ==
    /\ job[j].pc = "sql"
    /\ job' = [job EXCEPT ![j] =
                  IF @.left = 1 THEN NoJob ELSE [pc |-> "js", left |-> @.left - 1]]
    /\ mounted' = (mounted \/ (j = Startup /\ job[j].left = 1))
    /\ UNCHANGED <<clock, open, listening, draining, timers, exit>>

\* Mutant: process.exit(1) is left out.
reject_andListen(j) ==
    /\ Running(j)
    /\ job' = [job EXCEPT ![j] = NoJob]
    /\ UNCHANGED <<clock, open, mounted, listening, draining, timers, exit>>

\* MySQL refuses a statement, or the pool does, because it is closed or has no
\* connection free in time: a request is answered with an error, the start of the
\* database ends the process.
reject(j) ==
    /\ Running(j)
    /\ job' = [job EXCEPT ![j] = NoJob]
    /\ exit' = IF j = Startup THEN "startup failed" ELSE exit
    /\ UNCHANGED <<clock, open, mounted, listening, draining, timers>>

\* Mutant: no timer is armed.
gracefulShutdown_patient ==
    /\ clock + APP_FORCE_SHUTDOWN_SECOND <= MaxTime
    /\ listening' = FALSE
    /\ UNCHANGED <<clock, job, open, mounted, draining, timers, exit>>

\* Mutant: the seconds are multiplied by 1000 twice.
gracefulShutdown_converted ==
    /\ clock + APP_FORCE_SHUTDOWN_SECOND <= MaxTime
    /\ listening' = FALSE
    /\ timers' = timers \cup {clock + 1000 * 1000 * APP_FORCE_SHUTDOWN_SECOND}
    /\ UNCHANGED <<clock, job, open, mounted, draining, exit>>

\* SIGTERM or SIGINT, which may come again.  The guard keeps the end of the timer
\* within the bound on the clock.
gracefulShutdown ==
    /\ clock + APP_FORCE_SHUTDOWN_SECOND <= MaxTime
    /\ listening' = FALSE
    /\ timers' = timers \cup {clock + APP_FORCE_SHUTDOWN_SECOND}
    /\ UNCHANGED <<clock, job, open, mounted, draining, exit>>

\* Mutant: the database is closed beside server.close(), not in its callback.
closed_atOnce ==
    /\ ~ listening
    /\ ~ draining
    /\ draining' = TRUE
    /\ UNCHANGED <<clock, job, open, mounted, listening, timers, exit>>

\* The callback of server.close() calls newSequelize().close().
closed ==
    /\ ~ listening
    /\ open = {}
    /\ ~ draining
    /\ draining' = TRUE
    /\ UNCHANGED <<clock, job, open, mounted, listening, timers, exit>>

\* The pool has drained: process.exit().
exitGracefully ==
    /\ draining
    /\ \A j \in Jobs : job[j].pc # "sql"
    /\ exit' = "graceful"
    /\ UNCHANGED <<clock, job, open, mounted, listening, draining, timers>>

forceExit ==
    /\ \E end \in timers : end <= clock
    /\ exit' = "forced"
    /\ UNCHANGED <<clock, job, open, mounted, listening, draining, timers>>

Tick ==
    /\ clock < MaxTime
    /\ clock' = clock + 1
    /\ UNCHANGED <<job, open, mounted, listening, draining, timers, exit>>

Statement(j) == acquire(j) \/ answer(j) \/ reject(j)

Next ==
    /\ exit = "no"
    /\ \/ \E c \in Conns : connect(c) \/ request(c) \/ disconnect(c)
       \/ \E j \in Jobs : Statement(j)
       \/ gracefulShutdown
       \/ closed
       \/ exitGracefully
       \/ forceExit
       \/ Tick

Spec == Init /\ [][Next]_vars

\* Time passes, a timer that has ended fires, and MySQL answers the start or the
\* call times out.  No handler has to end and no client has to leave.
Fairness ==
    /\ WF_vars(exit = "no" /\ Tick)
    /\ WF_vars(exit = "no" /\ forceExit)
    /\ WF_vars(exit = "no" /\ Statement(Startup))

FairSpec == Spec /\ Fairness

-----------------------------------------------------------------------------
\* The state is well formed; a job without statements left does not run.
TypeOK ==
    /\ clock \in 0..MaxTime
    /\ job \in [Jobs -> JobState]
    /\ \A j \in Jobs : Running(j) <=> job[j].left > 0
    /\ open \subseteq Conns
    /\ mounted \in BOOLEAN /\ listening \in BOOLEAN /\ draining \in BOOLEAN
    /\ timers \subseteq 0..MaxTime
    /\ exit \in {"no", "graceful", "forced", "startup failed"}

Waiting == {c \in open : Running(c)}

\* server.ts:11-17, infra/db.ts:19.  Only a forced exit leaves a client waiting.  From
\* the closing of the pool on nobody waits: a handler that fails on it, or is cut off
\* between two statements, has lost its client before, and may leave its work half done.
OnlyForceCutsOff ==
    draining \/ exit \in {"graceful", "startup failed"} => Waiting = {}

\* app.ts:23-48.  The server listens while sync({ alter: true }) changes the
\* tables, yet no handler touches them before it is done.
NoHandlerBeforeSchema ==
    \A c \in Conns : Running(c) => ~ Running(Startup)

\* server.ts:23-26.  Once asked to, the process ends, even with a handler that hangs
\* or a client that stays for ever.
ShutdownEnds == ~ listening ~> exit # "no"

\* infra/db.ts:13-20.  The process does not listen for ever without its routes.
RoutesOrExit == <>(mounted \/ exit # "no")

\* config.ts:46, server.ts:24.  Clients still waiting are cut off
\* APP_FORCE_SHUTDOWN_SECOND seconds after a signal, no sooner: "Could not close
\* connections in time".
ForcedExitWaits ==
    exit = "forced" /\ Waiting # {} =>
        \E end \in timers :
            (end - APP_FORCE_SHUTDOWN_SECOND) + APP_FORCE_SHUTDOWN_SECOND * Second <= clock
=============================================================================
