----------------------------- MODULE AppLifecycle -----------------------------
(***************************************************************************)
(* How the end-to-end suite starts and stops the application.  Spec files  *)
(* run one after the other; in each, startApp() spawns a child process     *)
(* that shares one port with all others, and takes it for started once its *)
(* log file says so; stopApp() sends a signal and does not wait.  A        *)
(* session is one call of startApp(), 0 an application that an earlier run *)
(* of the suite left behind.                                               *)
(***************************************************************************)
EXTENDS Naturals, FiniteSets

CONSTANTS N,            \* the number of sessions
          FirstOfFile,  \* the sessions that are the first of their spec file
          Logs, LogOf,  \* the log files, and which one an application writes
          Stubborn,     \* the applications that do not go at a SIGTERM
          MaxPolls      \* bound: how often the log is polled before the timeout

ASSUME SessionsAssumption ==
    /\ N \in Nat \ {0} /\ MaxPolls \in Nat
    /\ 1 \in FirstOfFile /\ FirstOfFile \subseteq 1..N
    /\ LogOf \in [0..N -> Logs]
    /\ Stubborn \subseteq 0..N
    /\ \A i \in 2..N : i \notin FirstOfFile => LogOf[i] = LogOf[i - 1]

VARIABLES session,   \* the current session, or N + 1
          step,      \* how far it is: "between", "clean", "starting" or "testing"
          app,       \* the state of each application
          pending,   \* the signals sent to it and not yet acted on
          killed,    \* ChildProcess.killed: whether a signal was sent from here
          timer,     \* whether the killTimer of its stopApp() is running
          log,       \* whose start each log file tells of
          polls,     \* how often the log was polled in vain
          started,   \* history: what the log said when startApp() returned
          collided   \* history: the applications that found the port taken

vars == <<session, step, app, pending, killed, timer, log, polls, started, collided>>

Apps == 0..N
live(i) == app[i] \in {"booting", "logged", "listening"}
\* A process that got a deadly signal runs no code of its own any more, but may hold
\* its port for a while.
running(i) == live(i) /\ "SIGKILL" \notin pending[i] /\ (pending[i] = {} \/ i \in Stubborn)
dying(i) == live(i) /\ ~ running(i)

send(signal, victims) ==
    [i \in Apps |-> IF i \in victims /\ live(i) THEN pending[i] \cup {signal} ELSE pending[i]]

\* The setup file runs in the worker of each spec file, before its first session.
afterwards(i) == IF i \in FirstOfFile THEN "between" ELSE "clean"
NextSession == session' = session + 1 /\ step' = afterwards(session + 1)

-----------------------------------------------------------------------------
(* Variants with plausible bugs, which no specification uses.               *)

\* Lingering applications are asked to go.
SetupAsks ==
    /\ step = "between" /\ session <= N
    /\ pending' = send("SIGTERM", Apps)
    /\ step' = "clean"
    /\ UNCHANGED <<session, app, killed, timer, log, polls, started, collided>>

\* The log file is touched but not truncated.
StartAppends ==
    /\ step = "clean" /\ session <= N
    /\ app' = [app EXCEPT ![session] = "booting"]
    /\ step' = "starting"
    /\ polls' = 0
    /\ UNCHANGED <<session, pending, killed, timer, log, started, collided>>

\* The timeout is looked at only if the application is still there.
CheckLogForEver ==
    /\ step = "starting"
    /\ IF log[LogOf[session]] # {}
       THEN step' = "testing" /\ UNCHANGED <<polls, pending, killed, session>>
       ELSE IF polls < MaxPolls \/ ~ live(session)
       THEN /\ polls' = IF polls < MaxPolls THEN polls + 1 ELSE polls
            /\ UNCHANGED <<step, pending, killed, session>>
       ELSE UNCHANGED <<step, polls, pending, killed, session>>
    /\ started' = [started EXCEPT ![session] = log[LogOf[session]]]
    /\ UNCHANGED <<app, timer, log, collided>>

-----------------------------------------------------------------------------
Init ==
    /\ session = 1
    /\ step = "between"
    /\ app \in {[i \in Apps |-> IF i = 0 THEN orphan ELSE "absent"] :
                   orphan \in {"absent", "booting", "listening"}}
    /\ pending = [i \in Apps |-> {}]
    /\ killed = [i \in Apps |-> FALSE]
    /\ timer = [i \in Apps |-> FALSE]
    /\ log \in [Logs -> {{}, {0}}]
    /\ polls = 0
    /\ started = [i \in Apps |-> {}]
    /\ collided = {}

\* killLingeringTestApps: whatever runs the test entrypoint gets a SIGKILL.
Setup ==
    /\ step = "between" /\ session <= N
    /\ pending' = send("SIGKILL", Apps)
    /\ step' = "clean"
    /\ UNCHANGED <<session, app, killed, timer, log, polls, started, collided>>

\* startApp truncates the log file, and spawns the application.
Start ==
    /\ step = "clean" /\ session <= N
    /\ log' = [log EXCEPT ![LogOf[session]] = {}]
    /\ app' = [app EXCEPT ![session] = "booting"]
    /\ step' = "starting"
    /\ polls' = 0
    /\ UNCHANGED <<session, pending, killed, timer, started, collided>>

\* Without the built entrypoint it throws before it spawns anything.
StartMissing ==
    /\ step = "clean" /\ session <= N
    /\ log' = [log EXCEPT ![LogOf[session]] = {}]
    /\ NextSession
    /\ UNCHANGED <<app, pending, killed, timer, polls, started, collided>>

\* The catch block: the application is asked to go, and the error thrown.
GiveUp ==
    /\ pending' = send("SIGTERM", {session})
    /\ killed' = [killed EXCEPT ![session] = live(session)]
    /\ NextSession

\* checkLog: ready, too late, or once more in 100 ms.
CheckLog ==
    /\ step = "starting"
    /\ \/ /\ log[LogOf[session]] # {}
          /\ step' = "testing"
          /\ started' = [started EXCEPT ![session] = log[LogOf[session]]]
          /\ UNCHANGED <<session, pending, killed, polls>>
       \/ /\ log[LogOf[session]] = {} /\ polls < MaxPolls
          /\ polls' = polls + 1
          /\ UNCHANGED <<session, step, pending, killed, started>>
       \/ /\ log[LogOf[session]] = {} /\ polls = MaxPolls
          /\ GiveUp
          /\ UNCHANGED <<polls, started>>
    /\ UNCHANGED <<app, timer, log, collided>>

\* The log cannot be read.
CheckLogFails ==
    /\ step = "starting"
    /\ GiveUp
    /\ UNCHANGED <<app, timer, log, polls, started, collided>>

\* The exit listener wins the race: the poll is aborted.
EarlyExit ==
    /\ step = "starting" /\ app[session] = "gone"
    /\ GiveUp
    /\ UNCHANGED <<app, timer, log, polls, started, collided>>

\* stopApp, when the tests of the session are over.
Stop ==
    /\ step = "testing"
    /\ IF killed[session]
       THEN UNCHANGED <<pending, killed, timer>>
       ELSE /\ pending' = send("SIGTERM", {session})
            /\ killed' = [killed EXCEPT ![session] = live(session)]
            /\ timer' = [timer EXCEPT ![session] = TRUE]
    /\ NextSession
    /\ UNCHANGED <<app, log, polls, started, collided>>

\* The killTimer fires: the SIGKILL is sent only if no signal was sent before.
ForceKill(i) ==
    /\ timer[i]
    /\ timer' = [timer EXCEPT ![i] = FALSE]
    /\ IF killed[i]
       THEN UNCHANGED <<pending, killed>>
       ELSE /\ pending' = send("SIGKILL", {i})
            /\ killed' = [killed EXCEPT ![i] = live(i)]
    /\ UNCHANGED <<session, step, app, log, polls, started, collided>>

-----------------------------------------------------------------------------
(* The applications.                                                        *)

\* Nest is initialised and says so; it listens afterwards.
Log(i) ==
    /\ running(i) /\ app[i] = "booting"
    /\ app' = [app EXCEPT ![i] = "logged"]
    /\ log' = [log EXCEPT ![LogOf[i]] = @ \cup {i}]
    /\ UNCHANGED <<session, step, pending, killed, timer, polls, started, collided>>

\* app.listen: bootstrap rejects if the port is taken, and testing-main exits.  A
\* process boots for so long that what was killed before is gone by now.
Listen(i) ==
    /\ running(i) /\ app[i] = "logged"
    /\ ~ \E j \in Apps : dying(j)
    /\ IF \E j \in Apps : app[j] = "listening"
       THEN app' = [app EXCEPT ![i] = "gone"] /\ collided' = collided \cup {i}
       ELSE app' = [app EXCEPT ![i] = "listening"] /\ UNCHANGED collided
    /\ UNCHANGED <<session, step, pending, killed, timer, log, polls, started>>

\* An application dies of a signal or by itself, and its exit clears its killTimer.
Die(i) ==
    /\ live(i)
    /\ app' = [app EXCEPT ![i] = "gone"]
    /\ timer' = [timer EXCEPT ![i] = FALSE]
    /\ UNCHANGED <<session, step, pending, killed, log, polls, started, collided>>

Next ==
    \/ Setup \/ Start \/ StartMissing \/ CheckLog \/ CheckLogFails \/ EarlyExit \/ Stop
    \/ \E i \in Apps : ForceKill(i) \/ Log(i) \/ Listen(i) \/ Die(i)

Spec == Init /\ [][Next]_vars

\* The suite goes on, its tests end, and its timers fire; of the applications nothing
\* is asked.
Fairness == WF_vars(Setup) /\ WF_vars(Start) /\ WF_vars(CheckLog) /\ WF_vars(Stop)

FairSpec == Spec /\ Fairness

-----------------------------------------------------------------------------
sameFile(i, j) == \A k \in FirstOfFile : k <= i <=> k <= j

\* Nothing kills a stubborn application before the setup of the next spec file, for the
\* SIGKILL of stopApp() is not sent after its SIGTERM.  Until then the sessions that
\* follow it in its own file share log and port with it.
disturbs(j, i) == j < i /\ j \in Stubborn /\ sameFile(j, i)
disturbed(i) == \E j \in 1..N : disturbs(j, i)

\* A session is taken for started because its own application said so, and not one of
\* an earlier session, of an earlier spec file or of an earlier run of the suite.
StartedIsOwnApp ==
    \A i \in 1..N : started[i] # {} /\ ~ disturbed(i) => i \in started[i]

\* Every application finds the port free, whatever became of those before it, unless
\* one of its file disturbs it, or it disturbs one itself, being late.
PortIsFree ==
    \A i \in collided : i # 0 => \E j \in 1..N : disturbs(j, i) \/ disturbs(i, j)

\* The suite comes to its end, whatever the applications do, so every start settles.
SuiteEnds == <>(session = N + 1)
===============================================================================
