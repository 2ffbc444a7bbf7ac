--------------------------- MODULE AppLifecycleProofs ---------------------------
(* The safety of AppLifecycle for any number of sessions and spec files, any  *)
(* log files and any stubborn applications.  At its heart: an application of  *)
(* an earlier session that still runs code is a stubborn one of the spec file *)
(* of the current session (Survivors); all others have a deadly signal.       *)
EXTENDS Integers, AppLifecycle, TLAPS

AppsInv ==
    /\ session \in 1..(N + 1)
    /\ step \in {"between", "clean", "starting", "testing"}
    /\ app \in [Apps -> {"absent", "booting", "logged", "listening", "gone"}]
    /\ pending \in [Apps -> SUBSET {"SIGTERM", "SIGKILL"}]
    /\ killed \in [Apps -> BOOLEAN]
    /\ log \in [Logs -> SUBSET Apps]
    /\ started \in [Apps -> SUBSET Apps]
    /\ collided \in SUBSET Apps

\* Only a session of the suite starts and tests.
Busy == step \in {"starting", "testing"} => session \in 1..N

\* A session that is still to come has no application.
Future == \A i \in Apps : i > session \/ (i = session /\ step \in {"between", "clean"}) =>
             app[i] = "absent"

\* An application that is killed has been there, and while it is live a signal is under way.
Killed == \A i \in Apps : killed[i] => app[i] # "absent" /\ (live(i) => pending[i] # {})

\* What runs of an earlier session: at the very beginning the leftover, later only
\* stubborn applications of the spec file that is not over.
Survivors ==
    \A j \in Apps : j < session /\ running(j) =>
        \/ session = 1 /\ step = "between"
        \/ /\ j \in Stubborn
           /\ \A k \in FirstOfFile :
                 j < k => k > session \/ (k = session /\ step = "between")

\* The log of an undisturbed session tells of nobody else.
OwnLog ==
    step = "starting" /\ ~ disturbed(session) => log[LogOf[session]] \subseteq {session}

LifecycleInv ==
    /\ AppsInv /\ Busy /\ Future /\ Killed /\ Survivors /\ OwnLog
    /\ StartedIsOwnApp /\ PortIsFree

-----------------------------------------------------------------------------
USE SessionsAssumption DEF Apps

\* Of two applications that run, the earlier one disturbs the later one.
LEMMA SurvivorDisturbs ==
    ASSUME AppsInv, Future, Survivors, NEW i \in Apps, NEW j \in Apps, j < i,
           running(i), running(j), i <= session,
           ~ (session = 1 /\ step = "between")
    PROVE  disturbs(j, i) /\ j # 0 /\ i \in 1..N /\ j \in 1..N
<1>1. j < session
  BY DEF AppsInv
<1>2. j \in Stubborn
  BY <1>1 DEF Survivors
<1>3. ~ (i = session /\ step = "between")
  BY DEF Future, running, live
<1>4. \A k \in FirstOfFile : ~ (j < k /\ k <= i)
  <2> SUFFICES ASSUME NEW k \in FirstOfFile, j < k, k <= i PROVE FALSE
    OBVIOUS
  <2>1. k > session \/ (k = session /\ step = "between")
    BY <1>1 DEF Survivors
  <2> QED BY <2>1, <1>3 DEF AppsInv
<1>5. sameFile(j, i)
  BY <1>4 DEF sameFile
<1>6. j # 0
  BY <1>4
<1> QED BY <1>2, <1>5, <1>6 DEF disturbs

LEMMA InitEstablishes == Init => LifecycleInv
<1> SUFFICES ASSUME Init PROVE LifecycleInv
  OBVIOUS
<1>1. AppsInv
  <2>1. app \in [Apps -> {"absent", "booting", "logged", "listening", "gone"}]
    BY DEF Init
  <2> QED BY <2>1 DEF Init, AppsInv
<1>2. Future
  BY DEF Init, Future
<1>3. Killed
  BY DEF Init, Killed
<1>4. Survivors
  BY DEF Init, Survivors
<1> QED BY <1>1, <1>2, <1>3, <1>4 DEF Init, LifecycleInv, Busy, OwnLog, StartedIsOwnApp, PortIsFree

\* A signal reaches the live ones, and what has one keeps it.
LEMMA SendType ==
    ASSUME AppsInv, NEW s \in {"SIGTERM", "SIGKILL"}, NEW V \in SUBSET Apps
    PROVE  /\ send(s, V) \in [Apps -> SUBSET {"SIGTERM", "SIGKILL"}]
           /\ \A i \in Apps : pending[i] \subseteq send(s, V)[i]
           /\ \A i \in V : live(i) => s \in send(s, V)[i]
BY DEF send, AppsInv

\* What a step that only sends signals preserves.
LEMMA SignalsPreserve ==
    ASSUME LifecycleInv, UNCHANGED app,
           NEW s \in {"SIGTERM", "SIGKILL"}, NEW V \in SUBSET Apps, pending' = send(s, V)
    PROVE  /\ pending' \in [Apps -> SUBSET {"SIGTERM", "SIGKILL"}]
           /\ \A i \in Apps : live(i)' <=> live(i)
           /\ \A i \in Apps : running(i)' => running(i)
           /\ \A i \in Apps : pending[i] # {} => pending'[i] # {}
           /\ \A i \in V : live(i) => s \in pending'[i]
<1>1. AppsInv
  BY DEF LifecycleInv
<1>2. /\ pending' \in [Apps -> SUBSET {"SIGTERM", "SIGKILL"}]
      /\ \A i \in Apps : pending[i] \subseteq pending'[i]
      /\ \A i \in V : live(i) => s \in pending'[i]
  BY <1>1, SendType
<1>3. \A i \in Apps : live(i)' <=> live(i)
  BY DEF live
<1>4. \A i \in Apps : running(i)' => running(i)
  BY <1>2, <1>3 DEF running
<1> QED BY <1>2, <1>3, <1>4

-----------------------------------------------------------------------------
LEMMA SetupPreserves == ASSUME LifecycleInv, Setup PROVE LifecycleInv'
<1> USE DEF Setup
<1>1. /\ pending' \in [Apps -> SUBSET {"SIGTERM", "SIGKILL"}]
      /\ \A i \in Apps : live(i)' <=> live(i)
      /\ \A i \in Apps : live(i) => "SIGKILL" \in pending'[i]
  <2> DEFINE V == Apps
  <2>1. pending' = send("SIGKILL", V) /\ V \in SUBSET Apps /\ Apps \subseteq V
    OBVIOUS
  <2> HIDE DEF V
  <2> QED BY <2>1, SignalsPreserve
<1>2. \A i \in Apps : ~ running(i)'
  BY <1>1 DEF running
<1>3. AppsInv'
  BY <1>1 DEF LifecycleInv, AppsInv
<1>4. Future'
  BY DEF LifecycleInv, Future
<1>5. Killed'
  BY <1>1 DEF LifecycleInv, Killed
<1>6. Survivors'
  BY <1>2 DEF Survivors
<1> QED BY <1>3, <1>4, <1>5, <1>6 DEF LifecycleInv, Busy, OwnLog, StartedIsOwnApp, PortIsFree

LEMMA StartPreserves == ASSUME LifecycleInv, Start PROVE LifecycleInv'
<1> USE DEF Start
<1>1. AppsInv'
  BY DEF LifecycleInv, AppsInv
<1>2. Future'
  BY DEF LifecycleInv, AppsInv, Future
<1>3. app[session] = "absent" /\ \A i \in Apps \ {session} : app'[i] = app[i]
  BY DEF LifecycleInv, AppsInv, Future
<1>4. Killed'
  BY <1>3 DEF LifecycleInv, AppsInv, Killed, live
<1>5. Survivors'
  BY <1>3 DEF LifecycleInv, AppsInv, Survivors, running, live
<1>6. OwnLog'
  BY DEF LifecycleInv, AppsInv, OwnLog
<1>7. Busy'
  BY DEF LifecycleInv, AppsInv, Busy
<1> QED BY <1>1, <1>2, <1>4, <1>5, <1>6, <1>7 DEF LifecycleInv, StartedIsOwnApp, PortIsFree

\* A session that is over leaves an application that is dead, dying or stubborn.
LEMMA NextSessionKeeps ==
    ASSUME LifecycleInv, NextSession, NEW c \in Apps, c = session, c <= N, step # "between",
           UNCHANGED <<app, started, collided>>,
           \A i \in Apps : running(i)' => running(i),
           running(c)' => c \in Stubborn
    PROVE  Future' /\ Survivors' /\ OwnLog' /\ StartedIsOwnApp' /\ PortIsFree'
<1>1. /\ session' = c + 1 /\ step' \in {"between", "clean"}
      /\ step' = "between" <=> c + 1 \in FirstOfFile
      /\ c \in Nat /\ N \in Nat
  BY DEF NextSession, afterwards
<1>2. Future'
  BY <1>1 DEF LifecycleInv, AppsInv, Future
<1>3. Survivors'
  <2> SUFFICES ASSUME NEW j \in Apps, j < session', running(j)'
               PROVE  /\ j \in Stubborn
                      /\ \A k \in FirstOfFile :
                            j < k => k > session' \/ (k = session' /\ step' = "between")
    BY DEF Survivors
  <2>1. \A k \in FirstOfFile : k > c => k > session' \/ (k = session' /\ step' = "between")
    <3> SUFFICES ASSUME NEW k \in FirstOfFile, k > c, ~ (k > session')
                 PROVE  k = session' /\ step' = "between"
      OBVIOUS
    <3>1. k \in Nat /\ k = c + 1
      BY <1>1
    <3> QED BY <1>1, <3>1
  <2>2. CASE j = c
    BY <2>1, <2>2
  <2>3. CASE j < c
    <3>1. running(j) /\ j < session
      BY <2>3
    <3>2. j \in Stubborn /\ \A k \in FirstOfFile : j < k => k > c
      BY <3>1 DEF LifecycleInv, Survivors
    <3> QED BY <3>2, <2>1
  <2> QED BY <2>2, <2>3, <1>1
<1>4. OwnLog'
  BY <1>1 DEF OwnLog
<1> QED BY <1>2, <1>3, <1>4 DEF LifecycleInv, StartedIsOwnApp, PortIsFree

LEMMA StartMissingPreserves == ASSUME LifecycleInv, StartMissing PROVE LifecycleInv'
<1> USE DEF StartMissing
<1>1. PICK c \in Apps : c = session /\ c <= N
  BY DEF LifecycleInv, AppsInv
<1>2. log' \in [Logs -> SUBSET Apps]
  BY DEF LifecycleInv, AppsInv
<1>3. AppsInv'
  BY <1>1, <1>2 DEF LifecycleInv, AppsInv, NextSession, afterwards
<1>4. app[c] = "absent"
  BY <1>1 DEF LifecycleInv, AppsInv, Future
<1>5. Killed'
  BY DEF LifecycleInv, Killed, live
<1>6. \A i \in Apps : running(i)' => running(i)
  BY DEF running, live
<1>7. ~ running(c)'
  BY <1>4, <1>6 DEF running, live
<1>8. NextSession /\ step # "between" /\ UNCHANGED <<app, started, collided>>
  OBVIOUS
<1>9. Busy'
  BY DEF NextSession, afterwards, Busy
<1> HIDE DEF StartMissing
<1> QED BY <1>1, <1>3, <1>5, <1>6, <1>7, <1>8, <1>9, NextSessionKeeps DEF LifecycleInv

\* What is asked to go and does not is stubborn.
LEMMA AskedToGo ==
    ASSUME LifecycleInv, UNCHANGED app, NEW c \in Apps, pending' = send("SIGTERM", {c}),
           killed' = [killed EXCEPT ![c] = live(c)]
    PROVE  /\ pending' \in [Apps -> SUBSET {"SIGTERM", "SIGKILL"}]
           /\ killed' \in [Apps -> BOOLEAN]
           /\ Killed'
           /\ \A i \in Apps : running(i)' => running(i)
           /\ running(c)' => c \in Stubborn
<1>1. /\ pending' \in [Apps -> SUBSET {"SIGTERM", "SIGKILL"}]
      /\ \A i \in Apps : live(i)' <=> live(i)
      /\ \A i \in Apps : running(i)' => running(i)
      /\ \A i \in Apps : pending[i] # {} => pending'[i] # {}
      /\ live(c) => "SIGTERM" \in pending'[c]
  <2> DEFINE V == {c}
  <2>1. pending' = send("SIGTERM", V) /\ V \in SUBSET Apps /\ c \in V
    OBVIOUS
  <2> HIDE DEF V
  <2> QED BY <2>1, SignalsPreserve
<1>2. killed' \in [Apps -> BOOLEAN]
  BY DEF LifecycleInv, AppsInv, live
<1>3. \A i \in Apps \ {c} : killed'[i] = killed[i]
  BY DEF LifecycleInv, AppsInv
<1>4. Killed'
  <2> SUFFICES ASSUME NEW i \in Apps, killed'[i]
               PROVE  app'[i] # "absent" /\ (live(i)' => pending'[i] # {})
    BY DEF Killed
  <2>1. CASE i = c
    <3>1. live(c)
      BY <2>1 DEF LifecycleInv, AppsInv
    <3> QED BY <1>1, <2>1, <3>1 DEF live
  <2>2. CASE i # c
    BY <1>1, <1>3, <2>2 DEF LifecycleInv, Killed
  <2> QED BY <2>1, <2>2
<1>5. running(c)' => c \in Stubborn
  BY <1>1 DEF running
<1> QED BY <1>1, <1>2, <1>4, <1>5

LEMMA GiveUpPreserves ==
    ASSUME LifecycleInv, step = "starting", GiveUp, UNCHANGED <<app, log, started, collided>>
    PROVE  LifecycleInv'
<1>1. PICK c \in Apps : c = session /\ c <= N
  BY DEF LifecycleInv, Busy
<1>2. pending' = send("SIGTERM", {c}) /\ killed' = [killed EXCEPT ![c] = live(c)]
  BY <1>1 DEF GiveUp
<1>3. /\ pending' \in [Apps -> SUBSET {"SIGTERM", "SIGKILL"}]
      /\ killed' \in [Apps -> BOOLEAN]
      /\ Killed'
      /\ \A i \in Apps : running(i)' => running(i)
      /\ running(c)' => c \in Stubborn
  BY <1>2, AskedToGo
<1>4. AppsInv'
  <2>1. session' \in 1..(N + 1) /\ step' \in {"between", "clean", "starting", "testing"}
    BY <1>1 DEF GiveUp, NextSession, afterwards
  <2> QED BY <1>3, <2>1 DEF LifecycleInv, AppsInv
<1>5. Busy'
  BY DEF GiveUp, NextSession, afterwards, Busy
<1> QED BY <1>1, <1>3, <1>4, <1>5, NextSessionKeeps DEF GiveUp, LifecycleInv

LEMMA CheckLogPreserves == ASSUME LifecycleInv, CheckLog PROVE LifecycleInv'
<1> USE DEF CheckLog
<1>1. CASE log[LogOf[session]] # {} /\ step' = "testing"
  <2>1. PICK c \in 1..N : c = session
    BY DEF LifecycleInv, Busy
  <2>2. /\ started' = [started EXCEPT ![c] = log[LogOf[c]]]
        /\ UNCHANGED <<session, pending, killed, polls, app, timer, log, collided>>
    BY <1>1, <2>1 DEF LifecycleInv
  <2>3. log[LogOf[c]] \in SUBSET Apps
    BY DEF LifecycleInv, AppsInv
  <2>4. AppsInv'
    BY <1>1, <2>1, <2>2, <2>3 DEF LifecycleInv, AppsInv
  <2>5. Busy' /\ Future' /\ Killed' /\ Survivors'
    BY <1>1, <2>1, <2>2 DEF LifecycleInv, Busy, Future, Killed, Survivors, running, live
  <2>6. OwnLog' /\ PortIsFree'
    BY <1>1, <2>2 DEF LifecycleInv, OwnLog, PortIsFree
  <2>7. StartedIsOwnApp'
    <3> SUFFICES ASSUME NEW i \in 1..N, started'[i] # {}, ~ disturbed(i)
                 PROVE  i \in started'[i]
      BY DEF StartedIsOwnApp
    <3>1. CASE i = c
      BY <1>1, <2>1, <2>2, <3>1 DEF LifecycleInv, AppsInv, OwnLog
    <3>2. CASE i # c
      BY <2>2, <3>2 DEF LifecycleInv, AppsInv, StartedIsOwnApp
    <3> QED BY <3>1, <3>2
  <2> QED BY <2>4, <2>5, <2>6, <2>7 DEF LifecycleInv
<1>2. CASE polls' = polls + 1 /\ UNCHANGED <<session, step, pending, killed, started>>
  BY <1>2 DEF LifecycleInv, AppsInv, Busy, Future, Killed, Survivors, OwnLog, StartedIsOwnApp,
     PortIsFree, running, live
<1>3. CASE GiveUp /\ UNCHANGED started
  BY <1>3, GiveUpPreserves
<1> QED BY <1>1, <1>2, <1>3

LEMMA StopPreserves == ASSUME LifecycleInv, Stop PROVE LifecycleInv'
<1> USE DEF Stop
<1>1. PICK c \in Apps : c = session /\ c <= N
  BY DEF LifecycleInv, Busy
<1>2. /\ pending' \in [Apps -> SUBSET {"SIGTERM", "SIGKILL"}]
      /\ killed' \in [Apps -> BOOLEAN]
      /\ Killed'
      /\ \A i \in Apps : running(i)' => running(i)
      /\ running(c)' => c \in Stubborn
  <2>1. CASE killed[session]
    <3>1. UNCHANGED <<pending, killed, app>>
      BY <2>1
    <3>2. live(c) => pending[c] # {}
      BY <1>1, <2>1 DEF LifecycleInv, Killed
    <3> QED BY <3>1, <3>2 DEF LifecycleInv, AppsInv, Killed, running, live
  <2>2. CASE ~ killed[session]
    <3>1. pending' = send("SIGTERM", {c}) /\ killed' = [killed EXCEPT ![c] = live(c)]
      BY <1>1, <2>2
    <3> QED BY <3>1, AskedToGo
  <2> QED BY <2>1, <2>2
<1>3. AppsInv'
  BY <1>1, <1>2 DEF LifecycleInv, AppsInv, NextSession, afterwards
<1>4. Busy'
  BY DEF NextSession, afterwards, Busy
<1> QED BY <1>1, <1>2, <1>3, <1>4, NextSessionKeeps DEF LifecycleInv

-----------------------------------------------------------------------------
\* What leaves the suite alone and only takes from what runs.
LEMMA QuietStep ==
    ASSUME LifecycleInv, UNCHANGED <<session, step, log, started, collided>>,
           AppsInv', Future', Killed', \A i \in Apps : running(i)' => running(i)
    PROVE  LifecycleInv'
<1>1. Survivors'
  BY DEF LifecycleInv, Survivors
<1> QED BY <1>1 DEF LifecycleInv, Busy, OwnLog, StartedIsOwnApp, PortIsFree

LEMMA ForceKillPreserves ==
    ASSUME LifecycleInv, NEW i \in Apps, ForceKill(i) PROVE LifecycleInv'
<1> USE DEF ForceKill
<1>1. CASE killed[i]
  BY <1>1, QuietStep DEF LifecycleInv, AppsInv, Future, Killed, running, live
<1>2. CASE ~ killed[i]
  <2> DEFINE V == {i}
  <2>1. pending' = send("SIGKILL", V) /\ V \in SUBSET Apps /\ i \in V
    BY <1>2
  <2> HIDE DEF V
  <2>2. /\ pending' \in [Apps -> SUBSET {"SIGTERM", "SIGKILL"}]
        /\ \A j \in Apps : live(j)' <=> live(j)
        /\ \A j \in Apps : running(j)' => running(j)
        /\ \A j \in Apps : pending[j] # {} => pending'[j] # {}
        /\ live(i) => "SIGKILL" \in pending'[i]
    BY <2>1, SignalsPreserve
  <2>3. killed' = [killed EXCEPT ![i] = live(i)]
    BY <1>2
  <2>4. AppsInv'
    BY <2>2, <2>3 DEF LifecycleInv, AppsInv, live
  <2>5. \A j \in Apps \ {i} : killed'[j] = killed[j]
    BY <2>3 DEF LifecycleInv, AppsInv
  <2>6. Killed'
    <3> SUFFICES ASSUME NEW j \in Apps, killed'[j]
                 PROVE  app'[j] # "absent" /\ (live(j)' => pending'[j] # {})
      BY DEF Killed
    <3>1. CASE j = i
      <4>1. live(i)
        BY <2>3, <3>1 DEF LifecycleInv, AppsInv
      <4> QED BY <2>2, <3>1, <4>1 DEF live
    <3>2. CASE j # i
      BY <2>2, <2>5, <3>2 DEF LifecycleInv, Killed
    <3> QED BY <3>1, <3>2
  <2>7. Future'
    BY DEF LifecycleInv, Future
  <2> QED BY <2>2, <2>4, <2>6, <2>7, QuietStep
<1> QED BY <1>1, <1>2

LEMMA LogPreserves == ASSUME LifecycleInv, NEW i \in Apps, Log(i) PROVE LifecycleInv'
<1> USE DEF Log
<1>1. AppsInv'
  BY DEF LifecycleInv, AppsInv
<1>2. app'[i] = "logged" /\ \A j \in Apps \ {i} : app'[j] = app[j]
  BY DEF LifecycleInv, AppsInv
<1>3. \A j \in Apps : (live(j)' <=> live(j)) /\ (running(j)' <=> running(j))
  BY <1>2 DEF running, live
<1>4. Future'
  BY <1>2 DEF LifecycleInv, Future
<1>5. Killed' /\ Survivors' /\ Busy'
  BY <1>2, <1>3 DEF LifecycleInv, Killed, Survivors, Busy
<1>6. OwnLog'
  <2> SUFFICES ASSUME step = "starting", ~ disturbed(session)
               PROVE  log'[LogOf[session]] \subseteq {session}
    BY DEF OwnLog, disturbed, disturbs
  <2>1. session \in 1..N /\ ~ (session = 1 /\ step = "between")
    BY DEF LifecycleInv, Busy
  <2>2. i <= session
    BY DEF LifecycleInv, AppsInv, Future
  <2>3. ~ i < session
    <3> SUFFICES ASSUME i < session PROVE FALSE
      OBVIOUS
    <3>1. PICK c \in 1..N : c = session
      BY <2>1
    <3>2. i \in Stubborn /\ \A k \in FirstOfFile : i < k => k > c
      BY <3>1 DEF LifecycleInv, Survivors
    <3>3. sameFile(i, c) /\ i \in 1..N
      BY <3>1, <3>2 DEF sameFile
    <3> QED BY <3>1, <3>2, <3>3 DEF disturbed, disturbs
  <2>4. i = session
    BY <2>1, <2>2, <2>3
  <2>5. log[LogOf[session]] \subseteq {session}
    BY DEF LifecycleInv, OwnLog
  <2>6. log' = [log EXCEPT ![LogOf[session]] = log[LogOf[session]] \cup {session}]
    BY <2>4
  <2>7. LogOf[session] \in Logs /\ log \in [Logs -> SUBSET Apps]
    BY <2>1 DEF LifecycleInv, AppsInv
  <2>8. log'[LogOf[session]] = log[LogOf[session]] \cup {session}
    BY <2>6, <2>7
  <2> QED BY <2>5, <2>8
<1> QED BY <1>1, <1>4, <1>5, <1>6 DEF LifecycleInv, StartedIsOwnApp, PortIsFree

LEMMA ListenPreserves == ASSUME LifecycleInv, NEW i \in Apps, Listen(i) PROVE LifecycleInv'
<1> USE DEF Listen
<1>1. AppsInv'
  BY DEF LifecycleInv, AppsInv
<1>2. app'[i] \in {"gone", "listening"} /\ \A j \in Apps \ {i} : app'[j] = app[j]
  BY DEF LifecycleInv, AppsInv
<1>3. live(i)
  BY DEF running
<1>4. \A j \in Apps : (live(j)' => live(j)) /\ (running(j)' => running(j))
  BY <1>2, <1>3 DEF running, live
<1>5. Future'
  BY <1>2, <1>3 DEF LifecycleInv, Future, live
<1>6. Killed'
  BY <1>2, <1>4 DEF LifecycleInv, Killed
<1>8. Survivors' /\ Busy' /\ OwnLog' /\ StartedIsOwnApp'
  BY <1>4 DEF LifecycleInv, Survivors, Busy, OwnLog, StartedIsOwnApp
<1>7. PortIsFree'
  <2>1. CASE collided' = collided
    BY <2>1 DEF LifecycleInv, PortIsFree
  <2>2. ASSUME NEW j \in Apps, app[j] = "listening", collided' = collided \cup {i}, i # 0
        PROVE  \E k \in 1..N : disturbs(k, i) \/ disturbs(i, k)
    <3>1. running(i) /\ running(j) /\ i # j
      BY <2>2 DEF dying, running, live
    <3>2. i <= session /\ j <= session /\ ~ (session = 1 /\ step = "between")
      BY <3>1, <2>2 DEF LifecycleInv, AppsInv, Future, running, live
    <3>3. CASE j < i
      BY <3>1, <3>2, <3>3, SurvivorDisturbs DEF LifecycleInv
    <3>4. CASE i < j
      BY <3>1, <3>2, <3>4, SurvivorDisturbs DEF LifecycleInv
    <3> QED BY <3>1, <3>3, <3>4
  <2> QED BY <2>1, <2>2 DEF LifecycleInv, PortIsFree
<1> QED BY <1>1, <1>5, <1>6, <1>7, <1>8 DEF LifecycleInv

LEMMA DiePreserves == ASSUME LifecycleInv, NEW i \in Apps, Die(i) PROVE LifecycleInv'
<1> USE DEF Die
<1>1. AppsInv'
  BY DEF LifecycleInv, AppsInv
<1>2. app'[i] = "gone" /\ \A j \in Apps \ {i} : app'[j] = app[j]
  BY DEF LifecycleInv, AppsInv
<1>3. \A j \in Apps : (live(j)' => live(j)) /\ (running(j)' => running(j))
  BY <1>2 DEF running, live
<1>4. Future'
  BY <1>2 DEF LifecycleInv, Future, live
<1>5. Killed'
  BY <1>2, <1>3 DEF LifecycleInv, Killed
<1> QED BY <1>1, <1>3, <1>4, <1>5, QuietStep

-----------------------------------------------------------------------------
\* The inductive invariant of the suite and its applications.
THEOREM LifecycleInvariant == Spec => []LifecycleInv
<1>1. LifecycleInv /\ [Next]_vars => LifecycleInv'
  <2> SUFFICES ASSUME LifecycleInv, [Next]_vars PROVE LifecycleInv'
    OBVIOUS
  <2>1. CASE CheckLogFails \/ EarlyExit
    BY <2>1, GiveUpPreserves DEF CheckLogFails, EarlyExit
  <2>2. CASE UNCHANGED vars
    BY <2>2 DEF vars, LifecycleInv, AppsInv, Busy, Future, Killed, Survivors, OwnLog,
       StartedIsOwnApp, PortIsFree, running, live
  <2> QED
    BY <2>1, <2>2, SetupPreserves, StartPreserves, StartMissingPreserves, CheckLogPreserves,
       StopPreserves, ForceKillPreserves, LogPreserves, ListenPreserves, DiePreserves DEF Next
<1> QED BY <1>1, InitEstablishes, PTL DEF Spec

\* No application but a stubborn one of the same spec file makes startApp() believe that
\* the one it spawned has started.
THEOREM StartsAreOwn == Spec => []StartedIsOwnApp
<1>1. LifecycleInv => StartedIsOwnApp
  BY DEF LifecycleInv
<1> QED BY <1>1, LifecycleInvariant, PTL

\* No two applications of different spec files, or of which the earlier one goes when it
\* is asked, meet at the port.
THEOREM PortsAreFree == Spec => []PortIsFree
<1>1. LifecycleInv => PortIsFree
  BY DEF LifecycleInv
<1> QED BY <1>1, LifecycleInvariant, PTL
-----------------------------------------------------------------------------
(* How far the suite is from its end.                                       *)

\* A session polls at most MaxPolls + 1 times, and takes three other steps.
PerSession == MaxPolls + 4

SuiteLeft ==
    IF session > N THEN 0
    ELSE (N - session) * PerSession +
         CASE step = "between"  -> MaxPolls + 4
           [] step = "clean"    -> MaxPolls + 3
           [] step = "starting" -> MaxPolls - polls + 2
           [] step = "testing"  -> 1

PollsInv == polls \in 0..MaxPolls

SuiteSteps ==
    Setup \/ Start \/ StartMissing \/ CheckLog \/ CheckLogFails \/ EarlyExit \/ Stop

\* Every step of the suite brings it closer to its end, and no application, whatever it
\* writes, does not do or dies of, takes it further away.
NothingSetsBack ==
    /\ SuiteLeft' <= SuiteLeft
    /\ SuiteSteps => SuiteLeft' < SuiteLeft

LEMMA PollsHold == Spec => []PollsInv
<1>1. Init => PollsInv
  BY DEF Init, PollsInv
<1>2. PollsInv /\ [Next]_vars => PollsInv'
  <2> SUFFICES ASSUME PollsInv, [Next]_vars PROVE PollsInv'
    OBVIOUS
  <2>1. CASE CheckLog
    BY <2>1 DEF CheckLog, PollsInv
  <2>2. CASE Start
    BY <2>2 DEF Start, PollsInv
  <2>3. CASE UNCHANGED polls
    BY <2>3 DEF PollsInv
  <2>4. Setup \/ StartMissing \/ CheckLogFails \/ EarlyExit \/ Stop => UNCHANGED polls
    BY DEF Setup, StartMissing, CheckLogFails, EarlyExit, Stop
  <2>5. \A i \in Apps : ForceKill(i) \/ Log(i) \/ Listen(i) \/ Die(i) => UNCHANGED polls
    BY DEF ForceKill, Log, Listen, Die
  <2> QED BY <2>1, <2>2, <2>3, <2>4, <2>5 DEF Next, vars
<1> QED BY <1>1, <1>2, PTL DEF Spec

LEMMA OneSessionLess ==
    ASSUME NEW n \in Nat \ {0}, NEW m \in Nat
    PROVE  n * m \in Nat /\ (n - 1) * m \in Nat /\ n * m = (n - 1) * m + m
<1>1. n - 1 \in Nat
  OBVIOUS
<1>2. n * m \in Nat /\ (n - 1) * m \in Nat
  BY <1>1
<1> QED BY <1>2

\* What is left of the suite, session by session.
LEMMA SuiteLeftOf ==
    ASSUME AppsInv, PollsInv
    PROVE  /\ session > N => SuiteLeft = 0
           /\ session <= N =>
                 /\ (N - session) * PerSession \in Nat
                 /\ step = "between" => SuiteLeft = (N - session) * PerSession + (MaxPolls + 4)
                 /\ step = "clean" => SuiteLeft = (N - session) * PerSession + (MaxPolls + 3)
                 /\ step = "starting" =>
                       SuiteLeft = (N - session) * PerSession + (MaxPolls - polls + 2)
                 /\ step = "testing" => SuiteLeft = (N - session) * PerSession + 1
           /\ SuiteLeft \in Nat
<1>1. CASE session > N
  BY <1>1 DEF SuiteLeft, AppsInv
<1>2. CASE session <= N
  <2>1. N - session \in Nat /\ PerSession \in Nat
    BY <1>2 DEF AppsInv, PerSession
  <2> DEFINE w == (N - session) * PerSession
  <2>2. w \in Nat
    BY <2>1
  <2>3. ~ (session > N)
    BY <1>2 DEF AppsInv
  <2>4. /\ step = "between" => SuiteLeft = w + (MaxPolls + 4)
        /\ step = "clean" => SuiteLeft = w + (MaxPolls + 3)
        /\ step = "starting" => SuiteLeft = w + (MaxPolls - polls + 2)
        /\ step = "testing" => SuiteLeft = w + 1
    BY <2>3 DEF SuiteLeft
  <2> HIDE DEF w
  <2>5. SuiteLeft \in Nat
    BY <2>2, <2>4 DEF AppsInv, PollsInv
  <2> QED BY <2>2, <2>3, <2>4, <2>5 DEF w
<1> QED BY <1>1, <1>2 DEF AppsInv

LEMMA SuiteLeftType == AppsInv /\ PollsInv => SuiteLeft \in Nat
BY SuiteLeftOf

\* The next session has at most a session's steps.
LEMMA NextSessionLeaves ==
    ASSUME LifecycleInv, LifecycleInv', PollsInv, PollsInv', session \in 1..N, NextSession
    PROVE  SuiteLeft' <= (N - session) * PerSession
<1>1. session' = session + 1 /\ step' \in {"between", "clean"} /\ PerSession \in Nat
  BY DEF NextSession, afterwards, PerSession
<1>2. N - session \in Nat /\ (N - session) * PerSession \in Nat
  BY <1>1
<1>3. CASE session = N
  <2>1. SuiteLeft' = 0
    BY <1>1, <1>3 DEF SuiteLeft
  <2> QED BY <1>2, <2>1
<1>4. CASE session # N
  <2>1. N - session \in Nat \ {0} /\ (N - session) - 1 = N - (session + 1)
    BY <1>4
  <2>2. /\ (N - (session + 1)) * PerSession \in Nat
        /\ (N - session) * PerSession = (N - (session + 1)) * PerSession + PerSession
    BY <1>1, <2>1, OneSessionLess
  <2>3. SuiteLeft' <= (N - (session + 1)) * PerSession + (MaxPolls + 4)
    <3> DEFINE w == (N - (session + 1)) * PerSession
    <3>1. ~ (session' > N) /\ w \in Nat
      BY <1>1, <1>4, <2>2
    <3>2. /\ step' = "between" => SuiteLeft' = w + (MaxPolls + 4)
          /\ step' = "clean" => SuiteLeft' = w + (MaxPolls + 3)
      BY <1>1, <3>1 DEF SuiteLeft, PerSession
    <3> HIDE DEF w
    <3>3. SuiteLeft' <= w + (MaxPolls + 4)
      BY <1>1, <3>1, <3>2
    <3> QED BY <3>3 DEF w
  <2> QED BY <2>2, <2>3 DEF PerSession
<1> QED BY <1>3, <1>4

\* What a step of the suite does to it.
LEMMA SuiteProgresses ==
    ASSUME LifecycleInv, LifecycleInv', PollsInv, PollsInv', SuiteSteps
    PROVE  SuiteLeft' < SuiteLeft
<1> DEFINE w == (N - session) * PerSession
<1>1. session \in 1..N
  BY DEF SuiteSteps, Setup, Start, StartMissing, CheckLog, CheckLogFails, EarlyExit, Stop,
         LifecycleInv, AppsInv, Busy
<1>2. /\ w \in Nat
      /\ step = "between" => SuiteLeft = w + (MaxPolls + 4)
      /\ step = "clean" => SuiteLeft = w + (MaxPolls + 3)
      /\ step = "starting" => SuiteLeft = w + (MaxPolls - polls + 2)
      /\ step = "testing" => SuiteLeft = w + 1
  BY <1>1, SuiteLeftOf DEF LifecycleInv
<1>3. polls \in 0..MaxPolls /\ polls' \in 0..MaxPolls
  BY DEF PollsInv
<1>4. ASSUME session' = session
      PROVE  /\ step' = "clean" => SuiteLeft' = w + (MaxPolls + 3)
             /\ step' = "starting" => SuiteLeft' = w + (MaxPolls - polls' + 2)
             /\ step' = "testing" => SuiteLeft' = w + 1
  BY <1>1, <1>4 DEF SuiteLeft, PerSession
<1>5. NextSession => SuiteLeft' <= w /\ SuiteLeft' \in Nat
  <2>1. SuiteLeft' \in Nat
    <3>1. (AppsInv /\ PollsInv => SuiteLeft \in Nat)'
      BY SuiteLeftType, PTL
    <3> QED BY <3>1 DEF LifecycleInv
  <2> QED BY <1>1, <2>1, NextSessionLeaves
<1> HIDE DEF w
<1>6. CASE Setup
  BY <1>2, <1>3, <1>4, <1>6 DEF Setup
<1>7. CASE Start
  BY <1>2, <1>3, <1>4, <1>7 DEF Start
<1>8. CASE StartMissing
  BY <1>2, <1>3, <1>5, <1>8 DEF StartMissing
<1>9. CASE CheckLog
  <2>1. step = "starting"
    BY <1>9 DEF CheckLog
  <2>2. \/ step' = "testing" /\ session' = session
        \/ polls' = polls + 1 /\ session' = session /\ step' = step
        \/ NextSession
    BY <1>9 DEF CheckLog, GiveUp
  <2> QED BY <1>2, <1>3, <1>4, <1>5, <2>1, <2>2
<1>10. CASE CheckLogFails \/ EarlyExit
  BY <1>2, <1>3, <1>5, <1>10 DEF CheckLogFails, EarlyExit, GiveUp
<1>11. CASE Stop
  BY <1>2, <1>3, <1>5, <1>11 DEF Stop
<1> QED BY <1>6, <1>7, <1>8, <1>9, <1>10, <1>11 DEF SuiteSteps

\* The suite ends after at most N * (MaxPolls + 4) steps of its own, whether its
\* applications start, hang, ignore signals or die.
THEOREM SuiteIsBounded ==
    Spec => /\ SuiteLeft = N * PerSession
            /\ [](SuiteLeft \in Nat /\ (SuiteLeft = 0 <=> session = N + 1))
            /\ [][NothingSetsBack]_vars
<1>1. LifecycleInv /\ PollsInv => SuiteLeft \in Nat /\ (SuiteLeft = 0 <=> session = N + 1)
  <2> SUFFICES ASSUME LifecycleInv, PollsInv
               PROVE  SuiteLeft \in Nat /\ (SuiteLeft = 0 <=> session = N + 1)
    OBVIOUS
  <2>1. AppsInv
    BY DEF LifecycleInv
  <2>2. CASE session > N
    BY <2>1, <2>2, SuiteLeftOf DEF AppsInv
  <2>3. CASE session <= N
    <3> DEFINE w == (N - session) * PerSession
    <3>1. /\ w \in Nat
          /\ step = "between" => SuiteLeft = w + (MaxPolls + 4)
          /\ step = "clean" => SuiteLeft = w + (MaxPolls + 3)
          /\ step = "starting" => SuiteLeft = w + (MaxPolls - polls + 2)
          /\ step = "testing" => SuiteLeft = w + 1
          /\ SuiteLeft \in Nat
      BY <2>1, <2>3, SuiteLeftOf
    <3> HIDE DEF w
    <3>2. SuiteLeft > 0
      BY <2>1, <3>1 DEF AppsInv, PollsInv
    <3> QED BY <2>1, <2>3, <3>1, <3>2 DEF AppsInv
  <2> QED BY <2>1, <2>2, <2>3 DEF AppsInv
<1>2. ASSUME LifecycleInv, LifecycleInv', PollsInv, PollsInv', [Next]_vars
      PROVE  [NothingSetsBack]_vars
  <2>1. SuiteLeft \in Nat
    BY <1>1, <1>2
  <2>2. (SuiteLeft \in Nat)'
    <3>1. (LifecycleInv /\ PollsInv => SuiteLeft \in Nat)'
      BY <1>1, PTL
    <3> QED BY <1>2, <3>1
  <2>3. CASE SuiteSteps
    BY <1>2, <2>1, <2>2, <2>3, SuiteProgresses DEF NothingSetsBack
  <2>4. CASE ~ SuiteSteps
    <3>1. UNCHANGED <<session, step, polls>>
      BY <1>2, <2>4 DEF Next, vars, SuiteSteps, ForceKill, Log, Listen, Die
    <3>2. SuiteLeft' = SuiteLeft
      BY <3>1 DEF SuiteLeft, PerSession
    <3> QED BY <2>1, <2>4, <3>2 DEF NothingSetsBack
  <2> QED BY <2>3, <2>4
<1>3. Init => SuiteLeft = N * PerSession
  <2>1. N * PerSession = (N - 1) * PerSession + PerSession
    BY OneSessionLess DEF PerSession
  <2> DEFINE w == (N - 1) * PerSession
  <2>2. Init => SuiteLeft = w + (MaxPolls + 4)
    BY DEF Init, SuiteLeft, PerSession
  <2> QED BY <2>1, <2>2 DEF PerSession
<1> QED BY <1>1, <1>2, <1>3, LifecycleInvariant, PollsHold, PTL DEF Spec

-----------------------------------------------------------------------------
\* A killTimer that runs belongs to an earlier session, whose application was sent a
\* signal or had gone.
TimerInv == \A i \in Apps : timer[i] => i < session /\ (killed[i] \/ ~ live(i))

TimerType == timer \in [Apps -> BOOLEAN]

\* The SIGKILL that stopApp() announces never reaches an application that still runs.
KillTimerIsIdle == \A i \in Apps : ForceKill(i) => pending' = pending

LEMMA TimersHold == Spec => [](TimerType /\ TimerInv)
<1>1. Init => TimerType /\ TimerInv
  BY DEF Init, TimerType, TimerInv
<1>2. LifecycleInv /\ TimerType /\ TimerInv /\ [Next]_vars => TimerType' /\ TimerInv'
  <2> SUFFICES ASSUME LifecycleInv, TimerType, TimerInv, [Next]_vars
               PROVE  TimerType' /\ TimerInv'
    OBVIOUS
  <2>1. AppsInv /\ Busy
    BY DEF LifecycleInv
  <2>2. CASE UNCHANGED <<session, app, killed, timer>>
    BY <2>2 DEF TimerType, TimerInv, live
  <2>3. CASE Start
    BY <2>1, <2>3 DEF Start, TimerType, TimerInv, live, AppsInv
  <2>4. CASE StartMissing
    BY <2>1, <2>4 DEF StartMissing, NextSession, TimerType, TimerInv, live, AppsInv
  <2>5. CASE NextSession /\ killed' = [killed EXCEPT ![session] = live(session)]
             /\ UNCHANGED <<app, timer>>
    BY <2>1, <2>5 DEF NextSession, TimerType, TimerInv, live, AppsInv
  <2>6. CASE Stop
    <3>1. session \in 1..N /\ session' = session + 1 /\ app' = app
      BY <2>1, <2>6 DEF Stop, NextSession, Busy
    <3>2. CASE killed[session]
      BY <2>1, <2>6, <3>1, <3>2 DEF Stop, TimerType, TimerInv, live, AppsInv
    <3>3. CASE ~ killed[session]
      <4>1. /\ killed' = [killed EXCEPT ![session] = live(session)]
            /\ timer' = [timer EXCEPT ![session] = TRUE]
        BY <2>6, <3>3 DEF Stop
      <4>2. TimerType' /\ \A i \in Apps : live(i)' <=> live(i)
        BY <3>1, <4>1 DEF TimerType, live
      <4>3. killed'[session] <=> live(session)
        BY <2>1, <3>1, <4>1 DEF AppsInv
      <4>4. \A i \in Apps \ {session} : killed'[i] = killed[i] /\ timer'[i] = timer[i]
        BY <2>1, <3>1, <4>1 DEF AppsInv, TimerType
      <4>5. ASSUME NEW i \in Apps, timer'[i]
            PROVE  i < session' /\ (killed'[i] \/ ~ live(i)')
        BY <3>1, <4>2, <4>3, <4>4, <4>5 DEF TimerInv
      <4> QED BY <4>2, <4>5 DEF TimerInv
    <3> QED BY <3>2, <3>3
  <2>7. ASSUME NEW i \in Apps, ForceKill(i) PROVE TimerType' /\ TimerInv'
    BY <2>1, <2>7 DEF ForceKill, TimerType, TimerInv, live, AppsInv
  <2>8. ASSUME NEW i \in Apps, Log(i) \/ Listen(i) PROVE TimerType' /\ TimerInv'
    BY <2>1, <2>8 DEF Log, Listen, running, TimerType, TimerInv, live, AppsInv
  <2>9. ASSUME NEW i \in Apps, Die(i) PROVE TimerType' /\ TimerInv'
    BY <2>1, <2>9 DEF Die, TimerType, TimerInv, live, AppsInv
  <2>10. CASE CheckLog \/ CheckLogFails \/ EarlyExit
    BY <2>2, <2>5, <2>10 DEF CheckLog, CheckLogFails, EarlyExit, GiveUp
  <2>11. CASE Setup \/ UNCHANGED vars
    BY <2>2, <2>11 DEF Setup, vars
  <2> QED
    BY <2>3, <2>4, <2>6, <2>7, <2>8, <2>9, <2>10, <2>11 DEF Next
<1> QED BY <1>1, <1>2, LifecycleInvariant, PTL DEF Spec

\* stopApp() announces a SIGKILL for an application that does not go at the SIGTERM, and
\* tests ChildProcess.killed before it sends it: it is never sent to one that runs.
THEOREM ForceKillsAreIdle == Spec => [][KillTimerIsIdle]_vars
<1>1. TimerType /\ TimerInv /\ AppsInv => KillTimerIsIdle
  BY DEF TimerInv, AppsInv, KillTimerIsIdle, ForceKill, send, live
<1>2. LifecycleInv => AppsInv
  BY DEF LifecycleInv
<1> QED BY <1>1, <1>2, TimersHold, LifecycleInvariant, PTL
================================================================================
