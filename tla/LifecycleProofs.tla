--------------------------- MODULE LifecycleProofs ---------------------------
(***************************************************************************)
(* Safety of the application's life cycle for any number of plugins and    *)
(* signals, however the run ends and whatever calls of stop() overlap:     *)
(* type correctness, the common start, that only overlapping calls meet at *)
(* a join(), and how often a plugin is stopped; and, for a run that SIGINT *)
(* does not interrupt while load_so is running, the order of stop(), join, *)
(* wait() and destruction.                                                 *)
(***************************************************************************)
EXTENDS Lifecycle, TLAPS

Loads    == {"construct", "start", "notify"}
Starting == Loads \cup {"spawn"}
Waiting  == {"wait", "blocked", "cancel", "join"}

\* Who may be inside stop(), by where the main thread and th are.
CallersPlaced ==
  /\ stop_pc["handler"] # "idle" => main \in Starting \cup Waiting
  /\ stop_pc["timer"] # "idle" => timer = "stop"
  /\ stop_pc["destructor"] # "idle" => main = "stop"
  /\ timer # "none" => main \notin Starting

\* The plugin a call of stop() is joining is one of plugins_.
JoinsLoaded ==
  /\ \A c \in Callers : stop_pc[c] \in {"join", "joining"} => stop_at[c] <= loaded
  /\ main = "construct" => loaded = 0

\* Only the end of the start lets a threadloop go on.
Released ==
  /\ ready => next > N
  /\ \A i \in Plugins : thread[i] \in {"check", "iterate"} => ready

GenInv == TypeOK /\ CallersPlaced /\ JoinsLoaded /\ Released

LEMMA GenInitial == Init => GenInv
<1> SUFFICES ASSUME Init PROVE GenInv
    OBVIOUS
<1>1. TypeOK
    <2>1. 1 \in 1..(N + 1) /\ 0 \in 0..N /\ 0 \in 0..MaxSignals /\ 0 \in 0..(N + 1)
        BY LifecycleAssumption
    <2> QED BY <2>1 DEF Init, TypeOK, Takers, Driver
<1>2. CallersPlaced /\ JoinsLoaded
    BY DEF Init, CallersPlaced, JoinsLoaded, Callers, Loads, Starting
<1>3. Released
    BY DEF Init, Released
<1> QED BY <1>1, <1>2, <1>3 DEF GenInv

LEMMA GenMain == ASSUME GenInv, MainStep PROVE GenInv'
<1> USE LifecycleAssumption
    DEF GenInv, TypeOK, CallersPlaced, JoinsLoaded, Released, Plugins, Callers, Loads,
        Starting, Waiting, envVars, loadVars, lightVars, loopVars, stopVars, timerVars, AllStarted
<1>1. CASE MainConstruct
    BY <1>1 DEF MainConstruct, MainRuns
<1>2. CASE MainConstructThrows
    <2>1. loaded' \in 0..N
        BY <1>2 DEF MainConstructThrows
    <2>2. TypeOK' /\ CallersPlaced'
        BY <1>2, <2>1 DEF MainConstructThrows, MainRuns
    <2>3. JoinsLoaded' /\ Released'
        BY <1>2 DEF MainConstructThrows, MainRuns
    <2> QED BY <2>2, <2>3
<1>3. CASE MainStart
    BY <1>3 DEF MainStart, MainRuns
<1>4. CASE MainStartThrows
    BY <1>4 DEF MainStartThrows, MainRuns
<1>5. CASE MainSignalReady
    BY <1>5 DEF MainSignalReady, MainRuns
<1>6. CASE MainNotifyReady
    BY <1>6 DEF MainNotifyReady, MainRuns
<1>7. CASE MainSpawn
    BY <1>7 DEF MainSpawn, MainRuns
<1>8. CASE MainWait
    BY <1>8 DEF MainWait, AfterWait, MainRuns
<1>9. CASE MainCancel
    BY <1>9 DEF MainCancel, MainRuns
<1>10. CASE MainJoin
    BY <1>10 DEF MainJoin, MainRuns
<1>11. CASE MainDelete
    <2>1. TypeOK'
        <3>1. /\ main' \in {"destroy", "stop"}
              /\ stop_pc' \in {stop_pc, [stop_pc EXCEPT !["destructor"] = "signal"]}
              /\ overlapped' \in BOOLEAN
            BY <1>11, Zenon DEF MainDelete, Begins
        <3>2. UNCHANGED <<ending, signals, interrupted, loaded, next, lightVars, loopVars,
                         subscribed, stop_at, stops, timerVars, terminated>>
            BY <1>11 DEF MainDelete
        <3> QED BY <3>1, <3>2
    <2>2. CallersPlaced' /\ JoinsLoaded' /\ Released'
        BY <1>11 DEF MainDelete, Begins, MainRuns
    <2> QED BY <2>1, <2>2
<1>12. CASE MainStopped
    BY <1>12 DEF MainStopped, MainRuns
<1>13. CASE MainDestroy
    BY <1>13 DEF MainDestroy, MainRuns
<1> QED
    BY <1>1, <1>2, <1>3, <1>4, <1>5, <1>6, <1>7, <1>8, <1>9, <1>10, <1>11, <1>12, <1>13
       DEF MainStep

LEMMA GenThread ==
  ASSUME GenInv, NEW i \in Plugins, ThreadStep(i) \/ SpuriousWake(i) PROVE GenInv'
<1> USE DEF GenInv, TypeOK, CallersPlaced, JoinsLoaded, Released, envVars, loadVars,
            lightVars, loopVars, stopVars, timerVars
<1>1. CASE ThreadWait(i)
    BY <1>1 DEF ThreadWait, AfterWait
<1>2. CASE ThreadCheck(i)
    BY <1>2 DEF ThreadCheck
<1>3. CASE ThreadIterate(i)
    BY <1>3 DEF ThreadIterate
<1>4. CASE SpuriousWake(i)
    BY <1>4 DEF SpuriousWake
<1> QED BY <1>1, <1>2, <1>3, <1>4 DEF ThreadStep

LEMMA GenStop ==
  ASSUME GenInv, NEW c \in Callers, StopStep(c) PROVE GenInv'
<1> USE LifecycleAssumption
    DEF GenInv, TypeOK, CallersPlaced, JoinsLoaded, Released, Plugins, Callers, Loads,
        Starting, Waiting, envVars, loadVars, lightVars, loopVars, stopVars, timerVars
<1>1. CASE StopSignal(c)
    BY <1>1 DEF StopSignal
<1>2. CASE StopSwitchboard(c)
    BY <1>2 DEF StopSwitchboard
<1>3. CASE StopPlugin(c)
    <2> DEFINE i == stop_at[c]
    <2>1. i \in Plugins /\ i + 1 \in 1..(N + 1) /\ i <= loaded
        <3>1. i \in 1..(N + 1) /\ loaded \in 0..N /\ N \in Nat
            BY Zenon
        <3>2. i <= loaded
            BY ONLY <1>3 DEF StopPlugin
        <3> QED BY ONLY <3>1, <3>2 DEF Plugins
    <2>2. stops' = [stops EXCEPT ![i] = stops[i] + 1] /\ stops[i] + 1 \in Nat
        BY <1>3, <2>1 DEF StopPlugin
    <2>3. stops' \in [Plugins -> Nat]
        BY <2>1, <2>2
    <2>4. CASE joinable[i]
        <3>1. stop_pc' = [stop_pc EXCEPT ![c] = "join"] /\ stop_at' = stop_at
            BY <1>3, <2>4 DEF StopPlugin, Joinable
        <3>2. TypeOK'
            <4>1. stop_pc' \in [Callers -> {"idle", "signal", "switchboard", "plugin", "join",
                                           "joining", "notify"}]
                BY <3>1
            <4>2. UNCHANGED <<envVars, loadVars, lightVars, loopVars, subscribed, stop_at,
                             timerVars, terminated>>
                BY <1>3, <3>1 DEF StopPlugin
            <4> QED
                BY ONLY TypeOK, <2>3, <4>1, <4>2
                DEF TypeOK, envVars, loadVars, lightVars, loopVars, timerVars
        <3>3. CallersPlaced' /\ JoinsLoaded' /\ Released'
            BY <1>3, <2>1, <3>1 DEF StopPlugin
        <3> QED BY <3>2, <3>3
    <2>5. CASE ~joinable[i]
        <3>1. stop_at' = [stop_at EXCEPT ![c] = i + 1] /\ stop_pc' = stop_pc
            BY <1>3, <2>5 DEF StopPlugin, Joinable
        <3>2. TypeOK'
            <4>1. stop_at' \in [Callers -> 1..(N + 1)]
                BY <2>1, <3>1
            <4>2. UNCHANGED <<envVars, loadVars, lightVars, loopVars, subscribed,
                             stop_pc, timerVars, terminated>>
                BY <1>3, <3>1 DEF StopPlugin
            <4> QED
                BY ONLY TypeOK, <2>3, <4>1, <4>2
                DEF TypeOK, envVars, loadVars, lightVars, loopVars, timerVars
        <3>3. CallersPlaced' /\ JoinsLoaded' /\ Released'
            BY <1>3, <2>1, <3>1 DEF StopPlugin
        <3> QED BY <3>2, <3>3
    <2> QED BY <2>4, <2>5
<1>4. CASE StopJoin(c)
    <2> DEFINE i == stop_at[c]
    <2>1. i \in Plugins /\ i <= loaded
        BY <1>4 DEF StopJoin
    <2> DEFINE joins == joinable[i] /\ joiner[i] = "nobody"
                          /\ ~(c = "second" /\ interrupted = i)
    <2>2. CASE joins
        <3>1. /\ joiner' = [joiner EXCEPT ![i] = c]
              /\ stop_pc' = [stop_pc EXCEPT ![c] = "joining"]
            BY <1>4, <2>2 DEF StopJoin
        <3>2. TypeOK'
            BY <1>4, <2>1, <3>1, <2>2 DEF StopJoin
        <3>3. CallersPlaced' /\ JoinsLoaded' /\ Released'
            BY <1>4, <2>1, <3>1 DEF StopJoin
        <3> QED BY <3>2, <3>3
    <2>3. CASE ~joins
        <3>1. /\ terminated' = TRUE
              /\ UNCHANGED <<envVars, loadVars, lightVars, loopVars, subscribed,
                             stopVars, timerVars>>
            BY <1>4, <2>3 DEF StopJoin
        <3> QED BY <3>1
    <2> QED BY <2>2, <2>3
<1>5. CASE StopJoined(c)
    <2> DEFINE i == stop_at[c]
    <2>1. /\ i \in Plugins /\ i + 1 \in 1..(N + 1)
          /\ joinable' = [joinable EXCEPT ![i] = FALSE]
          /\ joiner' = [joiner EXCEPT ![i] = "nobody"]
          /\ stop_pc' = [stop_pc EXCEPT ![c] = "plugin"]
          /\ stop_at' = [stop_at EXCEPT ![c] = i + 1]
          /\ UNCHANGED <<envVars, loadVars, lightVars, thread, subscribed,
                         stops, timerVars, terminated>>
        BY <1>5 DEF StopJoined
    <2>2. TypeOK'
        <3>1. stop_at' \in [Callers -> 1..(N + 1)]
            BY <2>1
        <3>2. /\ joinable' \in [Plugins -> BOOLEAN]
              /\ joiner' \in [Plugins -> Callers \cup {"nobody"}]
              /\ stop_pc' \in [Callers -> {"idle", "signal", "switchboard", "plugin", "join",
                                           "joining", "notify"}]
            BY <2>1
        <3> QED
            BY ONLY TypeOK, <2>1, <3>1, <3>2 DEF TypeOK, envVars, loadVars, lightVars, timerVars
    <2>3. CallersPlaced' /\ Released'
        BY <2>1, <1>5 DEF StopJoined
    <2>4. JoinsLoaded'
        BY <2>1
    <2> QED BY <2>2, <2>3, <2>4
<1>6. CASE StopComplete(c)
    <2>1. /\ shutdown_complete' = TRUE
          /\ stop_pc' = [stop_pc EXCEPT ![c] = "notify"]
          /\ UNCHANGED <<envVars, loadVars, ready, should_stop, loopVars, subscribed,
                         stop_at, stops, timerVars, terminated>>
        BY <1>6 DEF StopComplete
    <2> QED BY <2>1, <1>6, SMTT(30) DEF StopComplete
<1>7. CASE StopNotify(c)
    BY <1>7 DEF StopNotify
<1> QED BY <1>1, <1>2, <1>3, <1>4, <1>5, <1>6, <1>7 DEF StopStep

LEMMA GenSignal ==
  ASSUME GenInv, Sigint \/ (\E t \in Takers : SecondSigint(t)) PROVE GenInv'
<1> USE LifecycleAssumption
    DEF GenInv, TypeOK, CallersPlaced, JoinsLoaded, Released, Plugins, Callers, Loads,
        Starting, Waiting, Begins, envVars, loadVars, lightVars, loopVars, stopVars, timerVars
<1>1. CASE Sigint
    BY <1>1 DEF Sigint, MainRuns
<1>2. ASSUME NEW t \in Takers, SecondSigint(t) PROVE GenInv'
    BY <1>2 DEF SecondSigint
<1> QED BY <1>1, <1>2

LEMMA GenTimer == ASSUME GenInv, TimerStep PROVE GenInv'
<1> USE DEF GenInv, TypeOK, CallersPlaced, JoinsLoaded, Released, Callers, envVars, loadVars,
            lightVars, loopVars, stopVars, timerVars
<1>1. CASE TimerWake
    BY <1>1 DEF TimerWake, Begins
<1>2. CASE TimerEnd
    BY <1>2 DEF TimerEnd
<1> QED BY <1>1, <1>2 DEF TimerStep

LEMMA GenStutter == ASSUME GenInv, UNCHANGED vars PROVE GenInv'
BY DEF GenInv, TypeOK, CallersPlaced, JoinsLoaded, Released, vars, envVars, loadVars,
       lightVars, loopVars, stopVars, timerVars

LEMMA GenNext == ASSUME GenInv, [Next]_vars PROVE GenInv'
<1>1. Threadloops \subseteq Plugins
    BY LifecycleAssumption
<1> QED BY <1>1, GenMain, GenSignal, GenThread, GenStop, GenTimer, GenStutter DEF Next, Finished

\* The invariant holds whatever ends the run, an early SIGINT included.
THEOREM GenInductive == Spec => []GenInv
<1>1. GenInv /\ [Next]_vars => GenInv'
    BY GenNext
<1> QED BY <1>1, GenInitial, PTL DEF Spec

\* The state of the life cycle has the types stated (TypeOK), for any plugins,
\* endings and signals.
THEOREM LifecycleTypes == Spec => []TypeOK
<1>1. GenInv => TypeOK
    BY DEF GenInv
<1> QED BY <1>1, GenInductive, PTL

\* wait_for_ready() keeps every threadloop from iterating until start() of the last
\* plugin has returned (runtime_impl::load_so), for any number of plugins.
THEOREM LifecycleStart == Spec => []StartsTogether
<1>1. GenInv => StartsTogether
    BY LifecycleAssumption DEF GenInv, Released, StartsTogether
<1> QED BY <1>1, GenInductive, PTL
----------------------------------------------------------------------------
(* Calls of stop() that follow each other never meet at a join().          *)

\* plugins_ is complete before a plugin is started.
Loading ==
  /\ next > 1 => loaded = N
  /\ main = "construct" => next = 1
  /\ main \in Starting \ {"construct"} => loaded = N

\* A threadloop has a thread once it is started, joinable until it is joined.
Threads ==
  \A i \in Plugins :
    /\ thread[i] = "none" <=> ~(i \in Threadloops /\ i < next)
    /\ joinable[i] => i < next
    /\ ~joinable[i] => thread[i] \in {"none", "exited"}

\* A thread is being joined by the call that is at its plugin, and stays joinable.
Joiners ==
  /\ \A i \in Plugins : joiner[i] # "nobody" =>
       stop_pc[joiner[i]] = "joining" /\ stop_at[joiner[i]] = i
  /\ \A c \in Callers : stop_pc[c] = "joining" =>
       joiner[stop_at[c]] = c /\ joinable[stop_at[c]]

\* While the handler suspends the main thread nothing is started behind its call.
Passed ==
  /\ stop_pc["handler"] \in {"plugin", "join", "joining"}
       => \A j \in Plugins : j < stop_at["handler"] => ~joinable[j]
  /\ stop_pc["handler"] = "notify" => \A j \in Plugins : ~joinable[j]

\* As long as no two calls have been under way at once: the plugin that a call found
\* joinable still is, and the second handler does not run on a threadloop's thread.
OneAtATime ==
  ~overlapped =>
    /\ \A c, d \in Callers : UnderWay(c) /\ UnderWay(d) => c = d
    /\ \A c \in Callers : stop_pc[c] = "join" => joinable[stop_at[c]]
    /\ UnderWay("second") => interrupted \notin Plugins
    /\ ~terminated

JoinInv == GenInv /\ Loading /\ Threads /\ Joiners /\ Passed /\ OneAtATime

LEMMA JoinInitial == Init => JoinInv
<1> SUFFICES ASSUME Init PROVE JoinInv
    OBVIOUS
<1>1. GenInv
    BY GenInitial
<1>2. Loading /\ Threads
    BY LifecycleAssumption DEF Init, Loading, Threads, Plugins, Starting, Loads
<1>3. Joiners /\ Passed /\ OneAtATime
    BY DEF Init, Joiners, Passed, OneAtATime, UnderWay, Callers, Plugins
<1> QED BY <1>1, <1>2, <1>3 DEF JoinInv

\* What a call of stop() that begins changes.
LEMMA CallBegins ==
  ASSUME JoinInv, NEW c \in Callers, stop_pc[c] = "idle", Begins(c),
         UNCHANGED <<joinable, joiner, stop_at, terminated>>,
         UnderWay("second")' /\ ~overlapped' => interrupted' \notin Plugins
  PROVE  Joiners' /\ Passed' /\ OneAtATime'
<1> USE DEF JoinInv, GenInv, TypeOK, Joiners, Passed, OneAtATime, UnderWay, Begins
<1>1. stop_pc' = [stop_pc EXCEPT ![c] = "signal"]
    OBVIOUS
<1>2. \A d \in Callers : stop_pc'[d] = IF d = c THEN "signal" ELSE stop_pc[d]
    BY <1>1
<1>3. "handler" \in Callers /\ \A i \in Plugins : joiner[i] # "nobody" => joiner[i] \in Callers
    BY DEF Callers
<1>4. Joiners' /\ Passed'
    BY <1>2, <1>3
<1>5. OneAtATime'
    <2> SUFFICES ASSUME ~overlapped'
                 PROVE  /\ \A d, e \in Callers : UnderWay(d)' /\ UnderWay(e)' => d = e
                        /\ \A d \in Callers : stop_pc'[d] = "join" => joinable[stop_at[d]]
                        /\ ~terminated
        OBVIOUS
    <2>1. ~overlapped /\ \A d \in Callers : ~UnderWay(d)
        OBVIOUS
    <2> QED BY <1>2, <2>1
<1> QED BY <1>4, <1>5

LEMMA JoinMain == ASSUME JoinInv, MainStep PROVE JoinInv'
<1>1. GenInv'
    BY GenMain DEF JoinInv
<1>2. Loading' /\ Threads'
    <2> USE LifecycleAssumption
        DEF JoinInv, GenInv, TypeOK, Loading, Threads, Starting, Loads, Plugins, AllStarted,
            loadVars, lightVars, loopVars, stopVars, timerVars
    <2>1. CASE MainStart
        <3>1. /\ main = "start" /\ next \in Plugins /\ next' = next + 1 /\ loaded = N
              /\ UNCHANGED <<main, loaded>>
              /\ thread' = [thread EXCEPT ![next] = IF next \in Threadloops THEN "waiting" ELSE @]
              /\ joinable' = [joinable EXCEPT ![next] = next \in Threadloops]
            BY <2>1 DEF MainStart
        <3>2. Loading'
            BY <3>1
        <3>3. Threads'
            <4> SUFFICES ASSUME NEW i \in Plugins
                         PROVE  /\ thread'[i] = "none" <=> ~(i \in Threadloops /\ i < next')
                                /\ joinable'[i] => i < next'
                                /\ ~joinable'[i] => thread'[i] \in {"none", "exited"}
                OBVIOUS
            <4>1. CASE i = next
                <5>1. /\ thread'[i] = IF i \in Threadloops THEN "waiting" ELSE thread[i]
                      /\ joinable'[i] = (i \in Threadloops)
                    BY <3>1, <4>1
                <5>2. thread[i] = "none" /\ i < next'
                    BY <3>1, <4>1
                <5> QED BY <5>1, <5>2
            <4>2. CASE i # next
                <5>1. thread'[i] = thread[i] /\ joinable'[i] = joinable[i]
                    BY <3>1, <4>2
                <5>2. i < next' <=> i < next
                    BY <3>1, <4>2
                <5> QED BY <5>1, <5>2
            <4> QED BY <4>1, <4>2
        <3> QED BY <3>2, <3>3
    <2>2. CASE MainNotifyReady
        <3>1. /\ UNCHANGED <<next, loaded, joinable>> /\ main = "notify" /\ main' = "spawn"
              /\ \A i \in Plugins :
                   thread'[i] = IF thread[i] = "blocked" THEN "waiting" ELSE thread[i]
            BY <2>2 DEF MainNotifyReady
        <3> QED BY <3>1
    <2>3. CASE ~MainStart /\ ~MainNotifyReady
        <3>1. UNCHANGED <<next, thread, joinable>>
            BY <2>3 DEF MainStep, MainConstruct, MainConstructThrows, MainStartThrows,
                        MainSignalReady, MainSpawn, MainWait, MainCancel, MainJoin,
                        MainDelete, MainStopped, MainDestroy
        <3>2. Loading'
            BY <2>3 DEF MainStep, MainConstruct, MainConstructThrows, MainStartThrows,
                        MainSignalReady, MainSpawn, MainWait, AfterWait, MainCancel, MainJoin,
                        MainDelete, MainStopped, MainDestroy
        <3> QED BY <3>1, <3>2
    <2> QED BY <2>1, <2>2, <2>3
<1>3. Joiners' /\ Passed' /\ OneAtATime'
    <2>1. CASE MainDelete
        <3>1. UNCHANGED <<joinable, joiner, stop_at, terminated, interrupted>>
            BY <2>1 DEF MainDelete, loopVars
        <3>2. CASE check_shutdown_complete
            <4>1. UNCHANGED <<stop_pc, overlapped>>
                BY <2>1, <3>2 DEF MainDelete
            <4> QED BY <3>1, <4>1 DEF JoinInv, Joiners, Passed, OneAtATime, UnderWay
        <3>3. CASE ~check_shutdown_complete
            <4>1. Begins("destructor") /\ main = "delete"
                BY <2>1, <3>3 DEF MainDelete
            <4>2. stop_pc["destructor"] = "idle"
                BY <4>1 DEF JoinInv, GenInv, CallersPlaced
            <4>3. UnderWay("second")' /\ ~overlapped' => interrupted' \notin Plugins
                BY <3>1, <4>1 DEF JoinInv, GenInv, TypeOK, OneAtATime, UnderWay, Begins, Callers
            <4> QED BY <3>1, <4>1, <4>2, <4>3, CallBegins DEF Callers
        <3> QED BY <3>2, <3>3
    <2>2. CASE MainStart
        <3>1. /\ stop_pc["handler"] = "idle" /\ next \in Plugins
              /\ joinable' = [joinable EXCEPT ![next] = next \in Threadloops]
              /\ UNCHANGED <<joiner, stop_pc, stop_at, terminated, interrupted, overlapped>>
            BY <2>2, LifecycleAssumption
            DEF MainStart, MainRuns, AllStarted, envVars, stopVars, JoinInv, GenInv, TypeOK,
                Plugins
        <3>2. ~joinable[next]
            BY <3>1 DEF JoinInv, Threads, Plugins
        <3>3. \A i \in Plugins : joinable[i] => joinable'[i]
            BY <3>1, <3>2 DEF JoinInv, GenInv, TypeOK
        <3>4. \A c \in Callers : stop_pc[c] \in {"join", "joining"} => stop_at[c] \in Plugins
            BY LifecycleAssumption DEF JoinInv, GenInv, TypeOK, JoinsLoaded, Plugins
        <3> QED BY <3>1, <3>3, <3>4 DEF JoinInv, Joiners, Passed, OneAtATime, UnderWay
    <2>3. CASE ~MainDelete /\ ~MainStart
        <3>1. UNCHANGED <<joinable, joiner, stop_pc, stop_at, terminated, interrupted,
                         overlapped>>
            BY <2>3 DEF MainStep, MainConstruct, MainConstructThrows, MainStartThrows,
                        MainSignalReady, MainNotifyReady, MainSpawn, MainWait, MainCancel,
                        MainJoin, MainStopped, MainDestroy, envVars, loopVars, stopVars
        <3> QED BY <3>1 DEF JoinInv, Joiners, Passed, OneAtATime, UnderWay
    <2> QED BY <2>1, <2>2, <2>3
<1> QED BY <1>1, <1>2, <1>3 DEF JoinInv

\* After the handler's call has stopped everything only th and threads outside the model
\* are left to take a signal, and while it has not the calls overlap.
LEMMA JoinSignal ==
  ASSUME JoinInv, Sigint \/ (\E t \in Takers : SecondSigint(t)) PROVE JoinInv'
<1>1. GenInv'
    BY GenSignal DEF JoinInv
<1>2. CASE Sigint
    <2>1. /\ stop_pc["handler"] = "idle" /\ Begins("handler")
          /\ UNCHANGED <<loadVars, thread, joinable, joiner, stop_at, terminated, interrupted>>
        BY <1>2 DEF Sigint, MainRuns, loopVars
    <2>2. UnderWay("second")' /\ ~overlapped' => interrupted' \notin Plugins
        BY <2>1 DEF JoinInv, GenInv, TypeOK, OneAtATime, UnderWay, Begins, Callers
    <2>3. Joiners' /\ Passed' /\ OneAtATime'
        BY <2>1, <2>2, CallBegins DEF Callers
    <2>4. Loading' /\ Threads'
        BY <2>1 DEF JoinInv, Loading, Threads, loadVars
    <2> QED BY <1>1, <2>3, <2>4 DEF JoinInv
<1>3. ASSUME NEW t \in Takers, SecondSigint(t) PROVE JoinInv'
    <2>1. /\ stop_pc["handler"] # "idle" /\ stop_pc["second"] = "idle" /\ Begins("second")
          /\ interrupted' = t
          /\ t \in Plugins => t \in Threadloops /\ thread[t] \notin {"none", "exited"}
          /\ UNCHANGED <<loadVars, thread, joinable, joiner, stop_at, terminated>>
        BY <1>3, LifecycleAssumption DEF SecondSigint, loopVars, Driver, Th, Plugins
    <2>2. ASSUME ~overlapped' PROVE interrupted' \notin Plugins
        <3>1. ~UnderWay("handler")
            BY <2>1, <2>2 DEF Begins, Callers
        <3>2. stop_pc["handler"] = "notify"
            BY <2>1, <3>1 DEF UnderWay, JoinInv, GenInv, TypeOK, Callers
        <3>3. \A i \in Plugins : thread[i] \in {"none", "exited"}
            BY <3>2 DEF JoinInv, Passed, Threads
        <3> QED BY <2>1, <3>3
    <2>3. Joiners' /\ Passed' /\ OneAtATime'
        BY <2>1, <2>2, CallBegins DEF Callers
    <2>4. Loading' /\ Threads'
        BY <2>1 DEF JoinInv, Loading, Threads, loadVars
    <2> QED BY <1>1, <2>3, <2>4 DEF JoinInv
<1> QED BY <1>2, <1>3

LEMMA JoinThread ==
  ASSUME JoinInv, NEW i \in Plugins, ThreadStep(i) \/ SpuriousWake(i) PROVE JoinInv'
<1>1. GenInv'
    BY GenThread DEF JoinInv
<1>2. UNCHANGED <<loadVars, joinable, joiner, stop_pc, stop_at, terminated, interrupted,
                  overlapped>>
    BY DEF ThreadStep, ThreadWait, ThreadCheck, ThreadIterate, SpuriousWake, envVars, stopVars
<1>3. /\ thread[i] \notin {"none", "exited"}
      /\ \E a \in {"waiting", "blocked", "check", "iterate", "exited"} :
           thread' = [thread EXCEPT ![i] = a]
    BY DEF ThreadStep, ThreadWait, AfterWait, ThreadCheck, ThreadIterate, SpuriousWake
<1>4. Loading' /\ Joiners' /\ Passed' /\ OneAtATime'
    BY <1>2 DEF JoinInv, Loading, Joiners, Passed, OneAtATime, UnderWay, loadVars
<1>5. Threads'
    BY <1>2, <1>3 DEF JoinInv, GenInv, TypeOK, Threads, loadVars
<1> QED BY <1>1, <1>4, <1>5 DEF JoinInv

LEMMA JoinTimer == ASSUME JoinInv, TimerStep PROVE JoinInv'
<1>1. GenInv'
    BY GenTimer DEF JoinInv
<1>2. UNCHANGED <<loadVars, thread, joinable, joiner, stop_at, terminated, interrupted>>
    BY DEF TimerStep, TimerWake, TimerEnd, envVars, loopVars, stopVars
<1>3. Loading' /\ Threads'
    BY <1>2 DEF JoinInv, Loading, Threads, loadVars
<1>4. CASE TimerWake
    <2>1. stop_pc["timer"] = "idle" /\ Begins("timer")
        BY <1>4 DEF TimerWake, JoinInv, GenInv, CallersPlaced
    <2>2. UnderWay("second")' /\ ~overlapped' => interrupted' \notin Plugins
        BY <1>2, <2>1 DEF JoinInv, GenInv, TypeOK, OneAtATime, UnderWay, Begins, Callers
    <2> QED BY <1>1, <1>2, <1>3, <2>1, <2>2, CallBegins DEF Callers, JoinInv
<1>5. CASE TimerEnd
    <2>1. UNCHANGED <<stop_pc, overlapped>>
        BY <1>5 DEF TimerEnd, envVars, stopVars
    <2>2. Joiners' /\ Passed' /\ OneAtATime'
        BY <1>2, <2>1 DEF JoinInv, Joiners, Passed, OneAtATime, UnderWay
    <2> QED BY <1>1, <1>3, <2>2 DEF JoinInv
<1> QED BY <1>4, <1>5 DEF TimerStep

\* A step of call c that neither joins nor ends a join.
LEMMA CallGoesOn ==
  ASSUME JoinInv, NEW c \in Callers, stop_pc[c] # "joining",
         UNCHANGED <<joinable, joiner, interrupted, overlapped, terminated>>,
         NEW pc, NEW at, pc \notin {"signal", "joining"},
         stop_pc' = [stop_pc EXCEPT ![c] = pc], stop_at' = [stop_at EXCEPT ![c] = at],
         pc \in {"idle", "notify"} \/ UnderWay(c),
         pc = "join" => joinable[at],
         pc \in {"plugin", "join"} => \A j \in Plugins :
           j < at /\ c = "handler" => ~joinable[j],
         pc = "notify" /\ c = "handler" => \A j \in Plugins : ~joinable[j]
  PROVE  Joiners' /\ Passed' /\ OneAtATime'
<1> USE DEF JoinInv, GenInv, TypeOK, Joiners, Passed, OneAtATime, UnderWay
<1>1. /\ \A d \in Callers : stop_pc'[d] = IF d = c THEN pc ELSE stop_pc[d]
      /\ \A d \in Callers : stop_at'[d] = IF d = c THEN at ELSE stop_at[d]
    OBVIOUS
<1>2. "handler" \in Callers /\ \A i \in Plugins : joiner[i] # "nobody" => joiner[i] \in Callers
    BY DEF Callers
<1>3. Joiners'
    BY <1>1, <1>2
<1>4. Passed'
    BY <1>1, <1>2
<1>5. OneAtATime'
    BY <1>1
<1> QED BY <1>3, <1>4, <1>5

LEMMA JoinStop == ASSUME JoinInv, NEW c \in Callers, StopStep(c) PROVE JoinInv'
<1>1. GenInv'
    BY GenStop DEF JoinInv
<1>2. /\ stop_pc \in [Callers -> {"idle", "signal", "switchboard", "plugin", "join",
                                  "joining", "notify"}]
      /\ stop_at \in [Callers -> 1..(N + 1)] /\ N \in Nat
      /\ joinable \in [Plugins -> BOOLEAN] /\ joiner \in [Plugins -> Callers \cup {"nobody"}]
    BY LifecycleAssumption DEF JoinInv, GenInv, TypeOK
<1>3. stop_pc = [stop_pc EXCEPT ![c] = stop_pc[c]] /\ stop_at = [stop_at EXCEPT ![c] = stop_at[c]]
    BY <1>2
<1>4. UNCHANGED <<next, loaded, thread, interrupted, overlapped>>
    BY DEF StopStep, StopSignal, StopSwitchboard, StopPlugin, StopJoin, StopJoined,
           StopComplete, StopNotify, loadVars, loopVars, envVars
<1>5. Loading'
    <2>1. main' = main \/ (main = "blocked" /\ main' = "wait")
        BY DEF StopStep, StopSignal, StopSwitchboard, StopPlugin, StopJoin, StopJoined,
               StopComplete, StopNotify, loadVars
    <2> QED BY <1>4, <2>1 DEF JoinInv, Loading, Starting, Loads
<1>6. CASE StopSignal(c)
    <2>1. /\ stop_pc[c] = "signal" /\ stop_pc' = [stop_pc EXCEPT ![c] = "switchboard"]
          /\ UNCHANGED <<joinable, joiner, stop_at, terminated>>
        BY <1>6 DEF StopSignal, loopVars
    <2>2. Joiners' /\ Passed' /\ OneAtATime'
        BY <1>3, <1>4, <2>1, CallGoesOn DEF UnderWay
    <2> QED BY <1>1, <1>4, <1>5, <2>1, <2>2 DEF JoinInv, Threads
<1>7. CASE StopSwitchboard(c)
    <2>1. /\ stop_pc[c] = "switchboard" /\ stop_pc' = [stop_pc EXCEPT ![c] = "plugin"]
          /\ stop_at' = [stop_at EXCEPT ![c] = 1]
          /\ UNCHANGED <<joinable, joiner, terminated>>
        BY <1>7 DEF StopSwitchboard, loopVars
    <2>2. \A j \in Plugins : ~(j < 1)
        BY <1>2 DEF Plugins
    <2>3. Joiners' /\ Passed' /\ OneAtATime'
        BY <1>4, <2>1, <2>2, CallGoesOn DEF UnderWay
    <2> QED BY <1>1, <1>4, <1>5, <2>1, <2>3 DEF JoinInv, Threads
<1>8. CASE StopPlugin(c)
    <2> DEFINE i == stop_at[c]
    <2>1. /\ stop_pc[c] = "plugin" /\ i \in Int
          /\ UNCHANGED <<joinable, joiner, terminated>>
        BY <1>2, <1>8 DEF StopPlugin, loopVars
    <2>2. c = "handler" => \A j \in Plugins : j < i => ~joinable[j]
        BY <2>1 DEF JoinInv, Passed
    <2>3. CASE joinable[i]
        <3>1. stop_pc' = [stop_pc EXCEPT ![c] = "join"] /\ stop_at' = stop_at
            BY <1>8, <2>3 DEF StopPlugin, Joinable
        <3>2. Joiners' /\ Passed' /\ OneAtATime'
            BY <1>3, <1>4, <2>1, <2>2, <2>3, <3>1, CallGoesOn DEF UnderWay
        <3> QED BY <1>1, <1>4, <1>5, <2>1, <3>2 DEF JoinInv, Threads
    <2>4. CASE ~joinable[i]
        <3>1. stop_at' = [stop_at EXCEPT ![c] = i + 1] /\ stop_pc' = stop_pc
            BY <1>8, <2>4 DEF StopPlugin, Joinable
        <3>2. c = "handler" => \A j \in Plugins : j < i + 1 => ~joinable[j]
            BY <1>2, <2>1, <2>2, <2>4 DEF Plugins
        <3>3. Joiners' /\ Passed' /\ OneAtATime'
            BY <1>3, <1>4, <2>1, <3>1, <3>2, CallGoesOn DEF UnderWay
        <3> QED BY <1>1, <1>4, <1>5, <2>1, <3>3 DEF JoinInv, Threads
    <2> QED BY <2>3, <2>4
<1>9. CASE StopJoin(c)
    <2> DEFINE i == stop_at[c]
    <2>1. i \in Plugins /\ stop_pc[c] = "join" /\ UNCHANGED <<joinable, stop_at>>
        BY <1>2, <1>9 DEF StopJoin, JoinInv, GenInv, TypeOK, JoinsLoaded, Plugins
    <2> DEFINE joins == joinable[i] /\ joiner[i] = "nobody"
                          /\ ~(c = "second" /\ interrupted = i)
    <2>2. CASE joins
        <3>1. joinable[i] /\ joiner[i] = "nobody"
            BY <2>2
        <3>2. /\ joiner' = [joiner EXCEPT ![i] = c]
              /\ stop_pc' = [stop_pc EXCEPT ![c] = "joining"]
              /\ terminated' = terminated
            BY <1>9, <2>2 DEF StopJoin
        <3>3. /\ \A d \in Callers : stop_pc'[d] = IF d = c THEN "joining" ELSE stop_pc[d]
              /\ \A k \in Plugins : joiner'[k] = IF k = i THEN c ELSE joiner[k]
            BY <1>2, <3>2
        <3>4. Joiners'
            <4>1. \A k \in Plugins :
                    joiner[k] # "nobody" => joiner[k] \in Callers /\ joiner[k] # c
                BY <1>2, <2>1 DEF JoinInv, Joiners
            <4>2. \A d \in Callers : d # c /\ stop_pc[d] = "joining" => stop_at[d] # i
                BY <2>1, <3>1 DEF JoinInv, Joiners, Callers
            <4>3. \A d \in Callers : stop_pc[d] = "joining" => stop_at[d] \in Plugins
                BY <1>2 DEF JoinInv, GenInv, TypeOK, JoinsLoaded, Plugins
            <4> QED BY <2>1, <3>1, <3>3, <4>1, <4>2, <4>3 DEF JoinInv, Joiners
        <3>5. Passed'
            BY <2>1, <3>3 DEF JoinInv, Passed, Callers
        <3>6. OneAtATime'
            BY <1>4, <2>1, <3>2, <3>3 DEF JoinInv, OneAtATime, UnderWay, Callers
        <3> QED BY <1>1, <1>4, <1>5, <2>1, <3>4, <3>5, <3>6 DEF JoinInv, Threads
    <2>3. CASE ~joins
        <3>1. terminated' = TRUE /\ UNCHANGED <<joiner, stop_pc>>
            BY <1>9, <2>3 DEF StopJoin
        <3>2. overlapped
            <4> SUFFICES ASSUME ~overlapped PROVE FALSE
                OBVIOUS
            <4>1. joinable[i] /\ UnderWay(c) /\ (c = "second" => interrupted # i)
                BY <2>1 DEF JoinInv, OneAtATime, UnderWay
            <4>2. joiner[i] # "nobody"
                BY <2>3, <4>1
            <4>3. joiner[i] \in Callers /\ joiner[i] # c /\ UnderWay(joiner[i])
                BY <1>2, <2>1, <4>2 DEF JoinInv, Joiners, UnderWay
            <4> QED BY <4>1, <4>3 DEF JoinInv, OneAtATime
        <3>3. Joiners' /\ Passed' /\ OneAtATime'
            BY <1>4, <2>1, <3>1, <3>2 DEF JoinInv, Joiners, Passed, OneAtATime
        <3> QED BY <1>1, <1>4, <1>5, <2>1, <3>3 DEF JoinInv, Threads
    <2> QED BY <2>2, <2>3
<1>10. CASE StopJoined(c)
    <2> DEFINE i == stop_at[c]
    <2>1. /\ i \in Plugins /\ stop_pc[c] = "joining" /\ joiner[i] = c /\ joinable[i]
          /\ thread[i] = "exited"
        BY <1>2, <1>10 DEF StopJoined, Joined, JoinInv, GenInv, JoinsLoaded, TypeOK, Plugins,
                           Joiners
    <2>2. /\ joinable' = [joinable EXCEPT ![i] = FALSE]
          /\ joiner' = [joiner EXCEPT ![i] = "nobody"]
          /\ stop_pc' = [stop_pc EXCEPT ![c] = "plugin"]
          /\ stop_at' = [stop_at EXCEPT ![c] = i + 1]
          /\ terminated' = terminated
        BY <1>10 DEF StopJoined
    <2>3. /\ \A d \in Callers : /\ stop_pc'[d] = IF d = c THEN "plugin" ELSE stop_pc[d]
                                /\ stop_at'[d] = IF d = c THEN i + 1 ELSE stop_at[d]
          /\ \A k \in Plugins : /\ joiner'[k] = IF k = i THEN "nobody" ELSE joiner[k]
                                /\ joinable'[k] = IF k = i THEN FALSE ELSE joinable[k]
        BY <1>2, <2>2
    <2>4. Threads'
        BY <1>4, <2>1, <2>3 DEF JoinInv, Threads
    <2>5. \A d \in Callers : stop_pc[d] \in {"join", "joining"} => stop_at[d] \in Plugins
        BY <1>2 DEF JoinInv, GenInv, TypeOK, JoinsLoaded, Plugins
    <2>6. Joiners'
        <3>1. \A k \in Plugins :
                k # i /\ joiner[k] # "nobody" => joiner[k] \in Callers /\ joiner[k] # c
            BY <1>2, <2>1 DEF JoinInv, Joiners
        <3>2. \A d \in Callers : d # c /\ stop_pc[d] = "joining" => stop_at[d] # i
            BY <2>1 DEF JoinInv, Joiners
        <3>3. ASSUME NEW k \in Plugins, joiner'[k] # "nobody"
              PROVE  stop_pc'[joiner'[k]] = "joining" /\ stop_at'[joiner'[k]] = k
            <4>1. k # i /\ joiner'[k] = joiner[k]
                BY <2>3, <3>3
            <4> QED BY <2>3, <3>1, <3>3, <4>1 DEF JoinInv, Joiners
        <3>4. ASSUME NEW d \in Callers, stop_pc'[d] = "joining"
              PROVE  joiner'[stop_at'[d]] = d /\ joinable'[stop_at'[d]]
            <4>1. d # c /\ stop_pc[d] = "joining" /\ stop_at'[d] = stop_at[d]
                BY <2>3, <3>4
            <4>2. stop_at[d] # i /\ stop_at[d] \in Plugins
                BY <2>5, <3>2, <4>1
            <4>3. joiner[stop_at[d]] = d /\ joinable[stop_at[d]]
                BY <4>1 DEF JoinInv, Joiners
            <4>4. /\ joiner'[stop_at[d]] = joiner[stop_at[d]]
                  /\ joinable'[stop_at[d]] = joinable[stop_at[d]]
                BY <2>3, <4>2
            <4> QED BY <4>1, <4>3, <4>4
        <3> QED BY <3>3, <3>4 DEF Joiners
    <2>7. Passed'
        <3>1. \A k \in Plugins : joinable'[k] => joinable[k]
            BY <2>3
        <3>2. CASE c = "handler"
            <4>1. \A j \in Plugins : j < i + 1 => ~joinable'[j]
                <5> SUFFICES ASSUME NEW j \in Plugins, j < i + 1, j # i PROVE ~joinable[j]
                    BY <2>3
                <5>1. i \in Int /\ j \in Int
                    BY <1>2, <2>1 DEF Plugins
                <5>2. j < i
                    BY <5>1
                <5> QED BY <2>1, <3>2, <5>2 DEF JoinInv, Passed
            <4> QED BY <2>3, <3>2, <4>1 DEF Passed, Callers
        <3>3. CASE c # "handler"
            BY <2>3, <3>1, <3>3 DEF JoinInv, Passed, Callers
        <3> QED BY <3>2, <3>3
    <2>8. OneAtATime'
        <3> SUFFICES ASSUME ~overlapped PROVE OneAtATime'
            BY <1>4 DEF OneAtATime
        <3>1. \A d \in Callers : d # c => ~UnderWay(d)
            BY <2>1 DEF JoinInv, OneAtATime, UnderWay
        <3>2. \A d \in Callers : UnderWay(d)' => d = c
            BY <2>3, <3>1 DEF UnderWay
        <3>3. \A d \in Callers : stop_pc'[d] # "join"
            BY <2>3, <3>2 DEF UnderWay
        <3> QED BY <1>4, <2>1, <2>2, <2>3, <3>2, <3>3 DEF JoinInv, OneAtATime, UnderWay, Callers
    <2> QED BY <1>1, <1>5, <2>4, <2>6, <2>7, <2>8 DEF JoinInv
<1>11. CASE StopComplete(c)
    <2>1. /\ stop_pc[c] = "plugin" /\ stop_at[c] > loaded
          /\ stop_pc' = [stop_pc EXCEPT ![c] = "notify"]
          /\ UNCHANGED <<joinable, joiner, stop_at, terminated>>
        BY <1>11 DEF StopComplete, loopVars
    <2>2. c = "handler" => \A j \in Plugins : ~joinable[j]
        <3> SUFFICES ASSUME c = "handler", NEW j \in Plugins, joinable[j] PROVE FALSE
            OBVIOUS
        <3>1. j < next /\ j \in 1..N /\ next \in Int
            BY DEF JoinInv, Threads, Plugins, GenInv, TypeOK
        <3>2. loaded = N
            BY <3>1 DEF JoinInv, Loading
        <3>3. j < stop_at[c]
            BY <1>2, <2>1, <3>1, <3>2
        <3> QED BY <2>1, <3>3 DEF JoinInv, Passed
    <2>3. Joiners' /\ Passed' /\ OneAtATime'
        BY <1>3, <1>4, <2>1, <2>2, CallGoesOn DEF UnderWay
    <2> QED BY <1>1, <1>4, <1>5, <2>1, <2>3 DEF JoinInv, Threads
<1>12. CASE StopNotify(c)
    <2>1. /\ stop_pc[c] = "notify" /\ stop_pc' = [stop_pc EXCEPT ![c] = "idle"]
          /\ UNCHANGED <<joinable, joiner, stop_at, terminated>>
        BY <1>12 DEF StopNotify, loopVars
    <2>2. Joiners' /\ Passed' /\ OneAtATime'
        BY <1>3, <1>4, <2>1, CallGoesOn DEF UnderWay
    <2> QED BY <1>1, <1>4, <1>5, <2>1, <2>2 DEF JoinInv, Threads
<1> QED BY <1>6, <1>7, <1>8, <1>9, <1>10, <1>11, <1>12 DEF StopStep

LEMMA JoinNext == ASSUME JoinInv, [Next]_vars PROVE JoinInv'
<1>1. Threadloops \subseteq Plugins
    BY LifecycleAssumption
<1>2. CASE UNCHANGED vars
    BY <1>2, GenStutter
    DEF JoinInv, Loading, Threads, Joiners, Passed, OneAtATime, UnderWay, vars, envVars,
        loadVars, loopVars, stopVars
<1> QED BY <1>1, <1>2, JoinMain, JoinSignal, JoinThread, JoinStop, JoinTimer DEF Next, Finished

\* The joins of the shutdown, whatever ends the run and whoever calls stop().
THEOREM JoinInductive == Spec => []JoinInv
<1>1. JoinInv /\ [Next]_vars => JoinInv'
    BY JoinNext
<1> QED BY <1>1, JoinInitial, PTL DEF Spec

\* stop() does not terminate the process in a join() unless calls of it have overlapped,
\* for any number of plugins and SIGINTs, at any time, and any end of the run.
THEOREM JoinsNeverCollide == Spec => []NoJoinConflict
<1>1. JoinInv => NoJoinConflict
    BY DEF JoinInv, OneAtATime, NoJoinConflict
<1> QED BY <1>1, JoinInductive, PTL

----------------------------------------------------------------------------
(* How often a plugin is stopped.                                          *)

\* Whether call c of stop() has yet to stop plugin i.
Pending ==
  [c \in Callers |-> [i \in Plugins |->
    IF \/ stop_pc[c] \in {"signal", "switchboard"}
       \/ stop_pc[c] = "plugin" /\ stop_at[c] <= i
       \/ stop_pc[c] \in {"join", "joining"} /\ stop_at[c] < i
    THEN 1 ELSE 0]]

AllPending(i) ==
  Pending["handler"][i] + Pending["second"][i] + Pending["timer"][i] + Pending["destructor"][i]

\* How many calls th and the destructor have made: it is one or the other.
OwnCalls ==
  IF timer \in {"stop", "ended"} \/ (timer = "none" /\ main \in {"stop", "destroy", "returned"})
  THEN 1 ELSE 0

\* The destructor calls stop() only where th was never spawned.
Returning ==
  /\ main \in {"cancel", "join"} => shutdown_complete
  /\ main = "delete" /\ ~shutdown_complete => timer = "none"

\* Every call stops a plugin once.
Counted == \A i \in Plugins : stops[i] + AllPending(i) <= signals + OwnCalls

CountInv == GenInv /\ Returning /\ Counted

\* What the steps of one call of stop() do to the count.
LEMMA CountStop ==
  ASSUME CountInv, NEW i \in Plugins, NEW c \in Callers, StopStep(c)
  PROVE  /\ stops'[i] \in Nat /\ stops'[i] + Pending'[c][i] <= stops[i] + Pending[c][i]
         /\ \A d \in Callers : d # c => Pending'[d][i] = Pending[d][i]
<1> USE LifecycleAssumption
    DEF CountInv, GenInv, TypeOK, Plugins, Callers, Pending, loadVars, lightVars,
        loopVars, stopVars, timerVars
<1>1. CASE StopSignal(c)
    BY <1>1 DEF StopSignal
<1>2. CASE StopSwitchboard(c)
    BY <1>2 DEF StopSwitchboard
<1>3. CASE StopPlugin(c)
    <2> DEFINE k == stop_at[c]
    <2>1. k \in Plugins /\ k + 1 \in 1..(N + 1) /\ stop_pc[c] = "plugin"
        <3>1. k \in 1..(N + 1) /\ loaded \in 0..N /\ N \in Nat
            BY Zenon
        <3>2. k <= loaded /\ stop_pc[c] = "plugin"
            BY ONLY <1>3 DEF StopPlugin
        <3> QED BY ONLY <3>1, <3>2 DEF Plugins
    <2>2. stops' = [stops EXCEPT ![k] = stops[k] + 1]
        BY <1>3 DEF StopPlugin
    <2>3. \A d \in Callers : d # c => stop_pc'[d] = stop_pc[d] /\ stop_at'[d] = stop_at[d]
        BY <1>3 DEF StopPlugin
    <2>4. \/ stop_pc'[c] = "join" /\ stop_at'[c] = k
          \/ stop_pc'[c] = "plugin" /\ stop_at'[c] = k + 1
        BY <1>3 DEF StopPlugin
    <2>5. /\ Pending[c][i] = IF k <= i THEN 1 ELSE 0
          /\ Pending'[c][i] = IF k < i THEN 1 ELSE 0
        <3>1. Pending'[c][i] = IF \/ stop_pc'[c] = "plugin" /\ stop_at'[c] <= i
                                  \/ stop_pc'[c] = "join" /\ stop_at'[c] < i THEN 1 ELSE 0
            BY <2>1, <2>4
        <3>2. i \in Int /\ k \in Int
            BY <2>1
        <3>3. Pending'[c][i] = IF k < i THEN 1 ELSE 0
            BY ONLY <2>4, <3>1, <3>2
        <3> QED BY <2>1, <3>3
    <2>6. stops'[i] = (IF i = k THEN stops[i] + 1 ELSE stops[i]) /\ stops[i] \in Nat
        BY <2>1, <2>2
    <2>7. stops'[i] \in Nat /\ stops'[i] + Pending'[c][i] <= stops[i] + Pending[c][i]
        <3>1. i \in Int /\ k \in Int
            BY <2>1
        <3> QED BY ONLY <2>5, <2>6, <3>1
    <2>8. \A d \in Callers : d # c => Pending'[d][i] = Pending[d][i]
        BY ONLY <2>3, i \in Plugins DEF Pending
    <2> QED BY ONLY <2>7, <2>8
<1>4. CASE StopJoin(c)
    <2>1. /\ UNCHANGED <<stop_at, stops>>
          /\ stop_pc[c] = "join"
          /\ stop_pc' \in {stop_pc, [stop_pc EXCEPT ![c] = "joining"]}
        BY <1>4 DEF StopJoin
    <2>2. \A d \in Callers : Pending'[d][i] = Pending[d][i]
        BY <2>1
    <2>3. Pending[c][i] \in {0, 1} /\ stops[i] \in Nat /\ stops'[i] = stops[i]
        BY <2>1
    <2> QED BY ONLY <2>2, <2>3, c \in Callers
<1>5. CASE StopJoined(c)
    BY <1>5 DEF StopJoined
<1>6. CASE StopComplete(c)
    BY <1>6 DEF StopComplete
<1>7. CASE StopNotify(c)
    BY <1>7 DEF StopNotify
<1> QED BY <1>1, <1>2, <1>3, <1>4, <1>5, <1>6, <1>7 DEF StopStep

\* A call that begins has every plugin before it.
LEMMA CountBegins ==
  ASSUME TypeOK, NEW i \in Plugins, NEW c \in Callers, stop_pc[c] = "idle", Begins(c),
         stop_at' = stop_at
  PROVE  AllPending(i)' = AllPending(i) + 1
<1>1. \A d \in Callers : stop_pc'[d] = IF d = c THEN "signal" ELSE stop_pc[d]
    BY DEF TypeOK, Begins
<1>2. Pending[c][i] = 0 /\ Pending'[c][i] = 1
    BY <1>1 DEF Pending
<1>3. \A d \in Callers : d # c => Pending'[d][i] = Pending[d][i]
    BY <1>1 DEF Pending
<1>4. \A d \in Callers : Pending[d][i] \in {0, 1}
    BY DEF Pending
<1> QED BY <1>2, <1>3, <1>4 DEF AllPending, Callers

LEMMA CountNext == ASSUME CountInv, [Next]_vars PROVE (Returning /\ Counted)'
<1> USE DEF CountInv
<1>1. Returning'
    <2> USE DEF GenInv, TypeOK, CallersPlaced, Returning, Starting, Loads, lightVars, timerVars,
                loadVars, envVars
    <2>1. ASSUME MainStep PROVE Returning'
        BY <2>1 DEF MainStep, MainConstruct, MainConstructThrows, MainStart, MainStartThrows,
                    MainSignalReady, MainNotifyReady, MainSpawn, MainWait, AfterWait,
                    MainCancel, MainJoin, MainDelete, MainStopped, MainDestroy
    <2>2. ASSUME Sigint \/ (\E t \in Takers : SecondSigint(t)) PROVE Returning'
        BY <2>2 DEF Sigint, SecondSigint
    <2>3. ASSUME NEW j \in Threadloops, ThreadStep(j) \/ SpuriousWake(j) PROVE Returning'
        BY <2>3 DEF ThreadStep, ThreadWait, ThreadCheck, ThreadIterate, SpuriousWake
    <2>4. ASSUME NEW c \in Callers, StopStep(c) PROVE Returning'
        BY <2>4 DEF StopStep, StopSignal, StopSwitchboard, StopPlugin, StopJoin, StopJoined,
                    StopComplete, StopNotify
    <2>5. ASSUME TimerStep PROVE Returning'
        BY <2>5 DEF TimerStep, TimerWake, TimerEnd
    <2>6. ASSUME UNCHANGED vars PROVE Returning'
        BY <2>6 DEF vars
    <2> QED BY <2>1, <2>2, <2>3, <2>4, <2>5, <2>6 DEF Next, Finished
<1> SUFFICES ASSUME NEW i \in Plugins
             PROVE  stops'[i] + AllPending(i)' <= signals' + OwnCalls'
    BY <1>1 DEF Counted
<1>2. stops[i] + AllPending(i) <= signals + OwnCalls
    BY DEF Counted
<1>3. /\ stops[i] \in Nat /\ signals \in Nat /\ AllPending(i) \in Nat
      /\ OwnCalls \in {0, 1} /\ OwnCalls' \in {0, 1}
    <2>1. \A c \in Callers : Pending[c][i] \in {0, 1}
        BY DEF Pending
    <2> QED BY <2>1, LifecycleAssumption DEF GenInv, TypeOK, AllPending, OwnCalls, Callers
<1>4. CASE UNCHANGED <<stopVars, signals>> /\ OwnCalls' >= OwnCalls
    <2>1. AllPending(i)' = AllPending(i) /\ stops' = stops /\ signals' = signals
        BY <1>4 DEF AllPending, Pending, stopVars
    <2> QED BY ONLY <1>2, <1>3, <1>4, <2>1
<1>5. CASE Sigint \/ \E t \in Takers : SecondSigint(t)
    <2>1. PICK c \in Callers : stop_pc[c] = "idle" /\ Begins(c)
        BY <1>5 DEF Sigint, MainRuns, SecondSigint, Callers
    <2>2. UNCHANGED <<stop_at, stops>> /\ signals' = signals + 1 /\ OwnCalls' = OwnCalls
        BY <1>5 DEF Sigint, SecondSigint, loadVars, timerVars, OwnCalls
    <2>3. AllPending(i)' = AllPending(i) + 1
        BY <2>1, <2>2, CountBegins DEF GenInv
    <2> QED BY ONLY <1>2, <1>3, <2>2, <2>3
<1>6. CASE TimerWake
    <2>1. /\ UNCHANGED <<stop_at, stops, signals>> /\ Begins("timer")
          /\ OwnCalls = 0 /\ OwnCalls' = 1
        BY <1>6 DEF TimerWake, OwnCalls
    <2>2. stop_pc["timer"] = "idle"
        BY <1>6 DEF TimerWake, GenInv, CallersPlaced
    <2>3. AllPending(i)' = AllPending(i) + 1
        BY <2>1, <2>2, CountBegins DEF GenInv, Callers
    <2> QED BY ONLY <1>2, <1>3, <2>1, <2>3
<1>7. CASE MainDelete
    <2>1. CASE shutdown_complete
        <3>1. UNCHANGED <<stopVars, signals>> /\ OwnCalls' >= OwnCalls
            BY <1>7, <2>1 DEF MainDelete, check_shutdown_complete, OwnCalls, timerVars, stopVars
        <3> QED BY <3>1, <1>4
    <2>2. CASE ~shutdown_complete
        <3>1. /\ UNCHANGED <<stop_at, stops, signals>> /\ Begins("destructor")
              /\ OwnCalls = 0 /\ OwnCalls' = 1
            BY <1>7, <2>2 DEF MainDelete, check_shutdown_complete, Returning, OwnCalls, timerVars
        <3>2. stop_pc["destructor"] = "idle"
            BY <1>7 DEF MainDelete, GenInv, CallersPlaced
        <3>3. AllPending(i)' = AllPending(i) + 1
            BY <3>1, <3>2, CountBegins DEF GenInv, Callers
        <3> QED BY ONLY <1>2, <1>3, <3>1, <3>3
    <2> QED BY <2>1, <2>2
<1>8. ASSUME NEW c \in Callers, StopStep(c)
      PROVE  stops'[i] + AllPending(i)' <= signals' + OwnCalls'
    <2>1. signals' = signals /\ OwnCalls' = OwnCalls
        BY <1>8 DEF StopStep, StopSignal, StopSwitchboard, StopPlugin, StopJoin, StopJoined,
                    StopComplete, StopNotify, OwnCalls, envVars, loadVars, timerVars
    <2>2. /\ stops'[i] \in Nat /\ stops'[i] + Pending'[c][i] <= stops[i] + Pending[c][i]
          /\ \A d \in Callers : d # c => Pending'[d][i] = Pending[d][i]
        BY <1>8, CountStop
    <2>3. \A d \in Callers : Pending[d][i] \in {0, 1} /\ Pending'[d][i] \in {0, 1}
        BY DEF Pending
    <2>4. stops'[i] + AllPending(i)' <= stops[i] + AllPending(i)
        BY ONLY <1>3, <2>2, <2>3, c \in Callers DEF AllPending, Callers
    <2>5. AllPending(i)' \in Nat
        BY ONLY <2>3 DEF AllPending, Callers
    <2> QED BY ONLY <1>2, <1>3, <2>1, <2>2, <2>4, <2>5
<1>9. CASE MainStep /\ ~MainDelete
    <2>1. UNCHANGED <<stopVars, signals>>
        BY <1>9 DEF MainStep, MainConstruct, MainConstructThrows, MainStart,
                    MainStartThrows, MainSignalReady, MainNotifyReady, MainSpawn, MainWait,
                    MainCancel, MainJoin, MainStopped, MainDestroy, envVars
    <2>2. OwnCalls' >= OwnCalls
        BY <1>9 DEF MainStep, MainConstruct, MainConstructThrows, MainStart,
                    MainStartThrows, MainSignalReady, MainNotifyReady, MainSpawn, MainWait,
                    AfterWait, MainCancel, MainJoin, MainStopped, MainDestroy, OwnCalls,
                    loadVars, timerVars, GenInv, CallersPlaced, Starting
    <2> QED BY <1>4, <2>1, <2>2
<1>10. CASE \/ \E j \in Threadloops : ThreadStep(j) \/ SpuriousWake(j)
            \/ TimerEnd \/ UNCHANGED vars
    <2>1. UNCHANGED <<stopVars, signals>> /\ OwnCalls' >= OwnCalls
        BY <1>10 DEF ThreadStep, ThreadWait, ThreadCheck, ThreadIterate, SpuriousWake,
                     TimerEnd, vars, OwnCalls, envVars, loadVars, timerVars
    <2> QED BY <1>4, <2>1
<1> QED
    BY <1>5, <1>6, <1>7, <1>8, <1>9, <1>10 DEF Next, TimerStep, Finished

\* stop() may be called by th or the destructor and by every SIGINT, and it calls each
\* plugin's stop() once (runtime_impl::_stop): a plugin is stopped once, and once more
\* per SIGINT at most, however the calls overlap and whatever ends the run.
THEOREM StopsCounted == Spec => []StoppedOnce
<1>1. Init => CountInv
    <2> SUFFICES ASSUME Init PROVE CountInv
        OBVIOUS
    <2>1. \A i \in Plugins : stops[i] = 0 /\ \A c \in Callers : Pending[c][i] = 0
        BY DEF Init, Pending
    <2>2. signals = 0 /\ OwnCalls = 0
        BY DEF Init, OwnCalls
    <2>3. Counted
        BY <2>1, <2>2 DEF Counted, AllPending, Callers
    <2> QED BY <2>3, GenInitial DEF CountInv, Init, Returning
<1>2. CountInv /\ [Next]_vars => CountInv'
    BY GenNext, CountNext DEF CountInv
<1>3. CountInv => StoppedOnce
    <2> SUFFICES ASSUME CountInv, NEW i \in Plugins PROVE stops[i] <= 1 + signals
        BY DEF StoppedOnce
    <2>1. \A c \in Callers : Pending[c][i] \in {0, 1}
        BY DEF Pending
    <2>2. OwnCalls \in {0, 1} /\ stops[i] \in Nat /\ signals \in Nat
        BY DEF OwnCalls, CountInv, GenInv, TypeOK
    <2> QED BY <2>1, <2>2 DEF CountInv, Counted, AllPending, Callers
<1> QED BY <1>1, <1>2, <1>3, PTL DEF Spec

----------------------------------------------------------------------------
(* A run that SIGINT does not interrupt while load_so is running.          *)

AfterStart == "early" \notin Endings

Active(c) == stop_pc[c] # "idle"

\* How far the start and the shutdown are, by where the main thread is.
Phases ==
  /\ main \in {"construct", "start"} => ~shutdown_complete
  /\ main \in Loads => \A c \in Callers : ~Active(c)
  /\ main \in {"notify", "spawn"} \cup Waiting => next > N
  /\ main \in {"cancel", "join", "destroy", "returned"} => shutdown_complete
  /\ main \in {"delete", "stop", "destroy", "returned"} => timer \in {"none", "ended"}
  /\ main = "stop" => Active("destructor") \/ shutdown_complete

\* What a call of stop() has already brought about.
CallsOf(c) ==
  /\ stop_pc[c] \notin {"idle", "signal"} => should_stop
  /\ stop_pc[c] \in {"plugin", "join", "joining", "notify"} => subscribed = {}
  /\ stop_pc[c] \in {"plugin", "join", "joining"}
       => \A j \in Plugins : j < stop_at[c] => ~joinable[j]
  /\ stop_pc[c] = "notify" => shutdown_complete

Calls == \A c \in Callers : CallsOf(c)

\* After the shutdown nothing is subscribed and nothing is left to be joined.
Complete ==
  shutdown_complete => should_stop /\ subscribed = {} /\ \A i \in Plugins : ~joinable[i]

QuietInv == JoinInv /\ Phases /\ Calls /\ Complete

LEMMA QuietInitial == Init => QuietInv
<1> SUFFICES ASSUME Init PROVE QuietInv
    OBVIOUS
<1>1. JoinInv
    BY JoinInitial
<1>2. Phases /\ Calls /\ Complete
    BY DEF Init, Phases, Calls, CallsOf, Complete, Active, Waiting, Loads, Callers
<1> QED BY <1>1, <1>2 DEF QuietInv

\* A call that begins has brought nothing about.
LEMMA QuietBegins ==
  ASSUME QuietInv, NEW c \in Callers, Begins(c),
         UNCHANGED <<lightVars, joinable, subscribed, stop_at>>
  PROVE  Calls' /\ Complete' /\ \A d \in Callers : Active(d)' <=> (d = c \/ Active(d))
<1>1. \A d \in Callers : stop_pc'[d] = IF d = c THEN "signal" ELSE stop_pc[d]
    BY DEF QuietInv, JoinInv, GenInv, TypeOK, Begins
<1> QED BY <1>1 DEF QuietInv, Calls, CallsOf, Complete, Active, lightVars

LEMMA QuietMain == ASSUME QuietInv, MainStep PROVE (Phases /\ Calls /\ Complete)'
<1> USE DEF QuietInv
<1>1. CASE MainDelete
    <2>1. /\ main = "delete" /\ UNCHANGED <<lightVars, joinable, subscribed, stop_at, timer>>
          /\ timer \in {"none", "ended"}
        BY <1>1 DEF MainDelete, loopVars, timerVars, Phases
    <2>2. CASE shutdown_complete
        <3>1. main' = "destroy" /\ stop_pc' = stop_pc
            BY <1>1, <2>2 DEF MainDelete, check_shutdown_complete
        <3> QED BY <2>1, <2>2, <3>1
                DEF Phases, Calls, CallsOf, Complete, Active, Waiting, Loads, lightVars
    <2>3. CASE ~shutdown_complete
        <3>1. main' = "stop" /\ Begins("destructor")
            BY <1>1, <2>3 DEF MainDelete, check_shutdown_complete
        <3>2. Calls' /\ Complete' /\ Active("destructor")'
            BY <2>1, <3>1, QuietBegins DEF Callers
        <3> QED BY <2>1, <3>1, <3>2 DEF Phases, Waiting, Loads
    <2> QED BY <2>2, <2>3
<1>2. CASE MainStart
    <2>1. /\ main = "start" /\ \A c \in Callers : stop_pc[c] = "idle"
          /\ UNCHANGED <<main, lightVars, stop_pc, timer>>
        BY <1>2 DEF MainStart, Phases, Loads, Active, stopVars, timerVars
    <2> QED BY <2>1 DEF Phases, Calls, CallsOf, Complete, Active, Waiting, Loads, lightVars
<1>3. CASE ~MainDelete /\ ~MainStart
    <2>1. UNCHANGED <<should_stop, shutdown_complete, joinable, subscribed, stop_pc, stop_at>>
        BY <1>3 DEF MainStep, MainConstruct, MainConstructThrows, MainStartThrows,
                    MainSignalReady, MainNotifyReady, MainSpawn, MainWait, MainCancel, MainJoin,
                    MainStopped, MainDestroy, lightVars, loopVars, stopVars
    <2>2. Calls' /\ Complete'
        BY <2>1 DEF Calls, CallsOf, Complete
    <2>3. Phases'
        BY <1>3, <2>1
        DEF MainStep, MainConstruct, MainConstructThrows, MainStartThrows, MainSignalReady,
            MainNotifyReady, MainSpawn, MainWait, AfterWait, MainCancel, MainJoin, MainStopped,
            MainDestroy, MainRuns, Phases, Active, Waiting, Loads, Starting, AllStarted,
            JoinInv, GenInv, CallersPlaced, loadVars, timerVars, Callers
    <2> QED BY <2>2, <2>3
<1> QED BY <1>1, <1>2, <1>3

LEMMA QuietSignal ==
  ASSUME AfterStart, QuietInv, Sigint \/ (\E t \in Takers : SecondSigint(t))
  PROVE  (Phases /\ Calls /\ Complete)'
<1>1. PICK c \in Callers : Begins(c)
    BY DEF Sigint, SecondSigint, Callers
<1>2. UNCHANGED <<main, next, lightVars, joinable, subscribed, stop_at, timer>>
    BY DEF Sigint, SecondSigint, loadVars, loopVars, timerVars
<1>3. main \notin Loads
    <2>1. ending # "early"
        BY DEF AfterStart, QuietInv, JoinInv, GenInv, TypeOK
    <2>2. CASE Sigint
        BY <2>1, <2>2 DEF Sigint, Loads
    <2>3. ASSUME NEW t \in Takers, SecondSigint(t) PROVE main \notin Loads
        BY <2>3 DEF SecondSigint, QuietInv, Phases, Active, Callers
    <2> QED BY <2>2, <2>3
<1>4. Calls' /\ Complete' /\ \A d \in Callers : Active(d) => Active(d)'
    BY <1>1, <1>2, QuietBegins DEF QuietInv
<1>5. Phases'
    BY <1>2, <1>3, <1>4 DEF QuietInv, Phases, Loads, lightVars, Callers
<1> QED BY <1>4, <1>5

LEMMA QuietStop ==
  ASSUME QuietInv, NEW c \in Callers, StopStep(c) PROVE (Phases /\ Calls /\ Complete)'
<1> USE DEF QuietInv
<1>1. /\ Active(c) /\ main \notin Loads
      /\ stop_pc \in [Callers -> {"idle", "signal", "switchboard", "plugin", "join",
                                  "joining", "notify"}]
      /\ stop_at \in [Callers -> 1..(N + 1)] /\ N \in Nat
      /\ joinable \in [Plugins -> BOOLEAN]
    BY LifecycleAssumption
    DEF StopStep, StopSignal, StopSwitchboard, StopPlugin, StopJoin, StopJoined, StopComplete,
        StopNotify, Active, Phases, JoinInv, GenInv, TypeOK
<1>2. \A d \in Callers : d # c => stop_pc'[d] = stop_pc[d] /\ stop_at'[d] = stop_at[d]
    BY <1>1 DEF StopStep, StopSignal, StopSwitchboard, StopPlugin, StopJoin, StopJoined,
                StopComplete, StopNotify
<1>3. /\ UNCHANGED <<next, timer>> /\ (main' = main \/ (main = "blocked" /\ main' = "wait"))
      /\ should_stop => should_stop'
      /\ shutdown_complete => shutdown_complete'
      /\ subscribed' \in {subscribed, {}}
      /\ \A j \in Plugins : joinable'[j] => joinable[j]
    BY <1>1 DEF StopStep, StopSignal, StopSwitchboard, StopPlugin, StopJoin, StopJoined,
                StopComplete, StopNotify, loadVars, lightVars, loopVars, timerVars
<1>4. /\ stop_pc'[c] \notin {"idle", "notify"} \/ shutdown_complete'
      /\ CallsOf(c)'
      /\ Complete'
    <2>1. CASE StopSignal(c)
        BY <1>1, <2>1 DEF StopSignal, CallsOf, Complete, loopVars
    <2>2. CASE StopSwitchboard(c)
        <3>1. \A j \in Plugins : ~(j < 1)
            BY <1>1 DEF Plugins
        <3> QED BY <1>1, <2>2, <3>1
                DEF StopSwitchboard, Calls, CallsOf, Complete, lightVars, loopVars
    <2>3. CASE StopPlugin(c)
        <3> DEFINE i == stop_at[c]
        <3>1. /\ CallsOf(c) /\ stop_pc[c] = "plugin" /\ i \in 1..(N + 1) /\ N \in Nat
              /\ UNCHANGED <<lightVars, joinable, subscribed>>
            BY <1>1, <2>3 DEF StopPlugin, Calls, loopVars
        <3>2. \/ stop_pc'[c] = "join" /\ stop_at'[c] = i
              \/ stop_pc'[c] = "plugin" /\ stop_at'[c] = i + 1 /\ ~joinable[i]
            BY <1>1, <2>3 DEF StopPlugin, Joinable
        <3>3. \A j \in Plugins : j < i + 1 => j < i \/ j = i
            BY <3>1 DEF Plugins
        <3> QED BY <3>1, <3>2, <3>3 DEF CallsOf, Complete, lightVars
    <2>4. CASE StopJoin(c)
        <3>1. /\ CallsOf(c) /\ stop_pc[c] = "join" /\ stop_pc'[c] \in {"join", "joining"}
              /\ UNCHANGED <<lightVars, joinable, subscribed, stop_at>>
            BY <1>1, <2>4 DEF StopJoin, Calls
        <3> QED BY <3>1 DEF CallsOf, Complete, lightVars
    <2>5. CASE StopJoined(c)
        <3> DEFINE i == stop_at[c]
        <3>1. /\ CallsOf(c) /\ stop_pc[c] = "joining" /\ i \in 1..(N + 1) /\ N \in Nat
              /\ joinable' = [joinable EXCEPT ![i] = FALSE]
              /\ stop_pc'[c] = "plugin" /\ stop_at'[c] = i + 1
              /\ UNCHANGED <<lightVars, subscribed>>
            BY <1>1, <2>5 DEF StopJoined, Calls
        <3>2. \A j \in Plugins : j < i + 1 => j < i \/ j = i
            BY <3>1 DEF Plugins
        <3>3. \A j \in Plugins : j < i + 1 => ~joinable'[j]
            BY <1>1, <3>1, <3>2 DEF CallsOf
        <3> QED BY <1>3, <3>1, <3>3 DEF CallsOf, Complete, lightVars
    <2>6. CASE StopComplete(c)
        <3>1. /\ CallsOf(c) /\ stop_pc[c] = "plugin" /\ stop_at[c] > loaded
              /\ stop_pc'[c] = "notify" /\ shutdown_complete'
              /\ UNCHANGED <<should_stop, joinable, subscribed, stop_at>>
            BY <1>1, <2>6 DEF StopComplete, Calls, loopVars
        <3>2. \A j \in Plugins : ~joinable[j]
            <4> SUFFICES ASSUME NEW j \in Plugins, joinable[j] PROVE FALSE
                OBVIOUS
            <4>1. j < next /\ j \in 1..N /\ next \in Int
                BY DEF JoinInv, Threads, Plugins, GenInv, TypeOK
            <4>2. loaded = N
                BY <4>1 DEF JoinInv, Loading
            <4>3. j < stop_at[c]
                BY <1>1, <3>1, <4>1, <4>2
            <4> QED BY <3>1, <4>3 DEF CallsOf
        <3> QED BY <3>1, <3>2 DEF CallsOf, Complete
    <2>7. CASE StopNotify(c)
        <3>1. /\ CallsOf(c) /\ stop_pc[c] = "notify" /\ stop_pc'[c] = "idle"
              /\ UNCHANGED <<lightVars, joinable, subscribed, stop_at>>
            BY <1>1, <2>7 DEF StopNotify, Calls, loopVars
        <3> QED BY <3>1 DEF CallsOf, Complete, lightVars
    <2> QED BY <2>1, <2>2, <2>3, <2>4, <2>5, <2>6, <2>7 DEF StopStep
<1>5. Calls'
    BY <1>2, <1>3, <1>4 DEF Calls, CallsOf
<1>6. Phases'
    <2>1. Active("destructor") => Active("destructor")' \/ shutdown_complete'
        BY <1>2, <1>4 DEF Active, Callers
    <2> QED BY <1>1, <1>3, <2>1 DEF Phases, Loads, Waiting
<1> QED BY <1>4, <1>5, <1>6

LEMMA QuietNext == ASSUME AfterStart, QuietInv, [Next]_vars PROVE QuietInv'
<1>1. JoinInv'
    BY JoinNext DEF QuietInv
<1>2. ASSUME \/ \E i \in Threadloops : ThreadStep(i) \/ SpuriousWake(i)
             \/ TimerEnd
             \/ UNCHANGED vars
      PROVE  (Phases /\ Calls /\ Complete)'
    <2>1. UNCHANGED <<main, next, should_stop, shutdown_complete, joinable, subscribed, stop_pc,
                      stop_at>>
        BY <1>2 DEF ThreadStep, ThreadWait, ThreadCheck, ThreadIterate, SpuriousWake, TimerEnd,
                    vars, loadVars, lightVars, loopVars, stopVars
    <2>2. timer' = timer \/ timer' = "ended"
        BY <1>2 DEF ThreadStep, ThreadWait, ThreadCheck, ThreadIterate, SpuriousWake, TimerEnd,
                    vars, timerVars
    <2> QED BY <2>1, <2>2 DEF QuietInv, Phases, Calls, CallsOf, Complete, Active
<1>3. ASSUME TimerWake PROVE (Phases /\ Calls /\ Complete)'
    <2>1. /\ Begins("timer") /\ timer = "sleep"
          /\ UNCHANGED <<main, next, lightVars, joinable, subscribed, stop_at>>
        BY <1>3 DEF TimerWake, loadVars, loopVars
    <2>2. /\ main \notin Starting
          /\ main \notin {"delete", "stop", "destroy", "returned"}
        BY <2>1 DEF QuietInv, Phases, JoinInv, GenInv, CallersPlaced
    <2>3. Calls' /\ Complete'
        BY <2>1, QuietBegins DEF Callers
    <2> QED BY <2>1, <2>2, <2>3 DEF QuietInv, Phases, Starting, lightVars
<1> QED
    BY <1>1, <1>2, <1>3, QuietMain, QuietSignal, QuietStop DEF Next, TimerStep, Finished, QuietInv

\* The order of the shutdown is an invariant of a run that SIGINT does not interrupt
\* before load_so has returned, even when calls of stop() overlap.
THEOREM QuietInductive == ASSUME AfterStart PROVE Spec => []QuietInv
<1>1. QuietInv /\ [Next]_vars => QuietInv'
    BY QuietNext
<1> QED BY <1>1, QuietInitial, PTL DEF Spec

\* wait() returns after the last join (the comment of runtime_impl::wait), if load_so was
\* not interrupted, even when calls of stop() overlap.
THEOREM WaitIsForAll == ASSUME AfterStart PROVE Spec => []WaitReturnsJoined
<1>1. QuietInv => WaitReturnsJoined
    <2> SUFFICES ASSUME QuietInv, main \in {"cancel", "join"}, NEW i \in Threadloops
                 PROVE  thread[i] = "exited" /\ ~joinable[i]
        BY DEF WaitReturnsJoined
    <2>1. i \in Plugins /\ i \in 1..N /\ next \in Int /\ N \in Nat
        BY LifecycleAssumption DEF QuietInv, JoinInv, GenInv, TypeOK, Plugins
    <2>2. next > N /\ shutdown_complete
        BY DEF QuietInv, Phases, Waiting
    <2>3. ~joinable[i]
        BY <2>1, <2>2 DEF QuietInv, Complete
    <2>4. i < next
        BY <2>1, <2>2
    <2> QED BY <2>1, <2>3, <2>4 DEF QuietInv, JoinInv, Threads
<1> QED BY <1>1, QuietInductive, PTL

\* Nothing uses the runtime's members any more when they are destroyed, a second signal
\* handler excepted, if load_so was not interrupted.
THEOREM DestructionIsQuiet == ASSUME AfterStart PROVE Spec => []DestroyedIsQuiet
<1>1. QuietInv => DestroyedIsQuiet
    <2> SUFFICES ASSUME QuietInv, main \in {"destroy", "returned"} PROVE DestroyedIsQuiet
        BY DEF DestroyedIsQuiet
    <2>1. shutdown_complete /\ timer \in {"none", "ended"}
        BY DEF QuietInv, Phases
    <2>2. should_stop /\ subscribed = {} /\ \A i \in Plugins : ~joinable[i]
        BY <2>1 DEF QuietInv, Complete
    <2>3. \A i \in Threadloops : thread[i] \in {"none", "exited"} /\ ~joinable[i]
        BY <2>2, LifecycleAssumption DEF QuietInv, JoinInv, Threads
    <2>4. \A c \in Callers \ {"second"} : stop_pc[c] = "idle"
        BY <2>1 DEF QuietInv, JoinInv, GenInv, CallersPlaced, Callers, Starting, Loads, Waiting
    <2> QED BY <2>1, <2>2, <2>3, <2>4 DEF DestroyedIsQuiet
<1> QED BY <1>1, QuietInductive, PTL

===============================================================================
