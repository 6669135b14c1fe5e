----------------------------- MODULE Lifecycle -----------------------------
(***************************************************************************)
(* The life of the application: run() of src/plugin.cpp constructs the     *)
(* runtime, loads and starts the plugins, spawns the thread th that stops  *)
(* the runtime after the run duration, and waits for the stoplight's       *)
(* shutdown_complete_; SIGINT runs runtime_->stop() on top of whatever the *)
(* main thread was doing; each threadloop waits for ready_ and then loops  *)
(* until should_stop_.                                                     *)
(*                                                                         *)
(* stop() is called by the handler, by th and by the runtime's destructor. *)
(* Nothing keeps two of these calls from running at once or in succession. *)
(* SIGINT goes to the main thread; while the handler runs there it is      *)
(* blocked on it, and another thread may take the next one.                *)
(***************************************************************************)
EXTENDS Integers, FiniteSets

CONSTANTS
  N,             \* how many plugins are loaded, in the order of plugins_
  Threadloops,   \* those that derive from threadloop
  Subscribing,   \* those that schedule a callback in start()
  Throwing,      \* those whose constructor or start() may throw
  Endings,       \* how the run may be ended: see Init
  MaxSignals     \* bound: the number of SIGINTs

Plugins == 1..N

\* Who calls stop(): the handler on the main thread, a second one on another thread
\* (bound: two handlers at a time), th, and the runtime's destructor.
Callers == {"handler", "second", "timer", "destructor"}

\* Threads that may take the second SIGINT: those of plugins, th, and one that the model
\* does not follow, as a driver's.
Th == N + 1
Driver == 0
Takers == 0..(N + 1)

ASSUME LifecycleAssumption ==
  /\ N \in Nat
  /\ Threadloops \subseteq Plugins
  /\ Subscribing \subseteq Plugins
  /\ Throwing \subseteq Plugins
  /\ Endings \subseteq {"duration", "sigint", "early"}
  /\ MaxSignals \in Nat

VARIABLES
  ending, signals,                         \* the environment
  interrupted,                             \* the thread that took the second SIGINT
  overlapped,                              \* history: two calls of stop() were under way
  main, loaded, next,                      \* run(), plugins_ and load_so's for_each
  ready, should_stop, shutdown_complete,   \* value_ of the stoplight's events
  thread, joinable, joiner,                \* the threadloops
  subscribed,                              \* plugins with a topic_subscription
  stop_pc, stop_at, stops,                 \* the calls of stop()
  timer, cancelled,                        \* th and its cancellable_sleep
  terminated                               \* std::terminate has been called

envVars   == <<ending, signals, interrupted, overlapped>>
loadVars  == <<main, loaded, next>>
lightVars == <<ready, should_stop, shutdown_complete>>
loopVars  == <<thread, joinable, joiner>>
stopVars  == <<stop_pc, stop_at, stops>>
timerVars == <<timer, cancelled>>
vars == <<envVars, loadVars, lightVars, loopVars, subscribed, stopVars,
          timerVars, terminated>>

\* What may end the run: "duration", the run duration elapses, and SIGINT may come at
\* any time from the end of load_so on; "sigint", likewise, but the duration is not
\* over before the end; "early", SIGINT may also come while load_so is still running.
Init ==
  /\ ending \in Endings
  /\ signals = 0
  /\ interrupted = Driver
  /\ overlapped = FALSE
  /\ main = "construct"
  /\ loaded = 0
  /\ next = 1
  /\ ready = FALSE /\ should_stop = FALSE /\ shutdown_complete = FALSE
  /\ thread = [i \in Plugins |-> "none"]
  /\ joinable = [i \in Plugins |-> FALSE]
  /\ joiner = [i \in Plugins |-> "nobody"]
  /\ subscribed = {}
  /\ stop_pc = [c \in Callers |-> "idle"]
  /\ stop_at = [c \in Callers |-> 1]
  /\ stops = [i \in Plugins |-> 0]
  /\ timer = "none"
  /\ cancelled = FALSE
  /\ terminated = FALSE

\* The main thread executes run(), not the signal handler.
MainRuns == ~terminated /\ stop_pc["handler"] = "idle"

\* Thread t executes the second handler.
Suspended(t) == stop_pc["second"] # "idle" /\ interrupted = t

ThreadRuns(i) == ~terminated /\ ~Suspended(i)
TimerRuns == ThreadRuns(Th)
CallRuns(c) == ~terminated /\ (c = "timer" => TimerRuns)

\* A call of stop() has not yet stopped everything.
UnderWay(c) == stop_pc[c] \in {"signal", "switchboard", "plugin", "join", "joining"}

\* A call of stop() begins.
Begins(c) ==
  /\ stop_pc' = [stop_pc EXCEPT ![c] = "signal"]
  /\ overlapped' = (overlapped \/ \E d \in Callers : UnderWay(d))

\* Mutants: for_each runs past the end, or not to the end, of plugins_.
AllStartedAndOne == next > N + 1
AllStartedButOne == next >= N

\* for_each over plugins_ has come to its end.
AllStarted == next > N

\* Mutant: the event's value is not checked before blocking.
AfterBlindWait(value, go_on) == "blocked"

\* event::wait: the value is checked, and the caller blocked, under the mutex.
AfterWait(value, go_on) == IF value THEN go_on ELSE "blocked"

\* Mutants: a stoplight that never turns red, and one that forgets.
NeverStop == FALSE
NeverComplete == FALSE

check_should_stop == should_stop
check_shutdown_complete == shutdown_complete

\* cancellable_sleep::sleep returns, cancelled or after the duration.
Slept == cancelled \/ ending = "duration"

\* Mutant: stop() joins without asking.
JoinableAlways(i) == i \in Threadloops

\* thread_.joinable() of a threadloop, as stop() asks.
Joinable(i) == joinable[i]

\* Mutant: join() is left out.
Detached(i) == TRUE

\* thread_.join() of a threadloop returns.
Joined(i) == thread[i] = "exited"

----------------------------------------------------------------------------
(* run() and load_so(), on the main thread.                                *)

\* The plugin factories are called: plugins_ is complete.
MainConstruct ==
  /\ MainRuns
  /\ main = "construct"
  /\ loaded' = N
  /\ main' = "start"
  /\ UNCHANGED <<envVars, next, lightVars, loopVars, subscribed,
                 stopVars, timerVars, terminated>>

\* A constructor throws: plugins_ holds the ones before it, and the handler of
\* run() deletes the runtime.
MainConstructThrows ==
  /\ MainRuns
  /\ main = "construct"
  /\ \E i \in Throwing : loaded' = i - 1
  /\ main' = "delete"
  /\ UNCHANGED <<envVars, next, lightVars, loopVars, subscribed,
                 stopVars, timerVars, terminated>>

\* plugin->start(): a threadloop's thread is spawned.
MainStart ==
  /\ MainRuns
  /\ main = "start"
  /\ ~AllStarted
  /\ thread' = [thread EXCEPT ![next] =
                  IF next \in Threadloops THEN "waiting" ELSE @]
  /\ joinable' = [joinable EXCEPT ![next] = next \in Threadloops]
  /\ subscribed' = subscribed \cup ({next} \cap Subscribing)
  /\ next' = next + 1
  /\ UNCHANGED <<envVars, main, loaded, lightVars, joiner, stopVars, timerVars,
                 terminated>>

\* plugin->start() throws: run()'s handler deletes the runtime.
MainStartThrows ==
  /\ MainRuns
  /\ main = "start"
  /\ next \in Throwing
  /\ main' = "delete"
  /\ UNCHANGED <<envVars, loaded, next, lightVars, loopVars, subscribed,
                 stopVars, timerVars, terminated>>

\* signal_ready(): value_ is set under the event's mutex ...
MainSignalReady ==
  /\ MainRuns
  /\ main = "start"
  /\ AllStarted
  /\ ready' = TRUE
  /\ main' = "notify"
  /\ UNCHANGED <<envVars, loaded, next, should_stop, shutdown_complete,
                 loopVars, subscribed, stopVars, timerVars, terminated>>

\* ... and then the threads blocked on the condition variable are woken.
MainNotifyReady ==
  /\ MainRuns
  /\ main = "notify"
  /\ thread' = [i \in Plugins |->
                  IF thread[i] = "blocked" THEN "waiting" ELSE thread[i]]
  /\ main' = "spawn"
  /\ UNCHANGED <<envVars, loaded, next, lightVars, joinable, joiner, subscribed,
                 stopVars, timerVars, terminated>>

\* std::thread th
MainSpawn ==
  /\ MainRuns
  /\ main = "spawn"
  /\ timer' = "sleep"
  /\ main' = "wait"
  /\ UNCHANGED <<envVars, loaded, next, lightVars, loopVars, subscribed,
                 stopVars, cancelled, terminated>>

\* runtime_->wait(): event::wait of shutdown_complete_, checked under its mutex.
MainWait ==
  /\ MainRuns
  /\ main = "wait"
  /\ main' = AfterWait(shutdown_complete, "cancel")
  /\ UNCHANGED <<envVars, loaded, next, lightVars, loopVars, subscribed,
                 stopVars, timerVars, terminated>>

\* cs.cancel()
MainCancel ==
  /\ MainRuns
  /\ main = "cancel"
  /\ cancelled' = TRUE
  /\ main' = "join"
  /\ UNCHANGED <<envVars, loaded, next, lightVars, loopVars, subscribed,
                 stopVars, timer, terminated>>

\* Mutant: th is detached, not joined.
MainJoinDetached ==
  /\ MainRuns
  /\ main = "join"
  /\ main' = "delete"
  /\ UNCHANGED <<envVars, loaded, next, lightVars, loopVars, subscribed,
                 stopVars, timerVars, terminated>>

\* th.join()
MainJoin ==
  /\ MainRuns
  /\ main = "join"
  /\ timer = "ended"
  /\ main' = "delete"
  /\ UNCHANGED <<envVars, loaded, next, lightVars, loopVars, subscribed,
                 stopVars, timerVars, terminated>>

\* ~runtime_impl: stop() unless the shutdown is complete.
MainDelete ==
  /\ MainRuns
  /\ main = "delete"
  /\ IF check_shutdown_complete
     THEN main' = "destroy" /\ UNCHANGED <<stop_pc, overlapped>>
     ELSE main' = "stop" /\ Begins("destructor")
  /\ UNCHANGED <<ending, signals, interrupted, loaded, next, lightVars, loopVars, subscribed,
                 stop_at, stops, timerVars, terminated>>

\* The destructor's stop() has returned.
MainStopped ==
  /\ MainRuns
  /\ main = "stop"
  /\ stop_pc["destructor"] = "idle"
  /\ main' = "destroy"
  /\ UNCHANGED <<envVars, loaded, next, lightVars, loopVars, subscribed,
                 stopVars, timerVars, terminated>>

\* The members are destroyed: the plugins, the switchboard, the libraries.
MainDestroy ==
  /\ MainRuns
  /\ main = "destroy"
  /\ main' = "returned"
  /\ UNCHANGED <<envVars, loaded, next, lightVars, loopVars, subscribed,
                 stopVars, timerVars, terminated>>

----------------------------------------------------------------------------
\* SIGINT interrupts the main thread: sigint_handler calls runtime_->stop().
Sigint ==
  /\ MainRuns
  /\ signals < MaxSignals
  /\ \/ main \in {"spawn", "wait", "blocked", "cancel", "join"}
     \/ ending = "early" /\ main \in {"construct", "start", "notify"}
  /\ signals' = signals + 1
  /\ Begins("handler")
  /\ UNCHANGED <<ending, interrupted, loadVars, lightVars, loopVars, subscribed, stop_at,
                 stops, timerVars, terminated>>

\* SIGINT while the handler runs on the main thread: thread t takes it.
SecondSigint(t) ==
  /\ ~terminated
  /\ stop_pc["handler"] # "idle" /\ stop_pc["second"] = "idle"
  /\ signals < MaxSignals
  /\ \/ t = Driver
     \/ t \in Threadloops /\ thread[t] \notin {"none", "exited"}
     \/ t = Th /\ timer \in {"sleep", "stop"}
  /\ signals' = signals + 1
  /\ interrupted' = t
  /\ Begins("second")
  /\ UNCHANGED <<ending, loadVars, lightVars, loopVars, subscribed, stop_at,
                 stops, timerVars, terminated>>

----------------------------------------------------------------------------
(* threadloop::thread_main of plugin i.                                    *)

\* wait_for_ready(), and _p_thread_setup() when it returns.
ThreadWait(i) ==
  /\ ThreadRuns(i)
  /\ thread[i] = "waiting"
  /\ thread' = [thread EXCEPT ![i] = AfterWait(ready, "check")]
  /\ UNCHANGED <<envVars, loadVars, lightVars, joinable, joiner,
                 subscribed, stopVars, timerVars, terminated>>

\* A condition variable may wake spuriously; the predicate is checked again.
SpuriousWake(i) ==
  /\ ThreadRuns(i)
  /\ thread[i] = "blocked"
  /\ thread' = [thread EXCEPT ![i] = "waiting"]
  /\ UNCHANGED <<envVars, loadVars, lightVars, joinable, joiner,
                 subscribed, stopVars, timerVars, terminated>>

\* while (!check_should_stop() && !should_terminate())
ThreadCheck(i) ==
  /\ ThreadRuns(i)
  /\ thread[i] = "check"
  /\ thread' = [thread EXCEPT ![i] = IF check_should_stop THEN "exited" ELSE "iterate"]
  /\ UNCHANGED <<envVars, loadVars, lightVars, joinable, joiner,
                 subscribed, stopVars, timerVars, terminated>>

\* One skip or iteration; skip_option::stop or internal_stop() ends the loop.
ThreadIterate(i) ==
  /\ ThreadRuns(i)
  /\ thread[i] = "iterate"
  /\ \E after \in {"check", "exited"} : thread' = [thread EXCEPT ![i] = after]
  /\ UNCHANGED <<envVars, loadVars, lightVars, joinable, joiner,
                 subscribed, stopVars, timerVars, terminated>>

----------------------------------------------------------------------------
(* runtime_impl::_stop, called by c.                                       *)

\* signal_should_stop(); nobody waits for this event.
StopSignal(c) ==
  /\ CallRuns(c)
  /\ stop_pc[c] = "signal"
  /\ should_stop' = TRUE
  /\ stop_pc' = [stop_pc EXCEPT ![c] = "switchboard"]
  /\ UNCHANGED <<envVars, loadVars, ready, shutdown_complete, loopVars,
                 subscribed, stop_at, stops, timerVars, terminated>>

\* switchboard::stop(), whose return Topic's StopReturns is about.
StopSwitchboard(c) ==
  /\ CallRuns(c)
  /\ stop_pc[c] = "switchboard"
  /\ subscribed' = {}
  /\ stop_pc' = [stop_pc EXCEPT ![c] = "plugin"]
  /\ stop_at' = [stop_at EXCEPT ![c] = 1]
  /\ UNCHANGED <<envVars, loadVars, lightVars, loopVars, stops,
                 timerVars, terminated>>

\* plugin->stop() is called: a joinable thread is joined.
StopPlugin(c) ==
  LET i == stop_at[c] IN
  /\ CallRuns(c)
  /\ stop_pc[c] = "plugin"
  /\ i <= loaded
  /\ stops' = [stops EXCEPT ![i] = @ + 1]
  /\ IF Joinable(i)
     THEN stop_pc' = [stop_pc EXCEPT ![c] = "join"] /\ UNCHANGED stop_at
     ELSE stop_at' = [stop_at EXCEPT ![c] = i + 1] /\ UNCHANGED stop_pc
  /\ UNCHANGED <<envVars, loadVars, lightVars, loopVars, subscribed,
                 timerVars, terminated>>

\* thread_.join() begins; it throws std::system_error if the thread has been
\* joined since, is being joined, or is the one that calls, and nothing catches that.
StopJoin(c) ==
  LET i == stop_at[c] IN
  /\ CallRuns(c)
  /\ stop_pc[c] = "join"
  /\ IF joinable[i] /\ joiner[i] = "nobody" /\ ~(c = "second" /\ interrupted = i)
     THEN /\ joiner' = [joiner EXCEPT ![i] = c]
          /\ stop_pc' = [stop_pc EXCEPT ![c] = "joining"]
          /\ UNCHANGED terminated
     ELSE /\ terminated' = TRUE
          /\ UNCHANGED <<joiner, stop_pc>>
  /\ UNCHANGED <<envVars, loadVars, lightVars, thread, joinable,
                 subscribed, stop_at, stops, timerVars>>

\* The thread has ended and join() returns.
StopJoined(c) ==
  LET i == stop_at[c] IN
  /\ CallRuns(c)
  /\ stop_pc[c] = "joining"
  /\ Joined(i)
  /\ joinable' = [joinable EXCEPT ![i] = FALSE]
  /\ joiner' = [joiner EXCEPT ![i] = "nobody"]
  /\ stop_pc' = [stop_pc EXCEPT ![c] = "plugin"]
  /\ stop_at' = [stop_at EXCEPT ![c] = i + 1]
  /\ UNCHANGED <<envVars, loadVars, lightVars, thread, subscribed,
                 stops, timerVars, terminated>>

\* signal_shutdown_complete(): value_ is set ...
StopComplete(c) ==
  /\ CallRuns(c)
  /\ stop_pc[c] = "plugin"
  /\ stop_at[c] > loaded
  /\ shutdown_complete' = TRUE
  /\ stop_pc' = [stop_pc EXCEPT ![c] = "notify"]
  /\ UNCHANGED <<envVars, loadVars, ready, should_stop, loopVars,
                 subscribed, stop_at, stops, timerVars, terminated>>

\* ... and the main thread is woken, if it is blocked.  stop() returns.
StopNotify(c) ==
  /\ CallRuns(c)
  /\ stop_pc[c] = "notify"
  /\ main' = IF main = "blocked" THEN "wait" ELSE main
  /\ stop_pc' = [stop_pc EXCEPT ![c] = "idle"]
  /\ UNCHANGED <<envVars, loaded, next, lightVars, loopVars, subscribed,
                 stop_at, stops, timerVars, terminated>>

----------------------------------------------------------------------------
(* The thread th of run().                                                 *)

\* cs.sleep() returns, cancelled or because the duration has elapsed; either
\* way th calls stop().
TimerWake ==
  /\ TimerRuns
  /\ timer = "sleep"
  /\ Slept
  /\ timer' = "stop"
  /\ Begins("timer")
  /\ UNCHANGED <<ending, signals, interrupted, loadVars, lightVars, loopVars, subscribed,
                 stop_at, stops, cancelled, terminated>>

TimerEnd ==
  /\ TimerRuns
  /\ timer = "stop"
  /\ stop_pc["timer"] = "idle"
  /\ timer' = "ended"
  /\ UNCHANGED <<envVars, loadVars, lightVars, loopVars, subscribed,
                 stopVars, cancelled, terminated>>

----------------------------------------------------------------------------
MainStep ==
  \/ MainConstruct \/ MainConstructThrows \/ MainStart
  \/ MainStartThrows \/ MainSignalReady
  \/ MainNotifyReady \/ MainSpawn \/ MainWait \/ MainCancel \/ MainJoin
  \/ MainDelete \/ MainStopped \/ MainDestroy

ThreadStep(i) == ThreadWait(i) \/ ThreadCheck(i) \/ ThreadIterate(i)

StopStep(c) ==
  \/ StopSignal(c) \/ StopSwitchboard(c) \/ StopPlugin(c) \/ StopJoin(c)
  \/ StopJoined(c) \/ StopComplete(c) \/ StopNotify(c)

TimerStep == TimerWake \/ TimerEnd

\* The process has ended.
Finished ==
  /\ main = "returned" \/ terminated
  /\ UNCHANGED vars

Next ==
  \/ MainStep
  \/ Sigint
  \/ \E t \in Takers : SecondSigint(t)
  \/ \E i \in Threadloops : ThreadStep(i) \/ SpuriousWake(i)
  \/ \E c \in Callers : StopStep(c)
  \/ TimerStep
  \/ Finished

Spec == Init /\ [][Next]_vars

(* Every thread keeps running: an iteration of a threadloop ends, a sleep  *)
(* ends.  Nobody is bound to send SIGINT, nor to wake a thread spuriously. *)
Fairness ==
  /\ WF_vars(MainStep)
  /\ \A i \in Threadloops : WF_vars(ThreadStep(i))
  /\ \A c \in Callers : WF_vars(StopStep(c))
  /\ WF_vars(TimerStep)

FairSpec == Spec /\ Fairness

----------------------------------------------------------------------------
(* Properties.                                                             *)

\* The values of the state: the stoplight's events, the program counters, the
\* threads and the calls of stop().
TypeOK ==
  /\ ending \in Endings
  /\ signals \in 0..MaxSignals
  /\ interrupted \in Takers /\ overlapped \in BOOLEAN
  /\ main \in {"construct", "start", "notify", "spawn", "wait", "blocked",
               "cancel", "join", "delete", "stop", "destroy", "returned"}
  /\ loaded \in 0..N
  /\ next \in 1..(N + 1)
  /\ ready \in BOOLEAN /\ should_stop \in BOOLEAN /\ shutdown_complete \in BOOLEAN
  /\ thread \in [Plugins -> {"none", "waiting", "blocked", "check", "iterate",
                             "exited"}]
  /\ joinable \in [Plugins -> BOOLEAN]
  /\ joiner \in [Plugins -> Callers \cup {"nobody"}]
  /\ subscribed \subseteq Plugins
  /\ stop_pc \in [Callers -> {"idle", "signal", "switchboard", "plugin", "join",
                              "joining", "notify"}]
  /\ stop_at \in [Callers -> 1..(N + 1)]
  /\ stops \in [Plugins -> Nat]
  /\ timer \in {"none", "sleep", "stop", "ended"}
  /\ cancelled \in BOOLEAN
  /\ terminated \in BOOLEAN

\* No threadloop iterates before start() of every plugin has returned (the
\* start of all threads is synchronised by wait_for_ready()).
StartsTogether ==
  \A i \in Threadloops : thread[i] \in {"check", "iterate"} => next > N

\* wait() does not return before every plugin thread has ended and been joined.
WaitReturnsJoined ==
  main \in {"cancel", "join"}
    => \A i \in Threadloops : thread[i] = "exited" /\ ~joinable[i]

\* When the runtime's members are destroyed nothing uses them any more: no
\* thread runs, no callback is subscribed, th has ended and no stop() is under
\* way (the assertions of ~threadloop among others), unless it is that of a second
\* handler: nobody waits for the thread that runs it.
DestroyedIsQuiet ==
  main \in {"destroy", "returned"}
    => /\ \A i \in Threadloops : thread[i] \in {"none", "exited"} /\ ~joinable[i]
       /\ subscribed = {}
       /\ timer \in {"none", "ended"}
       /\ should_stop
       /\ \A c \in Callers \ {"second"} : stop_pc[c] = "idle"

\* Only calls of stop() that overlap meet at a join() and terminate the process: those
\* that follow each other, as th's does when it is woken by a stop(), or that of the
\* next SIGINT, never do.
NoJoinConflict == terminated => overlapped

\* A plugin is stopped once, and once more for each SIGINT at most.
StoppedOnce ==
  \A i \in Plugins : stops[i] <= 1 + signals

\* SIGINT stops the execution of the application: run() returns, or calls of stop() that
\* overlapped have terminated it.
InterruptStops == signals > 0 ~> main = "returned" \/ terminated

\* A run whose duration elapses ends likewise, as does one whose plugins fail to load.
DurationStops == ending = "duration" ~> main = "returned" \/ terminated

=============================================================================
