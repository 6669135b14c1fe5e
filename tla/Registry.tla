------------------------------- MODULE Registry -------------------------------
(* include/illixr/switchboard.hpp: registry_ under registry_lock_.  Plugins    *)
(* and callbacks register topics by name, with a look-up under the shared lock *)
(* and then an insertion under the unique lock; stop() joins the callbacks     *)
(* while it holds the shared lock.  std::shared_mutex lets readers in beside a *)
(* waiting writer, as glibc's does.  The critical sections of a registration   *)
(* are short and each is one action.                                           *)
EXTENDS Integers, FiniteSets

CONSTANTS
    Names,      \* topic names
    Plugins,    \* threads of plugins that register topics
    Callbacks   \* threads of callbacks; each may register topics when it runs

ASSUME RegistryAssumption ==
    /\ Plugins \cap Callbacks = {}
    /\ IsFiniteSet(Names) /\ IsFiniteSet(Callbacks)

VARIABLES
    registry,   \* the topic object of a name; 0 without one
    topicsMade,
    wants,      \* the name a thread is registering, or NoName
    missed,     \* threads past the first look-up, without success
    handles,    \* the name and topic of every reader and writer made
    stopping,   \* stop() holds the lock and joins
    told,       \* callback threads it has told to end, one after the other
    joined,     \* callback threads that have ended
    halted      \* stop() has returned

regVars == <<registry, topicsMade, wants, missed, handles, stopping, told, joined, halted>>

RegThreads == Plugins \cup Callbacks
NoName == "none"

RegInit ==
    /\ registry = [n \in Names |-> 0]
    /\ topicsMade = 0
    /\ wants = [t \in RegThreads |-> NoName]
    /\ missed = {}
    /\ handles = {}
    /\ stopping = FALSE
    /\ told = {}
    /\ joined = {}
    /\ halted = FALSE

\* A plugin or a running callback calls try_register_topic.
Ask(t, n) ==
    /\ wants[t] = NoName
    /\ t \notin told
    /\ wants' = [wants EXCEPT ![t] = n]
    /\ UNCHANGED <<registry, topicsMade, missed, handles, stopping, told, joined, halted>>

\* Mutant: stop() holds the lock exclusively.
LookupAllowedOutsideStop == ~stopping

\* The lock of the first look-up: shared, so stop() does not keep it out.
LookupAllowed == TRUE

Returned(t, topic) ==
    /\ handles' = handles \cup {[name |-> wants[t], topic |-> topic]}
    /\ wants' = [wants EXCEPT ![t] = NoName]

Lookup(t) ==
    /\ wants[t] # NoName
    /\ t \notin missed
    /\ LookupAllowed
    /\ IF registry[wants[t]] # 0
       THEN Returned(t, registry[wants[t]]) /\ UNCHANGED missed
       ELSE missed' = missed \cup {t} /\ UNCHANGED <<handles, wants>>
    /\ UNCHANGED <<registry, topicsMade, stopping, told, joined, halted>>

\* Mutant: insert_or_assign.
EmplacedAnew(n) == topicsMade + 1

\* try_emplace: nothing happens when another thread was faster.
Emplaced(n) == IF registry[n] # 0 THEN registry[n] ELSE topicsMade + 1

Create(t) ==
    LET n == wants[t]
    IN  /\ t \in missed
        /\ ~stopping
        /\ registry' = [registry EXCEPT ![n] = Emplaced(n)]
        /\ topicsMade' = IF Emplaced(n) > topicsMade THEN Emplaced(n) ELSE topicsMade
        /\ Returned(t, Emplaced(n))
        /\ missed' = missed \ {t}
        /\ UNCHANGED <<stopping, told, joined, halted>>

\* stop() takes the lock, tells each callback to end and waits for it, and lets go.
RegStop ==
    /\ ~stopping /\ ~halted
    /\ stopping' = TRUE
    /\ UNCHANGED <<registry, topicsMade, wants, missed, handles, told, joined, halted>>

TellCallback(c) ==
    /\ stopping
    /\ told = joined
    /\ c \in Callbacks \ told
    /\ told' = told \cup {c}
    /\ UNCHANGED <<registry, topicsMade, wants, missed, handles, stopping, joined, halted>>

JoinCallback(c) ==
    /\ c \in told \ joined
    /\ wants[c] = NoName
    /\ joined' = joined \cup {c}
    /\ UNCHANGED <<registry, topicsMade, wants, missed, handles, stopping, told, halted>>

RegStopReturns ==
    /\ stopping
    /\ joined = Callbacks
    /\ stopping' = FALSE
    /\ halted' = TRUE
    /\ UNCHANGED <<registry, topicsMade, wants, missed, handles, told, joined>>

\* A callback that creates a topic waits for the lock stop() holds while it waits for it.
CreatesInStop == stopping /\ missed \cap told # {}

RegStops ==
    /\ \/ halted /\ \A t \in RegThreads : wants[t] = NoName
       \/ CreatesInStop
    /\ UNCHANGED regVars

RegThreadStep(t) == Lookup(t) \/ Create(t)
RegStopStep == RegStopReturns \/ \E c \in Callbacks : TellCallback(c) \/ JoinCallback(c)

RegNext ==
    \/ \E t \in RegThreads : RegThreadStep(t) \/ \E n \in Names : Ask(t, n)
    \/ RegStop \/ RegStopStep
    \/ RegStops

RegSpec ==
    /\ RegInit /\ [][RegNext]_regVars
    /\ \A c \in Callbacks : WF_regVars(RegThreadStep(c))
    /\ WF_regVars(RegStopStep)

------------------------------------------------------------------------------
RegTypeOK ==
    /\ registry \in [Names -> 0..Cardinality(Names)]
    /\ topicsMade \in 0..Cardinality(Names)
    /\ wants \in [RegThreads -> Names \cup {NoName}]
    /\ missed \subseteq RegThreads
    /\ handles \subseteq [name : Names, topic : 1..Cardinality(Names)]
    /\ stopping \in BOOLEAN /\ halted \in BOOLEAN
    /\ joined \subseteq told /\ told \subseteq Callbacks

\* All readers and writers of a name have the same topic, also when several threads
\* find the name missing and go on to insert it.
OneTopicPerName ==
    \A h, k \in handles : h.name = k.name => h.topic = k.topic

\* stop() returns although callbacks are running and look topics up that exist, unless
\* one of them makes a topic.
RegistryStopReturns == stopping ~> halted \/ CreatesInStop
===============================================================================
