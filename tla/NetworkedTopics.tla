--------------------------- MODULE NetworkedTopics ---------------------------
(***************************************************************************)
(* What networked topics promise, without sockets, buffers and the table   *)
(* of configurations: what the threads of a host announce and publish      *)
(* forms one log, which the other host handles in order, each entry once.  *)
(* A host learns of a topic by creating it or from the log, and it handles *)
(* no event of a topic it has not learned of.  An event for a topic that   *)
(* is registered is delivered, decoded by the method it was encoded with;  *)
(* any other is dropped.                                                   *)
(***************************************************************************)
EXTENDS Integers, Sequences

CONSTANTS
  Hosts,
  Topics,
  Senders,      \* threads with a network writer
  HostOf,       \* the host each of them runs on
  Toward,       \* the other host
  TopicOf,      \* the topic each of them writes to
  Method,       \* the serialization method of each topic
  MaxFrames     \* bound: the announcements and events of each sender

VARIABLES
  registered,   \* the topics that have readers or callbacks on a host
  known,        \* the topics a host takes for networked
  log,          \* what was announced and published for a host
  handled,      \* how much of its log a host has handled
  delivered     \* the events it was handed, with the method that decoded them

vars == <<registered, known, log, handled, delivered>>

Init ==
  /\ registered = [h \in Hosts |-> {}]
  /\ known = [h \in Hosts |-> {}]
  /\ log = [h \in Hosts |-> <<>>]
  /\ handled = [h \in Hosts |-> 0]
  /\ delivered = [h \in Hosts |-> <<>>]

Register(h, k) ==
  /\ registered' = [registered EXCEPT ![h] = @ \cup {k}]
  /\ UNCHANGED <<known, log, handled, delivered>>

\* A sender creates its topic; that the host takes it for networked from then on
\* does not wait for the announcement.
Create(t) ==
  /\ known' = [known EXCEPT ![HostOf[t]] = @ \cup {TopicOf[t]}]
  /\ UNCHANGED <<registered, log, handled, delivered>>

\* An announcement or an event enters the log, after all there is of its sender.
Send(t, kind, no) ==
  LET h == Toward[t] IN
  /\ TopicOf[t] \in known[HostOf[t]]
  /\ \A i \in 1..Len(log[h]) : log[h][i].from = t => log[h][i].no < no
  /\ log' = [log EXCEPT ![h] = Append(@,
               [kind |-> kind, topic |-> TopicOf[t], method |-> Method[TopicOf[t]],
                from |-> t, no |-> no])]
  /\ UNCHANGED <<registered, known, handled, delivered>>

Handle(h) ==
  LET f == log[h][handled[h] + 1] IN
  /\ handled[h] < Len(log[h])
  /\ handled' = [handled EXCEPT ![h] = @ + 1]
  /\ \/ /\ f.kind = "create_topic"
        /\ known' = [known EXCEPT ![h] = @ \cup {f.topic}]
        /\ UNCHANGED delivered
     \/ /\ f.kind = "data"
        /\ f.topic \in known[h]
        /\ delivered' = IF f.topic \in registered[h]
                        THEN [delivered EXCEPT ![h] =
                                Append(@, [event |-> f, with |-> f.method])]
                        ELSE delivered
        /\ UNCHANGED known
  /\ UNCHANGED <<registered, log>>

Next ==
  \/ \E h \in Hosts : Handle(h) \/ \E k \in Topics : Register(h, k)
  \/ \E t \in Senders :
       Create(t) \/ \E kind \in {"create_topic", "data"}, no \in 1..MaxFrames[t] :
                      Send(t, kind, no)

Spec == Init /\ [][Next]_vars

=============================================================================
