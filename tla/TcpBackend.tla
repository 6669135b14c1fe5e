----------------------------- MODULE TcpBackend -----------------------------
(***************************************************************************)
(* Networked topics over TCP: plugins/tcp_network_backend on a client and  *)
(* a server, with the registry and the network writers of the switchboard  *)
(* above it and the stream socket below.                                   *)
(*                                                                         *)
(* get_network_writer announces a topic to the peer in a control frame,    *)
(* unless the topic is registered already; put() sends the event in a data *)
(* frame if the topic is networked and publishes it here if it is not.     *)
(* Frames are written in pieces, by the thread that publishes, and read in *)
(* pieces, by the thread of read_loop.                                     *)
(***************************************************************************)
EXTENDS Integers, Sequences

CONSTANTS
  Topics,       \* names of topics
  Senders,      \* threads with a network writer
  HostOf,       \* the endpoint each of them runs on
  TopicOf,      \* the topic each of them writes to
  Methods,      \* the serialization methods
  Method,       \* the one each topic is configured with
  Default,      \* the one of a value-initialised topic_config
  NoMethod,     \* no entry in networked_topics_configs_
  Size,         \* units of a frame of each kind; the header is the first two
  MaxFrames     \* bound: the announcements and events of each sender

Hosts == {"client", "server"}
Kinds == {"create_topic", "data"}

ASSUME TcpAssumption ==
  /\ HostOf \in [Senders -> Hosts]
  /\ TopicOf \in [Senders -> Topics]
  /\ Method \in [Topics -> Methods]
  /\ Default \in Methods
  /\ NoMethod \notin Methods
  /\ Size \in [Kinds -> Nat \ (0..2)]
  /\ MaxFrames \in [Senders -> Nat]

Peer(h) == IF h = "client" THEN "server" ELSE "client"

\* The no-th thing a sender sends; method is what it serializes or announces with.
Frame == [kind : Kinds, topic : Topics, method : Methods,
          from : Senders, no : Nat \ {0}]

\* Four bytes of total_length, or of topic_name_length, or a few of the rest.
Unit == [of : Frame, at : Nat \ {0}]

VARIABLES
  registry,                   \* registry_ of each host's switchboard
  networked, configs,         \* networked_topics_, networked_topics_configs_
  pc, written, count,         \* each sender: where it is, the units of its frame
                              \* that are written, what it has begun to send
  wire, buffer, reader,       \* each read_loop: the socket, buffer, where it is
  process,                    \* running, stopped by stop(), or terminated
  sent, received,             \* history: frames written to and handled by a host
  delivered,                  \* history: events it published for its peer
  kept                        \* history: events its own network writers published

registryVars == <<registry, networked, configs>>
senderVars   == <<pc, written, count>>
streamVars   == <<wire, buffer, reader>>
historyVars  == <<sent, received, delivered, kept>>
vars == <<registryVars, senderVars, streamVars, process, historyVars>>

Init ==
  /\ registry = [h \in Hosts |-> {}]
  /\ networked = [h \in Hosts |-> {}]
  /\ configs = [h \in Hosts |-> [k \in Topics |-> NoMethod]]
  /\ pc = [t \in Senders |-> "idle"]
  /\ written = [t \in Senders |-> 0]
  /\ count = [t \in Senders |-> 0]
  /\ wire = [h \in Hosts |-> <<>>]
  /\ buffer = [h \in Hosts |-> <<>>]
  /\ reader = [h \in Hosts |-> "start"]
  /\ process = [h \in Hosts |-> "running"]
  /\ sent = [h \in Hosts |-> <<>>]
  /\ received = [h \in Hosts |-> <<>>]
  /\ delivered = [h \in Hosts |-> <<>>]
  /\ kept = [h \in Hosts |-> <<>>]

----------------------------------------------------------------------------
Alive(h) == process[h] # "terminated"

\* The constructor has returned, so that the backend can be looked up.
Connected(h) == Alive(h) /\ reader[h] \notin {"start", "listening"}

\* The frame sender t is writing.
FrameOf(t) ==
  [kind |-> IF pc[t] = "announce" THEN "create_topic" ELSE "data",
   topic |-> TopicOf[t], method |-> Method[TopicOf[t]], from |-> t, no |-> count[t]]

SizeOf(f) == Size[f.kind]

\* Mutant: a write goes on one unit too early.
UnitsEarly(f, i, j) == [n \in 1..(j - i + 1) |-> [of |-> f, at |-> i + n - 2]]

\* The i-th to the j-th unit of f.
Units(f, i, j) == [n \in 1..(j - i + 1) |-> [of |-> f, at |-> i + n - 1]]

\* Mutant: the loop wants one unit too many.
CompleteAndOne(b) == Len(b) >= 2 /\ Len(b) > SizeOf(b[1].of)

\* buffer.size() >= 8 and buffer.size() >= total_length, where the buffer starts
\* with a header; FramesIntact says that it does.
Complete(b) == Len(b) >= 2 /\ Len(b) >= SizeOf(b[1].of)

\* Mutant: one unit too many is erased.
ErasedAndOne(b) == SubSeq(b, SizeOf(b[1].of) + 2, Len(b))

\* buffer.erase of the first frame.
Erased(b) == SubSeq(b, SizeOf(b[1].of) + 1, Len(b))

\* networked_topics_configs_[k] = config
WithConfig(h, k, m) == [configs EXCEPT ![h][k] = m]

\* Mutant: a control frame of the peer is ignored.
NetworkedUnchanged(h, k) == networked

\* networked_topics_.push_back(k)
WithNetworked(h, k) == [networked EXCEPT ![h] = @ \cup {k}]

\* networked_topics_configs_[k]: a missing entry is made, with the default.
ConfigFound(h, k) == IF configs[h][k] = NoMethod THEN Default ELSE configs[h][k]

----------------------------------------------------------------------------
(* Connecting: the constructors block until these threads are ready.       *)

\* start_server: bind and listen ...
Listen ==
  /\ reader["server"] = "start"
  /\ reader' = [reader EXCEPT !["server"] = "listening"]
  /\ UNCHANGED <<registryVars, senderVars, wire, buffer, process, historyVars>>

\* start_client: a connection that is refused throws in a thread of its own.
Connect ==
  /\ reader["client"] = "start"
  /\ IF reader["server"] = "listening"
     THEN reader' = [reader EXCEPT !["client"] = "read"] /\ UNCHANGED process
     ELSE process' = [process EXCEPT !["client"] = "terminated"] /\ UNCHANGED reader
  /\ Alive("client")
  /\ UNCHANGED <<registryVars, senderVars, wire, buffer, historyVars>>

\* ... and accept, which may come after the client has begun to send.
Accept ==
  /\ reader["server"] = "listening"
  /\ reader["client"] \notin {"start", "listening"}
  /\ reader' = [reader EXCEPT !["server"] = "read"]
  /\ UNCHANGED <<registryVars, senderVars, wire, buffer, process, historyVars>>

----------------------------------------------------------------------------
(* The registry and the network writers of the switchboard.                *)

\* Some plugin of the host gets a reader of the topic or schedules a callback.
Register(h, k) ==
  /\ Alive(h)
  /\ k \notin registry[h]
  /\ registry' = [registry EXCEPT ![h] = @ \cup {k}]
  /\ UNCHANGED <<networked, configs, senderVars, streamVars, process, historyVars>>

\* get_network_writer looks into the registry, without a lock.
GetNetworkWriter(t) ==
  /\ pc[t] = "idle"
  /\ Connected(HostOf[t])
  /\ pc' = [pc EXCEPT ![t] = IF TopicOf[t] \in registry[HostOf[t]]
                             THEN "ready" ELSE "create"]
  /\ UNCHANGED <<registryVars, written, count, streamVars, process, historyVars>>

\* topic_create up to the call of send_to_peer.
TopicCreate(t) ==
  LET h == HostOf[t] IN
  /\ pc[t] = "create"
  /\ Alive(h)
  /\ count[t] < MaxFrames[t]
  /\ networked' = [networked EXCEPT ![h] = @ \cup {TopicOf[t]}]
  /\ configs' = [configs EXCEPT ![h][TopicOf[t]] = Method[TopicOf[t]]]
  /\ count' = [count EXCEPT ![t] = @ + 1]
  /\ written' = [written EXCEPT ![t] = 0]
  /\ pc' = [pc EXCEPT ![t] = "announce"]
  /\ UNCHANGED <<registry, streamVars, process, historyVars>>

\* try_register_topic
RegisterTopic(t) ==
  /\ pc[t] = "register"
  /\ Alive(HostOf[t])
  /\ registry' = [registry EXCEPT ![HostOf[t]] = @ \cup {TopicOf[t]}]
  /\ pc' = [pc EXCEPT ![t] = "ready"]
  /\ UNCHANGED <<networked, configs, written, count, streamVars, process,
                 historyVars>>

\* Mutant: put() does not ask whether its topic is networked.
PutUnasked(t) ==
  /\ pc[t] = "ready"
  /\ Alive(HostOf[t])
  /\ count[t] < MaxFrames[t]
  /\ count' = [count EXCEPT ![t] = @ + 1]
  /\ written' = [written EXCEPT ![t] = 0]
  /\ pc' = [pc EXCEPT ![t] = "send"]
  /\ UNCHANGED <<registryVars, streamVars, process, historyVars>>

\* network_writer::put of a networked topic, topic_send.
PutRemote(t) ==
  /\ pc[t] = "ready"
  /\ Alive(HostOf[t])
  /\ count[t] < MaxFrames[t]
  /\ TopicOf[t] \in networked[HostOf[t]]
  /\ count' = [count EXCEPT ![t] = @ + 1]
  /\ written' = [written EXCEPT ![t] = 0]
  /\ pc' = [pc EXCEPT ![t] = "send"]
  /\ UNCHANGED <<registryVars, streamVars, process, historyVars>>

\* network_writer::put of any other topic is writer::put.
PutHere(t) ==
  LET h == HostOf[t] IN
  /\ pc[t] = "ready"
  /\ Alive(h)
  /\ count[t] < MaxFrames[t]
  /\ TopicOf[t] \notin networked[h]
  /\ count' = [count EXCEPT ![t] = @ + 1]
  /\ kept' = [kept EXCEPT ![h] = Append(@, [FrameOf(t) EXCEPT !.no = count'[t]])]
  /\ UNCHANGED <<registryVars, pc, written, streamVars, process, sent, received,
                 delivered>>

----------------------------------------------------------------------------
(* send_to_peer: write_data calls write() until the frame is written.      *)

Written(t) == IF pc[t] = "announce" THEN "register" ELSE "ready"

\* write() takes some of what is left of the frame.  When the own socket has
\* been closed it never does, and write_data never returns.
Write(t) ==
  LET h == HostOf[t]
      f == FrameOf(t)
  IN  /\ pc[t] \in {"announce", "send"}
      /\ process[h] = "running"
      /\ process[Peer(h)] = "running"
      /\ \E n \in 1..(SizeOf(f) - written[t]) :
           /\ written' = [written EXCEPT ![t] = @ + n]
           /\ wire' = [wire EXCEPT ![Peer(h)] =
                         @ \o Units(f, written[t] + 1, written[t] + n)]
           /\ IF written[t] + n = SizeOf(f)
              THEN /\ sent' = [sent EXCEPT ![Peer(h)] = Append(@, f)]
                   /\ pc' = [pc EXCEPT ![t] = Written(t)]
              ELSE UNCHANGED <<sent, pc>>
      /\ UNCHANGED <<registryVars, count, buffer, reader, process, received,
                     delivered, kept>>

\* The peer has closed its end: what is written is lost, or SIGPIPE ends the
\* process, which does not handle it.
WriteToClosed(t) ==
  LET h == HostOf[t] IN
  /\ pc[t] \in {"announce", "send"}
  /\ process[h] = "running"
  /\ process[Peer(h)] # "running"
  /\ \/ pc' = [pc EXCEPT ![t] = Written(t)] /\ UNCHANGED process
     \/ process' = [process EXCEPT ![h] = "terminated"] /\ UNCHANGED pc
  /\ UNCHANGED <<registryVars, written, count, streamVars, historyVars>>

----------------------------------------------------------------------------
(* read_loop.                                                              *)

\* read_data returns a piece of what has arrived; buffer += packet.  A read that
\* has begun may still return one after stop().
Read(h) ==
  /\ reader[h] = "read"
  /\ Alive(h)
  /\ \E n \in 1..Len(wire[h]) :
       /\ buffer' = [buffer EXCEPT ![h] = @ \o SubSeq(wire[h], 1, n)]
       /\ wire' = [wire EXCEPT ![h] = SubSeq(@, n + 1, Len(@))]
  /\ reader' = [reader EXCEPT ![h] = "parse"]
  /\ UNCHANGED <<registryVars, senderVars, process, historyVars>>

\* The first frame of the buffer is complete: topic_receive.
Receive(h) ==
  LET f == buffer[h][1].of IN
  /\ reader[h] = "parse"
  /\ Alive(h)
  /\ Complete(buffer[h])
  /\ buffer' = [buffer EXCEPT ![h] = Erased(@)]
  /\ received' = [received EXCEPT ![h] = Append(@, f)]
  /\ \/ /\ f.kind = "create_topic"
        /\ networked' = WithNetworked(h, f.topic)
        /\ configs' = WithConfig(h, f.topic, f.method)
        /\ UNCHANGED delivered
     \/ /\ f.kind = "data"
        /\ f.topic \in registry[h]
        /\ delivered' = [delivered EXCEPT ![h] =
                           Append(@, [event |-> f, with |-> ConfigFound(h, f.topic)])]
        /\ configs' = [configs EXCEPT ![h][f.topic] = ConfigFound(h, f.topic)]
        /\ UNCHANGED networked
     \/ /\ f.kind = "data"
        /\ f.topic \notin registry[h]
        /\ UNCHANGED <<networked, configs, delivered>>
  /\ UNCHANGED <<registry, senderVars, wire, reader, process, sent, kept>>

\* The buffer holds no complete frame: while (running_).
ParseEnd(h) ==
  /\ reader[h] = "parse"
  /\ Alive(h)
  /\ ~Complete(buffer[h])
  /\ reader' = [reader EXCEPT ![h] = IF process[h] = "running" THEN "read"
                                                               ELSE "exited"]
  /\ UNCHANGED <<registryVars, senderVars, wire, buffer, process, historyVars>>

\* The read fails, the socket being closed, and the loop ends.  Nothing makes sure
\* of it: a read that has begun may as well block for good.
ReadEnd(h) ==
  /\ reader[h] = "read"
  /\ process[h] = "stopped"
  /\ reader' = [reader EXCEPT ![h] = "exited"]
  /\ UNCHANGED <<registryVars, senderVars, wire, buffer, process, historyVars>>

\* stop(): running_ is reset and the socket deleted.
Stop(h) ==
  /\ Connected(h)
  /\ process[h] = "running"
  /\ process' = [process EXCEPT ![h] = "stopped"]
  /\ UNCHANGED <<registryVars, senderVars, streamVars, historyVars>>

----------------------------------------------------------------------------
\* What read_loop's thread is bound to do; the client may be late, the server not.
ReaderStep(h) ==
  \/ h = "server" /\ (Listen \/ Accept)
  \/ h = "client" /\ reader["server"] = "listening" /\ Connect
  \/ process[h] = "running" /\ Read(h)
  \/ Receive(h)
  \/ ParseEnd(h)

\* The rest of a get_network_writer or put that has begun.
SenderStep(t) == TopicCreate(t) \/ RegisterTopic(t) \/ Write(t) \/ WriteToClosed(t)

\* Nobody has anything left to do; a thread may be held up in write_data for good.
Finished ==
  /\ \A t \in Senders :
       \/ count[t] = MaxFrames[t] /\ pc[t] \in {"create", "ready"}
       \/ process[HostOf[t]] # "running"
       \/ ~Connected(HostOf[t])
  /\ \A h \in Hosts :
       \/ process[h] # "running"
       \/ reader[h] = "listening"
       \/ reader[h] = "read" /\ wire[h] = <<>>
  /\ UNCHANGED vars

Next ==
  \/ Listen \/ Connect \/ Accept
  \/ \E h \in Hosts : Read(h) \/ Receive(h) \/ ParseEnd(h) \/ ReadEnd(h) \/ Stop(h)
  \/ \E h \in Hosts, k \in Topics : Register(h, k)
  \/ \E t \in Senders : GetNetworkWriter(t) \/ PutRemote(t) \/ PutHere(t)
                        \/ SenderStep(t)
  \/ Finished

Spec == Init /\ [][Next]_vars

(* Every thread keeps running and TCP delivers.  Nobody is bound to get a  *)
(* writer, to publish or to stop.                                          *)
Fairness ==
  /\ \A h \in Hosts : WF_vars(ReaderStep(h))
  /\ \A t \in Senders : WF_vars(SenderStep(t))

FairSpec == Spec /\ Fairness

----------------------------------------------------------------------------
(* Properties.                                                             *)

\* The values of the state: registered and networked topics, configurations,
\* where senders and read_loop are, and what is in the socket and the buffer.
TypeOK ==
  /\ registry \in [Hosts -> SUBSET Topics]
  /\ networked \in [Hosts -> SUBSET Topics]
  /\ configs \in [Hosts -> [Topics -> Methods \cup {NoMethod}]]
  /\ pc \in [Senders -> {"idle", "create", "announce", "register", "ready", "send"}]
  /\ written \in [Senders -> Nat]
  /\ count \in [Senders -> Nat]
  /\ wire \in [Hosts -> Seq(Unit)]
  /\ buffer \in [Hosts -> Seq(Unit)]
  /\ reader \in [Hosts -> {"start", "listening", "read", "parse", "exited"}]
  /\ process \in [Hosts -> {"running", "stopped", "terminated"}]
  /\ sent \in [Hosts -> Seq(Frame)]
  /\ received \in [Hosts -> Seq(Frame)]
  /\ delivered \in [Hosts -> Seq([event : Frame, with : Methods])]
  /\ kept \in [Hosts -> Seq(Frame)]

\* The unit v comes next after u in a stream of whole frames.
Follows(u, v) ==
  IF u.at = SizeOf(u.of) THEN v.at = 1 ELSE v.of = u.of /\ v.at = u.at + 1

\* "packet are in the format total_length:4bytes|topic_name_length:4bytes|
\* topic_name|message": however a stream is cut into writes and reads, what
\* read_loop has yet to parse starts with a header and is one frame after another,
\* none torn or mixed with another.  With one sender on a host it holds; with two
\* it does not, as send_to_peer takes no lock.
FramesIntact ==
  \A h \in Hosts :
    LET stream == buffer[h] \o wire[h] IN
    /\ stream # <<>> => stream[1].at = 1
    /\ \A i \in 1..(Len(stream) - 1) : Follows(stream[i], stream[i + 1])

\* A host handles the frames its peer has sent, in their order, each once.
ReceivedIsPrefix ==
  \A h \in Hosts :
    /\ Len(received[h]) <= Len(sent[h])
    /\ received[h] = SubSeq(sent[h], 1, Len(received[h]))

\* An event is deserialized by the method it was serialized with: the topic's
\* announcement is handled before its first event.
MethodAgrees ==
  \A h \in Hosts : \A i \in DOMAIN delivered[h] :
    delivered[h][i].with = delivered[h][i].event.method

\* What one endpoint takes for networked the other does, too, time and again
\* ("any topic that requests a network writer will also automatically register
\* that topic on the opposite end").
EndpointsAgree ==
  []<>(\/ networked["client"] = networked["server"]
       \/ \E h \in Hosts : process[h] # "running")

\* The frames that were sent are handled, unless the receiver stops first.
SentArrives ==
  \A h \in Hosts : []<>(received[h] = sent[h] \/ process[h] # "running")

\* "Topics registered with a network writer cannot also be seen by other plugins
\* on the same end of the connection": a network writer publishes nothing here.
NetworkedStaysRemote == \A h \in Hosts : kept[h] = <<>>

----------------------------------------------------------------------------
(* The two ends implement NetworkedTopics.  A frame enters the log with    *)
(* its last unit.                                                          *)

Net == INSTANCE NetworkedTopics WITH
  Toward     <- [t \in Senders |-> Peer(HostOf[t])],
  registered <- registry,
  known      <- networked,
  log        <- sent,
  handled    <- [h \in Hosts |-> Len(received[h])]

\* "On the reader side, the network backend receives, deserializes the data, and
\* publishes the result to the switchboard": with one sender on a host, however its
\* frames are cut and whenever either end stops, the peer finds announcements and events
\* in one log, no event before it has learned of its topic, none twice, and decodes each
\* as it was encoded.
ImplementsNetworkedTopics == Net!Spec

=============================================================================
