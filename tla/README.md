# A TLA+ model of the ILLIXR runtime

ILLIXR is a testbed for extended reality: a *runtime* loads *plugins* (sensor
drivers, trackers, integrators, renderers, network bridges) as shared libraries;
the plugins find each other's services in the *phonebook* and exchange events
through the *switchboard*.  The code that is hard to get right, and hard to
test, is the code all plugins share: the switchboard's topics, where writers,
readers, callback threads and a stopping thread meet, and the life cycle, in
which three callers may stop a system that a fourth thread is waiting for and
then destroys.  These two are modelled first; after them the bridges that carry
topics from one host to another over TCP and UDP, and the components built on top
in which several threads or hosts share state: packets of sensor data, scene
reconstruction, decoded images, the pool of rendered images, the registry of topics
and the origin of poses.

Paths below are relative to the repository; line numbers are those of the
commit beside this directory.

| file | content |
|------|---------|
| `Topic.tla` | one topic of the switchboard, with its subscriptions, buffers and readers |
| `TopicChannel.tla` | what a topic promises its subscribers: the abstract specification |
| `TopicMC.tla`, `Topic*.cfg` | instances of `Topic` for TLC |
| `TopicProofs.tla` | types and safety of `Topic`, and that it implements `TopicChannel`, proved for every instance |
| `TopicDataProofs.tla` | what readers, buffers and callbacks of a topic get, proved |
| `Lifecycle.tla`, `Lifecycle*.cfg` | start, stop, interruption and destruction of the application |
| `TcpBackend.tla` | networked topics of two hosts: `get_network_writer`, `network_writer::put`, the TCP backend and its socket |
| `NetworkedTopics.tla` | what networked topics promise: the abstract specification of the two ends |
| `TcpMC.tla`, `Tcp*.cfg` | instances of `TcpBackend` for TLC |
| `TcpProofs.tla` | types of `TcpBackend`; for one sender per host its frames, their order and method, and that the two ends implement `NetworkedTopics`, proved |
| `LifecycleProofs.tla` | types, start, joins and stops for every run; order of the shutdown unless SIGINT interrupts `load_so`, proved |
| `Registry.tla` | the registry of topics: registration in two steps, `stop` under the shared lock |
| `UdpBackend.tla` | networked topics over datagrams that are lost and reordered; hosts that start again |
| `BufferPool.tla` | the pool of images between rendering and display or encoding |
| `PosePrediction.tla` | the offset that turns the first valid pose straight ahead |
| `FramePairing.tla`, `FramePairing.cfg` | two decoder threads that bring the halves of one depth image |
| `OffloadVio.tla` | IMU samples and camera frames packed on the device and unpacked on the server |
| `AdaScene.tla` | a scene mesh on its way from the server's reconstruction into the device's grid |
| `AdaLateClean.cfg` | an instance of `AdaScene` for the lists that come too late |
| `VioProofs.tla`, `AdaProofs.tla` | proofs about `OffloadVio` and `AdaScene` |
| `Parts.tla`, `Parts.cfg` | one instance of each of these seven, for TLC |
| `PartsProofs.tla` | proofs about `Registry`, `UdpBackend`, `BufferPool`, `FramePairing` and `PosePrediction`, and about the seven side by side |
| `PROJECT.json` | components, runs, mutants, the map from definitions to source lines, findings, hazards, theorems |

Model-check with `tlc -config TopicDelivery.cfg TopicMC.tla` and the like; check
the proofs with `tlapm TopicProofs.tla` and the like.

## Inventory

### Switchboard topic (`include/illixr/switchboard.hpp` 198-494, `managed_thread.hpp`)

State: a ring of 256 shared pointers indexed by the atomic `latest_index_`; a
list of `topic_subscription`s (queue, plain counters `enqueued_` and
`dequeued_`, a `managed_thread` that waits 100 ms at a time on the queue and
runs the callback); a list of `topic_buffer`s (queue and atomic `queue_size_`);
`subscriptions_lock_` over the two lists.
Operations: `put`, `get`, `schedule`, `get_buffer`, `stop`; `size` and `dequeue`
of a buffer; the loop of the subscription's thread and the drain at its end.
Interaction: any thread may publish; a reader takes no lock; a callback runs on
the subscription's own thread and may itself publish, on this topic or another;
`stop` joins the subscription threads while it holds the lock.
Hard: the writer's unsynchronised load and increment of the index, readers being
lapped, `enqueued_` lagging behind the queue, a put inside a subscription that is
being destroyed, waiting for a thread that waits for the lock.
Correct when: no put visits a destroyed subscription; the drain finds exactly
what it counts; a removed subscription is quiet; a publisher's events reach a
callback in order without gaps; get() is the latest unless lapped; stop returns.

### Switchboard registry (`switchboard.hpp` 674-1025)

State: the map from topic names to topics under `registry_lock_`, the table of
environment variables.  Operations: `get_reader`, `get_writer`,
`get_buffered_reader`, `get_network_writer`, `schedule`, `stop`,
`try_register_topic` (shared lookup, then exclusive insertion), `get_env`.
Hard: the two-phase registration, the unlocked lookup of `get_network_writer`,
`stop` holding the registry lock shared during the joins.

### Life cycle (`src/main.cpp`, `src/plugin.cpp`, `src/runtime_impl.cpp`, `stoplight.hpp`, `threadloop.hpp`, `src/illixr.hpp`)

State: `runtime_`, `plugins_`, the three events of the stoplight, each
threadloop's `std::thread`, the thread `th` that sleeps for the run's duration.
Operations: `load_so`, `start` of each plugin, `wait`, `_stop`, the destructor;
`sigint_handler`; `thread_main` of a threadloop; `cancellable_sleep`.
Hard: SIGINT may interrupt the main thread anywhere; `stop` is called by the
handler, by `th` (always, also after the handler) and by the destructor; an
exception leaves the start half done.
Correct when: no threadloop runs before all plugins have started; `wait` returns
after the last join; nothing runs when the members are destroyed; only calls of `stop`
that overlap collide at a join; the run ends.

### TCP backend (`plugins/tcp_network_backend/plugin.cpp`, `network/tcpsocket.hpp`)

State: `networked_topics_`, `networked_topics_configs_`, `peer_socket_`, `ready_`,
`running_`; read_loop's `buffer`; what is in the socket.
Operations: connecting from the constructor, `topic_create`, `is_topic_networked`,
`topic_send`, `send_to_peer`, `read_loop`, `topic_receive`, `stop`.
Interaction: the switchboard calls it from any thread with a network writer;
read_loop, a detached thread, publishes on the switchboard; the peer is a process
of its own that may stop at any time.
Hard: a stream has no frames, so both ends cut it anywhere; nothing serialises
senders; announcements and events share the stream; the registry decides whether a
topic is announced at all; the peer closing while a frame is half written.
Correct when: the peer parses the frames that were written, in order, each once;
an event is deserialised as it was serialised; both ends agree on what is
networked; what is sent is handled.

### The other parts

### UDP backend (`plugins/udp_network_backend/plugin.cpp`, `network/udpsocket.hpp`)

State: as the TCP backend's, but `peer_socket_` is one datagram socket and the peer
an address that `set_peer` fixed, from the environment or from the first datagram.
Operations: the constructor, `topic_create` (which sends three copies of the
announcement if there is a peer), `topic_send`, `read_loop`, `topic_receive`, `stop`.
Hard: any datagram may be lost or overtaken; data may come before the announcement
and leaves a default configuration behind; a client that starts again has another
port, which the server does not learn.
Correct when: whoever takes a topic for networked decodes it as its writer encoded
it; an announcement to a peer that stays arrives in spite of two losses.

### Offloaded VIO (`plugins/offload_vio`)

State: device_tx's `data_buffer_`, `latest_cam_time_`, and the buffered reader `cam_`.
Operations: `prepare_imu_cam_data` for each IMU sample, `send_imu_cam_data`;
`receive_vio_input` on the server.  The way back forwards poses.
Hard: a camera frame may reach its buffer before or after the IMU sample that should
release it; the server puts the last sample of a packet after the frame.
Correct when: both streams arrive complete and in order, and after each frame comes a
newer IMU sample.

### ADA (`plugins/ada`, `utils/video_decoder.cpp`)

State: worker threads with bounded queues on both hosts; in `scene_management` the
counter of chunks, the chunks pending, two flags and the list of clean requests, used
by two callbacks; in the decoder two flags and a condition variable between two
GStreamer threads, in server_rx a third flag for the thread that pushed the image.
Hard: chunks are finished in any order; the two callbacks share their state without a
lock, and a request is performed and taken off the list in two steps; two decoder threads
are paired by flags that the next image may raise again.
Correct when: what is merged is one scene, complete; each scene is merged in the end and its
clean request, if it comes in time, performed once; a depth image is put together from two
halves of one image.

### Pool of images (`vk/vulkan_objects.hpp`, native_renderer, `offload_rendering_*`)

State: `image_states`, `image_data`, `latest_decoded_image` under one mutex, and the
pixels, drawn and read outside it.
Operations: `src_acquire_image`, `src_release_image`, `post_processing_acquire_image`,
`post_processing_release_image`.
Correct when: the operations' assertions hold, no image is drawn into while it is
read, and neither pose nor frame goes back.

### Pose prediction (`services/pose_prediction`)

State: `offset_` and `first_time_`, read and written by all threads that ask for a pose.
Hard: `first_time_` is looked at twice, the second time with the lock, while the pose
was computed before.
Correct when: all threads share the origin that the first valid pose gave.

### The other parts

* **Phonebook** (`phonebook.hpp`): a map from types to services under a
  `shared_mutex`; each operation is one critical section and nothing is removed.
* **Relative clock** (`relative_clock.hpp`): start time and durations; started by
  `load_so` after the constructors and before the first `start()`.
* **Dependency check** (`src/plugin.cpp` 99-157): recursion over `plugin_deps.yaml`
  before anything is loaded.
* **Record logging** (`record_logger.hpp`, `src/sqlite_record_logger.hpp`): a queue
  per table and a thread that drains it; `runtime_impl.cpp` installs the logger that
  does nothing.
* **IMU integrators**: a window of samples in one callback, integrated numerically.
* **Dataset playback** (`offline_imu`, `offline_cam`, `ground_truth_slam`): sorted
  rows released by time, one thread each.
* **Drivers, renderers, recorders, wrappers**: device, GPU and file I/O around
  the switchboard.

`PROJECT.json` lists every component with its status, and every hazard with the
line where it bites and the properties that watch it.

## Modules and how they correspond to the code

### Topic

| variables | code |
|-----------|------|
| `latest_index`, `latest_buffer` | members of `topic` of the same names |
| `lock`, `subscriptions`, `buffers` | `subscriptions_lock_` (its owner) and the lists under it |
| `put_pc`, `puts`, `index`, `todo`, `at` | per publishing thread: where it is in `put`, how many it has begun, the local `index`, the list members it has yet to visit, the one it is inside of |
| `thread`, `stop_flag` | `managed_thread` of a subscription: where `thread_main` is, and `stop_` |
| `queue`, `enqueued`, `dequeued` | members of `topic_subscription` |
| `seen` | history of the events handed to the callback |
| `stop_pc` | per stopping thread: where it is in `topic::stop` |
| `buffer_pc`, `buffer_size`, `buffer_queue` | the consumer of a `topic_buffer`, `queue_size_`, `queue_` |
| `read_pc`, `read_index`, `got` | per reader: where it is in `get`, the index it loaded, what it returned |

An action is what one thread does between two accesses to state another thread
may see.  `put` is `PutIndex` (load), `PutStore`, `PutIncrement`, `PutLock`, then
for each subscription `PutEnqueue` (state test and queue) and `PutCount`
(`enqueued_++`), for each buffer `PutBufferSize` and `PutBufferEnqueue`, and
`PutReturn`.  A subscription's thread is `ThreadCheck`, `ThreadDequeue` or
`ThreadIdle`, `CallbackReturn`, and `ThreadOnStop`.  `stop` is `StopCall`,
`StopLock`, per subscription `StopFlag` and `StopJoin`, and `StopReturn`.
Critical sections without an inner wait (`schedule`, `get_buffer`) are one action.

Abstractions: an event is its publisher and its number.  The walk over a list may
take any order.  `BlockingConcurrentQueue` keeps a FIFO per producing thread and
no order between producers (`concurrentqueue.hpp` 1162-1202), so a dequeue takes
the oldest event of some producer (`Takeable`).  A put with `SelfPublishing`
stands for a callback that publishes on its own topic.  `latest_index_` grows
without wrapping: 2^64 is a multiple of 256, so its wrap changes no slot.
`queue_size_` does wrap (`SizeModulus`), because `dequeue` takes it below zero.

### TopicChannel

Publication, opening, handing over and closing as single atomic steps.  The
mapping, at the end of `Topic.tla`: a publication takes place when `put` gets the
lock; an inbox is the queue plus the event the lock's owner has still to bring
there; a subscription is closed when its thread has dropped the rest.

### Lifecycle

| variables | code |
|-----------|------|
| `main`, `loaded`, `next` | where `run` and `load_so` are, the length of `plugins_`, the plugin whose `start()` is next |
| `ready`, `should_stop`, `shutdown_complete` | `value_` of the three events of `stoplight` |
| `thread`, `joinable`, `joiner` | per threadloop: where `thread_main` is, `thread_.joinable()`, who is inside `thread_.join()` |
| `subscribed` | plugins with a callback that `switchboard::stop` has not yet ended |
| `stop_pc`, `stop_at`, `stops` | per caller of `_stop`: where it is and at which plugin; how often a plugin was stopped |
| `timer`, `cancelled` | the thread `th` and `cancellable_sleep::terminate_` |
| `ending`, `signals`, `terminated` | the environment: how the run is to end, SIGINTs sent; `std::terminate` was called |
| `interrupted` | the thread that runs the handler of a second SIGINT |
| `overlapped` | history: two calls of `stop` have been under way at once |

SIGINT (`Sigint`) goes to the main thread and suspends it: `MainRuns` is false until the
handler's `stop` has returned.  While the handler runs SIGINT is blocked on that thread, and
another takes the next one (`SecondSigint`): a threadloop, `th`, or a thread that the model
does not follow, each of which is suspended in turn.  At most two handlers run at a time.
`Endings` says what may end a run: `duration`, the run duration elapses, and SIGINT may come
at any time after `load_so`, before, during and after the call of `stop` by `th`; `sigint`,
likewise, but the duration is long; `early`, SIGINT may also come while `load_so` is running.
`event::set` and `event::wait` keep their structure: the value is
set and tested under the mutex, the waiter blocks in the same step as the test,
and the notification is a separate step.  A second `join` of a thread that is
being joined or no longer joinable throws `std::system_error`, which nothing
catches: `terminated`.  `switchboard::stop` is one step here, justified as far as
`StopReturns` of `Topic` goes.

### TcpBackend

| variables | code |
|-----------|------|
| `registry` | the topics in each host's `registry_` |
| `networked`, `configs` | `networked_topics_`, `networked_topics_configs_` |
| `pc`, `written`, `count` | per sending thread: where it is in `get_network_writer` or `put`, the units of its frame `write_data` has written, how many frames it has begun |
| `wire`, `buffer`, `reader` | per host: what is in the socket towards it, read_loop's `buffer`, where its thread is |
| `process` | `running`, `stopped` (after `stop()`), `terminated` (an exception in a thread, SIGPIPE) |
| `sent`, `received`, `delivered`, `kept` | history |

A frame is cut into units: two for the eight bytes of the header, one for the rest.
A `write` takes any number of units that are left, a `read` any number that has
arrived, so that frames are torn and joined in every way, the header included.
`read_loop` is `Read`, then `Receive` for each complete frame, then `ParseEnd`;
the parser is told a frame's length by the first unit of its buffer, as the code
is by the first four bytes.  `get_network_writer` is `GetNetworkWriter` (the
unlocked lookup), `TopicCreate`, the writes, and `RegisterTopic`.  A duplicate in
`networked_topics_` changes no answer, so the list is a set.

### NetworkedTopics

Per host one log of what was announced and published for it, and how much of the log it
has handled; no socket, buffer, table of configurations or process.  A sender may enter an
event of a topic its host knows, a host handles an entry at once, learns of the topic it
announces, and is handed an event only of a topic it has learned of.  The mapping (`Net`,
at the end of `TcpBackend.tla`): a frame enters the log with its last unit, the log is
`sent`, what is handled is counted by `received`.  Connecting, writing all but the last
unit, reading, stopping, and a `put` on the own host are stutters.

### Registry

| variables | code |
|-----------|------|
| `registry`, `topicsMade` | `registry_`; a topic object is its number |
| `wants`, `missed` | per thread: the name it registers, and whether its look-up has failed |
| `handles` | the readers and writers made |
| `stopping`, `told`, `joined`, `halted` | `switchboard::stop`: in the shared lock, callbacks told to end, ended, returned |

`try_register_topic` is `Ask`, `Lookup` (shared lock) and `Create` (exclusive lock,
`try_emplace`).  `std::shared_mutex` lets readers in beside a waiting writer, as
glibc's does: a look-up never waits for `stop`, an insertion does.

### UdpBackend

| variables | code |
|-----------|------|
| `udpUp`, `epoch` | `running_`; how often the host has been started |
| `peer` | the address of `set_peer`: 0 is the server's, the client's is its epoch unless `ILLIXR_UDP_CLIENT_PORT` (`fixedPort`) fixes it |
| `networked`, `configs` | `networked_topics_`, `networked_topics_configs_` |
| `net` | the bag of datagrams on the way |
| `announced`, `lost`, `sends` | the peer's epoch at the announcement; bounds |

A datagram is received in any order or lost (`Lose`); one to an address at which
nobody listens is always lost.  `operator[]` on the map of configurations makes an
entry with the default method, BOOST, when data comes first and the topic is in the
registry, which the model leaves open; `topic_receive` of the announcement
overwrites it.

### OffloadVio

`device` holds device_tx's members and the packets on their way; `imus` and
`frameTimes` are what the sensors have published.  An IMU sample has an even time, a
frame may fall between two.  `PrepareImuCam` is the whole callback: append the
sample, send the frame held back if the sample is newer, take one frame from `cam_`
and send or hold it.  `ReceiveVioInput` is `receive_vio_input` for a packet.  TCP
keeps the order, as `ReceivedIsPrefix` of `TcpBackend` says.  `StreamsIntact` says of each
published event that it is the next of its kind, counted by `CountOf`.

### AdaScene

`compression` and `decompression` hold each worker's queue and the chunk it works on;
`requested`, `compressed`, `arrived`, `decoded` and `vbLists` are topics; `link` is the
network; `manager` holds the members of `scene_management`, `framePc` and `vbPc` where
its two callbacks are.  `FrameArrives`, `FrameMerges`, `FrameCleans` to
`FrameFinishes` are `process_inactive_frame`, cut where the other callback may
come between.  After the merge `FrameCleans` looks at the flag and performs the last request,
`FrameLowers` takes the flag down, `FramePops` removes the request that is last by then.
`VbArrives` is the test of `mesh_processing_` in
`process_vb_lists`; what follows is `VbCleans`, or `VbPushes` and then `VbRaises`, so that any
step of the merge may come before, between and after them.  A list that is to wait, but for
which `FrameCleans` tests the flag too early, is entered in `late`, a history variable that no
guard reads.  Each call of the vector is taken for atomic, which the code does
not ensure.  server_tx sends the chunks and the lists from two threads of one network writer;
`link` keeps their frames whole, as TCP does for one sender (`TcpTwoSenders`).  Only the `Quiet`
device requests the next scene: the code counts chunks of one scene at a time
without checking that there is only one.

### FramePairing

`sink_ready`, `sinkWaits` and `img` are the decoder's two flags, the threads in its
condition variable, and the samples mapped; `img_ready` and `img_dst` are server_rx's.
`Appsink` is `cb_appsink` up to its wait or to its return, `AppsinkWakes` its end after the
wait.  GStreamer is external: one sample for each buffer, in order.

### BufferPool

The variables carry the code's names; `contents` are the pixels (the number of the
frame drawn into them), `srcImage` and `useImage` the indices the two threads keep between
acquiring and releasing, `usePose` the pose that was acquired with an image, `shown` what
was last read.  `passesLast` tells the server, which passes its last index to
`post_processing_acquire_image`, from native_renderer, which does not.

### PosePrediction

`offset` and `first_time` are the members; `predicted`, `raw`, `locking` say where a
thread is in `correct_pose`.  An orientation is a number of steps of a full turn about
one axis: turning and turning back is addition modulo `TurnSteps`.  Positions and the
integration play no part in the offset.

### Parts

For TLC only: an instance of each of the seven, of which a behaviour chooses one in
its first state and leaves the others alone.  The seven share no state, so this loses
nothing, and fairness is stated for the steps of each.

## Runs

| run | instance | shows |
|-----|----------|-------|
| `TopicDelivery` | 2 writers, 2 subscriptions, 1 stopper, 2 puts each; 0.8 million states up to symmetry | `TypeOK`, `WalkIsLive`, `DrainIsExact`, `RemovedIsQuiet`, `NoneSkipped`, `ImplementsChannel` |
| `TopicData` | 1 writer, 5 puts, ring of 2, a reader, a polled and a blocking buffer; 87,000 states | `GetIsLatestUnlessLapped`, `NullOnlyInTheBeginning`, `BufferSizeExact`, `PollingNeverStarves` |
| `TopicLiveness` | 2 stoppers, 2 subscriptions, 1 writer, under fairness; 38,000 states | `StopReturns`, `EventsSettle` |
| `TopicTwoWriters` | 2 writers on one ring | *violated*: `NullOnlyInTheBeginning` |
| `Lifecycle` | 3 plugins, 2 of them threadloops, the first may throw, ended by the duration or by up to 2 SIGINTs at any time after `load_so`; under fairness; 58,000 states | all properties of `Lifecycle` |
| `LifecycleEarly` | SIGINT while `load_so` starts the plugins | *violated*: `InterruptStops` |
| `Tcp` | a sender on the client, 3 frames, and one on the server, 1 frame, for one topic; readers registered and either host stopped at any time; under fairness | `TypeOK`, `FramesIntact`, `EndpointsAgree`, `SentArrives`, `ImplementsNetworkedTopics` |
| `TcpTwoSenders` | two senders on the client, a topic each | *violated*: `FramesIntact` |
| `TcpLocalFirst` | a sender on the client, the topic possibly registered before | *violated*: `NetworkedStaysRemote` |
| `Parts` | one instance of each of the seven, see the bounds; 77,000 states | pool: `PoolAsserts`, `FramePosePaired`, `ShownForward`; UDP: `UdpMethodAgrees`, `AnnouncementArrives`; VIO: `StreamsIntact`, `CameraCaptured`; ADA: `MergeIsComplete`, `CleansOnce`, `ScenesIntegrated`, `PairsMatch`; registry: `OneTopicPerName`, `RegistryStopReturns`; pose: `OriginKept` |
| `AdaLateClean` | 2 scenes of 2 chunks with their lists to clean | *violated*: `NoneForgotten` |
| `FramePairing` | four images through the two decoder threads | *violated*: `WaiterCleansUp` |

**Bounds.** `MaxPuts` bounds the puts of one thread and `MaxSignals` the SIGINTs;
both are guards.  Two writers are what it takes for two publishers to overtake
each other; two subscriptions for a put to be inside one list node while another
is about to be removed; two puts per writer for an order to be broken.  A ring of
two slots is lapped by the third put, so five laps it twice; the constant 256
plays no other part.  `SizeModulus` exceeds the number of events in flight, so
that a size below zero is distinct from every true size.  The last two plugins
being threadloops lets one exit, or block, before and after the other, and the
first, an ordinary plugin, can throw before anything runs.  Two SIGINTs and the duration give
three calls of `stop` that overlap or follow each other in every way.
`MaxFrames` bounds the frames of a sender: three are an announcement and two
events, enough for an event to overtake, and for a read to return the end of one
frame, all of the next and the head of a third.  The server's single frame is
either a second announcement of the topic or an event for the client.
`Parts`: a pool of three images is what the code has and the least that suffices;
five frames reuse every image.  A client that starts twice and a server that starts
once, one topic from each side, let a stale datagram meet a new epoch; two losses are
what three copies are for, and more void the promise; one message suffices to overtake
the announcement.  Four IMU samples and three frames give packets of one and of
several samples, a frame at the time of a sample, before it and after it.  Two scenes of three
chunks show what one scene leaves to the next; a single compression worker, whose
queue of one is full at once, makes the producer wait (the code has eight places), and the
three decompression workers finish in every order.  Four images let a sink be two
images ahead of the one that waits.  A plugin and two callbacks over two names are
two threads that miss the same name, during and outside of `stop`.  Two askers and
three steps of a turn, in which turning left and right differ, make a race for the
first pose; one `set_offset` ends what is claimed.
Deadlock is checked in every passing run: `Finished` (`PoolFinished`, `UdpFinished`
and the like) is enabled only when all that may have to end has ended; `PairStops` and
`RegStops` also allow the two deadlocks that the code has (`sinkWaits = Sinks`,
`CreatesInStop`), which the findings and hazards name.

**Fairness.** Weak fairness per thread: of the steps of a put or stop that has
begun, of a subscription's thread, of a blocked consumer, of the main thread, of
each threadloop, of each call of `stop` and of `th`.  It is the assumption that
the scheduler runs every thread, that a callback or iteration returns, and that a
sleep ends.  `std::mutex` is not fair, but every competing critical section of the
instances is finite in number, so weak fairness of taking the lock suffices for
what is claimed.  Nobody is obliged to publish, to schedule, to read, to call
`stop` or to send SIGINT; spurious wake-ups are possible and never owed.  For TCP:
what is written arrives, a read that can return does, and read_loop goes on until
`stop()`; the client may never start, and read_loop's end after `stop()` is not
owed, because a read that has begun may block for good.  In `Parts`: a running UDP
host goes on receiving, so a datagram is received or lost; the workers and callbacks
of ADA run, one step of any of them at a time being owed (`AdaStep`); a registration by
a callback that has begun goes on, and so does `switchboard::stop`.  No host must
start, announce or send, and no scene must be requested.

**Assumptions about the environment.** `std::shared_mutex` prefers readers; one
IMU sample lies between two camera frames, the IMU being the faster sensor;
one ADA scene is on its way at a time, and its chunks and lists share the link undamaged;
GStreamer returns a sample for each buffer in order; at most two datagrams to a running host are lost.

## What the code does other than it says

1. **Two writers on one topic** (`TopicTwoWriters`).  `put` is documented as
   "Thread-safe" (`switchboard.hpp:395`), with a caveat about lapped readers only.
   Two puts that load `latest_index_` before either increments it use the same
   slot; the index then points to the next, where there is a null pointer or, once
   the ring has filled, an event 255 publications old.  Topics of which one thread
   is the writer, or whose writers exclude each other as the workers of
   `mesh_compression` do, are not affected: `NullOnlyInTheBeginning` holds for one
   writer in `TopicData`.
2. **SIGINT during `load_so`** (`LifecycleEarly`).  The handler runs on the
   suspended main thread and joins a threadloop that waits for `ready_`.
3. **Two threads of one host that send** (`TcpTwoSenders`).  `send_to_peer` writes a
   packet in as many `write` calls as it takes, without a lock; the format stated at
   `tcp_network_backend/plugin.cpp:101` is then not what is in the stream.
4. **A topic registered locally first** (`TcpLocalFirst`).  `get_network_writer`
   announces a topic only if nobody of the host has registered it
   (`switchboard.hpp:883`); otherwise the network writer publishes on its own host
   and nothing is sent, where `README_network_backends.md:16` rules that out.
5. **Two decoder threads that both wait** (`FramePairing`).  The thread that completes an
   image lowers both flags and notifies; before the other has woken it may bring the
   first half of the next image and raise its flag again.  The woken thread finds a
   flag up, waits on, and nobody notifies again; `video_decoder.cpp:118` says "unlock and
   notify the waiting thread to clean up".
   Images are never mixed (`PairsMatch`, proved): the decoder stalls.
6. **A request to clean that is lost** (`AdaLateClean`).  At the end of a merge
   `scene_management/plugin.cpp:178` performs the last request and `:187` removes the last
   one, which is another if `process_vb_lists` has pushed one in between: that one is removed
   without having been performed.  It takes a request that came as the merge before was
   ending and so was left waiting.  `:174` says "if a clean request received while the
   previous frame is processing need to clean it".

Three more belong to the same family but contradict no statement in the repository,
and are therefore recorded as hazards only.  With a callback that publishes on its own topic
(`SelfPublishing` not empty in `TopicLiveness`), `StopReturns` fails: `stop` joins under the
lock that `put` needs.  When calls of
`stop` overlap, as SIGINT's with that of `th` at the end of the duration, they may join the same
thread and terminate the process; hence `NoJoinConflict` promises no more than that calls which
follow each other do not, and `InterruptStops` and `DurationStops` count termination as an end.
With a throwing plugin after the first threadloop,
`DurationStops` fails: the destructor joins a thread that was never released.

## What is proved

`TopicProofs.tla`, from the assumptions on the constants named in `Topic.tla`
(threads of different kinds are different, the ring and the modulus are not
empty), for any number of threads, subscriptions, buffers, readers, puts:

* `TypeCorrect`: `TypeOK`, strengthened by `PutsBegun` (a thread inside `put` has
  begun one, so what it enqueues is an event with a number).
* `Inductive`: the invariant `IInv`.  `WalkIsLive`, `DrainIsExact` and
  `RemovedIsQuiet` are not inductive: they depend on who holds the lock
  (`LockHeld`), on only the holder having list members left to visit, all of them
  listed (`WalkOnLists`), on one listed subscription being stopped at a time, by
  the holder (`OneIsStopped`), on the states a subscription goes through
  (`Lifecycle`, of the subscription), and on `enqueued_` being exactly one short while a put stands
  between the queue and the counter (`Accounting`).
* `WalkSafe`, `DrainSafe`, `RemovalSafe`: the three properties, as consequences.
  `DrainSafe` is the argument the code relies on without stating it: a thread
  drains only after its `stop_` was set, which is done under the lock, so no put is
  in the middle of counting.
* `Refinement`: `Spec => ImplementsChannel`, from `IInv` and one lemma per group of
  actions.  Four steps are visible to the channel (taking the lock, scheduling,
  dequeuing, draining); all others stutter.  `AppendToConcat` and `WithoutAppend` are
  facts about sequences: taking an event from a queue and appending one at its end commute.

`TopicDataProofs.tla` builds on `IInv`:

* `BufferSizeRight` and `PollingServed`, for any buffers and publishers, from `BufferInv`:
  `queue_size_` is what is in the queue, plus the event of a put between `queue_size_++`
  and `enqueue` (there is one at most, it has the lock), minus the one a blocked consumer has
  counted already.  That a polled buffer's count is never negative is what makes the
  second property inductive.
* `GetIsLatest` and `NullOnlyAtFirst`, for any size of the ring, from `RingInv`: the last
  `RingSize` events are each in the slot of their number, and a reader's index is not
  ahead of the writer's.  `RemaindersDiffer` is the arithmetic beneath: two numbers less than
  a ring apart are in different slots.  The theorems have the hypothesis that one thread
  puts on the topic (`Putters = {w}`); it is needed, as `TopicTwoWriters` shows.
* `NoneIsSkipped`, for any publishers and subscriptions, from `HandOverInv`: of each
  publisher, what a callback has handled and what is queued are an interval of numbers, the
  handled ones first, which while the subscription is open ends with the last put that
  has visited it.

`LifecycleProofs.tla`, for any number of plugins and SIGINTs:

* `LifecycleTypes` and `LifecycleStart`, whatever ends the run, from `GenInv`: which
  caller may be inside `stop` by where the main thread and `th` are, that only loaded
  plugins are joined, and that only the end of the start sets `ready_`.
* `JoinsNeverCollide`, whatever ends the run and whichever calls overlap.  `NoJoinConflict` is
  not inductive; `JoinInv` (`JoinInductive`) adds why it holds: a thread is joined by the call
  that is at its plugin and stays joinable until then (`Joiners`), nothing is started behind the handler's
  call (`Passed`), and as long as no two calls have been under way at once there is one at
  most and what it has found joinable still is (`OneAtATime`).
* `StopsCounted`, likewise, from `Counted`: the stops a plugin has had and those still pending
  are at most the calls made, of which all but one are the SIGINTs'.
* `WaitIsForAll` and `DestructionIsQuiet`, under the assumption `AfterStart` that SIGINT does
  not interrupt `load_so`, from `QuietInv` (`QuietInductive`), overlaps included: what a call
  has passed is stopped and joined for good (`Calls`), after the shutdown nothing is left
  (`Complete`), and where the main thread is tells how far the shutdown is (`Phases`).

`TcpProofs.tla`, for any hosts' senders, topics, frame sizes, methods and any cutting of
the stream by `write` and `read`:

* `TcpTypes`, without hypotheses.
* `TcpFramesWhole` and `TcpInOrder` from `StreamInv`: what is in read_loop's buffer and in
  the socket, put together, is the units of the frames sent and not yet handled, each
  whole, and then the part of the last one that its sender has written; so what the
  parser takes for a header is one.
* `TcpMethodRight` from `MethodInv`: an event under way comes to a host that knows its topic or
  finds the announcement before it in the stream (`AnnouncedFirst`), a thread about
  to send takes its topic for networked (`SendersKnow`), and what one host takes for
  networked the other knows, will know from the stream, or is about to be told
  (`PeerKnows`).
* `TcpRefinement`: `Spec => ImplementsNetworkedTopics`, from `NetInv` (`TcpNetInductive`), which
  adds to `MethodInv` what the two steps that are not stutters need.  For `Send`: the frame being
  written has a number above those of its sender's frames in the log (`Numbered`).  For
  `Handle` of an event: its topic has the right configuration (`AnnouncedFirst`, for the first
  frame of the stream), and a topic that has one is networked (`Configured`).  `TcpInOrder` and `TcpMethodRight` are the safety of what is delivered as plain
  invariants; no run checks these two, since the refinement covers them.
* All but the first have the hypothesis `OneSender`, that no two threads of a host send.
  `TcpTwoSenders` shows that it is needed.

`PartsProofs.tla`, about five components and then about all of `Parts`:

* The registry, for any threads and names: a handle's topic is the registry's entry of
  its name (`RegInductive`), hence `RegOneTopic`.
* UDP, for any topics, starts, losses and messages: `UdpMethodRight`.  A host takes a topic
  for networked only together with the right method, and neither data nor a second
  announcement changes it; `UdpNetOK`, that all datagrams are about topics, is proved
  beside it.
* The pool, for three images or more and any number of frames, from `PoolInv`:
  each thread's image is in its state and the only available image is the latest
  (`Holders`, `LatestHeld`), so that at most two of three images are taken and one is
  free for the source; a finished image has the pixels of its pose (`Drawn`); poses
  grow from the one shown to the one being drawn (`Newer`).
* The decoder, for any number of images: it is at rest, decoding or decoded, with the
  flags and samples of that phase exactly (`PairInductive`), hence `PairsAlwaysMatch`.  A
  sink that waits on through the next image is allowed for.
* The origin of poses, for any number of threads and any resolution of the turn: as long
  as no first pose has been returned no prediction contains an offset (`Unturned`), hence
  `PoseOriginKept`.
* Types with their bounds: `RegTypesBounded` and `UdpTypesBounded`.  A number that only grows
  needs a reason to stay under its bound.  A thread that found no topic under the shared lock
  looks again under the exclusive one and makes a topic only for a name without one, so
  `topicsMade` is the number of names that have a topic (`Registered`) and never passes the
  number of names.
* `PartsInductive`: `PartsInv` is the conjunction of the components' invariants.  A step of
  `Parts` is a step of one component and a stutter of the others (`StepOfEach`), so each
  component's own lemma about its step does for it.  `PartsTypes` and `PartsSafe` follow:
  all that `Parts` checks except liveness.

`VioProofs.tla`, for any number of samples and frames: `VioStreams` and `VioCamera`, from
`VioInv`.  Published, on the link, held by device_tx: in this order the samples are 2, 4, 6
and so on (`SamplesOK`) and the frames are those of the device (`FramesOK`), the one held
back included; a packet ends with a sample newer than its frame (`PacketsOK`).  The step
that needs most is a sample that sends the frame held back and then looks at the next:
that frame must not be older than the sample, or a packet without samples would follow.
It is not, because a sample lies between two frames (`Gaps`) and the frame held back is not
older than the sample before (`HeldOK`).  `VioStreams` thus rests on the assumption
about the sensors.  `CountOfConcat` counts the events of a kind in two streams
joined.  `VioTimesBounded` is the type invariant: the queues hold only times that the sensors
gave, so that a bound on samples and frames is one on all that is held back or sent.

`AdaProofs.tla`, for any number of scenes, chunks, workers and places in their queues:
`AdaMerges`, from `AdaInv`.  The code counts chunks to know when a scene is complete, so the
invariant is that a scene under way (`Flying`) has each of its chunks in exactly one
of the places a chunk passes (`OneEach` of `Boxes`: four topics, the link, each worker's
queue and hands, the manager's list), and that the manager has counted those in
its list.  When as many are there as a scene has, a counting argument (`FS_Subset` and the
cardinality of a sequence without repetitions) leaves none elsewhere.  After the merge
no chunk is anywhere (`Landed`), which is the only state in which the device is `Quiet` and
the next scene is requested.  Most actions are covered by a lemma on `OneEach`: a chunk
moves from one place to another (`ChunkMoves`), a list joins the chunks or leaves
them (`OtherAdded`, `OtherTaken`); the request and the merge, which make and remove
a scene's chunks, have proofs of their own.

`AdaCleansOnce`, from `CleanInv` (`AdaRequestsInductive`), does the same for the lists to clean,
wherever in a merge they come.  A list that comes in time is in one of five places: the link,
the topic, the callback that performs or pushes it, the list of requests, or what was performed
(`RequestsInv`); late lists are beside, as chunks are.  What `FramePops` removes need not be what
`FrameCleans` performed, as `AdaLateClean` shows, but a list that came in time is not removed unperformed: it is
pushed before the flag is tested, when the flag is tested it is the last and the flag is up
(`ManagerOK`), and all requests before the last are late (`OnlyTheLast`), because the device is
`Quiet` before the next list is published.

`AdaTypesBounded`: the count of chunks stays at most a scene's because
a chunk under way is counted once, when it leaves the only place it is in.  That `FrameCleans`
and `FramePops` find a request to take (`back()` and `pop_back()` of an empty vector are
undefined, and the code tests only the flag) is `RequestsWait`: the flag, the `pop_back()` to
come, and a list pushed whose flag is not raised yet have a request each.

**Only model-checked**: liveness, which is beyond the prover (`StopReturns`,
`EventsSettle`, `DurationStops`, `InterruptStops`, `EndpointsAgree`, `SentArrives`,
`AnnouncementArrives`, `ScenesIntegrated`, `RegistryStopReturns`).

## Plan

What is done: topic and channel, the life cycle, both network backends, the registry,
offloaded VIO and ADA, decoder, pool and pose, with proofs of every invariant that a
passing run checks.  What would come next:

1. The safety part of what is stated as liveness: that whoever waits is not waited for
   (`StopReturns` needs that no subscription's thread of the topic being stopped wants
   `subscriptions_lock_`), as an invariant of `Topic`.
2. `switchboard::stop` composed of several topics, with callbacks that publish on each
   other's.
3. `check_plugins` and the data sets' lookup as operators against reference
   definitions (recursive, TLC only).

## Not modelled

Serialisation, logging, options and environment variables; the sqlite record logger,
which no build installs; the phonebook and the relative clock, whose order of use the
life cycle fixes; `check_plugins`, sequential and before everything else; the dataset
players and integrators, each a single thread around numeric code or a search;
drivers, renderers, recorders and wrappers of external libraries, which are I/O around
topics; floating-point estimation; vendored code, except for the order its queues keep.

Of the modelled components: `set_env` and `get_env`; a third signal
handler at a time, and one that uses `runtime_` after its deletion; the return path of
offloaded VIO, which keeps no state; ADA's `device_tx`, InfiniTAM (an empty submodule here), the
geometry of the grid and the shutdown of the workers; packets, codec and Vulkan calls of
offloaded rendering; read_loop's use of a socket that `stop` of the UDP backend has
deleted, which is undefined.  The signal handler interrupts the main thread between the
steps of the model, not inside a critical section.  The concurrent use of scene_management's
vector of requests is taken for atomic calls, its grid for two sets of what it was given, and
server_tx's two threads for one that sends.  The data race on
`networked_topics_` is taken for atomic accesses, and what a thread does after a failed
write on a socket its own host has closed, where the iterator leaves the string, is not
followed.  Constructors and `_p_thread_setup` have no effect on the modelled state.

Most of the repository's lines are not the program's own logic: imgui, stb and the queue
headers make up the larger part, and much of the rest is device, GPU and file I/O.  The
map therefore covers a small share of all lines, however much of the concurrent core is
modelled.
