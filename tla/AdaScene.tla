------------------------------- MODULE AdaScene -------------------------------
(* plugins/ada, the way down: a scene mesh is cut into chunks, compressed by   *)
(* worker threads of mesh_compression, sent by server_tx, handed to the        *)
(* workers of mesh_decompression by device_rx and merged by scene_management,  *)
(* beside the lists of voxel blocks to clean.  A chunk is its scene and its    *)
(* number; geometry is left out.  A scene is requested when the device has     *)
(* finished with the one before: the code relies on it without checking it.    *)
EXTENDS Integers, SequencesExt

CONSTANTS
    MaxScenes,          \* bound: scenes
    ChunkCount,         \* PARTIAL_MESH_COUNT, thread_count_, chunck_number_
    CompressWorkers,    \* MESH_COMPRESS_PARALLELISM
    QueueCap            \* capacity of a worker's queue (8 in the code)

ASSUME AdaAssumption ==
    /\ MaxScenes \in Nat
    /\ ChunkCount \in Nat \ {0} /\ CompressWorkers \in Nat \ {0} /\ QueueCap \in Nat \ {0}

VARIABLES
    scenes,         \* scenes requested
    vbUnsent,       \* the list of the last scene is not published yet
    requested,      \* topic requested_scene
    compression,    \* mesh_compression: queue_ of each worker and what it works on
    compressed,     \* topic compressed_scene of the server
    link,           \* from server_tx to device_rx, in order
    arrived,        \* topic compressed_scene of the device
    decompression,  \* mesh_decompression, likewise
    decoded,        \* topic decoded_inactive_scene
    vbLists,        \* topic VB_update_lists
    manager,        \* the fields of scene_management
    framePc,        \* where its callback for chunks is
    vbPc, vbAt,     \* the list that its other callback handles, and what is next for it
    merged, cleaned, \* what the grid was given: lists of chunks; scenes of voxel lists
    late            \* history: lists that were to wait, but too late for the end of the merge

serverVars == <<scenes, vbUnsent, requested, compression, compressed>>
pipeVars   == <<arrived, decompression, decoded>>
gridVars   == <<manager, framePc, vbPc, vbAt, merged, cleaned, late>>
adaVars    == <<serverVars, link, pipeVars, vbLists, gridVars>>

Idle == [scene |-> -1, chunk |-> -1]
Workers(n) == 0..(n - 1)
ChunksOf(s) == {[scene |-> s, chunk |-> k] : k \in 0..(ChunkCount - 1)}
VbList(s) == [scene |-> s, chunk |-> -1]   \* active 3 in the protocol

AdaInit ==
    /\ scenes = 0
    /\ vbUnsent = FALSE
    /\ requested = <<>>
    /\ compression = [w \in Workers(CompressWorkers) |-> [queue |-> <<>>, work |-> Idle]]
    /\ compressed = <<>>
    /\ link = <<>>
    /\ arrived = <<>>
    /\ decompression = [w \in Workers(ChunkCount) |-> [queue |-> <<>>, work |-> Idle]]
    /\ decoded = <<>>
    /\ vbLists = <<>>
    /\ manager = [current_id |-> -1, chunk_counter |-> 0, pending_chunks |-> <<>>,
                  last_processed |-> -1, mesh_processing |-> FALSE,
                  clean_waiting |-> FALSE, pending_clean_reqs |-> <<>>]
    /\ framePc = "idle"
    /\ vbPc = Idle
    /\ vbAt = "clean"
    /\ merged = <<>>
    /\ cleaned = <<>>
    /\ late = {}

Resting(pool) == \A w \in DOMAIN pool : pool[w] = [queue |-> <<>>, work |-> Idle]

Quiet ==
    /\ ~vbUnsent
    /\ requested \o compressed \o link \o arrived \o decoded \o vbLists = <<>>
    /\ Resting(compression) /\ Resting(decompression)
    /\ framePc = "idle" /\ vbPc = Idle

\* InfiniTAM publishes the chunks of a scene, and some time later its list.
RequestScene ==
    /\ Quiet
    /\ scenes < MaxScenes
    /\ requested' = [k \in 1..ChunkCount |-> [scene |-> scenes, chunk |-> k - 1]]
    /\ scenes' = scenes + 1
    /\ vbUnsent' = TRUE
    /\ UNCHANGED <<compression, compressed, link, pipeVars, vbLists, gridVars>>

SendVbList ==
    /\ vbUnsent
    /\ vbUnsent' = FALSE
    /\ link' = Append(link, VbList(scenes - 1))
    /\ UNCHANGED <<scenes, requested, compression, compressed, pipeVars, vbLists, gridVars>>

\* Mutant: one too many.
HasRoomForOneMore(pool, w) == Len(pool[w].queue) <= QueueCap

\* try_enqueue, repeated until the worker's queue has room
HasRoom(pool, w) == Len(pool[w].queue) < QueueCap
Enqueued(pool, w, c) == [pool EXCEPT ![w].queue = Append(@, c)]

\* wait_dequeue_timed by an idle worker, and the put of its result
Dequeues(pool, w) == pool[w].work = Idle /\ pool[w].queue # <<>>
Dequeued(pool, w) == [pool EXCEPT ![w] = [queue |-> Tail(@.queue), work |-> Head(@.queue)]]
Done(pool, w) == [pool EXCEPT ![w].work = Idle]

ProcessMesh ==
    /\ requested # <<>>
    /\ LET w == Head(requested).chunk % CompressWorkers
       IN  /\ HasRoom(compression, w)
           /\ compression' = Enqueued(compression, w, Head(requested))
    /\ requested' = Tail(requested)
    /\ UNCHANGED <<scenes, vbUnsent, compressed, link, pipeVars, vbLists, gridVars>>

Compress(w) ==
    /\ \/ /\ Dequeues(compression, w)
          /\ compression' = Dequeued(compression, w)
          /\ UNCHANGED compressed
       \/ /\ compression[w].work # Idle
          /\ compressed' = Append(compressed, compression[w].work)
          /\ compression' = Done(compression, w)
    /\ UNCHANGED <<scenes, vbUnsent, requested, link, pipeVars, vbLists, gridVars>>

SendSrOutput ==
    /\ compressed # <<>>
    /\ link' = Append(link, Head(compressed))
    /\ compressed' = Tail(compressed)
    /\ UNCHANGED <<scenes, vbUnsent, requested, compression, pipeVars, vbLists, gridVars>>

ReceiveSrOutput ==
    /\ link # <<>>
    /\ link' = Tail(link)
    /\ IF Head(link).chunk # -1
       THEN arrived' = Append(arrived, Head(link)) /\ UNCHANGED vbLists
       ELSE vbLists' = Append(vbLists, Head(link)) /\ UNCHANGED arrived
    /\ UNCHANGED <<serverVars, decompression, decoded, gridVars>>

ProcessFrame ==
    /\ arrived # <<>>
    /\ LET w == Head(arrived).chunk % ChunkCount
       IN  /\ HasRoom(decompression, w)
           /\ decompression' = Enqueued(decompression, w, Head(arrived))
    /\ arrived' = Tail(arrived)
    /\ UNCHANGED <<serverVars, link, decoded, vbLists, gridVars>>

Decompress(w) ==
    /\ \/ /\ Dequeues(decompression, w)
          /\ decompression' = Dequeued(decompression, w)
          /\ UNCHANGED decoded
       \/ /\ decompression[w].work # Idle
          /\ decoded' = Append(decoded, decompression[w].work)
          /\ decompression' = Done(decompression, w)
    /\ UNCHANGED <<serverVars, link, arrived, vbLists, gridVars>>

\* The first lines of process_inactive_frame: a new scene starts the count anew.
Counted(m, s) ==
    IF s > m.last_processed /\ s > m.current_id
    THEN [m EXCEPT !.current_id = s, !.chunk_counter = 1]
    ELSE IF s = m.current_id THEN [m EXCEPT !.chunk_counter = @ + 1] ELSE m

Pended(m, c) ==
    IF m.chunk_counter <= ChunkCount THEN [m EXCEPT !.pending_chunks = Append(@, c)] ELSE m

FrameArrives ==
    LET m == Pended(Counted(manager, Head(decoded).scene), Head(decoded))
    IN  /\ framePc = "idle"
        /\ decoded # <<>>
        /\ decoded' = Tail(decoded)
        /\ manager' = [m EXCEPT !.mesh_processing = @ \/ m.chunk_counter = ChunkCount]
        /\ framePc' = IF m.chunk_counter = ChunkCount THEN "merge" ELSE "idle"
        /\ UNCHANGED <<serverVars, link, arrived, decompression, vbLists, vbPc, vbAt, merged,
                       cleaned, late>>

\* Mutant: the last chunk merged is left behind.
RemainingOne(chunks) == SubSeq(chunks, ChunkCount, Len(chunks))

\* The erase of what was merged.
Remaining(chunks) == SubSeq(chunks, ChunkCount + 1, Len(chunks))

FrameMerges ==
    /\ framePc = "merge"
    /\ merged' = Append(merged, SubSeq(manager.pending_chunks, 1, ChunkCount))
    /\ manager' = [manager EXCEPT !.pending_chunks = Remaining(@)]
    /\ framePc' = "clean"
    /\ UNCHANGED <<serverVars, link, pipeVars, vbLists, vbPc, vbAt, cleaned, late>>

\* The list that the other callback is about to push, or has pushed without raising the
\* flag, when the flag is tested.
Missed ==
    IF vbPc # Idle /\ (vbAt = "push" \/ (vbAt = "raise" /\ ~manager.clean_waiting))
    THEN {vbPc} ELSE {}

\* The flag is tested, and the last request performed if it is up.
FrameCleans ==
    /\ framePc = "clean"
    /\ late' = late \cup Missed
    /\ IF manager.clean_waiting
       THEN cleaned' = Append(cleaned, Last(manager.pending_clean_reqs)) /\ framePc' = "lower"
       ELSE framePc' = "finish" /\ UNCHANGED cleaned
    /\ UNCHANGED <<serverVars, link, pipeVars, vbLists, manager, vbPc, vbAt, merged>>

FrameLowers ==
    /\ framePc = "lower"
    /\ manager' = [manager EXCEPT !.clean_waiting = FALSE]
    /\ framePc' = "pop"
    /\ UNCHANGED <<serverVars, link, pipeVars, vbLists, vbPc, vbAt, merged, cleaned, late>>

\* Mutant: the request that was performed stays in the list.
PerformedAndKept(requests) == requests

\* pop_back takes whatever is last by now.
Performed(requests) == Front(requests)

FramePops ==
    /\ framePc = "pop"
    /\ manager' = [manager EXCEPT !.pending_clean_reqs = Performed(@)]
    /\ framePc' = "finish"
    /\ UNCHANGED <<serverVars, link, pipeVars, vbLists, vbPc, vbAt, merged, cleaned, late>>

FrameFinishes ==
    /\ framePc = "finish"
    /\ manager' = [manager EXCEPT !.last_processed = manager.current_id,
                                  !.mesh_processing = FALSE]
    /\ framePc' = "idle"
    /\ UNCHANGED <<serverVars, link, pipeVars, vbLists, vbPc, vbAt, merged, cleaned, late>>

\* process_vb_lists tests mesh_processing_; the flag of the merge is up from the count of
\* the last chunk to the end of process_inactive_frame.
VbArrives ==
    /\ vbPc = Idle
    /\ vbLists # <<>>
    /\ vbLists' = Tail(vbLists)
    /\ vbPc' = Head(vbLists)
    /\ vbAt' = IF manager.mesh_processing THEN "push" ELSE "clean"
    /\ late' = IF manager.mesh_processing /\ framePc \in {"lower", "pop", "finish"}
               THEN late \cup {Head(vbLists)} ELSE late
    /\ UNCHANGED <<serverVars, link, pipeVars, manager, framePc, merged, cleaned>>

VbCleans ==
    /\ vbPc # Idle /\ vbAt = "clean"
    /\ cleaned' = Append(cleaned, vbPc)
    /\ vbPc' = Idle
    /\ UNCHANGED <<serverVars, link, pipeVars, vbLists, manager, framePc, vbAt, merged, late>>

\* A list that finds a merge under way waits: it is pushed ...
VbPushes ==
    /\ vbPc # Idle /\ vbAt = "push"
    /\ manager' = [manager EXCEPT !.pending_clean_reqs = Append(@, vbPc)]
    /\ vbAt' = "raise"
    /\ UNCHANGED <<serverVars, link, pipeVars, vbLists, framePc, vbPc, merged, cleaned, late>>

\* Mutant: the flag is not raised.
NotRaised(m) == m

Raised(m) == [m EXCEPT !.clean_waiting = TRUE]

\* ... and then the flag is raised.
VbRaises ==
    /\ vbPc # Idle /\ vbAt = "raise"
    /\ manager' = Raised(manager)
    /\ vbPc' = Idle
    /\ UNCHANGED <<serverVars, link, pipeVars, vbLists, framePc, vbAt, merged, cleaned, late>>

AdaFinished == Quiet /\ scenes = MaxScenes /\ UNCHANGED adaVars

\* The threads of the two machines.
AdaStep ==
    \/ ProcessMesh \/ SendSrOutput \/ ReceiveSrOutput \/ ProcessFrame
    \/ \E w \in Workers(CompressWorkers) : Compress(w)
    \/ \E w \in Workers(ChunkCount) : Decompress(w)
    \/ FrameArrives \/ FrameMerges
    \/ FrameCleans \/ FrameLowers \/ FramePops \/ FrameFinishes
    \/ VbArrives \/ VbCleans \/ VbPushes \/ VbRaises

AdaNext == RequestScene \/ SendVbList \/ AdaStep \/ AdaFinished

AdaSpec == AdaInit /\ [][AdaNext]_adaVars /\ WF_adaVars(AdaStep)

------------------------------------------------------------------------------
AnyChunk == UNION {ChunksOf(s) : s \in 0..(MaxScenes - 1)}
AnyList  == {VbList(s) : s \in 0..(MaxScenes - 1)}

AdaTypeOK ==
    /\ scenes \in 0..MaxScenes
    /\ vbUnsent \in BOOLEAN
    /\ requested \o compressed \o arrived \o decoded \in Seq(AnyChunk)
    /\ \A pool \in {compression, decompression} : \A w \in DOMAIN pool :
        Len(pool[w].queue) <= QueueCap /\ pool[w].work \in AnyChunk \cup {Idle}
    /\ link \in Seq(AnyChunk \cup AnyList)
    /\ vbLists \in Seq(AnyList) /\ cleaned \in Seq(AnyList)
    /\ manager.chunk_counter \in 0..ChunkCount
    /\ framePc \in {"idle", "merge", "clean", "lower", "pop", "finish"}
    /\ vbPc \in AnyList \cup {Idle} /\ vbAt \in {"clean", "push", "raise"}
    /\ late \subseteq AnyList

\* What is merged into the grid is a scene: all its chunks, each once, none of another,
\* in whatever order the worker threads of the two machines finish them.
MergeIsComplete ==
    \A i \in 1..Len(merged) : ToSet(merged[i]) = ChunksOf(i - 1)

\* Every scene is merged, and the clean request that comes with it is performed, now or at
\* the end of the merge that it finds under way, unless it came too late for that (late).
ScenesIntegrated ==
    \A s \in 0..(MaxScenes - 1) :
        /\ scenes > s ~> Len(merged) > s
        /\ VbList(s) \in ToSet(link) ~> VbList(s) \in ToSet(cleaned) \cup late

\* Where the list of a scene may be once it is published.
Places == [link |-> link, topic |-> vbLists,
           callback |-> IF vbPc = Idle \/ vbAt = "raise" THEN <<>> ELSE <<vbPc>>,
           requests |-> manager.pending_clean_reqs, done |-> cleaned]

Published == {VbList(s) : s \in {t \in 0..(scenes - 1) : vbUnsent => t < scenes - 1}}

\* The two callbacks of scene_management share the flags and the list of requests without a
\* lock.  Whatever they interleave, a list in time for the end of the merge that it finds
\* under way, or that finds none, is neither lost nor performed twice, even when requests of
\* late lists were left behind: it is in one place, once, except between its clean and the
\* pop_back.  And whenever the flag is up there is a request for back() to return.
CleansOnce ==
    /\ framePc \notin {"lower", "pop"} =>
         \A v \in Published \ late : \E p \in DOMAIN Places : \E i \in DOMAIN Places[p] :
            \A q \in DOMAIN Places : \A j \in DOMAIN Places[q] :
                Places[q][j] = v <=> q = p /\ j = i
    /\ manager.clean_waiting => manager.pending_clean_reqs # <<>>

\* "if a clean request received while the previous frame is processing need to clean it":
\* a request that was received is waiting, being performed or performed.
NoneForgotten ==
    \A v \in Published : \E p \in DOMAIN Places : v \in ToSet(Places[p])
===============================================================================
