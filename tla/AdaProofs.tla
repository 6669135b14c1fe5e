------------------------------ MODULE AdaProofs -----------------------------
(***************************************************************************)
(* Proofs about AdaScene, for any number of scenes, chunks and workers and *)
(* any size of their queues: no chunk is lost, none is in two places, what *)
(* is merged is whole scenes; each list of blocks to clean is cleaned or   *)
(* about to be, once, unless it is late for the end of the merge that it   *)
(* finds under way; and the types with their bounds.                       *)
(***************************************************************************)
EXTENDS AdaScene, SequenceTheorems, FiniteSetTheorems, TLAPS

----------------------------------------------------------------------------
(* The invariant.                                                          *)

Chunk == [scene : Nat, chunk : Nat]
List  == [scene : {-1} \cup Nat, chunk : {-1}]

AdaWorker == [queue : Seq(Chunk), work : Chunk \cup {Idle}]

Managers ==
  [current_id : {-1} \cup Nat, chunk_counter : Nat, pending_chunks : Seq(Chunk),
   last_processed : {-1} \cup Nat, mesh_processing : BOOLEAN,
   clean_waiting : BOOLEAN, pending_clean_reqs : Seq(List)]

AdaTypes ==
  /\ scenes \in Nat
  /\ requested \in Seq(Chunk) /\ compressed \in Seq(Chunk)
  /\ arrived \in Seq(Chunk) /\ decoded \in Seq(Chunk)
  /\ link \in Seq(Chunk \cup List) /\ vbLists \in Seq(List)
  /\ compression \in [Workers(CompressWorkers) -> AdaWorker]
  /\ decompression \in [Workers(ChunkCount) -> AdaWorker]
  /\ manager \in Managers
  /\ framePc \in {"idle", "merge", "clean", "lower", "pop", "finish"}
  /\ vbPc \in List
  /\ merged \in Seq(Seq(Chunk))

\* The places a chunk passes through, each a sequence; the work of a worker is one of at
\* most one element.
BoxNames ==
  ({"requested", "compressed", "link", "arrived", "decoded", "pending"} \X {0})
    \cup ({"compress_queue", "compress_work"} \X Workers(CompressWorkers))
    \cup ({"decompress_queue", "decompress_work"} \X Workers(ChunkCount))

Working(work) == IF work = Idle THEN <<>> ELSE <<work>>

Box(b) ==
  CASE b[1] = "requested"        -> requested
    [] b[1] = "compress_queue"   -> compression[b[2]].queue
    [] b[1] = "compress_work"    -> Working(compression[b[2]].work)
    [] b[1] = "compressed"       -> compressed
    [] b[1] = "link"             -> link
    [] b[1] = "arrived"          -> arrived
    [] b[1] = "decompress_queue" -> decompression[b[2]].queue
    [] b[1] = "decompress_work"  -> Working(decompression[b[2]].work)
    [] b[1] = "decoded"          -> decoded
    [] b[1] = "pending"          -> manager.pending_chunks

Boxes == [b \in BoxNames |-> Box(b)]

\* Each of S is in exactly one place, and beside them there are only members of X.
OneEach(B, N, S, X) ==
  /\ \A b \in N : B[b] \in Seq(S \cup X)
  /\ \A b \in N, d \in N : \A i \in 1..Len(B[b]) : \A j \in 1..Len(B[d]) :
       B[b][i] \in S /\ B[b][i] = B[d][j] => b = d /\ i = j
  /\ \A c \in S : \E b \in N : \E i \in 1..Len(B[b]) : B[b][i] = c

Pending == manager.pending_chunks

\* A scene is under way: its chunks are each in one place, and the count is of those that
\* have reached the manager.
Flying ==
  /\ scenes > 0
  /\ OneEach(Boxes, BoxNames, ChunksOf(scenes - 1), {VbList(scenes - 1)})
  /\ Len(merged) = scenes - 1
  /\ manager.last_processed = scenes - 2
  /\ IF Pending = <<>> THEN manager.current_id = scenes - 2
     ELSE manager.current_id = scenes - 1 /\ manager.chunk_counter = Len(Pending)
  /\ framePc = IF Len(Pending) = ChunkCount THEN "merge" ELSE "idle"

\* The last scene is merged: no chunk is anywhere.
Landed ==
  /\ OneEach(Boxes, BoxNames, {}, {VbList(scenes - 1)})
  /\ Pending = <<>>
  /\ Len(merged) = scenes
  /\ manager.current_id = scenes - 1
  /\ framePc # "merge"
  /\ framePc = "idle" => manager.last_processed = scenes - 1

AdaInv ==
  /\ AdaTypes
  /\ Flying \/ Landed
  /\ MergeIsComplete

----------------------------------------------------------------------------
(* Chunks that move from place to place.                                   *)

LEMMA OnePlace ==
  ASSUME NEW N, NEW S, NEW X, NEW B, OneEach(B, N, S, X), NEW b \in N, NEW d \in N,
         NEW i \in 1..Len(B[b]), NEW j \in 1..Len(B[d]), B[b][i] \in S, B[b][i] = B[d][j]
  PROVE  b = d /\ i = j
<1>1. \A e \in N : \A k \in 1..Len(B[e]) : B[b][i] \in S /\ B[b][i] = B[e][k] => b = e /\ i = k
  BY DEF OneEach
<1>. QED
  BY <1>1

\* A step that takes the first of one place and puts it last in another.
LEMMA ChunkMoves ==
  ASSUME NEW N, NEW S, NEW X, NEW B, NEW D, OneEach(B, N, S, X),
         NEW b1 \in N, NEW b2 \in N, b1 # b2, B[b1] # <<>>,
         D[b1] = Tail(B[b1]), D[b2] = Append(B[b2], Head(B[b1])),
         \A b \in N \ {b1, b2} : D[b] = B[b]
  PROVE  OneEach(D, N, S, X)
<1>1. /\ \A b \in N : B[b] \in Seq(S \cup X)
      /\ \A b \in N, d \in N : \A i \in 1..Len(B[b]) : \A j \in 1..Len(B[d]) :
           B[b][i] \in S /\ B[b][i] = B[d][j] => b = d /\ i = j
      /\ \A c \in S : \E b \in N : \E i \in 1..Len(B[b]) : B[b][i] = c
  BY DEF OneEach
<1>r. PICK n \in Nat : n = Len(Tail(B[b1]))
  <2>1. Tail(B[b1]) \in Seq(S \cup X)
    BY <1>1, HeadTailProperties
  <2>. QED
    BY ONLY <2>1, LenProperties
<1>2. n + 1 = Len(B[b1]) /\ n = Len(Tail(B[b1])) /\ n \in Nat
  <2>1. B[b1] \in Seq(S \cup X) /\ B[b1] # <<>>
    BY <1>1
  <2>2. Len(B[b1]) \in Nat \ {0} /\ Len(Tail(B[b1])) = Len(B[b1]) - 1
    BY ONLY <2>1, LenProperties, HeadTailProperties, EmptySeq
  <2>3. n = Len(B[b1]) - 1
    BY ONLY <1>r, <2>2
  <2>4. n + 1 = Len(B[b1])
    BY ONLY <2>2, <2>3
  <2>. QED
    BY <1>r, <2>4
<1>3. /\ Len(D[b1]) = n /\ D[b1] \in Seq(S \cup X)
      /\ \A i \in 1..n : D[b1][i] = B[b1][i + 1]
  BY <1>1, <1>2, HeadTailProperties
<1>4. PICK m \in Nat : m = Len(B[b2])
  BY <1>1, LenProperties
<1>5. Head(B[b1]) \in S \cup X /\ Head(B[b1]) = B[b1][1]
  BY <1>1, HeadTailProperties
<1>6. /\ Len(D[b2]) = m + 1 /\ D[b2] \in Seq(S \cup X)
      /\ \A i \in 1..m : D[b2][i] = B[b2][i]
      /\ D[b2][m + 1] = B[b1][1]
  BY <1>1, <1>4, <1>5, AppendProperties
<1>. DEFINE From(b, i, d, j) ==
              \/ b = b1 /\ d = b1 /\ j = i + 1
              \/ b = b2 /\ i = m + 1 /\ d = b1 /\ j = 1
              \/ b # b1 /\ ~(b = b2 /\ i = m + 1) /\ d = b /\ j = i
<1>7. ASSUME NEW b \in N, NEW i \in 1..Len(D[b])
      PROVE  i \in Nat \ {0} /\ \E d \in N : \E j \in 1..Len(B[d]) : From(b, i, d, j) /\ D[b][i] = B[d][j]
  <2>1. CASE b = b1
    <3>1. i \in 1..n /\ i + 1 \in 1..Len(B[b1]) /\ i \in Nat \ {0}
      <4>1. i \in 1..n
        BY <1>3, <2>1
      <4>. QED
        BY ONLY <1>2, <4>1
    <3>. QED
      BY <1>3, <2>1, <3>1
  <2>2. CASE b = b2 /\ i = m + 1
    <3>1. 1 \in 1..Len(B[b1]) /\ i \in Nat \ {0}
      BY <1>2, <2>2
    <3>. QED
      BY <1>6, <2>2, <3>1
  <2>3. CASE b = b2 /\ i # m + 1
    <3>1. i \in 1..m /\ i \in Nat \ {0}
      BY <1>6, <2>3
    <3>. QED
      BY <1>4, <1>6, <2>3, <3>1
  <2>4. CASE b \notin {b1, b2}
    <3>1. D[b] = B[b] /\ Len(B[b]) \in Nat
      BY <1>1, <2>4, LenProperties
    <3>2. i \in Nat \ {0} /\ i \in 1..Len(B[b])
      BY <3>1
    <3>. QED
      BY <2>4, <3>1, <3>2
  <2>. QED
    BY <2>1, <2>2, <2>3, <2>4
<1>8. \A b, e : \A i, k \in Nat \ {0} : \A d, j : From(b, i, d, j) /\ From(e, k, d, j) => b = e /\ i = k
  OBVIOUS
<1>9. ASSUME NEW d \in N, NEW j \in 1..Len(B[d])
      PROVE  \E b \in N : \E i \in 1..Len(D[b]) : D[b][i] = B[d][j]
  <2>1. CASE d = b1 /\ j = 1
    <3>1. m + 1 \in 1..Len(D[b2])
      BY <1>6
    <3>. QED
      BY <1>6, <2>1, <3>1
  <2>2. CASE d = b1 /\ j # 1
    <3>1. j - 1 \in 1..Len(D[b1]) /\ (j - 1) + 1 = j /\ j - 1 \in 1..n
      BY <1>2, <1>3, <2>2
    <3>2. D[b1][j - 1] = B[b1][j]
      BY <1>3, <3>1
    <3>. QED
      BY <2>2, <3>1, <3>2
  <2>3. CASE d = b2
    <3>1. j \in 1..m /\ j \in 1..Len(D[b2])
      BY <1>4, <1>6, <2>3
    <3>. QED
      BY <1>6, <2>3, <3>1
  <2>4. CASE d \notin {b1, b2}
    BY <2>4
  <2>. QED
    BY <2>1, <2>2, <2>3, <2>4
<1>10. \A b \in N : D[b] \in Seq(S \cup X)
  BY <1>1, <1>3, <1>6
<1>11. ASSUME NEW b \in N, NEW e \in N, NEW i \in 1..Len(D[b]), NEW k \in 1..Len(D[e]),
              D[b][i] \in S, D[b][i] = D[e][k]
       PROVE  b = e /\ i = k
  <2>1. PICK d1 \in N : \E j \in 1..Len(B[d1]) : From(b, i, d1, j) /\ D[b][i] = B[d1][j]
    BY <1>7
  <2>2. PICK j1 \in 1..Len(B[d1]) : From(b, i, d1, j1) /\ D[b][i] = B[d1][j1]
    BY <2>1
  <2>3. PICK d2 \in N : \E j \in 1..Len(B[d2]) : From(e, k, d2, j) /\ D[e][k] = B[d2][j]
    BY <1>7
  <2>4. PICK j2 \in 1..Len(B[d2]) : From(e, k, d2, j2) /\ D[e][k] = B[d2][j2]
    BY <2>3
  <2>5. i \in Nat \ {0} /\ k \in Nat \ {0}
    BY <1>7
  <2>. HIDE DEF From
  <2>6. d1 = d2 /\ j1 = j2
    <3>1. B[d1][j1] \in S /\ B[d1][j1] = B[d2][j2]
      BY <1>11, <2>2, <2>4
    <3>. QED
      BY OnePlace, <3>1
  <2>. QED
    BY <1>8, <2>2, <2>4, <2>5, <2>6
<1>12. ASSUME NEW c \in S PROVE \E b \in N : \E i \in 1..Len(D[b]) : D[b][i] = c
  <2>1. PICK d \in N : \E j \in 1..Len(B[d]) : B[d][j] = c
    BY <1>1
  <2>2. PICK j \in 1..Len(B[d]) : B[d][j] = c
    BY <2>1
  <2>. QED
    BY <1>9, <2>2
<1>. QED
  BY <1>10, <1>11, <1>12 DEF OneEach

\* A step that puts something else last in a place.
LEMMA OtherAdded ==
  ASSUME NEW N, NEW S, NEW X, NEW B, NEW D, OneEach(B, N, S, X), S \cap X = {},
         NEW b1 \in N, NEW x \in X, D[b1] = Append(B[b1], x), \A b \in N \ {b1} : D[b] = B[b]
  PROVE  OneEach(D, N, S, X)
<1>1. /\ \A b \in N : B[b] \in Seq(S \cup X)
      /\ \A b \in N, d \in N : \A i \in 1..Len(B[b]) : \A j \in 1..Len(B[d]) :
           B[b][i] \in S /\ B[b][i] = B[d][j] => b = d /\ i = j
      /\ \A c \in S : \E b \in N : \E i \in 1..Len(B[b]) : B[b][i] = c
  BY DEF OneEach
<1>2. PICK m \in Nat : m = Len(B[b1])
  BY <1>1, LenProperties
<1>3. /\ Len(D[b1]) = m + 1 /\ D[b1] \in Seq(S \cup X) /\ D[b1][m + 1] = x
      /\ \A i \in 1..m : D[b1][i] = B[b1][i]
  BY <1>1, <1>2, AppendProperties
<1>4. x \notin S
  OBVIOUS
<1>5. ASSUME NEW b \in N, NEW i \in 1..Len(D[b]), D[b][i] \in S
      PROVE  i \in 1..Len(B[b]) /\ D[b][i] = B[b][i]
  <2>1. CASE b = b1
    <3>1. i \in 1..(m + 1) /\ i # m + 1
      BY <1>3, <1>4, <1>5, <2>1
    <3>2. i \in 1..m
      BY ONLY <3>1, m \in Nat
    <3>. QED
      BY <1>2, <1>3, <2>1, <3>2
  <2>2. CASE b # b1
    BY <2>2
  <2>. QED
    BY <2>1, <2>2
<1>6. ASSUME NEW b \in N, NEW i \in 1..Len(B[b])
      PROVE  i \in 1..Len(D[b]) /\ D[b][i] = B[b][i]
  <2>1. CASE b = b1
    <3>1. i \in 1..m /\ i \in 1..(m + 1)
      BY <1>2, <2>1
    <3>. QED
      BY <1>3, <2>1, <3>1
  <2>2. CASE b # b1
    BY <2>2
  <2>. QED
    BY <2>1, <2>2
<1>7. \A b \in N : D[b] \in Seq(S \cup X)
  BY <1>1, <1>3
<1>8. ASSUME NEW b \in N, NEW e \in N, NEW i \in 1..Len(D[b]), NEW k \in 1..Len(D[e]),
             D[b][i] \in S, D[b][i] = D[e][k]
      PROVE  b = e /\ i = k
  <2>1. i \in 1..Len(B[b]) /\ D[b][i] = B[b][i] /\ k \in 1..Len(B[e]) /\ D[e][k] = B[e][k]
    <3>1. D[e][k] \in S
      BY <1>8
    <3>. QED
      BY <1>5, <1>8, <3>1
  <2>2. B[b][i] \in S /\ B[b][i] = B[e][k]
    BY <1>8, <2>1
  <2>. QED
    BY OnePlace, <2>1, <2>2
<1>9. ASSUME NEW c \in S PROVE \E b \in N : \E i \in 1..Len(D[b]) : D[b][i] = c
  <2>1. PICK d \in N : \E j \in 1..Len(B[d]) : B[d][j] = c
    BY <1>1
  <2>2. PICK j \in 1..Len(B[d]) : B[d][j] = c
    BY <2>1
  <2>. QED
    BY <1>6, <2>2
<1>. QED
  BY <1>7, <1>8, <1>9 DEF OneEach

\* A step that takes something else from the head of a place.
LEMMA OtherTaken ==
  ASSUME NEW N, NEW S, NEW X, NEW B, NEW D, OneEach(B, N, S, X),
         NEW b1 \in N, B[b1] # <<>>, Head(B[b1]) \notin S,
         D[b1] = Tail(B[b1]), \A b \in N \ {b1} : D[b] = B[b]
  PROVE  OneEach(D, N, S, X)
<1>1. /\ \A b \in N : B[b] \in Seq(S \cup X)
      /\ \A b \in N, d \in N : \A i \in 1..Len(B[b]) : \A j \in 1..Len(B[d]) :
           B[b][i] \in S /\ B[b][i] = B[d][j] => b = d /\ i = j
      /\ \A c \in S : \E b \in N : \E i \in 1..Len(B[b]) : B[b][i] = c
  BY DEF OneEach
<1>r. PICK n \in Nat : n = Len(Tail(B[b1]))
  <2>1. Tail(B[b1]) \in Seq(S \cup X)
    BY <1>1, HeadTailProperties
  <2>. QED
    BY ONLY <2>1, LenProperties
<1>2. n + 1 = Len(B[b1]) /\ n = Len(Tail(B[b1])) /\ n \in Nat
  <2>1. B[b1] \in Seq(S \cup X) /\ B[b1] # <<>>
    BY <1>1
  <2>2. Len(B[b1]) \in Nat \ {0} /\ Len(Tail(B[b1])) = Len(B[b1]) - 1
    BY ONLY <2>1, LenProperties, HeadTailProperties, EmptySeq
  <2>3. n = Len(B[b1]) - 1
    BY ONLY <1>r, <2>2
  <2>4. n + 1 = Len(B[b1])
    BY ONLY <2>2, <2>3
  <2>. QED
    BY <1>r, <2>4
<1>3. /\ Len(D[b1]) = n /\ D[b1] \in Seq(S \cup X)
      /\ \A i \in 1..n : D[b1][i] = B[b1][i + 1]
      /\ B[b1][1] \notin S
  BY <1>1, <1>2, HeadTailProperties
<1>. DEFINE From(b, i) == IF b = b1 THEN i + 1 ELSE i
<1>5. ASSUME NEW b \in N, NEW i \in 1..Len(D[b])
      PROVE  i \in Nat /\ From(b, i) \in 1..Len(B[b]) /\ D[b][i] = B[b][From(b, i)]
  <2>1. CASE b = b1
    <3>1. i \in 1..n /\ i + 1 \in 1..(n + 1) /\ i \in Nat
      <4>1. i \in 1..n
        BY <1>3, <2>1
      <4>. QED
        BY ONLY <1>2, <4>1
    <3>. QED
      BY <1>2, <1>3, <2>1, <3>1
  <2>2. CASE b # b1
    <3>1. D[b] = B[b] /\ Len(B[b]) \in Nat
      BY <1>1, <2>2, LenProperties
    <3>. QED
      BY <2>2, <3>1
  <2>. QED
    BY <2>1, <2>2
<1>6. ASSUME NEW b \in N, NEW i \in 1..Len(B[b]), B[b][i] \in S
      PROVE  \E j \in 1..Len(D[b]) : D[b][j] = B[b][i]
  <2>1. CASE b = b1
    <3>1. i # 1 /\ i \in 1..(n + 1)
      BY <1>2, <1>3, <1>6, <2>1
    <3>2. i - 1 \in 1..n /\ (i - 1) + 1 = i
      BY ONLY <3>1, n \in Nat
    <3>3. D[b1][i - 1] = B[b1][i]
      BY <1>3, <3>2
    <3>. QED
      BY <1>3, <2>1, <3>2, <3>3
  <2>2. CASE b # b1
    BY <2>2
  <2>. QED
    BY <2>1, <2>2
<1>7. \A b \in N : D[b] \in Seq(S \cup X)
  BY <1>1, <1>3
<1>8. ASSUME NEW b \in N, NEW e \in N, NEW i \in 1..Len(D[b]), NEW k \in 1..Len(D[e]),
             D[b][i] \in S, D[b][i] = D[e][k]
      PROVE  b = e /\ i = k
  <2>1. /\ From(b, i) \in 1..Len(B[b]) /\ D[b][i] = B[b][From(b, i)]
        /\ From(e, k) \in 1..Len(B[e]) /\ D[e][k] = B[e][From(e, k)]
        /\ i \in Nat /\ k \in Nat
    BY <1>5
  <2>2. b = e /\ From(b, i) = From(e, k)
    <3>. HIDE DEF From
    <3>1. B[b][From(b, i)] \in S /\ B[b][From(b, i)] = B[e][From(e, k)]
      BY <1>8, <2>1
    <3>. QED
      BY OnePlace, <2>1, <3>1
  <2>. QED
    BY <2>1, <2>2
<1>9. ASSUME NEW c \in S PROVE \E b \in N : \E i \in 1..Len(D[b]) : D[b][i] = c
  <2>1. PICK d \in N : \E j \in 1..Len(B[d]) : B[d][j] = c
    BY <1>1
  <2>2. PICK j \in 1..Len(B[d]) : B[d][j] = c
    BY <2>1
  <2>. QED
    BY <1>6, <2>2
<1>. QED
  BY <1>7, <1>8, <1>9 DEF OneEach

LEMMA ChunkFacts ==
  /\ \A c \in Chunk : c.chunk \in Nat /\ c.chunk # -1 /\ c.scene \in Nat /\ c # Idle
  /\ \A v \in List : v.chunk = -1 /\ v \notin Chunk
  /\ \A s \in Nat : ChunksOf(s) \subseteq Chunk
  /\ \A s \in Nat : \A c \in ChunksOf(s) : c.scene = s
  /\ \A s \in {-1} \cup Nat : VbList(s) \in List
<1>1. \A c \in Chunk : c.chunk \in Nat /\ c.chunk # -1 /\ c.scene \in Nat
  BY DEF Chunk
<1>2. \A c \in Chunk : c # Idle
  <2>1. Idle.chunk = -1
    BY DEF Idle
  <2>. QED
    BY <1>1, <2>1
<1>3. \A v \in List : v.chunk = -1
  BY DEF List
<1>4. ASSUME NEW s \in Nat, NEW c \in ChunksOf(s) PROVE c \in Chunk /\ c.scene = s
  <2>1. PICK k \in 0..(ChunkCount - 1) : c = [scene |-> s, chunk |-> k]
    BY DEF ChunksOf
  <2>2. k \in Nat
    BY AdaAssumption
  <2>. QED
    BY <2>1, <2>2 DEF Chunk
<1>5. \A s \in {-1} \cup Nat : VbList(s) \in List
  BY DEF VbList, List
<1>. QED
  BY <1>1, <1>2, <1>3, <1>4, <1>5

Plain == {"requested", "compressed", "link", "arrived", "decoded", "pending"}

LEMMA BoxNamed ==
  ASSUME NEW b \in BoxNames
  PROVE  /\ b = <<b[1], b[2]>>
         /\ \/ b[1] \in Plain /\ b[2] = 0
            \/ b[1] \in {"compress_queue", "compress_work"} /\ b[2] \in Workers(CompressWorkers)
            \/ b[1] \in {"decompress_queue", "decompress_work"} /\ b[2] \in Workers(ChunkCount)
<1>1. CASE b \in Plain \X {0}
  BY <1>1
<1>2. CASE b \in {"compress_queue", "compress_work"} \X Workers(CompressWorkers)
  BY <1>2
<1>3. CASE b \in {"decompress_queue", "decompress_work"} \X Workers(ChunkCount)
  BY <1>3
<1>. QED
  BY <1>1, <1>2, <1>3 DEF BoxNames, Plain

LEMMA NamesAre ==
  /\ \A k \in Plain : <<k, 0>> \in BoxNames
  /\ \A w \in Workers(CompressWorkers) :
       <<"compress_queue", w>> \in BoxNames /\ <<"compress_work", w>> \in BoxNames
  /\ \A w \in Workers(ChunkCount) :
       <<"decompress_queue", w>> \in BoxNames /\ <<"decompress_work", w>> \in BoxNames
BY DEF BoxNames, Plain

\* The places, one by one.
LEMMA BoxContents ==
  /\ Box(<<"requested", 0>>) = requested
  /\ Box(<<"compressed", 0>>) = compressed
  /\ Box(<<"link", 0>>) = link
  /\ Box(<<"arrived", 0>>) = arrived
  /\ Box(<<"decoded", 0>>) = decoded
  /\ Box(<<"pending", 0>>) = Pending
  /\ \A w : Box(<<"compress_queue", w>>) = compression[w].queue
  /\ \A w : Box(<<"compress_work", w>>) = Working(compression[w].work)
  /\ \A w : Box(<<"decompress_queue", w>>) = decompression[w].queue
  /\ \A w : Box(<<"decompress_work", w>>) = Working(decompression[w].work)
BY DEF Box, Pending

LEMMA EnqueuedBox ==
  ASSUME NEW W, NEW pool \in [W -> AdaWorker], NEW w \in W, NEW c \in Chunk
  PROVE  LET p == Enqueued(pool, w, c)
         IN  /\ p \in [W -> AdaWorker]
             /\ p[w].queue = Append(pool[w].queue, c) /\ p[w].work = pool[w].work
             /\ \A v \in W \ {w} : p[v] = pool[v]
<1>1. pool[w] \in AdaWorker /\ pool[w].queue \in Seq(Chunk)
  BY DEF AdaWorker
<1>2. PICK q \in Seq(Chunk) : q = Append(pool[w].queue, c)
  BY <1>1, AppendProperties
<1>3. PICK e \in AdaWorker : e = [pool[w] EXCEPT !.queue = q]
  BY <1>1 DEF AdaWorker
<1>4. e.queue = q /\ e.work = pool[w].work
  BY <1>1, <1>3 DEF AdaWorker
<1>5. PICK p : p = [pool EXCEPT ![w] = e]
  OBVIOUS
<1>6. p \in [W -> AdaWorker] /\ p[w] = e /\ \A v \in W \ {w} : p[v] = pool[v]
  BY <1>5
<1>7. Enqueued(pool, w, c) = p
  BY <1>2, <1>3, <1>5, Zenon DEF Enqueued
<1>. QED
  BY <1>2, <1>4, <1>6, <1>7, Zenon

LEMMA DequeuedBox ==
  ASSUME NEW W, NEW pool \in [W -> AdaWorker], NEW w \in W, pool[w].queue # <<>>
  PROVE  LET p == Dequeued(pool, w)
         IN  /\ p \in [W -> AdaWorker]
             /\ p[w].queue = Tail(pool[w].queue) /\ p[w].work = Head(pool[w].queue)
             /\ Head(pool[w].queue) \in Chunk
             /\ \A v \in W \ {w} : p[v] = pool[v]
<1>1. pool[w].queue \in Seq(Chunk)
  BY DEF AdaWorker
<1>2. PICK q \in Seq(Chunk) : q = Tail(pool[w].queue)
  BY <1>1, HeadTailProperties
<1>3. PICK c \in Chunk : c = Head(pool[w].queue)
  BY <1>1, HeadTailProperties
<1>4. PICK e \in AdaWorker : e = [queue |-> q, work |-> c]
  BY DEF AdaWorker
<1>5. e.queue = q /\ e.work = c
  BY <1>4
<1>6. PICK p : p = [pool EXCEPT ![w] = e]
  OBVIOUS
<1>7. p \in [W -> AdaWorker] /\ p[w] = e /\ \A v \in W \ {w} : p[v] = pool[v]
  BY <1>6
<1>8. Dequeued(pool, w) = p
  BY <1>2, <1>3, <1>4, <1>6, Zenon DEF Dequeued
<1>. QED
  BY <1>2, <1>3, <1>5, <1>7, <1>8, Zenon

LEMMA DoneBox ==
  ASSUME NEW W, NEW pool \in [W -> AdaWorker], NEW w \in W
  PROVE  LET p == Done(pool, w)
         IN  /\ p \in [W -> AdaWorker]
             /\ p[w].queue = pool[w].queue /\ p[w].work = Idle
             /\ \A v \in W \ {w} : p[v] = pool[v]
BY DEF Done, AdaWorker

LEMMA WorkingBox ==
  /\ Working(Idle) = <<>>
  /\ \A c \in Chunk : /\ Working(c) = <<c>> /\ Working(c) = Append(<<>>, c) /\ Working(c) # <<>>
                      /\ Head(Working(c)) = c /\ Tail(Working(c)) = <<>>
<1>1. ASSUME NEW c \in Chunk
      PROVE  /\ Working(c) = <<c>> /\ <<c>> = Append(<<>>, c) /\ <<c>> # <<>>
             /\ Head(<<c>>) = c /\ Tail(<<c>>) = <<>>
  <2>1. Working(c) = <<c>>
    BY ChunkFacts DEF Working
  <2>. QED
    BY <2>1
<1>2. Working(Idle) = <<>>
  BY DEF Working
<1>. QED
  BY <1>1, <1>2

----------------------------------------------------------------------------
(* The steps of the pipeline.                                              *)

Moves(B, D, N, b1, b2) ==
  /\ b1 \in N /\ b2 \in N /\ b1 # b2
  /\ B[b1] # <<>>
  /\ D[b1] = Tail(B[b1])
  /\ D[b2] = Append(B[b2], Head(B[b1]))
  /\ \A b \in N \ {b1, b2} : D[b] = B[b]

LEMMA BoxContentsNext ==
  /\ Box(<<"requested", 0>>)' = requested'
  /\ Box(<<"compressed", 0>>)' = compressed'
  /\ Box(<<"link", 0>>)' = link'
  /\ Box(<<"arrived", 0>>)' = arrived'
  /\ Box(<<"decoded", 0>>)' = decoded'
  /\ Box(<<"pending", 0>>)' = Pending'
  /\ \A w : Box(<<"compress_queue", w>>)' = compression'[w].queue
  /\ \A w : Box(<<"compress_work", w>>)' = Working(compression'[w].work)
  /\ \A w : Box(<<"decompress_queue", w>>)' = decompression'[w].queue
  /\ \A w : Box(<<"decompress_work", w>>)' = Working(decompression'[w].work)
BY DEF Box, Pending, Working

LEMMA BoxOf ==
  \A b \in BoxNames : Boxes[b] = Box(b) /\ Boxes'[b] = Box(b)'
BY DEF Boxes

LEMMA StepMoves ==
  ASSUME NEW b1 \in BoxNames, NEW b2 \in BoxNames, b1 # b2, Box(b1) # <<>>,
         Box(b1)' = Tail(Box(b1)), Box(b2)' = Append(Box(b2), Head(Box(b1))),
         \A b \in BoxNames : b # b1 /\ b # b2 => Box(b)' = Box(b)
  PROVE  Moves(Boxes, Boxes', BoxNames, b1, b2)
<1>1. PICK B : B = Boxes
  OBVIOUS
<1>2. PICK D : D = Boxes'
  OBVIOUS
<1>3. \A b \in BoxNames : B[b] = Box(b) /\ D[b] = Box(b)'
  BY <1>1, <1>2, BoxOf
<1>4. Moves(B, D, BoxNames, b1, b2)
  BY <1>3 DEF Moves
<1>. QED
  BY <1>1, <1>2, <1>4

\* A number modulo n is one of the workers.
LEMMA WorkerOf ==
  ASSUME NEW c \in Nat, NEW n \in Nat \ {0}
  PROVE  c % n \in Workers(n)
BY DEF Workers

LEMMA ProcessMeshMoves ==
  ASSUME AdaTypes, ProcessMesh
  PROVE  /\ AdaTypes'
         /\ \E w \in Workers(CompressWorkers) :
              Moves(Boxes, Boxes', BoxNames, <<"requested", 0>>, <<"compress_queue", w>>)
<1>1. requested \in Seq(Chunk) /\ requested # <<>> /\ compression \in [Workers(CompressWorkers) -> AdaWorker]
  BY DEF AdaTypes, ProcessMesh
<1>2. PICK c \in Chunk : c = Head(requested)
  BY <1>1, HeadTailProperties
<1>3. PICK w \in Workers(CompressWorkers) : w = c.chunk % CompressWorkers
  <2>1. c.chunk \in Nat
    BY ChunkFacts
  <2>. QED
    BY <2>1, WorkerOf, AdaAssumption
<1>4. /\ requested' = Tail(requested) /\ compression' = Enqueued(compression, w, c)
      /\ UNCHANGED <<scenes, vbUnsent, compressed, link, pipeVars, vbLists, gridVars>>
  BY <1>2, <1>3 DEF ProcessMesh
<1>5. /\ compression' \in [Workers(CompressWorkers) -> AdaWorker]
      /\ compression'[w].queue = Append(compression[w].queue, c)
      /\ compression'[w].work = compression[w].work
      /\ \A v \in Workers(CompressWorkers) \ {w} : compression'[v] = compression[v]
  BY <1>1, <1>4, EnqueuedBox
<1>6. requested' \in Seq(Chunk)
  BY <1>1, <1>4, HeadTailProperties
<1>7. AdaTypes'
  BY <1>4, <1>5, <1>6 DEF AdaTypes, serverVars, pipeVars, gridVars
<1>8. ASSUME NEW b \in BoxNames, b # <<"requested", 0>>, b # <<"compress_queue", w>>
      PROVE  Box(b)' = Box(b)
  BY <1>4, <1>5, <1>8, BoxNamed DEF Box, Plain, serverVars, pipeVars, gridVars, Working
<1>9. Moves(Boxes, Boxes', BoxNames, <<"requested", 0>>, <<"compress_queue", w>>)
  <2>1. <<"requested", 0>> \in BoxNames /\ <<"compress_queue", w>> \in BoxNames
    BY NamesAre DEF Plain
  <2>2. <<"requested", 0>> # <<"compress_queue", w>>
    OBVIOUS
  <2>3. /\ Box(<<"requested", 0>>) # <<>>
        /\ Box(<<"requested", 0>>)' = Tail(Box(<<"requested", 0>>))
    BY <1>1, <1>4, BoxContents, BoxContentsNext
  <2>4. Box(<<"compress_queue", w>>)' = Append(Box(<<"compress_queue", w>>), Head(Box(<<"requested", 0>>)))
    BY <1>2, <1>5, BoxContents, BoxContentsNext
  <2>. QED
    BY <1>8, <2>1, <2>2, <2>3, <2>4, StepMoves
<1>. QED
  BY <1>7, <1>9

LEMMA CompressTakes ==
  ASSUME AdaTypes, NEW w \in Workers(CompressWorkers), Dequeues(compression, w),
         compression' = Dequeued(compression, w), UNCHANGED compressed,
         UNCHANGED <<scenes, vbUnsent, requested, link, pipeVars, vbLists, gridVars>>
  PROVE  AdaTypes' /\ Moves(Boxes, Boxes', BoxNames, <<"compress_queue", w>>, <<"compress_work", w>>)
<1>1. /\ compression \in [Workers(CompressWorkers) -> AdaWorker]
      /\ compression[w].queue # <<>> /\ compression[w].work = Idle
  BY DEF AdaTypes, Dequeues
<1>2. PICK c : c = Head(compression[w].queue)
  OBVIOUS
<1>3. /\ compression' \in [Workers(CompressWorkers) -> AdaWorker] /\ c \in Chunk
      /\ compression'[w].queue = Tail(compression[w].queue) /\ compression'[w].work = c
      /\ \A v \in Workers(CompressWorkers) \ {w} : compression'[v] = compression[v]
  BY <1>1, <1>2, DequeuedBox
<1>4. AdaTypes'
  BY <1>3 DEF AdaTypes, serverVars, pipeVars, gridVars
<1>5. ASSUME NEW b \in BoxNames, b # <<"compress_queue", w>>, b # <<"compress_work", w>>
      PROVE  Box(b)' = Box(b)
  BY <1>3, <1>5, BoxNamed DEF Box, Plain, serverVars, pipeVars, gridVars, Working
<1>6. <<"compress_queue", w>> \in BoxNames /\ <<"compress_work", w>> \in BoxNames
  BY NamesAre
<1>7. <<"compress_queue", w>> # <<"compress_work", w>>
  OBVIOUS
<1>8. /\ Box(<<"compress_queue", w>>) # <<>>
      /\ Box(<<"compress_queue", w>>)' = Tail(Box(<<"compress_queue", w>>))
      /\ Head(Box(<<"compress_queue", w>>)) = c
  BY <1>1, <1>2, <1>3, BoxContents, BoxContentsNext
<1>9. Box(<<"compress_work", w>>)' = Append(Box(<<"compress_work", w>>), c)
  <2>1. Box(<<"compress_work", w>>) = Working(Idle) /\ Box(<<"compress_work", w>>)' = Working(c)
    BY <1>1, <1>3, BoxContents, BoxContentsNext
  <2>. QED
    BY <1>3, <2>1, WorkingBox
<1>10. Moves(Boxes, Boxes', BoxNames, <<"compress_queue", w>>, <<"compress_work", w>>)
  BY <1>5, <1>6, <1>7, <1>8, <1>9, StepMoves
<1>. QED
  BY <1>4, <1>10

LEMMA CompressPuts ==
  ASSUME AdaTypes, NEW w \in Workers(CompressWorkers), compression[w].work # Idle,
         compressed' = Append(compressed, compression[w].work), compression' = Done(compression, w),
         UNCHANGED <<scenes, vbUnsent, requested, link, pipeVars, vbLists, gridVars>>
  PROVE  AdaTypes' /\ Moves(Boxes, Boxes', BoxNames, <<"compress_work", w>>, <<"compressed", 0>>)
<1>1. compression \in [Workers(CompressWorkers) -> AdaWorker] /\ compressed \in Seq(Chunk)
  BY DEF AdaTypes
<1>2. PICK c \in Chunk : c = compression[w].work
  BY <1>1 DEF AdaWorker
<1>3. /\ compression' \in [Workers(CompressWorkers) -> AdaWorker]
      /\ compression'[w].queue = compression[w].queue /\ compression'[w].work = Idle
      /\ \A v \in Workers(CompressWorkers) \ {w} : compression'[v] = compression[v]
  BY <1>1, DoneBox
<1>4. compressed' \in Seq(Chunk) /\ compressed' = Append(compressed, c)
  BY <1>1, <1>2, AppendProperties
<1>5. AdaTypes'
  BY <1>3, <1>4 DEF AdaTypes, serverVars, pipeVars, gridVars
<1>6. ASSUME NEW b \in BoxNames, b # <<"compress_work", w>>, b # <<"compressed", 0>>
      PROVE  Box(b)' = Box(b)
  BY <1>3, <1>6, BoxNamed DEF Box, Plain, serverVars, pipeVars, gridVars, Working
<1>7. <<"compress_work", w>> \in BoxNames /\ <<"compressed", 0>> \in BoxNames
  BY NamesAre DEF Plain
<1>8. <<"compress_work", w>> # <<"compressed", 0>>
  OBVIOUS
<1>9. /\ Box(<<"compress_work", w>>) # <<>>
      /\ Box(<<"compress_work", w>>)' = Tail(Box(<<"compress_work", w>>))
      /\ Head(Box(<<"compress_work", w>>)) = c
  <2>1. Box(<<"compress_work", w>>) = Working(c) /\ Box(<<"compress_work", w>>)' = Working(Idle)
    BY <1>2, <1>3, BoxContents, BoxContentsNext
  <2>. QED
    BY <2>1, WorkingBox
<1>10. Box(<<"compressed", 0>>)' = Append(Box(<<"compressed", 0>>), c)
  BY <1>4, BoxContents, BoxContentsNext
<1>11. Moves(Boxes, Boxes', BoxNames, <<"compress_work", w>>, <<"compressed", 0>>)
  BY <1>6, <1>7, <1>8, <1>9, <1>10, StepMoves
<1>. QED
  BY <1>5, <1>11

LEMMA SendSrOutputMoves ==
  ASSUME AdaTypes, SendSrOutput
  PROVE  AdaTypes' /\ Moves(Boxes, Boxes', BoxNames, <<"compressed", 0>>, <<"link", 0>>)
<1>1. /\ compressed \in Seq(Chunk) /\ compressed # <<>> /\ link \in Seq(Chunk \cup List)
      /\ link' = Append(link, Head(compressed)) /\ compressed' = Tail(compressed)
      /\ UNCHANGED <<scenes, vbUnsent, requested, compression, pipeVars, vbLists, gridVars>>
  BY DEF AdaTypes, SendSrOutput
<1>2. Head(compressed) \in Chunk /\ compressed' \in Seq(Chunk)
  BY <1>1, HeadTailProperties
<1>3. link' \in Seq(Chunk \cup List)
  BY <1>1, <1>2, AppendProperties
<1>4. AdaTypes'
  BY <1>1, <1>2, <1>3 DEF AdaTypes, pipeVars, gridVars
<1>5. ASSUME NEW b \in BoxNames, b # <<"compressed", 0>>, b # <<"link", 0>>
      PROVE  Box(b)' = Box(b)
  BY <1>1, <1>5, BoxNamed DEF Box, Plain, pipeVars, gridVars, Working
<1>6. <<"compressed", 0>> \in BoxNames /\ <<"link", 0>> \in BoxNames
  BY NamesAre DEF Plain
<1>7. <<"compressed", 0>> # <<"link", 0>>
  OBVIOUS
<1>8. /\ Box(<<"compressed", 0>>) # <<>>
      /\ Box(<<"compressed", 0>>)' = Tail(Box(<<"compressed", 0>>))
      /\ Box(<<"link", 0>>)' = Append(Box(<<"link", 0>>), Head(Box(<<"compressed", 0>>)))
  BY <1>1, BoxContents, BoxContentsNext
<1>. QED
  BY <1>4, <1>5, <1>6, <1>7, <1>8, StepMoves

\* device_rx tells a chunk from a list of voxel blocks.
LEMMA ReceiveSrOutputMoves ==
  ASSUME AdaTypes, ReceiveSrOutput
  PROVE  /\ AdaTypes'
         /\ \/ Moves(Boxes, Boxes', BoxNames, <<"link", 0>>, <<"arrived", 0>>)
            \/ /\ link # <<>> /\ Head(link) \in List /\ link' = Tail(link)
               /\ \A b \in BoxNames : b # <<"link", 0>> => Box(b)' = Box(b)
<1>1. /\ link \in Seq(Chunk \cup List) /\ link # <<>> /\ link' = Tail(link)
      /\ arrived \in Seq(Chunk) /\ vbLists \in Seq(List)
      /\ UNCHANGED <<serverVars, decompression, decoded, gridVars>>
  BY DEF AdaTypes, ReceiveSrOutput
<1>2. Head(link) \in Chunk \cup List /\ link' \in Seq(Chunk \cup List)
  BY <1>1, HeadTailProperties
<1>3. CASE Head(link) \in Chunk
  <2>1. arrived' = Append(arrived, Head(link)) /\ vbLists' = vbLists
    BY <1>3, ChunkFacts DEF ReceiveSrOutput
  <2>2. arrived' \in Seq(Chunk)
    BY <1>1, <1>3, <2>1, AppendProperties
  <2>3. AdaTypes'
    BY <1>1, <1>2, <2>1, <2>2 DEF AdaTypes, serverVars, gridVars
  <2>4. ASSUME NEW b \in BoxNames, b # <<"link", 0>>, b # <<"arrived", 0>>
        PROVE  Box(b)' = Box(b)
    BY <1>1, <2>4, BoxNamed DEF Box, Plain, serverVars, gridVars, Working
  <2>5. <<"link", 0>> \in BoxNames /\ <<"arrived", 0>> \in BoxNames
    BY NamesAre DEF Plain
  <2>6. <<"link", 0>> # <<"arrived", 0>>
    OBVIOUS
  <2>7. /\ Box(<<"link", 0>>) # <<>> /\ Box(<<"link", 0>>)' = Tail(Box(<<"link", 0>>))
        /\ Box(<<"arrived", 0>>)' = Append(Box(<<"arrived", 0>>), Head(Box(<<"link", 0>>)))
    BY <1>1, <2>1, BoxContents, BoxContentsNext
  <2>8. Moves(Boxes, Boxes', BoxNames, <<"link", 0>>, <<"arrived", 0>>)
    BY <2>4, <2>5, <2>6, <2>7, StepMoves
  <2>. QED
    BY <2>3, <2>8
<1>4. CASE Head(link) \in List
  <2>1. vbLists' = Append(vbLists, Head(link)) /\ arrived' = arrived
    BY <1>4, ChunkFacts DEF ReceiveSrOutput
  <2>2. vbLists' \in Seq(List)
    BY <1>1, <1>4, <2>1, AppendProperties
  <2>3. AdaTypes'
    BY <1>1, <1>2, <2>1, <2>2 DEF AdaTypes, serverVars, gridVars
  <2>4. ASSUME NEW b \in BoxNames, b # <<"link", 0>> PROVE Box(b)' = Box(b)
    BY <1>1, <2>1, <2>4, BoxNamed DEF Box, Plain, serverVars, gridVars, Working
  <2>. QED
    BY <1>1, <1>4, <2>3, <2>4
<1>. QED
  BY <1>2, <1>3, <1>4

LEMMA ProcessFrameMoves ==
  ASSUME AdaTypes, ProcessFrame
  PROVE  /\ AdaTypes'
         /\ \E w \in Workers(ChunkCount) :
              Moves(Boxes, Boxes', BoxNames, <<"arrived", 0>>, <<"decompress_queue", w>>)
<1>1. arrived \in Seq(Chunk) /\ arrived # <<>> /\ decompression \in [Workers(ChunkCount) -> AdaWorker]
  BY DEF AdaTypes, ProcessFrame
<1>2. PICK c \in Chunk : c = Head(arrived)
  BY <1>1, HeadTailProperties
<1>3. PICK w \in Workers(ChunkCount) : w = c.chunk % ChunkCount
  <2>1. c.chunk \in Nat
    BY ChunkFacts
  <2>. QED
    BY <2>1, WorkerOf, AdaAssumption
<1>4. /\ arrived' = Tail(arrived) /\ decompression' = Enqueued(decompression, w, c)
      /\ UNCHANGED <<serverVars, link, decoded, vbLists, gridVars>>
  BY <1>2, <1>3 DEF ProcessFrame
<1>5. /\ decompression' \in [Workers(ChunkCount) -> AdaWorker]
      /\ decompression'[w].queue = Append(decompression[w].queue, c)
      /\ decompression'[w].work = decompression[w].work
      /\ \A v \in Workers(ChunkCount) \ {w} : decompression'[v] = decompression[v]
  BY <1>1, <1>4, EnqueuedBox
<1>6. arrived' \in Seq(Chunk)
  BY <1>1, <1>4, HeadTailProperties
<1>7. AdaTypes'
  BY <1>4, <1>5, <1>6 DEF AdaTypes, serverVars, pipeVars, gridVars
<1>8. ASSUME NEW b \in BoxNames, b # <<"arrived", 0>>, b # <<"decompress_queue", w>>
      PROVE  Box(b)' = Box(b)
  BY <1>4, <1>5, <1>8, BoxNamed DEF Box, Plain, serverVars, pipeVars, gridVars, Working
<1>9. Moves(Boxes, Boxes', BoxNames, <<"arrived", 0>>, <<"decompress_queue", w>>)
  <2>1. <<"arrived", 0>> \in BoxNames /\ <<"decompress_queue", w>> \in BoxNames
    BY NamesAre DEF Plain
  <2>2. <<"arrived", 0>> # <<"decompress_queue", w>>
    OBVIOUS
  <2>3. /\ Box(<<"arrived", 0>>) # <<>>
        /\ Box(<<"arrived", 0>>)' = Tail(Box(<<"arrived", 0>>))
    BY <1>1, <1>4, BoxContents, BoxContentsNext
  <2>4. Box(<<"decompress_queue", w>>)' = Append(Box(<<"decompress_queue", w>>), Head(Box(<<"arrived", 0>>)))
    BY <1>2, <1>5, BoxContents, BoxContentsNext
  <2>. QED
    BY <1>8, <2>1, <2>2, <2>3, <2>4, StepMoves
<1>. QED
  BY <1>7, <1>9

LEMMA DecompressTakes ==
  ASSUME AdaTypes, NEW w \in Workers(ChunkCount), Dequeues(decompression, w),
         decompression' = Dequeued(decompression, w), UNCHANGED decoded,
         UNCHANGED <<serverVars, link, arrived, vbLists, gridVars>>
  PROVE  AdaTypes' /\ Moves(Boxes, Boxes', BoxNames, <<"decompress_queue", w>>, <<"decompress_work", w>>)
<1>1. /\ decompression \in [Workers(ChunkCount) -> AdaWorker]
      /\ decompression[w].queue # <<>> /\ decompression[w].work = Idle
  BY DEF AdaTypes, Dequeues
<1>2. PICK c : c = Head(decompression[w].queue)
  OBVIOUS
<1>3. /\ decompression' \in [Workers(ChunkCount) -> AdaWorker] /\ c \in Chunk
      /\ decompression'[w].queue = Tail(decompression[w].queue) /\ decompression'[w].work = c
      /\ \A v \in Workers(ChunkCount) \ {w} : decompression'[v] = decompression[v]
  BY <1>1, <1>2, DequeuedBox
<1>4. AdaTypes'
  BY <1>3 DEF AdaTypes, serverVars, pipeVars, gridVars
<1>5. ASSUME NEW b \in BoxNames, b # <<"decompress_queue", w>>, b # <<"decompress_work", w>>
      PROVE  Box(b)' = Box(b)
  BY <1>3, <1>5, BoxNamed DEF Box, Plain, serverVars, pipeVars, gridVars, Working
<1>6. <<"decompress_queue", w>> \in BoxNames /\ <<"decompress_work", w>> \in BoxNames
  BY NamesAre
<1>7. <<"decompress_queue", w>> # <<"decompress_work", w>>
  OBVIOUS
<1>8. /\ Box(<<"decompress_queue", w>>) # <<>>
      /\ Box(<<"decompress_queue", w>>)' = Tail(Box(<<"decompress_queue", w>>))
      /\ Head(Box(<<"decompress_queue", w>>)) = c
  BY <1>1, <1>2, <1>3, BoxContents, BoxContentsNext
<1>9. Box(<<"decompress_work", w>>)' = Append(Box(<<"decompress_work", w>>), c)
  <2>1. Box(<<"decompress_work", w>>) = Working(Idle) /\ Box(<<"decompress_work", w>>)' = Working(c)
    BY <1>1, <1>3, BoxContents, BoxContentsNext
  <2>. QED
    BY <1>3, <2>1, WorkingBox
<1>10. Moves(Boxes, Boxes', BoxNames, <<"decompress_queue", w>>, <<"decompress_work", w>>)
  BY <1>5, <1>6, <1>7, <1>8, <1>9, StepMoves
<1>. QED
  BY <1>4, <1>10

LEMMA DecompressPuts ==
  ASSUME AdaTypes, NEW w \in Workers(ChunkCount), decompression[w].work # Idle,
         decoded' = Append(decoded, decompression[w].work), decompression' = Done(decompression, w),
         UNCHANGED <<serverVars, link, arrived, vbLists, gridVars>>
  PROVE  AdaTypes' /\ Moves(Boxes, Boxes', BoxNames, <<"decompress_work", w>>, <<"decoded", 0>>)
<1>1. decompression \in [Workers(ChunkCount) -> AdaWorker] /\ decoded \in Seq(Chunk)
  BY DEF AdaTypes
<1>2. PICK c \in Chunk : c = decompression[w].work
  BY <1>1 DEF AdaWorker
<1>3. /\ decompression' \in [Workers(ChunkCount) -> AdaWorker]
      /\ decompression'[w].queue = decompression[w].queue /\ decompression'[w].work = Idle
      /\ \A v \in Workers(ChunkCount) \ {w} : decompression'[v] = decompression[v]
  BY <1>1, DoneBox
<1>4. decoded' \in Seq(Chunk) /\ decoded' = Append(decoded, c)
  BY <1>1, <1>2, AppendProperties
<1>5. AdaTypes'
  BY <1>3, <1>4 DEF AdaTypes, serverVars, pipeVars, gridVars
<1>6. ASSUME NEW b \in BoxNames, b # <<"decompress_work", w>>, b # <<"decoded", 0>>
      PROVE  Box(b)' = Box(b)
  BY <1>3, <1>6, BoxNamed DEF Box, Plain, serverVars, pipeVars, gridVars, Working
<1>7. <<"decompress_work", w>> \in BoxNames /\ <<"decoded", 0>> \in BoxNames
  BY NamesAre DEF Plain
<1>8. <<"decompress_work", w>> # <<"decoded", 0>>
  OBVIOUS
<1>9. /\ Box(<<"decompress_work", w>>) # <<>>
      /\ Box(<<"decompress_work", w>>)' = Tail(Box(<<"decompress_work", w>>))
      /\ Head(Box(<<"decompress_work", w>>)) = c
  <2>1. Box(<<"decompress_work", w>>) = Working(c) /\ Box(<<"decompress_work", w>>)' = Working(Idle)
    BY <1>2, <1>3, BoxContents, BoxContentsNext
  <2>. QED
    BY <2>1, WorkingBox
<1>10. Box(<<"decoded", 0>>)' = Append(Box(<<"decoded", 0>>), c)
  BY <1>4, BoxContents, BoxContentsNext
<1>11. Moves(Boxes, Boxes', BoxNames, <<"decompress_work", w>>, <<"decoded", 0>>)
  BY <1>6, <1>7, <1>8, <1>9, <1>10, StepMoves
<1>. QED
  BY <1>5, <1>11

\* A step that leaves the manager's count and the frame callback where they are.
LEMMA InvKept ==
  ASSUME AdaInv, AdaTypes', scenes' = scenes, merged' = merged, framePc' = framePc,
         Pending' = Pending, manager'.current_id = manager.current_id,
         manager'.chunk_counter = manager.chunk_counter,
         manager'.last_processed = manager.last_processed,
         Flying => OneEach(Boxes', BoxNames, ChunksOf(scenes - 1), {VbList(scenes - 1)}),
         Landed => OneEach(Boxes', BoxNames, {}, {VbList(scenes - 1)})
  PROVE  AdaInv'
<1>1. Flying => Flying'
  BY DEF Flying
<1>2. Landed => Landed'
  BY DEF Landed
<1>3. MergeIsComplete'
  BY DEF AdaInv, MergeIsComplete
<1>. QED
  BY <1>1, <1>2, <1>3 DEF AdaInv

LEMMA MovesKeep ==
  ASSUME NEW N, NEW S, NEW X, NEW B, NEW D, NEW b1, NEW b2,
         OneEach(B, N, S, X), Moves(B, D, N, b1, b2)
  PROVE  OneEach(D, N, S, X)
BY ChunkMoves DEF Moves

LEMMA MoveStep ==
  ASSUME AdaInv, AdaTypes', NEW b1, NEW b2, Moves(Boxes, Boxes', BoxNames, b1, b2),
         UNCHANGED <<scenes, manager, framePc, merged>>
  PROVE  AdaInv'
<1>1. Flying => OneEach(Boxes', BoxNames, ChunksOf(scenes - 1), {VbList(scenes - 1)})
  BY MovesKeep DEF Flying
<1>2. Landed => OneEach(Boxes', BoxNames, {}, {VbList(scenes - 1)})
  BY MovesKeep DEF Landed
<1>3. Pending' = Pending
  BY DEF Pending
<1>. QED
  BY <1>1, <1>2, <1>3, InvKept

LEMMA BoxesSame ==
  ASSUME UNCHANGED <<requested, compression, compressed, link, arrived, decompression, decoded>>,
         Pending' = Pending
  PROVE  Boxes' = Boxes
<1>1. ASSUME NEW b \in BoxNames PROVE Box(b)' = Box(b)
  BY BoxNamed DEF Box, Plain, Pending, Working
<1>. QED
  BY <1>1 DEF Boxes

\* A step of the manager that no chunk takes part in.
LEMMA ManagerStep ==
  ASSUME AdaInv, AdaTypes',
         UNCHANGED <<requested, compression, compressed, link, arrived, decompression, decoded>>,
         scenes' = scenes, merged' = merged, framePc' = framePc,
         Pending' = Pending, manager'.current_id = manager.current_id,
         manager'.chunk_counter = manager.chunk_counter,
         manager'.last_processed = manager.last_processed
  PROVE  AdaInv'
<1>1. Boxes' = Boxes
  BY BoxesSame
<1>2. Flying => OneEach(Boxes', BoxNames, ChunksOf(scenes - 1), {VbList(scenes - 1)})
  BY <1>1 DEF Flying
<1>3. Landed => OneEach(Boxes', BoxNames, {}, {VbList(scenes - 1)})
  BY <1>1 DEF Landed
<1>. QED
  BY <1>2, <1>3, InvKept

LEMMA SendVbListStep ==
  ASSUME AdaInv, SendVbList
  PROVE  AdaInv'
<1>1. /\ link' = Append(link, VbList(scenes - 1)) /\ link \in Seq(Chunk \cup List) /\ scenes \in Nat
      /\ UNCHANGED <<scenes, requested, compression, compressed, pipeVars, vbLists, gridVars>>
  BY DEF SendVbList, AdaInv, AdaTypes
<1>2. VbList(scenes - 1) \in List
  <2>1. scenes - 1 \in {-1} \cup Nat
    BY <1>1
  <2>. QED
    BY <2>1, ChunkFacts
<1>3. AdaTypes'
  <2>1. link' \in Seq(Chunk \cup List)
    BY <1>1, <1>2, AppendProperties
  <2>. QED
    BY <1>1, <2>1 DEF AdaInv, AdaTypes, pipeVars, gridVars
<1>4. PICK B : B = Boxes
  OBVIOUS
<1>5. PICK D : D = Boxes'
  OBVIOUS
<1>6. PICK x : x = VbList(scenes - 1)
  OBVIOUS
<1>7. /\ <<"link", 0>> \in BoxNames /\ D[<<"link", 0>>] = Append(B[<<"link", 0>>], x)
      /\ \A b \in BoxNames \ {<<"link", 0>>} : D[b] = B[b]
  <2>1. <<"link", 0>> \in BoxNames
    BY NamesAre DEF Plain
  <2>2. D[<<"link", 0>>] = Append(B[<<"link", 0>>], x)
    BY <1>1, <1>4, <1>5, <1>6, <2>1, BoxOf, BoxContents, BoxContentsNext
  <2>3. ASSUME NEW b \in BoxNames, b # <<"link", 0>> PROVE Box(b)' = Box(b)
    BY <1>1, <2>3, BoxNamed DEF Box, Plain, pipeVars, gridVars, Working
  <2>. QED
    BY <1>4, <1>5, <2>1, <2>2, <2>3, BoxOf
<1>8. Flying => OneEach(D, BoxNames, ChunksOf(scenes - 1), {x})
  <2>. SUFFICES ASSUME Flying PROVE OneEach(D, BoxNames, ChunksOf(scenes - 1), {x})
    OBVIOUS
  <2>1. OneEach(B, BoxNames, ChunksOf(scenes - 1), {x}) /\ scenes - 1 \in Nat
    BY <1>1, <1>4, <1>6 DEF Flying
  <2>2. ChunksOf(scenes - 1) \cap {x} = {}
    BY <1>2, <1>6, <2>1, ChunkFacts
  <2>. QED
    BY <1>7, <2>1, <2>2, OtherAdded
<1>9. Landed => OneEach(D, BoxNames, {}, {x})
  BY <1>4, <1>6, <1>7, OtherAdded DEF Landed
<1>10. scenes' = scenes /\ merged' = merged /\ framePc' = framePc /\ manager' = manager /\ Pending' = Pending
  BY <1>1 DEF gridVars, Pending
<1>. QED
  BY <1>3, <1>5, <1>6, <1>8, <1>9, <1>10, InvKept

LEMMA ReceiveSrOutputStep ==
  ASSUME AdaInv, ReceiveSrOutput
  PROVE  AdaInv'
<1>1. AdaTypes' /\ UNCHANGED <<scenes, manager, framePc, merged>> /\ scenes \in Nat
  BY ReceiveSrOutputMoves DEF ReceiveSrOutput, serverVars, gridVars, AdaInv, AdaTypes
<1>2. CASE Moves(Boxes, Boxes', BoxNames, <<"link", 0>>, <<"arrived", 0>>)
  BY <1>1, <1>2, MoveStep
<1>3. CASE /\ link # <<>> /\ Head(link) \in List /\ link' = Tail(link)
           /\ \A b \in BoxNames : b # <<"link", 0>> => Box(b)' = Box(b)
  <2>1. PICK B : B = Boxes
    OBVIOUS
  <2>2. PICK D : D = Boxes'
    OBVIOUS
  <2>3. /\ <<"link", 0>> \in BoxNames /\ B[<<"link", 0>>] # <<>> /\ Head(B[<<"link", 0>>]) \in List
        /\ D[<<"link", 0>>] = Tail(B[<<"link", 0>>])
        /\ \A b \in BoxNames \ {<<"link", 0>>} : D[b] = B[b]
    <3>1. <<"link", 0>> \in BoxNames
      BY NamesAre DEF Plain
    <3>2. B[<<"link", 0>>] = link /\ D[<<"link", 0>>] = link'
      BY <2>1, <2>2, <3>1, BoxOf, BoxContents, BoxContentsNext
    <3>3. \A b \in BoxNames \ {<<"link", 0>>} : D[b] = B[b]
      BY <1>3, <2>1, <2>2, BoxOf
    <3>. QED
      BY <1>3, <3>1, <3>2, <3>3
  <2>4. Flying => OneEach(D, BoxNames, ChunksOf(scenes - 1), {VbList(scenes - 1)})
    <3>. SUFFICES ASSUME Flying
                  PROVE  OneEach(D, BoxNames, ChunksOf(scenes - 1), {VbList(scenes - 1)})
      OBVIOUS
    <3>1. OneEach(B, BoxNames, ChunksOf(scenes - 1), {VbList(scenes - 1)}) /\ scenes - 1 \in Nat
      BY <1>1, <2>1 DEF Flying
    <3>2. Head(B[<<"link", 0>>]) \notin ChunksOf(scenes - 1)
      BY <2>3, <3>1, ChunkFacts
    <3>. QED
      BY <2>3, <3>1, <3>2, OtherTaken
  <2>5. Landed => OneEach(D, BoxNames, {}, {VbList(scenes - 1)})
    BY <2>1, <2>3, OtherTaken DEF Landed
  <2>. QED
    BY <1>1, <2>2, <2>4, <2>5, InvKept DEF Pending
<1>. QED
  BY <1>2, <1>3, ReceiveSrOutputMoves DEF AdaInv

----------------------------------------------------------------------------
(* The steps of the manager, and the request of a scene.                   *)

LEMMA DistinctLen ==
  ASSUME NEW T, NEW s \in Seq(T),
         \A i \in 1..Len(s) : \A j \in 1..Len(s) : s[i] = s[j] => i = j
  PROVE  IsFiniteSet(ToSet(s)) /\ Cardinality(ToSet(s)) = Len(s)
<1>1. PICK n \in Nat : n = Len(s) /\ DOMAIN s = 1..n
  BY LenProperties
<1>2. ToSet(s) = {s[i] : i \in 1..n}
  BY <1>1 DEF ToSet
<1>. DEFINE f == [i \in 1..n |-> s[i]]
            R == {s[i] : i \in 1..n}
<1>3. f \in [1..n -> R] /\ \A x, y \in 1..n : f[x] = f[y] => x = y
  BY <1>1
<1>4. \A y \in R : \E x \in 1..n : f[x] = y
  OBVIOUS
<1>5. f \in Bijection(1..n, R)
  <2>. HIDE DEF f, R
  <2>. QED
    BY <1>3, <1>4 DEF Bijection, Injection, Surjection, IsInjective
<1>6. ExistsBijection(1..n, R)
  BY <1>5 DEF ExistsBijection
<1>7. IsFiniteSet(1..n) /\ Cardinality(1..n) = n
  BY FS_Interval
<1>8. IsFiniteSet(R) /\ Cardinality(R) = n
  <2>. HIDE DEF R
  <2>. QED
    BY <1>6, <1>7, FS_Bijection
<1>. QED
  BY <1>1, <1>2, <1>8

LEMMA ChunksCount ==
  ASSUME NEW s
  PROVE  IsFiniteSet(ChunksOf(s)) /\ Cardinality(ChunksOf(s)) = ChunkCount
<1>. DEFINE f == [k \in 0..(ChunkCount - 1) |-> [scene |-> s, chunk |-> k]]
<1>1. f \in [0..(ChunkCount - 1) -> ChunksOf(s)]
  BY DEF ChunksOf
<1>2. \A x, y \in 0..(ChunkCount - 1) : f[x] = f[y] => x = y
  <2>1. \A x \in 0..(ChunkCount - 1) : f[x].chunk = x
    OBVIOUS
  <2>. QED
    BY <2>1
<1>3. \A y \in ChunksOf(s) : \E x \in 0..(ChunkCount - 1) : f[x] = y
  BY DEF ChunksOf
<1>4. f \in Bijection(0..(ChunkCount - 1), ChunksOf(s))
  <2>. HIDE DEF f
  <2>. QED
    BY <1>1, <1>2, <1>3 DEF Bijection, Injection, Surjection, IsInjective
<1>5. ExistsBijection(0..(ChunkCount - 1), ChunksOf(s))
  BY <1>4 DEF ExistsBijection
<1>6. IsFiniteSet(0..(ChunkCount - 1)) /\ Cardinality(0..(ChunkCount - 1)) = ChunkCount
  <2>1. 0 \in Int /\ ChunkCount - 1 \in Int /\ ~(0 > ChunkCount - 1) /\ (ChunkCount - 1) - 0 + 1 = ChunkCount
    BY AdaAssumption
  <2>2. /\ IsFiniteSet(0..(ChunkCount - 1))
        /\ Cardinality(0..(ChunkCount - 1)) =
             IF 0 > ChunkCount - 1 THEN 0 ELSE (ChunkCount - 1) - 0 + 1
    BY ONLY <2>1, FS_Interval, Zenon
  <2>. QED
    BY <2>1, <2>2
<1>. QED
  BY <1>5, <1>6, FS_Bijection

\* What the places hold while a scene is under way.
LEMMA FlyingChunks ==
  ASSUME AdaTypes, Flying, NEW b \in BoxNames, Box(b) \in Seq(Chunk)
  PROVE  \A i \in 1..Len(Box(b)) : Box(b)[i] \in ChunksOf(scenes - 1)
<1>1. Box(b) \in Seq(ChunksOf(scenes - 1) \cup {VbList(scenes - 1)})
  BY BoxOf DEF Flying, OneEach
<1>2. VbList(scenes - 1) \in List
  <2>1. scenes - 1 \in {-1} \cup Nat
    BY DEF AdaTypes
  <2>. QED
    BY <2>1, ChunkFacts
<1>3. ASSUME NEW i \in 1..Len(Box(b)) PROVE Box(b)[i] \in ChunksOf(scenes - 1)
  <2>1. Box(b)[i] \in Chunk /\ Box(b)[i] \in ChunksOf(scenes - 1) \cup {VbList(scenes - 1)}
    BY <1>1, ElementOfSeq
  <2>. QED
    BY <1>2, <2>1, ChunkFacts
<1>. QED
  BY <1>3

LEMMA LandedEmpty ==
  ASSUME AdaTypes, Landed, NEW b \in BoxNames, Box(b) \in Seq(Chunk)
  PROVE  Box(b) = <<>>
<1>1. Box(b) \in Seq({} \cup {VbList(scenes - 1)})
  BY BoxOf DEF Landed, OneEach
<1>2. VbList(scenes - 1) \in List
  <2>1. scenes - 1 \in {-1} \cup Nat
    BY DEF AdaTypes
  <2>. QED
    BY <2>1, ChunkFacts
<1>3. SUFFICES ASSUME Box(b) # <<>> PROVE FALSE
  OBVIOUS
<1>4. Head(Box(b)) \in Chunk /\ Head(Box(b)) \in {VbList(scenes - 1)}
  BY <1>1, <1>3, HeadTailProperties
<1>. QED
  BY <1>2, <1>4, ChunkFacts

\* The chunks that have reached the manager are distinct chunks of the scene.
LEMMA FlyingPending ==
  ASSUME AdaTypes, Flying
  PROVE  /\ \A i \in 1..Len(Pending) : Pending[i] \in ChunksOf(scenes - 1)
         /\ IsFiniteSet(ToSet(Pending)) /\ Cardinality(ToSet(Pending)) = Len(Pending)
         /\ Len(Pending) \in Nat /\ Len(Pending) <= ChunkCount
         /\ Len(Pending) = ChunkCount => ToSet(Pending) = ChunksOf(scenes - 1)
<1>1. Pending \in Seq(Chunk)
  BY DEF AdaTypes, Managers, Pending
<1>2. <<"pending", 0>> \in BoxNames /\ Box(<<"pending", 0>>) = Pending
      /\ Boxes[<<"pending", 0>>] = Pending
  BY NamesAre, BoxContents, BoxOf DEF Plain
<1>3. \A i \in 1..Len(Pending) : Pending[i] \in ChunksOf(scenes - 1)
  BY <1>1, <1>2, FlyingChunks
<1>4. ASSUME NEW i \in 1..Len(Pending), NEW j \in 1..Len(Pending), Pending[i] = Pending[j]
      PROVE  i = j
  BY <1>2, <1>3, <1>4, OnePlace DEF Flying
<1>5. IsFiniteSet(ToSet(Pending)) /\ Cardinality(ToSet(Pending)) = Len(Pending)
  BY <1>1, <1>4, DistinctLen
<1>6. ToSet(Pending) \subseteq ChunksOf(scenes - 1)
  <2>1. DOMAIN Pending = 1..Len(Pending)
    BY <1>1, LenProperties
  <2>. QED
    BY <1>3, <2>1 DEF ToSet
<1>7. Len(Pending) \in Nat
  BY <1>1, LenProperties
<1>8. /\ Cardinality(ToSet(Pending)) <= Cardinality(ChunksOf(scenes - 1))
      /\ Cardinality(ChunksOf(scenes - 1)) = Cardinality(ToSet(Pending))
           => ChunksOf(scenes - 1) = ToSet(Pending)
  BY <1>6, ChunksCount, FS_Subset
<1>. QED
  BY <1>3, <1>5, <1>7, <1>8, ChunksCount

LEMMA CountedFields ==
  ASSUME NEW m \in Managers, NEW t \in Nat
  PROVE  /\ Counted(m, t) \in Managers
         /\ Counted(m, t).pending_chunks = m.pending_chunks
         /\ Counted(m, t).last_processed = m.last_processed
         /\ t > m.last_processed /\ t > m.current_id =>
              Counted(m, t).current_id = t /\ Counted(m, t).chunk_counter = 1
         /\ t = m.current_id =>
              /\ Counted(m, t).current_id = t
              /\ Counted(m, t).chunk_counter = m.chunk_counter + 1
<1>1. CASE t > m.last_processed /\ t > m.current_id
  <2>1. PICK e : e = [m EXCEPT !.current_id = t]
    OBVIOUS
  <2>2. /\ e \in Managers /\ e.current_id = t /\ e.pending_chunks = m.pending_chunks
        /\ e.last_processed = m.last_processed
    BY <2>1 DEF Managers
  <2>3. PICK f : f = [e EXCEPT !.chunk_counter = 1]
    OBVIOUS
  <2>4. /\ f \in Managers /\ f.chunk_counter = 1 /\ f.current_id = e.current_id
        /\ f.pending_chunks = e.pending_chunks /\ f.last_processed = e.last_processed
    BY <2>2, <2>3 DEF Managers
  <2>5. Counted(m, t) = f
    <3>1. Counted(m, t) = [m EXCEPT !.current_id = t, !.chunk_counter = 1]
      BY <1>1 DEF Counted
    <3>2. [m EXCEPT !.current_id = t, !.chunk_counter = 1] = f
      BY <2>1, <2>3 DEF Managers
    <3>. QED
      BY <3>1, <3>2
  <2>6. m.current_id \in Int /\ t # m.current_id
    BY <1>1 DEF Managers
  <2>. QED
    BY <2>2, <2>4, <2>5, <2>6
<1>2. CASE ~(t > m.last_processed /\ t > m.current_id) /\ t = m.current_id
  <2>1. PICK k \in Nat : k = m.chunk_counter + 1
    BY DEF Managers
  <2>2. PICK e : e = [m EXCEPT !.chunk_counter = k]
    OBVIOUS
  <2>3. /\ e \in Managers /\ e.chunk_counter = k /\ e.current_id = m.current_id
        /\ e.pending_chunks = m.pending_chunks /\ e.last_processed = m.last_processed
    BY <2>2 DEF Managers
  <2>4. Counted(m, t) = e
    <3>1. Counted(m, t) = [m EXCEPT !.chunk_counter = @ + 1]
      BY <1>2 DEF Counted
    <3>. QED
      BY <2>1, <2>2, <3>1, Zenon
  <2>. QED
    BY <1>2, <2>1, <2>3, <2>4
<1>3. CASE ~(t > m.last_processed /\ t > m.current_id) /\ t # m.current_id
  <2>1. Counted(m, t) = m
    BY <1>3 DEF Counted
  <2>. QED
    BY <1>3, <2>1
<1>. QED
  BY <1>1, <1>2, <1>3

\* A chunk counted in, and the flag of a merge.
LEMMA PendedFields ==
  ASSUME NEW m \in Managers, NEW c \in Chunk, m.chunk_counter <= ChunkCount
  PROVE  LET p == Pended(m, c)
             e == [p EXCEPT !.mesh_processing = @ \/ p.chunk_counter = ChunkCount]
         IN  /\ e \in Managers /\ p.chunk_counter = m.chunk_counter
             /\ e.pending_chunks = Append(m.pending_chunks, c)
             /\ e.chunk_counter = m.chunk_counter
             /\ e.current_id = m.current_id /\ e.last_processed = m.last_processed
<1>1. PICK q \in Seq(Chunk) : q = Append(m.pending_chunks, c)
  BY AppendProperties DEF Managers
<1>2. PICK p : p = [m EXCEPT !.pending_chunks = q]
  OBVIOUS
<1>3. /\ p \in Managers /\ p.pending_chunks = q /\ p.chunk_counter = m.chunk_counter
      /\ p.current_id = m.current_id /\ p.last_processed = m.last_processed
  BY <1>2 DEF Managers
<1>4. Pended(m, c) = p
  BY <1>1, <1>2, Zenon DEF Pended
<1>5. PICK y \in BOOLEAN : y = (p.mesh_processing \/ p.chunk_counter = ChunkCount)
  OBVIOUS
<1>6. PICK e : e = [p EXCEPT !.mesh_processing = y]
  OBVIOUS
<1>7. /\ e \in Managers /\ e.pending_chunks = q /\ e.chunk_counter = p.chunk_counter
      /\ e.current_id = p.current_id /\ e.last_processed = p.last_processed
  BY <1>3, <1>6 DEF Managers
<1>8. [p EXCEPT !.mesh_processing = @ \/ p.chunk_counter = ChunkCount] = e
  BY <1>5, <1>6, Zenon
<1>. QED
  BY <1>1, <1>3, <1>4, <1>7, <1>8, Zenon

LEMMA FrameArrivesStep ==
  ASSUME AdaInv, FrameArrives
  PROVE  AdaInv' /\ manager'.chunk_counter \in 0..ChunkCount
<1>0. AdaTypes
  BY DEF AdaInv
<1>1. /\ decoded \in Seq(Chunk) /\ decoded # <<>> /\ decoded' = Tail(decoded)
      /\ framePc = "idle" /\ manager \in Managers /\ scenes \in Nat /\ Pending \in Seq(Chunk)
      /\ UNCHANGED <<serverVars, link, arrived, decompression, vbLists, vbPc, merged, cleaned>>
  BY DEF AdaInv, AdaTypes, FrameArrives, Managers, Pending
<1>2. Flying
  <2>1. Box(<<"decoded", 0>>) = decoded /\ <<"decoded", 0>> \in BoxNames
    BY BoxContents, NamesAre DEF Plain
  <2>2. ~Landed
    BY <1>0, <1>1, <2>1, LandedEmpty
  <2>. QED
    BY <2>2 DEF AdaInv
<1>3. PICK c \in Chunk : c = Head(decoded)
  BY <1>1, HeadTailProperties
<1>4. PICK s \in Nat : s = scenes - 1
  BY <1>1, <1>2 DEF Flying
<1>5. c.scene = s
  <2>1. Box(<<"decoded", 0>>) = decoded /\ <<"decoded", 0>> \in BoxNames
    BY BoxContents, NamesAre DEF Plain
  <2>2. c = decoded[1] /\ 1 \in 1..Len(decoded)
    BY <1>1, <1>3, HeadTailProperties, LenProperties, EmptySeq
  <2>3. c \in ChunksOf(s)
    BY <1>0, <1>1, <1>2, <1>4, <2>1, <2>2, FlyingChunks
  <2>. QED
    BY <2>3, ChunkFacts
<1>6. PICK n \in Nat : n = Len(Pending) /\ n < ChunkCount
  <2>1. Len(Pending) \in Nat /\ Len(Pending) <= ChunkCount
    BY <1>0, <1>2, FlyingPending
  <2>2. Len(Pending) # ChunkCount
    BY <1>1, <1>2 DEF Flying
  <2>. QED
    BY <2>1, <2>2, AdaAssumption
<1>7. PICK m : m = Counted(manager, s)
  OBVIOUS
<1>8. /\ m \in Managers /\ m.pending_chunks = Pending /\ m.last_processed = s - 1
      /\ m.current_id = s /\ m.chunk_counter = n + 1
  <2>1. manager.last_processed = s - 1
    BY <1>1, <1>2, <1>4 DEF Flying
  <2>2. m \in Managers /\ m.pending_chunks = Pending /\ m.last_processed = s - 1
    BY <1>1, <1>7, <2>1, CountedFields DEF Pending
  <2>3. CASE Pending = <<>>
    <3>1. manager.current_id = s - 1 /\ n = 0
      BY <1>1, <1>2, <1>4, <1>6, <2>3 DEF Flying
    <3>2. s > manager.last_processed /\ s > manager.current_id
      BY <2>1, <3>1
    <3>3. m.current_id = s /\ m.chunk_counter = 1
      BY <1>1, <1>7, <3>2, CountedFields
    <3>. QED
      BY <2>2, <3>1, <3>3
  <2>4. CASE Pending # <<>>
    <3>1. manager.current_id = s /\ manager.chunk_counter = n
      BY <1>2, <1>4, <1>6, <2>4 DEF Flying
    <3>2. m.current_id = s /\ m.chunk_counter = manager.chunk_counter + 1
      BY <1>1, <1>7, <3>1, CountedFields
    <3>. QED
      BY <2>2, <3>1, <3>2
  <2>. QED
    BY <2>3, <2>4
<1>9. PICK p : p = Pended(m, c)
  OBVIOUS
<1>10. /\ manager' = [p EXCEPT !.mesh_processing = @ \/ p.chunk_counter = ChunkCount]
       /\ framePc' = IF p.chunk_counter = ChunkCount THEN "merge" ELSE "idle"
  BY <1>3, <1>5, <1>7, <1>9, Zenon DEF FrameArrives
<1>11. m.chunk_counter <= ChunkCount
  BY <1>6, <1>8, AdaAssumption
<1>12. /\ manager' \in Managers /\ p.chunk_counter = n + 1
       /\ Pending' = Append(Pending, c) /\ manager'.chunk_counter = n + 1
       /\ manager'.current_id = s /\ manager'.last_processed = s - 1
  BY <1>8, <1>9, <1>10, <1>11, PendedFields, SMTT(30) DEF Pending
<1>13. Len(Pending') = n + 1 /\ Pending' # <<>>
  BY <1>1, <1>6, <1>12, AppendProperties
<1>14. AdaTypes'
  <2>1. decoded' \in Seq(Chunk)
    BY <1>1, HeadTailProperties
  <2>2. framePc' \in {"idle", "merge", "clean", "lower", "pop", "finish"}
    BY <1>10
  <2>. QED
    BY <1>0, <1>1, <1>12, <2>1, <2>2 DEF AdaTypes, serverVars
<1>15. Moves(Boxes, Boxes', BoxNames, <<"decoded", 0>>, <<"pending", 0>>)
  <2>1. ASSUME NEW b \in BoxNames, b # <<"decoded", 0>>, b # <<"pending", 0>>
        PROVE  Box(b)' = Box(b)
    BY <1>1, <2>1, BoxNamed DEF Box, Plain, serverVars, Working
  <2>2. <<"decoded", 0>> \in BoxNames /\ <<"pending", 0>> \in BoxNames
    BY NamesAre DEF Plain
  <2>3. <<"decoded", 0>> # <<"pending", 0>>
    OBVIOUS
  <2>4. /\ Box(<<"decoded", 0>>) # <<>> /\ Box(<<"decoded", 0>>)' = Tail(Box(<<"decoded", 0>>))
        /\ Box(<<"pending", 0>>)' = Append(Box(<<"pending", 0>>), Head(Box(<<"decoded", 0>>)))
    BY <1>1, <1>3, <1>12, BoxContents, BoxContentsNext
  <2>. QED
    BY <2>1, <2>2, <2>3, <2>4, StepMoves
<1>16. OneEach(Boxes', BoxNames, ChunksOf(scenes - 1), {VbList(scenes - 1)})
  BY <1>2, <1>15, MovesKeep DEF Flying
<1>17. scenes' = scenes /\ merged' = merged
  BY <1>1 DEF serverVars
<1>18. Flying'
  <2>1. manager'.last_processed = scenes - 2 /\ manager'.current_id = scenes - 1
    BY <1>1, <1>4, <1>12
  <2>2. framePc' = IF Len(Pending') = ChunkCount THEN "merge" ELSE "idle"
    BY <1>10, <1>12, <1>13
  <2>. QED
    BY <1>2, <1>12, <1>13, <1>16, <1>17, <2>1, <2>2 DEF Flying
<1>19. MergeIsComplete'
  BY <1>17 DEF AdaInv, MergeIsComplete
<1>20. manager'.chunk_counter \in 0..ChunkCount
  BY <1>6, <1>12, AdaAssumption
<1>. QED
  BY <1>14, <1>18, <1>19, <1>20 DEF AdaInv

LEMMA OnlyThose ==
  ASSUME NEW T, NEW X, NEW s \in Seq(T), \A i \in 1..Len(s) : s[i] \in X
  PROVE  s \in Seq(X)
<1>1. PICK n \in Nat : n = Len(s) /\ s \in [1..n -> T]
  BY LenProperties
<1>2. s \in [1..n -> X]
  BY <1>1
<1>. QED
  BY <1>2, SeqDef

LEMMA FrameMergesStep ==
  ASSUME AdaInv, FrameMerges
  PROVE  AdaInv'
<1>0. AdaTypes
  BY DEF AdaInv
<1>1. /\ framePc = "merge" /\ framePc' = "clean"
      /\ merged' = Append(merged, SubSeq(Pending, 1, ChunkCount))
      /\ manager' = [manager EXCEPT !.pending_chunks = Remaining(@)]
      /\ manager \in Managers /\ scenes \in Nat /\ Pending \in Seq(Chunk)
      /\ merged \in Seq(Seq(Chunk))
      /\ UNCHANGED <<serverVars, link, pipeVars, vbLists, vbPc, cleaned>>
  BY DEF AdaInv, AdaTypes, FrameMerges, Managers, Pending
<1>2. Flying
  BY <1>1 DEF AdaInv, Landed
<1>3. Len(Pending) = ChunkCount /\ ChunkCount \in Nat \ {0} /\ scenes - 1 \in Nat
  BY <1>1, <1>2, AdaAssumption DEF Flying
<1>4. /\ ToSet(Pending) = ChunksOf(scenes - 1)
      /\ \A i \in 1..Len(Pending) : Pending[i] \in ChunksOf(scenes - 1)
  BY <1>0, <1>2, <1>3, FlyingPending
<1>5. PICK all : all = SubSeq(Pending, 1, ChunkCount)
  OBVIOUS
<1>6. all \in Seq(Chunk) /\ ToSet(all) = ChunksOf(scenes - 1)
  <2>1. /\ all \in Seq(Chunk) /\ Len(all) = ChunkCount
        /\ \A i \in 1..ChunkCount : all[i] = Pending[i]
    BY <1>1, <1>3, <1>5, SubSeqProperties
  <2>2. DOMAIN all = 1..ChunkCount /\ DOMAIN Pending = 1..ChunkCount
    BY <1>1, <1>3, <2>1, LenProperties
  <2>3. ToSet(all) = ToSet(Pending)
    BY <2>1, <2>2 DEF ToSet
  <2>. QED
    BY <1>4, <2>1, <2>3
<1>7. Remaining(Pending) = <<>>
  <2>1. Remaining(Pending) = SubSeq(Pending, ChunkCount + 1, ChunkCount)
    BY <1>3 DEF Remaining
  <2>2. SubSeq(Pending, ChunkCount + 1, ChunkCount) = <<>>
    BY <1>1, <1>3, SubSeqProperties, EmptySeq
  <2>. QED
    BY <2>1, <2>2
<1>8. /\ manager' \in Managers /\ Pending' = <<>>
      /\ manager'.current_id = manager.current_id
  <2>1. PICK q : q = Remaining(manager.pending_chunks)
    OBVIOUS
  <2>2. q = <<>> /\ q \in Seq(Chunk)
    BY <1>7, <2>1, EmptySeq DEF Pending
  <2>3. manager' = [manager EXCEPT !.pending_chunks = q]
    BY <1>1, <2>1, Zenon
  <2>. QED
    BY <1>1, <2>2, <2>3 DEF Managers, Pending
<1>9. manager.current_id = scenes - 1
  <2>1. Pending # <<>>
    BY <1>1, <1>3, EmptySeq
  <2>. QED
    BY <1>2, <2>1 DEF Flying
<1>10. /\ merged' \in Seq(Seq(Chunk)) /\ Len(merged') = scenes /\ merged'[scenes] = all
       /\ \A i \in 1..(scenes - 1) : merged'[i] = merged[i]
       /\ Len(merged) = scenes - 1
  <2>1. Len(merged) = scenes - 1
    BY <1>2 DEF Flying
  <2>2. merged' = Append(merged, all)
    BY <1>1, <1>5
  <2>3. /\ merged' \in Seq(Seq(Chunk)) /\ Len(merged') = Len(merged) + 1
        /\ merged'[Len(merged) + 1] = all /\ \A i \in 1..Len(merged) : merged'[i] = merged[i]
    <3>1. PICK T : T = Seq(Chunk)
      OBVIOUS
    <3>2. merged \in Seq(T) /\ all \in T
      BY <1>1, <1>6, <3>1
    <3>3. /\ merged' \in Seq(T) /\ Len(merged') = Len(merged) + 1
          /\ merged'[Len(merged) + 1] = all /\ \A i \in 1..Len(merged) : merged'[i] = merged[i]
      BY ONLY <2>2, <3>2, AppendProperties
    <3>. QED
      BY ONLY <3>1, <3>3
  <2>4. Len(merged) + 1 = scenes
    BY <1>1, <2>1
  <2>. QED
    BY <2>1, <2>3, <2>4
<1>11. MergeIsComplete'
  <2>. SUFFICES ASSUME NEW i \in 1..scenes PROVE ToSet(merged'[i]) = ChunksOf(i - 1)
    BY <1>10 DEF MergeIsComplete
  <2>1. CASE i = scenes
    BY <1>6, <1>10, <2>1
  <2>2. CASE i # scenes
    <3>1. i \in 1..(scenes - 1)
      BY <1>1, <2>2
    <3>. QED
      BY <1>10, <3>1 DEF AdaInv, MergeIsComplete
  <2>. QED
    BY <2>1, <2>2
<1>12. AdaTypes'
  BY <1>0, <1>1, <1>8, <1>10 DEF AdaTypes, serverVars, pipeVars
<1>13. PICK x : x = VbList(scenes - 1)
  OBVIOUS
<1>14. ASSUME NEW b \in BoxNames PROVE Box(b)' \in Seq({} \cup {x})
  <2>1. CASE b = <<"pending", 0>>
    BY <1>8, <2>1, BoxContentsNext, EmptySeq
  <2>2. CASE b # <<"pending", 0>>
    <3>1. Box(b)' = Box(b)
      BY <1>1, <2>2, BoxNamed DEF Box, Plain, serverVars, pipeVars, Working
    <3>2. Box(b) \in Seq(ChunksOf(scenes - 1) \cup {x}) /\ Boxes[b] = Box(b)
      BY <1>2, <1>13, BoxOf DEF Flying, OneEach
    <3>3. ASSUME NEW i \in 1..Len(Box(b)) PROVE Box(b)[i] \in {} \cup {x}
      <4>1. CASE Box(b)[i] \in ChunksOf(scenes - 1)
        <5>1. PICK j \in 1..Len(Pending) : Pending[j] = Box(b)[i]
          <6>1. DOMAIN Pending = 1..Len(Pending)
            BY <1>1, LenProperties
          <6>. QED
            BY <1>4, <4>1, <6>1 DEF ToSet
        <5>2. <<"pending", 0>> \in BoxNames /\ Boxes[<<"pending", 0>>] = Pending
          BY NamesAre, BoxContents, BoxOf DEF Plain
        <5>3. b = <<"pending", 0>>
          BY <1>2, <3>2, <4>1, <5>1, <5>2, OnePlace, SMTT(30) DEF Flying
        <5>. QED
          BY <2>2, <5>3
      <4>2. Box(b)[i] \in ChunksOf(scenes - 1) \cup {x}
        BY <3>2, ElementOfSeq
      <4>. QED
        BY <4>1, <4>2
    <3>4. Box(b) \in Seq({} \cup {x})
      BY <3>2, <3>3, OnlyThose
    <3>. QED
      BY <3>1, <3>4
  <2>. QED
    BY <2>1, <2>2
<1>15. OneEach(Boxes', BoxNames, {}, {x})
  BY <1>14, BoxOf DEF OneEach
<1>16. Landed'
  <2>1. scenes' = scenes
    BY <1>1 DEF serverVars
  <2>. QED
    BY <1>1, <1>8, <1>9, <1>10, <1>13, <1>15, <2>1 DEF Landed
<1>. QED
  BY <1>11, <1>12, <1>16 DEF AdaInv

LEMMA FrameCleansStep ==
  ASSUME AdaInv, FrameCleans \/ FrameLowers \/ FramePops
  PROVE  AdaInv'
<1>1. /\ framePc \in {"clean", "lower", "pop"} /\ framePc' \in {"lower", "pop", "finish"}
      /\ manager \in Managers /\ AdaTypes
      /\ UNCHANGED <<serverVars, link, pipeVars, vbLists, vbPc, merged>>
  BY DEF AdaInv, AdaTypes, FrameCleans, FrameLowers, FramePops
<1>2. /\ manager' \in Managers /\ Pending' = Pending
      /\ manager'.current_id = manager.current_id
  <2>1. CASE FrameCleans
    BY <1>1, <2>1 DEF FrameCleans, Pending
  <2>2. CASE FrameLowers
    BY <1>1, <2>2 DEF FrameLowers, Pending, Managers
  <2>3. CASE FramePops
    <3>1. PICK q \in Seq(List) : q = Front(manager.pending_clean_reqs)
      <4>1. PICK r \in Seq(List) : r = manager.pending_clean_reqs
        BY <1>1 DEF Managers
      <4>2. Len(r) \in Nat /\ 1 \in Nat /\ Len(r) - 1 <= Len(r)
        BY LenProperties
      <4>3. SubSeq(r, 1, Len(r) - 1) \in Seq(List)
        BY <4>2, SubSeqProperties
      <4>. QED
        BY <4>1, <4>3 DEF Front
    <3>2. manager' = [manager EXCEPT !.pending_clean_reqs = q]
      BY <2>3, <3>1, Zenon DEF FramePops, Performed
    <3>. QED
      BY <1>1, <3>2 DEF Managers, Pending
  <2>. QED
    BY <2>1, <2>2, <2>3
<1>3. AdaTypes'
  BY <1>1, <1>2 DEF AdaTypes, serverVars, pipeVars
<1>4. Landed
  BY <1>1 DEF AdaInv, Flying
<1>5. Boxes' = Boxes /\ scenes' = scenes
  BY <1>1, <1>2, BoxesSame DEF serverVars, pipeVars
<1>6. Landed'
  BY <1>1, <1>2, <1>4, <1>5 DEF Landed
<1>7. MergeIsComplete'
  BY <1>1 DEF AdaInv, MergeIsComplete
<1>. QED
  BY <1>3, <1>6, <1>7 DEF AdaInv

LEMMA FrameFinishesStep ==
  ASSUME AdaInv, FrameFinishes
  PROVE  AdaInv'
<1>1. /\ framePc = "finish" /\ framePc' = "idle" /\ manager \in Managers /\ AdaTypes
      /\ manager' = [manager EXCEPT !.last_processed = manager.current_id, !.mesh_processing = FALSE]
      /\ UNCHANGED <<serverVars, link, pipeVars, vbLists, vbPc, merged, cleaned>>
  BY DEF AdaInv, AdaTypes, FrameFinishes
<1>2. /\ manager' \in Managers /\ Pending' = Pending
      /\ manager'.current_id = manager.current_id
      /\ manager'.last_processed = manager.current_id
  <2>1. PICK e : e = [manager EXCEPT !.last_processed = manager.current_id]
    OBVIOUS
  <2>2. /\ e \in Managers /\ e.pending_chunks = manager.pending_chunks
        /\ e.current_id = manager.current_id /\ e.last_processed = manager.current_id
    BY <1>1, <2>1 DEF Managers
  <2>3. PICK f : f = [e EXCEPT !.mesh_processing = FALSE]
    OBVIOUS
  <2>4. /\ f \in Managers /\ f.pending_chunks = e.pending_chunks
        /\ f.current_id = e.current_id /\ f.last_processed = e.last_processed
    BY <2>2, <2>3 DEF Managers
  <2>5. manager' = f
    BY <1>1, <2>1, <2>3 DEF Managers
  <2>. QED
    BY <2>2, <2>4, <2>5 DEF Pending
<1>3. AdaTypes'
  BY <1>1, <1>2 DEF AdaTypes, serverVars, pipeVars
<1>4. Landed
  BY <1>1 DEF AdaInv, Flying
<1>5. Boxes' = Boxes /\ scenes' = scenes
  BY <1>1, <1>2, BoxesSame DEF serverVars, pipeVars
<1>6. Landed'
  BY <1>1, <1>2, <1>4, <1>5 DEF Landed
<1>7. MergeIsComplete'
  BY <1>1 DEF AdaInv, MergeIsComplete
<1>. QED
  BY <1>3, <1>6, <1>7 DEF AdaInv

LEMMA VbStep ==
  ASSUME AdaInv, VbArrives \/ VbCleans \/ VbPushes \/ VbRaises
  PROVE  AdaInv'
<1>1. /\ UNCHANGED <<serverVars, link, pipeVars, framePc, merged>> /\ manager \in Managers /\ AdaTypes
      /\ vbLists \in Seq(List) /\ vbPc \in List
  BY DEF AdaInv, AdaTypes, VbArrives, VbCleans, VbPushes, VbRaises
<1>2. /\ manager' \in Managers /\ Pending' = Pending
      /\ manager'.current_id = manager.current_id
      /\ manager'.chunk_counter = manager.chunk_counter
      /\ manager'.last_processed = manager.last_processed
  <2>1. CASE VbPushes
    <3>1. PICK q \in Seq(List) : q = Append(manager.pending_clean_reqs, vbPc)
      BY <1>1, AppendProperties DEF Managers
    <3>2. manager' = [manager EXCEPT !.pending_clean_reqs = q]
      BY <2>1, <3>1, Zenon DEF VbPushes
    <3>. QED
      BY <1>1, <3>2 DEF Managers, Pending
  <2>2. CASE VbRaises
    BY <1>1, <2>2 DEF VbRaises, Raised, Managers, Pending
  <2>3. CASE VbArrives \/ VbCleans
    BY <1>1, <2>3 DEF VbArrives, VbCleans, Pending
  <2>. QED
    BY <2>1, <2>2, <2>3
<1>3. vbLists' \in Seq(List) /\ vbPc' \in List
  <2>1. CASE VbArrives
    BY <1>1, <2>1, HeadTailProperties DEF VbArrives
  <2>2. CASE VbCleans \/ VbPushes \/ VbRaises
    BY <1>1, <2>2 DEF VbCleans, VbPushes, VbRaises, Idle, List
  <2>. QED
    BY <2>1, <2>2
<1>4. AdaTypes'
  BY <1>1, <1>2, <1>3 DEF AdaTypes, serverVars, pipeVars
<1>. QED
  BY <1>1, <1>2, <1>4, ManagerStep DEF serverVars, pipeVars

LEMMA EmptyConcat ==
  ASSUME NEW S, NEW s \in Seq(S), NEW t \in Seq(S), s \o t = <<>>
  PROVE  s = <<>> /\ t = <<>>
<1>1. Len(s) \in Nat /\ Len(t) \in Nat /\ Len(s) + Len(t) = 0
  BY LenProperties, ConcatProperties, EmptySeq
<1>2. Len(s) = 0 /\ Len(t) = 0
  BY <1>1
<1>. QED
  BY <1>2, EmptySeq

\* All places but the manager's are empty.
LEMMA QuietBoxes ==
  ASSUME AdaTypes, Quiet, NEW b \in BoxNames, b # <<"pending", 0>>
  PROVE  Box(b) = <<>>
<1>1. /\ requested \in Seq(Chunk \cup List) /\ compressed \in Seq(Chunk \cup List)
      /\ link \in Seq(Chunk \cup List) /\ arrived \in Seq(Chunk \cup List)
      /\ decoded \in Seq(Chunk \cup List) /\ vbLists \in Seq(Chunk \cup List)
  <2>1. \A s \in Seq(Chunk) : s \in Seq(Chunk \cup List)
    <3>. SUFFICES ASSUME NEW s \in Seq(Chunk) PROVE s \in Seq(Chunk \cup List)
      OBVIOUS
    <3>1. \A i \in 1..Len(s) : s[i] \in Chunk \cup List
      BY ElementOfSeq
    <3>. QED
      BY <3>1, OnlyThose
  <2>2. \A s \in Seq(List) : s \in Seq(Chunk \cup List)
    <3>. SUFFICES ASSUME NEW s \in Seq(List) PROVE s \in Seq(Chunk \cup List)
      OBVIOUS
    <3>1. \A i \in 1..Len(s) : s[i] \in Chunk \cup List
      BY ElementOfSeq
    <3>. QED
      BY <3>1, OnlyThose
  <2>. QED
    BY <2>1, <2>2 DEF AdaTypes
<1>2. requested = <<>> /\ compressed = <<>> /\ link = <<>> /\ arrived = <<>> /\ decoded = <<>>
  <2>. DEFINE T == Chunk \cup List
              s2 == requested \o compressed
              s3 == s2 \o link
              s4 == s3 \o arrived
              s5 == s4 \o decoded
  <2>1. s5 \o vbLists = <<>>
    BY DEF Quiet
  <2>2. s2 \in Seq(T) /\ s3 \in Seq(T) /\ s4 \in Seq(T) /\ s5 \in Seq(T)
    BY <1>1, ConcatProperties
  <2>3. s5 = <<>>
    <3>. HIDE DEF s5, T
    <3>. QED
      BY <1>1, <2>1, <2>2, EmptyConcat DEF T
  <2>4. s4 = <<>> /\ decoded = <<>>
    <3>. HIDE DEF s4
    <3>. QED
      BY <1>1, <2>2, <2>3, EmptyConcat
  <2>5. s3 = <<>> /\ arrived = <<>>
    <3>. HIDE DEF s3
    <3>. QED
      BY <1>1, <2>2, <2>4, EmptyConcat
  <2>6. s2 = <<>> /\ link = <<>>
    <3>. HIDE DEF s2
    <3>. QED
      BY <1>1, <2>2, <2>5, EmptyConcat
  <2>7. requested = <<>> /\ compressed = <<>>
    BY <1>1, <2>6, EmptyConcat
  <2>. QED
    BY <2>4, <2>5, <2>6, <2>7
<1>3. /\ \A w \in Workers(CompressWorkers) :
           compression[w].queue = <<>> /\ compression[w].work = Idle
      /\ \A w \in Workers(ChunkCount) :
           decompression[w].queue = <<>> /\ decompression[w].work = Idle
  <2>1. DOMAIN compression = Workers(CompressWorkers) /\ DOMAIN decompression = Workers(ChunkCount)
    BY DEF AdaTypes
  <2>. QED
    BY <2>1 DEF Quiet, Resting
<1>. QED
  BY <1>2, <1>3, BoxNamed DEF Box, Plain, Working

LEMMA RequestSceneStep ==
  ASSUME AdaInv, RequestScene
  PROVE  AdaInv'
<1>0. AdaTypes /\ Quiet
  BY DEF AdaInv, RequestScene
<1>1. /\ framePc = "idle" /\ scenes \in Nat /\ scenes' = scenes + 1
      /\ requested' = [k \in 1..ChunkCount |-> [scene |-> scenes, chunk |-> k - 1]]
      /\ UNCHANGED <<compression, compressed, link, pipeVars, vbLists, gridVars>>
  BY DEF AdaInv, AdaTypes, RequestScene, Quiet
<1>2. Landed
  <2>. SUFFICES ASSUME Flying PROVE FALSE
    BY DEF AdaInv
  <2>1. ChunksOf(scenes - 1) \subseteq ToSet(Pending)
    <3>. SUFFICES ASSUME NEW c \in ChunksOf(scenes - 1) PROVE c \in ToSet(Pending)
      OBVIOUS
    <3>1. PICK b \in BoxNames : \E i \in 1..Len(Boxes[b]) : Boxes[b][i] = c
      BY DEF Flying, OneEach
    <3>2. PICK i \in 1..Len(Boxes[b]) : Boxes[b][i] = c
      BY <3>1
    <3>3. b = <<"pending", 0>>
      <4>. SUFFICES ASSUME b # <<"pending", 0>> PROVE FALSE
        OBVIOUS
      <4>1. Boxes[b] = <<>>
        BY <1>0, QuietBoxes, BoxOf
      <4>. QED
        BY <3>2, <4>1, EmptySeq
    <3>4. Boxes[b] = Pending /\ Pending \in Seq(Chunk)
      BY <1>0, <3>3, BoxOf, BoxContents DEF AdaTypes, Managers, Pending
    <3>5. DOMAIN Pending = 1..Len(Pending)
      BY <3>4, LenProperties
    <3>. QED
      BY <3>2, <3>4, <3>5 DEF ToSet
  <2>2. /\ IsFiniteSet(ToSet(Pending)) /\ Cardinality(ToSet(Pending)) = Len(Pending)
        /\ Len(Pending) \in Nat /\ Len(Pending) <= ChunkCount
    BY <1>0, FlyingPending
  <2>3. ChunkCount <= Len(Pending)
    BY <2>1, <2>2, FS_Subset, ChunksCount
  <2>4. Len(Pending) = ChunkCount
    BY <2>2, <2>3, AdaAssumption
  <2>. QED
    BY <1>1, <2>4 DEF Flying
<1>3. /\ Pending = <<>> /\ Len(merged) = scenes /\ manager.current_id = scenes - 1
      /\ manager.last_processed = scenes - 1
  BY <1>1, <1>2 DEF Landed
<1>. DEFINE chunk(k) == [scene |-> scenes, chunk |-> k - 1]
<1>4. /\ requested' \in Seq(ChunksOf(scenes)) /\ Len(requested') = ChunkCount
      /\ \A k \in 1..ChunkCount : requested'[k] = chunk(k)
  <2>1. ChunkCount \in Nat
    BY AdaAssumption
  <2>2. \A k \in 1..ChunkCount : chunk(k) \in ChunksOf(scenes)
    <3>. SUFFICES ASSUME NEW k \in 1..ChunkCount PROVE chunk(k) \in ChunksOf(scenes)
      OBVIOUS
    <3>1. k - 1 \in 0..(ChunkCount - 1)
      BY <2>1
    <3>. QED
      BY <3>1 DEF ChunksOf
  <2>3. requested' = [k \in 1..ChunkCount |-> chunk(k)]
    BY <1>1
  <2>4. \A k \in 1..ChunkCount : requested'[k] = chunk(k)
    BY <2>3
  <2>. HIDE DEF chunk
  <2>5. requested' \in [1..ChunkCount -> ChunksOf(scenes)]
    BY <2>2, <2>3
  <2>6. requested' \in Seq(ChunksOf(scenes))
    BY <2>1, <2>5, SeqDef
  <2>7. Len(requested') = ChunkCount
    <3>1. DOMAIN requested' = 1..ChunkCount
      BY <2>5
    <3>2. Len(requested') \in Nat /\ DOMAIN requested' = 1..Len(requested')
      BY <2>6, LenProperties
    <3>. QED
      BY <2>1, <3>1, <3>2
  <2>. QED
    BY <2>4, <2>6, <2>7
<1>5. AdaTypes'
  <2>1. ChunksOf(scenes) \subseteq Chunk
    BY <1>1, ChunkFacts
  <2>2. \A i \in 1..Len(requested') : requested'[i] \in Chunk
    BY <1>4, <2>1, ElementOfSeq
  <2>3. requested' \in Seq(Chunk)
    BY <1>4, <2>2, OnlyThose
  <2>4. scenes' \in Nat
    BY <1>1
  <2>. QED
    BY <1>0, <1>1, <2>3, <2>4 DEF AdaTypes, pipeVars, gridVars
<1>6. ASSUME NEW b \in BoxNames, b # <<"requested", 0>> PROVE Box(b)' = <<>>
  <2>1. Box(b)' = Box(b)
    BY <1>1, <1>6, BoxNamed DEF Box, Plain, pipeVars, gridVars, Working
  <2>2. CASE b = <<"pending", 0>>
    BY <1>3, <2>1, <2>2, BoxContents
  <2>3. CASE b # <<"pending", 0>>
    BY <1>0, <2>1, <2>3, QuietBoxes
  <2>. QED
    BY <2>2, <2>3
<1>7. OneEach(Boxes', BoxNames, ChunksOf(scenes), {VbList(scenes)})
  <2>1. PICK D : D = Boxes'
    OBVIOUS
  <2>2. PICK r : r = <<"requested", 0>>
    OBVIOUS
  <2>3. /\ r \in BoxNames /\ D[r] = requested' /\ \A b \in BoxNames : b # r => D[b] = <<>>
    BY <1>6, <2>1, <2>2, BoxOf, BoxContentsNext, NamesAre DEF Plain
  <2>4. ASSUME NEW b \in BoxNames PROVE D[b] \in Seq(ChunksOf(scenes) \cup {VbList(scenes)})
    <3>1. \A i \in 1..Len(requested') : requested'[i] \in ChunksOf(scenes) \cup {VbList(scenes)}
      BY <1>4, ElementOfSeq
    <3>2. requested' \in Seq(ChunksOf(scenes) \cup {VbList(scenes)})
      BY <1>4, <3>1, OnlyThose
    <3>. QED
      BY <2>3, <3>2, EmptySeq
  <2>5. ASSUME NEW b \in BoxNames, NEW i \in 1..Len(D[b]) PROVE b = r /\ i \in 1..ChunkCount
    <3>1. b = r
      <4>. SUFFICES ASSUME b # r PROVE FALSE
        OBVIOUS
      <4>1. D[b] = <<>>
        BY <2>3
      <4>. QED
        BY <4>1, EmptySeq
    <3>. QED
      BY <1>4, <2>3, <3>1
  <2>6. \A i, j \in 1..ChunkCount : requested'[i] = requested'[j] => i = j
    <3>. SUFFICES ASSUME NEW i \in 1..ChunkCount, NEW j \in 1..ChunkCount,
                         requested'[i] = requested'[j]
                  PROVE  i = j
      OBVIOUS
    <3>1. chunk(i) = chunk(j)
      BY <1>4
    <3>2. chunk(i).chunk = i - 1 /\ chunk(j).chunk = j - 1
      OBVIOUS
    <3>3. i - 1 = j - 1
      <4>. HIDE DEF chunk
      <4>. QED
        BY <3>1, <3>2
    <3>. QED
      BY <3>3
  <2>7. ASSUME NEW b \in BoxNames, NEW d \in BoxNames, NEW i \in 1..Len(D[b]), NEW j \in 1..Len(D[d]),
               D[b][i] = D[d][j]
        PROVE  b = d /\ i = j
    <3>1. b = r /\ d = r /\ i \in 1..ChunkCount /\ j \in 1..ChunkCount
      BY <2>5
    <3>2. requested'[i] = requested'[j]
      BY <2>3, <2>7, <3>1
    <3>. QED
      BY <2>6, <3>1, <3>2
  <2>8. ASSUME NEW c \in ChunksOf(scenes) PROVE \E b \in BoxNames : \E i \in 1..Len(D[b]) : D[b][i] = c
    <3>1. PICK k \in 0..(ChunkCount - 1) : c = [scene |-> scenes, chunk |-> k]
      BY DEF ChunksOf
    <3>2. k + 1 \in 1..ChunkCount /\ (k + 1) - 1 = k
      BY AdaAssumption
    <3>3. chunk(k + 1) = c
      BY <3>1, <3>2
    <3>4. requested'[k + 1] = c
      BY <1>4, <3>2, <3>3
    <3>. QED
      BY <1>4, <2>3, <3>2, <3>4
  <2>. QED
    BY <2>1, <2>4, <2>7, <2>8 DEF OneEach
<1>8. Flying'
  <2>1. scenes' - 1 = scenes /\ scenes' - 2 = scenes - 1 /\ scenes' > 0
    BY <1>1
  <2>2. Pending' = <<>> /\ framePc' = "idle" /\ manager' = manager /\ merged' = merged
    BY <1>1, <1>3 DEF gridVars, Pending
  <2>3. Len(Pending') # ChunkCount
    BY <2>2, EmptySeq, AdaAssumption
  <2>. QED
    BY <1>3, <1>7, <2>1, <2>2, <2>3 DEF Flying
<1>9. MergeIsComplete'
  BY <1>1 DEF AdaInv, MergeIsComplete, gridVars
<1>. QED
  BY <1>5, <1>8, <1>9 DEF AdaInv

----------------------------------------------------------------------------
(* The invariant holds.                                                    *)

LEMMA AdaInitial == AdaInit => AdaInv
<1>. SUFFICES ASSUME AdaInit PROVE AdaInv
  OBVIOUS
<1>1. /\ scenes = 0 /\ requested = <<>> /\ compressed = <<>> /\ link = <<>> /\ arrived = <<>>
      /\ decoded = <<>> /\ vbLists = <<>> /\ framePc = "idle" /\ vbPc = Idle /\ merged = <<>>
      /\ compression = [w \in Workers(CompressWorkers) |-> [queue |-> <<>>, work |-> Idle]]
      /\ decompression = [w \in Workers(ChunkCount) |-> [queue |-> <<>>, work |-> Idle]]
  BY DEF AdaInit
<1>2. [queue |-> <<>>, work |-> Idle] \in AdaWorker
  BY EmptySeq DEF AdaWorker
<1>3. manager \in Managers /\ Pending = <<>> /\ manager.current_id = -1 /\ manager.last_processed = -1
  <2>1. <<>> \in Seq(Chunk) /\ <<>> \in Seq(List)
    BY EmptySeq
  <2>. QED
    BY <2>1 DEF AdaInit, Managers, Pending
<1>4. AdaTypes
  <2>1. /\ requested \in Seq(Chunk) /\ compressed \in Seq(Chunk) /\ arrived \in Seq(Chunk)
        /\ decoded \in Seq(Chunk) /\ link \in Seq(Chunk \cup List) /\ vbLists \in Seq(List)
        /\ merged \in Seq(Seq(Chunk)) /\ vbPc \in List
    BY <1>1, EmptySeq DEF Idle, List
  <2>. QED
    BY <1>1, <1>2, <1>3, <2>1 DEF AdaTypes
<1>5. ASSUME NEW b \in BoxNames PROVE Box(b) = <<>>
  <2>1. /\ \A w \in Workers(CompressWorkers) :
             compression[w].queue = <<>> /\ compression[w].work = Idle
        /\ \A w \in Workers(ChunkCount) :
             decompression[w].queue = <<>> /\ decompression[w].work = Idle
    BY <1>1
  <2>. QED
    BY <1>1, <1>3, <2>1, BoxNamed DEF Box, Plain, Working, Pending
<1>6. OneEach(Boxes, BoxNames, {}, {VbList(scenes - 1)})
  BY <1>5, BoxOf, EmptySeq DEF OneEach
<1>7. Landed
  BY <1>1, <1>3, <1>6, EmptySeq DEF Landed
<1>8. MergeIsComplete
  BY <1>1, EmptySeq DEF MergeIsComplete
<1>. QED
  BY <1>4, <1>7, <1>8 DEF AdaInv

LEMMA WorkStep ==
  ASSUME AdaInv,
         \/ \E w \in Workers(CompressWorkers) : Compress(w)
         \/ \E w \in Workers(ChunkCount) : Decompress(w)
  PROVE  AdaInv'
<1>0. AdaTypes
  BY DEF AdaInv
<1>1. ASSUME NEW w \in Workers(CompressWorkers), Compress(w) PROVE AdaInv'
  <2>1. UNCHANGED <<scenes, manager, framePc, merged>>
    BY <1>1 DEF Compress, gridVars
  <2>2. CASE /\ Dequeues(compression, w)
             /\ compression' = Dequeued(compression, w)
             /\ UNCHANGED compressed
    <3>1. /\ AdaTypes'
          /\ Moves(Boxes, Boxes', BoxNames, <<"compress_queue", w>>, <<"compress_work", w>>)
      BY <1>0, <1>1, <2>2, CompressTakes DEF Compress
    <3>. QED
      BY <2>1, <3>1, MoveStep
  <2>3. CASE /\ compression[w].work # Idle
             /\ compressed' = Append(compressed, compression[w].work)
             /\ compression' = Done(compression, w)
    <3>1. AdaTypes' /\ Moves(Boxes, Boxes', BoxNames, <<"compress_work", w>>, <<"compressed", 0>>)
      BY <1>0, <1>1, <2>3, CompressPuts DEF Compress
    <3>. QED
      BY <2>1, <3>1, MoveStep
  <2>. QED
    BY <1>1, <2>2, <2>3 DEF Compress
<1>2. ASSUME NEW w \in Workers(ChunkCount), Decompress(w) PROVE AdaInv'
  <2>1. UNCHANGED <<scenes, manager, framePc, merged>>
    BY <1>2 DEF Decompress, serverVars, gridVars
  <2>2. CASE /\ Dequeues(decompression, w)
             /\ decompression' = Dequeued(decompression, w)
             /\ UNCHANGED decoded
    <3>1. /\ AdaTypes'
          /\ Moves(Boxes, Boxes', BoxNames, <<"decompress_queue", w>>, <<"decompress_work", w>>)
      BY <1>0, <1>2, <2>2, DecompressTakes DEF Decompress
    <3>. QED
      BY <2>1, <3>1, MoveStep
  <2>3. CASE /\ decompression[w].work # Idle
             /\ decoded' = Append(decoded, decompression[w].work)
             /\ decompression' = Done(decompression, w)
    <3>1. AdaTypes' /\ Moves(Boxes, Boxes', BoxNames, <<"decompress_work", w>>, <<"decoded", 0>>)
      BY <1>0, <1>2, <2>3, DecompressPuts DEF Decompress
    <3>. QED
      BY <2>1, <3>1, MoveStep
  <2>. QED
    BY <1>2, <2>2, <2>3 DEF Decompress
<1>. QED
  BY <1>1, <1>2

LEMMA AdaStepKeeps == AdaInv /\ [AdaNext]_adaVars => AdaInv'
<1>. SUFFICES ASSUME AdaInv, [AdaNext]_adaVars PROVE AdaInv'
  OBVIOUS
<1>0. AdaTypes
  BY DEF AdaInv
<1>1. CASE RequestScene
  BY <1>1, RequestSceneStep
<1>2. CASE SendVbList
  BY <1>2, SendVbListStep
<1>3. CASE ProcessMesh
  <2>1. UNCHANGED <<scenes, manager, framePc, merged>>
    BY <1>3 DEF ProcessMesh, gridVars
  <2>2. PICK w : Moves(Boxes, Boxes', BoxNames, <<"requested", 0>>, <<"compress_queue", w>>)
    BY <1>0, <1>3, ProcessMeshMoves
  <2>. QED
    BY <1>0, <1>3, <2>1, <2>2, MoveStep, ProcessMeshMoves
<1>4. CASE SendSrOutput
  <2>1. UNCHANGED <<scenes, manager, framePc, merged>>
    BY <1>4 DEF SendSrOutput, gridVars
  <2>. QED
    BY <1>0, <1>4, <2>1, MoveStep, SendSrOutputMoves
<1>5. CASE ReceiveSrOutput
  BY <1>5, ReceiveSrOutputStep
<1>6. CASE ProcessFrame
  <2>1. UNCHANGED <<scenes, manager, framePc, merged>>
    BY <1>6 DEF ProcessFrame, serverVars, gridVars
  <2>2. PICK w : Moves(Boxes, Boxes', BoxNames, <<"arrived", 0>>, <<"decompress_queue", w>>)
    BY <1>0, <1>6, ProcessFrameMoves
  <2>. QED
    BY <1>0, <1>6, <2>1, <2>2, MoveStep, ProcessFrameMoves
<1>7. CASE \/ \E w \in Workers(CompressWorkers) : Compress(w)
           \/ \E w \in Workers(ChunkCount) : Decompress(w)
  BY <1>7, WorkStep
<1>8. CASE FrameArrives
  BY <1>8, FrameArrivesStep
<1>9. CASE FrameMerges
  BY <1>9, FrameMergesStep
<1>10. CASE FrameCleans \/ FrameLowers \/ FramePops
  BY <1>10, FrameCleansStep
<1>11. CASE FrameFinishes
  BY <1>11, FrameFinishesStep
<1>12. CASE VbArrives \/ VbCleans \/ VbPushes \/ VbRaises
  BY <1>12, VbStep
<1>13. CASE AdaFinished \/ UNCHANGED adaVars
  <2>1. UNCHANGED <<serverVars, link, pipeVars, vbLists, gridVars>>
    BY <1>13 DEF AdaFinished, adaVars
  <2>2. AdaTypes'
    BY <1>0, <2>1 DEF AdaTypes, serverVars, pipeVars, gridVars
  <2>. QED
    BY <2>1, <2>2, ManagerStep DEF serverVars, pipeVars, gridVars, Pending
<1>. QED
  BY <1>1, <1>2, <1>3, <1>4, <1>5, <1>6, <1>7, <1>8, <1>9, <1>10, <1>11, <1>12, <1>13
     DEF AdaNext, AdaStep

\* The inductive invariant of ADA's pipeline: a chunk of the scene under way is in exactly
\* one place, the manager counts those that have reached it, and no chunk is anywhere
\* between the merge of a scene and the request of the next.
THEOREM AdaInductive == AdaSpec => []AdaInv
BY AdaInitial, AdaStepKeeps, PTL DEF AdaSpec

\* scene_management merges whole scenes, for any number of chunks, of workers and any size
\* of their queues, in whatever order the workers of the two machines finish.
THEOREM AdaMerges == AdaSpec => []MergeIsComplete
<1>1. AdaInv => MergeIsComplete
  BY DEF AdaInv
<1>. QED
  BY <1>1, AdaInductive, PTL

----------------------------------------------------------------------------
(* The requests to clean.                                                  *)

PlaceNames == {"link", "topic", "callback", "requests", "done"}

Cleaning == IF vbPc = Idle \/ vbAt = "raise" THEN <<>> ELSE <<vbPc>>

Requests == manager.pending_clean_reqs

\* From the clean of a request to its pop_back.
Performing == framePc \in {"lower", "pop"}

\* The last request, unless it is being performed or late.
Asked ==
  IF Performing \/ Requests = <<>> \/ Last(Requests) \in late THEN <<>> ELSE <<Last(Requests)>>

Slots == [link |-> link, topic |-> vbLists, callback |-> Cleaning, requests |-> Asked,
          done |-> cleaned]

LEMMA SlotsAre ==
  /\ Slots["link"] = link /\ Slots["topic"] = vbLists /\ Slots["callback"] = Cleaning
  /\ Slots["requests"] = Asked /\ Slots["done"] = cleaned
BY DEF Slots

LEMMA SlotsAreNext ==
  /\ Slots'["link"] = link' /\ Slots'["topic"] = vbLists' /\ Slots'["callback"] = Cleaning'
  /\ Slots'["requests"] = Asked' /\ Slots'["done"] = cleaned'
BY DEF Slots

InTime == Published \ late
Beside == Chunk \cup late

LastList == VbList(scenes - 1)

\* Only the list of the last scene is on its way; the requests before the last are late.
OnlyTheLast ==
  /\ link \in Seq({LastList} \cup Chunk) /\ vbLists \in Seq({LastList} \cup Chunk)
  /\ vbPc # Idle => vbPc = LastList /\ vbPc \in Published
  /\ \A i \in 1..Len(Requests) :
       Requests[i] \in late \/ (i = Len(Requests) /\ Requests[i] = LastList)

\* What the two callbacks of scene_management share, without the chunks: a list that is
\* pushed in time is pushed before the flag is tested, and the flag is up or about to be.
ManagerOK ==
  /\ manager.mesh_processing <=> framePc # "idle"
  /\ vbPc # Idle /\ vbAt = "push" /\ vbPc \notin late => framePc \in {"merge", "clean"}
  /\ Asked # <<>> =>
       /\ framePc \in {"merge", "clean"}
       /\ manager.clean_waiting \/ (vbPc = Last(Requests) /\ vbAt = "raise")

One(P) == IF P THEN 1 ELSE 0

\* There is a request for each of the three that count on one: the list that was pushed and
\* has not raised the flag, the pop_back to come, the flag.
RequestsWait ==
  Len(Requests) >= One(vbPc # Idle /\ vbAt = "raise") + One(Performing)
                     + One(manager.clean_waiting /\ framePc # "lower")

\* Every list that was published in time is in one place, once, and nothing else is but
\* chunks and late lists.
RequestsInv ==
  /\ vbUnsent \in BOOLEAN /\ (vbUnsent => scenes > 0)
  /\ cleaned \in Seq(List) /\ late \subseteq Published
  /\ OneEach(Slots, PlaceNames, InTime, Beside)
  /\ OnlyTheLast
  /\ ManagerOK
  /\ RequestsWait

CleanInv == AdaInv /\ RequestsInv

\* Something new is put last in a place.
LEMMA NewAdded ==
  ASSUME NEW N, NEW S, NEW X, NEW B, NEW D, OneEach(B, N, S, X),
         NEW b1 \in N, NEW x, x \notin S \cup X,
         D[b1] = Append(B[b1], x), \A b \in N \ {b1} : D[b] = B[b]
  PROVE  OneEach(D, N, S \cup {x}, X)
<1>1. /\ \A b \in N : B[b] \in Seq(S \cup X)
      /\ \A c \in S : \E b \in N : \E i \in 1..Len(B[b]) : B[b][i] = c
  BY DEF OneEach
<1>2. PICK m \in Nat : m = Len(B[b1])
  BY <1>1, LenProperties
<1>3. \A b \in N : B[b] \in Seq(S \cup {x} \cup X)
  <2>1. Seq(S \cup X) \subseteq Seq(S \cup {x} \cup X)
    BY SeqMonotonic
  <2>. QED
    BY <1>1, <2>1
<1>4. /\ Len(D[b1]) = m + 1 /\ D[b1] \in Seq(S \cup {x} \cup X) /\ D[b1][m + 1] = x
      /\ \A i \in 1..m : D[b1][i] = B[b1][i]
  BY <1>2, <1>3, AppendProperties
<1>5. ASSUME NEW b \in N, NEW i \in 1..Len(D[b])
      PROVE  \/ i \in 1..Len(B[b]) /\ D[b][i] = B[b][i] /\ D[b][i] # x
             \/ b = b1 /\ i = m + 1 /\ D[b][i] = x
  <2>1. ASSUME i \in 1..Len(B[b]) PROVE B[b][i] # x
    <3>1. B[b][i] \in S \cup X
      BY <1>1, <2>1, ElementOfSeq
    <3>. QED
      BY <3>1
  <2>2. CASE b = b1
    <3>1. i \in 1..m \/ i = m + 1
      BY <1>4, <2>2
    <3>. QED
      BY <1>2, <1>4, <2>1, <2>2, <3>1
  <2>3. CASE b # b1
    BY <2>1, <2>3
  <2>. QED
    BY <2>2, <2>3
<1>6. ASSUME NEW b \in N, NEW i \in 1..Len(B[b])
      PROVE  i \in 1..Len(D[b]) /\ D[b][i] = B[b][i]
  <2>1. CASE b = b1
    <3>1. i \in 1..m /\ i \in 1..(m + 1)
      BY <1>2, <2>1
    <3>. QED
      BY <1>4, <2>1, <3>1
  <2>2. CASE b # b1
    BY <2>2
  <2>. QED
    BY <2>1, <2>2
<1>7. \A b \in N : D[b] \in Seq(S \cup {x} \cup X)
  BY <1>3, <1>4
<1>8. ASSUME NEW b \in N, NEW e \in N, NEW i \in 1..Len(D[b]), NEW k \in 1..Len(D[e]),
             D[b][i] \in S \cup {x}, D[b][i] = D[e][k]
      PROVE  b = e /\ i = k
  <2>1. CASE D[b][i] = x
    BY <1>5, <1>8, <2>1
  <2>2. CASE D[b][i] # x
    <3>1. i \in 1..Len(B[b]) /\ D[b][i] = B[b][i] /\ k \in 1..Len(B[e]) /\ D[e][k] = B[e][k]
      BY <1>5, <1>8, <2>2
    <3>2. B[b][i] \in S /\ B[b][i] = B[e][k]
      BY <1>8, <2>2, <3>1
    <3>. QED
      BY OnePlace, <3>1, <3>2
  <2>. QED
    BY <2>1, <2>2
<1>9. ASSUME NEW c \in S \cup {x} PROVE \E b \in N : \E i \in 1..Len(D[b]) : D[b][i] = c
  <2>1. CASE c = x
    <3>1. m + 1 \in 1..Len(D[b1])
      BY <1>4
    <3>. QED
      BY <1>4, <2>1, <3>1
  <2>2. CASE c \in S
    <3>1. PICK d \in N : \E j \in 1..Len(B[d]) : B[d][j] = c
      BY <1>1, <2>2
    <3>2. PICK j \in 1..Len(B[d]) : B[d][j] = c
      BY <3>1
    <3>. QED
      BY <1>6, <3>2
  <2>. QED
    BY <2>1, <2>2
<1>10. \A b \in N, e \in N : \A i \in 1..Len(D[b]) : \A k \in 1..Len(D[e]) :
         D[b][i] \in S \cup {x} /\ D[b][i] = D[e][k] => b = e /\ i = k
  BY <1>8
<1>11. \A c \in S \cup {x} : \E b \in N : \E i \in 1..Len(D[b]) : D[b][i] = c
  BY <1>9
<1>. QED
  BY <1>7, <1>10, <1>11, Zenon DEF OneEach

\* Some of those that are in one place each are counted among the others.
LEMMA SomeLate ==
  ASSUME NEW N, NEW S, NEW X, NEW B, NEW T, T \subseteq S \cup X, OneEach(B, N, S, X)
  PROVE  OneEach(B, N, S \ T, X \cup T)
<1>1. S \cup X = (S \ T) \cup (X \cup T)
  OBVIOUS
<1>. QED
  BY <1>1 DEF OneEach

\* A list is not a chunk, and Idle is not one that was published.
LEMMA ListsApart ==
  ASSUME scenes \in Nat, vbUnsent \in BOOLEAN
  PROVE  /\ Published \subseteq List /\ Idle \notin Published /\ Idle \in List
         /\ Published \cap Chunk = {} /\ List \cap Chunk = {}
<1>1. ASSUME NEW v \in Published PROVE v \in List /\ v.scene \in Nat
  <2>1. PICK s \in 0..(scenes - 1) : v = VbList(s)
    BY DEF Published
  <2>2. s \in Nat /\ VbList(s).scene = s
    BY DEF VbList
  <2>. QED
    BY <2>1, <2>2, ChunkFacts
<1>2. Idle \in List /\ Idle.scene = -1
  BY DEF Idle, List
<1>3. \A v \in List : v \notin Chunk
  BY ChunkFacts
<1>. QED
  BY <1>1, <1>2, <1>3

\* What is in a place, and what is where.
LEMMA SlotFacts ==
  ASSUME AdaTypes, RequestsInv
  PROVE  /\ scenes \in Nat /\ vbUnsent \in BOOLEAN
         /\ late \subseteq Published /\ Published \subseteq List /\ Idle \notin Published
         /\ InTime \cap Beside = {} /\ Idle \in List /\ List \cap Chunk = {}
         /\ \A p \in PlaceNames : Slots[p] \in Seq(Published \cup Chunk)
         /\ Requests \in Seq(List) /\ vbLists \in Seq(List) /\ vbPc \in List
<1>1. /\ scenes \in Nat /\ vbUnsent \in BOOLEAN /\ late \subseteq Published
      /\ Requests \in Seq(List) /\ vbLists \in Seq(List) /\ vbPc \in List
  BY DEF AdaTypes, RequestsInv, Managers, Requests
<1>2. InTime \cup Beside = Published \cup Chunk
  BY <1>1 DEF InTime, Beside
<1>3. \A p \in PlaceNames : Slots[p] \in Seq(Published \cup Chunk)
  BY <1>2 DEF RequestsInv, OneEach
<1>4. InTime \cap Beside = {}
  BY <1>1, ListsApart DEF InTime, Beside
<1>. QED
  BY <1>1, <1>3, <1>4, ListsApart

\* The last of the requests, and the others.
LEMMA LastAsked ==
  ASSUME AdaTypes, RequestsInv, Requests # <<>>
  PROVE  /\ Len(Requests) \in Nat /\ Len(Requests) >= 1
         /\ Last(Requests) = Requests[Len(Requests)]
         /\ Last(Requests) \in List
         /\ Last(Requests) \in late \/ Last(Requests) = LastList
         /\ Asked # <<>> => Asked = <<Last(Requests)>> /\ Last(Requests) \in InTime
<1>1. Len(Requests) \in Nat /\ Len(Requests) # 0 /\ Requests \in Seq(List)
  BY SlotFacts, LenProperties, EmptySeq
<1>2. Len(Requests) \in 1..Len(Requests)
  BY <1>1
<1>3. Last(Requests) = Requests[Len(Requests)]
  BY DEF Last
<1>4. Last(Requests) \in List
  BY <1>1, <1>2, <1>3, ElementOfSeq
<1>5. Last(Requests) \in late \/ Last(Requests) = LastList
  BY <1>2, <1>3 DEF RequestsInv, OnlyTheLast
<1>6. ASSUME Asked # <<>> PROVE Asked = <<Last(Requests)>> /\ Last(Requests) \in InTime
  <2>1. Asked = <<Last(Requests)>> /\ Last(Requests) \notin late
    BY <1>6 DEF Asked
  <2>2. PICK s \in Seq(Published \cup Chunk) : s = Asked
    BY SlotFacts, SlotsAre DEF PlaceNames
  <2>3. Last(Requests) \in Published \cup Chunk
    <3>1. Len(s) = 1 /\ s[1] = Last(Requests)
      BY <2>1, <2>2
    <3>2. 1 \in 1..Len(s)
      BY <3>1
    <3>. QED
      BY <3>1, <3>2, ElementOfSeq
  <2>. QED
    BY <1>4, <2>1, <2>3, SlotFacts DEF InTime
<1>. QED
  BY <1>1, <1>3, <1>4, <1>5, <1>6

\* A step that moves no list.
LEMMA RequestsKept ==
  ASSUME RequestsInv, Slots' = Slots, UNCHANGED <<scenes, vbUnsent, cleaned, late>>,
         OnlyTheLast', ManagerOK', RequestsWait'
  PROVE  RequestsInv'
<1>1. Published' = Published /\ InTime' = InTime /\ Beside' = Beside
  BY DEF Published, InTime, Beside
<1>2. OneEach(Slots', PlaceNames, InTime', Beside')
  BY <1>1 DEF RequestsInv
<1>. QED
  BY <1>1, <1>2 DEF RequestsInv

\* A list that goes from the front of one place to the end of another.
LEMMA ListMoves ==
  ASSUME RequestsInv, UNCHANGED <<scenes, vbUnsent, late>>, cleaned' \in Seq(List),
         OnlyTheLast', ManagerOK', RequestsWait',
         NEW b1, NEW b2, Moves(Slots, Slots', PlaceNames, b1, b2)
  PROVE  RequestsInv'
<1>1. Published' = Published /\ InTime' = InTime /\ Beside' = Beside
  BY DEF Published, InTime, Beside
<1>2. OneEach(Slots', PlaceNames, InTime', Beside')
  BY <1>1, MovesKeep DEF RequestsInv
<1>. QED
  BY <1>1, <1>2 DEF RequestsInv

LEMMA GridKept ==
  ASSUME RequestsInv, UNCHANGED gridVars
  PROVE  /\ ManagerOK' /\ RequestsWait' /\ cleaned' = cleaned /\ late' = late
         /\ Cleaning' = Cleaning /\ Asked' = Asked /\ Requests' = Requests /\ vbPc' = vbPc
BY DEF gridVars, RequestsInv, ManagerOK, RequestsWait, Asked, Cleaning, Performing, Requests

LEMMA OnlyTheLastKept ==
  ASSUME RequestsInv, scenes' = scenes, vbUnsent' = vbUnsent, vbPc' = vbPc,
         Requests' = Requests, late \subseteq late',
         link' \in Seq({LastList} \cup Chunk), vbLists' \in Seq({LastList} \cup Chunk)
  PROVE  OnlyTheLast'
BY DEF RequestsInv, OnlyTheLast, LastList, Published

LEMMA SendVbListRequests ==
  ASSUME AdaTypes, RequestsInv, SendVbList
  PROVE  RequestsInv'
<1>1. /\ vbUnsent /\ vbUnsent' = FALSE /\ scenes \in Nat /\ scenes > 0
      /\ link' = Append(link, VbList(scenes - 1))
      /\ UNCHANGED <<scenes, vbLists, gridVars>>
  BY DEF SendVbList, AdaTypes, RequestsInv, pipeVars
<1>2. PICK x : x = VbList(scenes - 1)
  OBVIOUS
<1>3. x \in List /\ x.scene = scenes - 1
  <2>1. scenes - 1 \in {-1} \cup Nat
    BY <1>1
  <2>. QED
    BY <1>2, <2>1, ChunkFacts DEF VbList
<1>4. Published' = Published \cup {x}
  <2>1. Published = {VbList(s) : s \in 0..(scenes - 2)}
    <3>1. {t \in 0..(scenes - 1) : vbUnsent => t < scenes - 1} = 0..(scenes - 2)
      BY <1>1
    <3>. QED
      BY <3>1 DEF Published
  <2>2. Published' = {VbList(s) : s \in 0..(scenes - 1)}
    <3>1. {t \in 0..(scenes' - 1) : vbUnsent' => t < scenes' - 1} = 0..(scenes - 1)
      BY <1>1
    <3>. QED
      BY <3>1 DEF Published
  <2>3. 0..(scenes - 1) = 0..(scenes - 2) \cup {scenes - 1}
    BY <1>1
  <2>. QED
    BY <1>2, <2>1, <2>2, <2>3
<1>5. x \notin Published \cup Chunk
  <2>1. x \notin Chunk
    BY <1>3, ChunkFacts
  <2>2. ASSUME NEW s \in 0..(scenes - 1), vbUnsent => s < scenes - 1 PROVE VbList(s) # x
    <3>1. s # scenes - 1
      BY <1>1, <2>2
    <3>2. VbList(s).scene = s
      BY DEF VbList
    <3>. QED
      BY <1>3, <3>1, <3>2
  <2>. QED
    BY <2>1, <2>2 DEF Published
<1>6. PICK B : B = Slots
  OBVIOUS
<1>7. PICK D : D = Slots'
  OBVIOUS
<1>8. /\ "link" \in PlaceNames /\ D["link"] = Append(B["link"], x)
      /\ \A b \in PlaceNames \ {"link"} : D[b] = B[b]
  BY <1>1, <1>2, <1>6, <1>7, SlotsAre, SlotsAreNext, GridKept DEF PlaceNames
<1>9. late \subseteq Published /\ late' = late /\ InTime' = InTime \cup {x} /\ Beside' = Beside
      /\ x \notin InTime \cup Beside
  BY <1>1, <1>4, <1>5, GridKept DEF RequestsInv, InTime, Beside
<1>10. OneEach(D, PlaceNames, InTime', Beside')
  <2>1. OneEach(B, PlaceNames, InTime, Beside)
    BY <1>6 DEF RequestsInv
  <2>. QED
    BY <1>8, <1>9, <2>1, NewAdded
<1>11. OnlyTheLast'
  <2>1. link' \in Seq({x} \cup Chunk)
    BY <1>1, <1>2, AppendProperties DEF RequestsInv, OnlyTheLast, LastList
  <2>2. vbPc' = vbPc /\ Requests' = Requests
    BY <1>1, GridKept
  <2>. QED
    BY <1>1, <1>2, <1>4, <1>9, <2>1, <2>2 DEF RequestsInv, OnlyTheLast, LastList
<1>. QED
  BY <1>1, <1>4, <1>7, <1>9, <1>10, <1>11, GridKept DEF RequestsInv

LEMMA SendSrOutputRequests ==
  ASSUME AdaTypes, RequestsInv, SendSrOutput
  PROVE  RequestsInv'
<1>1. /\ link' = Append(link, Head(compressed)) /\ scenes \in Nat
      /\ UNCHANGED <<scenes, vbUnsent, vbLists, gridVars>>
  BY DEF SendSrOutput, AdaTypes
<1>2. PICK x \in Chunk : x = Head(compressed)
  BY HeadTailProperties DEF SendSrOutput, AdaTypes
<1>3. PICK B : B = Slots
  OBVIOUS
<1>4. PICK D : D = Slots'
  OBVIOUS
<1>5. /\ "link" \in PlaceNames /\ D["link"] = Append(B["link"], x)
      /\ \A b \in PlaceNames \ {"link"} : D[b] = B[b]
  BY <1>1, <1>2, <1>3, <1>4, SlotsAre, SlotsAreNext, GridKept DEF PlaceNames
<1>6. OneEach(D, PlaceNames, InTime, Beside)
  <2>1. OneEach(B, PlaceNames, InTime, Beside) /\ InTime \cap Beside = {} /\ x \in Beside
    BY <1>1, <1>3, SlotFacts DEF RequestsInv, Beside
  <2>. QED
    BY <1>5, <2>1, OtherAdded
<1>7. Published' = Published /\ InTime' = InTime /\ Beside' = Beside
  BY <1>1, GridKept DEF Published, InTime, Beside
<1>8. OnlyTheLast'
  <2>1. link' \in Seq({LastList} \cup Chunk) /\ vbLists' \in Seq({LastList} \cup Chunk)
    BY <1>1, <1>2, AppendProperties DEF RequestsInv, OnlyTheLast
  <2>. QED
    BY <1>1, <2>1, GridKept, OnlyTheLastKept
<1>. QED
  BY <1>1, <1>4, <1>6, <1>7, <1>8, GridKept DEF RequestsInv

LEMMA ReceiveSrOutputRequests ==
  ASSUME AdaTypes, RequestsInv, ReceiveSrOutput
  PROVE  RequestsInv'
<1>1. /\ link \in Seq(Chunk \cup List) /\ link # <<>> /\ link' = Tail(link)
      /\ UNCHANGED <<scenes, vbUnsent, gridVars>> /\ scenes \in Nat
  BY DEF AdaTypes, ReceiveSrOutput, serverVars
<1>2. Head(link) \in Chunk \cup List
  BY <1>1, HeadTailProperties
<1>3. PICK B : B = Slots
  OBVIOUS
<1>4. PICK D : D = Slots'
  OBVIOUS
<1>5. OnlyTheLast'
  <2>1. PICK T : T = {LastList} \cup Chunk
    OBVIOUS
  <2>2. link \in Seq(T) /\ vbLists \in Seq(T)
    BY <2>1 DEF RequestsInv, OnlyTheLast
  <2>3. link' \in Seq(T) /\ Head(link) \in T
    BY <1>1, <2>2, HeadTailProperties
  <2>4. vbLists' \in Seq(T)
    <3>1. vbLists' = vbLists \/ vbLists' = Append(vbLists, Head(link))
      BY DEF ReceiveSrOutput
    <3>2. Append(vbLists, Head(link)) \in Seq(T)
      BY <2>2, <2>3, AppendProperties
    <3>. QED
      BY <2>2, <3>1, <3>2
  <2>. QED
    BY <1>1, <2>1, <2>3, <2>4, GridKept, OnlyTheLastKept
<1>6. CASE Head(link) \in Chunk
  <2>1. vbLists' = vbLists
    BY <1>6, ChunkFacts DEF ReceiveSrOutput
  <2>2. /\ "link" \in PlaceNames /\ B["link"] # <<>> /\ D["link"] = Tail(B["link"])
        /\ \A b \in PlaceNames \ {"link"} : D[b] = B[b]
        /\ Head(B["link"]) \in Chunk
    BY <1>1, <1>3, <1>4, <1>6, <2>1, SlotsAre, SlotsAreNext, GridKept DEF PlaceNames
  <2>3. OneEach(D, PlaceNames, InTime, Beside)
    <3>1. OneEach(B, PlaceNames, InTime, Beside) /\ Head(B["link"]) \notin InTime
      BY <1>3, <2>2, SlotFacts DEF RequestsInv, Beside
    <3>. QED
      BY <2>2, <3>1, OtherTaken
  <2>4. Published' = Published /\ InTime' = InTime /\ Beside' = Beside
    BY <1>1, GridKept DEF Published, InTime, Beside
  <2>. QED
    BY <1>1, <1>4, <1>5, <2>3, <2>4, GridKept DEF RequestsInv
<1>7. CASE Head(link) \in List
  <2>1. vbLists' = Append(vbLists, Head(link))
    BY <1>7, ChunkFacts DEF ReceiveSrOutput
  <2>2. Moves(B, D, PlaceNames, "link", "topic")
    BY <1>1, <1>3, <1>4, <2>1, SlotsAre, SlotsAreNext, GridKept DEF PlaceNames, Moves
  <2>. QED
    BY <1>1, <1>3, <1>4, <1>5, <2>2, ListMoves, GridKept DEF RequestsInv
<1>. QED
  BY <1>2, <1>6, <1>7

----------------------------------------------------------------------------
(* There is a request for whoever counts on one.                           *)

LEMMA CallbackWaits ==
  ASSUME AdaTypes, RequestsWait, VbArrives \/ VbCleans \/ VbPushes \/ VbRaises
  PROVE  RequestsWait'
<1>1. /\ manager \in Managers /\ Len(Requests) \in Nat /\ framePc' = framePc /\ vbPc \in List
  BY LenProperties DEF AdaTypes, Managers, Requests, VbArrives, VbCleans, VbPushes, VbRaises
<1>2. CASE VbArrives \/ VbCleans
  BY <1>1, <1>2 DEF VbArrives, VbCleans, RequestsWait, One, Performing, Requests
<1>3. CASE VbPushes
  <2>1. PICK q \in Seq(List) : q = Append(Requests, vbPc) /\ Len(q) = Len(Requests) + 1
    <3>1. Requests \in Seq(List)
      BY <1>1 DEF Managers, Requests
    <3>. QED
      BY <1>1, <3>1, AppendProperties
  <2>2. manager' = [manager EXCEPT !.pending_clean_reqs = q]
    BY <1>3, <2>1, Zenon DEF VbPushes, Requests
  <2>3. Requests' = q /\ manager'.clean_waiting = manager.clean_waiting
    BY <1>1, <2>2 DEF Managers, Requests
  <2>4. vbPc # Idle /\ vbAt = "push" /\ vbPc' = vbPc /\ vbAt' = "raise"
    BY <1>3 DEF VbPushes
  <2>. QED
    BY <1>1, <2>1, <2>3, <2>4 DEF RequestsWait, One, Performing
<1>4. CASE VbRaises
  <2>1. Requests' = Requests /\ vbPc # Idle /\ vbAt = "raise" /\ vbPc' = Idle
    BY <1>1, <1>4 DEF VbRaises, Raised, Managers, Requests
  <2>. QED
    BY <1>1, <2>1 DEF RequestsWait, One, Performing
<1>. QED
  BY <1>2, <1>3, <1>4

\* The front of a sequence, and what becomes its last.
LEMMA FrontFacts ==
  ASSUME NEW T, NEW r \in Seq(T), r # <<>>
  PROVE  /\ Front(r) \in Seq(T) /\ Len(r) \in Nat /\ Len(Front(r)) = Len(r) - 1
         /\ \A i \in 1..Len(Front(r)) : i \in 1..Len(r) /\ i # Len(r) /\ Front(r)[i] = r[i]
<1>1. Len(r) \in Nat /\ Len(r) # 0
  BY LenProperties, EmptySeq
<1>2. Front(r) = SubSeq(r, 1, Len(r) - 1)
  BY DEF Front
<1>3. PICK k \in Nat : k = Len(r) - 1
  BY <1>1
<1>4. \A i \in 1..k : i \in 1..Len(r) /\ i # Len(r) /\ 1 + i - 1 = i
  BY <1>1, <1>3
<1>5. \A i \in 1..k : r[i] \in T
  BY <1>4, ElementOfSeq
<1>6. /\ SubSeq(r, 1, k) \in Seq(T)
      /\ Len(SubSeq(r, 1, k)) = IF 1 <= k THEN k - 1 + 1 ELSE 0
      /\ \A i \in 1..(k - 1 + 1) : SubSeq(r, 1, k)[i] = r[1 + i - 1]
  BY <1>5, SubSeqProperties
<1>7. (IF 1 <= k THEN k - 1 + 1 ELSE 0) = k /\ k - 1 + 1 = k
  OBVIOUS
<1>8. \A i \in 1..k : SubSeq(r, 1, k)[i] = r[i]
  BY <1>4, <1>6, <1>7
<1>. QED
  BY <1>1, <1>2, <1>3, <1>4, <1>6, <1>7, <1>8

LEMMA FrameWaits ==
  ASSUME AdaTypes, RequestsWait, FrameCleans \/ FrameLowers \/ FramePops
  PROVE  RequestsWait'
<1>1. /\ manager \in Managers /\ Requests \in Seq(List) /\ Len(Requests) \in Nat
      /\ vbPc' = vbPc /\ vbAt' = vbAt
  BY LenProperties DEF AdaTypes, Managers, Requests, FrameCleans, FrameLowers, FramePops
<1>2. CASE FrameCleans
  BY <1>1, <1>2 DEF FrameCleans, RequestsWait, One, Performing, Requests
<1>3. CASE FrameLowers
  <2>1. /\ Requests' = Requests /\ manager'.clean_waiting = FALSE
        /\ framePc = "lower" /\ framePc' = "pop"
    BY <1>1, <1>3 DEF FrameLowers, Managers, Requests
  <2>. QED
    BY <1>1, <2>1 DEF RequestsWait, One, Performing
<1>4. CASE FramePops
  <2>1. framePc = "pop" /\ framePc' = "finish"
    BY <1>4 DEF FramePops
  <2>2. Requests # <<>>
    BY <1>1, <2>1 DEF RequestsWait, One, Performing
  <2>3. PICK q \in Seq(List) : q = Front(Requests) /\ Len(q) = Len(Requests) - 1
    BY <1>1, <2>2, FrontFacts
  <2>4. manager' = [manager EXCEPT !.pending_clean_reqs = q]
    BY <1>4, <2>3, Zenon DEF FramePops, Performed, Requests
  <2>5. Requests' = q /\ manager'.clean_waiting = manager.clean_waiting
    BY <1>1, <2>4 DEF Managers, Requests
  <2>. QED
    BY <1>1, <2>1, <2>3, <2>5 DEF RequestsWait, One, Performing
<1>. QED
  BY <1>2, <1>3, <1>4

----------------------------------------------------------------------------
(* The lists in the hands of scene_management.                             *)

LEMMA VbArrivesRequests ==
  ASSUME AdaTypes, RequestsInv, VbArrives
  PROVE  RequestsInv'
<1>1. /\ vbPc = Idle /\ vbLists # <<>> /\ vbLists' = Tail(vbLists)
      /\ UNCHANGED <<scenes, vbUnsent, link, cleaned, framePc, manager>>
      /\ vbAt' = IF manager.mesh_processing THEN "push" ELSE "clean"
      /\ late' = IF manager.mesh_processing /\ framePc \in {"lower", "pop", "finish"}
                 THEN late \cup {Head(vbLists)} ELSE late
      /\ framePc \in {"idle", "merge", "clean", "lower", "pop", "finish"}
  BY DEF AdaTypes, VbArrives, serverVars
<1>2. PICK x \in List : x = Head(vbLists)
  BY <1>1, SlotFacts, HeadTailProperties
<1>3. PICK B : B = Slots
  OBVIOUS
<1>4. PICK D : D = Slots'
  OBVIOUS
<1>5. x \in Published /\ x # Idle /\ vbPc' = x
  <2>1. vbLists \in Seq(Published \cup Chunk)
    BY SlotFacts, SlotsAre DEF PlaceNames
  <2>2. x \in Published \cup Chunk
    BY <1>1, <1>2, <2>1, HeadTailProperties
  <2>. QED
    BY <1>1, <1>2, <2>2, SlotFacts DEF VbArrives
<1>6. Published' = Published /\ Requests' = Requests
  BY <1>1 DEF Published, Requests
<1>7. OnlyTheLast'
  <2>1. PICK T : T = {LastList} \cup Chunk
    OBVIOUS
  <2>2. vbLists \in Seq(T) /\ link \in Seq(T)
    BY <2>1 DEF RequestsInv, OnlyTheLast
  <2>3. vbLists' \in Seq(T) /\ x \in T
    BY <1>1, <1>2, <2>2, HeadTailProperties
  <2>4. x = LastList
    BY <1>2, <2>1, <2>3, SlotFacts
  <2>5. late \subseteq late' /\ LastList' = LastList
    BY <1>1 DEF LastList
  <2>. QED
    BY <1>1, <1>5, <1>6, <2>1, <2>2, <2>3, <2>4, <2>5 DEF RequestsInv, OnlyTheLast
<1>8. Asked' = Asked
  <2>1. CASE late' = late
    BY <1>1, <1>6, <2>1 DEF Asked, Performing
  <2>2. CASE late' # late
    <3>1. framePc \in {"lower", "pop", "finish"} /\ late \subseteq late'
      BY <1>1, <2>2
    <3>2. Asked = <<>>
      BY <3>1 DEF RequestsInv, ManagerOK
    <3>. QED
      BY <1>1, <1>6, <3>1, <3>2 DEF Asked, Performing
  <2>. QED
    BY <2>1, <2>2
<1>9. Moves(B, D, PlaceNames, "topic", "callback")
  <2>1. Cleaning = <<>> /\ Cleaning' = Append(<<>>, x)
    BY <1>1, <1>5 DEF Cleaning
  <2>. QED
    BY <1>1, <1>2, <1>3, <1>4, <1>8, <2>1, SlotsAre, SlotsAreNext DEF PlaceNames, Moves
<1>10. OneEach(D, PlaceNames, InTime', Beside')
  <2>1. OneEach(D, PlaceNames, InTime, Beside)
    BY <1>3, <1>9, MovesKeep DEF RequestsInv
  <2>2. PICK T : T = late' \ late
    OBVIOUS
  <2>3. late' = late \cup T /\ T \subseteq {x}
    BY <1>1, <1>2, <2>2
  <2>4. T \subseteq InTime \cup Beside
    BY <1>5, <2>3 DEF InTime, Beside
  <2>5. InTime' = InTime \ T /\ Beside' = Beside \cup T
    BY <1>6, <2>3 DEF InTime, Beside
  <2>. QED
    BY <2>1, <2>4, <2>5, SomeLate
<1>11. ManagerOK'
  <2>1. vbAt' = "push" /\ x \notin late' => framePc \in {"merge", "clean"}
    BY <1>1, <1>2 DEF RequestsInv, ManagerOK
  <2>2. Asked # <<>> => framePc \in {"merge", "clean"} /\ manager.clean_waiting
    <3>1. ASSUME Asked # <<>> PROVE vbPc # Last(Requests)
      <4>1. Requests # <<>>
        BY <3>1 DEF Asked
      <4>. QED
        BY <1>1, <3>1, <4>1, LastAsked, SlotFacts DEF InTime
    <3>. QED
      BY <3>1 DEF RequestsInv, ManagerOK
  <2>. QED
    BY <1>1, <1>5, <1>6, <1>8, <2>1, <2>2 DEF RequestsInv, ManagerOK
<1>12. late' \subseteq Published'
  BY <1>1, <1>2, <1>5, <1>6 DEF RequestsInv
<1>13. RequestsWait'
  BY CallbackWaits DEF RequestsInv
<1>. QED
  BY <1>1, <1>4, <1>7, <1>10, <1>11, <1>12, <1>13 DEF RequestsInv

LEMMA VbCleansRequests ==
  ASSUME AdaTypes, RequestsInv, VbCleans
  PROVE  RequestsInv'
<1>1. /\ vbPc # Idle /\ vbPc' = Idle /\ cleaned' = Append(cleaned, vbPc) /\ vbAt = "clean"
      /\ UNCHANGED <<scenes, vbUnsent, link, vbLists, manager, framePc, late>>
  BY DEF VbCleans, serverVars
<1>2. cleaned' \in Seq(List)
  BY <1>1, SlotFacts, AppendProperties DEF RequestsInv
<1>3. PICK B : B = Slots
  OBVIOUS
<1>4. PICK D : D = Slots'
  OBVIOUS
<1>5. Asked' = Asked /\ Requests' = Requests
  BY <1>1 DEF Asked, Performing, Requests
<1>6. /\ B["callback"] = <<vbPc>> /\ D["callback"] = <<>>
      /\ Head(<<vbPc>>) = vbPc /\ Tail(<<vbPc>>) = <<>> /\ <<vbPc>> # <<>>
  BY <1>1, <1>3, <1>4, SlotsAre, SlotsAreNext DEF Cleaning
<1>7. Moves(B, D, PlaceNames, "callback", "done")
  BY <1>1, <1>3, <1>4, <1>5, <1>6, SlotsAre, SlotsAreNext DEF PlaceNames, Moves
<1>8. OnlyTheLast'
  BY <1>1, <1>5 DEF RequestsInv, OnlyTheLast, LastList
<1>9. ManagerOK'
  BY <1>1, <1>5 DEF RequestsInv, ManagerOK
<1>10. RequestsWait'
  BY CallbackWaits DEF RequestsInv
<1>. QED
  BY <1>1, <1>2, <1>3, <1>4, <1>7, <1>8, <1>9, <1>10, ListMoves

\* A list that is pushed in time is alone to be.
LEMMA VbPushesRequests ==
  ASSUME AdaTypes, RequestsInv, VbPushes
  PROVE  RequestsInv'
<1>1. /\ vbPc # Idle /\ vbAt = "push" /\ vbAt' = "raise" /\ vbPc' = vbPc
      /\ UNCHANGED <<scenes, vbUnsent, link, vbLists, framePc, cleaned, late>>
      /\ vbPc = LastList /\ vbPc \in Published /\ Cleaning = <<vbPc>> /\ Cleaning' = <<>>
  BY DEF VbPushes, serverVars, RequestsInv, OnlyTheLast, Cleaning
<1>2. PICK q \in Seq(List) : q = Append(Requests, vbPc)
  BY SlotFacts, AppendProperties
<1>3. /\ Requests' = q /\ manager'.clean_waiting = manager.clean_waiting
      /\ manager'.mesh_processing = manager.mesh_processing
  <2>1. manager' = [manager EXCEPT !.pending_clean_reqs = q]
    BY <1>2, Zenon DEF VbPushes, Requests
  <2>. QED
    BY <2>1 DEF AdaTypes, Managers, Requests
<1>4. PICK n \in Nat : n = Len(Requests)
  BY SlotFacts, LenProperties
<1>5. /\ Len(q) = n + 1 /\ q[n + 1] = vbPc /\ \A i \in 1..n : q[i] = Requests[i]
      /\ q # <<>> /\ Last(q) = vbPc
  <2>1. Len(q) = n + 1 /\ q[n + 1] = vbPc /\ \A i \in 1..n : q[i] = Requests[i]
    BY <1>2, <1>4, SlotFacts, AppendProperties
  <2>. QED
    BY <2>1 DEF Last
<1>6. PICK B : B = Slots
  OBVIOUS
<1>7. PICK D : D = Slots'
  OBVIOUS
<1>8. /\ \A p \in PlaceNames : B[p] = Slots[p] /\ D[p] = Slots'[p]
      /\ \A p \in PlaceNames \ {"callback", "requests"} : D[p] = B[p]
      /\ B["callback"] = <<vbPc>> /\ D["callback"] = <<>>
      /\ B["requests"] = Asked /\ D["requests"] = Asked'
  BY <1>1, <1>6, <1>7, SlotsAre, SlotsAreNext DEF PlaceNames
<1>9. Head(<<vbPc>>) = vbPc /\ Tail(<<vbPc>>) = <<>> /\ <<vbPc>> # <<>> /\ Len(<<vbPc>>) = 1
      /\ <<vbPc>>[1] = vbPc
  OBVIOUS
<1>10. Published' = Published /\ InTime' = InTime /\ Beside' = Beside /\ LastList' = LastList
  BY <1>1 DEF Published, InTime, Beside, LastList
<1>11. RequestsWait'
  BY CallbackWaits DEF RequestsInv
<1>12. CASE vbPc \in late
  <2>1. Asked = <<>>
    <3>. SUFFICES ASSUME Asked # <<>> PROVE FALSE
      OBVIOUS
    <3>1. Requests # <<>>
      BY DEF Asked
    <3>2. Last(Requests) \in late
      BY <1>1, <1>12, <3>1, LastAsked
    <3>. QED
      BY <3>2 DEF Asked
  <2>2. Asked' = <<>>
    BY <1>1, <1>3, <1>5, <1>12 DEF Asked
  <2>3. OneEach(D, PlaceNames, InTime, Beside)
    <3>1. OneEach(B, PlaceNames, InTime, Beside) /\ vbPc \notin InTime
      BY <1>6, <1>12 DEF RequestsInv, InTime
    <3>2. /\ "callback" \in PlaceNames /\ B["callback"] # <<>> /\ Head(B["callback"]) \notin InTime
          /\ D["callback"] = Tail(B["callback"])
          /\ \A b \in PlaceNames \ {"callback"} : D[b] = B[b]
      BY <1>8, <1>9, <2>1, <2>2, <3>1 DEF PlaceNames
    <3>. QED
      BY <3>1, <3>2, OtherTaken
  <2>4. OnlyTheLast'
    <3>1. ASSUME NEW i \in 1..Len(q) PROVE q[i] \in late
      <4>1. i \in 1..n \/ i = n + 1
        BY <1>5
      <4>. QED
        BY <1>1, <1>4, <1>5, <1>12, <4>1 DEF RequestsInv, OnlyTheLast
    <3>. QED
      BY <1>1, <1>3, <1>10, <3>1 DEF RequestsInv, OnlyTheLast
  <2>5. ManagerOK'
    BY <1>1, <1>3, <2>2 DEF RequestsInv, ManagerOK
  <2>. QED
    BY <1>1, <1>7, <1>10, <1>11, <2>3, <2>4, <2>5 DEF RequestsInv
<1>13. CASE vbPc \notin late
  <2>1. framePc \in {"merge", "clean"} /\ vbPc \in InTime
    BY <1>1, <1>13 DEF RequestsInv, ManagerOK, InTime
  <2>2. Asked = <<>>
    <3>. SUFFICES ASSUME Asked # <<>> PROVE FALSE
      OBVIOUS
    <3>1. Requests # <<>>
      BY DEF Asked
    <3>2. Asked = <<vbPc>>
      BY <1>1, <3>1, LastAsked DEF InTime
    <3>3. /\ OneEach(B, PlaceNames, InTime, Beside) /\ "callback" \in PlaceNames
          /\ "requests" \in PlaceNames /\ B["requests"] = <<vbPc>>
      BY <1>6, <1>8, <3>2 DEF RequestsInv, PlaceNames
    <3>4. 1 \in 1..Len(B["callback"]) /\ 1 \in 1..Len(B["requests"])
      BY <1>8, <1>9, <3>3
    <3>5. B["callback"][1] = vbPc /\ B["requests"][1] = vbPc
      BY <1>8, <1>9, <3>3
    <3>6. "callback" = "requests"
      <4>1. \A b \in PlaceNames, d \in PlaceNames : \A i \in 1..Len(B[b]) : \A j \in 1..Len(B[d]) :
              B[b][i] \in InTime /\ B[b][i] = B[d][j] => b = d /\ i = j
        BY <3>3 DEF OneEach
      <4>2. \A i \in 1..Len(B["callback"]) : \A j \in 1..Len(B["requests"]) :
              B["callback"][i] \in InTime /\ B["callback"][i] = B["requests"][j]
                => "callback" = "requests"
        BY <3>3, <4>1, Zenon
      <4>. QED
        BY <2>1, <3>4, <3>5, <4>2, Zenon
    <3>. QED
      BY <3>6
  <2>3. Asked' = Append(Asked, vbPc)
    <3>1. Asked' = <<vbPc>>
      BY <1>1, <1>3, <1>5, <1>13, <2>1 DEF Asked, Performing
    <3>. QED
      BY <2>2, <3>1
  <2>4. Moves(B, D, PlaceNames, "callback", "requests")
    <3>1. <<>> \in Seq(List)
      OBVIOUS
    <3>. QED
      BY <1>8, <1>9, <2>3 DEF PlaceNames, Moves
  <2>5. OnlyTheLast'
    <3>1. \A i \in 1..n : Requests[i] \in late
      <4>1. CASE Requests = <<>>
        BY <1>4, <4>1
      <4>2. CASE Requests # <<>>
        <5>1. Last(Requests) \in late
          BY <2>1, <2>2, <4>2 DEF Asked, Performing
        <5>. QED
          BY <1>4, <4>2, <5>1, LastAsked DEF RequestsInv, OnlyTheLast
      <4>. QED
        BY <4>1, <4>2
    <3>2. ASSUME NEW i \in 1..Len(q) PROVE q[i] \in late \/ (i = Len(q) /\ q[i] = LastList)
      <4>1. i \in 1..n \/ i = n + 1
        BY <1>5
      <4>. QED
        BY <1>1, <1>5, <3>1, <4>1
    <3>. QED
      BY <1>1, <1>3, <1>10, <3>2 DEF RequestsInv, OnlyTheLast
  <2>6. ManagerOK'
    BY <1>1, <1>3, <1>5, <2>1 DEF RequestsInv, ManagerOK
  <2>. QED
    BY <1>1, <1>6, <1>7, <1>11, <2>4, <2>5, <2>6, ListMoves DEF RequestsInv
<1>. QED
  BY <1>12, <1>13

LEMMA VbRaisesRequests ==
  ASSUME AdaTypes, RequestsInv, VbRaises
  PROVE  RequestsInv'
<1>1. /\ vbPc # Idle /\ vbAt = "raise" /\ vbPc' = Idle /\ vbAt' = vbAt
      /\ UNCHANGED <<scenes, vbUnsent, link, vbLists, framePc, cleaned, late>>
  BY DEF VbRaises, serverVars
<1>2. /\ Requests' = Requests /\ manager'.clean_waiting = TRUE
      /\ manager'.mesh_processing = manager.mesh_processing
  BY DEF VbRaises, Raised, AdaTypes, Managers, Requests
<1>3. Asked' = Asked /\ Cleaning' = Cleaning
  BY <1>1, <1>2 DEF Asked, Performing, Cleaning
<1>4. Slots' = Slots
  BY <1>1, <1>3 DEF Slots
<1>5. OnlyTheLast'
  BY <1>1, <1>2 DEF RequestsInv, OnlyTheLast, LastList
<1>6. ManagerOK'
  BY <1>1, <1>2, <1>3 DEF RequestsInv, ManagerOK
<1>7. RequestsWait'
  BY CallbackWaits DEF RequestsInv
<1>. QED
  BY <1>1, <1>4, <1>5, <1>6, <1>7, RequestsKept

\* The lists that miss the test of the flag are counted among the late ones; the request
\* that is performed, if it was in time, goes from the requests to what is done.
LEMMA FrameCleansRequests ==
  ASSUME AdaTypes, RequestsInv, FrameCleans
  PROVE  RequestsInv'
<1>1. /\ framePc = "clean" /\ late' = late \cup Missed
      /\ UNCHANGED <<scenes, vbUnsent, link, vbLists, vbPc, vbAt, manager>>
      /\ IF manager.clean_waiting
         THEN cleaned' = Append(cleaned, Last(Requests)) /\ framePc' = "lower"
         ELSE framePc' = "finish" /\ UNCHANGED cleaned
  BY DEF FrameCleans, serverVars, Requests
<1>2. /\ Requests' = Requests /\ Cleaning' = Cleaning /\ Published' = Published
      /\ LastList' = LastList
  BY <1>1 DEF Requests, Cleaning, Published, LastList
<1>3. Missed \subseteq Published /\ Missed \subseteq {vbPc}
  BY DEF Missed, RequestsInv, OnlyTheLast
<1>4. late \subseteq late' /\ late' \subseteq Published'
  BY <1>1, <1>2, <1>3 DEF RequestsInv
<1>5. OnlyTheLast'
  BY <1>1, <1>2, <1>4 DEF RequestsInv, OnlyTheLast
<1>6. RequestsWait'
  BY FrameWaits DEF RequestsInv
<1>7. Missed \subseteq InTime \cup Beside /\ InTime' = InTime \ Missed
      /\ Beside' = Beside \cup Missed
  BY <1>1, <1>2, <1>3 DEF InTime, Beside
<1>8. Asked' = <<>>
  <2>1. CASE manager.clean_waiting
    BY <1>1, <2>1 DEF Asked, Performing
  <2>2. CASE ~manager.clean_waiting
    <3>. SUFFICES ASSUME Asked' # <<>> PROVE FALSE
      OBVIOUS
    <3>1. Requests # <<>> /\ Last(Requests) \notin late'
      BY <1>2 DEF Asked
    <3>2. Asked # <<>>
      BY <1>1, <1>4, <3>1 DEF Asked, Performing
    <3>3. vbPc = Last(Requests) /\ vbAt = "raise" /\ vbPc # Idle
      BY <2>2, <3>1, <3>2, LastAsked, SlotFacts DEF RequestsInv, ManagerOK, InTime
    <3>4. vbPc \in Missed
      BY <2>2, <3>3 DEF Missed
    <3>. QED
      BY <1>1, <3>1, <3>3, <3>4
  <2>. QED
    BY <2>1, <2>2
<1>9. ManagerOK'
  <2>1. vbPc # Idle /\ vbAt = "push" => vbPc \in late'
    BY <1>1 DEF Missed
  <2>2. manager'.mesh_processing <=> framePc' # "idle"
    BY <1>1 DEF RequestsInv, ManagerOK
  <2>. QED
    BY <1>1, <1>8, <2>1, <2>2 DEF ManagerOK
<1>10. PICK B : B = Slots
  OBVIOUS
<1>11. PICK D : D = Slots'
  OBVIOUS
<1>12. /\ OneEach(B, PlaceNames, InTime, Beside) /\ "requests" \in PlaceNames /\ "done" \in PlaceNames
       /\ \A p \in PlaceNames \ {"requests", "done"} : D[p] = B[p]
       /\ B["requests"] = Asked /\ D["requests"] = <<>>
       /\ B["done"] = cleaned /\ D["done"] = cleaned'
  BY <1>1, <1>2, <1>8, <1>10, <1>11, SlotsAre, SlotsAreNext DEF PlaceNames, RequestsInv
<1>13. CASE manager.clean_waiting
  <2>1. Requests # <<>>
    <3>1. Len(Requests) >= 1 /\ Requests \in Seq(List)
      <4>1. Len(Requests) \in Nat /\ Requests \in Seq(List)
        BY SlotFacts, LenProperties
      <4>. QED
        BY <1>1, <1>13, <4>1 DEF RequestsInv, RequestsWait, One, Performing
    <3>. QED
      BY <3>1
  <2>2. PICK x \in List : x = Last(Requests)
    BY <2>1, LastAsked
  <2>3. D["done"] = Append(B["done"], x) /\ cleaned' \in Seq(List)
    BY <1>1, <1>12, <1>13, <2>2, AppendProperties DEF RequestsInv
  <2>4. OneEach(D, PlaceNames, InTime, Beside)
    <3>1. CASE Asked = <<>>
      <4>1. x \in Beside
        BY <1>1, <2>1, <2>2, <3>1 DEF Asked, Performing, Beside
      <4>2. \A b \in PlaceNames \ {"done"} : D[b] = B[b]
        BY <1>12, <3>1
      <4>. QED
        BY <1>12, <2>3, <4>1, <4>2, OtherAdded, SlotFacts
    <3>2. CASE Asked # <<>>
      <4>1. Asked = <<x>> /\ Head(<<x>>) = x /\ Tail(<<x>>) = <<>> /\ <<x>> # <<>>
        BY <2>1, <2>2, <3>2, LastAsked
      <4>2. Moves(B, D, PlaceNames, "requests", "done")
        BY <1>12, <2>3, <4>1 DEF Moves
      <4>. QED
        BY <1>12, <4>2, MovesKeep
    <3>. QED
      BY <3>1, <3>2
  <2>5. OneEach(D, PlaceNames, InTime', Beside')
    BY <1>7, <2>4, SomeLate
  <2>. QED
    BY <1>1, <1>4, <1>5, <1>6, <1>9, <1>11, <2>3, <2>5 DEF RequestsInv
<1>14. CASE ~manager.clean_waiting
  <2>1. cleaned' = cleaned
    BY <1>1, <1>14
  <2>2. OneEach(B, PlaceNames, InTime', Beside')
    BY <1>7, <1>12, SomeLate
  <2>3. OneEach(D, PlaceNames, InTime', Beside')
    <3>1. CASE Asked = <<>>
      <4>1. \A b \in PlaceNames : D[b] = B[b]
        BY <1>12, <2>1, <3>1
      <4>. QED
        BY <2>2, <4>1 DEF OneEach
    <3>2. CASE Asked # <<>>
      <4>1. Requests # <<>>
        BY <3>2 DEF Asked
      <4>2. PICK x \in List : x = Last(Requests) /\ Asked = <<x>>
        BY <3>2, <4>1, LastAsked
      <4>3. Head(<<x>>) = x /\ Tail(<<x>>) = <<>> /\ <<x>> # <<>>
        OBVIOUS
      <4>4. x \in late'
        <5>1. x = vbPc /\ vbAt = "raise" /\ vbPc # Idle
          BY <1>14, <3>2, <4>1, <4>2, LastAsked, SlotFacts DEF RequestsInv, ManagerOK, InTime
        <5>. QED
          BY <1>1, <1>14, <5>1 DEF Missed
      <4>5. x \notin InTime'
        BY <4>4 DEF InTime
      <4>6. \A b \in PlaceNames \ {"requests"} : D[b] = B[b]
        BY <1>12, <2>1
      <4>. QED
        BY <1>12, <2>2, <4>2, <4>3, <4>5, <4>6, OtherTaken
    <3>. QED
      BY <3>1, <3>2
  <2>. QED
    BY <1>1, <1>4, <1>5, <1>6, <1>9, <1>11, <2>1, <2>3 DEF RequestsInv
<1>. QED
  BY <1>13, <1>14

LEMMA FramePopsRequests ==
  ASSUME AdaTypes, RequestsInv, FrameLowers \/ FramePops
  PROVE  RequestsInv'
<1>1. /\ manager \in Managers /\ ManagerOK /\ Performing
      /\ UNCHANGED <<scenes, vbUnsent, link, vbLists, vbPc, vbAt, cleaned, late>>
      /\ RequestsWait' /\ LastList' = LastList /\ Published' = Published
  BY FrameWaits
  DEF AdaTypes, FrameLowers, FramePops, RequestsInv, serverVars, Performing, LastList, Published
<1>2. Cleaning' = Cleaning /\ Asked = <<>>
  BY <1>1 DEF Cleaning, Asked
<1>3. ~(vbPc # Idle /\ vbAt = "push" /\ vbPc \notin late)
  BY <1>1 DEF ManagerOK, Performing
<1>4. CASE FrameLowers
  <2>1. /\ framePc' = "pop" /\ framePc = "lower" /\ Requests' = Requests
        /\ manager'.mesh_processing = manager.mesh_processing
    BY <1>1, <1>4 DEF FrameLowers, Requests, Managers
  <2>2. Asked' = <<>>
    BY <2>1 DEF Asked, Performing
  <2>3. Slots' = Slots
    BY <1>1, <1>2, <2>2 DEF Slots
  <2>4. ManagerOK'
    BY <1>1, <1>3, <2>1, <2>2 DEF ManagerOK
  <2>5. OnlyTheLast'
    BY <1>1, <2>1 DEF RequestsInv, OnlyTheLast
  <2>. QED
    BY <1>1, <2>3, <2>4, <2>5, RequestsKept
<1>5. CASE FramePops
  <2>1. Requests # <<>>
    <3>1. Len(Requests) \in Nat
      BY SlotFacts, LenProperties
    <3>. QED
      BY <1>1, <3>1 DEF RequestsInv, RequestsWait, One
  <2>2. PICK q \in Seq(List) : q = Front(Requests)
    BY <2>1, SlotFacts, FrontFacts
  <2>3. /\ Requests' = q /\ framePc' = "finish" /\ framePc = "pop"
        /\ manager'.mesh_processing = manager.mesh_processing
    <3>1. manager' = [manager EXCEPT !.pending_clean_reqs = q]
      BY <1>5, <2>2, Zenon DEF FramePops, Performed, Requests
    <3>. QED
      BY <1>1, <1>5, <3>1 DEF FramePops, Managers, Requests
  <2>4. \A i \in 1..Len(q) : q[i] \in late
    BY <2>1, <2>2, SlotFacts, FrontFacts DEF RequestsInv, OnlyTheLast
  <2>5. q # <<>> => Last(q) \in late
    <3>1. q # <<>> => Len(q) \in 1..Len(q)
      <4>1. Len(q) \in Nat /\ (q # <<>> => Len(q) # 0)
        BY LenProperties, EmptySeq
      <4>. QED
        BY <4>1
    <3>. QED
      BY <2>4, <3>1 DEF Last
  <2>6. Asked' = <<>>
    BY <1>1, <2>3, <2>5 DEF Asked
  <2>7. Slots' = Slots
    BY <1>1, <1>2, <2>6 DEF Slots
  <2>8. ManagerOK'
    BY <1>1, <1>3, <2>3, <2>6 DEF ManagerOK
  <2>9. OnlyTheLast'
    BY <1>1, <2>3, <2>4 DEF RequestsInv, OnlyTheLast
  <2>. QED
    BY <1>1, <2>7, <2>8, <2>9, RequestsKept
<1>. QED
  BY <1>4, <1>5

\* Counting and pending a chunk touches neither flag nor the requests.
LEMMA ArrivalFields ==
  ASSUME NEW m \in Managers, NEW c \in Chunk
  PROVE  LET p == Pended(Counted(m, c.scene), c)
             e == [p EXCEPT !.mesh_processing = @ \/ p.chunk_counter = ChunkCount]
         IN  /\ e.pending_clean_reqs = m.pending_clean_reqs
             /\ e.clean_waiting = m.clean_waiting
             /\ e.mesh_processing <=> m.mesh_processing \/ p.chunk_counter = ChunkCount
<1>. DEFINE Kept(k) == /\ k.pending_clean_reqs = m.pending_clean_reqs
                       /\ k.clean_waiting = m.clean_waiting
                       /\ k.mesh_processing = m.mesh_processing
                       /\ "mesh_processing" \in DOMAIN k
<1>1. Kept(m)
  BY DEF Managers
<1>2. Kept(Counted(m, c.scene))
  BY <1>1 DEF Counted
<1>3. ASSUME NEW k, Kept(k) PROVE Kept(Pended(k, c))
  BY <1>3 DEF Pended
<1>. HIDE DEF Kept
<1>4. PICK p : p = Pended(Counted(m, c.scene), c)
  OBVIOUS
<1>5. Kept(p)
  BY <1>2, <1>3, <1>4
<1>6. PICK y \in BOOLEAN : y <=> p.mesh_processing \/ p.chunk_counter = ChunkCount
  OBVIOUS
<1>7. PICK e : e = [p EXCEPT !.mesh_processing = p.mesh_processing \/ p.chunk_counter = ChunkCount]
  OBVIOUS
<1>8. /\ e.pending_clean_reqs = m.pending_clean_reqs /\ e.clean_waiting = m.clean_waiting
      /\ e.mesh_processing = (p.mesh_processing \/ p.chunk_counter = ChunkCount)
  BY <1>5, <1>7 DEF Kept
<1>9. p.mesh_processing = m.mesh_processing
  BY <1>5 DEF Kept
<1>. QED
  BY <1>4, <1>7, <1>8, <1>9, Zenon

LEMMA FrameStepsKeep ==
  ASSUME AdaTypes, RequestsInv, FrameArrives \/ FrameMerges \/ FrameFinishes
  PROVE  RequestsInv'
<1>1. /\ manager \in Managers /\ ManagerOK /\ OnlyTheLast
      /\ UNCHANGED <<scenes, vbUnsent, link, vbLists, vbPc, vbAt, cleaned, late>>
  BY DEF AdaTypes, FrameArrives, FrameMerges, FrameFinishes, RequestsInv, serverVars
<1>2. /\ \/ framePc = "idle" /\ framePc' \in {"idle", "merge"}
         \/ framePc = "merge" /\ framePc' = "clean"
         \/ framePc = "finish" /\ framePc' = "idle"
      /\ Requests' = Requests /\ manager'.clean_waiting = manager.clean_waiting
      /\ manager'.mesh_processing <=> framePc' # "idle"
  <2>1. CASE FrameArrives
    <3>1. PICK c \in Chunk : c = Head(decoded)
      BY <2>1, HeadTailProperties DEF AdaTypes, FrameArrives
    <3>. DEFINE p == Pended(Counted(manager, c.scene), c)
    <3>2. /\ framePc = "idle"
          /\ manager' = [p EXCEPT !.mesh_processing = @ \/ p.chunk_counter = ChunkCount]
          /\ framePc' = IF p.chunk_counter = ChunkCount THEN "merge" ELSE "idle"
      BY <2>1, <3>1 DEF FrameArrives
    <3>3. /\ Requests' = Requests /\ manager'.clean_waiting = manager.clean_waiting
          /\ manager'.mesh_processing <=> manager.mesh_processing \/ p.chunk_counter = ChunkCount
      BY <1>1, <3>2, ArrivalFields DEF Requests
    <3>. HIDE DEF p
    <3>. QED
      BY <1>1, <3>2, <3>3 DEF ManagerOK
  <2>2. CASE FrameMerges
    BY <1>1, <2>2 DEF FrameMerges, Requests, Managers, ManagerOK
  <2>3. CASE FrameFinishes
    <3>1. PICK e : e = [manager EXCEPT !.last_processed = manager.current_id]
      OBVIOUS
    <3>2. /\ e \in Managers /\ e.pending_clean_reqs = manager.pending_clean_reqs
          /\ e.clean_waiting = manager.clean_waiting
      BY <1>1, <3>1 DEF Managers
    <3>3. manager' = [e EXCEPT !.mesh_processing = FALSE]
      <4>1. manager' = [manager EXCEPT !.last_processed = manager.current_id,
                                       !.mesh_processing = FALSE]
        BY <2>3 DEF FrameFinishes
      <4>. QED
        BY <1>1, <3>1, <4>1 DEF Managers
    <3>. QED
      BY <2>3, <3>2, <3>3 DEF FrameFinishes, Requests, Managers
  <2>. QED
    BY <2>1, <2>2, <2>3
<1>3. Asked' = Asked /\ Cleaning' = Cleaning
  BY <1>1, <1>2 DEF Asked, Performing, Cleaning
<1>4. Slots' = Slots
  BY <1>1, <1>3 DEF Slots
<1>5. ManagerOK'
  BY <1>1, <1>2, <1>3 DEF ManagerOK
<1>6. OnlyTheLast'
  BY <1>1, <1>2 DEF OnlyTheLast, LastList, Published
<1>7. RequestsWait'
  BY <1>1, <1>2 DEF RequestsInv, RequestsWait, Performing, One
<1>. QED
  BY <1>1, <1>4, <1>5, <1>6, <1>7, RequestsKept

\* The device has finished with the scene before: all lists are done, or late.
LEMMA RequestSceneRequests ==
  ASSUME AdaTypes, RequestsInv, RequestScene
  PROVE  RequestsInv'
<1>1. /\ scenes \in Nat /\ ~vbUnsent /\ vbUnsent' = TRUE /\ scenes' = scenes + 1
      /\ UNCHANGED <<link, vbLists, gridVars>> /\ framePc = "idle" /\ vbPc = Idle
  BY DEF RequestScene, Quiet, AdaTypes
<1>2. Published' = Published /\ InTime' = InTime /\ Beside' = Beside
  <2>1. {t \in 0..(scenes - 1) : vbUnsent => t < scenes - 1}
          = {t \in 0..(scenes' - 1) : vbUnsent' => t < scenes' - 1}
    BY <1>1
  <2>. QED
    BY <1>1, <2>1, GridKept DEF Published, InTime, Beside
<1>3. Slots' = Slots
  BY <1>1, GridKept DEF Slots
<1>4. link = <<>> /\ vbLists = <<>>
  <2>1. /\ requested \in Seq(Chunk \cup List) /\ compressed \in Seq(Chunk \cup List)
        /\ link \in Seq(Chunk \cup List) /\ arrived \in Seq(Chunk \cup List)
        /\ decoded \in Seq(Chunk \cup List) /\ vbLists \in Seq(Chunk \cup List)
    <3>1. Seq(Chunk) \subseteq Seq(Chunk \cup List) /\ Seq(List) \subseteq Seq(Chunk \cup List)
      BY SeqMonotonic
    <3>. QED
      BY <3>1 DEF AdaTypes
  <2>2. requested \o compressed \o link \o arrived \o decoded \o vbLists = <<>>
    BY DEF RequestScene, Quiet
  <2>3. /\ requested \o compressed \in Seq(Chunk \cup List)
        /\ requested \o compressed \o link \in Seq(Chunk \cup List)
        /\ requested \o compressed \o link \o arrived \in Seq(Chunk \cup List)
        /\ requested \o compressed \o link \o arrived \o decoded \in Seq(Chunk \cup List)
    BY <2>1, ConcatProperties
  <2>4. requested \o compressed \o link \o arrived \o decoded = <<>> /\ vbLists = <<>>
    BY <2>1, <2>2, <2>3, EmptyConcat
  <2>5. requested \o compressed \o link \o arrived = <<>>
    BY <2>1, <2>3, <2>4, EmptyConcat
  <2>6. requested \o compressed \o link = <<>>
    BY <2>1, <2>3, <2>5, EmptyConcat
  <2>. QED
    BY <2>1, <2>3, <2>4, <2>6, EmptyConcat
<1>5. \A i \in 1..Len(Requests) : Requests[i] \in late
  <2>1. CASE Requests = <<>>
    BY <2>1
  <2>2. CASE Requests # <<>>
    <3>1. Asked = <<>>
      BY <1>1 DEF RequestsInv, ManagerOK
    <3>2. Last(Requests) \in late
      BY <1>1, <2>2, <3>1 DEF Asked, Performing
    <3>. QED
      BY <2>2, <3>2, LastAsked DEF RequestsInv, OnlyTheLast
  <2>. QED
    BY <2>1, <2>2
<1>6. OnlyTheLast'
  <2>1. <<>> \in Seq({LastList'} \cup Chunk)
    OBVIOUS
  <2>. QED
    BY <1>1, <1>4, <1>5, <2>1, GridKept DEF OnlyTheLast
<1>. QED
  BY <1>1, <1>2, <1>3, <1>6, GridKept DEF RequestsInv

\* The other threads do not come near the lists.
LEMMA OthersKeep ==
  ASSUME RequestsInv,
         \/ ProcessMesh \/ ProcessFrame
         \/ \E w \in Workers(CompressWorkers) : Compress(w)
         \/ \E w \in Workers(ChunkCount) : Decompress(w)
         \/ AdaFinished \/ UNCHANGED adaVars
  PROVE  RequestsInv'
<1>1. UNCHANGED <<scenes, vbUnsent, link, vbLists, gridVars>>
  BY DEF ProcessMesh, ProcessFrame, Compress, Decompress, AdaFinished, adaVars, serverVars
<1>2. Slots' = Slots
  BY <1>1, GridKept DEF Slots
<1>3. OnlyTheLast'
  BY <1>1, GridKept, OnlyTheLastKept DEF RequestsInv, OnlyTheLast
<1>. QED
  BY <1>1, <1>2, <1>3, GridKept, RequestsKept

LEMMA RequestsInitial == AdaInit => RequestsInv
<1>. SUFFICES ASSUME AdaInit PROVE RequestsInv
  OBVIOUS
<1>1. /\ scenes = 0 /\ vbUnsent = FALSE /\ link = <<>> /\ vbLists = <<>> /\ vbPc = Idle
      /\ cleaned = <<>> /\ framePc = "idle" /\ Requests = <<>> /\ late = {}
      /\ manager.clean_waiting = FALSE /\ manager.mesh_processing = FALSE
  BY DEF AdaInit, Requests
<1>2. InTime = {}
  BY <1>1 DEF Published, InTime
<1>3. PICK B : B = Slots
  OBVIOUS
<1>4. Asked = <<>> /\ Cleaning = <<>>
  BY <1>1 DEF Asked, Cleaning
<1>5. \A b \in PlaceNames : B[b] = <<>>
  BY <1>1, <1>3, <1>4, SlotsAre DEF PlaceNames
<1>6. OneEach(B, PlaceNames, InTime, Beside)
  <2>1. <<>> \in Seq(InTime \cup Beside) /\ 1..Len(<<>>) = {}
    OBVIOUS
  <2>2. \A b \in PlaceNames : B[b] \in Seq(InTime \cup Beside) /\ 1..Len(B[b]) = {}
    BY <1>5, <2>1, Zenon
  <2>. QED
    BY <1>2, <2>2 DEF OneEach
<1>7. OnlyTheLast
  <2>1. <<>> \in Seq({LastList} \cup Chunk) /\ 1..Len(<<>>) = {}
    OBVIOUS
  <2>. QED
    BY <1>1, <2>1 DEF OnlyTheLast
<1>8. cleaned \in Seq(List)
  BY <1>1
<1>9. ManagerOK
  BY <1>1, <1>4 DEF ManagerOK
<1>10. RequestsWait
  BY <1>1 DEF RequestsWait, One, Performing
<1>. QED
  BY <1>1, <1>3, <1>6, <1>7, <1>8, <1>9, <1>10 DEF RequestsInv

LEMMA RequestsStep == AdaInv /\ RequestsInv /\ [AdaNext]_adaVars => RequestsInv'
<1>. SUFFICES ASSUME AdaTypes, RequestsInv, [AdaNext]_adaVars PROVE RequestsInv'
  BY DEF AdaInv
<1>1. CASE RequestScene \/ SendVbList \/ SendSrOutput \/ ReceiveSrOutput
  BY <1>1, RequestSceneRequests, SendVbListRequests, SendSrOutputRequests,
     ReceiveSrOutputRequests
<1>2. CASE VbArrives \/ VbCleans \/ VbPushes \/ VbRaises
  BY <1>2, VbArrivesRequests, VbCleansRequests, VbPushesRequests, VbRaisesRequests
<1>3. CASE FrameCleans \/ FrameLowers \/ FramePops
  BY <1>3, FrameCleansRequests, FramePopsRequests
<1>4. CASE FrameArrives \/ FrameMerges \/ FrameFinishes
  BY <1>4, FrameStepsKeep
<1>. QED
  BY <1>1, <1>2, <1>3, <1>4, OthersKeep DEF AdaNext, AdaStep

\* The invariant of the requests to clean, whenever a list comes: one that is in time is in
\* one place; only the last request can be in time, and then the flag is up or about to be,
\* before it is tested; and there are as many requests as are counted on.
THEOREM AdaRequestsInductive == AdaSpec => []CleanInv
BY RequestsInitial, RequestsStep, AdaInductive, PTL DEF AdaSpec, CleanInv

LEMMA OnceOfRequests == AdaTypes /\ RequestsInv => CleansOnce
<1>. SUFFICES ASSUME AdaTypes, RequestsInv PROVE CleansOnce
  OBVIOUS
<1>1. manager.clean_waiting /\ framePc # "lower" => Requests # <<>>
  <2>1. Len(Requests) \in Nat /\ Len(<<>>) = 0
    BY SlotFacts, LenProperties
  <2>. QED
    BY <2>1 DEF RequestsInv, RequestsWait, One
<1>2. framePc = "lower" => Requests # <<>>
  <2>1. Len(Requests) \in Nat /\ Len(<<>>) = 0
    BY SlotFacts, LenProperties
  <2>. QED
    BY <2>1 DEF RequestsInv, RequestsWait, One, Performing
<1>3. PICK B : B = Slots
  OBVIOUS
<1>4. PICK E : E = Places
  OBVIOUS
<1>5. /\ DOMAIN E = PlaceNames
      /\ \A p \in PlaceNames \ {"requests"} : E[p] = B[p]
      /\ E["requests"] = Requests /\ B["requests"] = Asked
  BY <1>3, <1>4 DEF Places, Slots, Cleaning, Requests, PlaceNames
<1>6. /\ OneEach(B, PlaceNames, InTime, Beside)
      /\ \A p \in PlaceNames : DOMAIN B[p] = 1..Len(B[p])
      /\ DOMAIN Requests = 1..Len(Requests) /\ Len(Requests) \in Nat
  BY <1>3, SlotFacts DEF RequestsInv, OneEach
<1>7. ASSUME framePc \notin {"lower", "pop"}, NEW v \in InTime
      PROVE  \E p \in DOMAIN E : \E i \in DOMAIN E[p] :
               \A q \in DOMAIN E : \A j \in DOMAIN E[q] : E[q][j] = v <=> q = p /\ j = i
  <2>. DEFINE At(p, i) == IF p = "requests" THEN Len(Requests) ELSE i
  <2>1. ASSUME NEW p \in PlaceNames, NEW i \in DOMAIN B[p], B[p][i] = v
        PROVE  At(p, i) \in DOMAIN E[p] /\ E[p][At(p, i)] = v
    <3>1. CASE p = "requests"
      <4>1. Asked # <<>> /\ Requests # <<>>
        <5>1. Asked # <<>>
          BY <1>5, <2>1, <3>1
        <5>. QED
          BY <5>1 DEF Asked
      <4>2. Asked = <<Last(Requests)>> /\ Last(Requests) = Requests[Len(Requests)] /\ Len(Requests) >= 1
        BY <4>1, LastAsked
      <4>3. v = Last(Requests)
        BY <1>5, <2>1, <3>1, <4>2
      <4>4. Len(Requests) \in 1..Len(Requests)
        BY <1>6, <4>2
      <4>. QED
        BY <1>5, <1>6, <3>1, <4>2, <4>3, <4>4
    <3>2. CASE p # "requests"
      BY <1>5, <2>1, <3>2
    <3>. QED
      BY <3>1, <3>2
  <2>2. ASSUME NEW q \in PlaceNames, NEW j \in DOMAIN E[q], E[q][j] = v
        PROVE  \E k \in DOMAIN B[q] : B[q][k] = v /\ j = At(q, k)
    <3>1. CASE q = "requests"
      <4>1. j \in 1..Len(Requests) /\ Requests[j] = v /\ v \notin late
        BY <1>5, <1>6, <1>7, <2>2, <3>1 DEF InTime
      <4>2. j = Len(Requests) /\ Requests # <<>>
        <5>1. j = Len(Requests)
          BY <4>1 DEF RequestsInv, OnlyTheLast
        <5>2. Requests # <<>>
          BY <4>1
        <5>. QED
          BY <5>1, <5>2
      <4>3. Last(Requests) = v
        BY <4>1, <4>2 DEF Last
      <4>4. Asked = <<v>>
        BY <1>7, <4>1, <4>2, <4>3 DEF Asked, Performing
      <4>5. 1 \in DOMAIN <<v>> /\ <<v>>[1] = v
        OBVIOUS
      <4>. QED
        BY <1>5, <3>1, <4>2, <4>4, <4>5
    <3>2. CASE q # "requests"
      BY <1>5, <2>2, <3>2
    <3>. QED
      BY <3>1, <3>2
  <2>. HIDE DEF At
  <2>3. PICK p \in PlaceNames : \E i \in DOMAIN B[p] : B[p][i] = v
    BY <1>6, <1>7 DEF OneEach
  <2>4. PICK i \in DOMAIN B[p] : B[p][i] = v
    BY <2>3
  <2>5. At(p, i) \in DOMAIN E[p] /\ E[p][At(p, i)] = v
    BY <2>1, <2>4
  <2>6. ASSUME NEW q \in PlaceNames, NEW j \in DOMAIN E[q]
        PROVE  E[q][j] = v <=> q = p /\ j = At(p, i)
    <3>1. ASSUME E[q][j] = v PROVE q = p /\ j = At(p, i)
      <4>1. PICK k \in DOMAIN B[q] : B[q][k] = v /\ j = At(q, k)
        BY <2>2, <3>1
      <4>2. /\ i \in 1..Len(B[p]) /\ k \in 1..Len(B[q]) /\ B[p][i] \in InTime
            /\ B[p][i] = B[q][k]
        BY <1>6, <1>7, <2>4, <4>1
      <4>3. p = q /\ i = k
        BY <1>6, <4>2, OnePlace
      <4>. QED
        BY <4>1, <4>3
    <3>. QED
      BY <2>5, <3>1
  <2>. QED
    BY <1>5, <2>5, <2>6
<1>. QED
  BY <1>1, <1>2, <1>4, <1>7 DEF CleansOnce, InTime, Requests

\* Although process_vb_lists and process_inactive_frame share the requests without a lock,
\* a list that is in time is neither lost nor performed twice, whatever late lists are left
\* among the requests, and there is a request whenever the flag is up.
THEOREM AdaCleansOnce == AdaSpec => []CleansOnce
BY OnceOfRequests, AdaRequestsInductive, PTL DEF CleanInv, AdaInv

----------------------------------------------------------------------------
(* The types with their bounds.                                            *)

BoundedWorker == {e \in [queue : Seq(AnyChunk), work : AnyChunk \cup {Idle}] :
                    Len(e.queue) <= QueueCap}

AdaBounded ==
  /\ scenes \in 0..MaxScenes /\ vbUnsent \in BOOLEAN /\ (vbUnsent => scenes > 0)
  /\ requested \in Seq(AnyChunk) /\ compressed \in Seq(AnyChunk)
  /\ arrived \in Seq(AnyChunk) /\ decoded \in Seq(AnyChunk)
  /\ compression \in [Workers(CompressWorkers) -> BoundedWorker]
  /\ decompression \in [Workers(ChunkCount) -> BoundedWorker]
  /\ link \in Seq(AnyChunk \cup AnyList) /\ vbLists \in Seq(AnyList)
  /\ cleaned \in Seq(AnyList) /\ Requests \in Seq(AnyList)
  /\ vbPc \in AnyList \cup {Idle} /\ vbAt \in {"clean", "push", "raise"}
  /\ manager.chunk_counter \in 0..ChunkCount

LEMMA BoundedFacts ==
  /\ AnyChunk \subseteq Chunk /\ AnyList \subseteq List
  /\ \A c \in AnyChunk : c.chunk \in Nat
  /\ \A v \in AnyList : v.chunk = -1 /\ v # Idle
  /\ \A s \in 0..(MaxScenes - 1) : ChunksOf(s) \subseteq AnyChunk /\ VbList(s) \in AnyList
<1>1. MaxScenes \in Nat
  BY AdaAssumption
<1>2. ASSUME NEW s \in 0..(MaxScenes - 1)
      PROVE  /\ s \in Nat /\ ChunksOf(s) \subseteq Chunk /\ VbList(s) \in List
             /\ ChunksOf(s) \subseteq AnyChunk /\ VbList(s) \in AnyList
             /\ VbList(s).chunk = -1 /\ VbList(s) # Idle
  <2>1. s \in Nat
    BY <1>1
  <2>2. ChunksOf(s) \subseteq Chunk /\ VbList(s) \in List
    BY <2>1, ChunkFacts
  <2>3. ChunksOf(s) \subseteq AnyChunk /\ VbList(s) \in AnyList
    BY DEF AnyChunk, AnyList
  <2>4. VbList(s).chunk = -1 /\ VbList(s).scene = s /\ Idle.scene = -1
    BY DEF VbList, Idle
  <2>5. VbList(s) # Idle
    BY <2>1, <2>4
  <2>. QED
    BY <2>1, <2>2, <2>3, <2>4, <2>5
<1>3. ASSUME NEW c \in AnyChunk PROVE c \in Chunk
  BY <1>2, <1>3 DEF AnyChunk
<1>4. ASSUME NEW v \in AnyList PROVE v \in List /\ v.chunk = -1 /\ v # Idle
  BY <1>2, <1>4 DEF AnyList
<1>5. \A c \in AnyChunk : c.chunk \in Nat
  BY <1>3, ChunkFacts
<1>. QED
  BY <1>2, <1>3, <1>4, <1>5

\* Workers of a pool: a queue is put into when it has room.
LEMMA EnqueuedBounded ==
  ASSUME NEW W, NEW pool \in [W -> BoundedWorker], NEW w \in W, NEW c \in AnyChunk,
         HasRoom(pool, w)
  PROVE  Enqueued(pool, w, c) \in [W -> BoundedWorker]
<1>1. /\ pool[w] \in BoundedWorker /\ pool[w].queue \in Seq(AnyChunk)
      /\ pool[w] \in [queue : Seq(AnyChunk), work : AnyChunk \cup {Idle}]
  BY DEF BoundedWorker
<1>2. PICK q \in Seq(AnyChunk) : q = Append(pool[w].queue, c)
  BY <1>1, AppendProperties
<1>3. Len(q) <= QueueCap
  <2>1. Len(q) = Len(pool[w].queue) + 1
    BY <1>1, <1>2, AppendProperties
  <2>2. Len(pool[w].queue) < QueueCap /\ Len(pool[w].queue) \in Nat
    BY <1>1, LenProperties DEF HasRoom
  <2>. QED
    BY <2>1, <2>2, AdaAssumption
<1>4. PICK e : e = [pool[w] EXCEPT !.queue = q]
  OBVIOUS
<1>5. e \in [queue : Seq(AnyChunk), work : AnyChunk \cup {Idle}] /\ e.queue = q
  BY <1>1, <1>4
<1>6. e \in BoundedWorker
  BY <1>3, <1>5 DEF BoundedWorker
<1>7. PICK p : p = [pool EXCEPT ![w] = e]
  OBVIOUS
<1>8. p \in [W -> BoundedWorker]
  BY <1>6, <1>7
<1>9. Enqueued(pool, w, c) = p
  BY <1>2, <1>4, <1>7, Zenon DEF Enqueued
<1>. QED
  BY <1>8, <1>9

LEMMA DequeuedBounded ==
  ASSUME NEW W, NEW pool \in [W -> BoundedWorker], NEW w \in W, pool[w].queue # <<>>
  PROVE  Dequeued(pool, w) \in [W -> BoundedWorker]
<1>1. pool[w].queue \in Seq(AnyChunk) /\ Len(pool[w].queue) <= QueueCap
  BY DEF BoundedWorker
<1>2. PICK q \in Seq(AnyChunk) : q = Tail(pool[w].queue)
  BY <1>1, HeadTailProperties
<1>3. PICK c \in AnyChunk : c = Head(pool[w].queue)
  BY <1>1, HeadTailProperties
<1>4. Len(q) <= QueueCap
  <2>1. Len(q) = Len(pool[w].queue) - 1
    BY <1>1, <1>2, HeadTailProperties
  <2>2. Len(pool[w].queue) \in Nat
    BY <1>1, LenProperties
  <2>. QED
    BY <1>1, <2>1, <2>2, AdaAssumption
<1>5. PICK e : e = [queue |-> q, work |-> c]
  OBVIOUS
<1>6. e \in BoundedWorker
  BY <1>4, <1>5 DEF BoundedWorker
<1>7. PICK p : p = [pool EXCEPT ![w] = e]
  OBVIOUS
<1>8. p \in [W -> BoundedWorker]
  BY <1>6, <1>7
<1>9. Dequeued(pool, w) = p
  BY <1>2, <1>3, <1>5, <1>7, Zenon DEF Dequeued
<1>. QED
  BY <1>8, <1>9

LEMMA DoneBounded ==
  ASSUME NEW W, NEW pool \in [W -> BoundedWorker], NEW w \in W
  PROVE  Done(pool, w) \in [W -> BoundedWorker]
<1>1. /\ pool[w] \in [queue : Seq(AnyChunk), work : AnyChunk \cup {Idle}]
      /\ Len(pool[w].queue) <= QueueCap
  BY DEF BoundedWorker
<1>2. PICK e : e = [pool[w] EXCEPT !.work = Idle]
  OBVIOUS
<1>3. e \in [queue : Seq(AnyChunk), work : AnyChunk \cup {Idle}] /\ e.queue = pool[w].queue
  BY <1>1, <1>2
<1>4. e \in BoundedWorker
  BY <1>1, <1>3 DEF BoundedWorker
<1>5. Done(pool, w) = [pool EXCEPT ![w] = e]
  BY <1>2, Zenon DEF Done
<1>. QED
  BY <1>4, <1>5

LEMMA BoundedInitial == AdaInit => AdaBounded
<1>. SUFFICES ASSUME AdaInit PROVE AdaBounded
  OBVIOUS
<1>1. [queue |-> <<>>, work |-> Idle] \in BoundedWorker
  BY AdaAssumption DEF BoundedWorker
<1>2. /\ compression \in [Workers(CompressWorkers) -> BoundedWorker]
      /\ decompression \in [Workers(ChunkCount) -> BoundedWorker]
  BY <1>1 DEF AdaInit
<1>3. manager.chunk_counter = 0 /\ Requests = <<>> /\ vbAt = "clean"
  BY DEF AdaInit, Requests
<1>4. <<>> \in Seq(AnyChunk) /\ <<>> \in Seq(AnyList) /\ <<>> \in Seq(AnyChunk \cup AnyList)
  OBVIOUS
<1>5. /\ scenes = 0 /\ vbUnsent = FALSE /\ vbPc = Idle
      /\ requested = <<>> /\ compressed = <<>> /\ arrived = <<>> /\ decoded = <<>>
      /\ link = <<>> /\ vbLists = <<>> /\ cleaned = <<>>
  BY DEF AdaInit
<1>6. 0 \in 0..MaxScenes /\ 0 \in 0..ChunkCount
  BY AdaAssumption
<1>. QED
  BY <1>2, <1>3, <1>4, <1>5, <1>6 DEF AdaBounded

LEMMA RequestSceneBounded ==
  ASSUME AdaBounded, RequestScene
  PROVE  AdaBounded'
<1>1. /\ scenes \in 0..MaxScenes /\ scenes < MaxScenes /\ scenes' = scenes + 1
      /\ vbUnsent' = TRUE
      /\ UNCHANGED <<compression, compressed, link, pipeVars, vbLists, gridVars>>
  BY DEF AdaBounded, RequestScene
<1>2. scenes' \in 0..MaxScenes /\ scenes' > 0 /\ scenes \in 0..(MaxScenes - 1)
  BY <1>1, AdaAssumption
<1>3. requested' \in Seq(AnyChunk)
  <2>1. requested' = [k \in 1..ChunkCount |-> [scene |-> scenes, chunk |-> k - 1]]
    BY DEF RequestScene
  <2>2. ASSUME NEW k \in 1..ChunkCount PROVE [scene |-> scenes, chunk |-> k - 1] \in AnyChunk
    <3>1. k - 1 \in 0..(ChunkCount - 1)
      BY AdaAssumption
    <3>2. [scene |-> scenes, chunk |-> k - 1] \in ChunksOf(scenes)
      BY <3>1 DEF ChunksOf
    <3>. QED
      BY <1>2, <3>2, BoundedFacts
  <2>3. requested' \in [1..ChunkCount -> AnyChunk] /\ ChunkCount \in Nat
    BY <2>1, <2>2, AdaAssumption
  <2>. QED
    BY <2>3 DEF Seq
<1>. QED
  BY <1>1, <1>2, <1>3 DEF AdaBounded, Requests, pipeVars, gridVars

\* Publishing a list, and the way of chunks and lists through the two machines.
LEMMA SendBounded ==
  ASSUME AdaBounded, SendVbList \/ SendSrOutput
  PROVE  AdaBounded'
<1>1. link \in Seq(AnyChunk \cup AnyList)
  BY DEF AdaBounded
<1>2. CASE SendVbList
  <2>1. PICK v \in AnyList : v = VbList(scenes - 1)
    <3>1. scenes - 1 \in 0..(MaxScenes - 1)
      BY <1>2, AdaAssumption DEF AdaBounded, SendVbList
    <3>. QED
      BY <3>1, BoundedFacts
  <2>2. link' \in Seq(AnyChunk \cup AnyList)
    <3>1. link' = Append(link, v)
      BY <1>2, <2>1 DEF SendVbList
    <3>. QED
      BY <1>1, <3>1, AppendProperties
  <2>. QED
    BY <1>2, <2>2
    DEF SendVbList, AdaBounded, Requests, pipeVars, gridVars
<1>3. CASE SendSrOutput
  <2>1. compressed \in Seq(AnyChunk) /\ compressed # <<>>
    BY <1>3 DEF AdaBounded, SendSrOutput
  <2>2. PICK c \in AnyChunk : c = Head(compressed)
    BY <2>1, HeadTailProperties
  <2>3. compressed' \in Seq(AnyChunk)
    BY <1>3, <2>1, HeadTailProperties DEF SendSrOutput
  <2>4. link' \in Seq(AnyChunk \cup AnyList)
    <3>1. link' = Append(link, c)
      BY <1>3, <2>2 DEF SendSrOutput
    <3>. QED
      BY <1>1, <3>1, AppendProperties
  <2>. QED
    BY <1>3, <2>3, <2>4
    DEF SendSrOutput, AdaBounded, Requests, pipeVars, gridVars
<1>. QED
  BY <1>2, <1>3

LEMMA ReceiveSrOutputBounded ==
  ASSUME AdaBounded, ReceiveSrOutput
  PROVE  AdaBounded'
<1>1. link \in Seq(AnyChunk \cup AnyList) /\ link # <<>> /\ link' = Tail(link)
      /\ arrived \in Seq(AnyChunk) /\ vbLists \in Seq(AnyList)
      /\ UNCHANGED <<serverVars, decompression, decoded, gridVars>>
  BY DEF AdaBounded, ReceiveSrOutput
<1>2. PICK x \in AnyChunk \cup AnyList : x = Head(link)
  BY <1>1, HeadTailProperties
<1>3. link' \in Seq(AnyChunk \cup AnyList)
  BY <1>1, HeadTailProperties
<1>4. arrived' \in Seq(AnyChunk) /\ vbLists' \in Seq(AnyList)
  <2>1. CASE x.chunk # -1
    <3>1. x \in AnyChunk
      BY <2>1, BoundedFacts
    <3>2. arrived' = Append(arrived, x) /\ vbLists' = vbLists
      BY <1>2, <2>1 DEF ReceiveSrOutput
    <3>. QED
      BY <1>1, <3>1, <3>2, AppendProperties
  <2>2. CASE x.chunk = -1
    <3>1. x \in AnyList
      <4>1. -1 \notin Nat
        OBVIOUS
      <4>. QED
        BY <2>2, <4>1, BoundedFacts
    <3>2. vbLists' = Append(vbLists, x) /\ arrived' = arrived
      BY <1>2, <2>2 DEF ReceiveSrOutput
    <3>. QED
      BY <1>1, <3>1, <3>2, AppendProperties
  <2>. QED
    BY <2>1, <2>2
<1>. QED
  BY <1>1, <1>3, <1>4 DEF AdaBounded, Requests, serverVars, gridVars

LEMMA ProcessBounded ==
  ASSUME AdaBounded, ProcessMesh \/ ProcessFrame
  PROVE  AdaBounded'
<1>1. CASE ProcessMesh
  <2>1. requested \in Seq(AnyChunk) /\ requested # <<>> /\ requested' = Tail(requested)
    BY <1>1 DEF AdaBounded, ProcessMesh
  <2>2. PICK c \in AnyChunk : c = Head(requested)
    BY <2>1, HeadTailProperties
  <2>3. PICK w \in Workers(CompressWorkers) : w = c.chunk % CompressWorkers
    <3>1. c.chunk \in Nat
      BY BoundedFacts
    <3>. QED
      BY <3>1, WorkerOf, AdaAssumption
  <2>4. HasRoom(compression, w) /\ compression' = Enqueued(compression, w, c)
    BY <1>1, <2>2, <2>3 DEF ProcessMesh
  <2>5. compression' \in [Workers(CompressWorkers) -> BoundedWorker]
    BY <2>4, EnqueuedBounded DEF AdaBounded
  <2>6. requested' \in Seq(AnyChunk)
    BY <2>1, HeadTailProperties
  <2>. QED
    BY <1>1, <2>5, <2>6
    DEF ProcessMesh, AdaBounded, Requests, pipeVars, gridVars
<1>2. CASE ProcessFrame
  <2>1. arrived \in Seq(AnyChunk) /\ arrived # <<>> /\ arrived' = Tail(arrived)
    BY <1>2 DEF AdaBounded, ProcessFrame
  <2>2. PICK c \in AnyChunk : c = Head(arrived)
    BY <2>1, HeadTailProperties
  <2>3. PICK w \in Workers(ChunkCount) : w = c.chunk % ChunkCount
    <3>1. c.chunk \in Nat
      BY BoundedFacts
    <3>. QED
      BY <3>1, WorkerOf, AdaAssumption
  <2>4. HasRoom(decompression, w) /\ decompression' = Enqueued(decompression, w, c)
    BY <1>2, <2>2, <2>3 DEF ProcessFrame
  <2>5. decompression' \in [Workers(ChunkCount) -> BoundedWorker]
    BY <2>4, EnqueuedBounded DEF AdaBounded
  <2>6. arrived' \in Seq(AnyChunk)
    BY <2>1, HeadTailProperties
  <2>. QED
    BY <1>2, <2>5, <2>6
    DEF ProcessFrame, AdaBounded, Requests, serverVars, gridVars
<1>. QED
  BY <1>1, <1>2

LEMMA CompressBounded ==
  ASSUME AdaBounded, NEW w \in Workers(CompressWorkers), Compress(w)
  PROVE  AdaBounded'
<1>1. compression \in [Workers(CompressWorkers) -> BoundedWorker]
  BY DEF AdaBounded
<1>2. compression' \in [Workers(CompressWorkers) -> BoundedWorker] /\ compressed' \in Seq(AnyChunk)
  <2>1. CASE compressed' = compressed
    <3>1. compressed' \in Seq(AnyChunk)
      BY <2>1 DEF AdaBounded
    <3>2. \/ compression' = Dequeued(compression, w) /\ compression[w].queue # <<>>
          \/ compression' = Done(compression, w)
      BY DEF Compress, Dequeues
    <3>. QED
      BY <1>1, <3>1, <3>2, DequeuedBounded, DoneBounded
  <2>2. CASE compressed' # compressed
    <3>1. /\ compression' = Done(compression, w) /\ compression[w].work # Idle
          /\ compressed' = Append(compressed, compression[w].work)
      BY <2>2 DEF Compress
    <3>2. PICK c \in AnyChunk : c = compression[w].work
      BY <1>1, <3>1 DEF BoundedWorker
    <3>3. compressed' = Append(compressed, c) /\ compressed \in Seq(AnyChunk)
      BY <3>1, <3>2 DEF AdaBounded
    <3>. QED
      BY <1>1, <3>1, <3>3, DoneBounded, AppendProperties
  <2>. QED
    BY <2>1, <2>2
<1>. QED
  BY <1>2 DEF Compress, AdaBounded, Requests, pipeVars, gridVars

LEMMA DecompressBounded ==
  ASSUME AdaBounded, NEW w \in Workers(ChunkCount), Decompress(w)
  PROVE  AdaBounded'
<1>1. decompression \in [Workers(ChunkCount) -> BoundedWorker]
  BY DEF AdaBounded
<1>2. decompression' \in [Workers(ChunkCount) -> BoundedWorker] /\ decoded' \in Seq(AnyChunk)
  <2>1. CASE decoded' = decoded
    <3>1. decoded' \in Seq(AnyChunk)
      BY <2>1 DEF AdaBounded
    <3>2. \/ decompression' = Dequeued(decompression, w) /\ decompression[w].queue # <<>>
          \/ decompression' = Done(decompression, w)
      BY DEF Decompress, Dequeues
    <3>. QED
      BY <1>1, <3>1, <3>2, DequeuedBounded, DoneBounded
  <2>2. CASE decoded' # decoded
    <3>1. /\ decompression' = Done(decompression, w) /\ decompression[w].work # Idle
          /\ decoded' = Append(decoded, decompression[w].work)
      BY <2>2 DEF Decompress
    <3>2. PICK c \in AnyChunk : c = decompression[w].work
      BY <1>1, <3>1 DEF BoundedWorker
    <3>3. decoded' = Append(decoded, c) /\ decoded \in Seq(AnyChunk)
      BY <3>1, <3>2 DEF AdaBounded
    <3>. QED
      BY <1>1, <3>1, <3>3, DoneBounded, AppendProperties
  <2>. QED
    BY <2>1, <2>2
<1>. QED
  BY <1>2 DEF Decompress, AdaBounded, Requests, serverVars, gridVars

LEMMA VbBounded ==
  ASSUME AdaTypes, AdaBounded, VbArrives \/ VbCleans \/ VbPushes \/ VbRaises
  PROVE  AdaBounded'
<1>1. /\ manager \in Managers /\ Requests \in Seq(AnyList) /\ vbLists \in Seq(AnyList)
      /\ vbPc \in AnyList \cup {Idle} /\ cleaned \in Seq(AnyList)
  BY DEF AdaTypes, AdaBounded
<1>2. CASE VbArrives
  <2>1. vbLists # <<>> /\ vbLists' = Tail(vbLists) /\ vbPc' = Head(vbLists)
    BY <1>2 DEF VbArrives
  <2>2. vbLists' \in Seq(AnyList) /\ vbPc' \in AnyList
    BY <1>1, <2>1, HeadTailProperties
  <2>. QED
    BY <1>2, <2>2 DEF VbArrives, AdaBounded, Requests, serverVars, pipeVars
<1>3. CASE VbCleans
  <2>1. PICK v \in AnyList : v = vbPc
    BY <1>1, <1>3 DEF VbCleans
  <2>2. cleaned' \in Seq(AnyList)
    <3>1. cleaned' = Append(cleaned, v)
      BY <1>3, <2>1 DEF VbCleans
    <3>. QED
      BY <1>1, <3>1, AppendProperties
  <2>. QED
    BY <1>3, <2>2 DEF VbCleans, AdaBounded, Requests, serverVars, pipeVars
<1>4. CASE VbPushes
  <2>1. PICK v \in AnyList : v = vbPc
    BY <1>1, <1>4 DEF VbPushes
  <2>2. PICK q \in Seq(AnyList) : q = Append(Requests, v)
    BY <1>1, AppendProperties
  <2>3. manager' = [manager EXCEPT !.pending_clean_reqs = q]
    BY <1>4, <2>1, <2>2, Zenon DEF VbPushes, Requests
  <2>4. Requests' = q /\ manager'.chunk_counter = manager.chunk_counter
    BY <1>1, <2>3 DEF Managers, Requests
  <2>. QED
    BY <1>4, <2>4 DEF VbPushes, AdaBounded, serverVars, pipeVars
<1>5. CASE VbRaises
  <2>1. Requests' = Requests /\ manager'.chunk_counter = manager.chunk_counter
    BY <1>1, <1>5 DEF VbRaises, Raised, Managers, Requests
  <2>. QED
    BY <1>5, <2>1 DEF VbRaises, AdaBounded, serverVars, pipeVars
<1>. QED
  BY <1>2, <1>3, <1>4, <1>5

LEMMA FrameBounded ==
  ASSUME AdaTypes, RequestsInv, AdaBounded, FrameCleans \/ FrameLowers \/ FramePops
  PROVE  AdaBounded'
<1>1. /\ manager \in Managers /\ Requests \in Seq(AnyList) /\ cleaned \in Seq(AnyList)
      /\ Len(Requests) \in Nat /\ RequestsWait
      /\ UNCHANGED <<serverVars, link, pipeVars, vbLists, vbPc, vbAt>>
  BY LenProperties
  DEF AdaTypes, AdaBounded, RequestsInv, FrameCleans, FrameLowers, FramePops
<1>2. (manager.clean_waiting /\ framePc = "clean") \/ framePc = "pop" => Requests # <<>>
  BY <1>1 DEF RequestsWait, One, Performing
<1>3. /\ cleaned' \in Seq(AnyList) /\ Requests' \in Seq(AnyList)
      /\ manager'.chunk_counter = manager.chunk_counter
  <2>1. CASE FrameCleans
    <3>1. CASE manager.clean_waiting
      <4>1. Requests # <<>> /\ Requests \in Seq(AnyList)
        BY <1>1, <1>2, <2>1, <3>1 DEF FrameCleans
      <4>2. PICK v \in AnyList : v = Last(Requests)
        <5>1. Len(Requests) \in 1..Len(Requests)
          BY <1>1, <4>1
        <5>2. Requests[Len(Requests)] \in AnyList
          BY <1>1, <5>1, ElementOfSeq
        <5>. QED
          BY <5>2 DEF Last
      <4>3. cleaned' = Append(cleaned, v) /\ manager' = manager
        BY <2>1, <3>1, <4>2 DEF FrameCleans, Requests
      <4>. QED
        BY <1>1, <4>3, AppendProperties DEF Requests
    <3>2. CASE ~manager.clean_waiting
      BY <1>1, <2>1, <3>2 DEF FrameCleans, Requests
    <3>. QED
      BY <3>1, <3>2
  <2>2. CASE FrameLowers
    BY <1>1, <2>2 DEF FrameLowers, Managers, Requests
  <2>3. CASE FramePops
    <3>1. PICK q \in Seq(AnyList) : q = Front(Requests)
      BY <1>1, <1>2, <2>3, FrontFacts DEF FramePops
    <3>2. manager' = [manager EXCEPT !.pending_clean_reqs = q]
      BY <2>3, <3>1, Zenon DEF FramePops, Performed, Requests
    <3>. QED
      BY <1>1, <2>3, <3>2 DEF FramePops, Managers, Requests
  <2>. QED
    BY <2>1, <2>2, <2>3
<1>. QED
  BY <1>1, <1>3 DEF AdaBounded, serverVars, pipeVars

\* The count of chunks is bounded because each chunk of a scene arrives once.
LEMMA MergeBounded ==
  ASSUME AdaInv, AdaBounded, FrameArrives \/ FrameMerges \/ FrameFinishes
  PROVE  AdaBounded'
<1>1. /\ AdaTypes /\ manager \in Managers /\ manager.chunk_counter \in 0..ChunkCount
      /\ Requests \in Seq(AnyList)
      /\ UNCHANGED <<serverVars, link, arrived, decompression, vbLists, vbPc, vbAt, cleaned>>
  BY DEF AdaInv, AdaTypes, AdaBounded, FrameArrives, FrameMerges, FrameFinishes, pipeVars
<1>2. /\ Requests' = Requests
      /\ manager'.chunk_counter \in 0..ChunkCount /\ decoded' \in Seq(AnyChunk)
  <2>1. CASE FrameArrives
    <3>1. decoded \in Seq(AnyChunk) /\ decoded # <<>> /\ decoded' = Tail(decoded)
      BY <2>1 DEF AdaBounded, FrameArrives
    <3>2. PICK c \in Chunk : c = Head(decoded)
      BY <1>1, <3>1, HeadTailProperties DEF AdaTypes
    <3>. DEFINE p == Pended(Counted(manager, c.scene), c)
    <3>3. /\ manager' = [p EXCEPT !.mesh_processing = @ \/ p.chunk_counter = ChunkCount]
          /\ framePc' = IF p.chunk_counter = ChunkCount THEN "merge" ELSE "idle"
      BY <2>1, <3>2 DEF FrameArrives
    <3>4. Requests' = Requests
      BY <1>1, <3>3, ArrivalFields DEF Requests
    <3>5. manager'.chunk_counter \in 0..ChunkCount
      BY <2>1, FrameArrivesStep
    <3>. HIDE DEF p
    <3>. QED
      BY <3>1, <3>3, <3>4, <3>5, HeadTailProperties
  <2>2. CASE FrameMerges
    <3>1. PICK q : q = Remaining(manager.pending_chunks)
      OBVIOUS
    <3>2. manager' = [manager EXCEPT !.pending_chunks = q]
      BY <2>2, <3>1 DEF FrameMerges
    <3>. QED
      BY <1>1, <2>2, <3>2 DEF FrameMerges, Requests, Managers, pipeVars, AdaBounded
  <2>3. CASE FrameFinishes
    <3>1. PICK e : e = [manager EXCEPT !.last_processed = manager.current_id]
      OBVIOUS
    <3>2. /\ e \in Managers /\ e.pending_clean_reqs = manager.pending_clean_reqs
          /\ e.chunk_counter = manager.chunk_counter
      BY <1>1, <3>1 DEF Managers
    <3>3. manager' = [e EXCEPT !.mesh_processing = FALSE]
      <4>1. manager' = [manager EXCEPT !.last_processed = manager.current_id,
                                       !.mesh_processing = FALSE]
        BY <2>3 DEF FrameFinishes
      <4>. QED
        BY <1>1, <3>1, <4>1 DEF Managers
    <3>. QED
      BY <1>1, <2>3, <3>2, <3>3 DEF FrameFinishes, Requests, Managers, pipeVars, AdaBounded
  <2>. QED
    BY <2>1, <2>2, <2>3
<1>. QED
  BY <1>1, <1>2 DEF AdaBounded, serverVars

LEMMA AdaBoundedStep == AdaInv /\ RequestsInv /\ AdaBounded /\ [AdaNext]_adaVars => AdaBounded'
<1>. SUFFICES ASSUME AdaInv, RequestsInv, AdaBounded, [AdaNext]_adaVars PROVE AdaBounded'
  OBVIOUS
<1>1. AdaTypes
  BY DEF AdaInv
<1>2. CASE RequestScene
  BY <1>2, RequestSceneBounded
<1>3. CASE SendVbList \/ SendSrOutput
  BY <1>3, SendBounded
<1>4. CASE ReceiveSrOutput
  BY <1>4, ReceiveSrOutputBounded
<1>5. CASE ProcessMesh \/ ProcessFrame
  BY <1>5, ProcessBounded
<1>6. CASE \E w \in Workers(CompressWorkers) : Compress(w)
  BY <1>6, CompressBounded
<1>7. CASE \E w \in Workers(ChunkCount) : Decompress(w)
  BY <1>7, DecompressBounded
<1>8. CASE VbArrives \/ VbCleans \/ VbPushes \/ VbRaises
  BY <1>1, <1>8, VbBounded
<1>9. CASE FrameCleans \/ FrameLowers \/ FramePops
  BY <1>1, <1>9, FrameBounded
<1>10. CASE FrameArrives \/ FrameMerges \/ FrameFinishes
  BY <1>10, MergeBounded
<1>11. CASE AdaFinished \/ UNCHANGED adaVars
  <2>1. UNCHANGED adaVars
    BY <1>11 DEF AdaFinished
  <2>. QED
    BY <2>1 DEF AdaBounded, Requests, adaVars, serverVars, pipeVars, gridVars
<1>. QED
  BY <1>2, <1>3, <1>4, <1>5, <1>6, <1>7, <1>8, <1>9, <1>10, <1>11 DEF AdaNext, AdaStep

LEMMA AdaTypesOfBounded == AdaTypes /\ RequestsInv /\ AdaBounded => AdaTypeOK
<1>. SUFFICES ASSUME AdaTypes, RequestsInv, AdaBounded PROVE AdaTypeOK
  OBVIOUS
<1>1. requested \o compressed \o arrived \o decoded \in Seq(AnyChunk)
  <2>1. requested \o compressed \in Seq(AnyChunk)
    BY ConcatProperties DEF AdaBounded
  <2>2. requested \o compressed \o arrived \in Seq(AnyChunk)
    BY <2>1, ConcatProperties DEF AdaBounded
  <2>. QED
    BY <2>2, ConcatProperties DEF AdaBounded
<1>2. ASSUME NEW pool \in {compression, decompression}, NEW w \in DOMAIN pool
      PROVE  Len(pool[w].queue) <= QueueCap /\ pool[w].work \in AnyChunk \cup {Idle}
  <2>1. pool[w] \in BoundedWorker
    BY <1>2 DEF AdaBounded
  <2>. QED
    BY <2>1 DEF BoundedWorker
<1>3. late \subseteq AnyList
  <2>1. 0..(scenes - 1) \subseteq 0..(MaxScenes - 1)
    BY AdaAssumption DEF AdaBounded
  <2>2. Published \subseteq AnyList
    BY <2>1 DEF Published, AnyList
  <2>. QED
    BY <2>2 DEF RequestsInv
<1>. QED
  BY <1>1, <1>2, <1>3 DEF AdaTypes, AdaBounded, AdaTypeOK

\* The queues of the workers keep their bound, chunks and lists stay what they are, the count
\* of chunks never passes a scene's, and back() and pop_back() find a request, whenever the
\* lists come.
THEOREM AdaTypesBounded == AdaSpec => [](AdaTypeOK /\ RequestsWait)
<1>1. AdaInv /\ RequestsInv /\ AdaBounded => AdaTypeOK /\ RequestsWait
  BY AdaTypesOfBounded DEF AdaInv, RequestsInv
<1>2. CleanInv => AdaInv /\ RequestsInv
  BY DEF CleanInv
<1>. QED
  BY <1>1, <1>2, BoundedInitial, AdaBoundedStep, AdaRequestsInductive, PTL DEF AdaSpec

=============================================================================
