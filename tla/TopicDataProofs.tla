--------------------------- MODULE TopicDataProofs --------------------------
(***************************************************************************)
(* What the data of a topic are: the events a subscription is handed, the  *)
(* size of a buffer and the slots of the ring, from the types and the lock *)
(* discipline that TopicProofs establishes.                                *)
(***************************************************************************)
EXTENDS TopicProofs, FiniteSetTheorems

----------------------------------------------------------------------------
(* Lemmas about remainders.                                                *)

\* Quotient and remainder of a division by a positive number.
LEMMA Division ==
  ASSUME NEW x \in Int, NEW m \in Nat \ {0}
  PROVE  x \div m \in Int /\ x % m \in 0..(m - 1) /\ x = m * (x \div m) + (x % m)
OBVIOUS

\* Adding to a remainder is adding to the number.
LEMMA RemainderAdd ==
  ASSUME NEW x \in Int, NEW m \in Nat \ {0}, NEW d \in Int
  PROVE  ((x % m) + d) % m = (x + d) % m
<1>. DEFINE q == x \div m
            r == x % m
            t == (r + d) \div m
            u == (r + d) % m
            v == (x + d) \div m
            w == (x + d) % m
<1>1. q \in Int /\ r \in 0..(m - 1) /\ x = m * q + r
  BY Division
<1>2. t \in Int /\ u \in 0..(m - 1) /\ r + d = m * t + u
  <2>1. r + d \in Int
    BY <1>1
  <2>. HIDE DEF r
  <2>. QED
    BY <2>1, Division
<1>3. v \in Int /\ w \in 0..(m - 1) /\ x + d = m * v + w
  <2>1. x + d \in Int
    OBVIOUS
  <2>. QED
    BY <2>1, Division
<1>. HIDE DEF q, r, t, u, v, w
<1>4. x + d = m * (q + t) + u
  BY <1>1, <1>2
<1>5. PICK k \in Int : k = q + t
  BY <1>1, <1>2
<1>6. m * (k - v) = w - u /\ m * (v - k) = u - w
  <2>1. m * k + u = m * v + w
    BY <1>3, <1>4, <1>5
  <2>2. m * (k - v) = m * k - m * v /\ m * (v - k) = m * v - m * k
    BY <1>3, <1>5
  <2>3. m * k \in Int /\ m * v \in Int
    BY <1>3, <1>5
  <2>. QED
    BY <1>2, <1>3, <2>1, <2>2, <2>3
<1>7. (k - v >= 1 => m * (k - v) >= m) /\ (v - k >= 1 => m * (v - k) >= m)
  BY <1>3, <1>5
<1>8. k = v
  BY <1>2, <1>3, <1>5, <1>6, <1>7
<1>9. u = w
  BY <1>2, <1>3, <1>5, <1>6, <1>8
<1>. QED
  BY <1>9 DEF u, w, r

\* Numbers less than m apart have different remainders.
LEMMA RemaindersDiffer ==
  ASSUME NEW m \in Nat \ {0}, NEW i \in Int, NEW j \in Int, i < j, j < i + m
  PROVE  i % m # j % m
<1>. DEFINE q == i \div m
            t == j \div m
            r == i % m
<1>1. q \in Int /\ r \in 0..(m - 1) /\ i = m * q + r
  BY Division
<1>2. t \in Int /\ j = m * t + (j % m)
  BY Division
<1>. SUFFICES ASSUME r = j % m
              PROVE  FALSE
  OBVIOUS
<1>. HIDE DEF q, t, r
<1>3. j - i = m * (t - q)
  BY <1>1, <1>2
<1>4. t - q >= 1 => m * (t - q) >= m
  BY <1>1, <1>2
<1>5. t - q <= 0 => m * (t - q) <= 0
  BY <1>1, <1>2
<1>6. t - q \in Int
  BY <1>1, <1>2
<1>. QED
  BY <1>3, <1>4, <1>5, <1>6

----------------------------------------------------------------------------
(* Buffers.  queue_size_ counts the queue, a put() between its two steps   *)
(* and, the other way, a consumer between its two steps.                   *)

Arriving(b) ==
  IF \E p \in Putters : put_pc[p] = "enqueue" /\ at[p] = b THEN 1 ELSE 0

Waiting(b) == IF buffer_pc[b] = "wait" THEN 1 ELSE 0

Held(b) == Len(buffer_queue[b]) + Arriving(b) - Waiting(b)

USE DEF ringVars, listVars, putVars, subVars, bufferVars, readVars

BufferInv ==
  /\ \A p \in Putters : put_pc[p] = "enqueue" => at[p] \in Buffers
  /\ \A b \in Buffers : buffer_size[b] = Held(b) % SizeModulus
  /\ \A b \in Buffers \ Blocking : Held(b) >= 0

\* What the invariant is about is an integer.
LEMMA HeldType ==
  ASSUME TypeOK, NEW b \in Buffers
  PROVE  /\ Len(buffer_queue[b]) \in Nat
         /\ Arriving(b) \in {0, 1} /\ Waiting(b) \in {0, 1}
         /\ Held(b) \in Int
<1>1. Len(buffer_queue[b]) \in Nat
  BY LenProperties DEF TypeOK
<1>. QED
  BY <1>1 DEF Arriving, Waiting, Held

\* Initially the buffers are empty.
LEMMA BufferInit == Init => BufferInv
<1>. SUFFICES ASSUME Init
              PROVE  BufferInv
  OBVIOUS
<1>1. TypeOK
  BY TypeInit
<1>2. \A b \in Buffers : Held(b) = 0
  BY EmptySeq DEF Init, Held, Arriving, Waiting
<1>3. 0 % SizeModulus = 0
  BY TopicAssumption
<1>. QED
  BY <1>2, <1>3 DEF Init, BufferInv

\* A step that leaves the buffers alone and nobody's place in one.
LEMMA BufferSame ==
  ASSUME BufferInv, UNCHANGED bufferVars,
         \A p \in Putters : put_pc[p] = "enqueue" <=> put_pc'[p] = "enqueue",
         \A p \in Putters : put_pc'[p] = "enqueue" => at'[p] = at[p]
  PROVE  BufferInv'
<1>1. \A b \in Buffers : Arriving(b)' = Arriving(b) /\ Waiting(b)' = Waiting(b)
  BY DEF Arriving, Waiting
<1>2. \A b \in Buffers : Held(b)' = Held(b)
  BY <1>1 DEF Held
<1>. QED
  BY <1>2 DEF BufferInv

\* The steps of put() count what they add to a buffer.
LEMMA BufferPut ==
  ASSUME IInv, BufferInv, NEW p \in Putters, PutIndex(p) \/ PutStep(p)
  PROVE  BufferInv'
<1>. USE TopicAssumption DEF IInv, TypeOK
<1>1. CASE \/ PutIndex(p) \/ PutStore(p) \/ PutIncrement(p) \/ PutLock(p)
           \/ PutCount(p) \/ PutReturn(p)
  BY <1>1, BufferSame
  DEF PutIndex, PutStore, PutIncrement, PutLock, PutCount, PutReturn
<1>2. ASSUME NEW s \in Subscriptions, PutEnqueue(p, s)
      PROVE  BufferInv'
  BY <1>2, BufferSame DEF PutEnqueue
<1>3. ASSUME NEW b \in Buffers, PutBufferSize(p, b)
      PROVE  BufferInv'
  <2>1. \A q \in Putters : put_pc[q] # "enqueue"
    BY <1>3 DEF PutBufferSize, LockHeld
  <2>2. /\ put_pc' = [put_pc EXCEPT ![p] = "enqueue"] /\ at' = [at EXCEPT ![p] = b]
        /\ buffer_size' = [buffer_size EXCEPT ![b] = (@ + 1) % SizeModulus]
        /\ UNCHANGED <<buffer_pc, buffer_queue>>
    BY <1>3 DEF PutBufferSize
  <2>3. /\ \A c \in Buffers : Waiting(c)' = Waiting(c)
        /\ \A c \in Buffers : Arriving(c) = 0
        /\ \A c \in Buffers : Arriving(c)' = IF c = b THEN 1 ELSE 0
    BY <2>1, <2>2 DEF Waiting, Arriving
  <2>4. \A c \in Buffers : Held(c)' = IF c = b THEN Held(c) + 1 ELSE Held(c)
    <3>1. \A c \in Buffers : /\ Len(buffer_queue[c]) \in Nat
                            /\ Waiting(c) \in {0, 1}
      BY HeldType
    <3>2. \A c \in Buffers : buffer_queue'[c] = buffer_queue[c]
      BY <2>2
    <3>. QED
      BY ONLY <2>3, <3>1, <3>2 DEF Held
  <2>5. (Held(b) + 1) % SizeModulus = buffer_size'[b]
    <3>1. Held(b) \in Int
      BY HeldType
    <3>2. ((Held(b) % SizeModulus) + 1) % SizeModulus = (Held(b) + 1) % SizeModulus
      <4>1. SizeModulus \in Nat \ {0} /\ 1 \in Int
        OBVIOUS
      <4>. QED
        BY ONLY <3>1, <4>1, RemainderAdd, Zenon
    <3>. QED
      BY <2>2, <3>2 DEF BufferInv
  <2>6. \A c \in Buffers : buffer_size'[c] = Held(c)' % SizeModulus
    BY <2>2, <2>4, <2>5 DEF BufferInv
  <2>7. \A c \in Buffers \ Blocking : Held(c)' >= 0
    <3>1. \A c \in Buffers \ Blocking : Held(c) \in Int /\ Held(c) >= 0
      BY HeldType DEF BufferInv
    <3>. QED
      BY ONLY <2>4, <3>1
  <2>8. \A q \in Putters : put_pc'[q] = "enqueue" => at'[q] \in Buffers
    BY <2>1, <2>2
  <2>. QED
    BY <2>6, <2>7, <2>8 DEF BufferInv
<1>4. CASE PutBufferEnqueue(p)
  <2>1. \A q \in Putters : put_pc[q] = "enqueue" <=> q = p
    BY <1>4 DEF PutBufferEnqueue, LockHeld
  <2>. DEFINE b == at[p]
  <2>2. b \in Buffers
    BY <2>1 DEF BufferInv
  <2>3. /\ put_pc' = [put_pc EXCEPT ![p] = "visit"]
        /\ buffer_queue' = [buffer_queue EXCEPT ![b] = Append(@, EventOf(p))]
        /\ UNCHANGED <<buffer_pc, buffer_size>>
    BY <1>4 DEF PutBufferEnqueue
  <2>4. Len(Append(buffer_queue[b], EventOf(p))) = Len(buffer_queue[b]) + 1
    <3>1. EventOf(p) \in Event /\ buffer_queue[b] \in Seq(Event)
      BY <2>1, <2>2, EventOfType
    <3>. QED
      BY <3>1, AppendProperties
  <2>5. /\ \A c \in Buffers : Waiting(c)' = Waiting(c)
        /\ \A c \in Buffers : Arriving(c)' = 0
        /\ \A c \in Buffers : Arriving(c) = IF c = b THEN 1 ELSE 0
    BY <2>1, <2>3 DEF Waiting, Arriving
  <2>. HIDE DEF b
  <2>6. \A c \in Buffers : Held(c)' = Held(c)
    <3>1. \A c \in Buffers : /\ Len(buffer_queue[c]) \in Nat
                            /\ Waiting(c) \in {0, 1}
      BY HeldType
    <3>2. \A c \in Buffers : Len(buffer_queue'[c]) =
            IF c = b THEN Len(buffer_queue[c]) + 1 ELSE Len(buffer_queue[c])
      BY <2>2, <2>3, <2>4
    <3>. QED
      BY ONLY <2>5, <3>1, <3>2 DEF Held
  <2>7. \A q \in Putters : put_pc'[q] # "enqueue"
    BY <2>1, <2>3
  <2>. QED
    BY <2>3, <2>6, <2>7 DEF BufferInv
<1>. QED
  BY <1>1, <1>2, <1>3, <1>4 DEF PutStep

\* The consumer's steps count what they take.
LEMMA BufferConsume ==
  ASSUME IInv, BufferInv, NEW b \in Buffers, BufferDequeue(b) \/ BufferTake(b)
  PROVE  BufferInv'
<1>. USE TopicAssumption DEF IInv, TypeOK
<1>1. \A c \in Buffers : Arriving(c)' = Arriving(c)
  BY DEF BufferDequeue, BufferTake, Arriving
<1>2. \A c \in Buffers : /\ Len(buffer_queue[c]) \in Nat
                        /\ Arriving(c) \in {0, 1}
  BY HeldType
<1>3. \A q \in Putters : put_pc'[q] = "enqueue" => at'[q] \in Buffers
  BY DEF BufferDequeue, BufferTake, BufferInv
<1>4. CASE BufferDequeue(b)
  <2>1. /\ buffer_pc[b] = "idle" /\ buffer_pc' = [buffer_pc EXCEPT ![b] = "wait"]
        /\ buffer_size' = [buffer_size EXCEPT ![b] = (@ - 1) % SizeModulus]
        /\ UNCHANGED buffer_queue
        /\ b \in Blocking \/ buffer_size[b] > 0
    BY <1>4 DEF BufferDequeue, Decremented, SizeAllows
  <2>2. \A c \in Buffers : Held(c)' = IF c = b THEN Held(c) - 1 ELSE Held(c)
    <3>1. \A c \in Buffers : Waiting(c)' = IF c = b THEN 1 ELSE Waiting(c)
      BY <2>1 DEF Waiting
    <3>2. Waiting(b) = 0 /\ \A c \in Buffers : Waiting(c) \in {0, 1}
      BY <2>1 DEF Waiting
    <3>3. \A c \in Buffers : buffer_queue'[c] = buffer_queue[c]
      BY <2>1
    <3>. QED
      BY ONLY <1>1, <1>2, <3>1, <3>2, <3>3 DEF Held
  <2>3. (Held(b) - 1) % SizeModulus = buffer_size'[b]
    <3>1. Held(b) \in Int
      BY HeldType
    <3>2. ((Held(b) % SizeModulus) + (-1)) % SizeModulus = (Held(b) + (-1)) % SizeModulus
      <4>1. SizeModulus \in Nat \ {0} /\ (-1) \in Int
        OBVIOUS
      <4>. QED
        BY ONLY <3>1, <4>1, RemainderAdd, Zenon
    <3>. QED
      BY <2>1, <3>1, <3>2 DEF BufferInv
  <2>4. b \notin Blocking => Held(b) >= 1
    <3>1. 0 % SizeModulus = 0
      OBVIOUS
    <3>2. b \notin Blocking => Held(b) >= 0 /\ Held(b) # 0
      BY <2>1, <3>1 DEF BufferInv
    <3>. QED
      BY <3>2, HeldType
  <2>5. \A c \in Buffers : buffer_size'[c] = Held(c)' % SizeModulus
    BY <2>1, <2>2, <2>3 DEF BufferInv
  <2>6. \A c \in Buffers \ Blocking : Held(c)' >= 0
    <3>1. \A c \in Buffers \ Blocking : Held(c) \in Int /\ Held(c) >= 0
      BY HeldType DEF BufferInv
    <3>. QED
      BY ONLY <2>2, <2>4, <3>1
  <2>. QED
    BY <1>3, <2>5, <2>6 DEF BufferInv
<1>5. CASE BufferTake(b)
  <2>1. PICK i \in Takeable(buffer_queue[b]) :
          buffer_queue' = [buffer_queue EXCEPT ![b] = Without(@, i)]
    BY <1>5 DEF BufferTake
  <2>2. /\ buffer_pc[b] = "wait" /\ buffer_pc' = [buffer_pc EXCEPT ![b] = "idle"]
        /\ UNCHANGED buffer_size
    BY <1>5 DEF BufferTake
  <2>3. Len(Without(buffer_queue[b], i)) = Len(buffer_queue[b]) - 1
    BY WithoutLen DEF Takeable
  <2>4. \A c \in Buffers : Held(c)' = Held(c)
    <3>1. \A c \in Buffers : Waiting(c)' = IF c = b THEN 0 ELSE Waiting(c)
      BY <2>2 DEF Waiting
    <3>2. Waiting(b) = 1 /\ \A c \in Buffers : Waiting(c) \in {0, 1}
      BY <2>2 DEF Waiting
    <3>3. \A c \in Buffers : Len(buffer_queue'[c]) =
            IF c = b THEN Len(buffer_queue[c]) - 1 ELSE Len(buffer_queue[c])
      BY <2>1, <2>3
    <3>. QED
      BY ONLY <1>1, <1>2, <3>1, <3>2, <3>3 DEF Held
  <2>. QED
    BY <1>3, <2>2, <2>4 DEF BufferInv
<1>. QED
  BY <1>4, <1>5

\* Every step of every thread keeps the count.
LEMMA BufferStep == IInv /\ BufferInv /\ [Next]_vars => BufferInv'
<1>. SUFFICES ASSUME IInv, BufferInv, [Next]_vars
              PROVE  BufferInv'
  OBVIOUS
<1>1. ASSUME NEW s \in Subscriptions, Schedule(s) \/ ThreadStep(s)
      PROVE  BufferInv'
  BY <1>1, BufferSame
  DEF Schedule, ThreadStep, ThreadCheck, ThreadDequeue, ThreadIdle,
      CallbackReturn, ThreadOnStop
<1>2. ASSUME NEW x \in Stoppers, StopCall(x) \/ StopStep(x)
      PROVE  BufferInv'
  BY <1>2, BufferSame
  DEF StopCall, StopStep, StopLock, StopFlag, StopJoin, StopReturn
<1>3. ASSUME NEW b \in Buffers, GetBuffer(b)
      PROVE  BufferInv'
  BY <1>3, BufferSame DEF GetBuffer
<1>4. ASSUME NEW r \in Readers, GetIndex(r) \/ GetSlot(r)
      PROVE  BufferInv'
  BY <1>4, BufferSame DEF GetIndex, GetSlot
<1>5. CASE UNCHANGED vars
  BY <1>5, BufferSame DEF vars
<1>. QED
  BY <1>1, <1>2, <1>3, <1>4, <1>5, BufferPut, BufferConsume DEF Next, Finished

\* The count holds in every reachable state.
THEOREM BufferInductive == Spec => []BufferInv
  BY BufferInit, BufferStep, Inductive, PTL DEF Spec

\* One put() at most is between its two steps in a buffer.
LEMMA OneArrives ==
  ASSUME IInv, NEW b \in Buffers
  PROVE  Cardinality({p \in Putters : put_pc[p] = "enqueue" /\ at[p] = b}) = Arriving(b)
<1>. DEFINE arriving == {p \in Putters : put_pc[p] = "enqueue" /\ at[p] = b}
<1>1. \A p \in arriving : p = lock
  BY DEF IInv, LockHeld
<1>2. CASE arriving = {}
  BY <1>2, FS_EmptySet DEF Arriving
<1>3. CASE arriving # {}
  <2>1. arriving = {lock}
    BY <1>1, <1>3
  <2>2. Arriving(b) = 1
    BY <1>3 DEF Arriving
  <2>. QED
    BY <2>1, <2>2, FS_Singleton
<1>. QED
  BY <1>2, <1>3

\* size() is the length of the queue up to the steps under way, modulo the width
\* of size_t, for any number of publishers and any width.
THEOREM BufferSizeRight == Spec => []BufferSizeExact
<1>1. IInv /\ BufferInv => BufferSizeExact
  <2>. SUFFICES ASSUME IInv, BufferInv, NEW b \in Buffers
                PROVE  buffer_size[b] =
                         (Len(buffer_queue[b]) + Arriving(b) - Waiting(b)) % SizeModulus
    BY OneArrives DEF BufferSizeExact, Waiting
  <2>. QED
    BY DEF BufferInv, Held
<1>. QED
  BY <1>1, Inductive, BufferInductive, PTL

\* A consumer that looks at size() before it dequeues never waits for an event
\* that nobody is enqueuing.
THEOREM PollingServed == Spec => []PollingNeverStarves
<1>1. IInv /\ BufferInv => PollingNeverStarves
  <2>. SUFFICES ASSUME IInv, BufferInv, NEW b \in Buffers \ Blocking,
                       buffer_pc[b] = "wait", buffer_queue[b] = <<>>
                PROVE  \E p \in Putters : put_pc[p] = "enqueue" /\ at[p] = b
    BY DEF PollingNeverStarves
  <2>1. Len(buffer_queue[b]) = 0 /\ Waiting(b) = 1
    BY EmptySeq DEF Waiting
  <2>2. Arriving(b) # 0
    BY <2>1, HeldType DEF BufferInv, Held, IInv
  <2>. QED
    BY <2>2 DEF Arriving
<1>. QED
  BY <1>1, Inductive, BufferInductive, PTL

----------------------------------------------------------------------------
(* The ring, when one thread publishes.                                    *)

\* The number of events that are in their slots.
Stored(w) == IF put_pc[w] = "increment" THEN latest_index + 1 ELSE latest_index

RingInv(w) ==
  /\ puts[w] = IF put_pc[w] \in {"store", "increment"} THEN latest_index + 1
                                                       ELSE latest_index
  /\ put_pc[w] \in {"store", "increment"} => index[w] = puts[w] % RingSize
  /\ \A k \in 0..Stored(w) :
       k + RingSize > Stored(w) => HoldsNth(latest_buffer[k % RingSize], w, k)
  /\ \A k \in 1..Stored(w) : latest_buffer[k % RingSize] # NoEvent
  /\ \A r \in Readers : read_index[r] <= latest_index
  /\ \A r \in Readers :
       read_pc[r] = "idle" /\ read_index[r] > 0 => got[r] # NoEvent

\* Before the first put() every slot is empty.
LEMMA RingInit ==
  ASSUME NEW w, Putters = {w}, Init
  PROVE  RingInv(w)
<1>1. \A k \in 0..0 : k % RingSize \in 0..(RingSize - 1)
  BY TopicAssumption
<1>. QED
  BY <1>1 DEF Init, RingInv, Stored, HoldsNth

\* A step that leaves the ring and its indices alone, and no stage of put() that
\* the invariant speaks of begins or ends.
LEMMA RingSame ==
  ASSUME NEW w, Putters = {w}, RingInv(w), UNCHANGED <<ringVars, puts, index, readVars>>,
         put_pc'[w] \in {"store", "increment"} \/ put_pc[w] \in {"store", "increment"}
           => put_pc'[w] = put_pc[w]
  PROVE  RingInv(w)'
<1>1. Stored(w)' = Stored(w)
  BY DEF Stored
<1>. QED
  BY <1>1 DEF RingInv

\* put() fills the slot of the next event before it moves the index on.
LEMMA RingPut ==
  ASSUME NEW w, Putters = {w}, IInv, RingInv(w), PutIndex(w) \/ PutStep(w)
  PROVE  RingInv(w)'
<1>1. /\ latest_index \in Nat /\ puts[w] \in Nat
      /\ latest_buffer \in [0..(RingSize - 1) -> Event \cup {NoEvent}]
      /\ put_pc \in [{w} -> {"idle", "store", "increment", "lock", "visit",
                              "count", "enqueue"}]
      /\ puts \in [{w} -> Nat] /\ index \in [{w} -> 0..(RingSize - 1)]
      /\ RingSize \in Nat \ {0}
  BY TopicAssumption DEF IInv, TypeOK
<1>2. CASE PutIndex(w)
  <2>1. /\ put_pc[w] = "idle" /\ put_pc' = [put_pc EXCEPT ![w] = "store"]
        /\ puts' = [puts EXCEPT ![w] = @ + 1]
        /\ index' = [index EXCEPT ![w] = (latest_index + 1) % RingSize]
        /\ UNCHANGED <<latest_index, latest_buffer, read_pc, read_index, got>>
    BY <1>2 DEF PutIndex, NextIndex
  <2>2. Stored(w)' = Stored(w)
    BY <1>1, <2>1 DEF Stored
  <2>3. puts'[w] = latest_index + 1 /\ index'[w] = puts'[w] % RingSize
    BY <1>1, <2>1 DEF RingInv
  <2>. QED
    BY ONLY RingInv(w), <1>1, <2>1, <2>2, <2>3 DEF RingInv
<1>3. CASE PutStore(w)
  <2>1. /\ put_pc[w] = "store" /\ put_pc' = [put_pc EXCEPT ![w] = "increment"]
        /\ latest_buffer' = [latest_buffer EXCEPT ![index[w]] = EventOf(w)]
        /\ UNCHANGED <<latest_index, puts, index, read_pc, read_index, got>>
    BY <1>3 DEF PutStore
  <2>2. /\ Stored(w) = latest_index /\ Stored(w)' = latest_index + 1
        /\ puts[w] = latest_index + 1 /\ index[w] = puts[w] % RingSize
    BY <1>1, <2>1 DEF Stored, RingInv
  <2>3. /\ EventOf(w) = [from |-> w, no |-> puts[w]]
        /\ EventOf(w) # NoEvent
    <3>1. EventOf(w) \in Event
      BY <2>1, EventOfType DEF IInv
    <3>. QED
      BY <3>1, NoEventAssumption DEF EventOf
  <2>4. \A k \in Nat : k % RingSize \in 0..(RingSize - 1)
    BY <1>1
  <2>5. ASSUME NEW k \in 0..Stored(w)', k + RingSize > Stored(w)'
        PROVE  HoldsNth(latest_buffer'[k % RingSize], w, k)
    <3>1. CASE k = puts[w]
      BY <1>1, <2>1, <2>2, <2>3, <3>1 DEF HoldsNth
    <3>2. CASE k # puts[w]
      <4>1. k < puts[w] /\ puts[w] < k + RingSize /\ k \in Int /\ puts[w] \in Int
        BY <1>1, <2>2, <2>5, <3>2
      <4>2. k % RingSize # puts[w] % RingSize
        BY <1>1, <4>1, RemaindersDiffer
      <4>3. latest_buffer'[k % RingSize] = latest_buffer[k % RingSize]
        BY <1>1, <2>1, <2>2, <2>4, <2>5, <4>2
      <4>4. k \in 0..Stored(w) /\ k + RingSize > Stored(w)
        BY <1>1, <2>2, <4>1
      <4>. QED
        BY <4>3, <4>4 DEF RingInv
    <3>. QED
      BY <3>1, <3>2
  <2>6. ASSUME NEW k \in 1..Stored(w)'
        PROVE  latest_buffer'[k % RingSize] # NoEvent
    <3>1. CASE k % RingSize = index[w]
      BY <1>1, <2>1, <2>3, <3>1
    <3>2. CASE k % RingSize # index[w]
      <4>1. k \in 1..Stored(w)
        BY <1>1, <2>2, <2>6, <3>2, SMTT(30)
      <4>2. latest_buffer'[k % RingSize] = latest_buffer[k % RingSize]
        BY <1>1, <2>1, <2>2, <2>4, <2>6, <3>2
      <4>. QED
        BY <4>1, <4>2 DEF RingInv
    <3>. QED
      BY <3>1, <3>2
  <2>7. puts'[w] = latest_index' + 1 /\ index'[w] = puts'[w] % RingSize
    BY <2>1, <2>2
  <2>8. put_pc'[w] = "increment"
    BY <1>1, <2>1
  <2>9. /\ \A r \in Readers : read_index'[r] <= latest_index'
        /\ \A r \in Readers :
             read_pc'[r] = "idle" /\ read_index'[r] > 0 => got'[r] # NoEvent
    BY <2>1 DEF RingInv
  <2>. QED
    BY ONLY <2>5, <2>6, <2>7, <2>8, <2>9 DEF RingInv
<1>4. CASE PutIncrement(w)
  <2>1. /\ put_pc[w] = "increment" /\ put_pc' = [put_pc EXCEPT ![w] = "lock"]
        /\ latest_index' = latest_index + 1
        /\ UNCHANGED <<latest_buffer, puts, index, read_pc, read_index, got>>
    BY <1>4 DEF PutIncrement
  <2>2. Stored(w)' = Stored(w) /\ put_pc'[w] = "lock" /\ puts'[w] = latest_index'
    BY <1>1, <2>1 DEF Stored, RingInv
  <2>3. \A r \in Readers : read_index'[r] <= latest_index'
    <3>1. \A r \in Readers : read_index[r] \in Nat /\ read_index[r] <= latest_index
      BY DEF IInv, TypeOK, RingInv
    <3>. QED
      BY <1>1, <2>1, <3>1
  <2>. QED
    BY ONLY RingInv(w), <2>1, <2>2, <2>3 DEF RingInv
<1>5. CASE \/ PutLock(w) \/ PutCount(w) \/ PutReturn(w) \/ PutBufferEnqueue(w)
           \/ \E s \in Subscriptions : PutEnqueue(w, s)
           \/ \E b \in Buffers : PutBufferSize(w, b)
  <2>1. UNCHANGED <<ringVars, puts, index, readVars>>
    BY <1>5 DEF PutLock, PutEnqueue, PutCount, PutBufferSize, PutBufferEnqueue,
                PutReturn
  <2>2. /\ put_pc[w] \notin {"store", "increment"}
        /\ put_pc'[w] \notin {"store", "increment"}
    BY <1>1, <1>5 DEF PutLock, PutEnqueue, PutCount, PutBufferSize,
                      PutBufferEnqueue, PutReturn
  <2>. QED
    BY <2>1, <2>2, RingSame
<1>. QED
  BY <1>2, <1>3, <1>4, <1>5 DEF PutStep

\* get() reads the slot of an index that was the latest at some moment.
LEMMA RingRead ==
  ASSUME NEW w, Putters = {w}, IInv, RingInv(w),
         NEW r \in Readers, GetIndex(r) \/ GetSlot(r)
  PROVE  RingInv(w)'
<1>1. /\ latest_index \in Nat
      /\ read_index \in [Readers -> Nat] /\ read_pc \in [Readers -> {"idle", "slot"}]
      /\ got \in [Readers -> Event \cup {NoEvent}]
      /\ RingSize \in Nat \ {0}
  BY TopicAssumption DEF IInv, TypeOK
<1>2. UNCHANGED <<latest_index, latest_buffer, put_pc, puts, index>>
  BY DEF GetIndex, GetSlot
<1>3. Stored(w)' = Stored(w)
  BY <1>2 DEF Stored
<1>4. /\ \A q \in Readers : read_index'[q] <= latest_index
      /\ \A q \in Readers :
           read_pc'[q] = "idle" /\ read_index'[q] > 0 => got'[q] # NoEvent
  <2>1. CASE GetIndex(r)
    BY <1>1, <2>1 DEF GetIndex, RingInv
  <2>2. CASE GetSlot(r)
    <3>1. read_index[r] > 0 => latest_buffer[read_index[r] % RingSize] # NoEvent
      BY <1>1 DEF RingInv, Stored
    <3>. QED
      BY <1>1, <2>2, <3>1 DEF GetSlot, SlotOf, RingInv
  <2>. QED
    BY <2>1, <2>2
<1>. QED
  BY ONLY RingInv(w), <1>2, <1>3, <1>4 DEF RingInv

\* Every step of every thread keeps the ring.
LEMMA RingStep ==
  ASSUME NEW w, Putters = {w}
  PROVE  IInv /\ RingInv(w) /\ [Next]_vars => RingInv(w)'
<1>. SUFFICES ASSUME IInv, RingInv(w), [Next]_vars
              PROVE  RingInv(w)'
  OBVIOUS
<1>1. ASSUME UNCHANGED <<ringVars, putVars, readVars>>
      PROVE  RingInv(w)'
  BY <1>1, RingSame
<1>2. ASSUME NEW s \in Subscriptions, Schedule(s) \/ ThreadStep(s)
      PROVE  RingInv(w)'
  BY <1>1, <1>2
  DEF Schedule, ThreadStep, ThreadCheck, ThreadDequeue, ThreadIdle,
      CallbackReturn, ThreadOnStop
<1>3. ASSUME NEW x \in Stoppers, StopCall(x) \/ StopStep(x)
      PROVE  RingInv(w)'
  BY <1>1, <1>3
  DEF StopCall, StopStep, StopLock, StopFlag, StopJoin, StopReturn
<1>4. ASSUME NEW b \in Buffers, GetBuffer(b) \/ BufferDequeue(b) \/ BufferTake(b)
      PROVE  RingInv(w)'
  BY <1>1, <1>4 DEF GetBuffer, BufferDequeue, BufferTake
<1>5. CASE UNCHANGED vars
  BY <1>1, <1>5 DEF vars
<1>. QED
  BY <1>2, <1>3, <1>4, <1>5, RingPut, RingRead DEF Next, Finished

\* With one publishing thread the slots hold what was published, in every
\* reachable state.
LEMMA RingInductive ==
  ASSUME NEW w, Putters = {w}
  PROVE  Spec => []RingInv(w)
<1>1. Init => RingInv(w)
  BY RingInit
<1>2. IInv /\ RingInv(w) /\ [Next]_vars => RingInv(w)'
  BY RingStep
<1>. QED
  BY <1>1, <1>2, Inductive, PTL DEF Spec

\* When one thread publishes, get() returns the event that was the latest at its
\* load of the index unless a whole ring of events was begun since, for any size
\* of the ring and any number of events and readers.
THEOREM GetIsLatest ==
  ASSUME NEW w, Putters = {w}
  PROVE  Spec => []GetIsLatestUnlessLapped
<1>1. IInv /\ RingInv(w) => GetIsLatestUnlessLapped
  <2>. SUFFICES ASSUME IInv, RingInv(w), NEW r \in Readers, NEW v \in Writers,
                       read_pc[r] = "slot", puts[v] < read_index[r] + RingSize
                PROVE  /\ HoldsNth(latest_buffer[read_index[r] % RingSize], v,
                                   read_index[r])
                       /\ put_pc[v] = "store"
                            => index[v] # read_index[r] % RingSize
    BY DEF GetIsLatestUnlessLapped
  <2>1. v = w
    BY DEF Putters
  <2>2. /\ latest_index \in Nat /\ puts[w] \in Nat /\ read_index[r] \in Nat
        /\ read_index[r] <= latest_index /\ RingSize \in Nat \ {0}
    BY TopicAssumption DEF IInv, TypeOK, RingInv
  <2>3. read_index[r] \in 0..Stored(w) /\ read_index[r] + RingSize > Stored(w)
    BY <2>1, <2>2, SMTT(30) DEF Stored, RingInv
  <2>4. HoldsNth(latest_buffer[read_index[r] % RingSize], w, read_index[r])
    BY <2>3 DEF RingInv
  <2>5. ASSUME put_pc[w] = "store"
        PROVE  index[w] # read_index[r] % RingSize
    <3>1. puts[w] = latest_index + 1 /\ index[w] = puts[w] % RingSize
      BY <2>5 DEF RingInv
    <3>2. read_index[r] < puts[w] /\ read_index[r] \in Int /\ puts[w] \in Int
      BY <2>2, <3>1
    <3>. QED
      BY <2>1, <2>2, <3>1, <3>2, RemaindersDiffer
  <2>. QED
    BY <2>1, <2>4, <2>5
<1>2. Spec => []RingInv(w)
  BY RingInductive
<1>. QED
  BY <1>1, <1>2, Inductive, PTL

\* Then get() returns null only while nothing has been published.
THEOREM NullOnlyAtFirst ==
  ASSUME NEW w, Putters = {w}
  PROVE  Spec => []NullOnlyInTheBeginning
<1>1. RingInv(w) => NullOnlyInTheBeginning
  BY DEF RingInv, NullOnlyInTheBeginning
<1>2. Spec => []RingInv(w)
  BY RingInductive
<1>. QED
  BY <1>1, <1>2, PTL

----------------------------------------------------------------------------
(* Subscriptions.  The events of p that s has seen or has queued.          *)

From(q, p) == {i \in 1..Len(q) : q[i].from = p}
Numbers(q, p) == {q[i].no : i \in From(q, p)}
Given(s, p) == Numbers(seen[s], p) \cup Numbers(queue[s], p)

\* The events of one publisher are in the order of their numbers.
Ordered(q) ==
  \A i, j \in 1..Len(q) : i < j /\ q[i].from = q[j].from => q[i].no < q[j].no

\* What p has published as far as s is concerned: all but the event it has not
\* come to enqueue yet.
Published(p, s) ==
  IF \/ put_pc[p] \in {"store", "increment", "lock"}
     \/ put_pc[p] \in {"visit", "count", "enqueue"} /\ s \in todo[p]
  THEN puts[p] - 1 ELSE puts[p]

\* Subscription s is on the list and is not being stopped.
Open(s) == s \in subscriptions /\ ~stop_flag[s]

\* What s has seen and has queued of p is an interval, the seen ones first; it
\* ends with the latest while s is open.
InOrder(s, p) ==
  /\ \A m \in Numbers(seen[s], p), n \in Numbers(queue[s], p) : m < n
  /\ \A m, n \in Given(s, p) : m..n \subseteq Given(s, p)
  /\ Open(s) /\ Given(s, p) # {}
       => /\ Published(p, s) \in Given(s, p)
          /\ \A m \in Given(s, p) : m <= Published(p, s)

HandOverInv ==
  \A s \in Subscriptions :
    /\ Ordered(seen[s]) /\ Ordered(queue[s])
    /\ thread[s] = "unscheduled" => seen[s] = <<>>
    /\ \A p \in Putters : InOrder(s, p)

\* Numbers of a queue after an event is appended.
LEMMA NumbersAppend ==
  ASSUME NEW q \in Seq(Event), NEW e \in Event, NEW p
  PROVE  Numbers(Append(q, e), p) =
           IF e.from = p THEN Numbers(q, p) \cup {e.no} ELSE Numbers(q, p)
<1>. DEFINE r == Append(q, e)
<1>1. /\ Len(q) \in Nat /\ Len(r) = Len(q) + 1
      /\ \A i \in 1..Len(q) : r[i] = q[i]
      /\ r[Len(q) + 1] = e
  BY AppendProperties, LenProperties
<1>. HIDE DEF r
<1>2. From(r, p) = IF e.from = p THEN From(q, p) \cup {Len(q) + 1} ELSE From(q, p)
  BY <1>1 DEF From
<1>3. \A i \in From(q, p) : r[i] = q[i]
  BY <1>1 DEF From
<1>. QED
  BY <1>1, <1>2, <1>3 DEF Numbers, r

\* The order of a queue after an event with a number that is new is appended.
LEMMA OrderedAppend ==
  ASSUME NEW q \in Seq(Event), NEW e \in Event, Ordered(q),
         \A m \in Numbers(q, e.from) : m < e.no
  PROVE  Ordered(Append(q, e))
<1>. DEFINE r == Append(q, e)
<1>1. /\ Len(q) \in Nat /\ Len(r) = Len(q) + 1
      /\ \A i \in 1..Len(q) : r[i] = q[i]
      /\ r[Len(q) + 1] = e
  BY AppendProperties, LenProperties
<1>. HIDE DEF r
<1>2. ASSUME NEW i \in 1..Len(r), NEW j \in 1..Len(r), i < j, r[i].from = r[j].from
      PROVE  r[i].no < r[j].no
  <2>1. i \in 1..Len(q) /\ r[i] = q[i]
    BY <1>1, <1>2
  <2>2. CASE j \in 1..Len(q)
    BY <1>1, <1>2, <2>1, <2>2 DEF Ordered
  <2>3. CASE j = Len(q) + 1
    <3>1. q[i].no \in Numbers(q, e.from)
      BY <1>1, <1>2, <2>1, <2>3 DEF Numbers, From
    <3>. QED
      BY <1>1, <2>1, <2>3, <3>1
  <2>. QED
    BY <1>1, <2>2, <2>3
<1>. QED
  BY <1>2 DEF Ordered, r

\* Where the events of a queue are after the i-th has been taken out.
LEMMA WithoutElements ==
  ASSUME NEW q \in Seq(Event), NEW i \in 1..Len(q)
  PROVE  /\ Len(Without(q, i)) = Len(q) - 1
         /\ \A j \in 1..(Len(q) - 1) :
              Without(q, i)[j] = IF j < i THEN q[j] ELSE q[j + 1]
<1>. DEFINE front == SubSeq(q, 1, i - 1)
            back  == SubSeq(q, i + 1, Len(q))
<1>0. Len(q) \in Nat /\ \A j \in 1..Len(q) : q[j] \in Event
  BY LenProperties, ElementOfSeq
<1>1. /\ front \in Seq(Event) /\ Len(front) = i - 1
      /\ \A j \in 1..(i - 1) : front[j] = q[j]
  <2>1. \A j \in 1..(i - 1) : q[j] \in Event
    BY <1>0
  <2>. QED
    BY <1>0, <2>1, SubSeqProperties
<1>2. /\ back \in Seq(Event) /\ Len(back) = Len(q) - i
      /\ \A j \in 1..(Len(q) - i) : back[j] = q[j + i]
  <2>1. \A j \in (i + 1)..Len(q) : q[j] \in Event
    BY <1>0
  <2>2. \A j \in 1..(Len(q) - (i + 1) + 1) : back[j] = q[(i + 1) + j - 1]
    BY <1>0, <2>1, SubSeqProperties
  <2>3. back \in Seq(Event) /\ Len(back) = Len(q) - i
    BY <1>0, <2>1, SubSeqProperties
  <2>. HIDE DEF back
  <2>4. \A j \in 1..(Len(q) - i) : back[j] = q[j + i]
    <3>. SUFFICES ASSUME NEW j \in 1..(Len(q) - i)
                  PROVE  back[j] = q[j + i]
      OBVIOUS
    <3>1. (i + 1) + j - 1 = j + i /\ j \in 1..(Len(q) - (i + 1) + 1)
      BY <1>0
    <3>. QED
      BY <2>2, <3>1
  <2>. QED
    BY <2>3, <2>4
<1>3. Without(q, i) = front \o back
  BY DEF Without
<1>. HIDE DEF front, back
<1>4. /\ Len(front \o back) = Len(front) + Len(back)
      /\ \A j \in 1..(Len(front) + Len(back)) :
           (front \o back)[j] = IF j <= Len(front) THEN front[j] ELSE back[j - Len(front)]
  BY <1>1, <1>2, ConcatProperties
<1>5. ASSUME NEW j \in 1..(Len(q) - 1)
      PROVE  Without(q, i)[j] = IF j < i THEN q[j] ELSE q[j + 1]
  <2>1. CASE j < i
    BY <1>0, <1>1, <1>2, <1>3, <1>4, <2>1
  <2>2. CASE j >= i
    <3>1. j - (i - 1) \in 1..(Len(q) - i) /\ (j - (i - 1)) + i = j + 1
      BY <1>0, <2>2
    <3>2. Without(q, i)[j] = back[j - (i - 1)]
      BY <1>0, <1>1, <1>2, <1>3, <1>4, <2>2
    <3>. QED
      BY <1>2, <2>2, <3>1, <3>2
  <2>. QED
    BY <2>1, <2>2
<1>. QED
  BY <1>0, <1>1, <1>2, <1>3, <1>4, <1>5, SMTT(30)

\* Taking out the first event of its publisher leaves that publisher's later ones,
\* and those of the others, in order.
LEMMA WithoutKeeps ==
  ASSUME NEW q \in Seq(Event), NEW i \in Takeable(q), Ordered(q)
  PROVE  /\ Ordered(Without(q, i))
         /\ \A p : Numbers(Without(q, i), p) =
              Numbers(q, p) \ (IF q[i].from = p THEN {q[i].no} ELSE {})
         /\ \A m \in Numbers(q, q[i].from) : m = q[i].no \/ q[i].no < m
         /\ q[i].no \in Numbers(q, q[i].from)
<1>. DEFINE r == Without(q, i)
            Old(j) == IF j < i THEN j ELSE j + 1
<1>1. /\ Len(q) \in Nat /\ i \in 1..Len(q) /\ \A j \in 1..Len(q) : q[j] \in Event
      /\ \A j \in 1..(i - 1) : q[j].from # q[i].from
  BY LenProperties, ElementOfSeq DEF Takeable
<1>2. /\ Len(r) = Len(q) - 1
      /\ \A j \in 1..(Len(q) - 1) : r[j] = IF j < i THEN q[j] ELSE q[j + 1]
  BY <1>1, WithoutElements
<1>3. \A j \in 1..Len(r) : Old(j) \in 1..Len(q) /\ Old(j) # i /\ r[j] = q[Old(j)]
  BY <1>1, <1>2
<1>4. \A j, k \in 1..Len(r) : j < k => Old(j) < Old(k)
  BY <1>1, <1>2
<1>5. \A k \in 1..Len(q) : k # i => \E j \in 1..Len(r) : Old(j) = k
  <2>. SUFFICES ASSUME NEW k \in 1..Len(q), k # i
                PROVE  \E j \in 1..Len(r) : Old(j) = k
    OBVIOUS
  <2>1. CASE k < i
    <3>1. k \in 1..Len(r) /\ Old(k) = k
      BY <1>1, <1>2, <2>1
    <3>. QED
      BY <3>1
  <2>2. CASE k > i
    <3>1. k - 1 \in 1..Len(r) /\ Old(k - 1) = k
      BY <1>1, <1>2, <2>2
    <3>. QED
      BY <3>1
  <2>. QED
    BY <1>1, <2>1, <2>2
<1>6. \A k \in 1..Len(q) : q[k].from = q[i].from => k = i \/ i < k
  BY <1>1
<1>7. \A k \in 1..Len(q) : q[k].from = q[i].from /\ k # i => q[i].no < q[k].no
  BY <1>1, <1>6 DEF Ordered
<1>. HIDE DEF r, Old
<1>8. Ordered(r)
  BY <1>3, <1>4 DEF Ordered
<1>9. ASSUME NEW p
      PROVE  Numbers(r, p) = Numbers(q, p) \ (IF q[i].from = p THEN {q[i].no} ELSE {})
  <2>1. ASSUME NEW n \in Numbers(r, p)
        PROVE  n \in Numbers(q, p) /\ (q[i].from = p => n # q[i].no)
    <3>1. PICK j \in 1..Len(r) : r[j].from = p /\ n = r[j].no
      BY <2>1 DEF Numbers, From
    <3>2. Old(j) \in 1..Len(q) /\ Old(j) # i /\ q[Old(j)].from = p /\ n = q[Old(j)].no
      BY <1>3, <3>1
    <3>3. q[i].no \in Nat
      BY <1>1 DEF Event
    <3>4. q[i].from = p => q[i].no < n
      BY <1>7, <3>2
    <3>. QED
      BY <3>2, <3>3, <3>4 DEF Numbers, From
  <2>2. ASSUME NEW n \in Numbers(q, p), q[i].from = p => n # q[i].no
        PROVE  n \in Numbers(r, p)
    <3>1. PICK k \in 1..Len(q) : q[k].from = p /\ n = q[k].no
      BY <2>2 DEF Numbers, From
    <3>2. k # i
      BY <2>2, <3>1
    <3>3. PICK j \in 1..Len(r) : Old(j) = k
      BY <1>5, <3>2
    <3>. QED
      BY <1>3, <3>1, <3>3 DEF Numbers, From
  <2>. QED
    BY <2>1, <2>2
<1>10. \A m \in Numbers(q, q[i].from) : m = q[i].no \/ q[i].no < m
  BY <1>7 DEF Numbers, From
<1>11. q[i].no \in Numbers(q, q[i].from)
  BY <1>1 DEF Numbers, From
<1>. QED
  BY <1>8, <1>9, <1>10, <1>11 DEF r

\* Numbers are positive integers.
LEMMA NumbersType ==
  ASSUME NEW q \in Seq(Event), NEW p
  PROVE  Numbers(q, p) \subseteq Nat \ {0}
<1>1. \A i \in 1..Len(q) : q[i] \in Event
  BY ElementOfSeq
<1>2. \A i \in From(q, p) : q[i].no \in Nat \ {0}
  BY <1>1 DEF From, Event
<1>. QED
  BY <1>2 DEF Numbers

\* The numbers a subscription has been given are positive integers.
LEMMA GivenType ==
  ASSUME TypeOK, NEW s \in Subscriptions, NEW p
  PROVE  /\ Numbers(seen[s], p) \subseteq Nat \ {0}
         /\ Numbers(queue[s], p) \subseteq Nat \ {0}
         /\ Given(s, p) \subseteq Nat \ {0}
<1>1. seen[s] \in Seq(Event) /\ queue[s] \in Seq(Event)
  BY DEF TypeOK
<1>. QED
  BY <1>1, NumbersType DEF Given

\* An empty queue holds no number and is in order.
LEMMA EmptyQueue ==
  /\ Ordered(<<>>)
  /\ \A p : Numbers(<<>>, p) = {}
<1>1. Len(<<>>) = 0
  BY EmptySeq
<1>. QED
  BY <1>1 DEF Ordered, Numbers, From

\* Initially nothing has been seen or queued.
LEMMA HandOverInit == Init => HandOverInv
<1>. SUFFICES ASSUME Init, NEW s \in Subscriptions
              PROVE  /\ Ordered(seen[s]) /\ Ordered(queue[s])
                     /\ thread[s] = "unscheduled" => seen[s] = <<>>
                     /\ \A p \in Putters : InOrder(s, p)
  BY DEF HandOverInv
<1>1. seen[s] = <<>> /\ queue[s] = <<>>
  BY DEF Init
<1>2. \A p \in Putters : /\ Numbers(seen[s], p) = {} /\ Numbers(queue[s], p) = {}
                          /\ Given(s, p) = {}
  BY <1>1, EmptyQueue DEF Given
<1>. QED
  BY <1>1, <1>2, EmptyQueue DEF InOrder

\* A step that hands nothing over, and for which nothing more is published as far
\* as an open subscription is concerned.
LEMMA HandOverSame ==
  ASSUME HandOverInv, NEW s \in Subscriptions,
         seen'[s] = seen[s], queue'[s] = queue[s],
         thread'[s] = "unscheduled" => thread[s] = "unscheduled",
         Open(s)' => Open(s) \/ (seen[s] = <<>> /\ queue[s] = <<>>),
         Open(s)' /\ Open(s) => \A p \in Putters : Published(p, s)' = Published(p, s)
  PROVE  /\ Ordered(seen'[s]) /\ Ordered(queue'[s])
         /\ thread'[s] = "unscheduled" => seen'[s] = <<>>
         /\ \A p \in Putters : InOrder(s, p)'
<1>1. \A p \in Putters : InOrder(s, p)
  BY DEF HandOverInv
<1>2. /\ \A p : Numbers(seen[s], p)' = Numbers(seen[s], p)
      /\ \A p : Numbers(queue[s], p)' = Numbers(queue[s], p)
      /\ \A p : Given(s, p)' = Given(s, p)
  BY DEF Numbers, From, Given
<1>3. Open(s)' /\ ~Open(s) => \A p : Given(s, p) = {}
  BY EmptyQueue DEF Given
<1>4. \A p \in Putters : InOrder(s, p)'
  BY <1>1, <1>2, <1>3 DEF InOrder
<1>. QED
  BY <1>4 DEF HandOverInv

\* The steps of put(): only the append to a queue hands anything over.
LEMMA HandOverPut ==
  ASSUME IInv, HandOverInv, NEW p \in Putters, PutIndex(p) \/ PutStep(p)
  PROVE  HandOverInv'
<1>. USE TopicAssumption DEF IInv, TypeOK
<1>1. CASE \/ PutIndex(p) \/ PutStore(p) \/ PutIncrement(p) \/ PutLock(p)
           \/ PutCount(p) \/ PutBufferEnqueue(p) \/ PutReturn(p)
           \/ \E b \in Buffers : PutBufferSize(p, b)
  <2>. SUFFICES ASSUME NEW s \in Subscriptions
                PROVE  /\ Ordered(seen'[s]) /\ Ordered(queue'[s])
                       /\ thread'[s] = "unscheduled" => seen'[s] = <<>>
                       /\ \A q \in Putters : InOrder(s, q)'
    BY DEF HandOverInv
  <2>1. UNCHANGED <<seen, queue, thread, subscriptions, stop_flag>>
    BY <1>1 DEF PutIndex, PutStore, PutIncrement, PutLock, PutCount,
                PutBufferSize, PutBufferEnqueue, PutReturn
  <2>2. ASSUME NEW q \in Putters, q # p
        PROVE  Published(q, s)' = Published(q, s)
    <3>1. /\ puts'[q] = puts[q] /\ todo'[q] = todo[q]
          /\ put_pc'[q] = put_pc[q]
      BY <1>1, <2>2 DEF PutIndex, PutStore, PutIncrement, PutLock, PutCount,
                        PutBufferSize, PutBufferEnqueue, PutReturn
    <3>. QED
      BY <3>1 DEF Published
  <2>3. s \in subscriptions => Published(p, s)' = Published(p, s)
    <3>1. CASE PutIndex(p)
      BY <3>1 DEF PutIndex, Published
    <3>2. CASE PutStore(p) \/ PutIncrement(p)
      BY <3>2 DEF PutStore, PutIncrement, Published
    <3>3. CASE PutLock(p)
      BY <3>3 DEF PutLock, Published
    <3>4. CASE PutCount(p) \/ PutBufferEnqueue(p) \/ PutReturn(p)
      BY <3>4, SMTT(30) DEF PutCount, PutBufferEnqueue, PutReturn, Published
    <3>5. ASSUME NEW b \in Buffers, PutBufferSize(p, b)
          PROVE  Published(p, s)' = Published(p, s)
      BY <3>5 DEF PutBufferSize, Published
    <3>. QED
      BY <1>1, <3>1, <3>2, <3>3, <3>4, <3>5
  <2>4. Open(s)' = Open(s)
    BY <2>1 DEF Open
  <2>5. Open(s)' => \A q \in Putters : Published(q, s)' = Published(q, s)
    BY <2>2, <2>3, <2>4 DEF Open
  <2>. QED
    BY ONLY HandOverInv, s \in Subscriptions, <2>1, <2>4, <2>5, HandOverSame
<1>2. ASSUME NEW t \in Subscriptions, PutEnqueue(p, t)
      PROVE  HandOverInv'
  <2>1. lock = p /\ t \in subscriptions /\ put_pc[p] = "visit" /\ t \in todo[p]
    BY <1>2 DEF PutEnqueue, LockHeld, WalkOnLists
  <2>2. Running(t) /\ ~stop_flag[t]
    BY <2>1 DEF Running, OneIsStopped, Lifecycle
  <2>3. /\ queue' = [queue EXCEPT ![t] = Append(@, EventOf(p))]
        /\ put_pc' = [put_pc EXCEPT ![p] = "count"]
        /\ todo' = [todo EXCEPT ![p] = @ \ {t}]
        /\ UNCHANGED <<seen, thread, subscriptions, stop_flag, puts>>
    BY <1>2, <2>2 DEF PutEnqueue
  <2>4. \A s \in Subscriptions : Open(s)' = Open(s)
    BY <2>3 DEF Open
  <2>5. \A s \in Subscriptions, q \in Putters :
          s # t \/ q # p => Published(q, s)' = Published(q, s)
    BY <2>1, <2>3 DEF Published
  <2>6. Published(p, t) = puts[p] - 1 /\ Published(p, t)' = puts[p]
    BY <2>1, <2>3 DEF Published
  <2>7. ASSUME NEW s \in Subscriptions, s # t
        PROVE  /\ Ordered(seen'[s]) /\ Ordered(queue'[s])
               /\ thread'[s] = "unscheduled" => seen'[s] = <<>>
               /\ \A q \in Putters : InOrder(s, q)'
    <3>1. seen'[s] = seen[s] /\ queue'[s] = queue[s] /\ thread'[s] = thread[s]
      BY <2>3, <2>7
    <3>2. \A q \in Putters : Published(q, s)' = Published(q, s)
      BY <2>5, <2>7
    <3>. QED
      BY ONLY HandOverInv, s \in Subscriptions, <2>4, <3>1, <3>2, HandOverSame
  <2>. DEFINE e == EventOf(p)
  <2>8. /\ e \in Event /\ e.from = p /\ e.no = puts[p]
        /\ queue[t] \in Seq(Event) /\ puts[p] \in Nat
    BY <2>1, EventOfType DEF EventOf
  <2>9. Open(t) /\ InOrder(t, p) /\ Ordered(queue[t])
    BY <2>1, <2>2 DEF Open, HandOverInv
  <2>10. \A m \in Given(t, p) : m \in Nat /\ m < puts[p]
    <3>1. Given(t, p) \subseteq Nat
      BY GivenType
    <3>2. \A m \in Given(t, p) : m <= puts[p] - 1
      BY <2>6, <2>9 DEF InOrder
    <3>. QED
      BY ONLY <2>8, <3>1, <3>2
  <2>11. \A q \in Putters :
           /\ Numbers(queue'[t], q) = IF q = p THEN Numbers(queue[t], q) \cup {puts[p]}
                                              ELSE Numbers(queue[t], q)
           /\ Numbers(seen'[t], q) = Numbers(seen[t], q)
    BY <2>3, <2>8, NumbersAppend
  <2>12. Ordered(queue'[t])
    <3>1. \A m \in Numbers(queue[t], e.from) : m < e.no
      BY <2>8, <2>10 DEF Given
    <3>2. queue'[t] = Append(queue[t], e)
      BY <2>3
    <3>. HIDE DEF e
    <3>. QED
      BY <2>8, <2>9, <3>1, <3>2, OrderedAppend
  <2>13. ASSUME NEW q \in Putters
         PROVE  InOrder(t, q)'
    <3>1. CASE q # p
      <4>1. Given(t, q)' = Given(t, q)
        BY <2>11, <3>1 DEF Given
      <4>2. InOrder(t, q) /\ Published(q, t)' = Published(q, t)
        BY <2>5, <3>1 DEF HandOverInv
      <4>3. /\ Numbers(seen[t], q)' = Numbers(seen[t], q)
            /\ Numbers(queue[t], q)' = Numbers(queue[t], q)
            /\ Open(t)' = Open(t)
        BY <2>4, <2>11, <3>1
      <4>. QED
        BY ONLY <4>1, <4>2, <4>3 DEF InOrder
    <3>2. CASE q = p
      <4>1. Given(t, p)' = Given(t, p) \cup {puts[p]}
        BY <2>11 DEF Given
      <4>2. \A m \in Numbers(seen[t], p), n \in Numbers(queue[t], p) \cup {puts[p]} : m < n
        BY <2>9, <2>10 DEF InOrder, Given
      <4>3. Given(t, p) # {} => puts[p] - 1 \in Given(t, p)
        BY <2>6, <2>9 DEF InOrder
      <4>4. ASSUME NEW m \in Given(t, p)', NEW n \in Given(t, p)', NEW k \in m..n
            PROVE  k \in Given(t, p)'
        <5>0. \A a, b \in Given(t, p) : a..b \subseteq Given(t, p)
          BY <2>9 DEF InOrder
        <5>1. CASE n \in Given(t, p)
          <6>1. m \in Given(t, p)
            BY <2>8, <2>10, <4>1, <4>4, <5>1
          <6>. QED
            BY <4>1, <4>4, <5>0, <5>1, <6>1
        <5>2. CASE n = puts[p] /\ k = n
          BY <4>1, <5>2
        <5>3. CASE n = puts[p] /\ k # n
          <6>1. m \in Given(t, p) /\ m \in Nat
            BY <2>8, <2>10, <4>1, <4>4, <5>3
          <6>2. k \in m..(puts[p] - 1)
            BY <2>8, <4>4, <5>3, <6>1
          <6>. QED
            BY <4>1, <4>3, <5>0, <6>1, <6>2
        <5>. QED
          BY <4>1, <4>4, <5>1, <5>2, <5>3
      <4>5. \A m \in Given(t, p)' : m <= puts[p]
        BY <2>8, <2>10, <4>1
      <4>6. /\ Numbers(seen[t], p)' = Numbers(seen[t], p)
            /\ Numbers(queue[t], p)' = Numbers(queue[t], p) \cup {puts[p]}
        BY <2>11
      <4>7. InOrder(t, p)'
        BY ONLY <2>6, <4>1, <4>2, <4>4, <4>5, <4>6 DEF InOrder
      <4>. QED
        BY <3>2, <4>7
    <3>. QED
      BY <3>1, <3>2
  <2>14. Ordered(seen'[t]) /\ (thread'[t] = "unscheduled" => seen'[t] = <<>>)
    BY <2>3 DEF HandOverInv
  <2>. QED
    BY ONLY <2>7, <2>12, <2>13, <2>14 DEF HandOverInv
<1>. QED
  BY <1>1, <1>2 DEF PutStep

\* A subscription thread takes the first queued event of some publisher, or drops
\* what is queued when it ends.
LEMMA HandOverThread ==
  ASSUME IInv, IInv', HandOverInv, NEW t \in Subscriptions, Schedule(t) \/ ThreadStep(t)
  PROVE  HandOverInv'
<1>. DEFINE Good(s) == /\ Ordered(seen[s]) /\ Ordered(queue[s])
                       /\ thread[s] = "unscheduled" => seen[s] = <<>>
                       /\ \A p \in Putters : InOrder(s, p)
<1>1. \A s \in Subscriptions, p \in Putters : Published(p, s)' = Published(p, s)
  BY DEF Schedule, ThreadStep, ThreadCheck, ThreadDequeue, ThreadIdle,
         CallbackReturn, ThreadOnStop, Published
<1>2. ASSUME NEW s \in Subscriptions, s # t
      PROVE  Good(s)'
  <2>1. /\ seen'[s] = seen[s] /\ queue'[s] = queue[s] /\ thread'[s] = thread[s]
        /\ Open(s)' = Open(s)
    <3>1. CASE Schedule(t)
      BY <1>2, <3>1 DEF Schedule, Open, IInv, TypeOK
    <3>2. CASE ThreadCheck(t) \/ ThreadIdle(t) \/ CallbackReturn(t) \/ ThreadOnStop(t)
      BY <1>2, <3>2, SMTT(30) DEF ThreadCheck, ThreadIdle, CallbackReturn, ThreadOnStop,
                        Open, IInv, TypeOK
    <3>3. CASE ThreadDequeue(t)
      BY <1>2, <3>3 DEF ThreadDequeue, Open, IInv, TypeOK
    <3>. QED
      BY <3>1, <3>2, <3>3 DEF ThreadStep
  <2>. QED
    BY ONLY HandOverInv, s \in Subscriptions, <1>1, <2>1, HandOverSame
<1>3. CASE Schedule(t)
  <2>1. seen[t] = <<>> /\ queue[t] = <<>>
    BY <1>3 DEF Schedule, IInv, Lifecycle, HandOverInv
  <2>2. /\ seen'[t] = seen[t] /\ queue'[t] = queue[t] /\ thread'[t] # "unscheduled"
    BY <1>3 DEF Schedule, IInv, TypeOK
  <2>3. Good(t)'
    BY ONLY HandOverInv, t \in Subscriptions, <1>1, <2>1, <2>2, HandOverSame
  <2>. QED
    BY <1>2, <2>3 DEF HandOverInv
<1>4. CASE ThreadCheck(t) \/ ThreadIdle(t) \/ CallbackReturn(t)
  <2>1. /\ seen'[t] = seen[t] /\ queue'[t] = queue[t] /\ thread'[t] # "unscheduled"
        /\ Open(t)' = Open(t)
    BY <1>4 DEF ThreadCheck, ThreadIdle, CallbackReturn, Open, IInv, TypeOK
  <2>2. Good(t)'
    BY ONLY HandOverInv, t \in Subscriptions, <1>1, <2>1, HandOverSame
  <2>. QED
    BY <1>2, <2>2 DEF HandOverInv
<1>5. CASE ThreadDequeue(t)
  <2>1. PICK i \in Takeable(queue[t]) :
          /\ seen' = [seen EXCEPT ![t] = Append(@, queue[t][i])]
          /\ queue' = [queue EXCEPT ![t] = Without(@, i)]
    BY <1>5 DEF ThreadDequeue
  <2>. DEFINE e == queue[t][i]
  <2>2. /\ seen'[t] = Append(seen[t], e) /\ queue'[t] = Without(queue[t], i)
        /\ thread'[t] # "unscheduled" /\ Open(t)' = Open(t)
    BY <1>5, <2>1 DEF ThreadDequeue, Open, IInv, TypeOK
  <2>3. /\ seen[t] \in Seq(Event) /\ queue[t] \in Seq(Event) /\ e \in Event
        /\ e.no \in Nat
    <3>1. seen[t] \in Seq(Event) /\ queue[t] \in Seq(Event)
      BY DEF IInv, TypeOK
    <3>2. e \in Event
      BY <3>1, ElementOfSeq DEF Takeable
    <3>3. e.no \in Nat
      BY <3>2 DEF Event
    <3>. QED
      BY <3>1, <3>2, <3>3
  <2>4. /\ Ordered(queue[t]) /\ Ordered(seen[t]) /\ \A p \in Putters : InOrder(t, p)
    BY DEF HandOverInv
  <2>5. /\ Ordered(queue'[t])
        /\ \A p : Numbers(queue'[t], p) =
             Numbers(queue[t], p) \ (IF e.from = p THEN {e.no} ELSE {})
        /\ \A m \in Numbers(queue[t], e.from) : m = e.no \/ e.no < m
        /\ e.no \in Numbers(queue[t], e.from)
    BY <2>2, <2>3, <2>4, WithoutKeeps
  <2>6. e.from \in Putters
    BY <2>3 DEF Event
  <2>. HIDE DEF e
  <2>7. \A p : Numbers(seen'[t], p) =
               IF e.from = p THEN Numbers(seen[t], p) \cup {e.no} ELSE Numbers(seen[t], p)
    <3>. SUFFICES ASSUME NEW p
                  PROVE  Numbers(Append(seen[t], e), p) =
                           IF e.from = p THEN Numbers(seen[t], p) \cup {e.no}
                                         ELSE Numbers(seen[t], p)
      BY <2>2
    <3>. QED
      BY <2>3, NumbersAppend
  <2>8. Ordered(seen'[t])
    <3>1. \A m \in Numbers(seen[t], e.from) : m < e.no
      BY <2>4, <2>5, <2>6 DEF InOrder
    <3>. QED
      BY <2>2, <2>3, <2>4, <3>1, OrderedAppend
  <2>9. ASSUME NEW p \in Putters
        PROVE  InOrder(t, p)'
    <3>1. /\ InOrder(t, p) /\ Published(p, t)' = Published(p, t)
          /\ Open(t)' = Open(t)
      BY <1>1, <2>2, <2>4
    <3>2. Numbers(seen[t], p)' = Numbers(seen'[t], p) /\
          Numbers(queue[t], p)' = Numbers(queue'[t], p)
      BY DEF Numbers, From
    <3>3. Given(t, p)' = Given(t, p)
      BY <2>5, <2>7, <3>2 DEF Given
    <3>4. \A m \in Numbers(seen'[t], p), n \in Numbers(queue'[t], p) : m < n
      <4>1. \A m \in Numbers(seen[t], p), n \in Numbers(queue[t], p) : m < n
        BY <3>1 DEF InOrder
      <4>2. e.from = p => \A n \in Numbers(queue[t], p) \ {e.no} : e.no < n
        BY <2>5
      <4>3. CASE e.from = p
        <5>1. /\ Numbers(seen'[t], p) = Numbers(seen[t], p) \cup {e.no}
              /\ Numbers(queue'[t], p) = Numbers(queue[t], p) \ {e.no}
          BY <2>5, <2>7, <4>3
        <5>. QED
          BY <4>1, <4>2, <4>3, <5>1
      <4>4. CASE e.from # p
        <5>1. /\ Numbers(seen'[t], p) = Numbers(seen[t], p)
              /\ Numbers(queue'[t], p) = Numbers(queue[t], p)
          BY <2>5, <2>7, <4>4
        <5>. QED
          BY <4>1, <5>1
      <4>. QED
        BY <4>3, <4>4
    <3>. QED
      BY ONLY <3>1, <3>2, <3>3, <3>4 DEF InOrder
  <2>10. Good(t)'
    BY <2>2, <2>5, <2>8, <2>9
  <2>. QED
    BY <1>2, <2>10 DEF HandOverInv
<1>6. CASE ThreadOnStop(t)
  <2>1. thread'[t] = "exited" /\ seen'[t] = seen[t]
    BY <1>6 DEF ThreadOnStop, IInv, TypeOK
  <2>2. queue'[t] = <<>> /\ ~Open(t)'
    BY <2>1 DEF IInv, Lifecycle, Open
  <2>3. ASSUME NEW p \in Putters
        PROVE  InOrder(t, p)'
    <3>1. InOrder(t, p)
      BY DEF HandOverInv
    <3>2. /\ Numbers(seen[t], p)' = Numbers(seen[t], p)
          /\ Numbers(queue[t], p)' = {}
      <4>1. Numbers(queue'[t], p) = {}
        BY <2>2, EmptyQueue
      <4>. QED
        BY <2>1, <4>1 DEF Numbers, From
    <3>3. Given(t, p)' = Numbers(seen[t], p)
      BY <3>2 DEF Given
    <3>4. ASSUME NEW m \in Numbers(seen[t], p), NEW n \in Numbers(seen[t], p), NEW k \in m..n
          PROVE  k \in Numbers(seen[t], p)
      <4>1. k \in Given(t, p)
        BY <3>1 DEF InOrder, Given
      <4>2. k \notin Numbers(queue[t], p)
        <5>1. n \in Int /\ m \in Int
          BY GivenType DEF IInv
        <5>. QED
          BY <3>1, <5>1 DEF InOrder
      <4>. QED
        BY <4>1, <4>2 DEF Given
    <3>. QED
      BY ONLY <2>2, <3>2, <3>3, <3>4 DEF InOrder
  <2>4. Good(t)'
    BY <2>1, <2>2, <2>3, EmptyQueue DEF HandOverInv
  <2>. QED
    BY <1>2, <2>4 DEF HandOverInv
<1>. QED
  BY <1>3, <1>4, <1>5, <1>6 DEF ThreadStep

\* The other steps hand nothing over and open nothing.
LEMMA HandOverOther ==
  ASSUME IInv, HandOverInv,
         \/ \E x \in Stoppers : StopCall(x) \/ StopStep(x)
         \/ \E b \in Buffers : GetBuffer(b) \/ BufferDequeue(b) \/ BufferTake(b)
         \/ \E r \in Readers : GetIndex(r) \/ GetSlot(r)
         \/ UNCHANGED vars
  PROVE  HandOverInv'
<1>1. UNCHANGED <<seen, queue, thread, put_pc, puts, todo>>
  BY DEF StopCall, StopStep, StopLock, StopFlag, StopJoin, StopReturn, GetBuffer,
         BufferDequeue, BufferTake, GetIndex, GetSlot, vars
<1>2. subscriptions' \subseteq subscriptions
  BY DEF StopCall, StopStep, StopLock, StopFlag, StopJoin, StopReturn, GetBuffer,
         BufferDequeue, BufferTake, GetIndex, GetSlot, vars
<1>3. \A s \in Subscriptions : stop_flag[s] => stop_flag'[s]
  BY ZenonT(40) DEF StopCall, StopStep, StopLock, StopFlag, StopJoin, StopReturn, GetBuffer,
         BufferDequeue, BufferTake, GetIndex, GetSlot, vars, IInv, TypeOK
<1>. SUFFICES ASSUME NEW s \in Subscriptions
              PROVE  /\ Ordered(seen'[s]) /\ Ordered(queue'[s])
                     /\ thread'[s] = "unscheduled" => seen'[s] = <<>>
                     /\ \A p \in Putters : InOrder(s, p)'
  BY DEF HandOverInv
<1>4. \A p \in Putters : Published(p, s)' = Published(p, s)
  BY <1>1 DEF Published
<1>5. Open(s)' => Open(s)
  BY <1>2, <1>3 DEF Open
<1>. QED
  BY <1>1, <1>4, <1>5, HandOverSame

\* What a subscription has seen and queued is in order in every reachable state.
THEOREM HandOverInductive == Spec => []HandOverInv
<1>1. IInv /\ IInv' /\ HandOverInv /\ [Next]_vars => HandOverInv'
  BY HandOverPut, HandOverThread, HandOverOther DEF Next, Finished
<1>. QED
  BY <1>1, HandOverInit, Inductive, PTL DEF Spec

\* The events a subscription has seen and has queued of one publisher are
\* consecutive, for any number of publishers, subscriptions and events, however
\* subscriptions come and go.
THEOREM NoneIsSkipped == Spec => []NoneSkipped
<1>1. ASSUME IInv, HandOverInv
      PROVE  NoneSkipped
  <2>. SUFFICES ASSUME NEW s \in Subscriptions,
                       NEW i \in DOMAIN (seen[s] \o queue[s]),
                       NEW j \in DOMAIN (seen[s] \o queue[s]),
                       i < j,
                       (seen[s] \o queue[s])[i].from = (seen[s] \o queue[s])[j].from,
                       \A k \in (i + 1)..(j - 1) :
                         (seen[s] \o queue[s])[k].from # (seen[s] \o queue[s])[i].from
                PROVE  (seen[s] \o queue[s])[j].no = (seen[s] \o queue[s])[i].no + 1
    BY DEF NoneSkipped
  <2>. DEFINE all == seen[s] \o queue[s]
              p == all[i].from
              m == Len(seen[s])
              n == Len(queue[s])
  <2>1. seen[s] \in Seq(Event) /\ queue[s] \in Seq(Event) /\ m \in Nat /\ n \in Nat
    <3>1. seen[s] \in Seq(Event) /\ queue[s] \in Seq(Event)
      BY <1>1 DEF IInv, TypeOK
    <3>. QED
      BY <3>1, LenProperties
  <2>2. /\ all \in Seq(Event) /\ DOMAIN all = 1..(m + n)
        /\ \A k \in 1..(m + n) : all[k] = IF k <= m THEN seen[s][k] ELSE queue[s][k - m]
        /\ \A k \in 1..(m + n) : all[k] \in Event
    <3>1. /\ all \in Seq(Event) /\ Len(all) = m + n
          /\ \A k \in 1..(m + n) : all[k] = IF k <= m THEN seen[s][k] ELSE queue[s][k - m]
      BY <2>1, ConcatProperties
    <3>2. DOMAIN all = 1..(m + n) /\ \A k \in 1..(m + n) : all[k] \in Event
      BY <3>1, LenProperties, ElementOfSeq
    <3>. QED
      BY <3>1, <3>2
  <2>. HIDE DEF all, p, m, n
  <2>3. /\ i \in 1..(m + n) /\ j \in 1..(m + n) /\ i < j
        /\ all[i].from = p /\ all[j].from = p /\ p \in Putters
        /\ \A k \in (i + 1)..(j - 1) : all[k].from # p
    BY <2>2 DEF all, p, Event
  <2>4. InOrder(s, p) /\ Ordered(seen[s]) /\ Ordered(queue[s])
    BY <1>1, <2>3 DEF HandOverInv
  <2>5. \A k \in 1..(m + n) : all[k].from = p =>
           IF k <= m THEN k \in From(seen[s], p) /\ all[k].no \in Numbers(seen[s], p)
                     ELSE k - m \in From(queue[s], p) /\ all[k].no \in Numbers(queue[s], p)
    <3>. SUFFICES ASSUME NEW k \in 1..(m + n), all[k].from = p
                  PROVE  IF k <= m
                         THEN k \in From(seen[s], p) /\ all[k].no \in Numbers(seen[s], p)
                         ELSE k - m \in From(queue[s], p) /\ all[k].no \in Numbers(queue[s], p)
      OBVIOUS
    <3>1. CASE k <= m
      <4>1. k \in 1..Len(seen[s]) /\ all[k] = seen[s][k]
        BY <2>1, <2>2, <3>1 DEF m
      <4>. QED
        BY <3>1, <4>1 DEF From, Numbers
    <3>2. CASE ~(k <= m)
      <4>1. k - m \in 1..Len(queue[s]) /\ all[k] = queue[s][k - m]
        BY <2>1, <2>2, <3>2 DEF n
      <4>2. k - m \in From(queue[s], p)
        BY <4>1 DEF From
      <4>. QED
        BY <3>2, <4>1, <4>2 DEF Numbers
    <3>. QED
      BY <3>1, <3>2
  <2>6. ASSUME NEW a \in 1..(m + n), NEW b \in 1..(m + n), a < b,
               all[a].from = p, all[b].from = p
        PROVE  all[a].no < all[b].no
    <3>1. CASE b <= m
      <4>1. a \in 1..Len(seen[s]) /\ b \in 1..Len(seen[s])
        BY <2>1, <2>6, <3>1 DEF m
      <4>2. all[a] = seen[s][a] /\ all[b] = seen[s][b]
        BY <2>1, <2>2, <2>6, <3>1
      <4>. QED
        BY <2>4, <2>6, <4>1, <4>2 DEF Ordered
    <3>2. CASE a > m
      <4>1. a - m \in 1..Len(queue[s]) /\ b - m \in 1..Len(queue[s]) /\ a - m < b - m
        BY <2>1, <2>6, <3>2, SMTT(30) DEF n
      <4>2. all[a] = queue[s][a - m] /\ all[b] = queue[s][b - m]
        BY <2>1, <2>2, <2>6, <3>2, SMTT(30)
      <4>. QED
        BY <2>4, <2>6, <4>1, <4>2 DEF Ordered
    <3>3. CASE a <= m /\ b > m
      <4>1. all[a].no \in Numbers(seen[s], p) /\ all[b].no \in Numbers(queue[s], p)
        BY <2>1, <2>5, <2>6, <3>3
      <4>. QED
        BY <2>4, <4>1 DEF InOrder
    <3>. QED
      BY <2>1, <3>1, <3>2, <3>3
  <2>7. all[i].no < all[j].no /\ all[i].no \in Nat /\ all[j].no \in Nat
    BY <2>2, <2>3, <2>6 DEF Event
  <2>8. SUFFICES ASSUME all[i].no + 1 < all[j].no
                 PROVE  FALSE
    BY <2>7, SMTT(30) DEF all
  <2>9. all[i].no \in Given(s, p) /\ all[j].no \in Given(s, p)
    BY <2>3, <2>5 DEF Given
  <2>10. all[i].no + 1 \in Given(s, p)
    BY <2>4, <2>7, <2>8, <2>9 DEF InOrder
  <2>11. PICK k \in 1..(m + n) : all[k].from = p /\ all[k].no = all[i].no + 1
    <3>1. CASE all[i].no + 1 \in Numbers(seen[s], p)
      <4>1. PICK k \in 1..m : seen[s][k].from = p /\ seen[s][k].no = all[i].no + 1
        BY <3>1 DEF Numbers, From, m
      <4>2. k \in 1..(m + n) /\ all[k] = seen[s][k]
        BY <2>1, <2>2
      <4>. QED
        BY <4>1, <4>2
    <3>2. CASE all[i].no + 1 \in Numbers(queue[s], p)
      <4>1. PICK k \in 1..n : queue[s][k].from = p /\ queue[s][k].no = all[i].no + 1
        BY <3>2 DEF Numbers, From, n
      <4>2. m + k \in 1..(m + n) /\ (m + k) - m = k /\ ~(m + k <= m)
        BY <2>1
      <4>3. all[m + k] = queue[s][k]
        BY <2>2, <4>2
      <4>. QED
        BY <4>1, <4>2, <4>3
    <3>. QED
      BY <2>10, <3>1, <3>2 DEF Given
  <2>12. k # i /\ k # j
    BY <2>7, <2>8, <2>11
  <2>13. ~(k < i) /\ ~(j < k)
    BY <2>3, <2>6, <2>7, <2>8, <2>11
  <2>14. k \in (i + 1)..(j - 1)
    BY <2>1, <2>3, <2>12, <2>13
  <2>. QED
    BY <2>3, <2>11, <2>14
<1>. QED
  BY <1>1, Inductive, HandOverInductive, PTL

=============================================================================
