---------------------------- MODULE TopicProofs ----------------------------
(***************************************************************************)
(* Proofs about Topic, for every number of threads, subscriptions, buffers *)
(* and puts and every ring size.                                           *)
(***************************************************************************)
EXTENDS Topic, SequenceTheorems, TLAPS

----------------------------------------------------------------------------
(* Lemmas about queues.                                                    *)

\* Taking one event out of a queue leaves a queue that is one shorter.
LEMMA WithoutLen ==
  ASSUME NEW S, NEW q \in Seq(S), NEW i \in 1..Len(q)
  PROVE  /\ Without(q, i) \in Seq(S)
         /\ Len(Without(q, i)) = Len(q) - 1
<1>. DEFINE front == SubSeq(q, 1, i - 1)
            back  == SubSeq(q, i + 1, Len(q))
<1>1. front \in Seq(S) /\ Len(front) = i - 1
  <2>1. \A j \in 1..(i - 1) : q[j] \in S
    BY ElementOfSeq, LenProperties
  <2>. QED
    BY <2>1, SubSeqProperties
<1>2. back \in Seq(S) /\ Len(back) = Len(q) - i
  <2>1. \A j \in (i + 1)..Len(q) : q[j] \in S
    BY ElementOfSeq, LenProperties
  <2>. QED
    BY <2>1, SubSeqProperties, LenProperties
<1>3. Without(q, i) = front \o back
  BY DEF Without
<1>. HIDE DEF front, back
<1>4. front \o back \in Seq(S) /\ Len(front \o back) = Len(front) + Len(back)
  BY <1>1, <1>2, ConcatProperties
<1>5. Len(q) \in Nat
  BY LenProperties
<1>. QED
  BY <1>1, <1>2, <1>3, <1>4, <1>5

\* Draining a queue leaves a queue, and Len(q) calls leave none.
LEMMA AfterDrainingType ==
  ASSUME NEW S, NEW q \in Seq(S), NEW n \in Int
  PROVE  /\ AfterDraining(q, n) \in Seq(S)
         /\ n = Len(q) => AfterDraining(q, n) = <<>>
<1>1. \A j \in (n + 1)..Len(q) : n \in 0..Len(q) => q[j] \in S
  BY ElementOfSeq, LenProperties
<1>2. n \in 0..Len(q) => SubSeq(q, n + 1, Len(q)) \in Seq(S)
  BY <1>1, SubSeqProperties, LenProperties
<1>3. n = Len(q) => SubSeq(q, n + 1, Len(q)) = <<>>
  BY SubSeqEmpty, LenProperties
<1>. QED
  BY <1>2, <1>3, EmptySeq, LenProperties DEF AfterDraining

\* Incrementing one counter, whether it is one of the function's or not.
LEMMA CounterType ==
  ASSUME NEW S, NEW f \in [S -> Nat], NEW a
  PROVE  [f EXCEPT ![a] = @ + 1] \in [S -> Nat]
<1>1. CASE a \in S
  BY <1>1
<1>2. CASE a \notin S
  <2>1. [f EXCEPT ![a] = @ + 1] = f
    BY <1>2
  <2>. QED
    BY <2>1
<1>. QED
  BY <1>1, <1>2

----------------------------------------------------------------------------
(* Type correctness.  A thread in the middle of a put() has begun one, so  *)
(* the event it publishes has a number.                                    *)

PutsBegun == \A p \in Putters : put_pc[p] # "idle" => puts[p] > 0

\* What a thread in the middle of put() publishes is an event.
LEMMA EventOfType ==
  ASSUME TypeOK, PutsBegun, NEW p \in Putters, put_pc[p] # "idle"
  PROVE  EventOf(p) \in Event
  BY DEF TypeOK, PutsBegun, EventOf, Event

\* The initial state has the right types and nobody is publishing.
LEMMA TypeInit == Init => TypeOK /\ PutsBegun
  BY TopicAssumption DEF Init, TypeOK, PutsBegun

USE DEF ringVars, listVars, putVars, subVars, bufferVars, readVars

\* The steps of put() keep the types.
LEMMA TypePut ==
  ASSUME TypeOK, PutsBegun, NEW p \in Putters, PutIndex(p) \/ PutStep(p)
  PROVE  TypeOK' /\ PutsBegun'
<1>. USE DEF TypeOK, PutsBegun
<1>1. CASE PutIndex(p)
  <2>1. NextIndex \in 0..(RingSize - 1)
    BY TopicAssumption DEF NextIndex
  <2>. QED
    BY <1>1, <2>1 DEF PutIndex
<1>2. CASE PutStore(p)
  BY <1>2, EventOfType DEF PutStore
<1>3. CASE PutIncrement(p)
  BY <1>3 DEF PutIncrement
<1>4. CASE PutLock(p)
  BY <1>4 DEF PutLock
<1>5. ASSUME NEW s \in Subscriptions, PutEnqueue(p, s)
      PROVE  TypeOK' /\ PutsBegun'
  <2>1. Append(queue[s], EventOf(p)) \in Seq(Event)
    BY <1>5, EventOfType, AppendProperties, SMTT(30) DEF PutEnqueue
  <2>. QED
    BY <1>5, <2>1, ZenonT(40) DEF PutEnqueue
<1>6. CASE PutCount(p)
  <2>1. enqueued' \in [Subscriptions -> Nat]
    BY <1>6, CounterType DEF PutCount
  <2>. QED
    BY <1>6, <2>1 DEF PutCount
<1>7. ASSUME NEW b \in Buffers, PutBufferSize(p, b)
      PROVE  TypeOK' /\ PutsBegun'
  <2>1. (buffer_size[b] + 1) % SizeModulus \in 0..(SizeModulus - 1)
    BY TopicAssumption
  <2>. QED
    BY <1>7, <2>1 DEF PutBufferSize
<1>8. CASE PutBufferEnqueue(p)
  <2>1. \A b \in Buffers : Append(buffer_queue[b], EventOf(p)) \in Seq(Event)
    BY <1>8, EventOfType, AppendProperties DEF PutBufferEnqueue
  <2>. QED
    BY <1>8, <2>1 DEF PutBufferEnqueue
<1>9. CASE PutReturn(p)
  BY <1>9 DEF PutReturn
<1>. QED
  BY <1>1, <1>2, <1>3, <1>4, <1>5, <1>6, <1>7, <1>8, <1>9 DEF PutStep

\* Scheduling a subscription, and the steps of its thread, keep the types.
LEMMA TypeSubscription ==
  ASSUME TypeOK, PutsBegun, NEW s \in Subscriptions, Schedule(s) \/ ThreadStep(s)
  PROVE  TypeOK' /\ PutsBegun'
<1>. USE DEF TypeOK, PutsBegun
<1>1. CASE Schedule(s)
  BY <1>1 DEF Schedule
<1>2. CASE ThreadCheck(s)
  BY <1>2 DEF ThreadCheck
<1>3. CASE ThreadDequeue(s)
  <2>1. PICK i \in Takeable(queue[s]) :
          /\ seen' = [seen EXCEPT ![s] = Append(@, queue[s][i])]
          /\ queue' = [queue EXCEPT ![s] = Without(@, i)]
    BY <1>3 DEF ThreadDequeue
  <2>2. i \in 1..Len(queue[s])
    BY DEF Takeable
  <2>3. queue[s] \in Seq(Event) /\ queue[s][i] \in Event
    BY <2>2, ElementOfSeq
  <2>4. Without(queue[s], i) \in Seq(Event)
    BY <2>2, <2>3, WithoutLen
  <2>5. Append(seen[s], queue[s][i]) \in Seq(Event)
    BY <2>3, AppendProperties
  <2>. QED
    BY <1>3, <2>1, <2>4, <2>5, SMTT(30) DEF ThreadDequeue
<1>4. CASE ThreadIdle(s)
  BY <1>4 DEF ThreadIdle
<1>5. CASE CallbackReturn(s)
  BY <1>5 DEF CallbackReturn
<1>6. CASE ThreadOnStop(s)
  <2>1. AfterDraining(queue[s], enqueued[s] - dequeued[s]) \in Seq(Event)
    BY AfterDrainingType
  <2>. QED
    BY <1>6, <2>1 DEF ThreadOnStop
<1>. QED
  BY <1>1, <1>2, <1>3, <1>4, <1>5, <1>6 DEF ThreadStep

\* The steps of stop() keep the types.
LEMMA TypeStop ==
  ASSUME TypeOK, PutsBegun, NEW x \in Stoppers, StopCall(x) \/ StopStep(x)
  PROVE  TypeOK' /\ PutsBegun'
<1>. USE DEF TypeOK, PutsBegun
<1>1. CASE StopCall(x)
  BY <1>1 DEF StopCall
<1>2. CASE StopLock(x)
  BY <1>2 DEF StopLock
<1>3. ASSUME NEW s \in Subscriptions, StopFlag(x, s)
      PROVE  TypeOK' /\ PutsBegun'
  BY <1>3 DEF StopFlag
<1>4. ASSUME NEW s \in Subscriptions, StopJoin(x, s)
      PROVE  TypeOK' /\ PutsBegun'
  BY <1>4 DEF StopJoin
<1>5. CASE StopReturn(x)
  BY <1>5 DEF StopReturn
<1>. QED
  BY <1>1, <1>2, <1>3, <1>4, <1>5 DEF StopStep

\* Creating a buffer and dequeuing from it keep the types.
LEMMA TypeBuffer ==
  ASSUME TypeOK, PutsBegun, NEW b \in Buffers,
         GetBuffer(b) \/ BufferDequeue(b) \/ BufferTake(b)
  PROVE  TypeOK' /\ PutsBegun'
<1>. USE DEF TypeOK, PutsBegun
<1>1. CASE GetBuffer(b)
  BY <1>1 DEF GetBuffer
<1>2. CASE BufferDequeue(b)
  <2>1. Decremented(buffer_size[b]) \in 0..(SizeModulus - 1)
    BY TopicAssumption DEF Decremented
  <2>. QED
    BY <1>2, <2>1 DEF BufferDequeue
<1>3. CASE BufferTake(b)
  <2>1. PICK i \in Takeable(buffer_queue[b]) :
          buffer_queue' = [buffer_queue EXCEPT ![b] = Without(@, i)]
    BY <1>3 DEF BufferTake
  <2>2. Without(buffer_queue[b], i) \in Seq(Event)
    BY WithoutLen DEF Takeable
  <2>. QED
    BY <1>3, <2>1, <2>2 DEF BufferTake
<1>. QED
  BY <1>1, <1>2, <1>3

\* The two loads of get() keep the types.
LEMMA TypeRead ==
  ASSUME TypeOK, PutsBegun, NEW r \in Readers, GetIndex(r) \/ GetSlot(r)
  PROVE  TypeOK' /\ PutsBegun'
<1>. USE DEF TypeOK, PutsBegun
<1>1. CASE GetIndex(r)
  BY <1>1 DEF GetIndex
<1>2. CASE GetSlot(r)
  <2>1. SlotOf(read_index[r]) \in 0..(RingSize - 1)
    BY TopicAssumption DEF SlotOf
  <2>2. latest_buffer[SlotOf(read_index[r])] \in Event \cup {NoEvent}
    BY <2>1
  <2>. QED
    BY <1>2, <2>2 DEF GetSlot
<1>. QED
  BY <1>1, <1>2

\* The values of the state keep their types in every step of every thread.
LEMMA TypeStep ==
  ASSUME TypeOK, PutsBegun, [Next]_vars
  PROVE  TypeOK' /\ PutsBegun'
<1>1. CASE UNCHANGED vars
  BY <1>1 DEF vars, TypeOK, PutsBegun
<1>2. CASE Next
  <2>1. CASE Finished
    BY <1>1, <2>1 DEF Finished
  <2>. QED
    BY <1>2, <2>1, TypePut, TypeSubscription, TypeStop, TypeBuffer, TypeRead
    DEF Next
<1>. QED
  BY <1>1, <1>2

\* The type invariant of the topic holds in every reachable state.
THEOREM TypeCorrect == Spec => []TypeOK
<1>1. Init => TypeOK /\ PutsBegun
  BY TypeInit
<1>2. TypeOK /\ PutsBegun /\ [Next]_vars => (TypeOK /\ PutsBegun)'
  BY TypeStep
<1>. QED
  BY <1>1, <1>2, PTL DEF Spec

----------------------------------------------------------------------------
(* The lock discipline and the accounting of the subscriptions.            *)

\* The thread inside a critical section is the owner of subscriptions_lock_.
LockHeld ==
  /\ \A p \in Putters :
       put_pc[p] \in {"visit", "count", "enqueue"} <=> lock = p
  /\ \A x \in Stoppers : stop_pc[x] \in {"clear", "join"} <=> lock = x

\* Only the owner has list members left to visit, and they are on the lists.
WalkOnLists ==
  \A p \in Putters :
    /\ lock # p => todo[p] = {}
    /\ todo[p] \cap Subscriptions \subseteq subscriptions
    /\ put_pc[p] = "count" => at[p] \in subscriptions

\* At most one listed subscription is being stopped, by the owner of the lock.
OneIsStopped ==
  /\ \A s \in subscriptions :
       stop_flag[s] => lock \in Stoppers /\ stop_pc[lock] = "join"
  /\ \A s, t \in subscriptions : stop_flag[s] /\ stop_flag[t] => s = t

\* A subscription is unscheduled and blank, or listed, or exited and empty.
Lifecycle ==
  \A s \in Subscriptions :
    /\ thread[s] = "unscheduled"
         => /\ s \notin subscriptions /\ ~stop_flag[s]
            /\ queue[s] = <<>> /\ enqueued[s] = 0 /\ dequeued[s] = 0
    /\ thread[s] \in {"drain", "exited"} => stop_flag[s]
    /\ thread[s] = "exited" => queue[s] = <<>>
    /\ s \notin subscriptions => thread[s] \in {"unscheduled", "exited"}

\* A put() has added an event to the queue of s and not yet counted it.
Uncounted(s) ==
  IF lock \in Putters /\ put_pc[lock] = "count" /\ at[lock] = s THEN 1 ELSE 0

\* What was enqueued is what was dequeued and what is queued.
Accounting ==
  \A s \in Subscriptions :
    thread[s] # "exited"
      => enqueued[s] + Uncounted(s) = dequeued[s] + Len(queue[s])

\* The inductive invariant.
IInv == /\ TypeOK /\ PutsBegun /\ LockHeld /\ WalkOnLists /\ OneIsStopped
        /\ Lifecycle /\ Accounting

\* What the invariant says beyond the types.
Discipline == LockHeld /\ WalkOnLists /\ OneIsStopped /\ Lifecycle /\ Accounting

\* Initially the lock is free, the lists are empty and nothing is counted.
LEMMA DisciplineInit == Init => Discipline
  BY TopicAssumption, EmptySeq
  DEF Init, Discipline, LockHeld, WalkOnLists, OneIsStopped, Lifecycle,
      Accounting, Uncounted

\* put() keeps the lock discipline and counts what it enqueues.
LEMMA DisciplinePut ==
  ASSUME IInv, NEW p \in Putters, PutIndex(p) \/ PutStep(p)
  PROVE  Discipline'
<1>. USE TopicAssumption DEF IInv, TypeOK, Discipline
<1>1. CASE PutIndex(p) \/ PutStore(p) \/ PutIncrement(p)
  <2>1. LockHeld'
    BY <1>1 DEF PutIndex, PutStore, PutIncrement, LockHeld
  <2>2. WalkOnLists'
    BY <1>1 DEF PutIndex, PutStore, PutIncrement, WalkOnLists
  <2>3. OneIsStopped'
    BY <1>1 DEF PutIndex, PutStore, PutIncrement, OneIsStopped
  <2>4. Lifecycle'
    BY <1>1, SMTT(30) DEF PutIndex, PutStore, PutIncrement, Lifecycle
  <2>5. Accounting'
    BY <1>1, SMTT(30) DEF PutIndex, PutStore, PutIncrement, Accounting, Uncounted
  <2>. QED
    BY <2>1, <2>2, <2>3, <2>4, <2>5
<1>2. CASE PutLock(p)
  <2>1. LockHeld'
    BY <1>2 DEF PutLock, LockHeld
  <2>2. WalkOnLists'
    BY <1>2, ZenonT(40) DEF PutLock, WalkOnLists
  <2>3. OneIsStopped'
    BY <1>2 DEF PutLock, OneIsStopped
  <2>4. Lifecycle'
    BY <1>2 DEF PutLock, Lifecycle
  <2>5. Accounting'
    BY <1>2 DEF PutLock, Accounting, Uncounted
  <2>. QED
    BY <2>1, <2>2, <2>3, <2>4, <2>5
<1>3. ASSUME NEW s \in Subscriptions, PutEnqueue(p, s)
      PROVE  Discipline'
  <2>1. lock = p /\ s \in subscriptions
    BY <1>3 DEF PutEnqueue, LockHeld, WalkOnLists
  <2>2. Running(s) /\ thread[s] # "exited"
    BY <2>1 DEF Running, OneIsStopped, Lifecycle
  <2>3. /\ Append(queue[s], EventOf(p)) # <<>>
        /\ Len(Append(queue[s], EventOf(p))) = Len(queue[s]) + 1
    <3>1. EventOf(p) \in Event
      BY <1>3, EventOfType DEF PutEnqueue
    <3>2. queue[s] \in Seq(Event)
      OBVIOUS
    <3>. HIDE DEF IInv, TypeOK
    <3>. QED
      BY <3>1, <3>2, AppendProperties
  <2>4. /\ queue' = [queue EXCEPT ![s] = Append(@, EventOf(p))]
        /\ at' = [at EXCEPT ![p] = s]
        /\ put_pc' = [put_pc EXCEPT ![p] = "count"]
    BY <1>3, <2>2 DEF PutEnqueue
  <2>5. LockHeld'
    BY <1>3, <2>4 DEF PutEnqueue, LockHeld
  <2>6. WalkOnLists'
    BY <1>3, <2>1, <2>4 DEF PutEnqueue, WalkOnLists
  <2>7. OneIsStopped'
    BY <1>3, <2>4 DEF PutEnqueue, OneIsStopped
  <2>8. Lifecycle'
    BY <1>3, <2>2, <2>3, <2>4, SMTT(30) DEF PutEnqueue, Lifecycle, Running
  <2>9. Accounting'
    BY <1>3, <2>1, <2>3, <2>4 DEF PutEnqueue, Accounting, Uncounted
  <2>. QED
    BY <2>5, <2>6, <2>7, <2>8, <2>9
<1>4. CASE PutCount(p)
  <2>1. lock = p /\ at[p] \in Subscriptions /\ at[p] \in subscriptions
    BY <1>4 DEF PutCount, LockHeld, WalkOnLists
  <2>2. LockHeld'
    BY <1>4 DEF PutCount, LockHeld
  <2>3. WalkOnLists'
    BY <1>4 DEF PutCount, WalkOnLists
  <2>4. OneIsStopped'
    BY <1>4 DEF PutCount, OneIsStopped
  <2>5. Lifecycle'
    BY <1>4, <2>1 DEF PutCount, Lifecycle
  <2>6. Accounting'
    BY <1>4, <2>1 DEF PutCount, Accounting, Uncounted
  <2>. QED
    BY <2>2, <2>3, <2>4, <2>5, <2>6
<1>5. ASSUME NEW b \in Buffers, PutBufferSize(p, b)
      PROVE  Discipline'
  <2>1. LockHeld'
    BY <1>5 DEF PutBufferSize, LockHeld
  <2>2. WalkOnLists'
    BY <1>5 DEF PutBufferSize, WalkOnLists
  <2>3. OneIsStopped'
    BY <1>5 DEF PutBufferSize, OneIsStopped
  <2>4. Lifecycle'
    BY <1>5 DEF PutBufferSize, Lifecycle
  <2>5. Accounting'
    BY <1>5 DEF PutBufferSize, Accounting, Uncounted
  <2>. QED
    BY <2>1, <2>2, <2>3, <2>4, <2>5
<1>6. CASE PutBufferEnqueue(p)
  <2>1. LockHeld'
    BY <1>6 DEF PutBufferEnqueue, LockHeld
  <2>2. WalkOnLists'
    BY <1>6 DEF PutBufferEnqueue, WalkOnLists
  <2>3. OneIsStopped'
    BY <1>6 DEF PutBufferEnqueue, OneIsStopped
  <2>4. Lifecycle'
    BY <1>6 DEF PutBufferEnqueue, Lifecycle
  <2>5. Accounting'
    BY <1>6 DEF PutBufferEnqueue, Accounting, Uncounted
  <2>. QED
    BY <2>1, <2>2, <2>3, <2>4, <2>5
<1>7. CASE PutReturn(p)
  <2>1. LockHeld'
    BY <1>7 DEF PutReturn, LockHeld
  <2>2. WalkOnLists'
    BY <1>7 DEF PutReturn, WalkOnLists, LockHeld
  <2>3. OneIsStopped'
    BY <1>7 DEF PutReturn, OneIsStopped, LockHeld
  <2>4. Lifecycle'
    BY <1>7 DEF PutReturn, Lifecycle
  <2>5. Accounting'
    BY <1>7 DEF PutReturn, Accounting, Uncounted, LockHeld
  <2>. QED
    BY <2>1, <2>2, <2>3, <2>4, <2>5
<1>. QED
  BY <1>1, <1>2, <1>3, <1>4, <1>5, <1>6, <1>7 DEF PutStep

\* A subscription thread counts what it dequeues and drains what is left.
LEMMA DisciplineSubscription ==
  ASSUME IInv, NEW s \in Subscriptions, Schedule(s) \/ ThreadStep(s)
  PROVE  Discipline'
<1>. USE TopicAssumption DEF IInv, TypeOK, Discipline
<1>1. CASE Schedule(s)
  <2>1. LockHeld'
    BY <1>1 DEF Schedule, LockHeld
  <2>2. WalkOnLists'
    BY <1>1 DEF Schedule, WalkOnLists
  <2>3. OneIsStopped'
    BY <1>1 DEF Schedule, OneIsStopped, Lifecycle
  <2>4. Lifecycle'
    BY <1>1 DEF Schedule, Lifecycle
  <2>5. Accounting'
    BY <1>1 DEF Schedule, Accounting, Uncounted
  <2>. QED
    BY <2>1, <2>2, <2>3, <2>4, <2>5
<1>2. CASE ThreadCheck(s) \/ ThreadIdle(s) \/ CallbackReturn(s)
  <2>1. LockHeld'
    BY <1>2 DEF ThreadCheck, ThreadIdle, CallbackReturn, LockHeld
  <2>2. WalkOnLists'
    BY <1>2 DEF ThreadCheck, ThreadIdle, CallbackReturn, WalkOnLists
  <2>3. OneIsStopped'
    BY <1>2 DEF ThreadCheck, ThreadIdle, CallbackReturn, OneIsStopped
  <2>4. Lifecycle'
    BY <1>2 DEF ThreadCheck, ThreadIdle, CallbackReturn, Lifecycle
  <2>5. Accounting'
    <3>1. UNCHANGED <<lock, put_pc, at, queue, enqueued, dequeued>>
      BY <1>2 DEF ThreadCheck, ThreadIdle, CallbackReturn
    <3>2. \A t \in Subscriptions : thread'[t] # "exited" => thread[t] # "exited"
      BY <1>2 DEF ThreadCheck, ThreadIdle, CallbackReturn
    <3>. QED
      BY <3>1, <3>2 DEF Accounting, Uncounted
  <2>. QED
    BY <2>1, <2>2, <2>3, <2>4, <2>5
<1>3. CASE ThreadDequeue(s)
  <2>1. PICK i \in Takeable(queue[s]) :
          queue' = [queue EXCEPT ![s] = Without(@, i)]
    BY <1>3 DEF ThreadDequeue
  <2>2. Len(Without(queue[s], i)) = Len(queue[s]) - 1
    BY WithoutLen DEF Takeable
  <2>3. LockHeld'
    BY <1>3 DEF ThreadDequeue, LockHeld
  <2>4. WalkOnLists'
    BY <1>3 DEF ThreadDequeue, WalkOnLists
  <2>5. OneIsStopped'
    BY <1>3 DEF ThreadDequeue, OneIsStopped
  <2>6. Lifecycle'
    BY <1>3, <2>1 DEF ThreadDequeue, Lifecycle
  <2>7. Accounting'
    <3>1. UNCHANGED <<lock, put_pc, at, enqueued>>
      BY <1>3 DEF ThreadDequeue
    <3>2. /\ dequeued' = [dequeued EXCEPT ![s] = @ + 1]
          /\ thread' = [thread EXCEPT ![s] = "callback"]
          /\ thread[s] = "wait"
      BY <1>3 DEF ThreadDequeue
    <3>3. \A t \in Subscriptions : dequeued[t] \in Nat /\ Len(queue[t]) \in Nat
      BY LenProperties
    <3>4. Uncounted(s)' = Uncounted(s) /\ Uncounted(s) \in Nat
      BY <3>1 DEF Uncounted
    <3>5. /\ enqueued[s] + Uncounted(s) = dequeued[s] + Len(queue[s])
          /\ enqueued[s] \in Nat
      BY <3>2 DEF Accounting
    <3>6. Len(queue'[s]) = Len(queue[s]) - 1 /\ dequeued'[s] = dequeued[s] + 1
      BY <2>1, <2>2, <3>2
    <3>7. enqueued'[s] + Uncounted(s)' = dequeued'[s] + Len(queue'[s])
      BY <3>1, <3>3, <3>4, <3>5, <3>6
    <3>8. ASSUME NEW t \in Subscriptions, t # s, thread'[t] # "exited"
          PROVE  enqueued'[t] + Uncounted(t)' = dequeued'[t] + Len(queue'[t])
      <4>1. /\ thread[t] # "exited"
            /\ queue'[t] = queue[t] /\ dequeued'[t] = dequeued[t]
        BY <2>1, <3>2, <3>8
      <4>. QED
        BY <3>1, <4>1 DEF Accounting, Uncounted
    <3>. QED
      BY <3>7, <3>8 DEF Accounting
  <2>. QED
    BY <2>3, <2>4, <2>5, <2>6, <2>7
<1>4. CASE ThreadOnStop(s)
  <2>1. /\ s \in subscriptions /\ stop_flag[s]
        /\ lock \in Stoppers
    BY <1>4 DEF ThreadOnStop, Lifecycle, OneIsStopped
  <2>2. enqueued[s] - dequeued[s] = Len(queue[s])
    BY <1>4, <2>1, LenProperties DEF ThreadOnStop, Accounting, Uncounted
  <2>3. queue' = [queue EXCEPT ![s] = <<>>]
    <3>1. queue[s] \in Seq(Event) /\ Len(queue[s]) \in Int
      BY LenProperties
    <3>2. AfterDraining(queue[s], enqueued[s] - dequeued[s]) = <<>>
      BY <2>2, <3>1, AfterDrainingType
    <3>. QED
      BY <1>4, <3>2 DEF ThreadOnStop
  <2>4. LockHeld'
    BY <1>4 DEF ThreadOnStop, LockHeld
  <2>5. WalkOnLists'
    BY <1>4 DEF ThreadOnStop, WalkOnLists
  <2>6. OneIsStopped'
    BY <1>4 DEF ThreadOnStop, OneIsStopped
  <2>7. Lifecycle'
    BY <1>4, <2>1, <2>3 DEF ThreadOnStop, Lifecycle
  <2>8. Accounting'
    BY <1>4, <2>3 DEF ThreadOnStop, Accounting, Uncounted
  <2>. QED
    BY <2>4, <2>5, <2>6, <2>7, <2>8
<1>. QED
  BY <1>1, <1>2, <1>3, <1>4 DEF ThreadStep

\* stop() flags one subscription at a time and unlists it after the join.
LEMMA DisciplineStop ==
  ASSUME IInv, NEW x \in Stoppers, StopCall(x) \/ StopStep(x)
  PROVE  Discipline'
<1>. USE TopicAssumption DEF IInv, TypeOK, Discipline
<1>1. CASE StopCall(x)
  <2>1. LockHeld'
    BY <1>1 DEF StopCall, LockHeld
  <2>2. WalkOnLists'
    BY <1>1 DEF StopCall, WalkOnLists
  <2>3. OneIsStopped'
    BY <1>1 DEF StopCall, OneIsStopped
  <2>4. Lifecycle'
    BY <1>1 DEF StopCall, Lifecycle
  <2>5. Accounting'
    BY <1>1 DEF StopCall, Accounting, Uncounted
  <2>. QED
    BY <2>1, <2>2, <2>3, <2>4, <2>5
<1>2. CASE StopLock(x)
  <2>1. LockHeld'
    BY <1>2 DEF StopLock, LockHeld
  <2>2. WalkOnLists'
    BY <1>2 DEF StopLock, WalkOnLists
  <2>3. OneIsStopped'
    BY <1>2 DEF StopLock, OneIsStopped
  <2>4. Lifecycle'
    BY <1>2 DEF StopLock, Lifecycle
  <2>5. Accounting'
    BY <1>2 DEF StopLock, Accounting, Uncounted
  <2>. QED
    BY <2>1, <2>2, <2>3, <2>4, <2>5
<1>3. ASSUME NEW s \in Subscriptions, StopFlag(x, s)
      PROVE  Discipline'
  <2>1. lock = x
    BY <1>3 DEF StopFlag, LockHeld
  <2>2. \A t \in subscriptions : ~stop_flag[t]
    BY <1>3, <2>1 DEF StopFlag, OneIsStopped
  <2>3. LockHeld'
    BY <1>3 DEF StopFlag, LockHeld
  <2>4. WalkOnLists'
    BY <1>3 DEF StopFlag, WalkOnLists
  <2>5. OneIsStopped'
    BY <1>3, <2>1, <2>2 DEF StopFlag, OneIsStopped
  <2>6. Lifecycle'
    BY <1>3 DEF StopFlag, Lifecycle
  <2>7. Accounting'
    BY <1>3 DEF StopFlag, Accounting, Uncounted
  <2>. QED
    BY <2>3, <2>4, <2>5, <2>6, <2>7
<1>4. ASSUME NEW s \in Subscriptions, StopJoin(x, s)
      PROVE  Discipline'
  <2>1. lock = x /\ \A p \in Putters : todo[p] = {} /\ put_pc[p] # "count"
    BY <1>4 DEF StopJoin, LockHeld, WalkOnLists
  <2>2. LockHeld'
    BY <1>4 DEF StopJoin, LockHeld
  <2>3. WalkOnLists'
    BY <1>4, <2>1 DEF StopJoin, WalkOnLists
  <2>4. OneIsStopped'
    BY <1>4 DEF StopJoin, OneIsStopped
  <2>5. Lifecycle'
    BY <1>4 DEF StopJoin, Joined, Lifecycle
  <2>6. Accounting'
    BY <1>4 DEF StopJoin, Accounting, Uncounted
  <2>. QED
    BY <2>2, <2>3, <2>4, <2>5, <2>6
<1>5. CASE StopReturn(x)
  <2>0. lock = x /\ \A p \in Putters : todo[p] = {} /\ put_pc[p] # "count"
    <3>1. lock = x
      BY <1>5 DEF StopReturn, LockHeld
    <3>2. \A p \in Putters : lock # p
      BY <3>1
    <3>. QED
      BY <3>1, <3>2 DEF LockHeld, WalkOnLists
  <2>1. LockHeld'
    BY <1>5 DEF StopReturn, LockHeld
  <2>2. WalkOnLists'
    BY <1>5, <2>0 DEF StopReturn, WalkOnLists
  <2>3. OneIsStopped'
    BY <1>5 DEF StopReturn, OneIsStopped
  <2>4. Lifecycle'
    BY <1>5 DEF StopReturn, Lifecycle
  <2>5. Accounting'
    BY <1>5 DEF StopReturn, Accounting, Uncounted, LockHeld
  <2>. QED
    BY <2>1, <2>2, <2>3, <2>4, <2>5
<1>. QED
  BY <1>1, <1>2, <1>3, <1>4, <1>5 DEF StopStep

\* Buffers and readers do not touch what the discipline is about.
LEMMA DisciplineOther ==
  ASSUME IInv,
         \/ \E b \in Buffers : GetBuffer(b) \/ BufferDequeue(b) \/ BufferTake(b)
         \/ \E r \in Readers : GetIndex(r) \/ GetSlot(r)
         \/ UNCHANGED vars
  PROVE  Discipline'
<1>1. UNCHANGED <<lock, subscriptions, put_pc, puts, todo, at, thread, stop_flag,
                  queue, enqueued, dequeued, stop_pc>>
  BY DEF GetBuffer, BufferDequeue, BufferTake, GetIndex, GetSlot, vars
<1>2. LockHeld'
  BY <1>1 DEF IInv, LockHeld
<1>3. WalkOnLists'
  BY <1>1 DEF IInv, WalkOnLists
<1>4. OneIsStopped'
  BY <1>1 DEF IInv, OneIsStopped
<1>5. Lifecycle'
  BY <1>1 DEF IInv, Lifecycle
<1>6. Accounting'
  BY <1>1 DEF IInv, Accounting, Uncounted
<1>. QED
  BY <1>2, <1>3, <1>4, <1>5, <1>6 DEF Discipline

\* The strengthened invariant is inductive.
THEOREM Inductive == Spec => []IInv
<1>1. Init => IInv
  BY TypeInit, DisciplineInit DEF IInv, Discipline
<1>2. IInv /\ [Next]_vars => IInv'
  <2>. SUFFICES ASSUME IInv, [Next]_vars
                PROVE  IInv'
    OBVIOUS
  <2>1. TypeOK' /\ PutsBegun'
    BY TypeStep DEF IInv
  <2>2. Discipline'
    BY DisciplinePut, DisciplineSubscription, DisciplineStop, DisciplineOther
    DEF Next, Finished
  <2>. QED
    BY <2>1, <2>2 DEF IInv, Discipline
<1>. QED
  BY <1>1, <1>2, PTL DEF Spec

\* A put() never visits a subscription that stop() has destroyed.
THEOREM WalkSafe == Spec => []WalkIsLive
<1>1. IInv => WalkIsLive
  BY DEF IInv, WalkOnLists, WalkIsLive
<1>. QED
  BY <1>1, Inductive, PTL

\* The drain of a stopping subscription finds exactly the events it counts.
THEOREM DrainSafe == Spec => []DrainIsExact
<1>1. IInv => DrainIsExact
  <2>. SUFFICES ASSUME IInv, NEW s \in Subscriptions, thread[s] = "drain"
                PROVE  enqueued[s] - dequeued[s] = Len(queue[s])
    BY DEF DrainIsExact
  <2>1. lock \in Stoppers
    BY DEF IInv, Lifecycle, OneIsStopped
  <2>2. Uncounted(s) = 0
    BY <2>1, TopicAssumption DEF Uncounted
  <2>3. enqueued[s] + Uncounted(s) = dequeued[s] + Len(queue[s])
    BY DEF IInv, Accounting
  <2>4. enqueued[s] \in Nat /\ dequeued[s] \in Nat /\ Len(queue[s]) \in Nat
    BY LenProperties DEF IInv, TypeOK
  <2>. QED
    BY <2>2, <2>3, <2>4
<1>. QED
  BY <1>1, Inductive, PTL

\* After stop() has removed a subscription nothing of it is left to happen.
THEOREM RemovalSafe == Spec => []RemovedIsQuiet
<1>1. IInv => RemovedIsQuiet
  BY DEF IInv, Lifecycle, WalkOnLists, RemovedIsQuiet
<1>. QED
  BY <1>1, Inductive, PTL

----------------------------------------------------------------------------
(* The topic implements the channel, for every value of the constants: each *)
(* step of Topic is a step of TopicChannel under the mapping of Topic's     *)
(* instance Channel, or changes nothing the channel sees.                   *)

\* The state of the channel, as Topic's instance maps it.
Puts == [p \in Putters |->
           IF put_pc[p] \in {"store", "increment", "lock"} THEN puts[p] - 1 ELSE puts[p]]
OpenSubs == {s \in Subscriptions : thread[s] \notin {"unscheduled", "exited"}}
ClosedSubs == {s \in Subscriptions : thread[s] = "exited"}
Inbox == [s \in Subscriptions |->
            IF lock \in Putters /\ s \in todo[lock]
            THEN Append(queue[s], EventOf(lock)) ELSE queue[s]]

mapped == <<Puts, OpenSubs, ClosedSubs, Inbox, seen>>

\* Appending to the second of two sequences appends to both together.
LEMMA AppendToConcat ==
  ASSUME NEW S, NEW f \in Seq(S), NEW g \in Seq(S), NEW e \in S
  PROVE  f \o Append(g, e) = Append(f \o g, e)
<1>1. Len(f) \in Nat /\ Len(g) \in Nat
  BY LenProperties
<1>2. /\ Append(g, e) \in Seq(S) /\ Len(Append(g, e)) = Len(g) + 1
      /\ \A j \in 1..Len(g) : Append(g, e)[j] = g[j]
      /\ Append(g, e)[Len(g) + 1] = e
  BY AppendProperties
<1>3. /\ f \o g \in Seq(S) /\ Len(f \o g) = Len(f) + Len(g)
      /\ \A j \in 1..(Len(f) + Len(g)) :
           (f \o g)[j] = IF j <= Len(f) THEN f[j] ELSE g[j - Len(f)]
  BY ConcatProperties
<1>4. /\ f \o Append(g, e) \in Seq(S)
      /\ Len(f \o Append(g, e)) = Len(f) + Len(g) + 1
      /\ \A j \in 1..(Len(f) + Len(g) + 1) :
           (f \o Append(g, e))[j] =
             IF j <= Len(f) THEN f[j] ELSE Append(g, e)[j - Len(f)]
  <2>. DEFINE h == Append(g, e)
  <2>1. h \in Seq(S)
    BY <1>2
  <2>2. Len(h) = Len(g) + 1
    BY <1>2
  <2>. HIDE DEF h
  <2>3. /\ f \o h \in Seq(S) /\ Len(f \o h) = Len(f) + Len(h)
        /\ \A j \in 1..(Len(f) + Len(h)) :
             (f \o h)[j] = IF j <= Len(f) THEN f[j] ELSE h[j - Len(f)]
    BY <2>1, ConcatProperties
  <2>4. Len(f) + Len(h) = Len(f) + Len(g) + 1
    BY <1>1, <2>2
  <2>5. /\ f \o h \in Seq(S)
        /\ Len(f \o h) = Len(f) + Len(g) + 1
        /\ \A j \in 1..(Len(f) + Len(g) + 1) :
             (f \o h)[j] = IF j <= Len(f) THEN f[j] ELSE h[j - Len(f)]
    BY <2>3, <2>4
  <2>. QED
    BY <2>5 DEF h
<1>5. /\ Append(f \o g, e) \in Seq(S)
      /\ Len(Append(f \o g, e)) = Len(f) + Len(g) + 1
      /\ \A j \in 1..(Len(f) + Len(g)) : Append(f \o g, e)[j] = (f \o g)[j]
      /\ Append(f \o g, e)[Len(f) + Len(g) + 1] = e
  BY <1>3, AppendProperties
<1>6. \A j \in 1..(Len(f) + Len(g) + 1) :
        (f \o Append(g, e))[j] = Append(f \o g, e)[j]
  BY <1>1, <1>2, <1>3, <1>4, <1>5
<1>. QED
  BY <1>1, <1>4, <1>5, <1>6, SeqEqual

\* An event appended to a queue stays behind whatever is taken out before it.
LEMMA WithoutAppend ==
  ASSUME NEW S, NEW q \in Seq(S), NEW e \in S, NEW i \in 1..Len(q)
  PROVE  Without(Append(q, e), i) = Append(Without(q, i), e)
<1>. DEFINE front == SubSeq(q, 1, i - 1)
            back  == SubSeq(q, i + 1, Len(q))
            long  == Append(q, e)
<1>1. Len(q) \in Nat /\ long \in Seq(S) /\ Len(long) = Len(q) + 1
  BY AppendProperties, LenProperties
<1>2. \A j \in 1..Len(q) : long[j] = q[j] /\ q[j] \in S
  BY AppendProperties, ElementOfSeq
<1>3. long[Len(q) + 1] = e
  BY AppendProperties
<1>4. front \in Seq(S) /\ Len(front) = i - 1
      /\ \A j \in 1..(i - 1) : front[j] = q[j]
  BY <1>1, <1>2, SubSeqProperties
<1>5. back \in Seq(S) /\ Len(back) = Len(q) - i
      /\ \A j \in 1..(Len(q) - i) : back[j] = q[i + j]
  BY <1>1, <1>2, SubSeqProperties
<1>6. SubSeq(long, 1, i - 1) = front
  <2>1. /\ SubSeq(long, 1, i - 1) \in Seq(S)
        /\ Len(SubSeq(long, 1, i - 1)) = i - 1
        /\ \A j \in 1..(i - 1) : SubSeq(long, 1, i - 1)[j] = long[j]
    BY <1>1, <1>2, SubSeqProperties
  <2>. QED
    BY <1>1, <1>2, <1>4, <2>1, SeqEqual
<1>7. SubSeq(long, i + 1, Len(long)) = Append(back, e)
  <2>1. \A j \in (i + 1)..(Len(q) + 1) : long[j] \in S
    BY <1>1, <1>2, <1>3
  <2>2. /\ SubSeq(long, i + 1, Len(long)) \in Seq(S)
        /\ Len(SubSeq(long, i + 1, Len(long))) = Len(q) - i + 1
        /\ \A j \in 1..(Len(q) - i + 1) :
             SubSeq(long, i + 1, Len(long))[j] = long[i + j]
    BY <1>1, <2>1, SubSeqProperties
  <2>3. /\ Append(back, e) \in Seq(S)
        /\ Len(Append(back, e)) = Len(q) - i + 1
        /\ \A j \in 1..(Len(q) - i) : Append(back, e)[j] = q[i + j]
        /\ Append(back, e)[Len(q) - i + 1] = e
    BY <1>1, <1>5, AppendProperties
  <2>4. \A j \in 1..(Len(q) - i + 1) :
          SubSeq(long, i + 1, Len(long))[j] = Append(back, e)[j]
    BY <1>1, <1>2, <1>3, <2>2, <2>3
  <2>. QED
    BY <1>1, <2>2, <2>3, <2>4, SeqEqual
<1>8. front \o Append(back, e) = Append(front \o back, e)
  <2>. HIDE DEF front, back, long
  <2>. QED
    BY <1>4, <1>5, AppendToConcat
<1>. QED
  BY <1>6, <1>7, <1>8 DEF Without

----------------------------------------------------------------------------
(* The steps of the topic as seen by the channel.                          *)

USE DEF ringVars, listVars, putVars, subVars, bufferVars, readVars

\* At first no subscription is open and nothing has been published.
LEMMA ChannelInit == Init => Channel!Init
  BY TopicAssumption DEF Init, Channel!Init

\* While no stop() is clearing the list it holds the open subscriptions.
LEMMA ListedIsOpen ==
  ASSUME IInv, lock \notin Stoppers
  PROVE  subscriptions = OpenSubs
<1>1. \A s \in subscriptions : s \in OpenSubs
  BY DEF IInv, TypeOK, Lifecycle, OneIsStopped, OpenSubs
<1>2. \A s \in OpenSubs : s \in subscriptions
  BY DEF IInv, Lifecycle, OpenSubs
<1>. QED
  BY <1>1, <1>2

\* A put() publishes to the channel when it gets the lock.
LEMMA LockPublishes ==
  ASSUME IInv, NEW p \in Putters, PutLock(p)
  PROVE  /\ Puts' = [Puts EXCEPT ![p] = @ + 1]
         /\ Inbox' = [s \in Subscriptions |->
                        IF s \in OpenSubs
                        THEN Append(Inbox[s], [from |-> p, no |-> Puts[p] + 1])
                        ELSE Inbox[s]]
         /\ UNCHANGED <<OpenSubs, ClosedSubs, seen>>
<1>. USE TopicAssumption DEF IInv, TypeOK
<1>1. /\ lock = NoOwner /\ lock' = p
      /\ todo' = [todo EXCEPT ![p] = subscriptions \cup buffers]
      /\ put_pc[p] = "lock" /\ put_pc' = [put_pc EXCEPT ![p] = "visit"]
      /\ UNCHANGED <<puts, thread, queue, seen>>
  BY DEF PutLock
<1>2. Puts[p] = puts[p] - 1
  BY <1>1 DEF Puts
<1>3. Puts' = [Puts EXCEPT ![p] = @ + 1]
  <2>1. Puts'[p] = Puts[p] + 1
    BY <1>1, <1>2 DEF Puts
  <2>2. \A r \in Putters : r # p => Puts'[r] = Puts[r]
    BY <1>1 DEF Puts
  <2>3. /\ Puts = [r \in Putters |-> Puts[r]]
        /\ Puts' = [r \in Putters |-> Puts'[r]]
    BY DEF Puts
  <2>. HIDE DEF IInv, TypeOK
  <2>. QED
    BY <2>1, <2>2, <2>3
<1>4. \A s \in Subscriptions : s \in todo'[p] <=> s \in OpenSubs
  BY <1>1, ListedIsOpen
<1>5. \A s \in Subscriptions : Inbox[s] = queue[s]
  BY <1>1 DEF Inbox
<1>6. EventOf(p)' = [from |-> p, no |-> Puts[p] + 1]
  BY <1>1, <1>2 DEF EventOf
<1>7. \A s \in Subscriptions :
        Inbox'[s] = IF s \in OpenSubs THEN Append(queue[s], EventOf(p)')
                                      ELSE queue[s]
  BY <1>1, <1>4 DEF Inbox, EventOf
<1>8. Inbox' = [s \in Subscriptions |->
                 IF s \in OpenSubs
                 THEN Append(Inbox[s], [from |-> p, no |-> Puts[p] + 1])
                 ELSE Inbox[s]]
  <2>1. Inbox' = [s \in Subscriptions |-> Inbox'[s]]
    BY DEF Inbox
  <2>. HIDE DEF IInv, TypeOK
  <2>. QED
    BY <1>5, <1>6, <1>7, <2>1
<1>9. UNCHANGED <<OpenSubs, ClosedSubs, seen>>
  BY <1>1 DEF OpenSubs, ClosedSubs
<1>. QED
  BY <1>3, <1>8, <1>9

\* The other steps of a put() are not seen by the channel: what the walk moves
\* from its list of visits to a queue was in the inbox before.
LEMMA PutStutters ==
  ASSUME IInv, NEW p \in Putters, PutIndex(p) \/ PutStep(p), ~PutLock(p)
  PROVE  UNCHANGED mapped
<1>. USE TopicAssumption DEF IInv, TypeOK, LockHeld
<1>1. UNCHANGED <<OpenSubs, ClosedSubs, seen>>
  BY DEF PutIndex, PutStep, PutStore, PutIncrement, PutEnqueue, PutCount,
         PutBufferSize, PutBufferEnqueue, PutReturn, OpenSubs, ClosedSubs
<1>2. CASE PutIndex(p)
  <2>1. Puts' = Puts
    BY <1>2 DEF PutIndex, Puts
  <2>2. Inbox' = Inbox
    BY <1>2 DEF PutIndex, Inbox, EventOf
  <2>. QED
    BY <1>1, <2>1, <2>2 DEF mapped
<1>3. CASE PutStore(p) \/ PutIncrement(p) \/ PutCount(p) \/ PutBufferEnqueue(p)
  <2>1. Puts' = Puts
    BY <1>3 DEF PutStore, PutIncrement, PutCount, PutBufferEnqueue, Puts
  <2>2. UNCHANGED <<lock, todo, queue, puts>>
    BY <1>3 DEF PutStore, PutIncrement, PutCount, PutBufferEnqueue
  <2>3. Inbox' = Inbox
    BY <2>2 DEF Inbox, EventOf
  <2>. QED
    BY <1>1, <2>1, <2>3 DEF mapped
<1>4. ASSUME NEW s \in Subscriptions, PutEnqueue(p, s)
      PROVE  UNCHANGED mapped
  <2>1. lock = p /\ s \in subscriptions /\ s \in todo[p]
    BY <1>4 DEF PutEnqueue, WalkOnLists
  <2>2. Running(s)
    BY <2>1 DEF Running, OneIsStopped, Lifecycle
  <2>3. /\ queue' = [queue EXCEPT ![s] = Append(@, EventOf(p))]
        /\ todo' = [todo EXCEPT ![p] = @ \ {s}]
        /\ put_pc' = [put_pc EXCEPT ![p] = "count"]
        /\ put_pc[p] = "visit"
        /\ UNCHANGED <<lock, puts>>
    BY <1>4, <2>2 DEF PutEnqueue
  <2>4. Puts' = Puts
    BY <2>3 DEF Puts
  <2>5. Inbox' = Inbox
    BY <2>1, <2>3 DEF Inbox, EventOf
  <2>. QED
    BY <1>1, <2>4, <2>5 DEF mapped
<1>5. ASSUME NEW b \in Buffers, PutBufferSize(p, b)
      PROVE  UNCHANGED mapped
  <2>1. Puts' = Puts
    BY <1>5 DEF PutBufferSize, Puts
  <2>2. Inbox' = Inbox
    BY <1>5 DEF PutBufferSize, Inbox, EventOf
  <2>. QED
    BY <1>1, <2>1, <2>2 DEF mapped
<1>6. CASE PutReturn(p)
  <2>1. Puts' = Puts
    BY <1>6 DEF PutReturn, Puts
  <2>2. Inbox' = Inbox
    BY <1>6 DEF PutReturn, Inbox
  <2>. QED
    BY <1>1, <2>1, <2>2 DEF mapped
<1>. QED
  BY <1>2, <1>3, <1>4, <1>5, <1>6 DEF PutStep

\* Scheduling opens a subscription of the channel.
LEMMA ScheduleOpens ==
  ASSUME IInv, NEW s \in Subscriptions, Schedule(s)
  PROVE  /\ s \notin OpenSubs \cup ClosedSubs
         /\ OpenSubs' = OpenSubs \cup {s}
         /\ UNCHANGED <<Puts, ClosedSubs, Inbox, seen>>
<1>1. UNCHANGED <<Puts, Inbox, seen>>
  BY DEF Schedule, Puts, Inbox, EventOf
<1>2. /\ s \notin OpenSubs \cup ClosedSubs
      /\ OpenSubs' = OpenSubs \cup {s} /\ ClosedSubs' = ClosedSubs
  BY DEF IInv, TypeOK, Schedule, OpenSubs, ClosedSubs
<1>. QED
  BY <1>1, <1>2

\* A dequeue hands an event of the inbox to the callback, whether or not the
\* inbox ends with one that a put() has yet to enqueue.
LEMMA DequeueHandsOver ==
  ASSUME IInv, NEW s \in Subscriptions, ThreadDequeue(s)
  PROVE  \E i \in 1..Len(Inbox[s]) :
           /\ \A j \in 1..(i - 1) : Inbox[s][j].from # Inbox[s][i].from
           /\ seen' = [seen EXCEPT ![s] = Append(@, Inbox[s][i])]
           /\ Inbox' = [Inbox EXCEPT ![s] = Without(@, i)]
           /\ UNCHANGED <<Puts, OpenSubs, ClosedSubs>>
<1>1. PICK i \in Takeable(queue[s]) :
        /\ seen' = [seen EXCEPT ![s] = Append(@, queue[s][i])]
        /\ queue' = [queue EXCEPT ![s] = Without(@, i)]
  BY DEF ThreadDequeue
<1>2. /\ i \in 1..Len(queue[s])
      /\ \A j \in 1..(i - 1) : queue[s][j].from # queue[s][i].from
  BY DEF Takeable
<1>3. queue[s] \in Seq(Event)
  BY DEF IInv, TypeOK
<1>4. UNCHANGED <<Puts, OpenSubs, ClosedSubs>>
  BY DEF IInv, TypeOK, ThreadDequeue, Puts, OpenSubs, ClosedSubs
<1>5. UNCHANGED <<lock, todo, puts>>
  BY DEF ThreadDequeue
<1>6. ASSUME NEW t \in Subscriptions, t # s
      PROVE  Inbox'[t] = Inbox[t]
  BY <1>1, <1>5, <1>6 DEF IInv, TypeOK, Inbox, EventOf
<1>7. /\ i \in 1..Len(Inbox[s])
      /\ \A j \in 1..i : Inbox[s][j] = queue[s][j]
      /\ Inbox'[s] = Without(Inbox[s], i)
  <2>1. queue'[s] = Without(queue[s], i)
    BY <1>1 DEF IInv, TypeOK
  <2>2. CASE lock \in Putters /\ s \in todo[lock]
    <3>1. EventOf(lock) \in Event /\ EventOf(lock)' = EventOf(lock)
      <4>1. put_pc[lock] # "idle"
        BY <2>2 DEF IInv, LockHeld
      <4>. QED
        BY <1>5, <2>2, <4>1, EventOfType DEF IInv, EventOf
    <3>2. Inbox[s] = Append(queue[s], EventOf(lock))
      BY <2>2 DEF Inbox
    <3>3. Inbox'[s] = Append(Without(queue[s], i), EventOf(lock))
      BY <1>5, <2>1, <2>2, <3>1 DEF Inbox
    <3>4. Without(Append(queue[s], EventOf(lock)), i)
            = Append(Without(queue[s], i), EventOf(lock))
      BY <1>2, <1>3, <3>1, WithoutAppend
    <3>5. /\ Len(Append(queue[s], EventOf(lock))) = Len(queue[s]) + 1
          /\ \A j \in 1..Len(queue[s]) :
               Append(queue[s], EventOf(lock))[j] = queue[s][j]
      BY <1>3, <3>1, AppendProperties
    <3>6. Len(queue[s]) \in Nat
      BY <1>3, LenProperties
    <3>. QED
      BY <1>2, <3>2, <3>3, <3>4, <3>5, <3>6
  <2>3. CASE ~(lock \in Putters /\ s \in todo[lock])
    BY <1>2, <1>5, <2>1, <2>3 DEF Inbox
  <2>. QED
    BY <2>2, <2>3
<1>8. Inbox' = [Inbox EXCEPT ![s] = Without(@, i)]
  BY <1>6, <1>7 DEF Inbox
<1>9. /\ \A j \in 1..(i - 1) : Inbox[s][j].from # Inbox[s][i].from
      /\ seen' = [seen EXCEPT ![s] = Append(@, Inbox[s][i])]
  <2>1. i \in Nat /\ i \in 1..i /\ \A j \in 1..(i - 1) : j \in 1..i
    BY <1>2, <1>3, LenProperties
  <2>2. Inbox[s][i] = queue[s][i]
    BY <1>7, <2>1
  <2>3. \A j \in 1..(i - 1) : Inbox[s][j] = queue[s][j]
    BY <1>7, <2>1
  <2>. QED
    BY <1>1, <1>2, <2>2, <2>3
<1>. QED
  BY <1>4, <1>7, <1>8, <1>9

\* The drain closes a subscription of the channel.
LEMMA OnStopCloses ==
  ASSUME IInv, NEW s \in Subscriptions, ThreadOnStop(s)
  PROVE  /\ s \in OpenSubs
         /\ OpenSubs' = OpenSubs \ {s}
         /\ ClosedSubs' = ClosedSubs \cup {s}
         /\ Inbox' = [Inbox EXCEPT ![s] = <<>>]
         /\ UNCHANGED <<Puts, seen>>
<1>1. lock \in Stoppers /\ lock \notin Putters
  BY TopicAssumption DEF IInv, ThreadOnStop, Lifecycle, OneIsStopped
<1>2. enqueued[s] - dequeued[s] = Len(queue[s])
  <2>1. Uncounted(s) = 0
    BY <1>1 DEF Uncounted
  <2>2. enqueued[s] + Uncounted(s) = dequeued[s] + Len(queue[s])
    BY DEF IInv, ThreadOnStop, Accounting
  <2>3. enqueued[s] \in Nat /\ dequeued[s] \in Nat /\ Len(queue[s]) \in Nat
    BY LenProperties DEF IInv, TypeOK
  <2>. QED
    BY <2>1, <2>2, <2>3
<1>3. queue' = [queue EXCEPT ![s] = <<>>]
  <2>1. queue[s] \in Seq(Event) /\ Len(queue[s]) \in Int
    BY LenProperties DEF IInv, TypeOK
  <2>2. AfterDraining(queue[s], enqueued[s] - dequeued[s]) = <<>>
    BY <1>2, <2>1, AfterDrainingType
  <2>. QED
    BY <2>2 DEF ThreadOnStop
<1>4. Inbox' = [Inbox EXCEPT ![s] = <<>>]
  BY <1>1, <1>3 DEF IInv, TypeOK, ThreadOnStop, Inbox
<1>5. /\ s \in OpenSubs /\ OpenSubs' = OpenSubs \ {s}
      /\ ClosedSubs' = ClosedSubs \cup {s}
  BY DEF IInv, TypeOK, ThreadOnStop, OpenSubs, ClosedSubs
<1>6. UNCHANGED <<Puts, seen>>
  BY DEF ThreadOnStop, Puts
<1>. QED
  BY <1>4, <1>5, <1>6

\* The channel sees no other step of a subscription's thread ...
LEMMA ThreadStutters ==
  ASSUME IInv, NEW s \in Subscriptions,
         ThreadCheck(s) \/ ThreadIdle(s) \/ CallbackReturn(s)
  PROVE  UNCHANGED mapped
<1>1. UNCHANGED <<Puts, Inbox, seen>>
  BY DEF ThreadCheck, ThreadIdle, CallbackReturn, Puts, Inbox, EventOf
<1>2. UNCHANGED <<OpenSubs, ClosedSubs>>
  BY DEF IInv, TypeOK, ThreadCheck, ThreadIdle, CallbackReturn, OpenSubs,
         ClosedSubs
<1>. QED
  BY <1>1, <1>2 DEF mapped

\* ... and none of stop(), whose lock no putter holds before or after.
LEMMA StopStutters ==
  ASSUME IInv, NEW x \in Stoppers, StopCall(x) \/ StopStep(x)
  PROVE  UNCHANGED mapped
<1>1. UNCHANGED <<put_pc, puts, todo, thread, queue, seen>>
  BY DEF StopCall, StopStep, StopLock, StopFlag, StopJoin, StopReturn
<1>2. lock' = lock \/ (lock \notin Putters /\ lock' \notin Putters)
  BY TopicAssumption
  DEF IInv, LockHeld, StopCall, StopStep, StopLock, StopFlag, StopJoin, StopReturn
<1>3. Inbox' = Inbox
  BY <1>1, <1>2 DEF Inbox, EventOf
<1>. QED
  BY <1>1, <1>3 DEF mapped, Puts, OpenSubs, ClosedSubs

\* Buffers and readers are no part of the channel.
LEMMA OthersStutter ==
  ASSUME \/ \E b \in Buffers : GetBuffer(b) \/ BufferDequeue(b) \/ BufferTake(b)
         \/ \E r \in Readers : GetIndex(r) \/ GetSlot(r)
         \/ UNCHANGED vars
  PROVE  UNCHANGED mapped
<1>1. UNCHANGED <<lock, put_pc, puts, todo, thread, queue, seen>>
  BY DEF GetBuffer, BufferDequeue, BufferTake, GetIndex, GetSlot, vars
<1>. QED
  BY <1>1 DEF mapped, Puts, OpenSubs, ClosedSubs, Inbox, EventOf

----------------------------------------------------------------------------
\* Each step of the topic is a step of the channel or one it does not see.
LEMMA ChannelStep ==
  ASSUME IInv, [Next]_vars
  PROVE  [Channel!Next]_(Channel!vars)
<1>. USE DEF Channel!vars, Puts, OpenSubs, ClosedSubs, Inbox
<1>1. CASE UNCHANGED mapped
  BY <1>1 DEF mapped
<1>2. ASSUME NEW p \in Putters, PutLock(p)
      PROVE  Channel!Publish(p)
  BY <1>2, LockPublishes DEF Channel!Publish
<1>3. ASSUME NEW s \in Subscriptions, Schedule(s)
      PROVE  Channel!Open(s)
  BY <1>3, ScheduleOpens DEF Channel!Open
<1>4. ASSUME NEW s \in Subscriptions, ThreadDequeue(s)
      PROVE  Channel!HandOver(s)
  BY <1>4, DequeueHandsOver DEF Channel!HandOver, Without
<1>5. ASSUME NEW s \in Subscriptions, ThreadOnStop(s)
      PROVE  Channel!Close(s)
  BY <1>5, OnStopCloses DEF Channel!Close
<1>. HIDE DEF Puts, OpenSubs, ClosedSubs, Inbox
<1>6. CASE \/ \E p \in Putters : PutLock(p)
           \/ \E s \in Subscriptions : \/ Schedule(s) \/ ThreadDequeue(s)
                                       \/ ThreadOnStop(s)
  BY <1>2, <1>3, <1>4, <1>5, <1>6 DEF Channel!Next
<1>7. CASE \E p \in Putters : (PutIndex(p) \/ PutStep(p)) /\ ~PutLock(p)
  BY <1>1, <1>7, PutStutters
<1>8. CASE \E s \in Subscriptions :
             ThreadCheck(s) \/ ThreadIdle(s) \/ CallbackReturn(s)
  BY <1>1, <1>8, ThreadStutters
<1>9. CASE \E x \in Stoppers : StopCall(x) \/ StopStep(x)
  BY <1>1, <1>9, StopStutters
<1>10. CASE \/ \E b \in Buffers : GetBuffer(b) \/ BufferDequeue(b) \/ BufferTake(b)
            \/ \E r \in Readers : GetIndex(r) \/ GetSlot(r)
            \/ Finished
            \/ UNCHANGED vars
  BY <1>1, <1>10, OthersStutter DEF Finished
<1>. QED
  BY <1>6, <1>7, <1>8, <1>9, <1>10 DEF Next, PutStep, ThreadStep

\* The topic, with its lock, threads, counters and queues, implements the
\* channel: publishing, handing over and closing are single atomic steps.
THEOREM Refinement == Spec => ImplementsChannel
<1>1. IInv /\ [Next]_vars => [Channel!Next]_(Channel!vars)
  BY ChannelStep
<1>. QED
  BY <1>1, ChannelInit, Inductive, PTL DEF Spec, ImplementsChannel, Channel!Spec

=============================================================================
