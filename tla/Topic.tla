------------------------------- MODULE Topic -------------------------------
(***************************************************************************)
(* One topic of the switchboard (include/illixr/switchboard.hpp).          *)
(*                                                                         *)
(* A topic keeps the latest events in a ring that readers index without a  *)
(* lock, a list of subscriptions, each with a queue and a thread of its    *)
(* own that runs a callback on every event, and a list of buffers that     *)
(* consumers dequeue from.  subscriptions_lock_ guards the two lists: a    *)
(* put() holds it while it walks them, stop() holds it while it joins the  *)
(* subscription threads.                                                   *)
(*                                                                         *)
(* Every action is one step of one thread between two accesses to state    *)
(* that another thread may see.                                            *)
(***************************************************************************)
EXTENDS Integers, Sequences, FiniteSets

CONSTANTS
  Writers,         \* threads that call writer::put
  Subscriptions,   \* topic_subscriptions that may be scheduled
  SelfPublishing,  \* those whose callback puts on this same topic
  Buffers,         \* topic_buffers that may be created, one consumer each
  Blocking,        \* those whose consumer calls dequeue() without size() > 0
  Readers,         \* threads that call reader::get_ro_nullable
  Stoppers,        \* threads that call topic::stop, once each
  RingSize,        \* latest_buffer_size_ (256 in the code)
  SizeModulus,     \* 2^w for the w bits of size_t
  MaxPuts,         \* bound: the number of puts of one thread
  NoEvent,         \* a null ptr<const event>
  NoOwner          \* subscriptions_lock_ is free

Putters == Writers \cup SelfPublishing

ASSUME TopicAssumption ==
  /\ SelfPublishing \subseteq Subscriptions
  /\ Blocking \subseteq Buffers
  /\ Writers \cap Subscriptions = {}
  /\ Subscriptions \cap Buffers = {}
  /\ Putters \cap Stoppers = {}
  /\ NoOwner \notin Putters \cup Stoppers
  /\ RingSize \in Nat \ {0}
  /\ SizeModulus \in Nat \ {0}
  /\ MaxPuts \in Nat

\* The k-th event a thread publishes.
Event == [from : Putters, no : Nat \ {0}]

ASSUME NoEventAssumption == NoEvent \notin Event

VARIABLES
  latest_index, latest_buffer,        \* the ring of latest events
  lock, subscriptions, buffers,       \* subscriptions_lock_ and its lists
  put_pc, puts, index, todo, at,      \* the put() of each publishing thread
  thread, stop_flag, queue, enqueued, dequeued, seen,  \* subscriptions
  stop_pc,                            \* the stop() of each stopping thread
  buffer_pc, buffer_size, buffer_queue,                \* topic_buffers
  read_pc, read_index, got            \* the get() of each reading thread

ringVars   == <<latest_index, latest_buffer>>
listVars   == <<subscriptions, buffers>>
putVars    == <<put_pc, puts, index, todo, at>>
subVars    == <<thread, stop_flag, queue, enqueued, dequeued, seen>>
bufferVars == <<buffer_pc, buffer_size, buffer_queue>>
readVars   == <<read_pc, read_index, got>>
vars == <<ringVars, lock, listVars, putVars, subVars, stop_pc, bufferVars,
          readVars>>

----------------------------------------------------------------------------
(* Queues.  A BlockingConcurrentQueue keeps one FIFO per producing thread; *)
(* the consumer may go on with any of them, so it takes any event that no  *)
(* earlier event of the same thread precedes.                              *)

\* Mutants: one shared pool with no order per producer; the last is overlooked.
AnyPosition(q) == 1..Len(q)
AllButLast(q) == 1..(Len(q) - 1)

Takeable(q) ==
  {i \in 1..Len(q) : \A j \in 1..(i - 1) : q[j].from # q[i].from}

Without(q, i) == SubSeq(q, 1, i - 1) \o SubSeq(q, i + 1, Len(q))

\* n successful or failed try_dequeue calls: what they leave of q.
AfterDraining(q, n) ==
  IF n \in 0..Len(q) THEN SubSeq(q, n + 1, Len(q)) ELSE <<>>

\* The event thread p is publishing.
EventOf(p) == [from |-> p, no |-> puts[p]]

\* Mutant: a thread that is busy with an event is taken for stopped.
RunningAndWaiting(s) == thread[s] \in {"check", "wait"} /\ ~stop_flag[s]

\* managed_thread::get_state() = running.
Running(s) == thread[s] # "unscheduled" /\ ~stop_flag[s]

\* Mutant: join() is left out.
Detached(s) == TRUE

\* thread_.join() of a subscription returns.
Joined(s) == thread[s] = "exited"

\* Mutant: the index is not wrapped.
UnwrappedIndex == latest_index + 1

\* Mutant: the slot of the latest event is overwritten.
CurrentIndex == latest_index % RingSize

\* The slot put() chooses.
NextIndex == (latest_index + 1) % RingSize

\* Mutant: the slot after the latest is read.
SlotAfter(i) == (i + 1) % RingSize

\* The slot get() reads.
SlotOf(i) == i % RingSize

\* Mutant: queue_size_ is not decremented.
NotDecremented(n) == n

\* queue_size_--, an atomic<size_t>.
Decremented(n) == (n - 1) % SizeModulus

\* Mutant: size() >= 0.
SizeAllowsAnyway(b) == buffer_size[b] >= 0

\* The consumer dequeues blindly, or has seen size() > 0.
SizeAllows(b) == b \in Blocking \/ buffer_size[b] > 0

----------------------------------------------------------------------------
Init ==
  /\ latest_index = 0
  /\ latest_buffer = [i \in 0..(RingSize - 1) |-> NoEvent]
  /\ lock = NoOwner
  /\ subscriptions = {}
  /\ buffers = {}
  /\ put_pc = [p \in Putters |-> "idle"]
  /\ puts = [p \in Putters |-> 0]
  /\ index = [p \in Putters |-> 0]
  /\ todo = [p \in Putters |-> {}]
  /\ at = [p \in Putters |-> NoOwner]
  /\ thread = [s \in Subscriptions |-> "unscheduled"]
  /\ stop_flag = [s \in Subscriptions |-> FALSE]
  /\ queue = [s \in Subscriptions |-> <<>>]
  /\ enqueued = [s \in Subscriptions |-> 0]
  /\ dequeued = [s \in Subscriptions |-> 0]
  /\ seen = [s \in Subscriptions |-> <<>>]
  /\ stop_pc = [x \in Stoppers |-> "idle"]
  /\ buffer_pc = [b \in Buffers |-> "idle"]
  /\ buffer_size = [b \in Buffers |-> 0]
  /\ buffer_queue = [b \in Buffers |-> <<>>]
  /\ read_pc = [r \in Readers |-> "idle"]
  /\ read_index = [r \in Readers |-> 0]
  /\ got = [r \in Readers |-> NoEvent]

----------------------------------------------------------------------------
(* topic::put.  A writer thread may publish at any time, a subscription    *)
(* thread from within its callback.                                        *)

\* size_t index = (latest_index_.load() + 1) % latest_buffer_size_
PutIndex(p) ==
  /\ put_pc[p] = "idle"
  /\ p \in Writers \/ (p \in SelfPublishing /\ thread[p] = "callback")
  /\ puts[p] < MaxPuts
  /\ puts' = [puts EXCEPT ![p] = @ + 1]
  /\ index' = [index EXCEPT ![p] = NextIndex]
  /\ put_pc' = [put_pc EXCEPT ![p] = "store"]
  /\ UNCHANGED <<ringVars, lock, listVars, todo, at, subVars, stop_pc,
                 bufferVars, readVars>>

\* latest_buffer_[index] = this_event
PutStore(p) ==
  /\ put_pc[p] = "store"
  /\ latest_buffer' = [latest_buffer EXCEPT ![index[p]] = EventOf(p)]
  /\ put_pc' = [put_pc EXCEPT ![p] = "increment"]
  /\ UNCHANGED <<latest_index, lock, listVars, puts, index, todo, at, subVars,
                 stop_pc, bufferVars, readVars>>

\* latest_index_++
PutIncrement(p) ==
  /\ put_pc[p] = "increment"
  /\ latest_index' = latest_index + 1
  /\ put_pc' = [put_pc EXCEPT ![p] = "lock"]
  /\ UNCHANGED <<latest_buffer, lock, listVars, puts, index, todo, at, subVars,
                 stop_pc, bufferVars, readVars>>

\* std::unique_lock lock{subscriptions_lock_}
PutLock(p) ==
  /\ put_pc[p] = "lock"
  /\ lock = NoOwner
  /\ lock' = p
  /\ todo' = [todo EXCEPT ![p] = subscriptions \cup buffers]
  /\ put_pc' = [put_pc EXCEPT ![p] = "visit"]
  /\ UNCHANGED <<ringVars, listVars, puts, index, at, subVars, stop_pc,
                 bufferVars, readVars>>

\* topic_subscription::enqueue up to queue_.enqueue; the walk's order is free.
PutEnqueue(p, s) ==
  /\ put_pc[p] = "visit"
  /\ s \in todo[p]
  /\ todo' = [todo EXCEPT ![p] = @ \ {s}]
  /\ IF Running(s)
     THEN /\ queue' = [queue EXCEPT ![s] = Append(@, EventOf(p))]
          /\ at' = [at EXCEPT ![p] = s]
          /\ put_pc' = [put_pc EXCEPT ![p] = "count"]
     ELSE UNCHANGED <<queue, at, put_pc>>
  /\ UNCHANGED <<ringVars, lock, listVars, puts, index, thread, stop_flag,
                 enqueued, dequeued, seen, stop_pc, bufferVars, readVars>>

\* enqueued_++ of topic_subscription::enqueue, after the thread may have dequeued.
PutCount(p) ==
  /\ put_pc[p] = "count"
  /\ enqueued' = [enqueued EXCEPT ![at[p]] = @ + 1]
  /\ at' = [at EXCEPT ![p] = NoOwner]
  /\ put_pc' = [put_pc EXCEPT ![p] = "visit"]
  /\ UNCHANGED <<ringVars, lock, listVars, puts, index, todo, thread,
                 stop_flag, queue, dequeued, seen, stop_pc, bufferVars,
                 readVars>>

\* topic_buffer::enqueue: queue_size_++ ...
PutBufferSize(p, b) ==
  /\ put_pc[p] = "visit"
  /\ b \in todo[p]
  /\ todo[p] \cap Subscriptions = {}
  /\ todo' = [todo EXCEPT ![p] = @ \ {b}]
  /\ buffer_size' = [buffer_size EXCEPT ![b] = (@ + 1) % SizeModulus]
  /\ at' = [at EXCEPT ![p] = b]
  /\ put_pc' = [put_pc EXCEPT ![p] = "enqueue"]
  /\ UNCHANGED <<ringVars, lock, listVars, puts, index, subVars, stop_pc,
                 buffer_pc, buffer_queue, readVars>>

\* ... then queue_.enqueue
PutBufferEnqueue(p) ==
  /\ put_pc[p] = "enqueue"
  /\ buffer_queue' = [buffer_queue EXCEPT ![at[p]] = Append(@, EventOf(p))]
  /\ at' = [at EXCEPT ![p] = NoOwner]
  /\ put_pc' = [put_pc EXCEPT ![p] = "visit"]
  /\ UNCHANGED <<ringVars, lock, listVars, puts, index, todo, subVars,
                 stop_pc, buffer_pc, buffer_size, readVars>>

\* Both walks are over: the lock is released and put() returns.
PutReturn(p) ==
  /\ put_pc[p] = "visit"
  /\ todo[p] = {}
  /\ lock' = NoOwner
  /\ put_pc' = [put_pc EXCEPT ![p] = "idle"]
  /\ UNCHANGED <<ringVars, listVars, puts, index, todo, at, subVars, stop_pc,
                 bufferVars, readVars>>

----------------------------------------------------------------------------
(* topic::schedule and topic::get_buffer: one critical section each.       *)

Schedule(s) ==
  /\ lock = NoOwner
  /\ thread[s] = "unscheduled"
  /\ subscriptions' = subscriptions \cup {s}
  /\ thread' = [thread EXCEPT ![s] = "check"]
  /\ UNCHANGED <<ringVars, lock, buffers, putVars, stop_flag, queue, enqueued,
                 dequeued, seen, stop_pc, bufferVars, readVars>>

GetBuffer(b) ==
  /\ lock = NoOwner
  /\ b \notin buffers
  /\ buffers' = buffers \cup {b}
  /\ UNCHANGED <<ringVars, lock, subscriptions, putVars, subVars, stop_pc,
                 bufferVars, readVars>>

----------------------------------------------------------------------------
(* managed_thread::thread_main running the functions of a subscription.    *)

\* while (! stop_.load())
ThreadCheck(s) ==
  /\ thread[s] = "check"
  /\ thread' = [thread EXCEPT ![s] = IF stop_flag[s] THEN "drain" ELSE "wait"]
  /\ UNCHANGED <<ringVars, lock, listVars, putVars, stop_flag, queue, enqueued,
                 dequeued, seen, stop_pc, bufferVars, readVars>>

\* wait_dequeue_timed succeeds, dequeued_++ and the callback begins.
ThreadDequeue(s) ==
  /\ thread[s] = "wait"
  /\ \E i \in Takeable(queue[s]) :
       /\ seen' = [seen EXCEPT ![s] = Append(@, queue[s][i])]
       /\ queue' = [queue EXCEPT ![s] = Without(@, i)]
  /\ dequeued' = [dequeued EXCEPT ![s] = @ + 1]
  /\ thread' = [thread EXCEPT ![s] = "callback"]
  /\ UNCHANGED <<ringVars, lock, listVars, putVars, stop_flag, enqueued,
                 stop_pc, bufferVars, readVars>>

\* Mutant: wait_dequeue, which never times out.
ThreadIdleNever(s) == FALSE

\* wait_dequeue_timed times out.
ThreadIdle(s) ==
  /\ thread[s] = "wait"
  /\ queue[s] = <<>>
  /\ thread' = [thread EXCEPT ![s] = "check"]
  /\ UNCHANGED <<ringVars, lock, listVars, putVars, stop_flag, queue, enqueued,
                 dequeued, seen, stop_pc, bufferVars, readVars>>

\* The callback returns; not in the middle of a put() of its own.
CallbackReturn(s) ==
  /\ thread[s] = "callback"
  /\ s \in SelfPublishing => put_pc[s] = "idle"
  /\ thread' = [thread EXCEPT ![s] = "check"]
  /\ UNCHANGED <<ringVars, lock, listVars, putVars, stop_flag, queue, enqueued,
                 dequeued, seen, stop_pc, bufferVars, readVars>>

\* thread_on_stop: enqueued_ - dequeued_ events are dropped, the thread ends.
ThreadOnStop(s) ==
  /\ thread[s] = "drain"
  /\ queue' = [queue EXCEPT ![s] = AfterDraining(@, enqueued[s] - dequeued[s])]
  /\ thread' = [thread EXCEPT ![s] = "exited"]
  /\ UNCHANGED <<ringVars, lock, listVars, putVars, stop_flag, enqueued,
                 dequeued, seen, stop_pc, bufferVars, readVars>>

----------------------------------------------------------------------------
(* topic::stop: subscriptions_.clear() under the lock.  Destroying a       *)
(* subscription sets its thread's stop_ and joins the thread.              *)

StopCall(x) ==
  /\ stop_pc[x] = "idle"
  /\ stop_pc' = [stop_pc EXCEPT ![x] = "lock"]
  /\ UNCHANGED <<ringVars, lock, listVars, putVars, subVars, bufferVars,
                 readVars>>

\* Mutant: the lists are cleared without subscriptions_lock_.
StopLockUnguarded(x) ==
  /\ stop_pc[x] = "lock"
  /\ stop_pc' = [stop_pc EXCEPT ![x] = "clear"]
  /\ UNCHANGED <<ringVars, lock, listVars, putVars, subVars, bufferVars,
                 readVars>>

StopLock(x) ==
  /\ stop_pc[x] = "lock"
  /\ lock = NoOwner
  /\ lock' = x
  /\ stop_pc' = [stop_pc EXCEPT ![x] = "clear"]
  /\ UNCHANGED <<ringVars, listVars, putVars, subVars, bufferVars, readVars>>

StopFlag(x, s) ==
  /\ stop_pc[x] = "clear"
  /\ s \in subscriptions
  /\ stop_flag' = [stop_flag EXCEPT ![s] = TRUE]
  /\ stop_pc' = [stop_pc EXCEPT ![x] = "join"]
  /\ UNCHANGED <<ringVars, lock, listVars, putVars, thread, queue, enqueued,
                 dequeued, seen, bufferVars, readVars>>

StopJoin(x, s) ==
  /\ stop_pc[x] = "join"
  /\ s \in subscriptions
  /\ stop_flag[s]
  /\ Joined(s)
  /\ subscriptions' = subscriptions \ {s}
  /\ stop_pc' = [stop_pc EXCEPT ![x] = "clear"]
  /\ UNCHANGED <<ringVars, lock, buffers, putVars, subVars, bufferVars,
                 readVars>>

StopReturn(x) ==
  /\ stop_pc[x] = "clear"
  /\ subscriptions = {}
  /\ lock' = NoOwner
  /\ stop_pc' = [stop_pc EXCEPT ![x] = "returned"]
  /\ UNCHANGED <<ringVars, listVars, putVars, subVars, bufferVars, readVars>>

----------------------------------------------------------------------------
(* topic_buffer: size() and dequeue() of the one consumer of a buffer.     *)

\* queue_size_--
BufferDequeue(b) ==
  /\ buffer_pc[b] = "idle"
  /\ b \in buffers
  /\ SizeAllows(b)
  /\ buffer_size' = [buffer_size EXCEPT ![b] = Decremented(@)]
  /\ buffer_pc' = [buffer_pc EXCEPT ![b] = "wait"]
  /\ UNCHANGED <<ringVars, lock, listVars, putVars, subVars, stop_pc,
                 buffer_queue, readVars>>

\* queue_.wait_dequeue, which has no timeout.
BufferTake(b) ==
  /\ buffer_pc[b] = "wait"
  /\ \E i \in Takeable(buffer_queue[b]) :
       buffer_queue' = [buffer_queue EXCEPT ![b] = Without(@, i)]
  /\ buffer_pc' = [buffer_pc EXCEPT ![b] = "idle"]
  /\ UNCHANGED <<ringVars, lock, listVars, putVars, subVars, stop_pc,
                 buffer_size, readVars>>

----------------------------------------------------------------------------
(* topic::get: the index is loaded, then the slot is read.                 *)

GetIndex(r) ==
  /\ read_pc[r] = "idle"
  /\ read_index' = [read_index EXCEPT ![r] = latest_index]
  /\ read_pc' = [read_pc EXCEPT ![r] = "slot"]
  /\ UNCHANGED <<ringVars, lock, listVars, putVars, subVars, stop_pc,
                 bufferVars, got>>

GetSlot(r) ==
  /\ read_pc[r] = "slot"
  /\ got' = [got EXCEPT ![r] = latest_buffer[SlotOf(read_index[r])]]
  /\ read_pc' = [read_pc EXCEPT ![r] = "idle"]
  /\ UNCHANGED <<ringVars, lock, listVars, putVars, subVars, stop_pc,
                 bufferVars, read_index>>

----------------------------------------------------------------------------
\* The rest of a put() that has begun.
PutStep(p) ==
  \/ PutStore(p)
  \/ PutIncrement(p)
  \/ PutLock(p)
  \/ \E s \in Subscriptions : PutEnqueue(p, s)
  \/ PutCount(p)
  \/ \E b \in Buffers : PutBufferSize(p, b)
  \/ PutBufferEnqueue(p)
  \/ PutReturn(p)

ThreadStep(s) ==
  \/ ThreadCheck(s)
  \/ ThreadDequeue(s)
  \/ ThreadIdle(s)
  \/ CallbackReturn(s)
  \/ ThreadOnStop(s)

\* The rest of a stop() that has begun.
StopStep(x) ==
  \/ StopLock(x)
  \/ \E s \in Subscriptions : StopFlag(x, s)
  \/ \E s \in Subscriptions : StopJoin(x, s)
  \/ StopReturn(x)

\* The bounded workload is over; a consumer blocked in dequeue() stays blocked.
Finished ==
  /\ \A p \in Putters : put_pc[p] = "idle"
  /\ \A x \in Stoppers : stop_pc[x] = "returned"
  /\ \A s \in Subscriptions : thread[s] \in {"check", "wait", "callback", "exited"}
  /\ UNCHANGED vars

Next ==
  \/ \E p \in Putters : PutIndex(p) \/ PutStep(p)
  \/ \E s \in Subscriptions : Schedule(s) \/ ThreadStep(s)
  \/ \E x \in Stoppers : StopCall(x) \/ StopStep(x)
  \/ \E b \in Buffers : GetBuffer(b) \/ BufferDequeue(b) \/ BufferTake(b)
  \/ \E r \in Readers : GetIndex(r) \/ GetSlot(r)
  \/ Finished

Spec == Init /\ [][Next]_vars

(* Every thread the code runs keeps running: a put() or stop() that has    *)
(* begun goes on, a subscription thread loops, a callback returns, and a   *)
(* blocked consumer wakes when its queue holds an event.  Nobody is bound  *)
(* to publish, schedule, stop or read.                                     *)
Fairness ==
  /\ \A p \in Putters : WF_vars(PutStep(p))
  /\ \A s \in Subscriptions : WF_vars(ThreadStep(s))
  /\ \A x \in Stoppers : WF_vars(StopStep(x))
  /\ \A b \in Buffers : WF_vars(BufferTake(b))

FairSpec == Spec /\ Fairness

----------------------------------------------------------------------------
(* Properties.                                                             *)

\* The values of the state: an index stays inside the ring, a counter inside
\* its word, and a queue holds events (latest_index_, latest_buffer_, queue_).
TypeOK ==
  /\ latest_index \in Nat
  /\ latest_buffer \in [0..(RingSize - 1) -> Event \cup {NoEvent}]
  /\ lock \in Putters \cup Stoppers \cup {NoOwner}
  /\ subscriptions \subseteq Subscriptions
  /\ buffers \subseteq Buffers
  /\ put_pc \in [Putters -> {"idle", "store", "increment", "lock", "visit",
                             "count", "enqueue"}]
  /\ puts \in [Putters -> Nat]
  /\ index \in [Putters -> 0..(RingSize - 1)]
  /\ todo \in [Putters -> SUBSET (Subscriptions \cup Buffers)]
  /\ at \in [Putters -> Subscriptions \cup Buffers \cup {NoOwner}]
  /\ thread \in [Subscriptions -> {"unscheduled", "check", "wait", "callback",
                                   "drain", "exited"}]
  /\ stop_flag \in [Subscriptions -> BOOLEAN]
  /\ queue \in [Subscriptions -> Seq(Event)]
  /\ enqueued \in [Subscriptions -> Nat]
  /\ dequeued \in [Subscriptions -> Nat]
  /\ seen \in [Subscriptions -> Seq(Event)]
  /\ stop_pc \in [Stoppers -> {"idle", "lock", "clear", "join", "returned"}]
  /\ buffer_pc \in [Buffers -> {"idle", "wait"}]
  /\ buffer_size \in [Buffers -> 0..(SizeModulus - 1)]
  /\ buffer_queue \in [Buffers -> Seq(Event)]
  /\ read_pc \in [Readers -> {"idle", "slot"}]
  /\ read_index \in [Readers -> Nat]
  /\ got \in [Readers -> Event \cup {NoEvent}]

\* A put() only ever visits subscriptions that are still on the list: the list
\* node it is at, or is going to, is not one that stop() has destroyed.
WalkIsLive ==
  \A p \in Putters :
    /\ todo[p] \cap Subscriptions \subseteq subscriptions
    /\ put_pc[p] = "count" => at[p] \in subscriptions

\* The assertion of thread_on_stop: each of the enqueued_ - dequeued_ calls of
\* try_dequeue finds an event, and they leave none behind, although enqueued_
\* is a plain integer that lags behind the queue while a put() is under way.
DrainIsExact ==
  \A s \in Subscriptions :
    thread[s] = "drain" => enqueued[s] - dequeued[s] = Len(queue[s])

\* Once stop() has removed a subscription its thread has ended: no callback is
\* running or will run, no event is left in its queue and nobody is adding one.
RemovedIsQuiet ==
  \A s \in Subscriptions :
    thread[s] # "unscheduled" /\ s \notin subscriptions
      => /\ thread[s] = "exited"
         /\ queue[s] = <<>>
         /\ \A p \in Putters : put_pc[p] = "count" => at[p] # s

\* What a subscription has seen and has still queued of one publisher are
\* consecutive events in the order of publication: none is skipped, repeated
\* or overtaken, although events of different publishers may overtake.
NoneSkipped ==
  \A s \in Subscriptions :
    LET all == seen[s] \o queue[s]
    IN  \A i, j \in DOMAIN all :
          /\ i < j
          /\ all[i].from = all[j].from
          /\ \A k \in (i + 1)..(j - 1) : all[k].from # all[i].from
          => all[j].no = all[i].no + 1

\* topic_buffer's size is the length of its queue, one more while a put() is
\* between its two steps and one less, modulo the width of size_t, while the
\* consumer is blocked: size() of an empty buffer may read as 2^w - 1.
BufferSizeExact ==
  \A b \in Buffers :
    LET arriving == Cardinality({p \in Putters :
                                   put_pc[p] = "enqueue" /\ at[p] = b})
        waiting == IF buffer_pc[b] = "wait" THEN 1 ELSE 0
    IN  buffer_size[b] =
          (Len(buffer_queue[b]) + arriving - waiting) % SizeModulus

\* A consumer that asks size() > 0 before it dequeues waits on an empty queue
\* only while a put() is between queue_size_++ and queue_.enqueue.
PollingNeverStarves ==
  \A b \in Buffers \ Blocking :
    buffer_pc[b] = "wait" /\ buffer_queue[b] = <<>>
      => \E p \in Putters : put_pc[p] = "enqueue" /\ at[p] = b

\* The n-th of the events stored by the only writer w.
HoldsNth(slot, w, n) ==
  IF n = 0 THEN slot = NoEvent ELSE slot = [from |-> w, no |-> n]

\* The caveat of topic::put, for one writer: unless RingSize writes have begun
\* since get() loaded the index, the slot it is about to read holds exactly
\* the event that was the latest at the load and nobody is writing it.
GetIsLatestUnlessLapped ==
  \A r \in Readers, w \in Writers :
    read_pc[r] = "slot" /\ puts[w] < read_index[r] + RingSize
      => /\ HoldsNth(latest_buffer[read_index[r] % RingSize], w, read_index[r])
         /\ put_pc[w] = "store" => index[w] # read_index[r] % RingSize

\* Null is what get() returns in the beginning only: a get() that loads an
\* index other than 0 returns an event (the test's "Assert this only happens in
\* the beginning").
NullOnlyInTheBeginning ==
  \A r \in Readers :
    read_pc[r] = "idle" /\ read_index[r] > 0 => got[r] # NoEvent

\* stop() returns: every thread it joins ends.
StopReturns ==
  \A x \in Stoppers : stop_pc[x] = "lock" ~> stop_pc[x] = "returned"

\* Every event a subscription was given is handed to its callback, however many
\* follow it, unless the subscription is stopped first.
EventsSettle ==
  \A s \in Subscriptions, n \in 1..(MaxPuts * Cardinality(Putters)) :
    Len(seen[s]) + Len(queue[s]) >= n
      ~> Len(seen[s]) >= n \/ thread[s] = "exited"

----------------------------------------------------------------------------
(* The topic implements the channel.  A publication counts from the moment *)
(* its put() has the lock; what its walk has yet to enqueue is in the      *)
(* inbox already.  A subscription closes when its thread drops the rest.   *)

Channel == INSTANCE TopicChannel WITH
  Publishers  <- Putters,
  Subscribers <- Subscriptions,
  published   <- [p \in Putters |->
                    IF put_pc[p] \in {"store", "increment", "lock"}
                    THEN puts[p] - 1 ELSE puts[p]],
  open        <- {s \in Subscriptions : thread[s] \notin {"unscheduled", "exited"}},
  closed      <- {s \in Subscriptions : thread[s] = "exited"},
  inbox       <- [s \in Subscriptions |->
                    IF lock \in Putters /\ s \in todo[lock]
                    THEN Append(queue[s], EventOf(lock)) ELSE queue[s]],
  handed      <- seen

\* Every behaviour of the topic is one of the channel.
ImplementsChannel == Channel!Spec

=============================================================================
