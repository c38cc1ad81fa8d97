---------------------------- MODULE ClientQueue ----------------------------
(***************************************************************************)
(* OPC_UA/ClientQueue: the queue between the poll threads (producers) and  *)
(* the thread that writes to the OPC UA server (the consumer).  A mutex    *)
(* mtx_ protects queue_ and shutting_down_, and the consumer waits on the  *)
(* condition variable cv_.  Every operation is split where another thread  *)
(* can run: before it has the mutex, while it holds it, and between        *)
(* releasing the mutex and notifying cv_.                                  *)
(***************************************************************************)
EXTENDS Naturals, Sequences

CONSTANTS
    Producers,    \* the threads that call push: one per hardware worker
    Consumer,     \* the thread that calls drain: SystemInfoClient's sender
    Owner,        \* the thread that calls shutdown, once
    NoThread,     \* nobody holds the mutex
    MaxPushes     \* bound: how often each producer calls push

Threads == Producers \cup {Consumer, Owner}

ASSUME ThreadsAssumption ==
    /\ Consumer \notin Producers
    /\ Owner \notin Producers
    /\ Owner # Consumer
    /\ NoThread \notin Threads

ASSUME BoundAssumption == MaxPushes \in Nat

VARIABLES
    mtx,             \* the thread that holds mtx_, or NoThread
    queue,           \* queue_
    shutting_down,   \* shutting_down_
    waiting,         \* the consumer is in cv_'s wait set
    pc,              \* where each thread is
    pushes,          \* how many times each producer has called push
    drained          \* history: everything drain has returned, in order

vars == <<mtx, queue, shutting_down, waiting, pc, pushes, drained>>

\* A snapshot is known by who took it and by its number in that thread.
Snapshot == [from : Producers, seq : 0 .. MaxPushes]

\* The snapshot a producer is pushing.
Pushing(p) == [from |-> p, seq |-> pushes[p]]

\* Everything the queue ever accepted, in the order it was accepted.
Stream == drained \o queue

Init ==
    /\ mtx = NoThread
    /\ queue = <<>>
    /\ shutting_down = FALSE
    /\ waiting = FALSE
    /\ pc = [t \in Threads |-> "ready"]
    /\ pushes = [p \in Producers |-> 0]
    /\ drained = <<>>

------------------------------------------------------------------------------
(* The mutex. *)

Acquire(t) == mtx = NoThread /\ mtx' = t

Release(t) == mtx = t /\ mtx' = NoThread

Goto(t, from, to) == pc[t] = from /\ pc' = [pc EXCEPT ![t] = to]

------------------------------------------------------------------------------
(* push: store under the lock unless shutting down, unlock, notify_one.      *)

PushLock(p) ==
    /\ pushes[p] < MaxPushes
    /\ Goto(p, "ready", "locked")
    /\ Acquire(p)
    /\ pushes' = [pushes EXCEPT ![p] = @ + 1]
    /\ UNCHANGED <<queue, shutting_down, waiting, drained>>

\* Mutant: the snapshot is put at the front.
PushStoreFront(p) ==
    /\ Goto(p, "locked", "notify")
    /\ ~shutting_down
    /\ queue' = <<Pushing(p)>> \o queue
    /\ Release(p)
    /\ UNCHANGED <<shutting_down, waiting, pushes, drained>>

\* Mutant: the test of shutting_down_ is dropped.
PushStoreAlways(p) ==
    /\ Goto(p, "locked", "notify")
    /\ queue' = Append(queue, Pushing(p))
    /\ Release(p)
    /\ UNCHANGED <<shutting_down, waiting, pushes, drained>>

PushStore(p) ==
    /\ Goto(p, "locked", "notify")
    /\ ~shutting_down
    /\ queue' = Append(queue, Pushing(p))
    /\ Release(p)
    /\ UNCHANGED <<shutting_down, waiting, pushes, drained>>

\* Mutant: a queue that is not empty refuses the push as well.
PushDropWhenBusy(p) ==
    /\ Goto(p, "locked", "ready")
    /\ shutting_down \/ queue # <<>>
    /\ Release(p)
    /\ UNCHANGED <<queue, shutting_down, waiting, pushes, drained>>

PushDrop(p) ==
    /\ Goto(p, "locked", "ready")
    /\ shutting_down
    /\ Release(p)
    /\ UNCHANGED <<queue, shutting_down, waiting, pushes, drained>>

\* Mutant: push forgets to notify.
PushSilent(p) ==
    /\ Goto(p, "notify", "ready")
    /\ UNCHANGED <<mtx, queue, shutting_down, waiting, pushes, drained>>

PushNotify(p) ==
    /\ Goto(p, "notify", "ready")
    /\ waiting' = FALSE
    /\ UNCHANGED <<mtx, queue, shutting_down, pushes, drained>>

------------------------------------------------------------------------------
(* drain: wait until there is something to take or the queue shuts down,     *)
(* then take everything.                                                     *)

DrainReady == queue # <<>> \/ shutting_down

DrainLock ==
    /\ Goto(Consumer, "ready", "locked")
    /\ Acquire(Consumer)
    /\ UNCHANGED <<queue, shutting_down, waiting, pushes, drained>>

\* Mutant: cv_.wait without its predicate.
DrainWaitBlindly ==
    /\ Goto(Consumer, "locked", "blocked")
    /\ Release(Consumer)
    /\ waiting' = TRUE
    /\ UNCHANGED <<queue, shutting_down, pushes, drained>>

\* cv_.wait releases the mutex and joins the wait set in one step.
DrainWait ==
    /\ Goto(Consumer, "locked", "blocked")
    /\ ~DrainReady
    /\ Release(Consumer)
    /\ waiting' = TRUE
    /\ UNCHANGED <<queue, shutting_down, pushes, drained>>

\* A condition variable may wake its waiter for no reason.
SpuriousWakeup ==
    /\ waiting
    /\ waiting' = FALSE
    /\ UNCHANGED <<mtx, queue, shutting_down, pc, pushes, drained>>

DrainRelock ==
    /\ ~waiting
    /\ Goto(Consumer, "blocked", "locked")
    /\ Acquire(Consumer)
    /\ UNCHANGED <<queue, shutting_down, waiting, pushes, drained>>

DrainTake ==
    /\ Goto(Consumer, "locked", "ready")
    /\ DrainReady
    /\ drained' = drained \o queue
    /\ queue' = <<>>
    /\ Release(Consumer)
    /\ UNCHANGED <<shutting_down, waiting, pushes>>

------------------------------------------------------------------------------
(* shutdown: raise the flag under the lock, unlock, notify_all.              *)

ShutdownLock ==
    /\ Goto(Owner, "ready", "locked")
    /\ Acquire(Owner)
    /\ UNCHANGED <<queue, shutting_down, waiting, pushes, drained>>

ShutdownSet ==
    /\ Goto(Owner, "locked", "notify")
    /\ shutting_down' = TRUE
    /\ Release(Owner)
    /\ UNCHANGED <<queue, waiting, pushes, drained>>

ShutdownNotify ==
    /\ Goto(Owner, "notify", "done")
    /\ waiting' = FALSE
    /\ UNCHANGED <<mtx, queue, shutting_down, pushes, drained>>

------------------------------------------------------------------------------

Push(p) == PushLock(p) \/ PushStore(p) \/ PushDrop(p) \/ PushNotify(p)

Drain == DrainLock \/ DrainWait \/ SpuriousWakeup \/ DrainRelock \/ DrainTake

Shutdown == ShutdownLock \/ ShutdownSet \/ ShutdownNotify

Next == (\E p \in Producers : Push(p)) \/ Drain \/ Shutdown

SafeSpec == Init /\ [][Next]_vars

\* A thread that holds the mutex, or has notified nobody yet, keeps running;
\* a thread that asks for the mutex again and again gets it (no starvation
\* by the mutex).  Nothing makes a producer call push, or the owner shutdown.
Fairness ==
    /\ \A p \in Producers : WF_vars(PushStore(p) \/ PushDrop(p) \/ PushNotify(p))
    /\ WF_vars(DrainWait \/ DrainTake)
    /\ SF_vars(DrainLock)
    /\ SF_vars(DrainRelock)
    /\ WF_vars(ShutdownSet \/ ShutdownNotify)

Spec == SafeSpec /\ Fairness

------------------------------------------------------------------------------
(* Properties. *)

TypeOK ==
    /\ mtx \in Threads \cup {NoThread}
    /\ queue \in Seq(Snapshot)
    /\ shutting_down \in BOOLEAN
    /\ waiting \in BOOLEAN
    /\ pc \in [Threads -> {"ready", "locked", "notify", "blocked", "done"}]
    /\ pushes \in [Producers -> 0 .. MaxPushes]
    /\ drained \in Seq(Snapshot)

\* queue_ and shutting_down_ are touched by one thread at a time: whoever is
\* inside a critical section of push, drain or shutdown holds mtx_.
MutualExclusion ==
    \A t \in Threads : pc[t] = "locked" => mtx = t

\* No wakeup is lost: if drain sits in the wait set although there is
\* something for it to do, the push or the shutdown that made it so has
\* not notified yet, and will.
NoLostWakeup ==
    waiting /\ DrainReady => \E t \in Threads : pc[t] = "notify"

\* What one poll thread pushes is queued and drained in the order it was
\* pushed, and nothing is queued or drained twice.
PerProducerOrder ==
    \A i, j \in 1 .. Len(Stream) :
        i < j /\ Stream[i].from = Stream[j].from
            => Stream[i].seq < Stream[j].seq

\* The producer's snapshot of that number is queued or has been drained.
Stored(p, n) ==
    \E i \in 1 .. Len(Stream) : Stream[i] = [from |-> p, seq |-> n]

\* No snapshot that a poll thread pushes disappears: it is queued or drained,
\* or its push is still inside the critical section.  Only a shutdown refuses
\* it, and then every later one too: the server never sees a gap.
NothingLost ==
    \A p \in Producers : \A n \in 1 .. pushes[p] :
        \/ Stored(p, n)
        \/ n = pushes[p] /\ pc[p] = "locked"
        \/ shutting_down /\ \A m \in n .. pushes[p] : ~Stored(p, m)

\* A consumer that waits with something to do returns from drain.
WaitingDrainReturns ==
    pc[Consumer] = "blocked" /\ DrainReady ~> pc[Consumer] = "ready"

\* The queue is a lossless first-in first-out channel with a close.
Channel == INSTANCE SnapshotChannel WITH
    Snapshots <- Snapshot,
    accepted <- Stream,
    delivered <- Len(drained),
    closed <- shutting_down

ChannelSpec == Channel!Spec
==============================================================================
