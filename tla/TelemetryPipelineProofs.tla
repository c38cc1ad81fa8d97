---------------------- MODULE TelemetryPipelineProofs ----------------------
(***************************************************************************)
(* Proofs about HardwareManager and TelemetryPipeline for every set of     *)
(* workers and devices and every number of polls.  The poll threads come   *)
(* first; their steps are proved for NextManager or Terminate, so that     *)
(* they also hold in TelemetryPipeline, where main may end the process.    *)
(***************************************************************************)
EXTENDS TelemetryPipeline, SequenceTheorems, FiniteSetTheorems, TLAPS

ManagerStep == NextManager \/ Terminate

\* The poll threads, when there are any, are one per worker in the order of
\* workers_, and a thread inside execute is at a device its worker has.
ThreadsInv ==
    /\ threads = <<>> \/ Len(threads) = Len(WorkerList)
    /\ \A i \in 1 .. Len(threads) : threads[i].worker = WorkerList[i]
    /\ \A i \in 1 .. Len(threads) : Executing(i) => threads[i].k \in 1 .. Len(DevicesOf(i))

\* Devices are found once, before any thread exists.
DevicesInv ==
    /\ \A w \in Workers : devices[w] = <<>> \/ devices[w] \in Found(w)
    /\ owner \in {"constructed", "initializing"} => threads = <<>>
    /\ owner \in {"ready", "stopping"} => initialized = Workers
    /\ threads # <<>> => initialized = Workers

ManagerInv == TypeOK /\ ThreadsInv /\ DevicesInv

LEMMA NewThreadsType ==
    /\ NewThreads \in Seq(Thread)
    /\ Len(NewThreads) = Len(WorkerList)
    /\ \A i \in 1 .. Len(WorkerList) :
         /\ NewThreads[i].worker = WorkerList[i]
         /\ NewThreads[i].pc = "test"
<1>1. WorkerList \in Seq(Workers)
  BY WorkersAssumption DEF WorkersAssumption
<1>2. \A i \in 1 .. Len(WorkerList) :
        [worker |-> WorkerList[i], stop |-> FALSE, pc |-> "test", k |-> 1] \in Thread
  BY <1>1 DEF Thread
<1>3. Len(WorkerList) \in Nat
  BY <1>1
<1>4. NewThreads \in [1 .. Len(WorkerList) -> Thread]
  BY <1>2 DEF NewThreads
<1>5. NewThreads \in Seq(Thread) /\ Len(NewThreads) = Len(WorkerList)
  BY <1>3, <1>4
<1>6. QED
  BY <1>5 DEF NewThreads

LEMMA ManagerInitInv == InitManager => ManagerInv
<1> SUFFICES ASSUME InitManager PROVE ManagerInv
  OBVIOUS
<1>1. TypeOK
  <2>1. polls \in [Workers -> 0 .. MaxPolls]
    BY PollsAssumption DEF PollsAssumption, InitManager
  <2>2. devices \in [Workers -> Seq(Devices)] /\ threads \in Seq(Thread)
        /\ queue \in Seq(TelemetrySnapshot)
    BY DEF InitManager
  <2>3. reading \in [Devices -> Nat]
    BY DEF InitManager
  <2>4. QED
    BY <2>1, <2>2, <2>3 DEF InitManager, TypeOK
<1>2. QED
  BY <1>1 DEF InitManager, ManagerInv, ThreadsInv, DevicesInv

LEMMA ThreadFacts ==
    ASSUME ManagerInv, NEW i \in 1 .. Len(threads)
    PROVE  /\ threads \in Seq(Thread) /\ threads[i] \in Thread
           /\ threads[i].worker \in Workers /\ threads[i].k \in Nat \ {0}
           /\ DevicesOf(i) \in Seq(Devices)
           /\ Executing(i) => /\ threads[i].k \in 1 .. Len(DevicesOf(i))
                              /\ DeviceOf(i) \in Devices
<1>1. threads \in Seq(Thread) /\ threads[i] \in Thread
  BY DEF ManagerInv, TypeOK
<1>2. threads[i].worker \in Workers /\ threads[i].k \in Nat \ {0}
  BY <1>1 DEF Thread
<1>3. DevicesOf(i) \in Seq(Devices)
  BY <1>2 DEF DevicesOf, ManagerInv, TypeOK
<1>4. Executing(i) => threads[i].k \in 1 .. Len(DevicesOf(i))
  BY DEF ManagerInv, ThreadsInv
<1>5. QED
  BY <1>1, <1>2, <1>3, <1>4 DEF DeviceOf, Here

\* Every step of a poll thread replaces the thread's own entry by one of the
\* same worker.
LEMMA PollThreadStep ==
    ASSUME ManagerInv, NEW i \in 1 .. Len(threads), PollThread(i)
    PROVE  /\ \E t \in Thread :
                /\ threads' = [threads EXCEPT ![i] = t]
                /\ t.worker = threads[i].worker
                /\ t.pc \in {"fetch", "push"} => t.k \in 1 .. Len(DevicesOf(i))
           /\ UNCHANGED <<owner, initialized, devices>>
<1>0. /\ threads \in Seq(Thread) /\ threads[i] \in Thread
      /\ threads[i].worker \in Workers /\ threads[i].k \in Nat \ {0}
      /\ DevicesOf(i) \in Seq(Devices)
      /\ Executing(i) => threads[i].k \in 1 .. Len(DevicesOf(i))
  BY ThreadFacts
<1> DEFINE Moved(label, k) ==
      [worker |-> threads[i].worker, stop |-> threads[i].stop, pc |-> label, k |-> k]
<1>m. ASSUME NEW label \in {"test", "fetch", "push", "end", "exited"},
             NEW k \in Nat \ {0},
             label \in {"fetch", "push"} => k \in 1 .. Len(DevicesOf(i)),
             Move(i, label, k)
      PROVE  \E t \in Thread :
                /\ threads' = [threads EXCEPT ![i] = t]
                /\ t.worker = threads[i].worker
                /\ t.pc \in {"fetch", "push"} => t.k \in 1 .. Len(DevicesOf(i))
  <2>1. Moved(label, k) \in Thread
    BY <1>0 DEF Thread
  <2>2. QED
    BY <1>m, <2>1 DEF Move
<1>1. CASE ExitLoop(i)
  <2>1. Move(i, "exited", Here(i)) /\ UNCHANGED <<owner, initialized, devices>>
    BY <1>1 DEF ExitLoop
  <2>2. QED
    BY <1>0, <1>m, <2>1 DEF Here
<1>2. CASE BeginPoll(i)
  <2>1. Move(i, FirstLabel(i), 1) /\ UNCHANGED <<owner, initialized, devices>>
    BY <1>2 DEF BeginPoll
  <2>2. CASE DevicesOf(i) = <<>>
    BY <1>m, <2>1, <2>2 DEF FirstLabel
  <2>3. CASE DevicesOf(i) # <<>>
    <3>1. 1 \in 1 .. Len(DevicesOf(i))
      BY <1>0, <2>3
    <3>2. QED
      BY <1>m, <2>1, <2>3, <3>1 DEF FirstLabel
  <2>4. QED
    BY <2>2, <2>3
<1>3. CASE FetchMetrics(i)
  <2>1. Move(i, "push", Here(i)) /\ UNCHANGED <<owner, initialized, devices>>
    BY <1>3 DEF FetchMetrics
  <2>2. Executing(i)
    BY <1>3 DEF FetchMetrics, At, Executing
  <2>3. QED
    BY <1>0, <1>m, <2>1, <2>2 DEF Here
<1>4. CASE PushSnapshot(i)
  <2>1. AfterPush(i) /\ UNCHANGED <<owner, initialized, devices>>
    BY <1>4 DEF PushSnapshot
  <2>2. CASE Here(i) < Len(DevicesOf(i))
    <3>1. Here(i) + 1 \in Nat \ {0} /\ Here(i) + 1 \in 1 .. Len(DevicesOf(i))
      BY <1>0, <2>2 DEF Here
    <3>2. Move(i, "fetch", Here(i) + 1)
      BY <2>1, <2>2 DEF AfterPush
    <3>3. QED
      BY <1>m, <2>1, <3>1, <3>2
  <2>3. CASE ~(Here(i) < Len(DevicesOf(i)))
    BY <1>0, <1>m, <2>1, <2>3 DEF AfterPush, Here
  <2>4. QED
    BY <2>2, <2>3
<1>5. CASE EndPoll(i)
  <2>1. Move(i, "test", Here(i)) /\ UNCHANGED <<owner, initialized, devices>>
    BY <1>5 DEF EndPoll
  <2>2. QED
    BY <1>0, <1>m, <2>1 DEF Here
<1>6. QED
  BY <1>1, <1>2, <1>3, <1>4, <1>5 DEF PollThread

LEMMA PollThreadType ==
    ASSUME ManagerInv, NEW i \in 1 .. Len(threads), PollThread(i)
    PROVE  TypeOK'
<1>0. /\ threads \in Seq(Thread) /\ threads[i] \in Thread
      /\ threads[i].worker \in Workers
      /\ Executing(i) => DeviceOf(i) \in Devices
  BY ThreadFacts
<1>1. threads' \in Seq(Thread) /\ UNCHANGED <<owner, initialized, devices>>
  BY <1>0, PollThreadStep
<1>2. polls' \in [Workers -> 0 .. MaxPolls]
  <2>1. CASE BeginPoll(i)
    BY <1>0, <2>1, PollsAssumption DEF PollsAssumption, BeginPoll, ManagerInv, TypeOK
  <2>2. CASE ~BeginPoll(i)
    BY <2>2 DEF PollThread, ExitLoop, FetchMetrics, PushSnapshot, EndPoll, ManagerInv, TypeOK
  <2>3. QED
    BY <2>1, <2>2
<1>3. reading' \in [Devices -> Nat]
  <2>1. CASE FetchMetrics(i)
    <3>1. DeviceOf(i) \in Devices
      BY <1>0, <2>1 DEF FetchMetrics, At, Executing
    <3>2. QED
      BY <2>1, <3>1 DEF FetchMetrics, ManagerInv, TypeOK
  <2>2. CASE ~FetchMetrics(i)
    BY <2>2 DEF PollThread, ExitLoop, BeginPoll, PushSnapshot, EndPoll, ManagerInv, TypeOK
  <2>3. QED
    BY <2>1, <2>2
<1>4. queue' \in Seq(TelemetrySnapshot)
  <2>1. CASE PushSnapshot(i)
    <3>1. Snapshot(DeviceOf(i)) \in TelemetrySnapshot
      BY <1>0, <2>1 DEF PushSnapshot, At, Executing, Snapshot, TelemetrySnapshot,
         ManagerInv, TypeOK
    <3>2. QED
      BY <2>1, <3>1 DEF PushSnapshot, ManagerInv, TypeOK
  <2>2. CASE ~PushSnapshot(i)
    BY <2>2 DEF PollThread, ExitLoop, BeginPoll, FetchMetrics, EndPoll, ManagerInv, TypeOK
  <2>3. QED
    BY <2>1, <2>2
<1>5. QED
  BY <1>1, <1>2, <1>3, <1>4 DEF ManagerInv, TypeOK

\* No step of the manager, its workers' threads, or the end of the process
\* breaks the invariant.
LEMMA ManagerStepInv ==
    ASSUME ManagerInv, ManagerStep
    PROVE  ManagerInv'
<1> USE DEF ManagerInv
<1>1. CASE InitializeAllWorkers
  BY <1>1 DEF InitializeAllWorkers, TypeOK, ThreadsInv, DevicesInv, Executing, DevicesOf
<1>2. ASSUME NEW w \in Workers, InitializeWorker(w) PROVE ManagerInv'
  <2>1. /\ owner = "initializing" /\ threads = <<>>
        /\ UNCHANGED <<owner, threads, polls, queue>>
        /\ initialized' = initialized \cup {w}
    BY <1>2 DEF InitializeWorker, DevicesInv
  <2>2. PICK found \in Found(w) :
          /\ devices' = [devices EXCEPT ![w] = found]
          /\ \E refreshed \in SUBSET {found[k] : k \in 1 .. Len(found)} :
               reading' = [d \in Devices |->
                             IF d \in refreshed THEN reading[d] + 1 ELSE reading[d]]
    BY <1>2 DEF InitializeWorker
  <2>3. found \in Seq(Devices)
    BY DevicesAssumption DEF DevicesAssumption
  <2>4. devices' \in [Workers -> Seq(Devices)]
    BY <2>2, <2>3 DEF TypeOK
  <2>5. reading' \in [Devices -> Nat]
    BY <2>2 DEF TypeOK
  <2>6. TypeOK'
    BY <2>1, <2>4, <2>5 DEF TypeOK
  <2>7. ThreadsInv'
    BY <2>1 DEF ThreadsInv
  <2>8. \A v \in Workers : devices'[v] = <<>> \/ devices'[v] \in Found(v)
    <3>1. SUFFICES ASSUME NEW v \in Workers
                   PROVE  devices'[v] = <<>> \/ devices'[v] \in Found(v)
      OBVIOUS
    <3>2. CASE v = w
      BY <2>2, <3>2 DEF TypeOK
    <3>3. CASE v # w
      BY <2>2, <3>3 DEF TypeOK, DevicesInv
    <3>4. QED
      BY <3>2, <3>3
  <2>9. QED
    BY <2>1, <2>6, <2>7, <2>8 DEF DevicesInv
<1>3. CASE Terminate
  BY <1>3 DEF Terminate, TypeOK, ThreadsInv, DevicesInv, Executing, DevicesOf
<1>4. CASE JoinInitializers
  BY <1>4 DEF JoinInitializers, TypeOK, ThreadsInv, DevicesInv, Executing, DevicesOf
<1>5. CASE StartPolling
  <2>1. /\ threads' \in Seq(Thread) /\ Len(threads') = Len(WorkerList)
        /\ \A i \in 1 .. Len(threads') :
             threads'[i].worker = WorkerList[i] /\ threads'[i].pc = "test"
    BY <1>5, NewThreadsType DEF StartPolling
  <2>2. ThreadsInv'
    BY <2>1 DEF ThreadsInv, Executing
  <2>3. QED
    BY <1>5, <2>1, <2>2 DEF StartPolling, TypeOK, DevicesInv
<1>6. CASE StopPolling
  <2>1. \A i \in 1 .. Len(threads) :
          /\ [threads[i] EXCEPT !.stop = TRUE] \in Thread
          /\ [threads[i] EXCEPT !.stop = TRUE].worker = threads[i].worker
          /\ [threads[i] EXCEPT !.stop = TRUE].pc = threads[i].pc
          /\ [threads[i] EXCEPT !.stop = TRUE].k = threads[i].k
    <3>1. \A t \in Thread :
            /\ [t EXCEPT !.stop = TRUE] \in Thread
            /\ [t EXCEPT !.stop = TRUE].worker = t.worker
            /\ [t EXCEPT !.stop = TRUE].pc = t.pc
            /\ [t EXCEPT !.stop = TRUE].k = t.k
      BY DEF Thread
    <3>2. QED
      BY <3>1 DEF TypeOK
  <2>2. /\ threads' \in Seq(Thread) /\ Len(threads') = Len(threads)
        /\ \A i \in 1 .. Len(threads) :
             /\ threads'[i].worker = threads[i].worker
             /\ threads'[i].pc = threads[i].pc
             /\ threads'[i].k = threads[i].k
    <3>1. threads' = [i \in 1 .. Len(threads) |-> [threads[i] EXCEPT !.stop = TRUE]]
      BY <1>6 DEF StopPolling
    <3>2. threads' \in [1 .. Len(threads) -> Thread] /\ Len(threads) \in Nat
      BY <2>1, <3>1 DEF TypeOK
    <3>3. threads' \in Seq(Thread) /\ Len(threads') = Len(threads)
      BY <3>2
    <3>4. QED
      BY <2>1, <3>1, <3>3
  <2>3. UNCHANGED <<initialized, devices, polls, reading, queue>> /\ owner' = "stopping"
        /\ owner = "ready"
    BY <1>6 DEF StopPolling
  <2>4. ThreadsInv'
    <3>1. threads = <<>> => threads' = <<>>
      BY <2>2 DEF TypeOK
    <3>2. threads' = <<>> \/ Len(threads') = Len(WorkerList)
      BY <2>2, <3>1 DEF ThreadsInv
    <3>3. \A i \in 1 .. Len(threads') : threads'[i].worker = WorkerList[i]
      BY <2>2 DEF ThreadsInv
    <3>4. \A i \in 1 .. Len(threads') :
            threads'[i].pc \in {"fetch", "push"} =>
              threads'[i].k \in 1 .. Len(devices[threads'[i].worker])
      BY <2>2 DEF ThreadsInv, Executing, DevicesOf
    <3>5. QED
      BY <2>3, <3>2, <3>3, <3>4 DEF ThreadsInv, Executing, DevicesOf
  <2>5. QED
    BY <2>2, <2>3, <2>4 DEF TypeOK, DevicesInv
<1>7. CASE JoinPollers
  BY <1>7 DEF JoinPollers, TypeOK, ThreadsInv, DevicesInv
<1>8. ASSUME NEW i \in 1 .. Len(threads), PollThread(i) PROVE ManagerInv'
  <2>1. TypeOK'
    BY <1>8, PollThreadType
  <2>2. PICK t \in Thread :
          /\ threads' = [threads EXCEPT ![i] = t]
          /\ t.worker = threads[i].worker
          /\ t.pc \in {"fetch", "push"} => t.k \in 1 .. Len(DevicesOf(i))
    BY <1>8, PollThreadStep
  <2>3. UNCHANGED <<owner, initialized, devices>>
    BY <1>8, PollThreadStep
  <2>4. ThreadsInv'
    BY <2>2, <2>3 DEF ThreadsInv, Executing, DevicesOf, TypeOK
  <2>5. DevicesInv'
    BY <2>2, <2>3 DEF DevicesInv, TypeOK
  <2>6. QED
    BY <2>1, <2>4, <2>5
<1>9. QED
  BY <1>1, <1>2, <1>3, <1>4, <1>5, <1>6, <1>7, <1>8
  DEF ManagerStep, NextManager, InitializeThread, InitializeThrows

LEMMA ManagerStutterInv ==
    ASSUME ManagerInv, UNCHANGED managerVars
    PROVE  ManagerInv'
  BY DEF managerVars, ManagerInv, TypeOK, ThreadsInv, DevicesInv, Executing, DevicesOf

\* Two threads execute for different workers, and no device is found by two.
LEMMA ManagerInvNoSharing == ManagerInv => NoSharedDevice
<1> SUFFICES ASSUME ManagerInv,
                    NEW i \in 1 .. Len(threads), NEW j \in 1 .. Len(threads),
                    Executing(i), Executing(j), DeviceOf(i) = DeviceOf(j)
             PROVE  i = j
  BY DEF NoSharedDevice
<1> DEFINE v == threads[i].worker  w == threads[j].worker
<1>1. /\ v \in Workers /\ w \in Workers
      /\ threads[i].k \in 1 .. Len(devices[v])
      /\ threads[j].k \in 1 .. Len(devices[w])
  BY ThreadFacts DEF DevicesOf
<1>2. devices[v] \in Found(v) /\ devices[w] \in Found(w)
  BY <1>1 DEF ManagerInv, DevicesInv
<1>3. devices[v][threads[i].k] = devices[w][threads[j].k]
  BY DEF DeviceOf, DevicesOf, Here
<1>4. v = w
  BY <1>1, <1>2, <1>3, DevicesAssumption, SMTT(30) DEF DevicesAssumption
<1>5. /\ i \in 1 .. Len(WorkerList) /\ j \in 1 .. Len(WorkerList)
      /\ v = WorkerList[i] /\ w = WorkerList[j]
  BY DEF ManagerInv, ThreadsInv
<1>6. QED
  BY <1>4, <1>5, WorkersAssumption DEF WorkersAssumption

------------------------------------------------------------------------------
(* A worker serves its devices evenly. *)

\* How many snapshots of a device a queue has.
Count(q, d) == Cardinality({n \in 1 .. Len(q) : q[n].device = d})

\* Where a thread inside execute has been in this poll.
Behind(i, a, b) == Executing(i) /\ a < Here(i) /\ Here(i) <= b

\* Between two polls a worker's devices have been pushed equally often, and
\* within one the devices the thread has been at once more than the others.
EvenInv ==
    /\ owner \in {"constructed", "initializing"} => queue = <<>>
    /\ \A i \in 1 .. Len(threads) : \A a, b \in 1 .. Len(DevicesOf(i)) :
         a < b => Count(queue, DevicesOf(i)[a]) =
                    IF Behind(i, a, b) THEN Count(queue, DevicesOf(i)[b]) + 1
                                       ELSE Count(queue, DevicesOf(i)[b])
    /\ threads = <<>> =>
         \A w \in Workers : \A a, b \in 1 .. Len(devices[w]) :
           Count(queue, devices[w][a]) = Count(queue, devices[w][b])

LEMMA CountFacts ==
    ASSUME NEW S, NEW q \in Seq(S), NEW d
    PROVE  /\ Count(q, d) \in Nat
           /\ \A e \in S : Count(Append(q, e), d) =
                             IF e.device = d THEN Count(q, d) + 1 ELSE Count(q, d)
<1> DEFINE Hits == {n \in 1 .. Len(q) : q[n].device = d}
<1>1. Len(q) \in Nat /\ IsFiniteSet(1 .. Len(q))
  BY FS_Interval
<1>2. IsFiniteSet(Hits) /\ Cardinality(Hits) \in Nat
  BY <1>1, FS_Subset, FS_CardinalityType
<1>3. ASSUME NEW e \in S
      PROVE  Count(Append(q, e), d) = IF e.device = d THEN Count(q, d) + 1 ELSE Count(q, d)
  <2> DEFINE last == Len(q) + 1
             more == Append(q, e)
             Now == {n \in 1 .. Len(more) : more[n].device = d}
  <2>1. /\ Len(more) = last /\ more[last] = e
        /\ \A n \in 1 .. Len(q) : more[n] = q[n]
    BY <1>1
  <2>2. 1 .. last = (1 .. Len(q)) \cup {last} /\ last \notin 1 .. Len(q)
    BY <1>1
  <2> HIDE DEF more, last
  <2>3. Now = IF e.device = d THEN Hits \cup {last} ELSE Hits
    BY <2>1, <2>2
  <2>4. Cardinality(Now) = IF e.device = d THEN Cardinality(Hits) + 1 ELSE Cardinality(Hits)
    <3>1. last \notin Hits
      BY <2>2
    <3>2. Cardinality(Hits \cup {last}) = Cardinality(Hits) + 1
      BY <1>2, <3>1, FS_AddElement
    <3>3. QED
      BY <2>3, <3>2
  <2>5. QED
    BY <2>4 DEF Count, more
<1>4. QED
  BY <1>2, <1>3 DEF Count

\* What a worker found is found by it alone, and once.
LEMMA FoundOnce ==
    ASSUME ManagerInv, NEW v \in Workers, NEW w \in Workers,
           NEW a \in 1 .. Len(devices[v]), NEW b \in 1 .. Len(devices[w]),
           devices[v][a] = devices[w][b]
    PROVE  v = w /\ a = b
<1>1. devices[v] \in Found(v) /\ devices[w] \in Found(w)
  BY DEF ManagerInv, DevicesInv
<1>2. v = w
  BY <1>1, DevicesAssumption, SMTT(30) DEF DevicesAssumption
<1>3. QED
  BY <1>1, <1>2, DevicesAssumption, SMTT(30) DEF DevicesAssumption

\* Nothing is pushed, and what the threads have done in this poll stays or is
\* forgotten between two polls.
LEMMA EvenKept ==
    ASSUME ManagerInv, EvenInv, UNCHANGED <<devices, queue>>,
           Len(threads') = Len(threads) \/ threads' = <<>>,
           owner' \in {"constructed", "initializing"} => queue = <<>>,
           \A i \in 1 .. Len(threads') : threads'[i].worker = threads[i].worker,
           \A i \in 1 .. Len(threads') : \A a, b \in 1 .. Len(DevicesOf(i)) :
             a < b => Behind(i, a, b)' = Behind(i, a, b),
           threads' = <<>> => \A i \in 1 .. Len(threads) : ~Executing(i)
    PROVE  EvenInv'
<1>1. queue' = queue
  OBVIOUS
<1>2. \A i \in 1 .. Len(threads') : i \in 1 .. Len(threads) /\ DevicesOf(i)' = DevicesOf(i)
  BY DEF DevicesOf
<1>3. ASSUME NEW i \in 1 .. Len(threads'), NEW a \in 1 .. Len(DevicesOf(i)'),
             NEW b \in 1 .. Len(DevicesOf(i)'), a < b
      PROVE  Count(queue', DevicesOf(i)[a]) = IF Behind(i, a, b)' THEN Count(queue', DevicesOf(i)[b]) + 1
                                                            ELSE Count(queue', DevicesOf(i)[b])
  <2>1. /\ i \in 1 .. Len(threads) /\ DevicesOf(i)' = DevicesOf(i)
        /\ Behind(i, a, b)' = Behind(i, a, b)
    BY <1>2, <1>3
  <2>2. Count(queue, DevicesOf(i)[a]) = IF Behind(i, a, b) THEN Count(queue, DevicesOf(i)[b]) + 1
                                                     ELSE Count(queue, DevicesOf(i)[b])
    BY <1>3, <2>1 DEF EvenInv
  <2>3. QED
    BY <1>1, <2>1, <2>2
<1>4. ASSUME threads' = <<>>, NEW w \in Workers, NEW a \in 1 .. Len(devices[w]),
             NEW b \in 1 .. Len(devices[w])
      PROVE  Count(queue, devices[w][a]) = Count(queue, devices[w][b])
  <2>1. CASE threads = <<>>
    BY <2>1 DEF EvenInv
  <2>2. CASE threads # <<>>
    <3>1. PICK i \in 1 .. Len(threads) : threads[i].worker = w
      BY <2>2 DEF ManagerInv, ThreadsInv, Workers
    <3>2. \A x, y \in 1 .. Len(devices[w]) :
            x < y => Count(queue, devices[w][x]) = Count(queue, devices[w][y])
      BY <1>4, <3>1 DEF EvenInv, DevicesOf, Behind
    <3>3. Len(devices[w]) \in Nat
      BY DEF ManagerInv, TypeOK
    <3>4. a < b \/ b < a \/ a = b
      BY <3>3
    <3>5. QED
      BY <3>2, <3>4
  <2>3. QED
    BY <2>1, <2>2
<1>5. QED
  BY <1>1, <1>2, <1>3, <1>4 DEF EvenInv

\* A thread that does not push.
LEMMA EvenMoves ==
    ASSUME ManagerInv, EvenInv, NEW i \in 1 .. Len(threads),
           ExitLoop(i) \/ BeginPoll(i) \/ FetchMetrics(i) \/ EndPoll(i)
    PROVE  EvenInv'
<1>1. /\ threads \in Seq(Thread) /\ threads[i] \in Thread
      /\ UNCHANGED <<owner, devices, queue>>
  BY ThreadFacts DEF ExitLoop, BeginPoll, FetchMetrics, EndPoll
<1>2. PICK label, k : /\ Move(i, label, k)
                      /\ Executing(i) => label = "push" /\ k = threads[i].k
                      /\ ~Executing(i) => label \notin {"fetch", "push"} \/ k = 1
  BY DEF ExitLoop, BeginPoll, FetchMetrics, EndPoll, At, Executing, Here
<1> DEFINE moved == [worker |-> threads[i].worker, stop |-> threads[i].stop,
                     pc |-> label, k |-> k]
<1>3. threads' = [threads EXCEPT ![i] = moved]
  BY <1>2 DEF Move
<1>4. /\ Len(threads') = Len(threads) /\ threads'[i] = moved
      /\ \A j \in 1 .. Len(threads) : j # i => threads'[j] = threads[j]
  BY <1>1, <1>3
<1>5. \A j \in 1 .. Len(threads') : threads'[j].worker = threads[j].worker
  BY <1>4
<1>6. ASSUME NEW j \in 1 .. Len(threads'), NEW a \in 1 .. Len(DevicesOf(j)),
             NEW b \in 1 .. Len(DevicesOf(j)), a < b
      PROVE  Behind(j, a, b)' = Behind(j, a, b)
  <2>1. CASE j # i
    BY <1>4, <2>1 DEF Behind, Executing, Here
  <2>2. CASE j = i
    <3>1. ~(a < 1)
      OBVIOUS
    <3>2. QED
      BY <1>2, <1>4, <2>2, <3>1 DEF Behind, Executing, Here
  <2>3. QED
    BY <2>1, <2>2
<1>7. threads' # <<>>
  BY <1>1, <1>4
<1>8. owner' \in {"constructed", "initializing"} => queue = <<>>
  BY <1>1 DEF EvenInv
<1>9. QED
  BY <1>1, <1>4, <1>5, <1>6, <1>7, <1>8, EvenKept

\* A push moves the thread on to the next device, or to the end of the poll
\* after the last one.
LEMMA EvenPush ==
    ASSUME ManagerInv, EvenInv, NEW i \in 1 .. Len(threads), PushSnapshot(i)
    PROVE  EvenInv'
<1> DEFINE k == threads[i].k
           N == Len(DevicesOf(i))
           next == IF k < N THEN k + 1 ELSE k
           label == IF k < N THEN "fetch" ELSE "end"
           moved == [worker |-> threads[i].worker, stop |-> threads[i].stop,
                     pc |-> label, k |-> next]
<1>1. /\ threads \in Seq(Thread) /\ threads[i] \in Thread /\ threads[i].worker \in Workers
      /\ k \in Nat \ {0} /\ N \in Nat /\ k \in 1 .. N /\ Executing(i)
      /\ DeviceOf(i) = DevicesOf(i)[k] /\ DeviceOf(i) \in Devices
  BY ThreadFacts DEF PushSnapshot, At, Executing, DeviceOf, Here
<1>2. /\ threads' = [threads EXCEPT ![i] = moved]
      /\ queue' = Append(queue, Snapshot(DeviceOf(i)))
      /\ UNCHANGED <<owner, devices>>
  BY DEF PushSnapshot, AfterPush, Move, Here
<1>3. /\ Len(threads') = Len(threads) /\ threads'[i] = moved
      /\ \A j \in 1 .. Len(threads) : j # i => threads'[j] = threads[j]
  BY <1>1, <1>2
<1>4. queue \in Seq(TelemetrySnapshot) /\ Snapshot(DeviceOf(i)) \in TelemetrySnapshot
      /\ Snapshot(DeviceOf(i)).device = DeviceOf(i)
  BY <1>1 DEF Snapshot, TelemetrySnapshot, ManagerInv, TypeOK
<1>5. \A d : /\ Count(queue, d) \in Nat
             /\ Count(queue', d) = IF d = DeviceOf(i) THEN Count(queue, d) + 1
                                                      ELSE Count(queue, d)
  BY <1>2, <1>4, CountFacts
<1>6. threads' # <<>> /\ owner' \notin {"constructed", "initializing"}
  BY <1>1, <1>2, <1>3 DEF ManagerInv, DevicesInv
<1>7. \A j \in 1 .. Len(threads) : /\ threads[j].worker \in Workers
                                   /\ DevicesOf(j)' = DevicesOf(j)
                                   /\ DevicesOf(j) = devices[threads[j].worker]
  <2>1. \A j \in 1 .. Len(threads) : threads'[j].worker = threads[j].worker
    BY <1>3
  <2>2. QED
    BY <1>2, <2>1, ThreadFacts DEF DevicesOf
<1>8. ASSUME NEW j \in 1 .. Len(threads), NEW a \in 1 .. Len(DevicesOf(j)),
             NEW b \in 1 .. Len(DevicesOf(j)), a < b
      PROVE  Count(queue', DevicesOf(j)[a]) = IF Behind(j, a, b)' THEN Count(queue', DevicesOf(j)[b]) + 1
                                                            ELSE Count(queue', DevicesOf(j)[b])
  <2> DEFINE x == Count(queue, DevicesOf(j)[a])
             y == Count(queue, DevicesOf(j)[b])
  <2>1. x = (IF Behind(j, a, b) THEN y + 1 ELSE y)
    BY <1>8 DEF EvenInv
  <2>2. x \in Nat /\ y \in Nat
    BY <1>5
  <2>3. Count(queue', DevicesOf(j)[a]) = (IF DevicesOf(j)[a] = DeviceOf(i) THEN x + 1 ELSE x)
    BY <1>5
  <2>4. Count(queue', DevicesOf(j)[b]) = (IF DevicesOf(j)[b] = DeviceOf(i) THEN y + 1 ELSE y)
    BY <1>5
  <2>5. CASE j # i
    <3>1. threads[j].worker # threads[i].worker
      BY <2>5, WorkersAssumption DEF WorkersAssumption, ManagerInv, ThreadsInv
    <3>2. DevicesOf(j)[a] # DeviceOf(i) /\ DevicesOf(j)[b] # DeviceOf(i)
      <4> DEFINE v == threads[j].worker
                 w == threads[i].worker
      <4>1. /\ v \in Workers /\ w \in Workers /\ v # w
            /\ DevicesOf(j) = devices[v] /\ DeviceOf(i) = devices[w][k]
            /\ a \in 1 .. Len(devices[v]) /\ b \in 1 .. Len(devices[v])
            /\ k \in 1 .. Len(devices[w])
        BY <1>1, <1>7, <3>1
      <4> HIDE DEF v, w, k
      <4>2. QED
        BY <4>1, FoundOnce
    <3>3. Behind(j, a, b)' = Behind(j, a, b)
      BY <1>3, <2>5 DEF Behind, Executing, Here
    <3>4. QED
      BY <2>1, <2>3, <2>4, <3>2, <3>3
  <2>6. CASE j = i
    <3>1. /\ DevicesOf(j)[a] = DeviceOf(i) <=> a = k
          /\ DevicesOf(j)[b] = DeviceOf(i) <=> b = k
      BY <1>1, <1>7, <2>6, FoundOnce, SMTT(30)
    <3>2. Behind(j, a, b) <=> a < k /\ k <= b
      BY <1>1, <2>6 DEF Behind, Here
    <3>3. Behind(j, a, b)' <=> k < N /\ a < k + 1 /\ k + 1 <= b
      <4>1. CASE k < N
        BY <1>3, <2>6, <4>1 DEF Behind, Executing, Here
      <4>2. CASE ~(k < N)
        BY <1>3, <2>6, <4>2 DEF Behind, Executing
      <4>3. QED
        BY <4>1, <4>2
    <3> DEFINE before == Behind(j, a, b)
               after == Behind(j, a, b)'
    <3>4. a \in 1 .. N /\ b \in 1 .. N
      BY <2>6
    <3> HIDE DEF before, after, x, y, k, N
    <3>5. QED
      BY <1>1, <1>8, <2>1, <2>2, <2>3, <2>4, <3>1, <3>2, <3>3, <3>4 DEF before, after
  <2>7. QED
    BY <2>5, <2>6
<1>9. QED
  BY <1>3, <1>6, <1>7, <1>8 DEF EvenInv

LEMMA EvenNext ==
    ASSUME ManagerInv, EvenInv, [NextManager]_managerVars
    PROVE  EvenInv'
<1>1. CASE \/ InitializeAllWorkers \/ JoinInitializers \/ UNCHANGED managerVars
           \/ \E w \in Workers : InitializeThrows(w)
  <2>1. UNCHANGED <<devices, queue, threads>>
    BY <1>1 DEF InitializeAllWorkers, JoinInitializers, InitializeThrows, Terminate, managerVars
  <2>2. owner' \in {"constructed", "initializing"} => queue = <<>>
    BY <1>1 DEF InitializeAllWorkers, JoinInitializers, InitializeThrows, Terminate, managerVars,
       EvenInv
  <2>3. QED
    BY <2>1, <2>2 DEF EvenInv, DevicesOf, Behind, Executing, Here
<1>2. ASSUME NEW w \in Workers, InitializeWorker(w)
      PROVE  EvenInv'
  <2>1. /\ owner' = owner /\ threads = <<>> /\ threads' = threads /\ queue' = queue
        /\ queue = <<>>
    BY <1>2 DEF InitializeWorker, EvenInv, ManagerInv, DevicesInv
  <2>2. \A d : Count(queue', d) = Cardinality({})
    <3>1. Len(<<>>) = 0 /\ 1 .. 0 = {}
      OBVIOUS
    <3>2. QED
      BY <2>1, <3>1 DEF Count
  <2>3. QED
    BY <2>1, <2>2 DEF EvenInv
<1>3. CASE StartPolling
  <2>1. /\ threads = <<>> /\ threads' = NewThreads /\ UNCHANGED <<owner, devices, queue>>
        /\ owner = "ready"
    BY <1>3 DEF StartPolling
  <2>2. Len(threads') = Len(WorkerList)
        /\ \A i \in 1 .. Len(threads') : /\ ~Executing(i)'
                                         /\ threads'[i].worker \in Workers
    BY <2>1, NewThreadsType DEF Executing, Workers
  <2>3. \A w \in Workers : \A a, b \in 1 .. Len(devices[w]) :
          Count(queue', devices[w][a]) = Count(queue', devices[w][b])
    BY <2>1 DEF EvenInv
  <2>4. \A w \in Workers : \A a, b \in 1 .. Len(devices'[w]) :
          Count(queue', devices[w][a]) = Count(queue', devices[w][b])
    BY <2>1, <2>3
  <2>5. QED
    BY <2>1, <2>2, <2>4 DEF EvenInv, Behind, DevicesOf
<1>4. CASE StopPolling
  <2>1. /\ threads' = [i \in 1 .. Len(threads) |-> [threads[i] EXCEPT !.stop = TRUE]]
        /\ UNCHANGED <<devices, queue>> /\ owner' = "stopping"
        /\ threads \in Seq(Thread)
    BY <1>4 DEF StopPolling, ManagerInv, TypeOK
  <2>2. /\ Len(threads') = Len(threads)
        /\ \A i \in 1 .. Len(threads) : /\ threads'[i].worker = threads[i].worker
                                        /\ threads'[i].pc = threads[i].pc
                                        /\ threads'[i].k = threads[i].k
    <3>1. \A t \in Thread : /\ [t EXCEPT !.stop = TRUE].worker = t.worker
                            /\ [t EXCEPT !.stop = TRUE].pc = t.pc
                            /\ [t EXCEPT !.stop = TRUE].k = t.k
      BY DEF Thread
    <3>2. \A i \in 1 .. Len(threads) : threads[i] \in Thread
      BY <2>1
    <3>3. Len(threads') = Len(threads)
      BY <2>1
    <3>4. QED
      BY <2>1, <3>1, <3>2, <3>3
  <2>3. \A i \in 1 .. Len(threads') : \A a, b : Behind(i, a, b)' = Behind(i, a, b)
    BY <2>2 DEF Behind, Executing, Here
  <2>4. threads' = <<>> => threads = <<>>
    BY <2>1, <2>2
  <2>5. QED
    BY <2>1, <2>2, <2>3, <2>4, EvenKept
<1>5. CASE JoinPollers
  <2>1. /\ threads' = <<>> /\ UNCHANGED <<devices, queue>> /\ owner' = "ready"
        /\ \A i \in 1 .. Len(threads) : ~Executing(i)
    BY <1>5 DEF JoinPollers, Executing
  <2>2. \A i \in 1 .. Len(threads') : FALSE
    BY <2>1
  <2>3. QED
    BY <2>1, <2>2, EvenKept
<1>6. ASSUME NEW i \in 1 .. Len(threads), PollThread(i)
      PROVE  EvenInv'
  BY <1>6, EvenMoves, EvenPush DEF PollThread
<1>7. QED
  BY <1>1, <1>2, <1>3, <1>4, <1>5, <1>6 DEF NextManager, InitializeThread

\* Between two polls, and from one worker's device to the next, what is pushed
\* differs by one at most.
LEMMA EvenServes ==
    ASSUME ManagerInv, EvenInv
    PROVE  DevicesServedEvenly
<1> SUFFICES ASSUME NEW w \in Workers, NEW a \in 1 .. Len(devices[w]),
                    NEW b \in 1 .. Len(devices[w]), a < b
             PROVE  Pushed(devices[w][a]) \in {Pushed(devices[w][b]), Pushed(devices[w][b]) + 1}
  BY DEF DevicesServedEvenly
<1>1. \A d : Pushed(d) = Count(queue, d)
  BY DEF Pushed, Count
<1>2. CASE threads = <<>>
  BY <1>1, <1>2 DEF EvenInv
<1>3. CASE threads # <<>>
  <2>1. PICK i \in 1 .. Len(threads) : threads[i].worker = w
    BY <1>3 DEF ManagerInv, ThreadsInv, Workers
  <2>2. QED
    BY <1>1, <2>1 DEF EvenInv, DevicesOf
<1>4. QED
  BY <1>2, <1>3

\* The manager's variables keep their ranges.
THEOREM TypeCorrect == SafeSpec => []TypeOK
<1>1. InitManager => ManagerInv
  BY ManagerInitInv
<1>2. ManagerInv /\ [NextManager]_managerVars => ManagerInv'
  BY ManagerStepInv, ManagerStutterInv DEF ManagerStep
<1>3. ManagerInv => TypeOK
  BY DEF ManagerInv
<1>4. QED
  BY <1>1, <1>2, <1>3, PTL DEF SafeSpec

\* Sensors need no lock: however often the owner starts and stops polling, a
\* device is in the hands of one poll thread at a time.
THEOREM OneThreadPerDevice == SafeSpec => []NoSharedDevice
<1>1. InitManager => ManagerInv
  BY ManagerInitInv
<1>2. ManagerInv /\ [NextManager]_managerVars => ManagerInv'
  BY ManagerStepInv, ManagerStutterInv DEF ManagerStep
<1>3. QED
  BY <1>1, <1>2, ManagerInvNoSharing, PTL DEF SafeSpec

\* Polling starts after every initialize was joined.
THEOREM InitializedFirst == SafeSpec => []PollOnlyInitialized
<1>1. InitManager => ManagerInv
  BY ManagerInitInv
<1>2. ManagerInv /\ [NextManager]_managerVars => ManagerInv'
  BY ManagerStepInv, ManagerStutterInv DEF ManagerStep
<1>3. ManagerInv => PollOnlyInitialized
  BY DEF ManagerInv, DevicesInv, PollOnlyInitialized
<1>4. QED
  BY <1>1, <1>2, <1>3, PTL DEF SafeSpec

\* execute goes through all of a worker's devices in every poll: none is pushed
\* more often than another but for the poll that is under way, however often
\* polling is stopped and started.
THEOREM ServedEvenly == SafeSpec => []DevicesServedEvenly
<1>1. InitManager => ManagerInv
  BY ManagerInitInv
<1>2. ASSUME InitManager
      PROVE  EvenInv
  BY <1>2 DEF InitManager, EvenInv, DevicesOf
<1>3. ManagerInv /\ [NextManager]_managerVars => ManagerInv'
  BY ManagerStepInv, ManagerStutterInv DEF ManagerStep
<1>4. ManagerInv /\ EvenInv /\ [NextManager]_managerVars => EvenInv'
  BY EvenNext
<1>5. ManagerInv /\ EvenInv => DevicesServedEvenly
  BY EvenServes
<1>6. QED
  BY <1>1, <1>2, <1>3, <1>4, <1>5, PTL DEF SafeSpec

------------------------------------------------------------------------------
(* The process: poll threads, queue and main (TelemetryPipeline). *)

\* A batch is never left over: main writes exactly while it has one.
BatchInv == sender = "write" <=> batch # <<>>

PipelineInv == ManagerInv /\ PipelineTypeOK /\ BatchInv

LEMMA AppendLast ==
    ASSUME NEW S, NEW r \in Seq(S), NEW t \in Seq(S), NEW e \in S
    PROVE  r \o Append(t, e) = Append(r \o t, e)
  OBVIOUS

LEMMA ConcatLen3 ==
    ASSUME NEW S, NEW r \in Seq(S), NEW s \in Seq(S), NEW t \in Seq(S)
    PROVE  /\ (r \o s) \o t \in Seq(S)
           /\ Len((r \o s) \o t) = Len(r) + Len(s) + Len(t)
  OBVIOUS

\* Moving the head of the batch to the end of what is written, or the queue
\* to an empty batch, does not change the concatenation.
LEMMA ConcatShift ==
    ASSUME NEW S, NEW r \in Seq(S), NEW s \in Seq(S), NEW t \in Seq(S), s # <<>>
    PROVE  (Append(r, Head(s)) \o Tail(s)) \o t = (r \o s) \o t
<1>1. Append(r, Head(s)) \o Tail(s) = r \o s
  OBVIOUS
<1>2. QED
  BY <1>1

LEMMA PipelineInitInv == PipelineInit => PipelineInv
  BY ManagerInitInv DEF PipelineInit, PipelineInv, ManagerInv, PipelineTypeOK, BatchInv

\* Every step of the process is a step of the manager's part, or leaves it
\* alone but for the queue that main drains.
LEMMA PipelineStepKinds ==
    ASSUME [PipelineNext]_pipelineVars
    PROVE  \/ ManagerStep /\ UNCHANGED <<batch, nodes, written>>
           \/ DrainQueue
           \/ UNCHANGED managerVars
  BY DEF PipelineNext, pipelineVars, senderVars, MainStep, MainGoesOn, WorkerStep, Connect, AddNodes,
     MainInitializes, MainStartsPolling, EnsureSnapshotNode, WriteSnapshot, ClientThrows,
     ManagerStep, NextManager

LEMMA PipelineManagerInv ==
    ASSUME ManagerInv, [PipelineNext]_pipelineVars
    PROVE  ManagerInv'
<1>1. CASE ManagerStep
  BY <1>1, ManagerStepInv
<1>2. CASE DrainQueue
  BY <1>2 DEF DrainQueue, ManagerInv, TypeOK, ThreadsInv, DevicesInv, Executing, DevicesOf
<1>3. CASE UNCHANGED managerVars
  BY <1>3, ManagerStutterInv
<1>4. QED
  BY <1>1, <1>2, <1>3, PipelineStepKinds

LEMMA HeadTail ==
    ASSUME NEW S, NEW s \in Seq(S), s # <<>>
    PROVE  Head(s) \in S /\ Tail(s) \in Seq(S) /\ (Tail(s) = <<>> <=> Len(s) = 1)
<1>1. Len(s) \in Nat \ {0}
  BY EmptySeq
<1>2. Head(s) \in S /\ Tail(s) \in Seq(S) /\ Len(Tail(s)) = Len(s) - 1
  BY HeadTailProperties
<1>3. Tail(s) = <<>> <=> Len(Tail(s)) = 0
  BY <1>2, EmptySeq
<1>4. QED
  BY <1>1, <1>2, <1>3

LEMMA AppendFacts ==
    ASSUME NEW S, NEW s \in Seq(S), NEW e \in S
    PROVE  Len(Append(s, e)) = Len(s) + 1 /\ Append(s, e)[Len(s) + 1] = e
  OBVIOUS

\* What WriteSnapshot does to the batch.
LEMMA WriteStep ==
    ASSUME PipelineInv, WriteSnapshot
    PROVE  /\ batch # <<>> /\ batch \in Seq(TelemetrySnapshot)
           /\ Head(batch) \in TelemetrySnapshot
           /\ written' = Append(written, Head(batch)) /\ batch' = Tail(batch)
           /\ UNCHANGED managerVars
           /\ sender' = "write" <=> batch' # <<>>
<1>1. /\ batch # <<>> /\ batch \in Seq(TelemetrySnapshot)
      /\ written' = Append(written, Head(batch)) /\ batch' = Tail(batch)
      /\ sender' = IF Len(batch) = 1 THEN "drain" ELSE "write"
      /\ UNCHANGED managerVars
  BY DEF PipelineInv, PipelineTypeOK, BatchInv, WriteSnapshot
<1>2. Head(batch) \in TelemetrySnapshot /\ (Tail(batch) = <<>> <=> Len(batch) = 1)
  BY <1>1, HeadTail
<1>3. QED
  BY <1>1, <1>2

LEMMA PipelineStepInv ==
    ASSUME PipelineInv, [PipelineNext]_pipelineVars
    PROVE  PipelineInv'
<1> USE DEF PipelineInv, PipelineTypeOK, BatchInv
<1>1. ManagerInv' /\ TypeOK'
  BY PipelineManagerInv DEF ManagerInv
<1>2. sender' \in {"connect", "addNodes", "workers", "drain", "write"}
  BY DEF PipelineNext, pipelineVars, senderVars, MainStep, MainGoesOn, WorkerStep, Connect, AddNodes,
     MainInitializes, MainStartsPolling, DrainQueue, EnsureSnapshotNode, WriteSnapshot,
     ClientThrows, Sender
<1>3. /\ batch' \in Seq(TelemetrySnapshot) /\ written' \in Seq(TelemetrySnapshot)
      /\ BatchInv'
  <2>1. CASE WriteSnapshot
    <3>1. Tail(batch) \in Seq(TelemetrySnapshot)
      BY <2>1, WriteStep
    <3>2. Append(written, Head(batch)) \in Seq(TelemetrySnapshot)
      BY <2>1, WriteStep
    <3>3. QED
      BY <2>1, <3>1, <3>2, WriteStep
  <2>2. CASE DrainQueue
    BY <2>2 DEF DrainQueue, TypeOK, Sender
  <2>3. CASE ~WriteSnapshot /\ ~DrainQueue
    BY <2>3 DEF PipelineNext, pipelineVars, senderVars, MainStep, MainGoesOn, WorkerStep, Connect,
       AddNodes, MainInitializes, MainStartsPolling, EnsureSnapshotNode, ClientThrows,
       Sender
  <2>4. QED
    BY <2>1, <2>2, <2>3
<1>4. nodes' \subseteq Keys
  <2>1. CASE EnsureSnapshotNode
    <3>1. Head(batch) \in TelemetrySnapshot
      BY <2>1 DEF EnsureSnapshotNode
    <3>2. HeadKey \in Keys
      BY <3>1 DEF HeadKey, Keys, TelemetrySnapshot
    <3>3. QED
      BY <2>1, <3>2 DEF EnsureSnapshotNode
  <2>2. CASE ~EnsureSnapshotNode
    BY <2>2 DEF PipelineNext, pipelineVars, senderVars, MainStep, MainGoesOn, WorkerStep, Connect,
       AddNodes, MainInitializes, MainStartsPolling, DrainQueue, WriteSnapshot, ClientThrows
  <2>3. QED
    BY <2>1, <2>2
<1>5. QED
  BY <1>1, <1>2, <1>3, <1>4

LEMMA PipelineInvariant == PipelineSafeSpec => []PipelineInv
<1>1. PipelineInit => PipelineInv
  BY PipelineInitInv
<1>2. PipelineInv /\ [PipelineNext]_pipelineVars => PipelineInv'
  BY PipelineStepInv
<1>3. QED
  BY <1>1, <1>2, PTL DEF PipelineSafeSpec

\* Every variable of the process keeps its range.
THEOREM PipelineTypeCorrect == PipelineSafeSpec => []PipelineTypeOK
<1>1. PipelineInv => PipelineTypeOK
  BY DEF PipelineInv
<1>2. QED
  BY <1>1, PipelineInvariant, PTL

------------------------------------------------------------------------------
(* The stream of snapshots from the poll threads to the server. *)

\* A push adds the snapshot of its device to the end; nothing else changes
\* the stream, wherever its snapshots are.
LEMMA PushedStreamStep ==
    ASSUME PipelineInv, [PipelineNext]_pipelineVars
    PROVE  /\ PushedStream \in Seq(TelemetrySnapshot)
           /\ \/ PushedStream' = PushedStream
              \/ \E i \in 1 .. Len(threads) :
                   /\ PushSnapshot(i)
                   /\ Snapshot(DeviceOf(i)) \in TelemetrySnapshot
                   /\ PushedStream' = Append(PushedStream, Snapshot(DeviceOf(i)))
                   /\ written' = written
<1> USE DEF PushedStream
<1>0. /\ written \in Seq(TelemetrySnapshot) /\ batch \in Seq(TelemetrySnapshot)
      /\ queue \in Seq(TelemetrySnapshot)
  BY DEF PipelineInv, PipelineTypeOK, TypeOK
<1>1. PushedStream \in Seq(TelemetrySnapshot)
  BY <1>0
<1>2. CASE WriteSnapshot
  <2>1. queue' = queue /\ written' = Append(written, Head(batch)) /\ batch' = Tail(batch)
        /\ batch # <<>>
    BY <1>2, WriteStep DEF managerVars
  <2>2. QED
    BY <1>0, <1>1, <2>1, ConcatShift, SMTT(30)
<1>3. CASE DrainQueue
  <2>1. batch = <<>> /\ batch' = queue /\ queue' = <<>> /\ written' = written
    BY <1>3 DEF DrainQueue, Sender, PipelineInv, BatchInv
  <2>2. (written \o queue) \o <<>> = (written \o <<>>) \o queue
    BY <1>0
  <2>3. QED
    BY <1>1, <2>1, <2>2
<1>4. ASSUME NEW i \in 1 .. Len(threads), PushSnapshot(i), UNCHANGED senderVars
      PROVE  /\ Snapshot(DeviceOf(i)) \in TelemetrySnapshot
             /\ PushedStream' = Append(PushedStream, Snapshot(DeviceOf(i)))
             /\ written' = written
  <2>1. DeviceOf(i) \in Devices
    BY <1>4, ThreadFacts DEF PipelineInv, PushSnapshot, At, Executing
  <2>2. Snapshot(DeviceOf(i)) \in TelemetrySnapshot
    BY <2>1 DEF Snapshot, TelemetrySnapshot, PipelineInv, ManagerInv, TypeOK
  <2>3. /\ queue' = Append(queue, Snapshot(DeviceOf(i)))
        /\ written' = written /\ batch' = batch
    BY <1>4 DEF PushSnapshot, senderVars
  <2> DEFINE x == Snapshot(DeviceOf(i))
  <2>4. x \in TelemetrySnapshot /\ queue' = Append(queue, x)
    BY <2>2, <2>3
  <2>5. PushedStream' = Append(PushedStream, x)
    <3> DEFINE r == written \o batch
    <3>1. r \in Seq(TelemetrySnapshot)
      BY <1>0
    <3> HIDE DEF x, r
    <3>2. r \o Append(queue, x) = Append(r \o queue, x)
      BY <1>0, <2>4, <3>1, AppendLast
    <3> USE DEF r
    <3>3. QED
      BY <2>3, <2>4, <3>2
  <2>6. QED
    BY <2>2, <2>3, <2>5
<1>5. CASE UNCHANGED <<written, batch, queue>>
  BY <1>1, <1>5
<1>6. QED
  <2>1. SUFFICES ASSUME ~WriteSnapshot, ~DrainQueue,
                        ~\E i \in 1 .. Len(threads) : PushSnapshot(i) /\ UNCHANGED senderVars
                 PROVE  UNCHANGED <<written, batch, queue>>
    BY <1>1, <1>2, <1>3, <1>4, <1>5
  <2>2. QED
    BY <2>1 DEF PipelineNext, pipelineVars, senderVars, managerVars, MainStep, MainGoesOn, WorkerStep,
       Connect, AddNodes, MainInitializes, MainStartsPolling, EnsureSnapshotNode,
       ClientThrows, InitializeAllWorkers, InitializeThread, InitializeWorker,
       InitializeThrows, Terminate, JoinInitializers, StartPolling, PollThread, ExitLoop,
       BeginPoll, FetchMetrics, EndPoll

\* A reading is never smaller than it was.
LEMMA ReadingsGrow ==
    ASSUME PipelineInv, [PipelineNext]_pipelineVars, NEW d \in Devices
    PROVE  reading[d] \in Nat /\ reading[d] <= reading'[d]
<1>0. reading \in [Devices -> Nat]
  BY DEF PipelineInv, PipelineTypeOK, TypeOK
<1>1. ASSUME NEW w \in Workers, InitializeWorker(w) PROVE reading[d] <= reading'[d]
  <2>1. PICK refreshed : reading' = [e \in Devices |->
                           IF e \in refreshed THEN reading[e] + 1 ELSE reading[e]]
    BY <1>1 DEF InitializeWorker
  <2>2. QED
    BY <1>0, <2>1
<1>2. ASSUME NEW i \in 1 .. Len(threads), FetchMetrics(i) PROVE reading[d] <= reading'[d]
  <2>1. PICK refreshed \in {0, 1} :
          reading' = [reading EXCEPT ![DeviceOf(i)] = @ + refreshed]
    BY <1>2 DEF FetchMetrics
  <2>2. CASE d = DeviceOf(i)
    BY <1>0, <2>1, <2>2
  <2>3. CASE d # DeviceOf(i)
    BY <1>0, <2>1, <2>3
  <2>4. QED
    BY <2>2, <2>3
<1>3. CASE reading' = reading
  BY <1>0, <1>3
<1>4. QED
  <2>1. SUFFICES ASSUME ~\E w \in Workers : InitializeWorker(w),
                        ~\E i \in 1 .. Len(threads) : FetchMetrics(i)
                 PROVE  reading' = reading
    BY <1>0, <1>1, <1>2, <1>3
  <2>2. QED
    BY <2>1 DEF PipelineNext, pipelineVars, managerVars, MainStep, MainGoesOn, WorkerStep, Connect,
       AddNodes, MainInitializes, MainStartsPolling, DrainQueue, EnsureSnapshotNode,
       WriteSnapshot, ClientThrows, InitializeAllWorkers, InitializeThread,
       InitializeThrows, Terminate, JoinInitializers, StartPolling, PollThread, ExitLoop,
       BeginPoll, PushSnapshot, EndPoll

\* No snapshot is ahead of its device: this is what makes the next one the
\* latest, and so the order inductive.
OrderInv ==
    /\ \A i \in 1 .. Len(PushedStream) :
         PushedStream[i].reading <= reading[PushedStream[i].device]
    /\ WrittenInReadingOrder

LEMMA OrderStep ==
    ASSUME PipelineInv, OrderInv, [PipelineNext]_pipelineVars
    PROVE  OrderInv'
<1> DEFINE stream == PushedStream
<1>0. /\ stream \in Seq(TelemetrySnapshot)
      /\ \A i \in 1 .. Len(stream) :
           stream[i].device \in Devices /\ stream[i].reading \in Nat
  <2>1. stream \in Seq(TelemetrySnapshot)
    BY PushedStreamStep
  <2>2. \A s \in TelemetrySnapshot : s.device \in Devices /\ s.reading \in Nat
    BY DEF TelemetrySnapshot
  <2>3. QED
    BY <2>1, <2>2
<1>1. \A d \in Devices : reading[d] \in Nat /\ reading'[d] \in Nat /\ reading[d] <= reading'[d]
  <2>1. reading' \in [Devices -> Nat]
    BY PipelineStepInv DEF PipelineInv, PipelineTypeOK, TypeOK
  <2>2. QED
    BY <2>1, ReadingsGrow
<1>2. \A i \in 1 .. Len(stream) : stream[i].reading <= reading'[stream[i].device]
  BY <1>0, <1>1 DEF OrderInv
<1>3. CASE PushedStream' = stream
  BY <1>2, <1>3 DEF OrderInv, WrittenInReadingOrder
<1>4. ASSUME NEW k \in 1 .. Len(threads), PushSnapshot(k),
             Snapshot(DeviceOf(k)) \in TelemetrySnapshot,
             PushedStream' = Append(stream, Snapshot(DeviceOf(k)))
      PROVE  OrderInv'
  <2> DEFINE s == Snapshot(DeviceOf(k))
  <2>1. /\ s.device \in Devices /\ s.reading = reading[s.device]
        /\ reading' = reading
    BY <1>4 DEF Snapshot, TelemetrySnapshot, PushSnapshot
  <2>2. /\ Len(PushedStream') = Len(stream) + 1 /\ Len(stream) \in Nat
        /\ PushedStream'[Len(stream) + 1] = s
        /\ \A i \in 1 .. Len(stream) : PushedStream'[i] = stream[i]
    BY <1>0, <1>4
  <2>3. \A i \in 1 .. Len(PushedStream') :
          PushedStream'[i].reading <= reading'[PushedStream'[i].device]
    <3>1. SUFFICES ASSUME NEW i \in 1 .. Len(PushedStream')
                   PROVE  PushedStream'[i].reading <= reading'[PushedStream'[i].device]
      OBVIOUS
    <3>2. CASE i = Len(stream) + 1
      BY <1>1, <2>1, <2>2, <3>2
    <3>3. CASE i # Len(stream) + 1
      BY <1>2, <2>2, <3>3
    <3>4. QED
      BY <3>2, <3>3
  <2>4. ASSUME NEW i \in 1 .. Len(PushedStream'), NEW j \in 1 .. Len(PushedStream'), i < j,
               PushedStream'[i].device = PushedStream'[j].device
        PROVE  PushedStream'[i].reading <= PushedStream'[j].reading
    <3>1. i \in 1 .. Len(stream) /\ PushedStream'[i] = stream[i]
      BY <2>2, <2>4
    <3>2. CASE j = Len(stream) + 1
      <4>1. PushedStream'[j] = s
        BY <2>2, <3>2
      <4>2. stream[i].reading <= reading[stream[i].device]
        BY <3>1 DEF OrderInv
      <4>3. QED
        BY <2>1, <2>4, <3>1, <4>1, <4>2
    <3>3. CASE j # Len(stream) + 1
      <4>1. j \in 1 .. Len(stream) /\ PushedStream'[j] = stream[j]
        BY <2>2, <3>3
      <4>2. QED
        BY <2>4, <3>1, <4>1 DEF OrderInv, WrittenInReadingOrder, InReadingOrder
    <3>4. QED
      BY <3>2, <3>3
  <2>5. QED
    BY <2>3, <2>4 DEF OrderInv, WrittenInReadingOrder, InReadingOrder
<1>5. QED
  BY <1>3, <1>4, PushedStreamStep

\* Whatever the workers and main do at the same moment, a device's readings
\* reach the server in the order they were taken.
THEOREM WrittenInOrder == PipelineSafeSpec => []WrittenInReadingOrder
<1>1. PipelineInit => PipelineInv /\ OrderInv
  <2>1. PipelineInit => PushedStream = <<>>
    BY DEF PipelineInit, InitManager, PushedStream
  <2>2. QED
    BY <2>1, PipelineInitInv DEF OrderInv, WrittenInReadingOrder, InReadingOrder
<1>2. (PipelineInv /\ OrderInv) /\ [PipelineNext]_pipelineVars => (PipelineInv /\ OrderInv)'
  BY PipelineStepInv, OrderStep
<1>3. OrderInv => WrittenInReadingOrder
  BY DEF OrderInv
<1>4. QED
  BY <1>1, <1>2, <1>3, PTL DEF PipelineSafeSpec

\* With main as its owner, too, the manager gives every device to one poll
\* thread at a time.
THEOREM OneThreadPerDeviceInProcess == PipelineSafeSpec => []NoSharedDevice
<1>1. PipelineInv => NoSharedDevice
  BY ManagerInvNoSharing DEF PipelineInv
<1>2. QED
  BY <1>1, PipelineInvariant, PTL

------------------------------------------------------------------------------
(* The process implements SnapshotChannel. *)

LEMMA PathStep ==
    ASSUME PipelineInv, [PipelineNext]_pipelineVars
    PROVE  [Path!Next]_Path!vars
<1>0. /\ written \in Seq(TelemetrySnapshot) /\ batch \in Seq(TelemetrySnapshot)
      /\ queue \in Seq(TelemetrySnapshot) /\ PushedStream \in Seq(TelemetrySnapshot)
      /\ Len(PushedStream) = Len(written) + Len(batch) + Len(queue)
  <2>1. /\ written \in Seq(TelemetrySnapshot) /\ batch \in Seq(TelemetrySnapshot)
        /\ queue \in Seq(TelemetrySnapshot)
    BY DEF PipelineInv, PipelineTypeOK, TypeOK
  <2>2. /\ (written \o batch) \o queue \in Seq(TelemetrySnapshot)
        /\ Len((written \o batch) \o queue) = Len(written) + Len(batch) + Len(queue)
    BY <2>1, ConcatLen3
  <2>3. QED
    BY <2>1, <2>2, Zenon DEF PushedStream
<1>1. ASSUME NEW i \in 1 .. Len(threads), PushSnapshot(i),
             Snapshot(DeviceOf(i)) \in TelemetrySnapshot, written' = written,
             PushedStream' = Append(PushedStream, Snapshot(DeviceOf(i)))
      PROVE  Path!Accept
  <2>1. /\ Len(PushedStream') = Len(PushedStream) + 1
        /\ PushedStream'[Len(PushedStream')] = Snapshot(DeviceOf(i))
    BY <1>0, <1>1, AppendFacts, SMTT(30)
  <2>2. QED
    BY <1>1, <2>1 DEF Path!Accept
<1>2. ASSUME PushedStream' = PushedStream, written' = written
      PROVE  UNCHANGED Path!vars
  BY <1>2 DEF Path!vars
<1>3. ASSUME PushedStream' = PushedStream, written' # written
      PROVE  Path!Deliver
  <2>1. WriteSnapshot
    BY <1>3 DEF PipelineNext, pipelineVars, senderVars, managerVars, MainStep, MainGoesOn, WorkerStep,
       Connect, AddNodes, MainInitializes, MainStartsPolling, DrainQueue,
       EnsureSnapshotNode, ClientThrows
  <2>2. Len(written') = Len(written) + 1 /\ Len(batch) # 0 /\ Len(batch) \in Nat
        /\ Len(queue) \in Nat /\ Len(written) \in Nat
    BY <1>0, <2>1, WriteStep
  <2>3. Len(written') \in (Len(written) + 1) .. Len(PushedStream)
    BY <1>0, <2>2
  <2>4. QED
    BY <1>3, <2>3 DEF Path!Deliver
<1>4. QED
  BY <1>1, <1>2, <1>3, PushedStreamStep DEF Path!Next

\* From push to the server nothing is lost, duplicated or reordered.
THEOREM ImplementsPath == PipelineSafeSpec => PathSpec
<1>1. PipelineInit => Path!Init
  BY DEF PipelineInit, InitManager, PushedStream, Path!Init
<1>2. PipelineInv /\ [PipelineNext]_pipelineVars => [Path!Next]_Path!vars
  BY PathStep
<1>3. QED
  BY <1>1, <1>2, PipelineInvariant, PTL DEF PipelineSafeSpec, PathSpec, Path!SafeSpec
==============================================================================
