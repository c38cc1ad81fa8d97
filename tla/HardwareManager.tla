--------------------------- MODULE HardwareManager ---------------------------
(***************************************************************************)
(* System_Info/HardwareManager and the pipeline workers it runs: the       *)
(* worker of the GPUs and the worker of the CPU.  InitializeAllWorkers     *)
(* runs every worker's initialize in a thread of its own and joins them;   *)
(* StartPolling starts one jthread per worker, which polls the worker's    *)
(* devices until it is asked to stop; StopPolling asks and joins.          *)
(*                                                                         *)
(* A device is polled by fetchMetrics, which refreshes its sensors or      *)
(* leaves them as they were when the driver or the GPU SDK gives nothing;  *)
(* the number of times they were refreshed stands for their values.        *)
(* ClientQueue's push is one step here (ClientQueue splits it).  Time is   *)
(* left out: a thread sleeps for an arbitrary while between two polls.     *)
(***************************************************************************)
EXTENDS Naturals, Sequences, FiniteSets

CONSTANTS
    WorkerList,    \* workers_: the workers in the order they were created
    Devices,       \* every piece of hardware a worker may find
    Found(_),      \* the sequences of devices a worker's initialize may find
    MaxPolls       \* bound: how many times each worker is polled

Workers == {WorkerList[i] : i \in 1 .. Len(WorkerList)}

\* The constructor makes each worker once.  What one worker finds is not found
\* by another, graphics cards and the processor, and no worker keeps a device
\* twice, since each is an object of its own.
ASSUME WorkersAssumption ==
    /\ WorkerList \in Seq(Workers)
    /\ \A i, j \in 1 .. Len(WorkerList) : WorkerList[i] = WorkerList[j] => i = j

ASSUME DevicesAssumption ==
    /\ \A w \in Workers : Found(w) \subseteq Seq(Devices)
    /\ \A v, w \in Workers : \A s \in Found(v), t \in Found(w) :
         \A i \in 1 .. Len(s), j \in 1 .. Len(t) : s[i] = t[j] => v = w
    /\ \A w \in Workers : \A s \in Found(w) :
         \A i, j \in 1 .. Len(s) : s[i] = s[j] => i = j

ASSUME PollsAssumption == MaxPolls \in Nat

VARIABLES
    owner,         \* where the thread that calls the manager is
    initialized,   \* the workers whose initialize has returned
    devices,       \* devices_ / device_ of each worker
    threads,       \* worker_threads_
    polls,         \* how many polls each worker has begun
    reading,       \* how many times each device's sensors were refreshed
    queue          \* the ClientQueue all workers push to

managerVars == <<owner, initialized, devices, threads, polls, reading, queue>>

\* A poll thread: its worker, its stop token, where it is, and the device it
\* is at.
Thread == [worker : Workers, stop : BOOLEAN, k : Nat \ {0},
           pc : {"test", "fetch", "push", "end", "exited"}]

TelemetrySnapshot == [device : Devices, reading : Nat]

InitManager ==
    /\ owner = "constructed"
    /\ initialized = {}
    /\ devices = [w \in Workers |-> <<>>]
    /\ threads = <<>>
    /\ polls = [w \in Workers |-> 0]
    /\ reading = [d \in Devices |-> 0]
    /\ queue = <<>>

------------------------------------------------------------------------------
(* InitializeAllWorkers. *)

InitializeAllWorkers ==
    /\ owner = "constructed"
    /\ owner' = "initializing"
    /\ UNCHANGED <<initialized, devices, threads, polls, reading, queue>>

\* initialize finds the worker's devices and fetches each of them once.
InitializeWorker(w) ==
    /\ owner = "initializing"
    /\ w \notin initialized
    /\ \E found \in Found(w) :
         /\ devices' = [devices EXCEPT ![w] = found]
         /\ \E refreshed \in SUBSET {found[k] : k \in 1 .. Len(found)} :
              reading' = [d \in Devices |->
                            IF d \in refreshed THEN reading[d] + 1 ELSE reading[d]]
    /\ initialized' = initialized \cup {w}
    /\ UNCHANGED <<owner, threads, polls, queue>>

\* An exception that leaves a thread ends the process, with all its threads.
Terminate ==
    /\ owner' = "terminated"
    /\ UNCHANGED <<initialized, devices, threads, polls, reading, queue>>

\* The constructor of a GPU pool throws when its SDK cannot be initialised.
InitializeThrows(w) ==
    /\ owner = "initializing"
    /\ w \notin initialized
    /\ Terminate

\* Mutant: the initialize threads are not joined.
JoinNobody ==
    /\ owner = "initializing"
    /\ owner' = "ready"
    /\ UNCHANGED <<initialized, devices, threads, polls, reading, queue>>

JoinInitializers ==
    /\ owner = "initializing"
    /\ initialized = Workers
    /\ owner' = "ready"
    /\ UNCHANGED <<initialized, devices, threads, polls, reading, queue>>

------------------------------------------------------------------------------
(* StartPolling and StopPolling. *)

NewThreads ==
    [i \in 1 .. Len(WorkerList) |->
       [worker |-> WorkerList[i], stop |-> FALSE, pc |-> "test", k |-> 1]]

\* Mutant: the test of worker_threads_ is dropped.
StartPollingAgain ==
    /\ owner = "ready"
    /\ threads' = threads \o NewThreads
    /\ UNCHANGED <<owner, initialized, devices, polls, reading, queue>>

\* While there are threads the call returns at once.
StartPolling ==
    /\ owner = "ready"
    /\ threads = <<>>
    /\ threads' = NewThreads
    /\ UNCHANGED <<owner, initialized, devices, polls, reading, queue>>

\* Mutant: the threads are joined without being asked to stop.
StopPollingSilently ==
    /\ owner = "ready"
    /\ owner' = "stopping"
    /\ UNCHANGED <<initialized, devices, threads, polls, reading, queue>>

StopPolling ==
    /\ owner = "ready"
    /\ owner' = "stopping"
    /\ threads' = [i \in 1 .. Len(threads) |-> [threads[i] EXCEPT !.stop = TRUE]]
    /\ UNCHANGED <<initialized, devices, polls, reading, queue>>

\* worker_threads_.clear() joins every thread.
JoinPollers ==
    /\ owner = "stopping"
    /\ \A i \in 1 .. Len(threads) : threads[i].pc = "exited"
    /\ owner' = "ready"
    /\ threads' = <<>>
    /\ UNCHANGED <<initialized, devices, polls, reading, queue>>

------------------------------------------------------------------------------
(* IHardwarePipelineWorker::run of the thread at position i. *)

\* The devices of thread i's worker, and the position and the device thread i
\* is at.
DevicesOf(i) == devices[threads[i].worker]
Here(i) == threads[i].k
DeviceOf(i) == DevicesOf(i)[Here(i)]

At(i, label) == owner # "terminated" /\ threads[i].pc = label

\* Thread i goes on at a label, with the worker's device at position k.
Move(i, label, k) ==
    threads' = [threads EXCEPT ![i] =
                  [worker |-> threads[i].worker, stop |-> threads[i].stop,
                   pc |-> label, k |-> k]]

\* execute starts at the first device, and with no device it returns at once.
FirstLabel(i) == IF DevicesOf(i) = <<>> THEN "end" ELSE "fetch"

\* The loop ends at its head, when a stop was requested.
ExitLoop(i) ==
    /\ At(i, "test")
    /\ threads[i].stop
    /\ Move(i, "exited", Here(i))
    /\ UNCHANGED <<owner, initialized, devices, polls, reading, queue>>

BeginPoll(i) ==
    /\ At(i, "test")
    /\ ~threads[i].stop
    /\ polls[threads[i].worker] < MaxPolls
    /\ polls' = [polls EXCEPT ![threads[i].worker] = @ + 1]
    /\ Move(i, FirstLabel(i), 1)
    /\ UNCHANGED <<owner, initialized, devices, reading, queue>>

FetchMetrics(i) ==
    /\ At(i, "fetch")
    /\ \E refreshed \in {0, 1} :
         reading' = [reading EXCEPT ![DeviceOf(i)] = @ + refreshed]
    /\ Move(i, "push", Here(i))
    /\ UNCHANGED <<owner, initialized, devices, polls, queue>>

\* After the last device execute returns.
AfterPush(i) ==
    IF Here(i) < Len(DevicesOf(i))
    THEN Move(i, "fetch", Here(i) + 1)
    ELSE Move(i, "end", Here(i))

Snapshot(d) == [device |-> d, reading |-> reading[d]]

\* Mutant: every snapshot is of the worker's first device.
PushFirst(i) ==
    /\ At(i, "push")
    /\ queue' = Append(queue, Snapshot(DevicesOf(i)[1]))
    /\ AfterPush(i)
    /\ UNCHANGED <<owner, initialized, devices, polls, reading>>

PushSnapshot(i) ==
    /\ At(i, "push")
    /\ queue' = Append(queue, Snapshot(DeviceOf(i)))
    /\ AfterPush(i)
    /\ UNCHANGED <<owner, initialized, devices, polls, reading>>

\* The thread sleeps until its next period; a stop request does not wake it.
EndPoll(i) ==
    /\ At(i, "end")
    /\ Move(i, "test", Here(i))
    /\ UNCHANGED <<owner, initialized, devices, polls, reading, queue>>

PollThread(i) ==
    \/ ExitLoop(i)
    \/ BeginPoll(i)
    \/ FetchMetrics(i)
    \/ PushSnapshot(i)
    \/ EndPoll(i)

------------------------------------------------------------------------------

InitializeThread(w) == InitializeWorker(w) \/ InitializeThrows(w)

\* The manager on its own: its owner may start and stop polling at will.
NextManager ==
    \/ InitializeAllWorkers
    \/ \E w \in Workers : InitializeThread(w)
    \/ JoinInitializers
    \/ StartPolling
    \/ StopPolling
    \/ JoinPollers
    \/ \E i \in 1 .. Len(threads) : PollThread(i)

SafeSpec == InitManager /\ [][NextManager]_managerVars

\* Threads that run keep running and a join that can return does.  Nothing
\* makes the owner call the manager.
ManagerFairness ==
    /\ \A w \in Workers : WF_managerVars(InitializeThread(w))
    /\ WF_managerVars(JoinInitializers)
    /\ WF_managerVars(JoinPollers)
    /\ \A i \in 1 .. Len(WorkerList) :
         WF_managerVars(i <= Len(threads) /\ PollThread(i))

Spec == SafeSpec /\ ManagerFairness

------------------------------------------------------------------------------
(* Properties. *)

TypeOK ==
    /\ owner \in {"constructed", "initializing", "ready", "stopping", "terminated"}
    /\ initialized \subseteq Workers
    /\ devices \in [Workers -> Seq(Devices)]
    /\ threads \in Seq(Thread)
    /\ polls \in [Workers -> 0 .. MaxPolls]
    /\ reading \in [Devices -> Nat]
    /\ queue \in Seq(TelemetrySnapshot)

\* A poll thread inside execute, at one of its worker's devices.
Executing(i) == threads[i].pc \in {"fetch", "push"}

\* A device's sensors are not locked: two threads are never inside execute
\* of the same device, however often polling is started and stopped.
NoSharedDevice ==
    \A i, j \in 1 .. Len(threads) :
        i # j /\ Executing(i) /\ Executing(j) => DeviceOf(i) # DeviceOf(j)

\* Nobody polls while a worker's initialize may still change its devices.
PollOnlyInitialized ==
    threads # <<>> => initialized = Workers

\* Each device's readings are queued in the order they were taken, over any
\* number of polls and restarts of polling.
InReadingOrder(stream) ==
    \A i, j \in 1 .. Len(stream) :
        i < j /\ stream[i].device = stream[j].device
            => stream[i].reading <= stream[j].reading

\* How many snapshots of a device were queued.
Pushed(d) == Cardinality({n \in 1 .. Len(queue) : queue[n].device = d})

\* A worker serves its devices evenly: no poll skips one or repeats one.
DevicesServedEvenly ==
    \A w \in Workers : \A a, b \in 1 .. Len(devices[w]) :
        a < b => Pushed(devices[w][a]) \in
                   {Pushed(devices[w][b]), Pushed(devices[w][b]) + 1}

\* StopPolling returns: the threads finish their poll and see the request.
StopPollingReturns == owner = "stopping" ~> owner = "ready"
==============================================================================
