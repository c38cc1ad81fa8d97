# A verification development of Hardware-Monitor

TLA+ models of the Hardware-Monitor program, TLC configurations that check them on small
instances, and TLAPS proofs of what matters most for every value of the constants.
`PROJECT.json` lists the components, the runs, for every definition the source lines it
models, the hazards, the findings and the theorems; this file says what they mean.

Contents: [the system](#1-the-system) · [how it maps to modules](#2-modules-and-code) ·
[the runs](#3-the-runs) · [the proofs](#4-what-is-proved) · [findings](#5-findings) ·
[what is left out](#6-what-is-not-modelled) · [plan](#7-plan).

## 1. The system

Hardware-Monitor reads sensors of Windows machines and shows them on another one.

```
 kernel        CPU driver (AMD or Intel)            GPU SDKs (ADL, ADLX, NVAPI)
                    ^ IOCTL_GET_DATA                        ^
 System_Info   DriverClient                             GPU devices
                    ^ fetchMetrics                          ^ fetchMetrics
               CPU poll thread                          GPU poll thread     HardwareManager
                    \ push                                / push
                     +------------> ClientQueue <--------+
                                        | drain
                                   main thread: SystemInfoClient
                                        | addObject, addVariable, writeValue   (OPC UA)
 OPC_UA        server: address space, AccessControlCustom
                                        | browse, subscribe, data change
 control_center    ControlCenterClient -> DisplayGrid -> terminal
```

### Components

| Component | State | Operations | What is hard | What makes it correct |
|---|---|---|---|---|
| ClientQueue (`OPC_UA/ClientQueue.*`) | `queue_`, `shutting_down_`, a mutex and a condition variable | `push`, `drain`, `shutdown` | notify after unlock, spurious wakeups, a push that races shutdown | first-in first-out per producer, nothing lost or duplicated, no lost wakeup, only shutdown ever refuses a snapshot |
| HardwareManager and pipeline workers (`System_Info/HardwareManager.*`, `hardware/pipeline_workers`) | `workers_`, their devices, `worker_threads_` | `InitializeAllWorkers`, `StartPolling`, `StopPolling`, a poll thread's loop | devices without locks, threads joined while they sleep or fetch, failing fetches | one thread per device, no poll before initialisation, readings queued in order, StopPolling returns |
| SystemInfoClient and main (`System_Info/SystemInfoClient.*`, `System_Info.cpp`) | `client_folder_`, `device_nodes_` | `connect`, `addNodes`, `sendTelemetryPayload` in a loop | an exception half way through a batch, two devices of one name | everything pushed arrives, in order, once, while the process lives |
| PerformanceLogger (`user_space_common/PerformanceLogger.h`) | `active_label_`, `start_time_`, the file | `start`, `stop` | one label and one start time for three threads, a clock read outside the lock | a row begins when its label's measurement did |
| DriverClient (`System_Info/driver_client`) | the buffer, `first_pass`, `ret_data` | constructor, `runDriver` | a size that is stale when used, errors between two passes, retries | returns, resizes as often as needed, samples once per call |
| CPU drivers (`drivers/windows/CPU/*`, `kernel_common`) | `g_core_state`, `g_pkg_state`, features, `g_max_procs` | `DriverEntry`, `EvtIoDeviceControl`, unload | differences that need an earlier sample, processors added at run time, 32-bit energy counters | the buffer is never overrun, a difference is one between two samples of the same thing |
| Hardware devices and GPU discovery (`System_Info/hardware`) | a device's sensors, SDK handles, the pools | `enumerateAdapters`, `createGPUDevices`, `enumerateDevices`, `fetchMetrics`, `snapshot` | SDKs that are absent or fail half way, an exception in the middle of a list of cards, one card with several adapters, four interfaces of different age for the same sensors, a sensor log made and released in every poll | a card is one device, its SDK lives as long as it does, the newest reading is shown, a log that was got is given back |
| OPC UA address space (`OPC_UA/utils.*`) | the nodes on the server | `ensureClientFolder`, `ensureSnapshotNode`, `writeSnapshot` | a node made in five calls and written in four, restarts of the client | a restarted client finds what it made; readers see complete nodes in the end |
| Server and access control (`OPC_UA/server.*`, `main.cpp`, `AccessControlCustom.*`) | sessions and trusted devices, the running flag | start-up, signals, `activateSession`, `closeSession`, `allowAddNode`, `allowAddReference` | a signal during start-up, which session may add what where | a device adds nodes only below its own folder; a signal stops the server |
| Control center (`control_center`) | subscriptions, the grid, cached device info | `discoverAndSubscribe`, `handleSensorUpdate`, `tick`, rendering | callbacks between discoveries, info that is cached too early, row keys | every device has its row and shows its last update |
| Client start-up (`OPC_UA/CustomClient.*`) | key files, trust list | constructor, `connect` | missing or unreadable files | Ctrl-C ends the control center wherever it is; a client either connects or ends |

Interactions: the poll threads and main share the ClientQueue and the PerformanceLogger and
nothing else; main and the initialisation threads share the workers' devices, separated in
time by a join; `runDriver` is called from the CPU worker's `initialize` and `execute` and
waits in the kernel; main and the control center share only the server's nodes.
Exceptions: no thread of System_Info catches one, so each ends the process.

## 2. Modules and code

The naming follows the code: a variable has the name of the member it stands for, an action
the name of the function, with a suffix when the function is more than one atomic step.
Names after "Mutant:" are plausible mistakes in that definition; nothing but the mutation
check in PROJECT.json uses them.

### SnapshotChannel (abstract)

What a queue of telemetry promises: a sequence `accepted` that only grows at its end, a
number `delivered` of it that has been taken out, and a `closed` flag after which nothing is
accepted. `SafeSpec` is its safety, `Spec` adds that a delivery is made when there is
something to deliver. Two modules implement it.

### ClientQueue

Every acquisition and release of `mtx_`, the atomic release-and-wait of `cv_.wait`, and
every `notify` are separate actions; `push` notifies after it released the mutex, as the
code's inner block does. `pc` says where each thread is, `waiting` whether the consumer is
in the condition variable's wait set. `drained` and `pushes` are history. A snapshot is its
producer and a number: nothing in the queue looks at more.

* Refinement: `Stream == drained \o queue` is SnapshotChannel's `accepted`, `Len(drained)`
  its `delivered`, `shutting_down` its `closed`.
* Fairness: a thread that holds the mutex or has yet to notify takes its next step (weak
  fairness), and a thread that asks for the mutex again and again gets it (strong fairness of
  `DrainLock` and `DrainRelock`: `std::mutex` does not promise it, but operating systems'
  mutexes do not starve a thread for ever). Nobody is obliged to push or to shut down.

### HardwareManager

The thread that owns the manager (`owner`), the initialisation threads (one `InitializeWorker`
step each) and the poll threads. A poll thread is a record of its worker, its stop token and
the place it is at: the loop's head, before the fetch of its k-th device, before the push of
that device's snapshot, or asleep. `FetchMetrics` refreshes the device's sensors or leaves
them alone, which is what happens when the driver or an SDK gives nothing. `reading[d]`
counts refreshes and stands for the values. `push` is one step here because ClientQueue shows
that it is.

* The owner may start and stop polling at any time; the program itself starts once and never
  stops, which TelemetryPipeline models.
* A call of `fetchMetrics` returns: `runDriver`, which may not, is the subject of DriverClient.
* Fairness: threads that run keep running, a join that can return does. The owner owes nothing.

### TelemetryPipeline

EXTENDS HardwareManager with main: `Connect`, `AddNodes`, then the manager's own actions, then
`DrainQueue`, `EnsureSnapshotNode` and `WriteSnapshot` for each snapshot of the batch, for
ever. `ClientThrows` ends the process at any call of the OPC UA client. `Name` maps devices to
names, which need not differ: the server's nodes are keyed by name.

* Left out: the perf logger (its state is read by nobody else, see PerformanceLogger) and the
  single service calls of a node (TelemetryTree). The first `sendTelemetryPayload` of
  main and those of its loop are the same action.
* Refinement: `written \o batch \o queue` is SnapshotChannel's `accepted`, `Len(written)` its
  `delivered`, and it is never closed.
* Fairness: main takes its next step while it can (`MainGoesOn`, every step of it but the exceptions, since a failing call
  cannot be what keeps main going), and so do the poll threads as a whole. Polls are bounded, so weak fairness of the
  threads together is enough. `EverythingWritten` then has to exclude nothing but the process's end.

### PerformanceLogger

`Start` is one step, because the code does everything under the mutex; `stop` is two, because
it reads the clock before it locks. The clock is a counter of its own readings: only the order of
readings matters. A row carries, as history, who wrote it and when its writer and its label's thread had last called `start`.

### CpuDriver and DriverClient

CpuDriver is the kernel's side, both drivers in one module: `vendor`, settled when the driver is loaded, says which.
It has the size tests of `EvtIoDeviceControl`, then one action per metric collected, in the code's order.
What registers contain is left out; an entry of the answer carries instead the number of the sample
that a difference was taken against (`from`), and, as history, the metric's true last sample (`since`).
DriverClient is `runDriver`: a call with a buffer of one header, a resize, calls again. While the
driver handles a request, the thread waits in `DeviceIoControl`. The environment adds processors
(`HotAdd`) and makes `DeviceIoControl` fail for a while or for good. Allocation may fail at each place
it is tried.

* Sizes are computed as the compiler lays out the structs of the shared header (`Aligned`, `HeaderSize`, `EntrySize`):
  `sizeof(CPU_DATA_HEADER)` is 12 and `sizeof(CPU_DATA)` 44. The driver answers with `sizeof(CPU_DATA_HEADER)` and its entries; the client
  tests the length of an answer with `offsetof(CPU_DATA_BUFFER, data)` (`DataOffset`) and the answer's `entry_count` (`Incomplete`). The
  two agree only because the alignment of an entry divides the header's size.
* `METRICS_PER_CORE` and `METRICS_AGGREGATE` are the numbers of the drivers' headers. The loops go through the lists of metrics
  (`CoreMetrics`, `AggregateMetrics`), whose lengths are independent of them.
* Fairness: a call that was begun goes on. The machine owes nothing, so a broken device may stay broken.

### EnergyCounter and DriverLifecycle

EnergyCounter has the integer arithmetic of `ComputePowerMilliwatts`: the difference of two readings of an accumulator that
wraps (`EnergyDelta`), a time in milliseconds (`Milliseconds`), the divisions in the code's order (`Power`). The width of
the accumulator is the parameter `Modulus`, 2^32 in the code, so that TLC can wrap a small one and the proofs hold for the real one.

DriverLifecycle is a driver from `DriverEntry` to `EvtDriverUnload`, each call of the framework a step that may fail,
with the global pointers (`core_state` for `g_core_state`, `dev`), the local one (`device_init`) and what has become of
what they point to: `init_object` tells a structure that was freed from one that a device has. Between load and
unload a handle is opened and closed, and `SamplePower` samples the package. The machine uses energy and time goes by, in
steps bounded by `MaxUsed` and `MaxTicks`, also by a whole wrap. `pool`, `lost` and `previous` are history.
There is no fairness: nothing here is promised to happen.

### GpuDevices

`DxgiHandler`, the pools and the devices of the GPU worker: one thread, from `enumerateAdapters` to the last poll. `machine` is one
of `Machines`: the adapters DXGI lists, ADL's logical adapters (several may be one card, known by its bus), ADLX's and
NVAPI's cards, and the functions ADL's library exports. Every SDK call may fail whenever it is made. An exception may come at
every adapter and card and in every fetch: `AMDPool::enumerateDevices` catches those of ADL's part
(`AdlCountThrows`, `AdlMakeThrows`, `AdlFetchThrows`) and goes on with ADLX, and those of ADLX's part (`AdlxThrows`); the device being made is
dropped (`DropDevice`), those already in `devices_` stay and keep their SDK. Nobody catches the others (`NobodyCatches`), nor a call of a
function that is not there: the process ends. A fetch goes through its levels
(`AdlCaps`, `Waterfall` for OD5 to ODN, `PmLogCreate` to `PmLogDestroy` for the sensor log of OD8): `value` says which
level wrote what a sensor shows, `pmlog` what is held of the log, `held` what is held of the SDKs. Stopping and destroying a log may fail, and
the code ignores the results. `reported`, `lost`, `left` and `answered` are history: the cards ADL called active, the card whose device an
exception took from ADL's loop, the logs of which something was not given back and why, and what a fetch has added. A level is its number, so that "higher levels overwrite lower" is an order of numbers.

### AccessControl

The server's sessions (`session_attributes`) and the nodes below TelemetryClients. Names and node ids are
strings whose parts are joined by dots; the module has sequences of the parts, so that "equals the name, or starts
with the name and a dot" (`nodeIdBelongsToDevice`) is "has the name as a prefix". `ActivateSession` and
`RejectSession` are the two outcomes of `activateSession`; `AddNode` is what the server does with one AddNodes
item: `allowAddNode`, which may remember the folder, `allowAddReference`, the library's own tests, the node.
`presented` and a node's `by` are history. `closeSession` does nothing and nothing may be deleted. On its own the
module lets every session present and ask for everything, again and again.

### TelemetryTree

EXTENDS AccessControl with the System_Info processes of all machines, one service call per step: `Browse`
(`tryBrowseChild`), `Add` (`addFolder`, `addObject`, `addVariable`) and `Write` (one `writeValue`). A process's
`item` is the node it is at; `After` and `AfterWrite` are the orders in which `ensureSnapshotNode` makes nodes and
`writeSnapshot` writes them. `End` is any end of the process between two calls, `RestartServer` loses nodes, values and
sessions, after which every call of an old session throws.

* A batch is one snapshot here, since what is drained together is TelemetryPipeline's subject; vendor and
  type follow from the device's name, so the name stands for all three strings.
* One System_Info per machine. A call whose answer is lost is an `End` after it.

### ControlCenter

EXTENDS TelemetryTree with the viewer: discovery one call at a time (`StartCenter` or `Discover`, `BrowseFolder`,
`BrowseObject`, `ReadName`, `ReadType`, `Subscribe`; what the code does locally belongs to the call before it, because callbacks
only run inside calls), the monitored items with their queue of one report (`Sample`), the
callback (`HandleUpdate`), which may run at any time because the library delivers reports in every call, and the
grid (`Upsert`, `Render`). The control center may end and start at any time. When the server restarts, its next call
throws and ends it: the model lets both happen at once.

* Reads of strings find their nodes, because of `SensorsComeLast`; values are what TelemetryTree's `Write` wrote.
* Fairness: the main loop goes on (weak), comes by `renderIfDirty` again and again while something is dirty (strong: the
  loop tests it between two discoveries), the server samples a changed value and the library delivers a report (weak).
  Nobody owes a start, and System_Info and the server owe nothing.
* Left out: the vendor, which is read and never used, the text of a frame (`buildFrame`), console modes, the timing of ticks.

### ServerLifecycle and ClientStartup

ServerLifecycle is the server program: it reads its key files one after the other (`LoadIdentity`, `LoadIssuers`, `VisitDevice`
for each folder the directory iterator shows), configures the library, installs a handler for each signal, starts the
thread that publishes the server (`Publish`) and enters the library's loop (`EnterRun`), and joins it. `ChangeFile` damages, removes or
restores a key file at any time, also between two reads; `DeliverSignal` starts a handler at any time, and `HandleSignal` is what it
does: stop the server if its pointer is published. A `stop` before `run` may be forgotten: `run` may set the flag anew.
`steady` is history: the devices whose certificate could be read ever since the start.

ClientStartup EXTENDS it with the two programs that are clients, System_Info on each machine and the control center, which share
`CustomClient`: construction with its files, connecting, the loop (the subject of other modules), Ctrl-C and the end.
`console` is the terminal the control center switches, `interrupted` its `g_running`.

* Fairness: the server's main, its thread and its handlers go on, and a client goes on; reading and connecting end in one way
  or the other. Nobody owes a start, a signal or a file.

### Proof modules

`<Module>Proofs` extends the module it is about: `ClientQueueProofs`, `PerformanceLoggerProofs`, `DriverLifecycleProofs`,
`GpuDevicesProofs`, `DriverClientProofs` (about CpuDriver as well), `TelemetryPipelineProofs` (about HardwareManager first, because a
step of the process is a step of the manager, a drain, or leaves the manager alone) and `ClientStartupProofs` (about ServerLifecycle
as well). `AddressSpaceProofs` goes up a stack of three: AccessControl, TelemetryTree, whose steps are AccessControl's or leave it
alone, and ControlCenter, which only reads what TelemetryTree keeps.

## 3. The runs

Deadlock is checked except where the system really may stop (`CHECK_DEADLOCK FALSE`): an exception ends the process in the
manager's, the pipeline's, TelemetryTree's and GpuDevices' runs, and in `driver_lifecycle` and `startup` a driver or a program may stay
down. `AllMeasured` and `AllRun` are stutters at the bound `MaxSpans` or `MaxRuns`, so that reaching a bound is no deadlock and
every other deadlock is found.

| Run | Instance | Shows |
|---|---|---|
| `client_queue` | 2 producers, 3 pushes each, sender, a thread that shuts down | no lost wakeup, per-producer order, a snapshot that was pushed is stored unless shutdown refused it and all later ones of its producer, a waiting drain returns, SnapshotChannel is implemented with its liveness |
| `hardware_manager` | GPU worker with 0, 1 or 2 cards, CPU worker with or without a driver, 2 polls each, any number of starts and stops | no device in two threads, no poll before initialisation, even service, StopPolling returns |
| `telemetry_pipeline` | both workers, no card or two cards of one name, 2 polls | order up to the server, losslessness in every interleaving of polling, draining, writing and failing, and that everything pushed is written unless the process ends |
| `performance_logger` | 3 threads, 2 measurements each, symmetric | what overlapping measurements cannot break: no start logged twice, a row begins with its label's measurement and within its writer's, a row with its writer's own start is right |
| `driver_client` | either driver, 3 calls, up to 2 processors, 1 fault that may last | capacity, true differences, every sample taken is returned to the caller (so both sides agree on an answer's length), bounded resizes, one sample per call, return while the device works |
| `access_control` | 2 devices, 3 certificates, 2 sessions, 5 node ids, no bound on requests | a session speaks for the device whose certificate it presented; its folder and every subtree stay that device's |
| `telemetry_tree` | 2 machines, one with two devices, the other with its folder only, 2 lives of each process, 2 snapshots per device, 2 lives of the server | what an ended process left half made is completed and never in the way; readers see complete devices |
| `control_center` | a machine with two devices, 1 life of System_Info, 2 of the server, any number of the control center, 1 snapshot per device | devices are watched once; sensors never under another device's name; what the server has for good is shown, if the device does not share its row |
| `gpu_devices` | 5 machines: two AMD cards of which one has three adapters, the first of them inactive; an AMD and an NVIDIA card; three whose ADL library lacks functions. 3 sensors: one that OD5 to OD8 and ADLX report, one of OD8 and ADLX only, one of NVAPI only; an exception or a failing call anywhere; no bound on polls | a card is one device of an SDK; ADL and ADLX have devices of one card only after an exception in ADL's loop; a device's SDK is alive; a fetch that ends has asked for all of its log's release; the highest level that answers is shown |
| `driver_lifecycle` | a counter of 4 values, 3 steps in a joule, 2 ticks in a millisecond, 2 loads, up to 4 units of energy and 4 ticks between two samples | nothing is left behind or freed twice, whatever call fails; power is that of the interval, across wraps and unreported intervals |
| `startup` | the server and 2 devices on its list, a machine, the control center, 1 start each, 2 signals, 1 change of a file | one unreadable certificate keeps nobody else out; a signal handled while the loop runs ends the server; Ctrl-C ends the control center |
| `driver_core_power` | 1 processor, 2 calls | the finding below |

Why the bounds are enough to be interesting. Three pushes let a batch hold one producer's first
snapshot with another's, and let a push race a drain and a shutdown both before and after a batch
was taken. Two polls let a worker be stopped and started between them, let a drain fall between
any two pushes, and give a device two readings to reorder. Two cards on one worker against one on
the other give two devices in one thread, one in another, and two devices with one name. Two
processors are the smallest machine where one is added after the driver was loaded, between a
refused and an accepted request, so that `cpu_idx >= g_max_procs`. Three calls give a first sample,
a difference to it and one more. One fault can hit any call and stay or go. Three threads with two
measurements let two threads disturb the third twice. Two lives and two snapshots per device let
a process find what the last one had left of a device it had written, or had not; two lives of the server let a
process go on with ids the server has forgotten. Four units of energy are a whole wrap of a counter of 4 values, which is where
the difference stops to be right and where the property stops to ask for it; one tick is too short to be seen and two are not. Two loads let a
failed one be followed by another. One file that changes, at any time, can be good when it is listed and bad when it is read, or the
other way round; two signals are the two that race, of the same kind or not. Numbers that grow (`samples`, `clock`,
`reading`, `resizes`) are bounded by these.

Symmetry is used for the logger's threads only, in runs whose properties are invariants.

## 4. What is proved

TLAPS checks each of these for all values of the constants under the named assumptions of the modules, which TLC evaluates in
every run:

* threads are distinct, bounds are natural numbers, and the server is started at least once (`TreeBounds`: the first start is the
  initial state);
* each worker occurs once in `workers_`; what one worker finds no other finds, and a worker keeps no device twice
  (`DevicesAssumption`: each `push_back` of a pool makes an object of its own);
* no device's name is another one's followed by a dot and more, and none is empty (`IndependentAssumption`; with devices named `pc`
  and `pc.lab` the second one's ids would belong to the first as well);
* each machine has a certificate of its own (`CertificatesAssumption`: `gen_pki.py` makes a key per device);
* the layout's ids can be asked for, no machine or device is called `sensors`, and no device's name is another one's on the same machine
  followed by a dot and a variable's name (`LayoutAssumption`). With devices named `A` and `A.name`, `snapshotNodeId` of the second is
  `snapshotFieldId` of the first. The names are what Windows and the graphics SDKs report, and nothing in the code tests them;
* `NoValue` is no value (`NoValueAssumption`).

Every safety invariant that a run checks, and each action property, is the statement of a theorem.

* **ClientQueue.** `MutualExclusion` (whoever is `locked` holds `mtx_`, which makes the critical sections atomic) and
  `NoLostWakeup` are each inductive together with the types. For the order, a further invariant
  (`NumbersReached` in the proofs): the numbers in the stream are at most the producer's `pushes`, and below
  it while the producer is about to store; appending `Pushing(p)` therefore keeps the numbers of a
  producer increasing. The same invariant gives `NothingLost`: a producer's newest number
  is stored or refused before it makes another, and the flag that refuses is never taken back. `ImplementsChannel` shows the safety half of the refinement, each step of the
  queue being an accept, a delivery, a close or a stutter of the channel.
* **HardwareManager.** `ManagerInv` adds to the types that the threads are none or one per worker in the
  order of `workers_`, that a thread in `execute` is at a position its worker has, that what a
  worker has is something `Found` allows, and where `owner` allows threads. `NoSharedDevice` does not
  hold by itself after an arbitrary step: it needs that threads have different workers and that
  different workers' devices differ.
  `DevicesServedEvenly` is about a queue in which the threads' snapshots are mixed, and not inductive: a push of one device keeps the
  balance only because of where the thread is in its loop. `EvenInv` says that between two polls all devices of a worker have been
  pushed equally often, and within one the devices before `Here` once more. Counting uses `Cardinality` and rests on
  `CountFacts`: a snapshot at the end counts for its device and no other.
* **TelemetryPipeline.** `PipelineInv` adds that main is writing exactly while it has a batch. Every step is
  classified once (`PipelineStepKinds`): one of the manager, a drain, or one that leaves the manager
  alone; the manager's lemmas are then reused. For `WrittenInOrder` the invariant is strengthened by
  "no snapshot on the way has a later reading than its device has now". `ImplementsPath` is the refinement
  of SnapshotChannel by the process.
* **AccessControl.** `AccessInv` is the conjunction of the checked invariants with the types: `SubtreeOfOneDevice` needs
  `FolderIsOwn` (a parent may be the remembered folder), and both need `SessionSpeaksForItsCertificate` (who may write is
  a device). Lemma `OneOwner`, an id belongs to one device at most, rests on `IndependentAssumption`.
* **TelemetryTree.** `TreeInv` is `AccessInv` with what the layout means. `NodesInv`: every node is a folder, an object or a variable
  of the layout, at its one place, and made by its own machine; so an id determines parent and name, and an `Add` is refused only if
  the very node is there. `FieldsInv`: an object that has its sensors has every variable. `ValuesInv`: a device's variables hold its own
  strings and readings, and a reading only once the strings are there. Per machine, `SessionInv` (its live session speaks for it),
  `PlaceInv` (where the process is) and `ProgressInv`: of a machine whose session the server knows, everything the process went past
  exists, and everything it wrote before the present write is written. `ProgressInv` is what makes `FieldsInv` and `ValuesInv` survive
  the last `Add` and the last `Write`, whoever made the nodes before; when the server restarts, no process is `Alive` and it holds
  of nothing. It is proved for each kind of step of the machine itself, and every step of another machine only
  adds nodes and writes values that are not this one's (`OneOwner` again). `EnsuredNodesServe`, `SensorsComeLast` and `PublishedComplete`
  follow, and with `AccessInv` kept, `SubtreeOfOneDevice` holds of the composed system.
* **ControlCenter.** `CenterOnlyReads` shows that CenterSpec implies TreeSpec, which gives `TreeInv` for nothing. `CenterInv` adds
  that what is left to visit are machines and objects of the layout (`ViewerInv`), that the cache has each object once with texts that are
  its own or empty (`CacheInv`), that a monitored item is of a cached object (`WatchInv`), that reports are readings of their object's
  device (`ReportInv`), and the same of both grids (`GridInv`). `WatchedOnce` needs `ViewerInv`: between the entry in the cache and
  the monitored item there are steps in which callbacks run, and all along the object must be cached and unwatched. `HeaderOfDevice`
  needs all the rest, since a row's text was read long before its sensors arrive.
* **ServerLifecycle and ClientStartup.** `TrustInv`: while the server goes through the trust list, every device whose certificate could
  be read ever since the start was loaded or is still unvisited; `steady` only shrinks to what is readable. The step that needs it is the
  file that cannot be read, which the constructor skips: it is not `steady`, so nobody else is lost. Clients leave the server's
  variables alone.
* **PerformanceLogger.** `LoggerInv` adds to the three checked invariants that all readings of the clock in use are past
  (`ReadingsPast`), that no measurement began after the start time the logger holds (`LatestStart`), and that the thread that set
  that start time is the one whose label is active, if any is (`LatestHasLabel`). `RowBeginsWithLabel` is what remains true of a row when
  measurements overlap, for any number of threads and spans; section 5 says what does not.
* **CpuDriver and DriverClient.** `RequestInv` is about the driver alone: a request that was accepted has room for the entries it has and
  for all metrics still to come, which every step keeps because collecting turns one to come into one that is there, and skipping
  only gives some up (`GoesOn`). It needs that the headers' `METRICS_PER_CORE` and `METRICS_AGGREGATE` are the lengths of the lists the loops go
  through (lemma `Counts`), and that
  a metric of fewer processors is one of more (`MetricIsOne`). `CollectInv` says that a call of `runDriver` goes on after an answer only
  while nothing was collected; `ResizeInv` that the buffer is as large as the driver's need, or processors were added that
  have not cost a resize yet (`Sized`). `ResizesBounded` is not inductive without it. For the differences, `DeltaInv` ties what the
  driver keeps to the history: a valid `core_state` or `pkg_state` is that of the metric's last sample (`LoadsKept`, `PowersKept`), which a
  refused request leaves alone and an accepted one renews in the step that adds the entry. It says nothing of a core's power, for
  which the same is false (section 5). `ReceivedInv` counts the samples that have reached the caller: between two calls all have, which needs
  that the client finds no answer of the driver too short (lemmas `Layout` and `AnswerComplete`). The theorems hold for any number of processors,
  calls and faults, and for both drivers.
* **DriverLifecycle.** `DeltaIsEnergyUsed` is the arithmetic: for every `Modulus` the code's difference of two accumulators is the energy used
  between them, if that was less than one wrap. It rests on facts about remainders that are proved first. `DriverInv` ties each
  pointer to what it points to at each place of `DriverEntry`, and the previous sample to the counter it was read from (`meter` is
  `CounterAt` of `previous`), so that `PowerOfInterval`, an action property, follows step by step.
* **GpuDevices.** `DiscoveryInv` says what has been found at each place of the discovery: each vendor's pool is made once (`PoolsOnce`), the
  devices are those of the adapters and cards the loop has passed (`CardsPassed`), and what is `held` fits the place and the devices
  (`SdksHeld`). `FetchInv` is about a fetch: what is in `pmlog` follows from the stage (`LogHeld`), and the levels come in rising order
  (`LevelsRise`), without which `HighestLevelWins` is not inductive. `LossInv` is about exceptions: only one card can be `lost`, and once one
  is, ADL's loop is over and nothing will be added to ADL's devices, which is why a log left by an exception stays one of no ADL
  device. The steps that drop a device are proved apart (`DropStep`, `ThrowStep`). All hold for every machine that
  `MachinesAssumption` allows, with any number of adapters and cards.

Each module's type invariant is proved, and none of them is a property of a run; adding one to a run's INVARIANTS lets TLC confirm it.
`MutualExclusion` is proved and not listed in a run either. That `drain` returns nothing only after `shutdown` is the predicate of `cv_.wait`,
the guard of `DrainTake`, and therefore no property here.

Only model-checked: liveness (`WaitingDrainReturns`, `StopPollingReturns`, `EverythingWritten`, `ReturnsWhileIoWorks`, `UpdatesShown`,
`StopsWhenTold`, `InterruptEndsCenter`, the fairness of `ChannelSpec`, whose safety is `ImplementsChannel`), which is out of the
prover's reach. `CorePowerFromTwoSamples` is false, see below.

## 5. Findings

`driver_core_power`: on AMD the first power of each core is no difference between two samples, since the load has
already set the flag the power tests (`amd_cpudriver.c:548`).

Seen while modelling, and respected by the properties rather than shown by runs of their own, since no text of the repository says
otherwise:

* The threads of System_Info share one label and one start time (`PerformanceLogger.h:27`), and `stop` reads the clock
  before it locks (`:32`). A row may thus carry a thread's label and another thread's end, which makes it longer than what its label measured, or
  have a negative duration. `RowBeginsWithLabel` says what is right of every row, and `OwnStartTrueRow` says for which rows neither happens.
* Two devices of one name, such as two cards of one model, share one object on the server (`SystemInfoClient.cpp:65`), so
  that one's snapshots replace the other's. TelemetryPipeline has such devices; TelemetryTree's have names of their own.
* Two devices of one type on one machine share a row of the grid (`ControlCenterClient.cpp:135`). `UpdatesShown` asks for
  a row of the device's own (`HasOwnRow`).
* A device that is discovered before its strings were written keeps an empty name and type until the control center starts
  again (`ControlCenterClient.cpp:80`). `HeaderOfDevice` allows the empty header and no other device's.
* After its first pass `runDriver` repeats the call for ever on an error that is not about the size (`DriverClient.cpp:128`).
  `ReturnsWhileIoWorks` shows that this is the only way not to return.
* `DriverEntry` returns an error without freeing `g_core_state` (`amd_cpudriver.c:117`); `NothingLeftBehind` counts one block for each such load.
* A signal before the server's pointer is published is swallowed, a stop before the loop runs may be forgotten (`OPC_UA/main.cpp:20`), and
  the pointer is never taken back. `StopsWhenTold` is about signals handled while the loop runs.
* A control center that fails to start or to connect leaves the terminal on its alternate screen (`control_center/main.cpp:44`).
* The first entry of the trust list is used although the list may be empty (`CustomClient.cpp:84`); the model goes on or ends the process.
* An `init` of ADL or ADLX that fails half way keeps its library or helper (`ADL.cpp:80`); functions that a library does not export are
  called all the same (`ADL.cpp:99`); the average temperature of NVAPI divides by a count that is zero when the settings cannot be
  read (`NvidiaLiveGPUMetrics.cpp:91`). The last two end the process in the model as in the code.
* The `try` of `AMDPool::enumerateDevices` covers the whole of ADL's loop (`AMDPool.cpp:18`, `:76`). An exception at one card leaves the
  earlier ones' devices in `devices_`, where they keep ADL alive, and starts ADLX beside it, which makes devices of its own of the same
  cards; the card in progress is no device of ADL. `EveryActiveCardOnce` and `SdkLivesForDevices` allow this and no more.
* An exception in the first fetch of a device leaves its sensor log neither stopped nor destroyed, and the results of stopping and
  destroying are ignored (`AMDLiveGPUMetrics.cpp:263`, `:265`). `PmLogBalanced` says that both are called in every fetch that ends.
* The core clock has one name in OD5 to ODN and another in OD8, so a card shows both, the older one as it last was.
* The energy of an interval shorter than a millisecond is never reported: the sample becomes the new base (`intel_cpudriver.c:575`).

## 6. What is not modelled

WMI queries (deprecated, not called), `OPC_UA/client.cpp` (an unused older copy of SystemInfoClient), the output
generator, loggers of text, the build and key-generation scripts. The decoding of register fields (temperature offsets, voltages, clock multipliers) and
the texts, units and scaling of sensors: single expressions without state, better served by a unit test.

Abstracted on purpose: sensor values (a reading is a number that grows, or who wrote it), time (a thread sleeps for an
arbitrary while), texts and logs, memory contents other than the driver's header, the contents of certificates (a file can be read or
not) and the library's own protocol.

## 7. Plan

1. **An abstract board**: a map from a machine's objects to their last published snapshot, which TelemetryTree implements and
   of which the control center's screen is a delayed view; checked as a refinement, then proved from `TreeInv` and `CenterInv`.
2. **An abstract request**: `runDriver` with the driver as one atomic sample or a failure, which DriverClient implements.
3. **The safety halves of the liveness properties**, such as that a thread told to stop begins one more poll at most, as action
   properties proved from the invariants above.
