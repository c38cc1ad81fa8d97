------------------------------ MODULE GpuDevices ------------------------------
(***************************************************************************)
(* The GPU worker's devices: DxgiHandler finds the vendors, a pool per     *)
(* vendor starts its SDK (ADL with ADLX as a fallback, or NVAPI) and makes *)
(* the devices, and every poll fetches each device's metrics.  One thread  *)
(* does it all: the initialize thread, then the poll thread.               *)
(*                                                                         *)
(* Every SDK call may fail whenever it is made.  A reading is represented  *)
(* by the level that wrote it; a call that fails, is not exported or       *)
(* reports something out of range writes nothing.  value keeps what a      *)
(* sensor shows for as long as nobody overwrites it.  An exception in a    *)
(* loop over cards takes the device being made with it: AMDPool catches it *)
(* and goes on, elsewhere it ends the process.  The text of names, units   *)
(* and the scaling of readings are left out.                               *)
(***************************************************************************)
EXTENDS Integers, Sequences

CONSTANTS
    Machines,    \* the machines considered
    Sensors      \* the names of sensors that are followed

Vendors == {"NVIDIA", "AMD", "INTEL", "UNKNOWN"}
VendorOrder == <<"NVIDIA", "AMD", "INTEL", "UNKNOWN">>   \* of std::set<Vendor>

(* A machine: DXGI's adapters, ADL's logical adapters (several may be one  *)
(* card, known by its bus), the cards in ADLX's list, NVAPI's cards, and   *)
(* the functions ADL's library exports among those called without a test.  *)
ASSUME MachinesAssumption ==
    \A m \in Machines :
        /\ m.dxgi \in Seq([vendor : Vendors, software : BOOLEAN])
        /\ m.adapters \in Seq([bus : Nat, active : BOOLEAN])
        /\ m.adlx \in Seq(Nat)
        /\ \A i, j \in 1 .. Len(m.adlx) : m.adlx[i] = m.adlx[j] => i = j
        /\ m.nvidia \in Seq(Nat)
        /\ \A i, j \in 1 .. Len(m.nvidia) : m.nvidia[i] = m.nvidia[j] => i = j
        /\ m.exports \subseteq {"create", "enumerate", "caps"}

VARIABLES
    machine,   \* the machine the process runs on
    pc,        \* where the thread is; "ended" when the process has ended
    todo,      \* the vendors createGPUDevices has not reached
    next,      \* the next adapter, card or device to look at
    seen,      \* seen_bus_numbers
    devices,   \* the devices of all pools, in their order, one being made last
    held,      \* what is held of the SDKs
    value,     \* for each device, who wrote what its sensors show; 0: no sensor
    fetch,     \* the fetchMetrics in progress, or NoFetch
    pmlog,     \* what the fetch has of the card's sensor log, to be given back
    left,      \* history: the logs of which something was not given back
    reported,  \* history: the cards of which ADL called an adapter active
    lost,      \* history: the card whose device an exception took from ADL's loop
    answered   \* history: the levels and sensors this fetch has added

discovery == <<todo, next, seen, devices, held, reported, lost>>
fetching == <<value, fetch, pmlog, left, answered>>
vars == <<machine, pc, discovery, fetching>>

------------------------------------------------------------------------------
(* What each level can write.  ADLX and NVAPI are levels of their own.     *)

ADLX_LEVEL == 1
NVAPI_LEVEL == 2

LevelSensors(level) ==
    Sensors \cap
    CASE level = 5 -> {"Average Core Temperature", "Core / Graphics Clock Speed",
                       "Memory Clock Speed", "Core / Graphics Utilization", "Fan Speed"}
      [] level = 6 -> {"Average Core Temperature", "Core / Graphics Clock Speed",
                       "Memory Clock Speed", "Core / Graphics Utilization",
                       "GPU Power Draw", "Fan Speed"}
      [] level = 7 -> {"Average Core Temperature", "Core / Graphics Clock Speed",
                       "Memory Clock Speed", "Core / Graphics Utilization"}
      [] level = 8 -> {"Core Clock Speed", "Memory Clock Speed", "SoC Clock Speed",
                       "GPU Edge Temperature", "GPU Hotspot Temperature", "Fan Speed",
                       "GPU Utilization", "GFX Voltage", "ASIC Power"}
      [] level = ADLX_LEVEL -> {"GPU Edge Temperature", "GPU Hotspot Temperature",
                       "Core Clock Speed", "Memory Clock Speed", "GPU Utilization",
                       "Frame Buffer Utilization", "Fan Speed"}
      [] level = NVAPI_LEVEL -> {"GPU Avg Temp", "GPU Hotspot Temp", "GPU Graphics Clock",
                       "GPU Memory Clock", "GPU Graphics Utilization", "GPU Fan Speed"}

\* What NVAPI's fetch adds whether or not the call succeeded.
AlwaysAdded == Sensors \cap {"GPU Avg Temp", "GPU Hotspot Temp", "GPU Fan Speed"}

Absent == [s \in Sensors |-> 0]
NoFetch == [dev |-> 0, stage |-> "none", level |-> 0]

Device == [backend : {"ADL", "ADLX", "NVAPI"}, card : Nat]

Init ==
    /\ machine \in Machines
    /\ pc = "adapters"
    /\ todo = {} /\ next = 1 /\ seen = {} /\ devices = <<>>
    /\ held = {} /\ reported = {} /\ lost = {}
    /\ value = <<>> /\ fetch = NoFetch /\ answered = {}
    /\ pmlog = {} /\ left = {}

Fetching == fetch # NoFetch

\* The thread is at p and in no fetchMetrics.
At(p) == pc = p /\ ~Fetching

InFetch(backend, stage) ==
    Fetching /\ pc # "ended" /\ devices[fetch.dev].backend = backend /\ fetch.stage = stage

\* An exception nobody catches, or a fault: the process ends.
Crash ==
    /\ pc' = "ended"
    /\ UNCHANGED <<machine, discovery, fetching>>

------------------------------------------------------------------------------
(* DxgiHandler. *)

EnumerateAdapters ==
    /\ At("adapters")
    /\ pc' = "pools"
    /\ todo' = {machine.dxgi[i].vendor :
                  i \in {j \in 1 .. Len(machine.dxgi) : ~machine.dxgi[j].software}}
    /\ UNCHANGED <<machine, next, seen, devices, held, reported, lost, fetching>>

FactoryFails == At("adapters") /\ Crash

\* The vendor the loop is at.
NextVendor ==
    VendorOrder[CHOOSE i \in 1 .. 4 : /\ VendorOrder[i] \in todo
                                      /\ \A j \in 1 .. i - 1 : VendorOrder[j] \notin todo]

CreatePool ==
    /\ At("pools")
    /\ todo # {}
    /\ todo' = todo \ {NextVendor}
    /\ pc' = CASE NextVendor = "AMD" -> "adl_init"
               [] NextVendor = "NVIDIA" -> "nvapi_init"
               [] OTHER -> "pools"
    /\ UNCHANGED <<machine, next, seen, devices, held, reported, lost, fetching>>

PoolsCreated ==
    /\ At("pools")
    /\ todo = {}
    /\ pc' = "poll" /\ next' = 1
    /\ UNCHANGED <<machine, todo, seen, devices, held, reported, lost, fetching>>

\* A device is made and its metrics are fetched for the first time.
AddDevice(backend, card) ==
    /\ devices' = Append(devices, [backend |-> backend, card |-> card])
    /\ value' = Append(value, Absent)
    /\ fetch' = [dev |-> Len(devices) + 1, stage |-> "begin", level |-> 0]
    /\ answered' = {}
    /\ UNCHANGED <<pmlog, left>>

Unmade(s) == SubSeq(s, 1, Len(s) - 1)

\* An exception destroys the device being made, which is in no pool yet, and
\* skips what would have given back its sensor log.
DropDevice ==
    /\ devices' = Unmade(devices)
    /\ value' = Unmade(value)
    /\ fetch' = NoFetch /\ answered' = {} /\ pmlog' = {}
    /\ left' = IF pmlog = {} THEN left
               ELSE left \cup {[card |-> devices[fetch.dev].card, cause |-> "exception"]}

\* The loop over adapters or cards goes on, with or without a device.
PoolDone(p, list) ==
    /\ At(p)
    /\ next > Len(list)
    /\ pc' = "pools"
    /\ UNCHANGED <<machine, discovery, fetching>>

------------------------------------------------------------------------------
(* AMDPool on ADL. *)

\* Mutant: the catch block shuts ADL down, whoever uses it.
AdlThrowsShutdown(now, devs) ==
    pc' = "adlx_init" /\ held' = now \ {"adl_module", "adl_context"}

\* The catch block of enumerateDevices: adl_.reset() destroys ADL unless a
\* device still shares it, and ADL's shutdown releases nothing before init has
\* reached its end.
AdlThrows(now, devs) ==
    /\ pc' = "adlx_init"
    /\ held' = IF /\ "adl_context" \in now
                  /\ \A i \in 1 .. Len(devs) : devs[i].backend # "ADL"
               THEN now \ {"adl_module", "adl_context"}
               ELSE now

AdlInitFails ==
    /\ At("adl_init")
    /\ \/ AdlThrows(held, devices)             \* no library
       \/ /\ "create" \in machine.exports      \* no context
          /\ AdlThrows(held \cup {"adl_module"}, devices)
    /\ UNCHANGED <<machine, todo, next, seen, devices, reported, lost, fetching>>

AdlInit ==
    /\ At("adl_init")
    /\ "create" \in machine.exports
    /\ held' = held \cup {"adl_module", "adl_context"}
    /\ pc' = "adl_count"
    /\ UNCHANGED <<machine, todo, next, seen, devices, reported, lost, fetching>>

\* resolve only logs a function it does not find.
AdlCallsNull ==
    /\ \/ At("adl_init") /\ "create" \notin machine.exports
       \/ At("adl_count") /\ "enumerate" \notin machine.exports
       \/ InFetch("ADL", "begin") /\ "caps" \notin machine.exports
    /\ Crash

\* enumerateADL up to its loop.
AdlCount ==
    /\ At("adl_count")
    /\ "enumerate" \in machine.exports
    /\ pc' = "adl_adapter" /\ next' = 1 /\ seen' = {}
    /\ UNCHANGED <<machine, todo, devices, held, reported, lost, fetching>>

\* The adapters are not counted, or nothing is known of them.
AdlCountFails ==
    /\ At("adl_count")
    /\ "enumerate" \in machine.exports
    /\ pc' = "pools"
    /\ UNCHANGED <<machine, discovery, fetching>>

\* There is no memory for what is known of the adapters.
AdlCountThrows ==
    /\ At("adl_count")
    /\ "enumerate" \in machine.exports
    /\ AdlThrows(held, devices)
    /\ UNCHANGED <<machine, todo, next, seen, devices, reported, lost, fetching>>

Adapter == machine.adapters[next]

\* Mutant: the bus is noted before the adapter is known to be active.
AdlInactiveNoted ==
    /\ At("adl_adapter") /\ next <= Len(machine.adapters)
    /\ next' = next + 1
    /\ seen' = seen \cup {Adapter.bus}
    /\ UNCHANGED <<machine, pc, todo, devices, held, reported, lost, fetching>>

\* The adapter is not active, or its state is not to be had.
AdlInactive ==
    /\ At("adl_adapter") /\ next <= Len(machine.adapters)
    /\ next' = next + 1
    /\ UNCHANGED <<machine, pc, todo, seen, devices, held, reported, lost, fetching>>

AdlActive ==
    /\ At("adl_adapter") /\ next <= Len(machine.adapters)
    /\ Adapter.active
    /\ next' = next + 1
    /\ reported' = reported \cup {Adapter.bus}
    /\ seen' = seen \cup {Adapter.bus}
    /\ IF Adapter.bus \in seen THEN UNCHANGED <<devices, fetching>>
                               ELSE AddDevice("ADL", Adapter.bus)
    /\ UNCHANGED <<machine, pc, todo, held, lost>>

\* There is no memory for the bus, the name or the device.
AdlMakeThrows ==
    /\ At("adl_adapter") /\ next <= Len(machine.adapters)
    /\ Adapter.active /\ Adapter.bus \notin seen
    /\ reported' = reported \cup {Adapter.bus}
    /\ lost' = {Adapter.bus}
    /\ AdlThrows(held, devices)
    /\ UNCHANGED <<machine, todo, next, seen, devices, fetching>>

\* addSensor throws in the device's first fetch, or there is no memory for one
\* more device in devices_.
AdlFetchThrows ==
    /\ pc = "adl_adapter"
    /\ \E stage \in {"waterfall", "started", "done"} : InFetch("ADL", stage)
    /\ lost' = {devices[fetch.dev].card}
    /\ AdlThrows(held, Unmade(devices))
    /\ DropDevice
    /\ UNCHANGED <<machine, todo, next, seen, reported>>

------------------------------------------------------------------------------
(* AMDPool on ADLX, and NvidiaPool. *)

AdlxInit ==
    /\ At("adlx_init")
    /\ held' = held \cup {"adlx_helper", "adlx_monitoring"}
    /\ pc' = "adlx_list"
    /\ UNCHANGED <<machine, todo, next, seen, devices, reported, lost, fetching>>

\* ADLX's init throws, before or after the helper has started; shutdown then
\* returns at once.
AdlxInitFails ==
    /\ At("adlx_init")
    /\ held' \in {held, held \cup {"adlx_helper"}}
    /\ pc' = "pools"
    /\ UNCHANGED <<machine, todo, next, seen, devices, reported, lost, fetching>>

\* GetGPUs, or NvAPI_EnumPhysicalGPUs, which leaves a count of zero when it
\* fails.
ListCards ==
    /\ \/ At("adlx_list") /\ pc' \in {"adlx_card", "pools"}
       \/ At("nvapi_list") /\ pc' \in {"nvapi_card", "pools"}
    /\ next' = 1
    /\ UNCHANGED <<machine, todo, seen, devices, held, reported, lost, fetching>>

AddCard ==
    /\ \/ /\ At("adlx_card") /\ next <= Len(machine.adlx)
          /\ AddDevice("ADLX", machine.adlx[next])
       \/ /\ At("nvapi_card") /\ next <= Len(machine.nvidia)
          /\ AddDevice("NVAPI", machine.nvidia[next])
    /\ next' = next + 1
    /\ UNCHANGED <<machine, pc, todo, seen, held, reported, lost>>

\* An exception in ADLX's loop, before or in the device's first fetch or after
\* it: the catch block destroys ADLX unless a device still shares it.
AdlxThrows ==
    /\ pc = "adlx_card"
    /\ \/ At("adlx_card") /\ next <= Len(machine.adlx) /\ UNCHANGED <<devices, fetching>>
       \/ (\E stage \in {"begin", "done"} : InFetch("ADLX", stage)) /\ DropDevice
    /\ pc' = "pools"
    /\ held' = IF \E i \in 1 .. Len(devices') : devices'[i].backend = "ADLX"
               THEN held ELSE held \ {"adlx_helper", "adlx_monitoring"}
    /\ UNCHANGED <<machine, todo, next, seen, reported, lost>>

\* The list does not give the card.
SkipCard ==
    /\ At("adlx_card") /\ next <= Len(machine.adlx)
    /\ next' = next + 1
    /\ UNCHANGED <<machine, pc, todo, seen, devices, held, reported, lost, fetching>>

NvapiInit ==
    /\ At("nvapi_init")
    /\ held' = held \cup {"nvapi"}
    /\ pc' = "nvapi_list"
    /\ UNCHANGED <<machine, todo, next, seen, devices, reported, lost, fetching>>

\* NvidiaPool's constructor throws in the initialize thread.
NvapiInitFails == At("nvapi_init") /\ Crash

\* Nobody catches an exception of createGPUDevices, of NvidiaPool's loop or of
\* a poll, be it in addSensor or in what is done with the device's snapshot.
NobodyCatches ==
    /\ \/ At("pools") \/ At("nvapi_card") \/ At("poll")
       \/ /\ pc = "poll"
          /\ \/ \E stage \in {"waterfall", "started"} : InFetch("ADL", stage)
             \/ InFetch("ADLX", "begin")
    /\ Crash

PoolsDone ==
    \/ PoolDone("adl_adapter", machine.adapters)
    \/ PoolDone("adlx_card", machine.adlx)
    \/ PoolDone("nvapi_card", machine.nvidia)

Discover ==
    \/ EnumerateAdapters \/ FactoryFails \/ CreatePool \/ PoolsCreated \/ PoolsDone
    \/ AdlInitFails \/ AdlInit \/ AdlCallsNull \/ AdlCount \/ AdlCountFails \/ AdlCountThrows
    \/ AdlInactive \/ AdlActive \/ AdlMakeThrows \/ AdlFetchThrows
    \/ AdlxInit \/ AdlxInitFails \/ ListCards \/ AddCard \/ AdlxThrows \/ SkipCard
    \/ NvapiInit \/ NvapiInitFails \/ NobodyCatches

------------------------------------------------------------------------------
(* fetchMetrics. *)

\* The poll thread comes to the next device, or to the first one again.
Poll ==
    /\ At("poll")
    /\ devices # <<>>
    /\ LET dev == IF next > Len(devices) THEN 1 ELSE next
       IN  /\ next' = dev + 1
           /\ fetch' = [dev |-> dev, stage |-> "begin", level |-> 0]
    /\ answered' = {}
    /\ UNCHANGED <<machine, pc, todo, seen, devices, held, reported, lost, value, pmlog, left>>

ToStage(stage, level) ==
    fetch' = [fetch EXCEPT !.stage = stage, !.level = level]

\* Mutant: a sensor this fetch has added keeps its value.
AddSensorsOnce(names, level) ==
    /\ value' = [value EXCEPT ![fetch.dev] =
                   [s \in Sensors |-> IF s \in names /\ ~(\E l \in 5 .. 8 : <<l, s>> \in answered)
                                      THEN level ELSE @[s]]]
    /\ answered' = answered \cup ({level} \X names)

\* addSensor for each of the names: one that is there is overwritten.
AddSensors(names, level) ==
    /\ value' = [value EXCEPT ![fetch.dev] =
                   [s \in Sensors |-> IF s \in names THEN level ELSE @[s]]]
    /\ answered' = answered \cup ({level} \X names)

\* The overdrive version is read; the waterfall starts whatever it is.
AdlCaps ==
    /\ InFetch("ADL", "begin")
    /\ "caps" \in machine.exports
    /\ ToStage("waterfall", 5)
    /\ UNCHANGED <<machine, pc, discovery, value, pmlog, left, answered>>

\* OD5, OD6 and ODN, each of whose calls may give nothing.
Waterfall ==
    /\ InFetch("ADL", "waterfall")
    /\ \E names \in SUBSET LevelSensors(fetch.level) : AddSensors(names, fetch.level)
    /\ IF fetch.level < 7 THEN ToStage("waterfall", fetch.level + 1) ELSE ToStage("log", 8)
    /\ UNCHANGED <<machine, pc, discovery, pmlog, left>>

\* There is no sensor log: the version is below 8, a function is missing, or
\* one of the first two calls fails.
NoPmLog ==
    /\ InFetch("ADL", "log")
    /\ ToStage("done", 8)
    /\ UNCHANGED <<machine, pc, discovery, value, pmlog, left, answered>>

PmLogCreate ==
    /\ InFetch("ADL", "log")
    /\ pmlog' = pmlog \cup {"device"}
    /\ ToStage("created", 8)
    /\ UNCHANGED <<machine, pc, discovery, value, left, answered>>

\* Mutant: a log that does not start is left at once.
PmLogStartOrLeave ==
    /\ InFetch("ADL", "created")
    /\ \/ pmlog' = pmlog \cup {"memory"} /\ ToStage("started", 8)
       \/ pmlog' = pmlog /\ ToStage("done", 8)
    /\ UNCHANGED <<machine, pc, discovery, value, left, answered>>

PmLogStart ==
    /\ InFetch("ADL", "created")
    /\ \/ pmlog' = pmlog \cup {"memory"} /\ ToStage("started", 8)
       \/ pmlog' = pmlog /\ ToStage("stopped", 8)
    /\ UNCHANGED <<machine, pc, discovery, value, left, answered>>

\* What the log supports and reports; nothing when a call fails.
PmLogRead ==
    /\ InFetch("ADL", "started")
    /\ \E names \in SUBSET LevelSensors(8) : AddSensors(names, 8)
    /\ ToStage("read", 8)
    /\ UNCHANGED <<machine, pc, discovery, pmlog, left>>

\* What PmLogStop and PmLogDestroy ask for may fail: nobody looks at the results.
MayBeLeft == left' \in {left, left \cup {[card |-> devices[fetch.dev].card, cause |-> "call"]}}

PmLogStop ==
    /\ InFetch("ADL", "read")
    /\ pmlog' = pmlog \ {"memory"}
    /\ MayBeLeft
    /\ ToStage("stopped", 8)
    /\ UNCHANGED <<machine, pc, discovery, value, answered>>

PmLogDestroy ==
    /\ InFetch("ADL", "stopped")
    /\ pmlog' = pmlog \ {"device"}
    /\ MayBeLeft
    /\ ToStage("done", 8)
    /\ UNCHANGED <<machine, pc, discovery, value, answered>>

\* fetchADLXMetrics: nothing after an early return, else whatever is
\* supported and readable.
AdlxFetch ==
    /\ InFetch("ADLX", "begin")
    /\ \E names \in SUBSET LevelSensors(ADLX_LEVEL) : AddSensors(names, ADLX_LEVEL)
    /\ ToStage("done", ADLX_LEVEL)
    /\ UNCHANGED <<machine, pc, discovery, pmlog, left>>

NvapiFetch ==
    /\ InFetch("NVAPI", "begin")
    /\ \E names \in SUBSET LevelSensors(NVAPI_LEVEL) :
           AddSensors(names \cup AlwaysAdded, NVAPI_LEVEL)
    /\ ToStage("done", NVAPI_LEVEL)
    /\ UNCHANGED <<machine, pc, discovery, pmlog, left>>

\* Without thermal settings avgTemp divides by a count of zero; an exception of
\* addSensor ends the process as well.
NvapiNoThermalSettings == InFetch("NVAPI", "begin") /\ Crash

EndFetch ==
    /\ Fetching /\ pc # "ended"
    /\ fetch.stage = "done"
    /\ fetch' = NoFetch
    /\ UNCHANGED <<machine, pc, discovery, value, pmlog, left, answered>>

FetchMetrics ==
    \/ AdlCaps \/ Waterfall \/ NoPmLog \/ PmLogCreate \/ PmLogStart \/ PmLogRead
    \/ PmLogStop \/ PmLogDestroy \/ AdlxFetch \/ NvapiFetch \/ NvapiNoThermalSettings
    \/ EndFetch

Next == Discover \/ Poll \/ FetchMetrics

Spec == Init /\ [][Next]_vars

------------------------------------------------------------------------------
(* Properties. *)

Stages == {"none", "begin", "waterfall", "log", "created", "started", "read", "stopped", "done"}

TypeOK ==
    /\ machine \in Machines
    /\ pc \in {"adapters", "pools", "adl_init", "adl_count", "adl_adapter", "adlx_init",
               "adlx_list", "adlx_card", "nvapi_init", "nvapi_list", "nvapi_card", "poll",
               "ended"}
    /\ todo \subseteq Vendors
    /\ next \in Nat \ {0}
    /\ seen \subseteq Nat /\ reported \subseteq Nat /\ lost \subseteq Nat
    /\ devices \in Seq(Device)
    /\ held \subseteq {"adl_module", "adl_context", "adlx_helper", "adlx_monitoring", "nvapi"}
    /\ value \in Seq([Sensors -> Nat]) /\ Len(value) = Len(devices)
    /\ fetch \in [dev : 0 .. Len(devices), stage : Stages, level : Nat]
    /\ fetch.dev = 0 <=> fetch.stage = "none"
    /\ pmlog \subseteq {"device", "memory"}
    /\ left \subseteq [card : Nat, cause : {"call", "exception"}]
    /\ answered \subseteq (Nat \X Sensors)

Has(backend, card) ==
    \E i \in 1 .. Len(devices) : devices[i] = [backend |-> backend, card |-> card]

\* In an SDK a card becomes one device however many of its adapters are active
\* and in whatever order they are listed.  A card with an adapter that ADL called
\* active is an ADL device, but for the one at which an exception ended ADL's
\* loop; only then are cards also devices of ADLX.
EveryActiveCardOnce ==
    /\ \A i, j \in 1 .. Len(devices) : devices[i] = devices[j] => i = j
    /\ \A bus \in reported : Has("ADL", bus) \/ bus \in lost
    /\ \A b, c \in lost : b = c
    /\ \A card \in reported : Has("ADL", card) /\ Has("ADLX", card) => lost # {}

\* A device's SDK is initialised for as long as there is the device, whatever an
\* exception has ended.  ADL is kept beside ADLX only for devices made before an
\* exception ended its loop.
SdkLivesForDevices ==
    /\ \A i \in 1 .. Len(devices) :
           CASE devices[i].backend = "ADL" -> "adl_context" \in held
             [] devices[i].backend = "ADLX" -> "adlx_monitoring" \in held
             [] devices[i].backend = "NVAPI" -> "nvapi" \in held
    /\ {"adl_context", "adlx_helper"} \subseteq held =>
           lost # {} /\ \E bus \in reported : Has("ADL", bus)

\* Whatever call fails on the way, stop and destroy are called for all that a
\* fetch has got of a card's log before it ends, in this order.  Only an
\* exception skips them, and no fetch makes another log for the card it left:
\* the card is no ADL device.
PmLogBalanced ==
    /\ fetch.stage \in {"none", "begin", "waterfall", "log", "done"} => pmlog = {}
    /\ "memory" \in pmlog => "device" \in pmlog
    /\ \A log \in left : log.cause = "exception" => ~Has("ADL", log.card)

\* "Higher levels overwrite lower": of all levels that gave a sensor in this
\* fetch, the highest is shown.
HighestLevelWins ==
    Fetching => \A a \in answered :
        /\ a[1] <= value[fetch.dev][a[2]]
        /\ <<value[fetch.dev][a[2]], a[2]>> \in answered
==============================================================================
