--------------------------- MODULE DriverLifecycle ---------------------------
(***************************************************************************)
(* A CPU driver from DriverEntry to EvtDriverUnload, with each call of the *)
(* framework that may fail, and the package power it samples between: both *)
(* drivers are this program, but Intel's needs MPERF to allocate the state *)
(* of the cores.                                                           *)
(*                                                                         *)
(* The machine uses energy and time goes by at will.  The framework hands  *)
(* the driver one request of one handle at a time, and unloads it when no  *)
(* handle is open.  When DriverEntry fails, the framework deletes what it  *)
(* created for the driver, calls no unload routine, and the static         *)
(* variables go with the image.  CpuDriver has the requests in full.       *)
(***************************************************************************)
EXTENDS EnergyCounter

CONSTANTS
    MaxLoads,    \* bound: how often the driver is loaded
    MaxUsed,     \* bound: energy used between two samples
    MaxTicks     \* bound: ticks between two samples

ASSUME BoundsAssumption == MaxLoads \in Nat /\ MaxUsed \in Nat /\ MaxTicks \in Nat

VARIABLES
    pc,            \* where DriverEntry or the unload routine is
    core_state,    \* g_core_state is not NULL
    device_init,   \* the pointer p_init, device_init is not NULL
    init_object,   \* what has become of the structure it points to
    device,        \* the control device exists
    dev,           \* the global dev is not NULL
    symlink,       \* the device has its symbolic link
    handle,        \* a client has opened the device
    meter,         \* g_pkg_state: the package's previous sample
    energy,        \* the energy used since the machine was started
    ticks,         \* the performance counter
    power,         \* the package power reported last
    pool,          \* history: blocks of pool memory allocated and not freed
    loads,         \* history: how often the driver was loaded
    lost,          \* history: how many loads failed with the block allocated
    previous       \* history: energy and ticks at this life's last sample

device_vars == <<device_init, init_object, device, dev, symlink>>
machine_vars == <<energy, ticks>>
sample_vars == <<meter, power, previous>>
memory_vars == <<core_state, pool, lost>>
vars == <<pc, handle, loads, device_vars, machine_vars, sample_vars, memory_vars>>

NoSample == [energy |-> -1, ticks |-> -1]
NoPower == -1

Init ==
    /\ pc = "unloaded" /\ handle = FALSE /\ loads = 0
    /\ device_init = FALSE /\ init_object = "none"
    /\ device = FALSE /\ dev = FALSE /\ symlink = FALSE
    /\ energy = 0 /\ ticks = 0
    /\ meter = [valid |-> FALSE, energy |-> 0, ticks |-> 0]
    /\ power = NoPower /\ previous = NoSample
    /\ core_state = FALSE /\ pool = 0 /\ lost = 0

------------------------------------------------------------------------------
(* DriverEntry. *)

\* The static variables of a new image are zero.  DetectFeatures may find no
\* MPERF, and the allocation may fail.
DriverEntry ==
    /\ pc = "unloaded"
    /\ loads < MaxLoads
    /\ loads' = loads + 1
    /\ meter' = [valid |-> FALSE, energy |-> 0, ticks |-> 0]
    /\ previous' = NoSample /\ power' = NoPower
    /\ core_state' \in BOOLEAN
    /\ pool' = IF core_state' THEN pool + 1 ELSE pool
    /\ dev' = FALSE /\ device_init' = FALSE /\ init_object' = "none"
    /\ pc' = "driver_create"
    /\ UNCHANGED <<handle, device, symlink, machine_vars, lost>>

\* DriverEntry returns an error; the framework cleans up after itself.
EntryFails ==
    /\ pc' = "unloaded"
    /\ device' = FALSE /\ symlink' = FALSE
    /\ core_state' = FALSE
    /\ lost' = IF core_state THEN lost + 1 ELSE lost

DriverCreate ==
    /\ pc = "driver_create"
    /\ \/ /\ EntryFails
       \/ /\ pc' = "init_allocate"
          /\ UNCHANGED <<device, symlink, core_state, lost>>
    /\ UNCHANGED <<handle, loads, device_init, init_object, dev, machine_vars, sample_vars, pool>>

ControlDeviceInitAllocate ==
    /\ pc = "init_allocate"
    /\ \/ /\ EntryFails
          /\ UNCHANGED <<device_init, init_object>>
       \/ /\ pc' = "assign"
          /\ device_init' = TRUE /\ init_object' = "allocated"
          /\ UNCHANGED <<device, symlink, core_state, lost>>
    /\ UNCHANGED <<handle, loads, dev, machine_vars, sample_vars, pool>>

\* The calls of NonPnpDeviceAdd that may fail, each with a jump to END.
DeviceAddFails ==
    /\ pc \in {"assign", "device_create", "symbolic_link", "queue_create"}
    /\ pc' = "end_failed"
    /\ UNCHANGED <<handle, loads, device_vars, machine_vars, sample_vars, memory_vars>>

\* The device's access rights and name.
AssignName ==
    /\ pc = "assign"
    /\ pc' = "device_create"
    /\ UNCHANGED <<handle, loads, device_vars, machine_vars, sample_vars, memory_vars>>

\* Mutant: the pointer is kept though the device has the structure now.
DeviceCreateKeepsInit ==
    /\ pc = "device_create"
    /\ pc' = "symbolic_link"
    /\ device' = TRUE /\ init_object' = "consumed"
    /\ UNCHANGED <<handle, loads, device_init, dev, symlink, machine_vars, sample_vars, memory_vars>>

\* WdfDeviceCreate takes the structure over and sets the pointer to NULL.
DeviceCreate ==
    /\ pc = "device_create"
    /\ pc' = "symbolic_link"
    /\ device' = TRUE /\ init_object' = "consumed" /\ device_init' = FALSE
    /\ UNCHANGED <<handle, loads, dev, symlink, machine_vars, sample_vars, memory_vars>>

CreateSymbolicLink ==
    /\ pc = "symbolic_link"
    /\ pc' = "queue_create"
    /\ symlink' = TRUE
    /\ dev' = TRUE
    /\ UNCHANGED <<handle, loads, device_init, init_object, device, machine_vars, sample_vars, memory_vars>>

\* The queue is made and the device finishes its initialisation.
IoQueueCreate ==
    /\ pc = "queue_create"
    /\ pc' = "end"
    /\ UNCHANGED <<handle, loads, device_vars, machine_vars, sample_vars, memory_vars>>

\* END: the structure is freed unless a device has it.
EndDeviceAdd ==
    /\ pc \in {"end", "end_failed"}
    /\ IF device_init
       THEN init_object' = IF init_object = "allocated" THEN "freed" ELSE "freed_twice"
       ELSE UNCHANGED init_object
    /\ \/ /\ pc = "end"
          /\ pc' = "loaded"
          /\ UNCHANGED <<device, symlink, core_state, lost>>
       \/ /\ pc = "end_failed"
          /\ EntryFails
    /\ device_init' = FALSE
    /\ UNCHANGED <<handle, loads, dev, machine_vars, sample_vars, pool>>

------------------------------------------------------------------------------
(* A loaded driver. *)

\* The device is exclusive.
Open ==
    /\ pc = "loaded" /\ symlink /\ ~handle
    /\ handle' = TRUE
    /\ UNCHANGED <<pc, loads, device_vars, machine_vars, sample_vars, memory_vars>>

Close ==
    /\ handle
    /\ handle' = FALSE
    /\ UNCHANGED <<pc, loads, device_vars, machine_vars, sample_vars, memory_vars>>

\* How much the machine may use before the next sample.
Room(now, last, bound) == last = -1 \/ now - last < bound

UseEnergy ==
    /\ energy < MaxLoads * MaxUsed
    /\ Room(energy, previous.energy, MaxUsed)
    /\ energy' = energy + 1
    /\ UNCHANGED <<pc, handle, loads, device_vars, ticks, sample_vars, memory_vars>>

PassTime ==
    /\ ticks < MaxLoads * MaxTicks
    /\ Room(ticks, previous.ticks, MaxTicks)
    /\ ticks' = ticks + 1
    /\ UNCHANGED <<pc, handle, loads, device_vars, energy, sample_vars, memory_vars>>

\* retPackagePower.
SamplePower ==
    LET curr == CounterAt(energy)
    IN  /\ handle
        /\ power' = IF meter.valid
                    THEN Power(EnergyDelta(curr, meter.energy), ticks - meter.ticks)
                    ELSE 0
        /\ meter' = [valid |-> TRUE, energy |-> curr, ticks |-> ticks]
        /\ previous' = [energy |-> energy, ticks |-> ticks]
        /\ UNCHANGED <<pc, handle, loads, device_vars, machine_vars, memory_vars>>

\* EvtDriverUnload: the memory first, then the device.
UnloadFreesState ==
    /\ pc = "loaded" /\ ~handle
    /\ pc' = "unloading"
    /\ pool' = IF core_state THEN pool - 1 ELSE pool
    /\ core_state' = FALSE
    /\ UNCHANGED <<handle, loads, device_vars, machine_vars, sample_vars, lost>>

UnloadDeletesDevice ==
    /\ pc = "unloading"
    /\ pc' = "unloaded"
    /\ IF dev THEN device' = FALSE /\ symlink' = FALSE ELSE UNCHANGED <<device, symlink>>
    /\ dev' = FALSE
    /\ UNCHANGED <<handle, loads, device_init, init_object, machine_vars, sample_vars, memory_vars>>

Entry ==
    \/ DriverEntry \/ DriverCreate \/ ControlDeviceInitAllocate \/ DeviceAddFails
    \/ AssignName \/ DeviceCreate \/ CreateSymbolicLink \/ IoQueueCreate \/ EndDeviceAdd

Loaded == Open \/ Close \/ SamplePower \/ UnloadFreesState \/ UnloadDeletesDevice

Machine == UseEnergy \/ PassTime

Next == Entry \/ Loaded \/ Machine

Spec == Init /\ [][Next]_vars

------------------------------------------------------------------------------
(* Properties. *)

TypeOK ==
    /\ pc \in {"unloaded", "driver_create", "init_allocate", "assign", "device_create",
               "symbolic_link", "queue_create", "end", "end_failed", "loaded", "unloading"}
    /\ core_state \in BOOLEAN /\ device_init \in BOOLEAN /\ device \in BOOLEAN
    /\ dev \in BOOLEAN /\ symlink \in BOOLEAN /\ handle \in BOOLEAN
    /\ init_object \in {"none", "allocated", "consumed", "freed", "freed_twice"}
    /\ meter \in [valid : BOOLEAN, energy : Nat, ticks : Nat]
    /\ energy \in Nat /\ ticks \in Nat
    /\ power \in Nat \cup {NoPower}
    /\ pool \in Nat /\ loads \in Nat /\ lost \in Nat
    /\ previous \in [energy : Nat \cup {-1}, ticks : Nat \cup {-1}]

\* A driver that is not loaded has left no device, and the structure a device
\* is made from was given to one or freed, once, whatever failed.  Pool memory
\* is left only by loads that failed.
NothingLeftBehind ==
    /\ init_object # "freed_twice"
    /\ pc = "unloaded" => ~device /\ ~symlink /\ init_object # "allocated"
    /\ pool = lost + (IF core_state THEN 1 ELSE 0)

\* A sample reports the power of exactly the energy and time since the sample
\* before, across wraps of the counter and across readings too close together
\* to report anything, as long as the counter has not gone all the way round;
\* the first sample after a load reports nothing.
PowerOfInterval ==
    [][SamplePower =>
         /\ previous = NoSample => power' = 0
         /\ previous # NoSample /\ energy - previous.energy < Modulus =>
                power' = Power(energy - previous.energy, ticks - previous.ticks)]_vars
==============================================================================
