------------------------ MODULE DriverLifecycleProofs ------------------------
(***************************************************************************)
(* Proofs about EnergyCounter and DriverLifecycle for any width of the     *)
(* counter, any units and any number of loads: a power is the power of the *)
(* interval it is reported for, and a driver that is gone left nothing.    *)
(***************************************************************************)
EXTENDS DriverLifecycle, TLAPS

------------------------------------------------------------------------------
(* The arithmetic. *)

\* Quotient and remainder, with the products kept abstract.
LEMMA Division ==
    ASSUME NEW a \in Nat, NEW m \in Nat \ {0}
    PROVE  /\ a \div m \in Nat
           /\ a % m \in 0 .. m - 1
           /\ a = m * (a \div m) + (a % m)
  OBVIOUS

LEMMA RemainderIs ==
    ASSUME NEW q \in Nat, NEW m \in Nat \ {0}, NEW r \in 0 .. m - 1
    PROVE  (m * q + r) % m = r
  OBVIOUS

LEMMA Product ==
    ASSUME NEW a \in Nat, NEW b \in Nat
    PROVE  a * b \in Nat
  OBVIOUS

LEMMA CounterRange ==
    ASSUME NEW e \in Nat
    PROVE  CounterAt(e) \in 0 .. Modulus - 1
  BY CounterAssumption, Division DEF CounterAssumption, CounterAt

\* What the counter shows after d more steps.
LEMMA CounterAfter ==
    ASSUME NEW e \in Nat, NEW d \in Nat, d < Modulus
    PROVE  CounterAt(e + d) = IF CounterAt(e) + d < Modulus THEN CounterAt(e) + d
                                                            ELSE CounterAt(e) + d - Modulus
<1> DEFINE q == e \div Modulus
           r == e % Modulus
<1>1. Modulus \in Nat \ {0}
  BY CounterAssumption DEF CounterAssumption
<1>2. q \in Nat /\ r \in 0 .. Modulus - 1 /\ e = Modulus * q + r
  BY <1>1, Division
<1> HIDE DEF q, r
<1>3. CASE r + d < Modulus
  <2>1. r + d \in 0 .. Modulus - 1 /\ e + d = Modulus * q + (r + d)
    BY <1>1, <1>2, <1>3
  <2>2. (e + d) % Modulus = r + d
    BY <1>1, <1>2, <2>1, RemainderIs
  <2>3. QED
    BY <1>3, <2>2 DEF CounterAt, r
<1>4. CASE ~(r + d < Modulus)
  <2>1. /\ r + d - Modulus \in 0 .. Modulus - 1 /\ q + 1 \in Nat
        /\ Modulus * (q + 1) = Modulus * q + Modulus
    BY <1>1, <1>2, <1>4
  <2>2. e + d = Modulus * (q + 1) + (r + d - Modulus)
    BY <1>1, <1>2, <2>1
  <2>3. (e + d) % Modulus = r + d - Modulus
    BY <1>1, <2>1, <2>2, RemainderIs
  <2>4. QED
    BY <1>4, <2>3 DEF CounterAt, r
<1>5. QED
  BY <1>3, <1>4

\* The difference of two readings of the counter is the energy used between
\* them, across a wrap too, as long as the counter has not gone all the way
\* round (energy_delta in both drivers).
THEOREM DeltaIsEnergyUsed ==
    ASSUME NEW e \in Nat, NEW d \in Nat, d < Modulus
    PROVE  EnergyDelta(CounterAt(e + d), CounterAt(e)) = d
<1>1. CounterAt(e) \in 0 .. Modulus - 1
  BY CounterRange
<1>2. QED
  <2> DEFINE before == CounterAt(e)
             after  == CounterAt(e + d)
  <2>1. before \in 0 .. Modulus - 1 /\ Modulus \in Nat \ {0}
    BY <1>1, CounterAssumption DEF CounterAssumption
  <2>2. after = IF before + d < Modulus THEN before + d ELSE before + d - Modulus
    BY CounterAfter
  <2> HIDE DEF before, after
  <2>3. EnergyDelta(after, before) = d
    BY <2>1, <2>2 DEF EnergyDelta
  <2>4. QED
    BY <2>3 DEF before, after

\* The driver never divides by zero, and a power is a number.
LEMMA PowerRange ==
    ASSUME NEW e \in Nat, NEW t \in Nat
    PROVE  Power(e, t) \in Nat
<1> DEFINE ms == Milliseconds(t)
           joules == (e * 1000) \div Divisor
           millijoules == joules * 1000
<1>1. ms \in Nat
  BY CounterAssumption, Division, Product DEF CounterAssumption, Milliseconds
<1>2. joules \in Nat
  BY CounterAssumption, Division, Product DEF CounterAssumption
<1>3. millijoules \in Nat
  BY <1>2, Product
<1>4. Power(e, t) = IF ms = 0 THEN 0 ELSE millijoules \div ms
  BY DEF Power
<1> HIDE DEF ms, millijoules
<1>5. ms # 0 => millijoules \div ms \in Nat
  BY <1>1, <1>3, Division
<1>6. QED
  BY <1>4, <1>5

LEMMA DeltaRange ==
    ASSUME NEW curr \in 0 .. Modulus - 1, NEW prev \in 0 .. Modulus - 1
    PROVE  EnergyDelta(curr, prev) \in Nat
  BY CounterAssumption DEF CounterAssumption, EnergyDelta

------------------------------------------------------------------------------
(* The invariant. *)

\* The structure a device is made from is the pointer's own exactly while
\* nobody else has it, and the pointer is gone when the device has it.
StructureOwned ==
    /\ device_init <=> init_object = "allocated"
    /\ device_init => pc \in {"assign", "device_create", "end_failed"}
    /\ init_object # "freed_twice"

\* There is a device from its creation to the end of the unload routine, which
\* finds it in the global.
DevicePlaced ==
    /\ symlink => device
    /\ device => pc \in {"symbolic_link", "queue_create", "end", "end_failed",
                         "loaded", "unloading"}
    /\ pc \in {"symbolic_link", "queue_create", "end", "loaded", "unloading"} => device
    /\ pc \in {"queue_create", "end", "loaded", "unloading"} => dev
    /\ handle => pc = "loaded"

MemoryAccounted ==
    /\ core_state => pc \notin {"unloaded", "unloading"}
    /\ pool = lost + (IF core_state THEN 1 ELSE 0)

\* The meter holds the sample that previous remembers.
MeterHoldsSample ==
    /\ previous = NoSample <=> ~meter.valid
    /\ meter.valid =>
         /\ previous.energy \in 0 .. energy /\ previous.ticks \in 0 .. ticks
         /\ meter.energy = CounterAt(previous.energy)
         /\ meter.ticks = previous.ticks

DriverInv ==
    /\ TypeOK
    /\ StructureOwned
    /\ DevicePlaced
    /\ MemoryAccounted
    /\ MeterHoldsSample

LEMMA DriverInitInv == Init => DriverInv
<1> SUFFICES ASSUME Init
             PROVE  DriverInv
  OBVIOUS
<1>1. TypeOK
  BY DEF Init, TypeOK, NoSample, NoPower
<1>2. StructureOwned
  BY DEF Init, StructureOwned
<1>3. DevicePlaced
  BY DEF Init, DevicePlaced
<1>4. MemoryAccounted
  BY DEF Init, MemoryAccounted
<1>5. MeterHoldsSample
  BY DEF Init, MeterHoldsSample
<1>6. QED
  BY <1>1, <1>2, <1>3, <1>4, <1>5 DEF DriverInv

\* What a step leaves of the meter's part when it does not sample.
LEMMA MeterKept ==
    ASSUME DriverInv, UNCHANGED <<meter, previous>>,
           energy' \in Nat, ticks' \in Nat, energy' >= energy, ticks' >= ticks
    PROVE  MeterHoldsSample'
  BY DEF DriverInv, TypeOK, MeterHoldsSample

\* The framework's clean-up after a failed DriverEntry.
LEMMA FailedEntry ==
    ASSUME DriverInv, EntryFails, UNCHANGED <<pool, dev>>,
           handle' = handle, pc \notin {"loaded", "unloaded", "unloading"}
    PROVE  DevicePlaced' /\ MemoryAccounted'
<1>1. DevicePlaced'
  BY DEF DriverInv, DevicePlaced, EntryFails
<1>2. MemoryAccounted'
  BY DEF DriverInv, TypeOK, MemoryAccounted, EntryFails
<1>3. QED
  BY <1>1, <1>2

LEMMA DriverEntryStep == DriverInv /\ DriverEntry => DriverInv'
<1> SUFFICES ASSUME DriverInv, DriverEntry
             PROVE  DriverInv'
  OBVIOUS
<1>1. TypeOK'
  <2>1. loads' \in Nat /\ pool' \in Nat
    BY DEF DriverEntry, DriverInv, TypeOK
  <2>2. /\ meter' \in [valid : BOOLEAN, energy : Nat, ticks : Nat]
        /\ previous' \in [energy : Nat \cup {-1}, ticks : Nat \cup {-1}]
        /\ power' \in Nat \cup {NoPower}
    BY DEF DriverEntry, NoSample
  <2>3. /\ core_state' \in BOOLEAN /\ device_init' \in BOOLEAN /\ device' \in BOOLEAN
        /\ dev' \in BOOLEAN /\ symlink' \in BOOLEAN /\ handle' \in BOOLEAN
    BY DEF DriverEntry, DriverInv, TypeOK
  <2>4. QED
    BY <2>1, <2>2, <2>3 DEF DriverEntry, DriverInv, TypeOK, machine_vars
<1>2. StructureOwned'
  BY DEF DriverEntry, StructureOwned
<1>3. DevicePlaced'
  BY DEF DriverEntry, DriverInv, DevicePlaced
<1>4. MemoryAccounted'
  BY DEF DriverEntry, DriverInv, TypeOK, MemoryAccounted
<1>5. MeterHoldsSample'
  BY DEF DriverEntry, MeterHoldsSample
<1>6. QED
  BY <1>1, <1>2, <1>3, <1>4, <1>5 DEF DriverInv

\* DriverEntry's calls up to the structure that a device is made from.
LEMMA CreateStep ==
    DriverInv /\ (DriverCreate \/ ControlDeviceInitAllocate) => DriverInv'
<1> SUFFICES ASSUME DriverInv, DriverCreate \/ ControlDeviceInitAllocate
             PROVE  DriverInv'
  OBVIOUS
<1>1. TypeOK'
  <2>1. lost' \in Nat
    BY DEF DriverCreate, ControlDeviceInitAllocate, EntryFails, DriverInv, TypeOK
  <2>2. /\ core_state' \in BOOLEAN /\ device_init' \in BOOLEAN /\ device' \in BOOLEAN
        /\ dev' \in BOOLEAN /\ symlink' \in BOOLEAN /\ handle' \in BOOLEAN
    BY DEF DriverCreate, ControlDeviceInitAllocate, EntryFails, DriverInv, TypeOK
  <2>3. QED
    BY <2>1, <2>2 DEF DriverCreate, ControlDeviceInitAllocate, EntryFails, DriverInv, TypeOK,
       machine_vars, sample_vars
<1>2. StructureOwned'
  BY DEF DriverCreate, ControlDeviceInitAllocate, EntryFails, DriverInv, StructureOwned
<1>3. DevicePlaced' /\ MemoryAccounted'
  <2>1. CASE EntryFails
    BY <2>1, FailedEntry DEF DriverCreate, ControlDeviceInitAllocate
  <2>2. CASE pc' \in {"init_allocate", "assign"} /\ UNCHANGED <<device, symlink, core_state, lost, pool, dev, handle>>
    BY <2>2 DEF DriverCreate, ControlDeviceInitAllocate, DriverInv, DevicePlaced, MemoryAccounted
  <2>3. QED
    BY <2>1, <2>2 DEF DriverCreate, ControlDeviceInitAllocate
<1>4. MeterHoldsSample'
  BY MeterKept DEF DriverCreate, ControlDeviceInitAllocate, DriverInv, TypeOK,
     machine_vars, sample_vars
<1>5. QED
  BY <1>1, <1>2, <1>3, <1>4 DEF DriverInv

\* The calls of NonPnpDeviceAdd between allocation and END.
LEMMA DeviceAddStep ==
    DriverInv /\ (DeviceAddFails \/ AssignName \/ DeviceCreate \/ CreateSymbolicLink \/ IoQueueCreate)
      => DriverInv'
<1> SUFFICES ASSUME DriverInv,
                    DeviceAddFails \/ AssignName \/ DeviceCreate \/ CreateSymbolicLink \/ IoQueueCreate
             PROVE  DriverInv'
  OBVIOUS
<1> USE DEF DeviceAddFails, AssignName, DeviceCreate, CreateSymbolicLink, IoQueueCreate,
            device_vars, machine_vars, sample_vars, memory_vars
<1>1. TypeOK'
  <2>1. UNCHANGED <<handle, loads, machine_vars, sample_vars, memory_vars>>
    OBVIOUS
  <2>2. /\ device_init' \in BOOLEAN /\ device' \in BOOLEAN /\ dev' \in BOOLEAN
        /\ symlink' \in BOOLEAN
    BY Zenon DEF DriverInv, TypeOK
  <2>3. init_object' \in {"none", "allocated", "consumed", "freed", "freed_twice"}
    BY DEF DriverInv, TypeOK
  <2>4. pc' \in {"device_create", "symbolic_link", "queue_create", "end", "end_failed"}
    OBVIOUS
  <2> HIDE DEF DeviceAddFails, AssignName, DeviceCreate, CreateSymbolicLink, IoQueueCreate
  <2>5. QED
    BY <2>1, <2>2, <2>3, <2>4 DEF DriverInv, TypeOK
<1>2. StructureOwned'
  BY DEF DriverInv, TypeOK, StructureOwned
<1>3. DevicePlaced'
  BY DEF DriverInv, TypeOK, DevicePlaced
<1>4. MemoryAccounted'
  BY DEF DriverInv, TypeOK, MemoryAccounted
<1>5. MeterHoldsSample'
  BY MeterKept DEF DriverInv, TypeOK
<1>6. QED
  BY <1>1, <1>2, <1>3, <1>4, <1>5 DEF DriverInv

LEMMA EndStep == DriverInv /\ EndDeviceAdd => DriverInv'
<1> SUFFICES ASSUME DriverInv, EndDeviceAdd
             PROVE  DriverInv'
  OBVIOUS
<1>1. TypeOK'
  <2>1. lost' \in Nat
    BY DEF EndDeviceAdd, EntryFails, DriverInv, TypeOK
  <2>2. /\ core_state' \in BOOLEAN /\ device_init' \in BOOLEAN /\ device' \in BOOLEAN
        /\ dev' \in BOOLEAN /\ symlink' \in BOOLEAN /\ handle' \in BOOLEAN
    BY DEF EndDeviceAdd, EntryFails, DriverInv, TypeOK
  <2>3. init_object' \in {"none", "allocated", "consumed", "freed", "freed_twice"}
    BY DEF EndDeviceAdd, DriverInv, TypeOK
  <2>4. QED
    BY <2>1, <2>2, <2>3 DEF EndDeviceAdd, EntryFails, DriverInv, TypeOK, machine_vars, sample_vars
<1>2. StructureOwned'
  BY DEF EndDeviceAdd, DriverInv, TypeOK, StructureOwned
<1>3. DevicePlaced' /\ MemoryAccounted'
  <2>1. CASE EntryFails
    BY <2>1, FailedEntry DEF EndDeviceAdd
  <2>2. CASE pc = "end" /\ pc' = "loaded" /\ UNCHANGED <<device, symlink, core_state, lost>>
    BY <2>2 DEF EndDeviceAdd, DriverInv, TypeOK, DevicePlaced, MemoryAccounted
  <2>3. QED
    BY <2>1, <2>2 DEF EndDeviceAdd
<1>4. MeterHoldsSample'
  BY MeterKept DEF EndDeviceAdd, DriverInv, TypeOK, machine_vars, sample_vars
<1>5. QED
  BY <1>1, <1>2, <1>3, <1>4 DEF DriverInv

\* Clients come and go, and the machine goes on.
LEMMA AroundStep == DriverInv /\ (Open \/ Close \/ Machine) => DriverInv'
<1> SUFFICES ASSUME DriverInv, Open \/ Close \/ Machine
             PROVE  DriverInv'
  OBVIOUS
<1> USE DEF Open, Close, Machine, UseEnergy, PassTime, device_vars, machine_vars, sample_vars, memory_vars
<1>1. TypeOK'
  <2>1. handle' \in BOOLEAN
    BY DEF DriverInv, TypeOK
  <2>2. energy' \in Nat /\ ticks' \in Nat
    BY DEF DriverInv, TypeOK
  <2>3. /\ pc' = pc /\ UNCHANGED <<loads, device_init, init_object, device, dev, symlink>>
        /\ UNCHANGED <<meter, power, previous, core_state, pool, lost>>
    OBVIOUS
  <2>4. QED
    BY <2>1, <2>2, <2>3 DEF DriverInv, TypeOK
<1>2. StructureOwned'
  BY DEF DriverInv, StructureOwned
<1>3. DevicePlaced'
  BY DEF DriverInv, TypeOK, DevicePlaced
<1>4. MemoryAccounted'
  BY DEF DriverInv, MemoryAccounted
<1>5. MeterHoldsSample'
  BY MeterKept DEF DriverInv, TypeOK
<1>6. QED
  BY <1>1, <1>2, <1>3, <1>4, <1>5 DEF DriverInv

LEMMA SampleStep == DriverInv /\ SamplePower => DriverInv'
<1> SUFFICES ASSUME DriverInv, SamplePower
             PROVE  DriverInv'
  OBVIOUS
<1>1. /\ meter' = [valid |-> TRUE, energy |-> CounterAt(energy), ticks |-> ticks]
      /\ previous' = [energy |-> energy, ticks |-> ticks]
      /\ UNCHANGED <<pc, handle, loads, device_vars, machine_vars, memory_vars>>
  BY DEF SamplePower
<1>2. energy \in Nat /\ ticks \in Nat /\ CounterAt(energy) \in 0 .. Modulus - 1 /\ Modulus \in Nat
  BY CounterRange, CounterAssumption DEF DriverInv, TypeOK, CounterAssumption
<1>3. power' \in Nat
  <2>1. CASE ~meter.valid
    BY <2>1 DEF SamplePower
  <2>2. CASE meter.valid
    <3>1. /\ previous.energy \in 0 .. energy /\ meter.energy = CounterAt(previous.energy)
          /\ meter.ticks \in 0 .. ticks
      BY <2>2 DEF DriverInv, MeterHoldsSample
    <3>2. meter.energy \in 0 .. Modulus - 1 /\ ticks - meter.ticks \in Nat
      BY <1>2, <3>1, CounterRange
    <3>3. EnergyDelta(CounterAt(energy), meter.energy) \in Nat
      BY <1>2, <3>2, DeltaRange
    <3>4. Power(EnergyDelta(CounterAt(energy), meter.energy), ticks - meter.ticks) \in Nat
      BY <3>2, <3>3, PowerRange
    <3>5. QED
      BY <2>2, <3>4 DEF SamplePower
  <2>3. QED
    BY <2>1, <2>2
<1>4. TypeOK'
  <2>1. /\ meter' \in [valid : BOOLEAN, energy : Nat, ticks : Nat]
        /\ previous' \in [energy : Nat \cup {-1}, ticks : Nat \cup {-1}]
    BY <1>1, <1>2
  <2>2. UNCHANGED <<pc, handle, loads, device_init, init_object, device, dev, symlink, energy,
                    ticks, core_state, pool, lost>>
    BY <1>1 DEF device_vars, machine_vars, memory_vars
  <2>3. QED
    BY <1>3, <2>1, <2>2 DEF DriverInv, TypeOK
<1>5. StructureOwned'
  BY <1>1 DEF DriverInv, StructureOwned, device_vars
<1>6. DevicePlaced'
  BY <1>1 DEF DriverInv, DevicePlaced, device_vars
<1>7. MemoryAccounted'
  BY <1>1 DEF DriverInv, MemoryAccounted, memory_vars
<1>8. MeterHoldsSample'
  BY <1>1, <1>2 DEF MeterHoldsSample, NoSample, machine_vars
<1>9. QED
  BY <1>4, <1>5, <1>6, <1>7, <1>8 DEF DriverInv

LEMMA UnloadStep ==
    DriverInv /\ (UnloadFreesState \/ UnloadDeletesDevice) => DriverInv'
<1> SUFFICES ASSUME DriverInv, UnloadFreesState \/ UnloadDeletesDevice
             PROVE  DriverInv'
  OBVIOUS
<1> USE DEF UnloadFreesState, UnloadDeletesDevice, device_vars, machine_vars, sample_vars, memory_vars
<1>1. TypeOK'
  <2>1. pool' \in Nat
    BY DEF DriverInv, TypeOK, MemoryAccounted
  <2>2. /\ core_state' \in BOOLEAN /\ device' \in BOOLEAN /\ symlink' \in BOOLEAN /\ dev' \in BOOLEAN
    BY DEF DriverInv, TypeOK
  <2>3. QED
    BY <2>1, <2>2 DEF DriverInv, TypeOK
<1>2. StructureOwned'
  BY DEF DriverInv, StructureOwned
<1>3. DevicePlaced'
  BY DEF DriverInv, DevicePlaced
<1>4. MemoryAccounted'
  BY DEF DriverInv, TypeOK, MemoryAccounted
<1>5. MeterHoldsSample'
  BY MeterKept DEF DriverInv, TypeOK
<1>6. QED
  BY <1>1, <1>2, <1>3, <1>4, <1>5 DEF DriverInv

LEMMA DriverStepInv == DriverInv /\ [Next]_vars => DriverInv'
<1> SUFFICES ASSUME DriverInv, [Next]_vars
             PROVE  DriverInv'
  OBVIOUS
<1>1. CASE Entry
  BY <1>1, DriverEntryStep, CreateStep, DeviceAddStep, EndStep DEF Entry
<1>2. CASE Loaded
  BY <1>2, AroundStep, SampleStep, UnloadStep DEF Loaded
<1>3. CASE Machine
  BY <1>3, AroundStep
<1>4. CASE UNCHANGED vars
  BY <1>4 DEF vars, device_vars, machine_vars, sample_vars, memory_vars, DriverInv, TypeOK,
     StructureOwned, DevicePlaced, MemoryAccounted, MeterHoldsSample
<1>5. QED
  BY <1>1, <1>2, <1>3, <1>4 DEF Next

LEMMA DriverInvariant == Spec => []DriverInv
  BY DriverInitInv, DriverStepInv, PTL DEF Spec

\* The driver's variables keep their ranges: no block is freed that was not
\* allocated, and a power is never the quotient of a division by zero.
THEOREM DriverTypeCorrect == Spec => []TypeOK
<1>1. DriverInv => TypeOK
  BY DEF DriverInv
<1>2. QED
  BY DriverInvariant, <1>1, PTL

\* Whichever of DriverEntry's calls fails, and after each unload, no device and
\* no structure is left, and memory only by the loads that failed.
THEOREM DriverLeavesNothing == Spec => []NothingLeftBehind
<1>1. DriverInv => NothingLeftBehind
  BY DEF DriverInv, StructureOwned, DevicePlaced, MemoryAccounted, NothingLeftBehind
<1>2. QED
  BY DriverInvariant, <1>1, PTL

\* retPackagePower reports the power of the interval since the sample before,
\* for any width of the counter and any length of the interval in which the
\* counter does not go all the way round.
THEOREM PowerIsOfInterval == Spec => PowerOfInterval
<1> DEFINE Reports ==
             /\ previous = NoSample => power' = 0
             /\ previous # NoSample /\ energy - previous.energy < Modulus =>
                  power' = Power(energy - previous.energy, ticks - previous.ticks)
<1>1. DriverInv /\ SamplePower => Reports
  <2> SUFFICES ASSUME DriverInv, SamplePower
               PROVE  Reports
    OBVIOUS
  <2>1. CASE previous = NoSample
    BY <2>1 DEF SamplePower, DriverInv, MeterHoldsSample
  <2>2. CASE previous # NoSample /\ energy - previous.energy < Modulus
    <3>1. /\ meter.valid /\ meter.energy = CounterAt(previous.energy)
          /\ meter.ticks = previous.ticks /\ previous.energy \in 0 .. energy
      BY <2>2 DEF DriverInv, MeterHoldsSample
    <3> DEFINE used == energy - previous.energy
    <3>2. used \in Nat /\ previous.energy \in Nat /\ energy = previous.energy + used /\ used < Modulus
      BY <2>2, <3>1 DEF DriverInv, TypeOK
    <3>3. EnergyDelta(CounterAt(previous.energy + used), CounterAt(previous.energy)) = used
      BY <3>2, DeltaIsEnergyUsed
    <3>4. EnergyDelta(CounterAt(energy), meter.energy) = used
      BY <3>1, <3>2, <3>3
    <3>5. QED
      BY <2>2, <3>1, <3>4 DEF SamplePower
  <2>3. QED
    BY <2>1, <2>2
<1>2. DriverInv /\ [Next]_vars => [SamplePower => Reports]_vars
  BY <1>1
<1>3. QED
  BY <1>2, DriverInvariant, PTL DEF Spec, PowerOfInterval
==============================================================================
