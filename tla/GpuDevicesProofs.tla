--------------------------- MODULE GpuDevicesProofs ---------------------------
(***************************************************************************)
(* Proofs about GpuDevices for any machines and any sensors: which cards   *)
(* become devices, which SDK stays up for them, and what a fetch leaves    *)
(* behind, whichever calls of the SDKs fail and wherever an exception      *)
(* ends a loop.                                                            *)
(***************************************************************************)
EXTENDS GpuDevices, TLAPS

------------------------------------------------------------------------------
(* Sequences. *)

LEMMA AppendedOne ==
    ASSUME NEW S, NEW s \in Seq(S), NEW x \in S
    PROVE  /\ Append(s, x) \in Seq(S)
           /\ Len(Append(s, x)) = Len(s) + 1
           /\ \A i \in 1 .. Len(s) : Append(s, x)[i] = s[i]
           /\ Append(s, x)[Len(s) + 1] = x
  OBVIOUS

LEMMA ReplacedOne ==
    ASSUME NEW S, NEW s \in Seq(S), NEW k \in 1 .. Len(s), NEW x \in S
    PROVE  /\ [s EXCEPT ![k] = x] \in Seq(S)
           /\ Len([s EXCEPT ![k] = x]) = Len(s)
           /\ [s EXCEPT ![k] = x][k] = x
  OBVIOUS

LEMMA ElementOf ==
    ASSUME NEW S, NEW s \in Seq(S), NEW i \in 1 .. Len(s)
    PROVE  s[i] \in S
  OBVIOUS

\* The cards that the devices of an SDK are for.
CardsOf(devs, backend) ==
    {devs[i].card : i \in {j \in 1 .. Len(devs) : devs[j].backend = backend}}

Distinct(devs) ==
    \A i, j \in 1 .. Len(devs) : devs[i] = devs[j] => i = j

LEMMA CardsOfNone == \A b : CardsOf(<<>>, b) = {}
  BY DEF CardsOf

LEMMA CardsAppend ==
    ASSUME NEW devs \in Seq(Device), NEW dev \in Device, NEW b
    PROVE  CardsOf(Append(devs, dev), b) =
             IF dev.backend = b THEN CardsOf(devs, b) \cup {dev.card} ELSE CardsOf(devs, b)
<1> DEFINE more == Append(devs, dev)
<1>1. /\ Len(devs) \in Nat /\ Len(more) = Len(devs) + 1
      /\ \A i \in 1 .. Len(devs) : more[i] = devs[i]
      /\ more[Len(devs) + 1] = dev
  BY AppendedOne
<1> HIDE DEF more
<1>2. CardsOf(more, b) =
        IF dev.backend = b THEN CardsOf(devs, b) \cup {dev.card} ELSE CardsOf(devs, b)
  BY <1>1 DEF CardsOf
<1>3. QED
  BY <1>2 DEF more

LEMMA DistinctAppend ==
    ASSUME NEW devs \in Seq(Device), NEW dev \in Device, Distinct(devs),
           dev.card \notin CardsOf(devs, dev.backend)
    PROVE  Distinct(Append(devs, dev))
<1> DEFINE more == Append(devs, dev)
<1>1. /\ Len(devs) \in Nat /\ Len(more) = Len(devs) + 1
      /\ \A i \in 1 .. Len(devs) : more[i] = devs[i]
      /\ more[Len(devs) + 1] = dev
  BY AppendedOne
<1> HIDE DEF more
<1>2. \A i \in 1 .. Len(devs) : devs[i] # dev
  BY DEF CardsOf
<1>3. Distinct(more)
  BY <1>1, <1>2 DEF Distinct
<1>4. QED
  BY <1>3 DEF more

LEMMA NoneOf ==
    ASSUME NEW devs, NEW b
    PROVE  (\A i \in 1 .. Len(devs) : devs[i].backend # b) <=> CardsOf(devs, b) = {}
  BY DEF CardsOf

\* The device being made is gone from the end of the list.
LEMMA UnmadeOne ==
    ASSUME NEW S, NEW s \in Seq(S), s # <<>>
    PROVE  /\ Unmade(s) \in Seq(S)
           /\ Len(Unmade(s)) = Len(s) - 1
           /\ \A i \in 1 .. Len(s) - 1 : Unmade(s)[i] = s[i]
<1>1. Len(s) \in Nat \ {0}
  OBVIOUS
<1>2. SubSeq(s, 1, Len(s) - 1) \in Seq(S)
  BY <1>1
<1>3. Len(SubSeq(s, 1, Len(s) - 1)) = Len(s) - 1
  <2> DEFINE less == SubSeq(s, 1, Len(s) - 1)
  <2> SUFFICES Len(less) = Len(s) - 1
    OBVIOUS
  <2>1. CASE 1 <= Len(s) - 1
    BY <1>1, <2>1
  <2>2. CASE Len(s) - 1 = 0
    BY <2>2
  <2>3. 1 <= Len(s) - 1 \/ Len(s) - 1 = 0
    <3>1. \A n \in Nat \ {0} : 1 <= n - 1 \/ n - 1 = 0
      OBVIOUS
    <3>2. QED
      BY <1>1, <3>1
  <2> HIDE DEF less
  <2>4. QED
    BY <2>1, <2>2, <2>3
<1>4. \A i \in 1 .. Len(s) - 1 : SubSeq(s, 1, Len(s) - 1)[i] = s[i]
  BY <1>1
<1>5. QED
  BY <1>2, <1>3, <1>4 DEF Unmade

LEMMA CardsUnmade ==
    ASSUME NEW devs \in Seq(Device), devs # <<>>, Distinct(devs)
    PROVE  /\ Distinct(Unmade(devs))
           /\ \A b : CardsOf(Unmade(devs), b) =
                     IF devs[Len(devs)].backend = b
                     THEN CardsOf(devs, b) \ {devs[Len(devs)].card} ELSE CardsOf(devs, b)
<1> DEFINE less == Unmade(devs)
           n == Len(devs)
<1>1. /\ n \in Nat \ {0} /\ Len(less) = n - 1
      /\ \A i \in 1 .. n - 1 : less[i] = devs[i]
  BY UnmadeOne
<1> HIDE DEF less
<1>2. Distinct(less)
  BY <1>1 DEF Distinct
<1>3. \A i \in 1 .. n : devs[i] \in Device
  BY ElementOf
<1>4. \A i \in 1 .. n - 1 : devs[i] # devs[n]
  BY <1>1 DEF Distinct
<1>5. ASSUME NEW b
      PROVE  CardsOf(less, b) = IF devs[n].backend = b
                                THEN CardsOf(devs, b) \ {devs[n].card} ELSE CardsOf(devs, b)
  <2>1. \A i \in 1 .. n : i \in 1 .. n - 1 \/ i = n
    BY <1>1
  <2>2. CardsOf(less, b) = {devs[i].card : i \in {j \in 1 .. n - 1 : devs[j].backend = b}}
    BY <1>1 DEF CardsOf
  <2>3. ASSUME NEW i \in 1 .. n - 1, devs[i].backend = devs[n].backend
        PROVE  devs[i].card # devs[n].card
    <3>1. i \in 1 .. n /\ n \in 1 .. n
      BY <1>1
    <3>2. devs[i] \in Device /\ devs[n] \in Device /\ devs[i] # devs[n]
      BY <1>3, <1>4, <3>1
    <3> DEFINE one == devs[i]
               other == devs[n]
    <3>3. one \in Device /\ other \in Device /\ one # other /\ one.backend = other.backend
      BY <2>3, <3>2
    <3> HIDE DEF one, other
    <3>4. one.card # other.card
      BY <3>3 DEF Device
    <3>5. QED
      BY <3>4 DEF one, other
  <2> HIDE DEF n
  <2>4. CASE devs[n].backend = b
    BY <1>1, <2>1, <2>2, <2>3, <2>4 DEF CardsOf, n
  <2>5. CASE devs[n].backend # b
    BY <1>1, <2>1, <2>2, <2>5 DEF CardsOf, n
  <2>6. QED
    BY <2>4, <2>5
<1>6. QED
  BY <1>2, <1>5 DEF less

------------------------------------------------------------------------------
(* The invariant of the discovery. *)

DiscoveryTypes ==
    /\ machine \in Machines
    /\ pc \in {"adapters", "pools", "adl_init", "adl_count", "adl_adapter", "adlx_init",
               "adlx_list", "adlx_card", "nvapi_init", "nvapi_list", "nvapi_card", "poll",
               "ended"}
    /\ todo \subseteq Vendors
    /\ next \in Nat \ {0}
    /\ seen \subseteq Nat /\ reported \subseteq Nat /\ lost \subseteq Nat
    /\ devices \in Seq(Device)
    /\ held \subseteq {"adl_module", "adl_context", "adlx_helper", "adlx_monitoring", "nvapi"}

AmdPlaces == {"adl_init", "adl_count", "adl_adapter", "adlx_init", "adlx_list", "adlx_card"}
NvidiaPlaces == {"nvapi_init", "nvapi_list", "nvapi_card"}

\* The pool of a vendor is made once, and before it reaches its cards it has no
\* devices.
Ahead(vendor) == pc = "adapters" \/ vendor \in todo

PoolsOnce ==
    /\ pc \in AmdPlaces => "AMD" \notin todo
    /\ pc \in NvidiaPlaces => "NVIDIA" \notin todo
    /\ Ahead("AMD") \/ pc \in {"adl_init", "adl_count"} => CardsOf(devices, "ADL") = {}
    /\ Ahead("AMD") \/ pc \in {"adl_init", "adl_count", "adl_adapter"} => lost = {}
    /\ Ahead("AMD") \/ pc \in AmdPlaces \ {"adlx_card"} => CardsOf(devices, "ADLX") = {}
    /\ Ahead("NVIDIA") \/ pc \in NvidiaPlaces \ {"nvapi_card"} => CardsOf(devices, "NVAPI") = {}

\* Of each list, the devices are for what the loop has passed.
CardsPassed ==
    /\ Distinct(devices)
    /\ reported = CardsOf(devices, "ADL") \cup lost
    /\ CardsOf(devices, "ADL") \cap lost = {}
    /\ \A b, c \in lost : b = c
    /\ pc = "adl_adapter" => CardsOf(devices, "ADL") = seen
    /\ pc = "adlx_card" =>
         CardsOf(devices, "ADLX") \subseteq {machine.adlx[k] : k \in 1 .. next - 1}
    /\ pc = "nvapi_card" =>
         CardsOf(devices, "NVAPI") \subseteq {machine.nvidia[k] : k \in 1 .. next - 1}

\* What is held of the SDKs wherever the thread is.
SdksHeld ==
    /\ CardsOf(devices, "ADL") # {} => "adl_context" \in held
    /\ CardsOf(devices, "ADLX") # {} => "adlx_monitoring" \in held
    /\ CardsOf(devices, "NVAPI") # {} => "nvapi" \in held
    /\ "adlx_monitoring" \in held => "adlx_helper" \in held
    /\ "adl_context" \in held /\ "adlx_helper" \in held =>
         lost # {} /\ CardsOf(devices, "ADL") # {}
    /\ Ahead("AMD") \/ pc = "adl_init" => "adl_context" \notin held /\ "adlx_helper" \notin held
    /\ pc \in {"adl_count", "adl_adapter"} => "adl_context" \in held /\ "adlx_helper" \notin held
    /\ pc \in {"adlx_init", "adlx_list", "adlx_card"} /\ "adl_context" \in held =>
         lost # {} /\ CardsOf(devices, "ADL") # {}
    /\ pc \in {"adlx_list", "adlx_card"} => "adlx_monitoring" \in held
    /\ pc \in {"nvapi_list", "nvapi_card"} => "nvapi" \in held

DiscoveryInv ==
    /\ DiscoveryTypes
    /\ PoolsOnce
    /\ CardsPassed
    /\ SdksHeld

LEMMA DiscoveryInitInv == Init => DiscoveryInv
<1> SUFFICES ASSUME Init
             PROVE  DiscoveryInv
  OBVIOUS
<1>1. DiscoveryTypes
  BY DEF Init, DiscoveryTypes
<1>2. \A b : CardsOf(devices, b) = {}
  BY CardsOfNone DEF Init
<1>3. PoolsOnce /\ SdksHeld
  BY <1>2 DEF Init, PoolsOnce, SdksHeld, AmdPlaces, NvidiaPlaces
<1>4. CardsPassed
  BY <1>2 DEF Init, CardsPassed, Distinct
<1>5. QED
  BY <1>1, <1>3, <1>4 DEF DiscoveryInv

LEMMA AdaptersStep == DiscoveryInv /\ EnumerateAdapters => DiscoveryInv'
<1> SUFFICES ASSUME DiscoveryInv, EnumerateAdapters
             PROVE  DiscoveryInv'
  OBVIOUS
<1>1. /\ pc = "adapters" /\ pc' = "pools"
      /\ todo' = {machine.dxgi[i].vendor :
                    i \in {j \in 1 .. Len(machine.dxgi) : ~machine.dxgi[j].software}}
      /\ UNCHANGED <<machine, next, seen, devices, held, reported, lost>>
  BY DEF EnumerateAdapters, At
<1>2. \A i \in 1 .. Len(machine.dxgi) : machine.dxgi[i].vendor \in Vendors
  <2>1. machine.dxgi \in Seq([vendor : Vendors, software : BOOLEAN])
    BY MachinesAssumption DEF MachinesAssumption, DiscoveryInv, DiscoveryTypes
  <2>2. \A i \in 1 .. Len(machine.dxgi) :
          machine.dxgi[i] \in [vendor : Vendors, software : BOOLEAN]
    BY <2>1, ElementOf
  <2>3. QED
    BY <2>2
<1>3. DiscoveryTypes'
  BY <1>1, <1>2 DEF DiscoveryInv, DiscoveryTypes
<1>4. PoolsOnce' /\ SdksHeld'
  BY <1>1 DEF DiscoveryInv, PoolsOnce, SdksHeld, Ahead, AmdPlaces, NvidiaPlaces
<1>5. CardsPassed'
  BY <1>1 DEF DiscoveryInv, CardsPassed
<1>6. QED
  BY <1>3, <1>4, <1>5 DEF DiscoveryInv

\* createGPUDevices comes to a vendor it has not seen.
LEMMA NextVendorTodo ==
    ASSUME todo \subseteq Vendors, todo # {}
    PROVE  NextVendor \in todo
<1> DEFINE First(i) == /\ VendorOrder[i] \in todo
                       /\ \A j \in 1 .. i - 1 : VendorOrder[j] \notin todo
<1>1. \E i \in 1 .. 4 : First(i)
  <2>1. /\ VendorOrder[1] = "NVIDIA" /\ VendorOrder[2] = "AMD"
        /\ VendorOrder[3] = "INTEL" /\ VendorOrder[4] = "UNKNOWN"
    BY DEF VendorOrder
  <2>2. "NVIDIA" \in todo => First(1)
    BY <2>1
  <2>3. "NVIDIA" \notin todo /\ "AMD" \in todo => First(2)
    <3>1. \A j \in 1 .. 2 - 1 : j = 1
      OBVIOUS
    <3>2. QED
      BY <2>1, <3>1
  <2>4. "NVIDIA" \notin todo /\ "AMD" \notin todo /\ "INTEL" \in todo => First(3)
    <3>1. \A j \in 1 .. 3 - 1 : j = 1 \/ j = 2
      OBVIOUS
    <3>2. QED
      BY <2>1, <3>1
  <2>5. "NVIDIA" \notin todo /\ "AMD" \notin todo /\ "INTEL" \notin todo => First(4)
    <3>1. \A j \in 1 .. 4 - 1 : j = 1 \/ j = 2 \/ j = 3
      OBVIOUS
    <3>2. "NVIDIA" \notin todo /\ "AMD" \notin todo /\ "INTEL" \notin todo => "UNKNOWN" \in todo
      BY DEF Vendors
    <3>3. QED
      BY <2>1, <3>1, <3>2
  <2> HIDE DEF First
  <2>6. QED
    BY <2>2, <2>3, <2>4, <2>5
<1>2. QED
  BY <1>1 DEF NextVendor

LEMMA PoolStep == DiscoveryInv /\ (CreatePool \/ PoolsCreated) => DiscoveryInv'
<1> SUFFICES ASSUME DiscoveryInv, CreatePool \/ PoolsCreated
             PROVE  DiscoveryInv'
  OBVIOUS
<1>1. CASE CreatePool
  <2> DEFINE v == NextVendor
  <2>1. v \in todo /\ v \in Vendors
    BY <1>1, NextVendorTodo DEF CreatePool, DiscoveryInv, DiscoveryTypes
  <2>2. /\ pc = "pools" /\ todo' = todo \ {v}
        /\ pc' = IF v = "AMD" THEN "adl_init" ELSE IF v = "NVIDIA" THEN "nvapi_init" ELSE "pools"
        /\ UNCHANGED <<machine, next, seen, devices, held, reported, lost>>
    BY <1>1 DEF CreatePool, At
  <2> HIDE DEF v
  <2>3. DiscoveryTypes'
    BY <2>2 DEF DiscoveryInv, DiscoveryTypes
  <2>4. PoolsOnce' /\ SdksHeld'
    BY <2>1, <2>2 DEF DiscoveryInv, PoolsOnce, SdksHeld, Ahead, AmdPlaces, NvidiaPlaces
  <2>5. CardsPassed'
    BY <2>2 DEF DiscoveryInv, CardsPassed
  <2>6. QED
    BY <2>3, <2>4, <2>5 DEF DiscoveryInv
<1>2. CASE PoolsCreated
  BY <1>2 DEF PoolsCreated, At, DiscoveryInv, DiscoveryTypes, PoolsOnce, SdksHeld, CardsPassed,
     Ahead, AmdPlaces, NvidiaPlaces
<1>3. QED
  BY <1>1, <1>2

\* The thread is at the same place, or the process has ended, and at most a
\* poll has counted on.
LEMMA DiscoveryKept ==
    ASSUME DiscoveryInv, UNCHANGED <<machine, todo, seen, devices, held, reported, lost>>,
           \/ UNCHANGED next /\ pc' \in {pc, "ended", "pools"}
           \/ pc = "poll" /\ pc' = "poll" /\ next' \in Nat \ {0},
           pc = "adapters" => pc' = "ended" \/ pc' = pc
    PROVE  DiscoveryInv'
<1>1. DiscoveryTypes'
  BY DEF DiscoveryInv, DiscoveryTypes
<1>2. PoolsOnce' /\ SdksHeld'
  BY DEF DiscoveryInv, PoolsOnce, SdksHeld, Ahead, AmdPlaces, NvidiaPlaces
<1>3. CardsPassed'
  BY DEF DiscoveryInv, CardsPassed
<1>4. QED
  BY <1>1, <1>2, <1>3 DEF DiscoveryInv

\* The steps of ADL that find no device.
LEMMA AdlStep ==
    DiscoveryInv /\ (AdlInitFails \/ AdlInit \/ AdlCount \/ AdlCountThrows \/ AdlInactive)
      => DiscoveryInv'
<1> SUFFICES ASSUME DiscoveryInv,
                    AdlInitFails \/ AdlInit \/ AdlCount \/ AdlCountThrows \/ AdlInactive
             PROVE  DiscoveryInv'
  OBVIOUS
<1> DEFINE None == \A i \in 1 .. Len(devices) : devices[i].backend # "ADL"
           Caught(now) ==
             /\ pc' = "adlx_init"
             /\ held' = IF "adl_context" \in now /\ None
                        THEN now \ {"adl_module", "adl_context"} ELSE now
<1>a. /\ AdlInitFails =>
           /\ pc = "adl_init"
           /\ Caught(held) \/ Caught(held \cup {"adl_module"})
           /\ UNCHANGED <<machine, todo, next, seen, devices, reported, lost>>
      /\ AdlCountThrows =>
           /\ pc = "adl_count" /\ Caught(held)
           /\ UNCHANGED <<machine, todo, next, seen, devices, reported, lost>>
  BY DEF AdlInitFails, AdlCountThrows, AdlThrows, At
<1>b. None <=> CardsOf(devices, "ADL") = {}
  BY NoneOf
<1> HIDE DEF None
<1> USE <1>a, <1>b DEF AdlInit, AdlCount, AdlInactive, At
<1>1. DiscoveryTypes'
  <2>1. held' \subseteq {"adl_module", "adl_context", "adlx_helper", "adlx_monitoring", "nvapi"}
    BY DEF DiscoveryInv, DiscoveryTypes
  <2>2. next' \in Nat \ {0}
    BY DEF DiscoveryInv, DiscoveryTypes
  <2>3. seen' \subseteq Nat /\ machine' = machine /\ todo' = todo /\ devices' = devices
        /\ reported' = reported /\ lost' = lost
    BY DEF DiscoveryInv, DiscoveryTypes
  <2>4. pc' \in {"adapters", "pools", "adl_init", "adl_count", "adl_adapter", "adlx_init",
                "adlx_list", "adlx_card", "nvapi_init", "nvapi_list", "nvapi_card", "poll",
                "ended"}
    BY DEF DiscoveryInv, DiscoveryTypes
  <2>5. QED
    BY <2>1, <2>2, <2>3, <2>4 DEF DiscoveryInv, DiscoveryTypes
<1>2. PoolsOnce'
  <2>1. CASE AdlInitFails \/ AdlCountThrows
    <3>1. pc \in {"adl_init", "adl_count"} /\ pc' = "adlx_init" /\ UNCHANGED <<todo, devices, lost>>
      BY <2>1
    <3> USE DEF DiscoveryInv, PoolsOnce, Ahead, AmdPlaces, NvidiaPlaces
    <3>2. QED
      BY ONLY DiscoveryInv, <3>1
  <2>2. CASE AdlInit \/ AdlCount \/ AdlInactive
    BY <2>2 DEF DiscoveryInv, PoolsOnce, Ahead, AmdPlaces, NvidiaPlaces
  <2>3. QED
    BY <2>1, <2>2
<1>3. SdksHeld'
  <2>1. CASE AdlInitFails \/ AdlCountThrows
    <3>1. /\ pc \in {"adl_init", "adl_count"} /\ pc' = "adlx_init"
          /\ UNCHANGED <<todo, devices, lost>>
          /\ CardsOf(devices, "ADL") = {} /\ CardsOf(devices, "ADLX") = {}
      BY <2>1 DEF DiscoveryInv, PoolsOnce, AmdPlaces
    <3>2. /\ "adl_context" \notin held'
          /\ held' \ {"adl_module", "adl_context"} = held \ {"adl_module", "adl_context"}
      BY <2>1, <3>1 DEF DiscoveryInv, SdksHeld
    <3> USE DEF DiscoveryInv, PoolsOnce, SdksHeld, Ahead, AmdPlaces
    <3>3. QED
      BY ONLY DiscoveryInv, <3>1, <3>2
  <2>2. CASE AdlInit \/ AdlCount \/ AdlInactive
    BY <2>2 DEF DiscoveryInv, PoolsOnce, SdksHeld, Ahead, AmdPlaces
  <2>3. QED
    BY <2>1, <2>2
<1>4. CardsPassed'
  BY DEF DiscoveryInv, CardsPassed, PoolsOnce, AmdPlaces
<1>5. QED
  BY <1>1, <1>2, <1>3, <1>4 DEF DiscoveryInv

\* The steps of ADLX and NVAPI that find no device.
LEMMA ListStep ==
    DiscoveryInv /\ (AdlxInit \/ AdlxInitFails \/ ListCards \/ SkipCard \/ NvapiInit)
      => DiscoveryInv'
<1> SUFFICES ASSUME DiscoveryInv,
                    AdlxInit \/ AdlxInitFails \/ ListCards \/ SkipCard \/ NvapiInit
             PROVE  DiscoveryInv'
  OBVIOUS
<1> USE DEF AdlxInit, AdlxInitFails, ListCards, SkipCard, NvapiInit, At
<1>1. DiscoveryTypes'
  <2>1. held' \subseteq {"adl_module", "adl_context", "adlx_helper", "adlx_monitoring", "nvapi"}
    BY DEF DiscoveryInv, DiscoveryTypes
  <2>2. next' \in Nat \ {0}
    BY DEF DiscoveryInv, DiscoveryTypes
  <2>3. seen' \subseteq Nat /\ machine' = machine /\ todo' = todo /\ devices' = devices
        /\ reported' = reported /\ lost' = lost
    BY DEF DiscoveryInv, DiscoveryTypes
  <2>4. pc' \in {"adapters", "pools", "adl_init", "adl_count", "adl_adapter", "adlx_init",
                "adlx_list", "adlx_card", "nvapi_init", "nvapi_list", "nvapi_card", "poll",
                "ended"}
    BY DEF DiscoveryInv, DiscoveryTypes
  <2>5. QED
    BY <2>1, <2>2, <2>3, <2>4 DEF DiscoveryInv, DiscoveryTypes
<1>2. PoolsOnce'
  BY DEF DiscoveryInv, PoolsOnce, Ahead, AmdPlaces, NvidiaPlaces
<1>3. SdksHeld'
  BY DEF DiscoveryInv, PoolsOnce, SdksHeld, Ahead, AmdPlaces, NvidiaPlaces
<1>4. CardsPassed'
  <2>1. CASE AdlxInit \/ AdlxInitFails \/ NvapiInit
    BY <2>1 DEF DiscoveryInv, CardsPassed
  <2>2. CASE ListCards
    BY <2>2 DEF DiscoveryInv, CardsPassed, PoolsOnce, AmdPlaces, NvidiaPlaces
  <2>3. CASE SkipCard
    <3>1. 1 .. next - 1 \subseteq 1 .. next' - 1
      BY <2>3 DEF DiscoveryInv, DiscoveryTypes
    <3>2. QED
      BY <2>3, <3>1 DEF DiscoveryInv, CardsPassed
  <2>4. QED
    BY <2>1, <2>2, <2>3
<1>5. QED
  BY <1>1, <1>2, <1>3, <1>4 DEF DiscoveryInv

\* Failing calls that leave everything as it is.
LEMMA LeaveStep ==
    DiscoveryInv /\ (FactoryFails \/ AdlCallsNull \/ NvapiInitFails \/ AdlCountFails \/ PoolsDone
                      \/ NobodyCatches)
      => DiscoveryInv'
  BY DiscoveryKept DEF FactoryFails, AdlCallsNull, NvapiInitFails, AdlCountFails, PoolsDone,
     NobodyCatches, PoolDone, Crash, At, discovery

\* An adapter that ADL calls active.
LEMMA ActiveStep == DiscoveryInv /\ AdlActive => DiscoveryInv'
<1> SUFFICES ASSUME DiscoveryInv, AdlActive
             PROVE  DiscoveryInv'
  OBVIOUS
<1> DEFINE bus == Adapter.bus
           dev == [backend |-> "ADL", card |-> bus]
<1>1. /\ pc = "adl_adapter" /\ next \in 1 .. Len(machine.adapters) /\ next' = next + 1
      /\ reported' = reported \cup {bus} /\ seen' = seen \cup {bus}
      /\ devices' = IF bus \in seen THEN devices ELSE Append(devices, dev)
      /\ UNCHANGED <<machine, pc, todo, held, lost>>
  BY DEF AdlActive, At, AddDevice, DiscoveryInv, DiscoveryTypes
<1>2. bus \in Nat
  <2>1. machine.adapters \in Seq([bus : Nat, active : BOOLEAN])
    BY MachinesAssumption DEF MachinesAssumption, DiscoveryInv, DiscoveryTypes
  <2>2. Adapter \in [bus : Nat, active : BOOLEAN]
    BY <1>1, <2>1, ElementOf DEF Adapter
  <2>3. QED
    BY <2>2
<1> HIDE DEF bus
<1>3. dev \in Device
  BY <1>2 DEF Device
<1>4. devices \in Seq(Device) /\ CardsOf(devices, "ADL") = seen
  BY <1>1 DEF DiscoveryInv, DiscoveryTypes, CardsPassed
<1>5. /\ devices' \in Seq(Device)
      /\ Distinct(devices')
      /\ CardsOf(devices', "ADL") = seen \cup {bus}
      /\ \A b : b # "ADL" => CardsOf(devices', b) = CardsOf(devices, b)
  <2>1. CASE bus \in seen
    BY <1>1, <1>4, <2>1 DEF DiscoveryInv, CardsPassed
  <2>2. CASE bus \notin seen
    <3>1. Append(devices, dev) \in Seq(Device)
      BY <1>3, <1>4, AppendedOne
    <3>2. Distinct(Append(devices, dev))
      BY <1>3, <1>4, <2>2, DistinctAppend DEF DiscoveryInv, CardsPassed
    <3>3. CardsOf(Append(devices, dev), "ADL") = seen \cup {bus}
      BY <1>3, <1>4, CardsAppend
    <3>4. \A b : b # "ADL" => CardsOf(Append(devices, dev), b) = CardsOf(devices, b)
      BY <1>3, <1>4, CardsAppend
    <3>5. QED
      BY <1>1, <2>2, <3>1, <3>2, <3>3, <3>4
  <2>3. QED
    BY <2>1, <2>2
<1> HIDE DEF dev
<1>6. DiscoveryTypes'
  BY <1>1, <1>2, <1>5 DEF DiscoveryInv, DiscoveryTypes
<1>7. PoolsOnce'
  BY <1>1, <1>5 DEF DiscoveryInv, PoolsOnce, Ahead, AmdPlaces, NvidiaPlaces
<1>8. CardsPassed'
  <2>1. lost = {}
    BY <1>1 DEF DiscoveryInv, PoolsOnce
  <2>2. QED
    BY <1>1, <1>4, <1>5, <2>1 DEF DiscoveryInv, CardsPassed
<1>9. SdksHeld'
  BY <1>1, <1>5 DEF DiscoveryInv, SdksHeld, Ahead
<1>10. QED
  BY <1>6, <1>7, <1>8, <1>9 DEF DiscoveryInv

\* A card of ADLX's or NVAPI's list.
LEMMA CardStep == DiscoveryInv /\ AddCard => DiscoveryInv'
<1> SUFFICES ASSUME DiscoveryInv, AddCard
             PROVE  DiscoveryInv'
  OBVIOUS
<1>1. PICK backend \in {"ADLX", "NVAPI"}, list \in Seq(Nat) :
        /\ backend = "ADLX" => pc = "adlx_card" /\ list = machine.adlx
        /\ backend = "NVAPI" => pc = "nvapi_card" /\ list = machine.nvidia
        /\ next \in 1 .. Len(list)
        /\ devices' = Append(devices, [backend |-> backend, card |-> list[next]])
  <2>1. machine.adlx \in Seq(Nat) /\ machine.nvidia \in Seq(Nat)
    BY MachinesAssumption DEF MachinesAssumption, DiscoveryInv, DiscoveryTypes
  <2>2. next \in Nat \ {0}
    BY DEF DiscoveryInv, DiscoveryTypes
  <2>3. CASE pc = "adlx_card" /\ next <= Len(machine.adlx) /\ AddDevice("ADLX", machine.adlx[next])
    <3>1. next \in 1 .. Len(machine.adlx)
      BY <2>1, <2>2, <2>3
    <3> USE <2>1
    <3> WITNESS "ADLX" \in {"ADLX", "NVAPI"}, machine.adlx \in Seq(Nat)
    <3>2. QED
      BY <2>3, <3>1 DEF AddDevice
  <2>4. CASE pc = "nvapi_card" /\ next <= Len(machine.nvidia) /\ AddDevice("NVAPI", machine.nvidia[next])
    <3>1. next \in 1 .. Len(machine.nvidia)
      BY <2>1, <2>2, <2>4
    <3> USE <2>1
    <3> WITNESS "NVAPI" \in {"ADLX", "NVAPI"}, machine.nvidia \in Seq(Nat)
    <3>2. QED
      BY <2>4, <3>1 DEF AddDevice
  <2>5. QED
    BY <2>3, <2>4 DEF AddCard, At
<1>2. next' = next + 1 /\ UNCHANGED <<machine, pc, todo, seen, held, reported, lost>>
  BY DEF AddCard
<1>3. \A k, l \in 1 .. Len(list) : list[k] = list[l] => k = l
  BY <1>1, MachinesAssumption DEF MachinesAssumption, DiscoveryInv, DiscoveryTypes
<1> DEFINE card == list[next]
           dev == [backend |-> backend, card |-> card]
<1>4. card \in Nat
  BY <1>1, ElementOf
<1>5. dev \in Device
  BY <1>4 DEF Device
<1>6. devices \in Seq(Device) /\ Distinct(devices) /\ next \in Nat \ {0}
  BY DEF DiscoveryInv, DiscoveryTypes, CardsPassed
<1>7. CardsOf(devices, backend) \subseteq {list[k] : k \in 1 .. next - 1}
  BY <1>1 DEF DiscoveryInv, CardsPassed
<1>8. card \notin CardsOf(devices, backend)
  <2>1. next \in Nat \ {0} /\ next \in 1 .. Len(list) /\ Len(list) \in Nat
    BY <1>1, <1>6
  <2>2. \A k \in 1 .. next - 1 : k \in 1 .. Len(list) /\ k # next
    BY <2>1
  <2>3. \A k \in 1 .. next - 1 : list[k] # list[next]
    BY <1>3, <2>1, <2>2
  <2>4. QED
    BY <1>7, <2>3
<1> HIDE DEF card
<1>9. devices' = Append(devices, dev)
  BY <1>1 DEF card
<1>10. devices' \in Seq(Device)
  BY <1>5, <1>6, <1>9, AppendedOne
<1>11. Distinct(devices')
  BY <1>5, <1>6, <1>8, <1>9, DistinctAppend
<1>12. CardsOf(devices', backend) = CardsOf(devices, backend) \cup {card}
  BY <1>5, <1>6, <1>9, CardsAppend
<1>13. \A b : b # backend => CardsOf(devices', b) = CardsOf(devices, b)
  BY <1>5, <1>6, <1>9, CardsAppend
<1>14. CardsOf(devices', backend) \subseteq {list[k] : k \in 1 .. next' - 1}
  <2>1. /\ next \in 1 .. next' - 1
        /\ 1 .. next - 1 \subseteq 1 .. next' - 1
    BY <1>2, <1>6
  <2>2. QED
    BY <1>7, <1>12, <2>1 DEF card
<1> HIDE DEF dev
<1>15. DiscoveryTypes'
  BY <1>2, <1>6, <1>10 DEF DiscoveryInv, DiscoveryTypes
<1>16. PoolsOnce'
  BY <1>1, <1>2, <1>12, <1>13 DEF DiscoveryInv, PoolsOnce, Ahead, AmdPlaces, NvidiaPlaces
<1>17. CardsPassed'
  <2>1. /\ CardsOf(devices', "ADL") = CardsOf(devices, "ADL")
        /\ UNCHANGED <<pc, reported, lost>> /\ pc # "adl_adapter"
    BY <1>1, <1>2, <1>13
  <2>2. CASE backend = "ADLX"
    BY <1>1, <1>2, <1>11, <1>14, <2>1, <2>2 DEF DiscoveryInv, CardsPassed
  <2>3. CASE backend = "NVAPI"
    BY <1>1, <1>2, <1>11, <1>14, <2>1, <2>3 DEF DiscoveryInv, CardsPassed
  <2>4. QED
    BY <2>2, <2>3
<1>18. SdksHeld'
  BY <1>1, <1>2, <1>12, <1>13 DEF DiscoveryInv, SdksHeld, Ahead
<1>19. QED
  BY <1>15, <1>16, <1>17, <1>18 DEF DiscoveryInv

------------------------------------------------------------------------------
(* The invariant of a fetch. *)

FetchTypes ==
    /\ value \in Seq([Sensors -> Nat]) /\ Len(value) = Len(devices)
    /\ fetch \in [dev : 0 .. Len(devices), stage : Stages, level : Nat]
    /\ fetch.dev = 0 <=> fetch.stage = "none"
    /\ fetch.stage = "none" => fetch = NoFetch
    /\ answered \subseteq (Nat \X Sensors)

\* What is held of a card's log is known from the place in the fetch.
LogHeld ==
    pmlog = CASE fetch.stage \in {"created", "stopped"} -> {"device"}
              [] fetch.stage \in {"started", "read"}    -> {"device", "memory"}
              [] OTHER                                -> {}

\* The levels come in rising order.
LevelsRise ==
    /\ fetch.stage = "begin" => answered = {}
    /\ fetch.stage = "waterfall" =>
         fetch.level \in 5 .. 7 /\ \A a \in answered : a[1] < fetch.level
    /\ fetch.stage \in {"log", "created", "started"} => \A a \in answered : a[1] < 8

FetchInv ==
    /\ FetchTypes
    /\ LogHeld
    /\ LevelsRise
    /\ HighestLevelWins

\* What an exception leaves is known: the device being made is the last, and
\* the log of a device it took is one of the lost card.
LossInv ==
    /\ Fetching /\ pc \in {"adl_adapter", "adlx_card"} => fetch.dev = Len(devices)
    /\ left \subseteq [card : Nat, cause : {"call", "exception"}]
    /\ \A log \in left : log.cause = "exception" => log.card \in lost

LEMMA FetchInitInv == Init => FetchInv
  BY DEF Init, FetchInv, FetchTypes, LogHeld, LevelsRise, HighestLevelWins, Fetching, NoFetch,
     Stages

LEMMA LenDevices == DiscoveryInv => Len(devices) \in Nat /\ devices \in Seq(Device)
  BY DEF DiscoveryInv, DiscoveryTypes

\* An exception has taken the device being made.
LEMMA DropStep ==
    ASSUME DiscoveryInv, FetchInv, LossInv, Fetching, pc \in {"adl_adapter", "adlx_card"},
           DropDevice
    PROVE  LET last == devices[fetch.dev] IN
           /\ devices' \in Seq(Device) /\ Distinct(devices') /\ last \in Device
           /\ last.card \in CardsOf(devices, last.backend)
           /\ \A b : CardsOf(devices', b) = IF last.backend = b
                                           THEN CardsOf(devices, b) \ {last.card}
                                           ELSE CardsOf(devices, b)
           /\ FetchInv'
<1> DEFINE n == Len(devices)
           last == devices[fetch.dev]
<1>1. devices \in Seq(Device) /\ Distinct(devices)
  BY DEF DiscoveryInv, DiscoveryTypes, CardsPassed
<1>2. fetch.dev = n /\ n \in Nat \ {0} /\ Len(value) = n /\ value \in Seq([Sensors -> Nat])
  BY <1>1 DEF LossInv, FetchInv, FetchTypes, Fetching
<1>3. devices # <<>> /\ value # <<>>
  BY <1>2
<1>4. last \in Device /\ last.card \in CardsOf(devices, last.backend)
  <2>1. last \in Device
    BY <1>1, <1>2, ElementOf
  <2>2. QED
    BY <1>2, <2>1 DEF CardsOf
<1>5. /\ devices' \in Seq(Device) /\ Distinct(devices') /\ Len(devices') = n - 1
      /\ \A b : CardsOf(devices', b) = IF last.backend = b
                                      THEN CardsOf(devices, b) \ {last.card}
                                      ELSE CardsOf(devices, b)
  BY <1>1, <1>2, <1>3, UnmadeOne, CardsUnmade DEF DropDevice
<1>6. value' \in Seq([Sensors -> Nat]) /\ Len(value') = n - 1
  BY <1>2, <1>3, UnmadeOne DEF DropDevice
<1>7. /\ fetch' = [dev |-> 0, stage |-> "none", level |-> 0] /\ answered' = {} /\ pmlog' = {}
  BY DEF DropDevice, NoFetch
<1>8. FetchTypes'
  BY <1>2, <1>5, <1>6, <1>7 DEF FetchTypes, Stages, NoFetch
<1>9. LogHeld' /\ LevelsRise' /\ HighestLevelWins'
  BY <1>7 DEF LogHeld, LevelsRise, HighestLevelWins
<1>10. QED
  BY <1>4, <1>5, <1>8, <1>9 DEF FetchInv

\* An exception ends a loop of AMDPool.
LEMMA ThrowStep ==
    DiscoveryInv /\ FetchInv /\ LossInv /\ (AdlMakeThrows \/ AdlFetchThrows \/ AdlxThrows)
      => DiscoveryInv'
<1> SUFFICES ASSUME DiscoveryInv, FetchInv, LossInv,
                    AdlMakeThrows \/ AdlFetchThrows \/ AdlxThrows
             PROVE  DiscoveryInv'
  OBVIOUS
<1>1. CASE AdlMakeThrows \/ AdlFetchThrows
  <2>1. PICK card \in Nat :
          /\ pc = "adl_adapter" /\ pc' = "adlx_init"
          /\ devices' \in Seq(Device) /\ Distinct(devices')
          /\ CardsOf(devices', "ADL") = CardsOf(devices, "ADL") \ {card}
          /\ \A b : b # "ADL" => CardsOf(devices', b) = CardsOf(devices, b)
          /\ held' = IF "adl_context" \in held /\ CardsOf(devices', "ADL") = {}
                     THEN held \ {"adl_module", "adl_context"} ELSE held
          /\ lost' = {card} /\ reported' = reported \cup {card}
          /\ UNCHANGED <<machine, todo, next, seen>>
    <3>1. CASE AdlMakeThrows
      <4>1. next \in 1 .. Len(machine.adapters)
        BY <3>1 DEF AdlMakeThrows, DiscoveryInv, DiscoveryTypes
      <4>2. machine.adapters \in Seq([bus : Nat, active : BOOLEAN])
        BY MachinesAssumption DEF MachinesAssumption, DiscoveryInv, DiscoveryTypes
      <4>3. Adapter \in [bus : Nat, active : BOOLEAN]
        BY <4>1, <4>2, ElementOf DEF Adapter
      <4>4. Adapter.bus \in Nat
        BY <4>3
      <4>5. Adapter.bus \notin CardsOf(devices, "ADL")
        BY <3>1 DEF AdlMakeThrows, At, DiscoveryInv, CardsPassed
      <4>6. devices \in Seq(Device) /\ Distinct(devices)
        BY DEF DiscoveryInv, DiscoveryTypes, CardsPassed
      <4>7. /\ pc = "adl_adapter" /\ pc' = "adlx_init" /\ devices' = devices
            /\ held' = IF /\ "adl_context" \in held
                          /\ \A i \in 1 .. Len(devices) : devices[i].backend # "ADL"
                       THEN held \ {"adl_module", "adl_context"} ELSE held
            /\ lost' = {Adapter.bus} /\ reported' = reported \cup {Adapter.bus}
            /\ UNCHANGED <<machine, todo, next, seen>>
        BY <3>1 DEF AdlMakeThrows, AdlThrows, At
      <4>8. held' = IF "adl_context" \in held /\ CardsOf(devices', "ADL") = {}
                    THEN held \ {"adl_module", "adl_context"} ELSE held
        BY <4>7, NoneOf
      <4> WITNESS Adapter.bus \in Nat
      <4>9. QED
        BY <4>5, <4>6, <4>7, <4>8
    <3>2. CASE AdlFetchThrows
      <4> DEFINE card == devices[fetch.dev].card
      <4>1. /\ pc = "adl_adapter" /\ pc' = "adlx_init" /\ Fetching
            /\ devices[fetch.dev].backend = "ADL" /\ DropDevice
            /\ lost' = {card} /\ UNCHANGED <<machine, todo, next, seen, reported>>
            /\ held' = IF /\ "adl_context" \in held
                          /\ \A i \in 1 .. Len(Unmade(devices)) :
                               Unmade(devices)[i].backend # "ADL"
                       THEN held \ {"adl_module", "adl_context"} ELSE held
        BY <3>2 DEF AdlFetchThrows, AdlThrows, InFetch
      <4>2. /\ devices' \in Seq(Device) /\ Distinct(devices') /\ devices[fetch.dev] \in Device
            /\ card \in CardsOf(devices, "ADL")
            /\ CardsOf(devices', "ADL") = CardsOf(devices, "ADL") \ {card}
            /\ \A b : b # "ADL" => CardsOf(devices', b) = CardsOf(devices, b)
        BY <4>1, DropStep
      <4>3. card \in Nat
        BY <4>2 DEF Device
      <4>4. held' = IF "adl_context" \in held /\ CardsOf(devices', "ADL") = {}
                    THEN held \ {"adl_module", "adl_context"} ELSE held
        <5>1. devices' = Unmade(devices)
          BY <4>1 DEF DropDevice
        <5>2. QED
          BY <4>1, <5>1, NoneOf
      <4>5. reported' = reported \cup {card}
        BY <4>1, <4>2 DEF DiscoveryInv, CardsPassed
      <4> WITNESS card \in Nat
      <4> HIDE DEF card
      <4>6. QED
        BY <4>1, <4>2, <4>4, <4>5
    <3>3. QED
      BY <1>1, <3>1, <3>2
  <2>2. DiscoveryTypes'
    BY <2>1 DEF DiscoveryInv, DiscoveryTypes
  <2>3. lost = {} /\ CardsOf(devices, "ADLX") = {}
    BY <2>1 DEF DiscoveryInv, PoolsOnce, AmdPlaces
  <2>4. PoolsOnce'
    BY <2>1, <2>3 DEF DiscoveryInv, PoolsOnce, Ahead, AmdPlaces, NvidiaPlaces
  <2>5. CardsPassed'
    <3>1. reported' = CardsOf(devices', "ADL") \cup lost' /\ CardsOf(devices', "ADL") \cap lost' = {}
      BY <2>1, <2>3 DEF DiscoveryInv, CardsPassed
    <3>2. QED
      BY <2>1, <3>1 DEF CardsPassed
  <2>6. SdksHeld'
    <3>1. /\ CardsOf(devices', "ADLX") = {} /\ CardsOf(devices', "NVAPI") = CardsOf(devices, "NVAPI")
          /\ lost' # {} /\ "AMD" \notin todo' /\ pc # "adapters" /\ pc' = "adlx_init"
          /\ "adl_context" \in held /\ "adlx_helper" \notin held
      BY <2>1, <2>3 DEF DiscoveryInv, PoolsOnce, SdksHeld, AmdPlaces
    <3>2. /\ "adl_context" \in held' <=> CardsOf(devices', "ADL") # {}
          /\ held' \ {"adl_module", "adl_context"} = held \ {"adl_module", "adl_context"}
      BY <2>1, <3>1
    <3>3. QED
      BY <3>1, <3>2 DEF DiscoveryInv, SdksHeld, Ahead
  <2>7. QED
    BY <2>2, <2>4, <2>5, <2>6 DEF DiscoveryInv
<1>2. CASE AdlxThrows
  <2>1. /\ pc = "adlx_card" /\ pc' = "pools"
        /\ UNCHANGED <<machine, todo, next, seen, reported, lost>>
    BY <1>2 DEF AdlxThrows
  <2>2. /\ devices' \in Seq(Device) /\ Distinct(devices')
        /\ \A b : b # "ADLX" => CardsOf(devices', b) = CardsOf(devices, b)
    <3>1. CASE devices' = devices
      BY <3>1 DEF DiscoveryInv, DiscoveryTypes, CardsPassed
    <3>2. CASE devices' # devices
      <4>1. Fetching /\ DropDevice /\ devices[fetch.dev].backend = "ADLX"
        BY <1>2, <3>2 DEF AdlxThrows, InFetch
      <4>2. QED
        BY <2>1, <4>1, DropStep
    <3>3. QED
      BY <3>1, <3>2
  <2>3. held' = IF CardsOf(devices', "ADLX") # {}
                THEN held ELSE held \ {"adlx_helper", "adlx_monitoring"}
    <3>1. (\A i \in 1 .. Len(devices') : devices'[i].backend # "ADLX")
            <=> CardsOf(devices', "ADLX") = {}
      BY NoneOf
    <3>2. QED
      BY <1>2, <3>1 DEF AdlxThrows
  <2>4. DiscoveryTypes'
    BY <2>1, <2>2, <2>3 DEF DiscoveryInv, DiscoveryTypes
  <2>5. PoolsOnce'
    BY <2>1, <2>2 DEF DiscoveryInv, PoolsOnce, Ahead, AmdPlaces, NvidiaPlaces
  <2>6. CardsPassed'
    BY <2>1, <2>2 DEF DiscoveryInv, CardsPassed
  <2>7. SdksHeld'
    BY <2>1, <2>2, <2>3 DEF DiscoveryInv, PoolsOnce, SdksHeld, Ahead, AmdPlaces
  <2>8. QED
    BY <2>4, <2>5, <2>6, <2>7 DEF DiscoveryInv
<1>3. QED
  BY <1>1, <1>2

LEMMA DiscoveryStepInv == DiscoveryInv /\ FetchInv /\ LossInv /\ [Next]_vars => DiscoveryInv'
<1> SUFFICES ASSUME DiscoveryInv, FetchInv, LossInv, [Next]_vars
             PROVE  DiscoveryInv'
  OBVIOUS
<1>1. CASE Discover
  BY <1>1, AdaptersStep, PoolStep, AdlStep, ListStep, LeaveStep, ActiveStep, CardStep, ThrowStep
  DEF Discover
<1>2. CASE Poll
  <2>1. /\ pc = "poll" /\ pc' = pc /\ next' \in Nat \ {0}
        /\ UNCHANGED <<machine, todo, seen, devices, held, reported, lost>>
    <3>1. Len(devices) \in Nat /\ next \in Nat \ {0}
      BY DEF DiscoveryInv, DiscoveryTypes
    <3>2. QED
      BY <1>2, <3>1 DEF Poll, At
  <2>2. QED
    BY <2>1, DiscoveryKept
<1>3. CASE FetchMetrics \/ UNCHANGED vars
  <2>1. UNCHANGED <<machine, discovery>> /\ pc' \in {pc, "ended"}
    BY <1>3 DEF FetchMetrics, AdlCaps, Waterfall, NoPmLog, PmLogCreate, PmLogStart, PmLogRead,
       PmLogStop, PmLogDestroy, AdlxFetch, NvapiFetch, NvapiNoThermalSettings, EndFetch, Crash,
       vars
  <2>2. QED
    BY <2>1, DiscoveryKept DEF discovery
<1>4. QED
  BY <1>1, <1>2, <1>3 DEF Next

\* The discovery goes on outside a fetch.
LEMMA FetchKept ==
    ASSUME FetchInv, UNCHANGED <<value, fetch, pmlog, answered>>, devices' = devices
    PROVE  FetchInv'
  BY DEF FetchInv, FetchTypes, LogHeld, LevelsRise, HighestLevelWins, Fetching

\* A fetch begins.
LEMMA BeginStep ==
    ASSUME FetchInv, ~Fetching, UNCHANGED pmlog, answered' = {},
           NEW dev \in Nat \ {0},
           value' \in Seq([Sensors -> Nat]), Len(value') = Len(devices'),
           Len(devices') \in Nat, dev <= Len(devices'),
           fetch' = [dev |-> dev, stage |-> "begin", level |-> 0]
    PROVE  FetchInv'
<1>1. FetchTypes'
  BY DEF FetchTypes, Stages
<1>2. LogHeld'
  BY DEF FetchInv, LogHeld, Fetching, NoFetch
<1>3. LevelsRise' /\ HighestLevelWins'
  BY DEF LevelsRise, HighestLevelWins
<1>4. QED
  BY <1>1, <1>2, <1>3 DEF FetchInv

LEMMA AddDeviceStep ==
    ASSUME DiscoveryInv, FetchInv, ~Fetching, NEW backend \in {"ADL", "ADLX", "NVAPI"},
           NEW card \in Nat, AddDevice(backend, card)
    PROVE  FetchInv'
<1>1. [backend |-> backend, card |-> card] \in Device
  BY DEF Device
<1>2. devices' \in Seq(Device) /\ Len(devices') = Len(devices) + 1 /\ Len(devices) \in Nat
  BY <1>1, AppendedOne, LenDevices DEF AddDevice
<1>3. Absent \in [Sensors -> Nat]
  BY DEF Absent
<1>4. value' \in Seq([Sensors -> Nat]) /\ Len(value') = Len(value) + 1
  BY <1>3, AppendedOne DEF AddDevice, FetchInv, FetchTypes
<1>5. Len(value') = Len(devices')
  BY <1>2, <1>4 DEF FetchInv, FetchTypes
<1>6. /\ fetch' = [dev |-> Len(devices) + 1, stage |-> "begin", level |-> 0]
      /\ answered' = {} /\ UNCHANGED pmlog
  BY DEF AddDevice
<1>7. Len(devices) + 1 \in Nat \ {0} /\ Len(devices) + 1 <= Len(devices') /\ Len(devices') \in Nat
  BY <1>2
<1>8. QED
  BY <1>4, <1>5, <1>6, <1>7, BeginStep

\* addSensor for some names, at a level above those that have answered.
LEMMA AddSensorsStep ==
    ASSUME FetchInv, Fetching, Len(devices) \in Nat,
           NEW names \in SUBSET Sensors, NEW level \in Nat,
           \A a \in answered : a[1] < level, AddSensors(names, level)
    PROVE  /\ value' \in Seq([Sensors -> Nat]) /\ Len(value') = Len(value)
           /\ answered' \subseteq (Nat \X Sensors)
           /\ \A a \in answered' :
                /\ a[1] <= level
                /\ a[1] <= value'[fetch.dev][a[2]]
                /\ <<value'[fetch.dev][a[2]], a[2]>> \in answered'
<1> DEFINE dev == fetch.dev
           old == value[dev]
           new == [t \in Sensors |-> IF t \in names THEN level ELSE old[t]]
<1>1. dev \in 1 .. Len(value) /\ value \in Seq([Sensors -> Nat])
  BY DEF FetchInv, FetchTypes, Fetching
<1>2. old \in [Sensors -> Nat]
  BY <1>1, ElementOf
<1>3. new \in [Sensors -> Nat]
  BY <1>2
<1>4. value' = [value EXCEPT ![dev] = new] /\ answered' = answered \cup ({level} \X names)
  BY DEF AddSensors
<1> HIDE DEF dev
<1>5. /\ value' \in Seq([Sensors -> Nat]) /\ Len(value') = Len(value)
      /\ value'[dev] = new
  <2> HIDE DEF new
  <2>1. QED
    BY <1>1, <1>3, <1>4, ReplacedOne
<1>6. answered \subseteq (Nat \X Sensors)
      /\ \A a \in answered : a[1] <= old[a[2]] /\ <<old[a[2]], a[2]>> \in answered
  BY DEF FetchInv, FetchTypes, HighestLevelWins, dev
<1>7. answered' \subseteq (Nat \X Sensors)
  BY <1>4, <1>6
<1>8. ASSUME NEW a \in answered'
      PROVE  a[1] <= level /\ a[1] <= new[a[2]] /\ <<new[a[2]], a[2]>> \in answered'
  <2>1. a[2] \in Sensors /\ a[1] \in Nat
    BY <1>7
  <2>2. a[1] <= level
    BY <1>4, <1>6, <2>1
  <2>3. CASE a[2] \in names
    BY <1>4, <2>1, <2>2, <2>3
  <2>4. CASE a[2] \notin names
    <3>1. a \in answered
      BY <1>4, <2>4
    <3>2. QED
      BY <1>4, <1>6, <2>1, <2>2, <2>4, <3>1
  <2>5. QED
    BY <2>3, <2>4
<1>9. QED
  BY <1>5, <1>7, <1>8 DEF dev

\* What a step of a fetch keeps when it only moves on, and what it must show.
LEMMA MovesOn ==
    ASSUME FetchInv, Fetching, Len(devices) \in Nat, UNCHANGED <<devices, value, answered>>,
           NEW stage \in Stages \ {"none"}, NEW level \in Nat, ToStage(stage, level)
    PROVE  FetchTypes' /\ HighestLevelWins' /\ fetch'.stage = stage /\ fetch'.level = level
<1>1. /\ fetch' \in [dev : 0 .. Len(devices), stage : Stages, level : Nat]
      /\ fetch'.stage = stage /\ fetch'.level = level /\ fetch'.dev = fetch.dev
  BY DEF ToStage, FetchInv, FetchTypes
<1>2. fetch.dev # 0
  BY DEF FetchInv, FetchTypes, Fetching
<1>3. FetchTypes'
  BY <1>1, <1>2 DEF FetchInv, FetchTypes
<1>4. HighestLevelWins'
  BY <1>1 DEF FetchInv, HighestLevelWins, Fetching
<1>5. QED
  BY <1>1, <1>3, <1>4

LEMMA AnswersAndMovesOn ==
    ASSUME FetchInv, Fetching, Len(devices) \in Nat, UNCHANGED devices,
           NEW names \in SUBSET Sensors, NEW n \in Nat,
           \A a \in answered : a[1] < n, AddSensors(names, n),
           NEW stage \in Stages \ {"none"}, NEW level \in Nat, ToStage(stage, level)
    PROVE  /\ FetchTypes' /\ HighestLevelWins' /\ fetch'.stage = stage /\ fetch'.level = level
           /\ \A a \in answered' : a[1] <= n
<1>1. /\ fetch' \in [dev : 0 .. Len(devices), stage : Stages, level : Nat]
      /\ fetch'.stage = stage /\ fetch'.level = level /\ fetch'.dev = fetch.dev
  BY DEF ToStage, FetchInv, FetchTypes
<1>2. fetch.dev # 0
  BY DEF FetchInv, FetchTypes, Fetching
<1>3. /\ value' \in Seq([Sensors -> Nat]) /\ Len(value') = Len(value)
      /\ answered' \subseteq (Nat \X Sensors)
      /\ \A a \in answered' :
           /\ a[1] <= n
           /\ a[1] <= value'[fetch.dev][a[2]]
           /\ <<value'[fetch.dev][a[2]], a[2]>> \in answered'
  BY AddSensorsStep
<1>4. FetchTypes'
  BY <1>1, <1>2, <1>3 DEF FetchInv, FetchTypes
<1>5. HighestLevelWins'
  BY <1>1, <1>3 DEF HighestLevelWins
<1>6. QED
  BY <1>1, <1>3, <1>4, <1>5

\* The levels below the sensor log.
LEMMA WaterfallStep ==
    FetchInv /\ Len(devices) \in Nat /\ UNCHANGED devices /\ (AdlCaps \/ Waterfall) => FetchInv'
<1> SUFFICES ASSUME FetchInv, Len(devices) \in Nat, UNCHANGED devices, AdlCaps \/ Waterfall
             PROVE  FetchInv'
  OBVIOUS
<1>1. CASE AdlCaps
  <2>1. FetchTypes' /\ HighestLevelWins' /\ fetch'.stage = "waterfall" /\ fetch'.level = 5
    BY <1>1, MovesOn DEF AdlCaps, InFetch, Stages
  <2>2. pmlog' = pmlog /\ answered' = answered /\ fetch.stage = "begin"
    BY <1>1 DEF AdlCaps, InFetch
  <2>3. LogHeld' /\ LevelsRise'
    BY <2>1, <2>2 DEF FetchInv, LogHeld, LevelsRise
  <2>4. QED
    BY <2>1, <2>3 DEF FetchInv
<1>2. CASE Waterfall
  <2>1. /\ Fetching /\ fetch.stage = "waterfall" /\ pmlog' = pmlog
        /\ fetch.level \in 5 .. 7 /\ \A a \in answered : a[1] < fetch.level
    BY <1>2 DEF Waterfall, InFetch, FetchInv, LevelsRise
  <2>2. PICK names \in SUBSET Sensors : AddSensors(names, fetch.level)
    BY <1>2 DEF Waterfall, LevelSensors
  <2>3. PICK stage \in {"waterfall", "log"}, level \in Nat :
          /\ ToStage(stage, level)
          /\ stage = "waterfall" => level \in 5 .. 7 /\ level = fetch.level + 1
    BY <1>2, <2>1 DEF Waterfall
  <2>4. /\ FetchTypes' /\ HighestLevelWins' /\ fetch'.stage = stage /\ fetch'.level = level
        /\ \A a \in answered' : a[1] <= fetch.level
    <3>1. fetch.level \in Nat /\ stage \in Stages \ {"none"}
      BY <2>1, <2>3 DEF Stages
    <3>2. QED
      BY <2>1, <2>2, <2>3, <3>1, AnswersAndMovesOn
  <2>5. LogHeld'
    BY <2>1, <2>4 DEF FetchInv, LogHeld
  <2>6. \A a \in answered' : a[1] \in Nat
    BY <2>4 DEF FetchTypes
  <2>7. LevelsRise'
    BY <2>1, <2>3, <2>4, <2>6 DEF LevelsRise
  <2>8. QED
    BY <2>4, <2>5, <2>7 DEF FetchInv
<1>3. QED
  BY <1>1, <1>2

\* The card's log, and the fetches that have a single level.
LEMMA LogStep ==
    /\ FetchInv /\ Len(devices) \in Nat /\ UNCHANGED devices
    /\ NoPmLog \/ PmLogCreate \/ PmLogStart \/ PmLogStop \/ PmLogDestroy
    => FetchInv'
<1> SUFFICES ASSUME FetchInv, Len(devices) \in Nat, UNCHANGED devices,
                    NoPmLog \/ PmLogCreate \/ PmLogStart \/ PmLogStop \/ PmLogDestroy
             PROVE  FetchInv'
  OBVIOUS
<1>1. PICK stage \in Stages \ {"none"} : ToStage(stage, 8)
  BY DEF NoPmLog, PmLogCreate, PmLogStart, PmLogStop, PmLogDestroy, Stages
<1>2. FetchTypes' /\ HighestLevelWins' /\ fetch'.stage = stage
  BY <1>1, MovesOn DEF NoPmLog, PmLogCreate, PmLogStart, PmLogStop, PmLogDestroy, InFetch
<1>3. LogHeld'
  BY <1>1, <1>2 DEF FetchInv, FetchTypes, LogHeld, ToStage, InFetch,
     NoPmLog, PmLogCreate, PmLogStart, PmLogStop, PmLogDestroy
<1>4. LevelsRise'
  BY <1>1, <1>2 DEF FetchInv, FetchTypes, LevelsRise, ToStage, InFetch,
     NoPmLog, PmLogCreate, PmLogStart, PmLogStop, PmLogDestroy
<1>5. QED
  BY <1>2, <1>3, <1>4 DEF FetchInv

LEMMA ReadStep ==
    /\ FetchInv /\ Len(devices) \in Nat /\ UNCHANGED devices
    /\ PmLogRead \/ AdlxFetch \/ NvapiFetch
    => FetchInv'
<1> SUFFICES ASSUME FetchInv, Len(devices) \in Nat, UNCHANGED devices,
                    PmLogRead \/ AdlxFetch \/ NvapiFetch
             PROVE  FetchInv'
  OBVIOUS
<1>1. CASE PmLogRead
  <2>1. /\ Fetching /\ fetch.stage = "started" /\ pmlog' = pmlog /\ ToStage("read", 8)
        /\ \A a \in answered : a[1] < 8
    BY <1>1 DEF PmLogRead, InFetch, FetchInv, LevelsRise
  <2>2. PICK names \in SUBSET Sensors : AddSensors(names, 8)
    BY <1>1 DEF PmLogRead, LevelSensors
  <2>3. FetchTypes' /\ HighestLevelWins' /\ fetch'.stage = "read"
    BY <2>1, <2>2, AnswersAndMovesOn DEF Stages
  <2>4. LogHeld' /\ LevelsRise'
    BY <2>1, <2>3 DEF FetchInv, LogHeld, LevelsRise
  <2>5. QED
    BY <2>3, <2>4 DEF FetchInv
<1>2. CASE AdlxFetch \/ NvapiFetch
  <2>1. /\ Fetching /\ fetch.stage = "begin" /\ pmlog' = pmlog
        /\ answered = {}
    BY <1>2 DEF AdlxFetch, NvapiFetch, InFetch, FetchInv, LevelsRise
  <2>2. PICK names \in SUBSET Sensors, level \in Nat :
          AddSensors(names, level) /\ ToStage("done", level)
    BY <1>2 DEF AdlxFetch, NvapiFetch, LevelSensors, AlwaysAdded, ADLX_LEVEL, NVAPI_LEVEL
  <2>3. FetchTypes' /\ HighestLevelWins' /\ fetch'.stage = "done"
    <3>1. "done" \in Stages \ {"none"} /\ \A a \in answered : a[1] < level
      BY <2>1 DEF Stages
    <3>2. QED
      BY <2>1, <2>2, <3>1, AnswersAndMovesOn
  <2>4. LogHeld' /\ LevelsRise'
    BY <2>1, <2>3 DEF FetchInv, LogHeld, LevelsRise
  <2>5. QED
    BY <2>3, <2>4 DEF FetchInv
<1>3. QED
  BY <1>1, <1>2

LEMMA FetchStepInv == DiscoveryInv /\ FetchInv /\ LossInv /\ [Next]_vars => FetchInv'
<1> SUFFICES ASSUME DiscoveryInv, FetchInv, LossInv, [Next]_vars
             PROVE  FetchInv'
  OBVIOUS
<1>1. Len(devices) \in Nat
  BY LenDevices
<1>2. CASE Discover /\ ~AdlActive /\ ~AddCard /\ ~AdlFetchThrows /\ ~AdlxThrows
  BY <1>2, FetchKept DEF Discover, EnumerateAdapters, FactoryFails, CreatePool, PoolsCreated,
     PoolsDone, PoolDone, AdlInitFails, AdlInit, AdlCallsNull, AdlCount, AdlCountFails,
     AdlCountThrows, AdlInactive, AdlMakeThrows, NobodyCatches, AdlxInit, AdlxInitFails, ListCards, SkipCard, NvapiInit,
     NvapiInitFails, Crash, discovery, fetching
<1>3. CASE AdlActive
  <2>1. machine.adapters \in Seq([bus : Nat, active : BOOLEAN]) /\ next \in Nat \ {0}
    BY MachinesAssumption DEF MachinesAssumption, DiscoveryInv, DiscoveryTypes
  <2>2. next \in 1 .. Len(machine.adapters)
    BY <1>3, <2>1 DEF AdlActive
  <2>3. Adapter \in [bus : Nat, active : BOOLEAN]
    BY <2>1, <2>2, ElementOf DEF Adapter
  <2>4. CASE Adapter.bus \in seen
    BY <1>3, <2>4, FetchKept DEF AdlActive, fetching
  <2>5. CASE Adapter.bus \notin seen
    BY <1>3, <2>3, <2>5, AddDeviceStep DEF AdlActive, At
  <2>6. QED
    BY <2>4, <2>5
<1>4. CASE AddCard
  <2>1. /\ machine.adlx \in Seq(Nat) /\ machine.nvidia \in Seq(Nat) /\ next \in Nat \ {0}
    BY MachinesAssumption DEF MachinesAssumption, DiscoveryInv, DiscoveryTypes
  <2>2. /\ next <= Len(machine.adlx) => machine.adlx[next] \in Nat
        /\ next <= Len(machine.nvidia) => machine.nvidia[next] \in Nat
    BY <2>1, ElementOf
  <2>3. QED
    BY <1>4, <2>2, AddDeviceStep DEF AddCard, At
<1>5. CASE Poll
  <2> DEFINE dev == IF next > Len(devices) THEN 1 ELSE next
  <2>1. /\ devices # <<>> /\ ~Fetching /\ answered' = {} /\ UNCHANGED <<devices, value, pmlog>>
        /\ fetch' = [dev |-> dev, stage |-> "begin", level |-> 0]
    BY <1>5 DEF Poll, At
  <2>2. next \in Nat \ {0} /\ devices \in Seq(Device)
    BY DEF DiscoveryInv, DiscoveryTypes
  <2>3. dev \in Nat \ {0} /\ dev <= Len(devices)
    BY <1>1, <2>1, <2>2
  <2>4. value' \in Seq([Sensors -> Nat]) /\ Len(value') = Len(devices')
    BY <2>1 DEF FetchInv, FetchTypes
  <2> HIDE DEF dev
  <2>5. QED
    BY <1>1, <2>1, <2>3, <2>4, BeginStep
<1>6. CASE FetchMetrics
  <2>1. UNCHANGED devices
    BY <1>6 DEF FetchMetrics, AdlCaps, Waterfall, NoPmLog, PmLogCreate, PmLogStart, PmLogRead,
       PmLogStop, PmLogDestroy, AdlxFetch, NvapiFetch, NvapiNoThermalSettings, EndFetch, Crash,
       discovery
  <2>2. CASE NvapiNoThermalSettings
    BY <2>2, FetchKept DEF NvapiNoThermalSettings, Crash, discovery, fetching
  <2>3. CASE EndFetch
    <3>1. /\ fetch.stage = "done" /\ fetch' = [dev |-> 0, stage |-> "none", level |-> 0]
          /\ UNCHANGED <<devices, value, pmlog, answered>>
      BY <2>3 DEF EndFetch, NoFetch, discovery
    <3>2. FetchTypes'
      BY <1>1, <3>1 DEF FetchInv, FetchTypes, Stages, NoFetch
    <3>3. LogHeld' /\ LevelsRise' /\ HighestLevelWins'
      BY <3>1 DEF FetchInv, LogHeld, LevelsRise, HighestLevelWins, Fetching, NoFetch
    <3>4. QED
      BY <3>2, <3>3 DEF FetchInv
  <2>4. QED
    BY <1>1, <1>6, <2>1, <2>2, <2>3, WaterfallStep, LogStep, ReadStep DEF FetchMetrics
<1>7. CASE AdlFetchThrows \/ AdlxThrows
  <2>1. CASE Fetching
    BY <1>7, <2>1, DropStep DEF AdlFetchThrows, AdlxThrows, At
  <2>2. CASE ~Fetching
    BY <1>7, <2>2, FetchKept DEF AdlFetchThrows, AdlxThrows, InFetch, fetching
  <2>3. QED
    BY <2>1, <2>2
<1>8. CASE UNCHANGED vars
  BY <1>8, FetchKept DEF vars, discovery, fetching
<1>9. QED
  BY <1>2, <1>3, <1>4, <1>5, <1>6, <1>7, <1>8 DEF Next, Discover

LEMMA LossInitInv == Init => LossInv
  BY DEF Init, LossInv, Fetching, NoFetch

\* No step but an exception in AMDPool adds to what is lost.
LEMMA LossKept ==
    ASSUME LossInv, left' = left, lost \subseteq lost',
           \/ fetch' = fetch /\ UNCHANGED devices /\ (Fetching => pc' \in {pc, "ended"})
           \/ fetch' = NoFetch
           \/ fetch'.dev = fetch.dev /\ Fetching /\ UNCHANGED <<devices, pc>>
           \/ fetch'.dev = Len(devices')
           \/ pc' = "poll"
    PROVE  LossInv'
  BY DEF LossInv, Fetching, NoFetch

LEMMA LossStepInv == DiscoveryInv /\ FetchInv /\ LossInv /\ [Next]_vars => LossInv'
<1> SUFFICES ASSUME DiscoveryInv, FetchInv, LossInv, [Next]_vars
             PROVE  LossInv'
  OBVIOUS
<1>1. devices \in Seq(Device) /\ Len(devices) \in Nat
  BY LenDevices
<1>2. ASSUME NEW backend \in {"ADL", "ADLX", "NVAPI"}, NEW card, AddDevice(backend, card),
             lost' = lost
      PROVE  LossInv'
  <2>1. fetch'.dev = Len(devices) + 1 /\ left' = left
    BY <1>2 DEF AddDevice
  <2>2. Len(devices') = Len(devices) + 1
    BY <1>1, <1>2 DEF AddDevice
  <2>3. QED
    BY <1>2, <2>1, <2>2, LossKept
<1>3. CASE Discover /\ ~AdlActive /\ ~AddCard /\ ~AdlMakeThrows /\ ~AdlFetchThrows /\ ~AdlxThrows
  BY <1>3, LossKept DEF Discover, EnumerateAdapters, FactoryFails, CreatePool, PoolsCreated,
     PoolsDone, PoolDone, AdlInitFails, AdlInit, AdlCallsNull, AdlCount, AdlCountFails,
     AdlCountThrows, AdlInactive, NobodyCatches, AdlxInit, AdlxInitFails, ListCards, SkipCard,
     NvapiInit, NvapiInitFails, Crash, At, discovery, fetching
<1>4. CASE AdlActive
  <2>1. CASE Adapter.bus \in seen
    BY <1>4, <2>1, LossKept DEF AdlActive, At, fetching
  <2>2. CASE Adapter.bus \notin seen
    BY <1>2, <1>4, <2>2 DEF AdlActive
  <2>3. QED
    BY <2>1, <2>2
<1>5. CASE AddCard
  BY <1>2, <1>5 DEF AddCard
<1>6. CASE AdlMakeThrows
  <2>1. lost = {}
    BY <1>6 DEF AdlMakeThrows, At, DiscoveryInv, PoolsOnce
  <2>2. QED
    BY <1>6, <2>1, LossKept DEF AdlMakeThrows, At, fetching
<1>7. CASE AdlFetchThrows
  <2> DEFINE card == devices[fetch.dev].card
             log == [card |-> card, cause |-> "exception"]
  <2>1. /\ lost = {} /\ lost' = {card} /\ fetch' = NoFetch /\ Fetching /\ pc = "adl_adapter"
        /\ DropDevice
    BY <1>7 DEF AdlFetchThrows, InFetch, DropDevice, DiscoveryInv, PoolsOnce
  <2>2. card \in Nat
    <3>1. devices[fetch.dev] \in Device
      BY <2>1, DropStep
    <3>2. QED
      BY <3>1 DEF Device
  <2>3. left' \subseteq left \cup {log}
    BY <2>1 DEF DropDevice
  <2>4. \A l \in left : l.cause # "exception"
    BY <2>1 DEF LossInv
  <2> HIDE DEF card
  <2>5. QED
    BY <2>1, <2>2, <2>3, <2>4 DEF LossInv, Fetching
<1>8. CASE AdlxThrows
  <2>1. lost' = lost
    BY <1>8 DEF AdlxThrows
  <2>2. CASE ~Fetching
    BY <1>8, <2>1, <2>2, LossKept DEF AdlxThrows, InFetch, fetching
  <2>3. CASE Fetching
    <3>1. DropDevice /\ fetch.stage \in {"begin", "done"}
      BY <1>8, <2>3 DEF AdlxThrows, At, InFetch
    <3>2. pmlog = {}
      BY <3>1 DEF FetchInv, LogHeld
    <3>3. left' = left /\ fetch' = NoFetch
      BY <3>1, <3>2 DEF DropDevice
    <3>4. QED
      BY <2>1, <3>3, LossKept
  <2>4. QED
    BY <2>2, <2>3
<1>9. CASE Poll
  BY <1>9, LossKept DEF Poll, At
<1>10. CASE PmLogStop \/ PmLogDestroy
  <2> DEFINE log == [card |-> devices[fetch.dev].card, cause |-> "call"]
  <2>1. /\ fetch'.dev = fetch.dev /\ Fetching /\ UNCHANGED <<pc, devices, lost>>
        /\ left' \subseteq left \cup {log}
    BY <1>10 DEF PmLogStop, PmLogDestroy, MayBeLeft, InFetch, ToStage, discovery, FetchInv,
       FetchTypes
  <2>2. fetch.dev \in 1 .. Len(devices)
    BY <1>1, <2>1 DEF FetchInv, FetchTypes, Fetching
  <2>3. devices[fetch.dev] \in Device
    BY <1>1, <2>2, ElementOf
  <2>4. devices[fetch.dev].card \in Nat
    BY <2>3 DEF Device
  <2>5. QED
    BY <2>1, <2>4 DEF LossInv
<1>11. CASE FetchMetrics /\ ~PmLogStop /\ ~PmLogDestroy
  <2>1. lost' = lost /\ left' = left /\ UNCHANGED devices /\ pc' \in {pc, "ended"}
    BY <1>11 DEF FetchMetrics, AdlCaps, Waterfall, NoPmLog, PmLogCreate, PmLogStart, PmLogRead,
       AdlxFetch, NvapiFetch, NvapiNoThermalSettings, EndFetch, Crash, discovery, fetching
  <2>2. \/ fetch' = fetch
        \/ fetch' = NoFetch
        \/ fetch'.dev = fetch.dev /\ Fetching /\ pc' = pc
    BY <1>11 DEF FetchMetrics, AdlCaps, Waterfall, NoPmLog, PmLogCreate, PmLogStart, PmLogRead,
       AdlxFetch, NvapiFetch, NvapiNoThermalSettings, EndFetch, Crash, fetching, ToStage,
       InFetch, FetchInv, FetchTypes
  <2>3. QED
    BY <2>1, <2>2, LossKept
<1>12. CASE UNCHANGED vars
  BY <1>12, LossKept DEF vars, discovery, fetching
<1>13. QED
  BY <1>3, <1>4, <1>5, <1>6, <1>7, <1>8, <1>9, <1>10, <1>11, <1>12 DEF Next, Discover

GpuInv == DiscoveryInv /\ FetchInv /\ LossInv

LEMMA GpuInvariant == Spec => []GpuInv
<1>1. Init => GpuInv
  BY DiscoveryInitInv, FetchInitInv, LossInitInv DEF GpuInv
<1>2. GpuInv /\ [Next]_vars => GpuInv'
  BY DiscoveryStepInv, FetchStepInv, LossStepInv DEF GpuInv
<1>3. QED
  BY <1>1, <1>2, PTL DEF Spec

\* The variables keep their ranges: every fetch is one of a device there is.
THEOREM GpuTypeCorrect == Spec => []TypeOK
<1>1. LogHeld => pmlog \subseteq {"device", "memory"}
  BY DEF LogHeld
<1>2. GpuInv => TypeOK
  BY <1>1 DEF GpuInv, DiscoveryInv, DiscoveryTypes, FetchInv, FetchTypes, LossInv, TypeOK
<1>3. QED
  BY GpuInvariant, <1>2, PTL

LEMMA HasCard ==
    ASSUME devices \in Seq(Device), NEW backend, NEW card
    PROVE  Has(backend, card) <=> card \in CardsOf(devices, backend)
<1>1. \A i \in 1 .. Len(devices) : devices[i] \in Device
  BY ElementOf
<1>2. QED
  BY <1>1 DEF Has, CardsOf, Device

\* AMDPool makes one device of each card with an active adapter, in whatever
\* order ADL lists the adapters, and ADLX and NVAPI one of each card; an
\* exception costs ADL one card, and only then cards are devices of both.
THEOREM CardsOnce == Spec => []EveryActiveCardOnce
<1>1. GpuInv => EveryActiveCardOnce
  <2> SUFFICES ASSUME GpuInv
               PROVE  EveryActiveCardOnce
    OBVIOUS
  <2> USE DEF GpuInv, DiscoveryInv
  <2>1. \A backend, card : Has(backend, card) <=> card \in CardsOf(devices, backend)
    BY HasCard DEF DiscoveryTypes
  <2>2. \A i, j \in 1 .. Len(devices) : devices[i] = devices[j] => i = j
    BY DEF CardsPassed, Distinct
  <2>3. \A bus \in reported : Has("ADL", bus) \/ bus \in lost
    BY <2>1 DEF CardsPassed
  <2>4. \A b, c \in lost : b = c
    BY DEF CardsPassed
  <2>5. \A card \in reported : Has("ADL", card) /\ Has("ADLX", card) => lost # {}
    BY <2>1 DEF SdksHeld
  <2>6. QED
    BY <2>2, <2>3, <2>4, <2>5 DEF EveryActiveCardOnce
<1>2. QED
  BY GpuInvariant, <1>1, PTL

\* A device's SDK stays initialised whichever calls fail and wherever an
\* exception ends a loop, because the devices share it with the pool.
THEOREM SdksLive == Spec => []SdkLivesForDevices
<1>1. GpuInv => SdkLivesForDevices
  <2> SUFFICES ASSUME GpuInv
               PROVE  SdkLivesForDevices
    OBVIOUS
  <2> USE DEF GpuInv, DiscoveryInv
  <2>1. ASSUME NEW i \in 1 .. Len(devices)
        PROVE  CASE devices[i].backend = "ADL" -> "adl_context" \in held
                 [] devices[i].backend = "ADLX" -> "adlx_monitoring" \in held
                 [] devices[i].backend = "NVAPI" -> "nvapi" \in held
    <3>1. devices[i] \in Device
      BY ElementOf DEF DiscoveryTypes
    <3>2. devices[i].card \in CardsOf(devices, devices[i].backend)
      BY DEF CardsOf
    <3>3. QED
      BY <3>1, <3>2 DEF Device, SdksHeld
  <2>2. ASSUME {"adl_context", "adlx_helper"} \subseteq held
        PROVE  lost # {} /\ \E bus \in reported : Has("ADL", bus)
    <3>1. lost # {} /\ CardsOf(devices, "ADL") # {}
      BY <2>2 DEF SdksHeld
    <3>2. PICK bus : bus \in CardsOf(devices, "ADL")
      BY <3>1
    <3>3. bus \in reported /\ Has("ADL", bus)
      BY <3>2, HasCard DEF CardsPassed, DiscoveryTypes
    <3>4. QED
      BY <3>1, <3>3
  <2>3. QED
    BY <2>1, <2>2 DEF SdkLivesForDevices
<1>2. QED
  BY GpuInvariant, <1>1, PTL

\* Stop and destroy are called for a card's sensor log in every fetch that got
\* it, also when the log does not start; where an exception skips them, the card
\* gets no device of ADL, and no other log.
THEOREM LogBalanced == Spec => []PmLogBalanced
<1>1. GpuInv => PmLogBalanced
  <2> SUFFICES ASSUME GpuInv
               PROVE  PmLogBalanced
    OBVIOUS
  <2> USE DEF GpuInv, DiscoveryInv, FetchInv
  <2>1. ASSUME NEW log \in left, log.cause = "exception"
        PROVE  ~Has("ADL", log.card)
    <3>1. log.card \in lost
      BY <2>1 DEF LossInv
    <3>2. QED
      BY <3>1, HasCard DEF CardsPassed, DiscoveryTypes
  <2>2. QED
    BY <2>1 DEF LogHeld, PmLogBalanced
<1>2. QED
  BY GpuInvariant, <1>1, PTL

\* Of the levels that gave a sensor, the highest is shown, because the
\* waterfall calls them in rising order and addSensor overwrites.
THEOREM HighestLevelShown == Spec => []HighestLevelWins
<1>1. GpuInv => HighestLevelWins
  BY DEF GpuInv, FetchInv
<1>2. QED
  BY GpuInvariant, <1>1, PTL
==============================================================================
