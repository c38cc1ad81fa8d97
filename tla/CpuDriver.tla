------------------------------ MODULE CpuDriver ------------------------------
(***************************************************************************)
(* The kernel drivers for AMD and for Intel processors: DriverEntry and    *)
(* EvtIoDeviceControl with the metrics it collects.  The two drivers are   *)
(* the same program but for the metrics; vendor says which one is loaded.  *)
(* The framework hands the handler one request at a time, and the device   *)
(* is exclusive, so requests do not overlap.  Processors may be added at   *)
(* any time.                                                               *)
(*                                                                         *)
(* What a register contains is left out.  A metric that is a difference of *)
(* two readings carries the number of the sample it is a difference to;    *)
(* one that is read at once, or reported as zero, carries NoDelta.  Reads  *)
(* of the SMN bus and validity bits only decide between a value and zero.  *)
(* since, the number of the metric's last sample, is history.              *)
(***************************************************************************)
EXTENDS Integers, Sequences

CONSTANT MaxProcs     \* bound: how many processors the machine can have

ASSUME ProcsAssumption == MaxProcs \in Nat \ {0}

VARIABLES
    vendor,        \* "AMD" or "Intel": which driver is loaded
    total_procs,   \* the active processors
    max_procs,     \* g_max_procs: the active processors when the driver was loaded
    features,      \* what DetectFeatures found
    core_state,    \* g_core_state, or NoCoreState
    pkg_state,     \* g_pkg_state
    samples,       \* how many requests have collected metrics
    request,       \* the request being handled, or NoRequest
    reply,         \* how the last request was completed
    last           \* history: the last sample of each difference metric

\* What DriverEntry settles.
loaded == <<vendor, max_procs, features>>

driverVars ==
    <<loaded, total_procs, core_state, pkg_state, samples, request, reply, last>>

------------------------------------------------------------------------------
(* Metrics and the buffer that holds them. *)

CoreMetrics ==
    IF vendor = "AMD" THEN <<"clock", "load", "power">> ELSE <<"temp", "vid", "clock", "load">>

AggregateMetrics ==
    IF vendor = "AMD" THEN <<"tdie", "core_v", "soc_v", "pkg">> ELSE <<"tdie", "pkg", "pp0">>

\* The numbers of them that are written into each driver's header file.
METRICS_PER_CORE == IF vendor = "AMD" THEN 3 ELSE 4

\* Mutant: AMD's driver got another metric and the constant was forgotten.
METRICS_AGGREGATE_OLD == 3

METRICS_AGGREGATE == IF vendor = "AMD" THEN 4 ELSE 3

NoCpu == 65535                 \* cpu_id of an aggregate metric

\* Mutant: value becomes a 64-bit integer.
WideAlign == 8

EntryAlign == 4                \* the alignment of CPU_DATA, that of its ULONG

\* Where what must be aligned begins after n bytes.
Aligned(n) == ((n + EntryAlign - 1) \div EntryAlign) * EntryAlign

HeaderSize == 4 + 4 + 4                         \* sizeof(CPU_DATA_HEADER)
EntrySize == Aligned(EntryAlign + 32 + 2 + 2 + 2)   \* sizeof(CPU_DATA)

\* What the drivers compute for n entries.
SizeOf(n) == HeaderSize + n * EntrySize

\* For how many entries the buffer must have room.
TotalEntries(procs) == METRICS_PER_CORE * procs + METRICS_AGGREGATE

\* How many metrics the loops of a request go through, by the calls in them.
MetricCount(procs) == Len(CoreMetrics) * procs + Len(AggregateMetrics)

\* The n-th metric a request collects.
MetricAt(procs, n) ==
    LET perCore == Len(CoreMetrics) IN
    IF n < perCore * procs
    THEN [kind |-> CoreMetrics[(n % perCore) + 1], cpu |-> n \div perCore]
    ELSE [kind |-> AggregateMetrics[n - perCore * procs + 1], cpu |-> NoCpu]

NoDelta == -1
Metrics == {MetricAt(MaxProcs, n) : n \in 0 .. MetricCount(MaxProcs) - 1}
Entry == [metric : Metrics, from : {NoDelta} \cup Nat, since : Nat]

------------------------------------------------------------------------------
(* DriverEntry.  All memory of the driver starts as zero. *)

NoCoreState == <<>>
NoRequest == [len |-> 0, procs |-> 0, at |-> 0, entries |-> <<>>]

\* Intel's driver needs the state of the cores only for the load.
MayAllocate == vendor = "AMD" \/ "mperf" \in features

InitDriver ==
    /\ vendor \in {"AMD", "Intel"}
    /\ total_procs \in 1 .. MaxProcs
    /\ max_procs = total_procs
    /\ features \in SUBSET (IF vendor = "AMD" THEN {"mperf", "rapl"}
                                              ELSE {"mperf", "pkg_therm", "rapl"})
    /\ core_state \in
         {NoCoreState} \cup
         (IF MayAllocate
          THEN {[cpu \in 0 .. max_procs - 1 |-> [valid |-> FALSE, load |-> 0, power |-> 0]]}
          ELSE {})
    /\ pkg_state = [kind \in {"pkg", "pp0"} |-> [valid |-> FALSE, prev |-> 0]]
    /\ samples = 0
    /\ request = NoRequest
    /\ reply = [status |-> "none", bytes |-> 0, required |-> 0, entry_count |-> 0,
                entries |-> <<>>]
    /\ last = [m \in Metrics |-> 0]

AddProcessor ==
    /\ total_procs < MaxProcs
    /\ total_procs' = total_procs + 1
    /\ UNCHANGED <<loaded, core_state, pkg_state, samples, request, reply, last>>

------------------------------------------------------------------------------
(* EvtIoDeviceControl: the size test. *)

Handling == request # NoRequest

\* The request is completed: how, with how many bytes, and what they are.
CompleteRequest(status, bytes, required, entry_count, entries) ==
    /\ reply' = [status |-> status, bytes |-> bytes, required |-> required,
                 entry_count |-> entry_count, entries |-> entries]
    /\ request' = NoRequest

\* The two tests of OutputBufferLength.
SizeTest(len, procs) ==
    IF len < HeaderSize THEN "too_small"
    ELSE IF len < SizeOf(TotalEntries(procs)) THEN "overflow" ELSE "fits"

\* A request with a buffer of len bytes that is answered at once.  The header
\* is written when there is room for it.
RefuseRequest(len) ==
    /\ SizeTest(len, total_procs) # "fits"
    /\ CompleteRequest(SizeTest(len, total_procs),
                       IF len < HeaderSize THEN 0 ELSE HeaderSize,
                       SizeOf(TotalEntries(total_procs)), 0, <<>>)
    /\ UNCHANGED <<loaded, total_procs, core_state, pkg_state, samples, last>>

\* A request that goes on to collect metrics, for the processors there are
\* now.
AcceptRequest(len) ==
    /\ SizeTest(len, total_procs) = "fits"
    /\ request' = [len |-> len, procs |-> total_procs, at |-> 0, entries |-> <<>>]
    /\ samples' = samples + 1
    /\ UNCHANGED <<loaded, total_procs, core_state, pkg_state, reply, last>>

------------------------------------------------------------------------------
(* Collecting. *)

Current == MetricAt(request.procs, request.at)
Collecting(kinds) ==
    /\ Handling
    /\ request.at < MetricCount(request.procs)
    /\ Current.kind \in kinds

\* tryAddTelemetryData, and the answer when it fails.
Add(from) ==
    IF SizeOf(Len(request.entries) + 1) <= request.len
    THEN /\ request' = [request EXCEPT
                          !.at = @ + 1,
                          !.entries = Append(@, [metric |-> Current, from |-> from,
                                                since |-> last[Current]])]
         /\ UNCHANGED reply
    ELSE CompleteRequest("overflow", HeaderSize,
           SizeOf(Len(request.entries) + METRICS_PER_CORE + METRICS_AGGREGATE), 0, <<>>)

\* The system does not know the processor any more.
SkipProcessor ==
    /\ Collecting({CoreMetrics[1]})
    /\ Current.cpu # NoCpu
    /\ request' = [request EXCEPT !.at = @ + Len(CoreMetrics)]
    /\ UNCHANGED <<loaded, total_procs, core_state, pkg_state, samples, reply, last>>

\* Intel's driver leaves out what the processor does not have.
Missing(kind) ==
    /\ vendor = "Intel"
    /\ \/ kind = "tdie" /\ "pkg_therm" \notin features
       \/ kind \in {"pkg", "pp0"} /\ "rapl" \notin features

SkipMissing ==
    /\ Collecting({"tdie", "pkg", "pp0"})
    /\ Missing(Current.kind)
    /\ request' = [request EXCEPT !.at = @ + 1]
    /\ UNCHANGED <<loaded, total_procs, core_state, pkg_state, samples, reply, last>>

CollectCoreReading ==
    /\ Collecting({"clock", "temp", "vid"})
    /\ Add(NoDelta)
    /\ UNCHANGED <<loaded, total_procs, core_state, pkg_state, samples, last>>

CollectAggregateReading ==
    /\ Collecting({"tdie", "core_v", "soc_v"})
    /\ ~Missing(Current.kind)
    /\ Add(NoDelta)
    /\ UNCHANGED <<loaded, total_procs, core_state, pkg_state, samples, last>>

\* Whether there is a previous sample to keep for a processor.
HasState(cpu) == core_state # NoCoreState /\ cpu < max_procs

Sampled == last' = [last EXCEPT ![Current] = samples]

\* retCoreLoad without what it needs reports zero.
CollectNoLoad ==
    /\ Collecting({"load"})
    /\ ~("mperf" \in features /\ HasState(Current.cpu))
    /\ Add(NoDelta)
    /\ UNCHANGED <<loaded, total_procs, core_state, pkg_state, samples, last>>

\* Mutant: the load does not test valid.
CollectLoadUntested ==
    /\ Collecting({"load"})
    /\ "mperf" \in features /\ HasState(Current.cpu)
    /\ Add(core_state[Current.cpu].load)
    /\ core_state' = [core_state EXCEPT ![Current.cpu].load = samples,
                                        ![Current.cpu].valid = TRUE]
    /\ Sampled
    /\ UNCHANGED <<loaded, total_procs, pkg_state, samples>>

CollectLoad ==
    /\ Collecting({"load"})
    /\ "mperf" \in features /\ HasState(Current.cpu)
    /\ Add(IF core_state[Current.cpu].valid THEN core_state[Current.cpu].load ELSE NoDelta)
    /\ core_state' = [core_state EXCEPT ![Current.cpu].load = samples,
                                        ![Current.cpu].valid = TRUE]
    /\ Sampled
    /\ UNCHANGED <<loaded, total_procs, pkg_state, samples>>

CollectNoCorePower ==
    /\ Collecting({"power"})
    /\ ~("rapl" \in features /\ HasState(Current.cpu))
    /\ Add(NoDelta)
    /\ UNCHANGED <<loaded, total_procs, core_state, pkg_state, samples, last>>

\* The test is of the flag the load of this processor has just set.
CollectCorePower ==
    /\ Collecting({"power"})
    /\ "rapl" \in features /\ HasState(Current.cpu)
    /\ Add(IF core_state[Current.cpu].valid THEN core_state[Current.cpu].power ELSE NoDelta)
    /\ core_state' = [core_state EXCEPT ![Current.cpu].power = samples]
    /\ Sampled
    /\ UNCHANGED <<loaded, total_procs, pkg_state, samples>>

\* AMD's driver reports zero for a processor older than Zen.
CollectNoPackagePower ==
    /\ Collecting({"pkg", "pp0"})
    /\ ~Missing(Current.kind)
    /\ "rapl" \notin features
    /\ Add(NoDelta)
    /\ UNCHANGED <<loaded, total_procs, core_state, pkg_state, samples, last>>

\* Mutant: one flag for both domains, as the core's load and power share one.
CollectPackagePowerOneFlag ==
    /\ Collecting({"pkg", "pp0"})
    /\ "rapl" \in features
    /\ Add(IF pkg_state["pkg"].valid THEN pkg_state[Current.kind].prev ELSE NoDelta)
    /\ pkg_state' = [pkg_state EXCEPT ![Current.kind].prev = samples, !["pkg"].valid = TRUE]
    /\ Sampled
    /\ UNCHANGED <<loaded, total_procs, core_state, samples>>

CollectPackagePower ==
    /\ Collecting({"pkg", "pp0"})
    /\ "rapl" \in features
    /\ Add(IF pkg_state[Current.kind].valid THEN pkg_state[Current.kind].prev ELSE NoDelta)
    /\ pkg_state' = [pkg_state EXCEPT ![Current.kind] = [valid |-> TRUE, prev |-> samples]]
    /\ Sampled
    /\ UNCHANGED <<loaded, total_procs, core_state, samples>>

CompleteCollection ==
    /\ Handling
    /\ request.at = MetricCount(request.procs)
    /\ CompleteRequest("success", SizeOf(Len(request.entries)),
                       SizeOf(TotalEntries(request.procs)), Len(request.entries),
                       request.entries)
    /\ UNCHANGED <<loaded, total_procs, core_state, pkg_state, samples, last>>

HandleRequest ==
    \/ SkipProcessor \/ SkipMissing \/ CollectCoreReading \/ CollectAggregateReading
    \/ CollectNoLoad \/ CollectLoad \/ CollectNoCorePower \/ CollectCorePower
    \/ CollectNoPackagePower \/ CollectPackagePower \/ CompleteCollection

------------------------------------------------------------------------------
(* Properties. *)

DriverTypeOK ==
    /\ vendor \in {"AMD", "Intel"}
    /\ total_procs \in 1 .. MaxProcs
    /\ max_procs \in 1 .. total_procs
    /\ features \subseteq {"mperf", "pkg_therm", "rapl"}
    /\ \/ core_state = NoCoreState
       \/ core_state \in [0 .. max_procs - 1 -> [valid : BOOLEAN, load : Nat, power : Nat]]
    /\ pkg_state \in [{"pkg", "pp0"} -> [valid : BOOLEAN, prev : Nat]]
    /\ samples \in Nat
    /\ request \in [len : Nat, procs : 0 .. MaxProcs, at : Nat, entries : Seq(Entry)]
    /\ reply \in [status : {"none", "success", "overflow", "too_small", "failed"},
                  bytes : Nat, required : Nat, entry_count : Nat, entries : Seq(Entry)]
    /\ last \in [Metrics -> Nat]

\* A request that passes the size test never runs out of buffer while it
\* collects, whatever processors are added or skipped meanwhile: the constants
\* of the size test are the numbers of metrics that the loops collect.
CapacitySuffices ==
    Handling => SizeOf(Len(request.entries) + MetricCount(request.procs) - request.at) <=
                  request.len

\* A difference is taken to the last sample of the same metric, and there is
\* one.
TrueDelta(e) == e.from # NoDelta => e.from # 0 /\ e.from = e.since

\* The metrics of some kinds in what the driver has answered are true
\* differences.
TrueDeltas(kinds) ==
    \A n \in 1 .. Len(reply.entries) :
        reply.entries[n].metric.kind \in kinds => TrueDelta(reply.entries[n])

\* A core's load is the difference of two readings, the second one poll after
\* the first, also when processors come and are skipped.
LoadFromTwoSamples == TrueDeltas({"load"})

\* So are the powers of the package and of the core domain.
PackagePowerFromTwoSamples == TrueDeltas({"pkg", "pp0"})

\* The power of a core is "per-core delta" of the energy counter.
CorePowerFromTwoSamples == TrueDeltas({"power"})
==============================================================================
