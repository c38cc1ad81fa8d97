-------------------------- MODULE DriverClientProofs --------------------------
(***************************************************************************)
(* Proofs about CpuDriver and DriverClient for any number of processors,   *)
(* calls and faults: the buffer the client learns to bring is large enough *)
(* for all that the driver collects, and it learns it quickly.             *)
(***************************************************************************)
EXTENDS DriverClient, TLAPS

------------------------------------------------------------------------------
(* Sizes and metrics. *)

LEMMA AppendedOne ==
    ASSUME NEW S, NEW s \in Seq(S), NEW x \in S
    PROVE  Append(s, x) \in Seq(S) /\ Len(Append(s, x)) = Len(s) + 1 /\ Len(s) \in Nat
  OBVIOUS

LEMMA RequestUpdated ==
    ASSUME NEW P, NEW E, NEW r \in [len : Nat, procs : P, at : Nat, entries : E],
           NEW n \in Nat, NEW more \in E
    PROVE  [r EXCEPT !.at = n, !.entries = more] \in [len : Nat, procs : P, at : Nat, entries : E]
  OBVIOUS

\* The layout of the buffer, as the compiler makes it for driver and client.
LEMMA Layout == HeaderSize = 12 /\ EntrySize = 44 /\ DataOffset = HeaderSize
<1>1. Aligned(12) = 12 /\ Aligned(42) = 44
  BY DEF Aligned, EntryAlign
<1>2. HeaderSize = 12 /\ EntryAlign + 32 + 2 + 2 + 2 = 42
  BY DEF HeaderSize, EntryAlign
<1>3. QED
  BY <1>1, <1>2 DEF EntrySize, DataOffset

\* The constants of the header files are the numbers of metrics.
LEMMA Widths ==
    ASSUME vendor \in {"AMD", "Intel"}
    PROVE  /\ METRICS_PER_CORE \in {3, 4} /\ METRICS_PER_CORE = Len(CoreMetrics)
           /\ METRICS_AGGREGATE \in {3, 4} /\ METRICS_AGGREGATE = Len(AggregateMetrics)
<1>1. CASE vendor = "AMD"
  BY <1>1 DEF METRICS_PER_CORE, METRICS_AGGREGATE, CoreMetrics, AggregateMetrics
<1>2. CASE vendor = "Intel"
  BY <1>2 DEF METRICS_PER_CORE, METRICS_AGGREGATE, CoreMetrics, AggregateMetrics
<1>3. QED
  BY <1>1, <1>2

\* The size test and the loops of the handler count the same metrics, and more
\* processors need more.
LEMMA Counts ==
    ASSUME vendor \in {"AMD", "Intel"}, NEW p \in Nat, NEW q \in Nat, p <= q
    PROVE  /\ MetricCount(p) \in Nat /\ MetricCount(q) \in Nat
           /\ MetricCount(p) <= MetricCount(q)
           /\ TotalEntries(p) = MetricCount(p)
           /\ SizeOf(TotalEntries(p)) \in Nat
           /\ SizeOf(TotalEntries(p)) > HeaderSize
           /\ SizeOf(TotalEntries(p)) <= SizeOf(TotalEntries(q))
<1> DEFINE C == METRICS_PER_CORE
           A == METRICS_AGGREGATE
<1>1. C \in {3, 4} /\ A \in {3, 4}
  BY Widths
<1>2. /\ MetricCount(p) = C * p + A /\ MetricCount(q) = C * q + A
      /\ TotalEntries(p) = C * p + A /\ TotalEntries(q) = C * q + A
  BY Widths DEF MetricCount, TotalEntries
<1> HIDE DEF C, A
<1>3. /\ C * p \in Nat /\ C * q \in Nat /\ C * p <= C * q
  BY <1>1
<1>4. QED
  BY <1>1, <1>2, <1>3, Layout DEF SizeOf

LEMMA VendorKept ==
    ASSUME vendor' = vendor
    PROVE  /\ Metrics' = Metrics
           /\ METRICS_PER_CORE' = METRICS_PER_CORE /\ METRICS_AGGREGATE' = METRICS_AGGREGATE
           /\ CoreMetrics' = CoreMetrics /\ AggregateMetrics' = AggregateMetrics
  BY DEF Metrics, MetricAt, MetricCount, METRICS_PER_CORE, METRICS_AGGREGATE, CoreMetrics,
     AggregateMetrics

\* Whatever the number of processors, what is collected is a metric.
LEMMA MetricIsOne ==
    ASSUME vendor \in {"AMD", "Intel"}, NEW p \in 0 .. MaxProcs, NEW n \in Nat, n < MetricCount(p)
    PROVE  MetricAt(p, n) \in Metrics /\ MetricAt(p, n).cpu \in Nat
<1> DEFINE Agg == AggregateMetrics
           Cor == CoreMetrics
           C == Len(Cor)
           A == Len(Agg)
<1>1. C \in {3, 4} /\ A \in {3, 4} /\ MaxProcs \in Nat
  BY Widths, ProcsAssumption DEF ProcsAssumption
<1>2. \A r, m : MetricAt(r, m) =
        IF m < C * r THEN [kind |-> Cor[(m % C) + 1], cpu |-> m \div C]
                     ELSE [kind |-> Agg[m - C * r + 1], cpu |-> NoCpu]
  BY DEF MetricAt
<1>3. \A r : MetricCount(r) = C * r + A
  BY DEF MetricCount
<1>4. \A m \in 0 .. C * MaxProcs + A - 1 : MetricAt(MaxProcs, m) \in Metrics
  <2>1. \A m \in 0 .. MetricCount(MaxProcs) - 1 : MetricAt(MaxProcs, m) \in Metrics
    BY DEF Metrics
  <2> DEFINE count == MetricCount(MaxProcs)
  <2>2. count = C * MaxProcs + A
    BY <1>3
  <2>3. \A m \in 0 .. count - 1 : MetricAt(MaxProcs, m) \in Metrics
    BY <2>1
  <2> HIDE DEF count, C, A
  <2>4. QED
    BY <1>1, <2>2, <2>3
<1> HIDE DEF C, A, Agg, Cor
<1>5. C * p \in Nat /\ C * MaxProcs \in Nat /\ C * p <= C * MaxProcs
  BY <1>1
<1>6. CASE n < C * p
  <2>1. n \in 0 .. C * MaxProcs + A - 1 /\ n < C * MaxProcs
    BY <1>1, <1>5, <1>6
  <2>2. MetricAt(p, n) = MetricAt(MaxProcs, n)
    BY <1>2, <1>6, <2>1
  <2>3. n \div C \in Nat
    BY <1>1
  <2>4. QED
    BY <1>2, <1>4, <1>6, <2>1, <2>2, <2>3
<1>7. CASE ~(n < C * p)
  <2> DEFINE m == n - C * p + C * MaxProcs
  <2>1. m \in 0 .. C * MaxProcs + A - 1 /\ ~(m < C * MaxProcs) /\ m - C * MaxProcs = n - C * p
    BY <1>1, <1>3, <1>5, <1>7
  <2>2. MetricAt(p, n) = MetricAt(MaxProcs, m)
    <3> HIDE DEF m
    <3>1. QED
      BY <1>2, <1>7, <2>1
  <2>3. MetricAt(p, n).cpu = NoCpu /\ NoCpu \in Nat
    BY <1>2, <1>7 DEF NoCpu
  <2> HIDE DEF m
  <2>4. QED
    BY <1>4, <2>1, <2>2, <2>3
<1>8. QED
  BY <1>6, <1>7

------------------------------------------------------------------------------
(* The driver while it handles a request. *)

\* A request that was accepted has a buffer for all that is still to come.
RequestInv ==
    /\ DriverTypeOK
    /\ Handling => request.len >= HeaderSize
    /\ CapacitySuffices
    /\ reply.status = "success" => reply.bytes = SizeOf(reply.entry_count)

\* What becomes of a request in one step of the driver: it goes on, or it has
\* been answered with all that was collected.
GoesOn ==
    /\ request' \in [len : Nat, procs : 0 .. MaxProcs, at : Nat, entries : Seq(Entry)]
    /\ request'.len = request.len /\ request'.procs = request.procs
    /\ Len(request'.entries) - request'.at <= Len(request.entries) - request.at
    /\ reply' = reply

IsAnswered ==
    /\ request' = NoRequest
    /\ reply' \in [status : {"success"}, bytes : Nat, required : Nat, entry_count : Nat,
                   entries : Seq(Entry)]
    /\ reply'.bytes = SizeOf(reply'.entry_count)

LEMMA CurrentIsMetric ==
    ASSUME RequestInv, NEW kinds, Collecting(kinds)
    PROVE  Current \in Metrics /\ Current.cpu \in Nat
  BY MetricIsOne DEF RequestInv, DriverTypeOK, Collecting, Current

\* tryAddTelemetryData finds room.
LEMMA AddGoesOn ==
    ASSUME RequestInv, NEW kinds, Collecting(kinds), NEW from \in {NoDelta} \cup Nat, Add(from)
    PROVE  GoesOn
<1> DEFINE entry == [metric |-> Current, from |-> from, since |-> last[Current]]
           len == Len(request.entries)
           count == MetricCount(request.procs)
<1>1. /\ request \in [len : Nat, procs : 0 .. MaxProcs, at : Nat, entries : Seq(Entry)]
      /\ vendor \in {"AMD", "Intel"} /\ last \in [Metrics -> Nat]
  BY DEF RequestInv, DriverTypeOK
<1>2. entry \in Entry
  <2>1. last[Current] \in Nat /\ Current \in Metrics
    BY <1>1, CurrentIsMetric
  <2>2. QED
    BY <2>1 DEF Entry
<1>3. len \in Nat /\ count \in Nat /\ request.at \in Nat
  BY <1>1, Counts
<1>4. request.at < count /\ SizeOf(len + count - request.at) <= request.len
  BY DEF RequestInv, CapacitySuffices, Collecting
<1> HIDE DEF entry, len, count
<1>5. SizeOf(len + 1) <= request.len
  BY <1>1, <1>3, <1>4, Layout DEF SizeOf
<1> DEFINE more == Append(request.entries, entry)
<1>6. more \in Seq(Entry) /\ Len(more) = len + 1
  BY <1>1, <1>2, AppendedOne DEF len
<1>7. request' = [request EXCEPT !.at = request.at + 1, !.entries = more] /\ reply' = reply
  BY <1>5 DEF Add, entry, len
<1> HIDE DEF more
<1>8. /\ request'.len = request.len /\ request'.procs = request.procs
      /\ request'.at = request.at + 1 /\ request'.entries = more
  BY <1>1, <1>7
<1>9. request' \in [len : Nat, procs : 0 .. MaxProcs, at : Nat, entries : Seq(Entry)]
  <2>1. request.at + 1 \in Nat
    BY <1>3
  <2>2. QED
    BY <1>1, <1>6, <1>7, <2>1, RequestUpdated
<1>10. QED
  BY <1>3, <1>6, <1>7, <1>8, <1>9 DEF GoesOn, len

\* The loop passes a processor or a metric over.
LEMMA SkipGoesOn ==
    ASSUME RequestInv, SkipProcessor \/ SkipMissing
    PROVE  GoesOn
<1>1. PICK d \in Nat : request' = [request EXCEPT !.at = @ + d] /\ reply' = reply
  <2>1. Len(CoreMetrics) \in Nat /\ 1 \in Nat
    BY Widths DEF RequestInv, DriverTypeOK
  <2>2. QED
    BY <2>1 DEF SkipProcessor, SkipMissing
<1>2. request \in [len : Nat, procs : 0 .. MaxProcs, at : Nat, entries : Seq(Entry)]
  BY DEF RequestInv, DriverTypeOK
<1>3. /\ request'.len = request.len /\ request'.procs = request.procs
      /\ request'.at = request.at + d /\ request'.entries = request.entries
      /\ request' \in [len : Nat, procs : 0 .. MaxProcs, at : Nat, entries : Seq(Entry)]
  BY <1>1, <1>2
<1>4. Len(request.entries) \in Nat /\ request.at \in Nat
  BY <1>2
<1>5. QED
  BY <1>1, <1>3, <1>4 DEF GoesOn

\* The samples the driver keeps.
KeptState ==
    /\ \/ core_state = NoCoreState
       \/ core_state \in [0 .. max_procs - 1 -> [valid : BOOLEAN, load : Nat, power : Nat]]
    /\ pkg_state \in [{"pkg", "pp0"} -> [valid : BOOLEAN, prev : Nat]]
    /\ samples \in Nat
    /\ last \in [Metrics -> Nat]

CollectSimply ==
    CollectCoreReading \/ CollectAggregateReading \/ CollectNoLoad \/ CollectNoCorePower
      \/ CollectNoPackagePower

LEMMA SimpleStep ==
    ASSUME RequestInv, CollectSimply
    PROVE  GoesOn /\ KeptState'
<1>1. UNCHANGED <<loaded, total_procs, core_state, pkg_state, samples, last>>
  BY DEF CollectSimply, CollectCoreReading, CollectAggregateReading, CollectNoLoad,
     CollectNoCorePower, CollectNoPackagePower
<1>2. \E kinds : Collecting(kinds) /\ Add(NoDelta)
  BY DEF CollectSimply, CollectCoreReading, CollectAggregateReading, CollectNoLoad,
     CollectNoCorePower, CollectNoPackagePower
<1>3. GoesOn
  BY <1>2, AddGoesOn
<1>4. KeptState'
  BY <1>1, VendorKept DEF RequestInv, DriverTypeOK, KeptState, loaded
<1>5. QED
  BY <1>3, <1>4

LEMMA SampledTypes ==
    ASSUME RequestInv, NEW kinds, Collecting(kinds), Sampled, vendor' = vendor, samples' = samples
    PROVE  samples' \in Nat /\ last' \in [Metrics' -> Nat]
  BY CurrentIsMetric, VendorKept DEF RequestInv, DriverTypeOK, Sampled

LEMMA PowerSampled ==
    ASSUME NEW C, NEW s \in [C -> [valid : BOOLEAN, load : Nat, power : Nat]],
           NEW cpu \in C, NEW n \in Nat,
           NEW t, t = [s EXCEPT ![cpu].power = n]
    PROVE  t \in [C -> [valid : BOOLEAN, load : Nat, power : Nat]]
  OBVIOUS

\* Load and power of a processor that has its state.
LEMMA CoreStep ==
    ASSUME RequestInv, CollectLoad \/ CollectCorePower
    PROVE  GoesOn /\ KeptState'
<1> DEFINE cpu == Current.cpu
           Cpus == 0 .. max_procs - 1
           State == [valid : BOOLEAN, load : Nat, power : Nat]
<1>1. PICK kinds : Collecting(kinds)
  BY DEF CollectLoad, CollectCorePower
<1>2. /\ UNCHANGED <<loaded, total_procs, pkg_state, samples>> /\ HasState(cpu) /\ Sampled
      /\ \/ /\ Add(IF core_state[cpu].valid THEN core_state[cpu].load ELSE NoDelta)
            /\ core_state' = [core_state EXCEPT ![cpu].load = samples, ![cpu].valid = TRUE]
         \/ /\ Add(IF core_state[cpu].valid THEN core_state[cpu].power ELSE NoDelta)
            /\ core_state' = [core_state EXCEPT ![cpu].power = samples]
  BY DEF CollectLoad, CollectCorePower
<1>3. cpu \in Nat /\ core_state \in [Cpus -> State] /\ max_procs \in Nat /\ samples \in Nat
  <2>1. cpu \in Nat
    BY <1>1, CurrentIsMetric
  <2>2. core_state \in [Cpus -> State] /\ samples \in Nat
    BY <1>2 DEF HasState, RequestInv, DriverTypeOK
  <2>3. max_procs \in 1 .. total_procs /\ total_procs \in 1 .. MaxProcs
    BY DEF RequestInv, DriverTypeOK
  <2>4. max_procs \in Nat
    BY <2>3, ProcsAssumption DEF ProcsAssumption
  <2>5. QED
    BY <2>1, <2>2, <2>4
<1>4. cpu \in Cpus
  BY <1>2, <1>3 DEF HasState
<1> HIDE DEF cpu
<1>5. core_state[cpu] \in State
  BY <1>3, <1>4
<1>6. \E from \in {NoDelta} \cup Nat : Add(from)
  <2>1. core_state[cpu].load \in Nat /\ core_state[cpu].power \in Nat
    BY <1>5
  <2>2. QED
    BY <1>2, <2>1
<1>7. GoesOn
  BY <1>1, <1>6, AddGoesOn
<1>8. core_state' \in [Cpus -> State]
  <2>1. CASE core_state' = [core_state EXCEPT ![cpu].load = samples, ![cpu].valid = TRUE]
    <3> DEFINE once == [core_state EXCEPT ![cpu].load = samples]
    <3>1. once \in [Cpus -> State]
      BY <1>3, <1>4
    <3>2. core_state' = [once EXCEPT ![cpu].valid = TRUE]
      BY <2>1
    <3> HIDE DEF once
    <3>3. QED
      BY <1>4, <3>1, <3>2
  <2>2. CASE core_state' = [core_state EXCEPT ![cpu].power = samples]
    BY <1>3, <1>4, <2>2, PowerSampled
  <2>3. QED
    BY <1>2, <2>1, <2>2
<1>9. max_procs' = max_procs /\ vendor' = vendor
  BY <1>2 DEF loaded
<1>10. KeptState'
  BY <1>1, <1>2, <1>8, <1>9, SampledTypes DEF RequestInv, DriverTypeOK, KeptState
<1>11. QED
  BY <1>7, <1>10

LEMMA PackageStep ==
    ASSUME RequestInv, CollectPackagePower
    PROVE  GoesOn /\ KeptState'
<1> DEFINE kind == Current.kind
           State == [valid : BOOLEAN, prev : Nat]
<1>1. /\ Collecting({"pkg", "pp0"}) /\ kind \in {"pkg", "pp0"} /\ Sampled
      /\ Add(IF pkg_state[kind].valid THEN pkg_state[kind].prev ELSE NoDelta)
      /\ pkg_state' = [pkg_state EXCEPT ![kind] = [valid |-> TRUE, prev |-> samples]]
      /\ UNCHANGED <<loaded, total_procs, core_state, samples>>
  BY DEF CollectPackagePower, Collecting
<1> HIDE DEF kind
<1>2. pkg_state \in [{"pkg", "pp0"} -> State] /\ samples \in Nat
  BY DEF RequestInv, DriverTypeOK
<1>3. pkg_state[kind] \in State
  BY <1>1, <1>2
<1>4. GoesOn
  <2>1. pkg_state[kind].prev \in Nat
    BY <1>3
  <2>2. QED
    BY <1>1, <2>1, AddGoesOn
<1>5. pkg_state' \in [{"pkg", "pp0"} -> State]
  <2>1. [valid |-> TRUE, prev |-> samples] \in State
    BY <1>2
  <2>2. QED
    BY <1>1, <1>2, <2>1
<1>6. max_procs' = max_procs /\ vendor' = vendor
  BY <1>1 DEF loaded
<1>7. KeptState'
  BY <1>1, <1>5, <1>6, SampledTypes DEF RequestInv, DriverTypeOK, KeptState
<1>8. QED
  BY <1>4, <1>7

LEMMA CompleteStep ==
    ASSUME RequestInv, CompleteCollection
    PROVE  IsAnswered /\ KeptState'
<1>1. request \in [len : Nat, procs : 0 .. MaxProcs, at : Nat, entries : Seq(Entry)]
  BY DEF RequestInv, DriverTypeOK
<1>2. /\ Len(request.entries) \in Nat /\ SizeOf(Len(request.entries)) \in Nat
      /\ request.entries \in Seq(Entry) /\ request.procs \in Nat
  BY <1>1, Layout, ProcsAssumption DEF SizeOf, ProcsAssumption
<1>3. SizeOf(TotalEntries(request.procs)) \in Nat
  <2>1. vendor \in {"AMD", "Intel"}
    BY DEF RequestInv, DriverTypeOK
  <2>2. request.procs <= request.procs
    BY <1>2
  <2>3. QED
    BY <1>2, <2>1, <2>2, Counts
<1>4. IsAnswered
  BY <1>2, <1>3 DEF IsAnswered, CompleteCollection, CompleteRequest
<1>5. UNCHANGED <<loaded, core_state, pkg_state, samples, last>>
  BY DEF CompleteCollection
<1>6. KeptState'
  BY <1>5, VendorKept DEF RequestInv, DriverTypeOK, KeptState, loaded
<1>7. QED
  BY <1>4, <1>6

LEMMA HandleStep ==
    ASSUME RequestInv, HandleRequest
    PROVE  /\ GoesOn \/ IsAnswered
           /\ KeptState'
           /\ UNCHANGED <<vendor, max_procs, features, total_procs>>
<1>1. UNCHANGED <<vendor, max_procs, features, total_procs>>
  BY DEF HandleRequest, SkipProcessor, SkipMissing, CollectCoreReading, CollectAggregateReading,
     CollectNoLoad, CollectLoad, CollectNoCorePower, CollectCorePower, CollectNoPackagePower,
     CollectPackagePower, CompleteCollection, loaded
<1>2. CASE SkipProcessor \/ SkipMissing
  <2>1. KeptState'
    BY <1>1, <1>2, VendorKept DEF SkipProcessor, SkipMissing, RequestInv, DriverTypeOK, KeptState
  <2>2. QED
    BY <1>1, <1>2, <2>1, SkipGoesOn
<1>3. QED
  BY <1>1, <1>2, SimpleStep, CoreStep, PackageStep, CompleteStep DEF HandleRequest, CollectSimply
------------------------------------------------------------------------------
(* The driver whatever happens to it. *)

Requests == [len : Nat, procs : 0 .. MaxProcs, at : Nat, entries : Seq(Entry)]
Replies == [status : {"none", "success", "overflow", "too_small", "failed"},
            bytes : Nat, required : Nat, entry_count : Nat, entries : Seq(Entry)]

\* What the driver needs now.
Need == SizeOf(TotalEntries(total_procs))

\* RequestInv after a step that leaves the driver loaded, from its parts.
LEMMA RequestInvNext ==
    ASSUME RequestInv, UNCHANGED loaded,
           total_procs' \in total_procs .. MaxProcs,
           KeptState', request' \in Requests, reply' \in Replies,
           request' = NoRequest
             \/ /\ request'.len >= HeaderSize
                /\ SizeOf(Len(request'.entries) + MetricCount(request'.procs) - request'.at) <=
                     request'.len,
           reply'.status = "success" => reply'.bytes = SizeOf(reply'.entry_count)
    PROVE  RequestInv'
<1>1. vendor' = vendor /\ max_procs' = max_procs /\ features' = features
  BY DEF loaded
<1>2. /\ Metrics' = Metrics /\ Entry' = Entry
      /\ METRICS_PER_CORE' = METRICS_PER_CORE /\ METRICS_AGGREGATE' = METRICS_AGGREGATE
      /\ CoreMetrics' = CoreMetrics /\ AggregateMetrics' = AggregateMetrics
  BY <1>1, VendorKept DEF Entry
<1>3. total_procs' \in 1 .. MaxProcs /\ max_procs' \in 1 .. total_procs'
  BY <1>1, ProcsAssumption DEF RequestInv, DriverTypeOK, ProcsAssumption
<1>4. DriverTypeOK'
  BY <1>1, <1>2, <1>3 DEF RequestInv, DriverTypeOK, KeptState, Requests, Replies
<1>5. CapacitySuffices'
  BY <1>2 DEF CapacitySuffices, Handling, MetricCount, SizeOf
<1>6. QED
  BY <1>4, <1>5 DEF RequestInv, Handling

LEMMA DriverKept ==
    ASSUME RequestInv, UNCHANGED driverVars
    PROVE  RequestInv' /\ Need' = Need /\ Handling' = Handling /\ Entry' = Entry
<1>1. /\ UNCHANGED <<vendor, max_procs, features>>
      /\ UNCHANGED <<loaded, total_procs, core_state, pkg_state, samples, request, reply, last>>
  BY DEF driverVars, loaded
<1>2. /\ Metrics' = Metrics /\ Entry' = Entry
      /\ METRICS_PER_CORE' = METRICS_PER_CORE /\ METRICS_AGGREGATE' = METRICS_AGGREGATE
      /\ CoreMetrics' = CoreMetrics /\ AggregateMetrics' = AggregateMetrics
  BY <1>1, VendorKept DEF Entry
<1>3. QED
  BY <1>1, <1>2 DEF RequestInv, DriverTypeOK, CapacitySuffices, Handling, MetricCount, SizeOf,
     Need, TotalEntries

\* The driver's types, as the lemmas want them.
LEMMA DriverTypes ==
    ASSUME RequestInv
    PROVE  /\ vendor \in {"AMD", "Intel"} /\ total_procs \in Nat /\ total_procs \in 1 .. MaxProcs
           /\ total_procs \in 0 .. MaxProcs
           /\ request \in Requests /\ reply \in Replies /\ KeptState
           /\ Need \in Nat /\ Need > HeaderSize
<1>1. /\ vendor \in {"AMD", "Intel"} /\ total_procs \in 1 .. MaxProcs
      /\ request \in Requests /\ reply \in Replies /\ KeptState
  BY DEF RequestInv, DriverTypeOK, KeptState, Requests, Replies
<1>2. total_procs \in Nat /\ total_procs <= total_procs /\ total_procs \in 0 .. MaxProcs
  BY <1>1, ProcsAssumption DEF ProcsAssumption
<1>3. Need \in Nat /\ Need > HeaderSize
  BY <1>1, <1>2, Counts DEF Need
<1>4. QED
  BY <1>1, <1>2, <1>3

LEMMA KeptStateKept ==
    ASSUME RequestInv, UNCHANGED <<loaded, core_state, pkg_state, samples, last>>
    PROVE  KeptState'
<1>1. vendor' = vendor /\ max_procs' = max_procs
  BY DEF loaded
<1>2. QED
  BY <1>1, VendorKept DEF RequestInv, DriverTypeOK, KeptState

\* The size test, passed or not.
LEMMA RefuseStep ==
    ASSUME RequestInv, NEW len \in Nat, len >= HeaderSize, ~Handling, RefuseRequest(len)
    PROVE  /\ RequestInv' /\ ~Handling' /\ Need' = Need /\ Entry' = Entry
           /\ len < Need
           /\ reply'.status = "overflow" /\ reply'.required = Need
           /\ reply'.bytes = HeaderSize
<1>1. /\ UNCHANGED <<loaded, total_procs, core_state, pkg_state, samples, last>>
      /\ request' = NoRequest
      /\ len < Need
      /\ reply' = [status |-> "overflow", bytes |-> HeaderSize, required |-> Need,
                   entry_count |-> 0, entries |-> <<>>]
  BY DEF RefuseRequest, CompleteRequest, SizeTest, HeaderSize, Need
<1>2. total_procs' \in total_procs .. MaxProcs
  BY <1>1, DriverTypes, ProcsAssumption DEF ProcsAssumption
<1>3. request' \in Requests
  BY <1>1, ProcsAssumption DEF Requests, NoRequest, ProcsAssumption
<1>4. reply' \in Replies
  BY <1>1, DriverTypes DEF Replies, HeaderSize
<1>5. RequestInv'
  BY <1>1, <1>2, <1>3, <1>4, KeptStateKept, RequestInvNext
<1>6. Need' = Need /\ Entry' = Entry
  BY <1>1, VendorKept DEF Need, SizeOf, TotalEntries, loaded, Entry
<1>7. QED
  BY <1>1, <1>5, <1>6 DEF Handling

LEMMA AcceptStep ==
    ASSUME RequestInv, NEW len \in Nat, len >= HeaderSize, AcceptRequest(len)
    PROVE  RequestInv' /\ Handling' /\ Need' = Need /\ Entry' = Entry /\ reply' = reply
<1>1. /\ UNCHANGED <<loaded, total_procs, core_state, pkg_state, reply, last>>
      /\ samples' = samples + 1
      /\ request' = [len |-> len, procs |-> total_procs, at |-> 0, entries |-> <<>>]
      /\ ~(len < Need)
  BY DEF AcceptRequest, SizeTest, HeaderSize, Need
<1>2. total_procs' \in total_procs .. MaxProcs
  BY <1>1, DriverTypes, ProcsAssumption DEF ProcsAssumption
<1>3. request' \in Requests
  BY <1>1, DriverTypes DEF Requests
<1>4. request' # NoRequest /\ request'.len >= HeaderSize
  BY <1>1 DEF NoRequest, HeaderSize
<1>5. SizeOf(Len(request'.entries) + MetricCount(request'.procs) - request'.at) <= request'.len
  <2>1. /\ MetricCount(total_procs) \in Nat /\ TotalEntries(total_procs) = MetricCount(total_procs)
    BY DriverTypes, Counts
  <2> DEFINE count == MetricCount(total_procs)
  <2>2. Need <= len /\ Need = SizeOf(count)
    BY <1>1, <2>1, DriverTypes DEF Need
  <2>3. /\ Len(request'.entries) = 0 /\ request'.at = 0 /\ request'.len = len
        /\ MetricCount(request'.procs) = count
    BY <1>1
  <2> HIDE DEF count
  <2>4. Len(request'.entries) + count - request'.at = count
    BY <2>1, <2>3 DEF count
  <2>5. QED
    BY <2>2, <2>3, <2>4
<1>6. KeptState'
  <2>1. vendor' = vendor /\ max_procs' = max_procs
    BY <1>1 DEF loaded
  <2>2. samples' \in Nat
    BY <1>1 DEF RequestInv, DriverTypeOK
  <2>3. Metrics' = Metrics
    BY <2>1, VendorKept
  <2>4. UNCHANGED <<core_state, pkg_state, last>>
    BY <1>1
  <2>5. QED
    BY <2>1, <2>2, <2>3, <2>4, SMTT(30) DEF RequestInv, DriverTypeOK, KeptState
<1>7. reply' \in Replies /\ (reply'.status = "success" => reply'.bytes = SizeOf(reply'.entry_count))
  BY <1>1, DriverTypes DEF RequestInv
<1>8. RequestInv'
  BY <1>1, <1>2, <1>3, <1>4, <1>5, <1>6, <1>7, RequestInvNext
<1>9. Need' = Need /\ Entry' = Entry
  BY <1>1, VendorKept DEF Need, SizeOf, TotalEntries, loaded, Entry
<1>10. QED
  BY <1>1, <1>4, <1>8, <1>9 DEF Handling

\* DeviceIoControl fails before the driver sees the request.
LEMMA FailStep ==
    ASSUME RequestInv, CompleteRequest("failed", 0, 0, 0, <<>>),
           UNCHANGED <<loaded, total_procs, core_state, pkg_state, samples, last>>
    PROVE  /\ RequestInv' /\ ~Handling' /\ Need' = Need /\ Entry' = Entry
           /\ reply'.status = "failed"
<1>1. /\ request' = NoRequest
      /\ reply' = [status |-> "failed", bytes |-> 0, required |-> 0, entry_count |-> 0,
                   entries |-> <<>>]
  BY DEF CompleteRequest
<1>2. total_procs' \in total_procs .. MaxProcs
  BY DriverTypes, ProcsAssumption DEF ProcsAssumption
<1>3. request' \in Requests
  BY <1>1, ProcsAssumption DEF Requests, NoRequest, ProcsAssumption
<1>4. reply' \in Replies
  BY <1>1 DEF Replies
<1>5. RequestInv'
  BY <1>1, <1>2, <1>3, <1>4, KeptStateKept, RequestInvNext
<1>6. Need' = Need /\ Entry' = Entry
  BY VendorKept DEF Need, SizeOf, TotalEntries, loaded, Entry
<1>7. QED
  BY <1>1, <1>5, <1>6 DEF Handling

\* A processor more: the request that is being handled keeps its room.
LEMMA AddProcessorStep ==
    ASSUME RequestInv, AddProcessor
    PROVE  /\ RequestInv' /\ Handling' = Handling /\ Entry' = Entry /\ reply' = reply
           /\ Need <= Need'
<1>1. /\ total_procs < MaxProcs /\ total_procs' = total_procs + 1
      /\ UNCHANGED <<loaded, core_state, pkg_state, samples, request, reply, last>>
  BY DEF AddProcessor
<1>2. total_procs' \in total_procs .. MaxProcs /\ total_procs' \in Nat /\ total_procs <= total_procs'
  BY <1>1, DriverTypes, ProcsAssumption DEF ProcsAssumption
<1>3. KeptState'
  BY <1>1, KeptStateKept
<1>4. RequestInv'
  BY <1>1, <1>2, <1>3, DriverTypes, RequestInvNext DEF RequestInv, CapacitySuffices, Handling
<1>5. vendor' = vendor
  BY <1>1 DEF loaded
<1>6. Entry' = Entry /\ METRICS_PER_CORE' = METRICS_PER_CORE /\ METRICS_AGGREGATE' = METRICS_AGGREGATE
  BY <1>5, VendorKept DEF Entry
<1>7. Need' = SizeOf(TotalEntries(total_procs'))
  BY <1>6 DEF Need, SizeOf, TotalEntries
<1>8. Need <= Need'
  <2> DEFINE more == total_procs'
  <2>1. more \in Nat /\ total_procs <= more
    BY <1>2
  <2> HIDE DEF more
  <2>2. SizeOf(TotalEntries(total_procs)) <= SizeOf(TotalEntries(more))
    BY <2>1, DriverTypes, Counts
  <2>3. QED
    BY <1>7, <2>2 DEF Need, more
<1>9. QED
  BY <1>1, <1>4, <1>6, <1>8 DEF Handling

LEMMA NoMoreLeft ==
    ASSUME NEW m \in Nat, NEW i \in Nat, NEW n \in Nat, NEW j \in Nat, NEW c \in Nat,
           n - j <= m - i
    PROVE  m + c - i \in Int /\ n + c - j \in Int /\ n + c - j <= m + c - i
  OBVIOUS

\* The driver goes on with its request, or answers it with what it promised.
LEMMA DriverGoesOn ==
    ASSUME RequestInv, HandleRequest, Handling
    PROVE  /\ RequestInv' /\ Need' = Need /\ Entry' = Entry
           /\ request' # NoRequest => reply' = reply
           /\ request' = NoRequest => reply'.status = "success" /\ reply'.required \in Nat
<1>1. /\ KeptState' /\ UNCHANGED <<vendor, max_procs, features, total_procs>>
      /\ GoesOn \/ IsAnswered
  BY HandleStep
<1>2. UNCHANGED loaded
  BY <1>1 DEF loaded
<1>3. total_procs' \in total_procs .. MaxProcs
  BY <1>1, DriverTypes, ProcsAssumption DEF ProcsAssumption
<1>4. Need' = Need /\ Entry' = Entry
  BY <1>1, VendorKept DEF Need, SizeOf, TotalEntries, Entry
<1>5. CASE GoesOn
  <2>1. /\ request' \in Requests /\ request \in Requests
        /\ request'.len = request.len /\ request'.procs = request.procs /\ reply' = reply
        /\ Len(request'.entries) - request'.at <= Len(request.entries) - request.at
    BY <1>5, DriverTypes DEF GoesOn, Requests
  <2>2. request.len >= HeaderSize
    BY DEF RequestInv
  <2> DEFINE count == MetricCount(request.procs)
             left == Len(request.entries) + count - request.at
             leftNow == Len(request'.entries) + count - request'.at
  <2>3. count \in Nat
    <3>1. request.procs \in Nat /\ request.procs <= request.procs
      BY <2>1, ProcsAssumption DEF Requests, ProcsAssumption
    <3>2. QED
      BY <3>1, DriverTypes, Counts
  <2>4. SizeOf(left) <= request.len
    BY DEF RequestInv, CapacitySuffices
  <2>5. /\ Len(request.entries) \in Nat /\ Len(request'.entries) \in Nat
        /\ request.at \in Nat /\ request'.at \in Nat /\ request.len \in Nat
    BY <2>1 DEF Requests
  <2> HIDE DEF count
  <2>6. left \in Int /\ leftNow \in Int /\ leftNow <= left
    <3>1. Len(request'.entries) - request'.at <= Len(request.entries) - request.at
      BY <2>1
    <3>2. QED
      BY <2>3, <2>5, <3>1, NoMoreLeft
  <2> HIDE DEF left, leftNow
  <2>7. SizeOf(leftNow) <= request.len
    BY <2>4, <2>5, <2>6, Layout DEF SizeOf
  <2>8. /\ request'.len >= HeaderSize
        /\ SizeOf(Len(request'.entries) + MetricCount(request'.procs) - request'.at) <= request'.len
    BY <2>1, <2>2, <2>7 DEF leftNow, count
  <2>9. reply' \in Replies /\ (reply'.status = "success" => reply'.bytes = SizeOf(reply'.entry_count))
    BY <2>1, DriverTypes DEF RequestInv
  <2>10. RequestInv'
    BY <1>1, <1>2, <1>3, <2>1, <2>8, <2>9, RequestInvNext
  <2>11. request' # NoRequest
    BY <2>8 DEF NoRequest, HeaderSize
  <2>12. QED
    BY <1>4, <2>1, <2>10, <2>11
<1>6. CASE IsAnswered
  <2>1. request' \in Requests
    BY <1>6, ProcsAssumption DEF IsAnswered, Requests, NoRequest, ProcsAssumption
  <2>2. reply' \in Replies /\ reply'.status = "success" /\ reply'.required \in Nat
    BY <1>6 DEF IsAnswered, Replies
  <2>3. RequestInv'
    BY <1>1, <1>2, <1>3, <1>6, <2>1, <2>2, RequestInvNext DEF IsAnswered
  <2>4. QED
    BY <1>4, <1>6, <2>2, <2>3 DEF IsAnswered
<1>7. QED
  BY <1>1, <1>5, <1>6

------------------------------------------------------------------------------
(* The inductive invariant of driver and client. *)

ClientTypes ==
    /\ pc \in {"idle", "call", "wait", "answer"}
    /\ buffer_size \in Nat /\ header \in Nat
    /\ first_pass \in BOOLEAN
    /\ result \in Seq(Entry) /\ received \in Nat
    /\ runs \in 0 .. MaxRuns /\ faults \in 0 .. MaxFaults
    /\ io \in {"works", "fails"}
    /\ resizes \in Nat /\ added \in Nat /\ collected \in Nat

\* A call of runDriver goes on after an answer only while nothing was collected.
CollectInv ==
    /\ Handling <=> pc = "wait"
    /\ collected <= 1
    /\ pc = "call" => collected = 0
    /\ pc = "answer" => /\ reply.status \in {"success", "overflow", "failed"}
                        /\ reply.status # "success" => collected = 0

\* The buffer is large enough now, or the driver's need has grown and there is
\* a resize to spare.
Sized == buffer_size >= Need \/ resizes <= added

\* The buffer was resized once for the first pass, and since then only for a
\* need that had grown.
ResizeInv ==
    /\ resizes <= 1 + added
    /\ pc # "idle" => /\ buffer_size >= HeaderSize
                      /\ first_pass => resizes = 0
    /\ pc = "call" /\ ~first_pass => Sized
    /\ pc = "answer" /\ reply.status = "failed" /\ ~first_pass => Sized
    /\ pc = "answer" /\ reply.status = "overflow" =>
         /\ first_pass \/ resizes <= added
         /\ header >= Need \/ resizes + 1 <= added
         /\ header >= HeaderSize

ClientInv == RequestInv /\ ClientTypes /\ CollectInv /\ ResizeInv

LEMMA ClientInit ==
    ASSUME Init
    PROVE  ClientInv
<1>1. /\ vendor \in {"AMD", "Intel"} /\ total_procs \in 1 .. MaxProcs /\ max_procs = total_procs
      /\ features \subseteq {"mperf", "pkg_therm", "rapl"}
      /\ samples = 0 /\ request = NoRequest
      /\ pkg_state = [kind \in {"pkg", "pp0"} |-> [valid |-> FALSE, prev |-> 0]]
      /\ reply = [status |-> "none", bytes |-> 0, required |-> 0, entry_count |-> 0,
                  entries |-> <<>>]
      /\ last = [m \in Metrics |-> 0]
  BY DEF Init, InitDriver
<1>2. \/ core_state = NoCoreState
      \/ core_state \in [0 .. max_procs - 1 -> [valid : BOOLEAN, load : Nat, power : Nat]]
  <2> DEFINE start == [cpu \in 0 .. max_procs - 1 |-> [valid |-> FALSE, load |-> 0, power |-> 0]]
  <2>1. start \in [0 .. max_procs - 1 -> [valid : BOOLEAN, load : Nat, power : Nat]]
    OBVIOUS
  <2>2. core_state \in {NoCoreState} \cup (IF MayAllocate THEN {start} ELSE {})
    BY DEF Init, InitDriver
  <2> HIDE DEF start
  <2>3. QED
    BY <2>1, <2>2
<1>3. request \in [len : Nat, procs : 0 .. MaxProcs, at : Nat, entries : Seq(Entry)]
  BY <1>1, ProcsAssumption DEF NoRequest, ProcsAssumption
<1>4. reply \in [status : {"none", "success", "overflow", "too_small", "failed"},
                 bytes : Nat, required : Nat, entry_count : Nat, entries : Seq(Entry)]
  BY <1>1
<1>5. max_procs \in 1 .. total_procs
  BY <1>1, ProcsAssumption DEF ProcsAssumption
<1>6. DriverTypeOK
  BY <1>1, <1>2, <1>3, <1>4, <1>5 DEF DriverTypeOK
<1>7. RequestInv
  BY <1>1, <1>6 DEF RequestInv, Handling, CapacitySuffices
<1>8. ClientTypes /\ CollectInv /\ ResizeInv
  BY <1>1, BoundsAssumption
  DEF Init, ClientTypes, CollectInv, ResizeInv, Handling, BoundsAssumption
<1>9. QED
  BY <1>7, <1>8 DEF ClientInv

\* Steps of the client alone.
LEMMA ClientAlone ==
    ASSUME ClientInv, UNCHANGED driverVars,
           \/ RunDriver \/ ReturnAnswer \/ ResizeFirst \/ ReturnFailed \/ ResizeAgain \/ CallAgain
           \/ IoFails \/ IoRecovers
    PROVE  ClientInv'
<1>1. RequestInv' /\ Need' = Need /\ Handling' = Handling /\ Entry' = Entry /\ reply' = reply
  BY DriverKept DEF ClientInv, driverVars
<1>2. /\ Need \in Nat /\ reply.entries \in Seq(Entry)
  BY DriverTypes DEF ClientInv, Replies
<1>0. samples \in Nat
  BY DriverTypes DEF ClientInv, KeptState
<1>3. CASE RunDriver
  <2>1. ClientTypes'
    <3>1. runs' \in 0 .. MaxRuns
      BY <1>3, BoundsAssumption DEF RunDriver, ClientInv, ClientTypes, BoundsAssumption
    <3>2. buffer_size' \in Nat /\ pc' \in {"idle", "call"} /\ header' \in Nat
      BY <1>3 DEF RunDriver, HeaderSize
    <3>3. QED
      BY <1>1, <1>3, <3>1, <3>2 DEF RunDriver, ClientInv, ClientTypes
  <2>2. CollectInv'
    BY <1>1, <1>3 DEF RunDriver, ClientInv, CollectInv
  <2>3. ResizeInv'
    BY <1>1, <1>3 DEF RunDriver, ClientInv, ResizeInv, Sized, HeaderSize
  <2>4. QED
    BY <1>1, <2>1, <2>2, <2>3 DEF ClientInv
<1>4. CASE ReturnAnswer \/ ReturnFailed
  <2>1. result' \in Seq(Entry) /\ received' \in Nat
    BY <1>0, <1>1, <1>2, <1>4 DEF ReturnAnswer, ReturnFailed, ClientInv, ClientTypes
  <2>2. ClientTypes'
    <3>1. /\ pc' = "idle"
          /\ UNCHANGED <<buffer_size, header, first_pass, runs, io, faults, resizes, added,
                         collected>>
      BY <1>4 DEF ReturnAnswer, ReturnFailed, Return
    <3>2. QED
      BY <1>1, <2>1, <3>1 DEF ClientInv, ClientTypes
  <2>3. CollectInv'
    BY <1>1, <1>4 DEF ReturnAnswer, ReturnFailed, Return, Answered, ClientInv, CollectInv
  <2>4. ResizeInv'
    BY <1>1, <1>4 DEF ReturnAnswer, ReturnFailed, Return, ClientInv, ResizeInv
  <2>5. QED
    BY <1>1, <2>2, <2>3, <2>4 DEF ClientInv
<1>5. CASE ResizeFirst
  <2>1. /\ pc = "answer" /\ reply.status = "overflow" /\ first_pass /\ first_pass' = FALSE
        /\ buffer_size' = header /\ pc' \in {"call", "idle"} /\ resizes' = resizes + 1
        /\ UNCHANGED <<header, result, received, runs, io, faults, added, collected>>
    BY <1>5 DEF ResizeFirst, Resize, Answered, SizeErrors, ClientInv, CollectInv
  <2>2. ClientTypes'
    <3>1. ClientTypes
      BY DEF ClientInv
    <3>2. first_pass' \in BOOLEAN
      BY <2>1
    <3>3. /\ pc' \in {"idle", "call", "wait", "answer"} /\ buffer_size' \in Nat /\ resizes' \in Nat
          /\ header' \in Nat /\ runs' \in 0 .. MaxRuns /\ faults' \in 0 .. MaxFaults
          /\ added' \in Nat /\ collected' \in Nat
      BY <2>1, <3>1 DEF ClientTypes
    <3>4. result' \in Seq(Entry') /\ received' \in Nat /\ io' \in {"works", "fails"}
      BY <1>1, <2>1, <3>1 DEF ClientTypes
    <3>5. QED
      BY <3>2, <3>3, <3>4 DEF ClientTypes
  <2>3. CollectInv'
    BY <1>1, <2>1 DEF ClientInv, CollectInv
  <2>4. ResizeInv'
    BY <1>1, <1>2, <2>1 DEF ClientInv, ClientTypes, ResizeInv, Sized, HeaderSize
  <2>5. QED
    BY <1>1, <2>2, <2>3, <2>4 DEF ClientInv
<1>6. CASE ResizeAgain
  <2>1. /\ pc = "answer" /\ reply.status = "overflow" /\ ~first_pass /\ first_pass' = first_pass
        /\ buffer_size' = 2 * header /\ pc' \in {"call", "idle"} /\ resizes' = resizes + 1
        /\ UNCHANGED <<header, result, received, runs, io, faults, added, collected>>
    BY <1>6 DEF ResizeAgain, Resize, Answered, SizeErrors, ClientInv, CollectInv
  <2>2. ClientTypes'
    BY <1>1, <2>1 DEF ClientInv, ClientTypes
  <2>3. CollectInv'
    BY <1>1, <2>1 DEF ClientInv, CollectInv
  <2>4. ResizeInv'
    BY <1>1, <1>2, <2>1 DEF ClientInv, ClientTypes, ResizeInv, Sized, HeaderSize
  <2>5. QED
    BY <1>1, <2>2, <2>3, <2>4 DEF ClientInv
<1>7. CASE CallAgain
  <2>1. ClientTypes'
    BY <1>1, <1>7 DEF CallAgain, ClientInv, ClientTypes
  <2>2. CollectInv'
    BY <1>1, <1>7 DEF CallAgain, Answered, ClientInv, CollectInv
  <2>3. ResizeInv'
    BY <1>1, <1>7 DEF CallAgain, Answered, ClientInv, ResizeInv, Sized
  <2>4. QED
    BY <1>1, <2>1, <2>2, <2>3 DEF ClientInv
<1>8. CASE IoFails \/ IoRecovers
  <2>1. UNCHANGED <<pc, buffer_size, header, first_pass, result, received, runs, resizes,
                   added, collected>>
    BY <1>8 DEF IoFails, IoRecovers
  <2>2. ClientTypes'
    <3>1. faults' \in 0 .. MaxFaults /\ io' \in {"works", "fails"}
      BY <1>8, BoundsAssumption DEF IoFails, IoRecovers, ClientInv, ClientTypes, BoundsAssumption
    <3>2. QED
      BY <1>1, <2>1, <3>1 DEF ClientInv, ClientTypes
  <2>3. CollectInv'
    BY <1>1, <2>1 DEF ClientInv, CollectInv
  <2>4. ResizeInv'
    BY <1>1, <2>1 DEF ClientInv, ResizeInv, Sized
  <2>5. QED
    BY <1>1, <2>2, <2>3, <2>4 DEF ClientInv
<1>9. QED
  BY <1>3, <1>4, <1>5, <1>6, <1>7, <1>8

\* Steps of the driver, and what DeviceIoControl makes of them.
LEMMA CallStep ==
    ASSUME ClientInv, CallRefused \/ CallAccepted \/ CallFails
    PROVE  ClientInv'
<1>1. /\ buffer_size \in Nat /\ buffer_size >= HeaderSize /\ ~Handling /\ RequestInv
      /\ pc = "call" /\ collected = 0
  BY DEF CallRefused, CallAccepted, CallFails, ClientInv, ClientTypes, CollectInv, ResizeInv
<1>2. Need \in Nat /\ Need > HeaderSize
  BY <1>1, DriverTypes
<1>3. UNCHANGED <<buffer_size, first_pass, result, received, runs, io, faults, resizes, added>>
  BY DEF CallRefused, CallAccepted, CallFails
<1>4. CASE CallRefused
  <2>1. /\ RequestInv' /\ ~Handling' /\ Need' = Need /\ Entry' = Entry
        /\ buffer_size < Need
        /\ reply'.status = "overflow" /\ reply'.required = Need
        /\ reply'.bytes = HeaderSize
    BY <1>1, <1>4, RefuseStep DEF CallRefused
  <2>2. header' = Need /\ pc' = "answer" /\ collected' = collected
    BY <1>4, <2>1 DEF CallRefused, HeaderSize
  <2>3. ClientTypes'
    BY <1>2, <1>3, <2>1, <2>2 DEF ClientInv, ClientTypes
  <2>4. CollectInv'
    BY <1>1, <2>1, <2>2 DEF CollectInv
  <2>5. ResizeInv'
    <3>1. first_pass \/ resizes <= added
      <4>1. ~(buffer_size >= Need)
        BY <1>1, <1>2, <2>1
      <4>2. QED
        BY <1>1, <4>1 DEF ClientInv, ResizeInv, Sized
    <3>2. header' >= Need' /\ header' >= HeaderSize
      BY <1>2, <2>1, <2>2 DEF HeaderSize
    <3>3. resizes <= 1 + added /\ (first_pass => resizes = 0)
      BY <1>1 DEF ClientInv, ResizeInv
    <3>4. QED
      BY <1>1, <1>3, <2>1, <2>2, <3>1, <3>2, <3>3 DEF ResizeInv
  <2>6. QED
    BY <2>1, <2>3, <2>4, <2>5 DEF ClientInv
<1>5. CASE CallAccepted
  <2>1. RequestInv' /\ Handling' /\ Need' = Need /\ Entry' = Entry /\ reply' = reply
    BY <1>1, <1>5, AcceptStep DEF CallAccepted
  <2>2. pc' = "wait" /\ collected' = collected + 1 /\ header' = header
    BY <1>5 DEF CallAccepted
  <2>3. ClientTypes'
    BY <1>3, <2>1, <2>2 DEF ClientInv, ClientTypes
  <2>4. CollectInv'
    BY <1>1, <2>1, <2>2 DEF CollectInv
  <2>5. ResizeInv'
    BY <1>1, <1>3, <2>2 DEF ClientInv, ResizeInv
  <2>6. QED
    BY <2>1, <2>3, <2>4, <2>5 DEF ClientInv
<1>6. CASE CallFails
  <2>1. RequestInv' /\ ~Handling' /\ Need' = Need /\ Entry' = Entry /\ reply'.status = "failed"
    BY <1>1, <1>6, FailStep DEF CallFails
  <2>2. pc' = "answer" /\ collected' = collected /\ header' = header
    BY <1>6 DEF CallFails
  <2>3. ClientTypes'
    BY <1>3, <2>1, <2>2 DEF ClientInv, ClientTypes
  <2>4. CollectInv'
    BY <1>1, <2>1, <2>2 DEF CollectInv
  <2>5. ResizeInv'
    BY <1>1, <1>3, <2>1, <2>2 DEF ClientInv, ResizeInv, Sized
  <2>6. QED
    BY <2>1, <2>3, <2>4, <2>5 DEF ClientInv
<1>7. QED
  BY <1>4, <1>5, <1>6

LEMMA WaitStep ==
    ASSUME ClientInv, DriverStep
    PROVE  ClientInv'
<1>1. /\ pc = "wait" /\ Handling /\ RequestInv /\ collected <= 1
      /\ UNCHANGED <<buffer_size, first_pass, result, received, runs, io, faults, resizes,
                     added, collected>>
  BY DEF DriverStep, ClientInv, CollectInv
<1>2. /\ RequestInv' /\ Need' = Need /\ Entry' = Entry
      /\ request' # NoRequest => reply' = reply
      /\ request' = NoRequest => reply'.status = "success" /\ reply'.required \in Nat
  BY <1>1, DriverGoesOn DEF DriverStep
<1>3. CASE request' = NoRequest
  <2>1. pc' = "answer" /\ header' = reply'.required /\ ~Handling'
    BY <1>3 DEF DriverStep, Handling
  <2>2. ClientTypes'
    BY <1>1, <1>2, <1>3, <2>1 DEF ClientInv, ClientTypes
  <2>3. CollectInv' /\ ResizeInv'
    BY <1>1, <1>2, <1>3, <2>1 DEF ClientInv, CollectInv, ResizeInv
  <2>4. QED
    BY <1>2, <2>2, <2>3 DEF ClientInv
<1>4. CASE request' # NoRequest
  <2>1. pc' = pc /\ header' = header /\ Handling'
    BY <1>4 DEF DriverStep, Handling
  <2>2. ClientTypes'
    BY <1>1, <1>2, <2>1 DEF ClientInv, ClientTypes
  <2>3. CollectInv' /\ ResizeInv'
    BY <1>1, <2>1 DEF ClientInv, CollectInv, ResizeInv
  <2>4. QED
    BY <1>2, <2>2, <2>3 DEF ClientInv
<1>5. QED
  BY <1>3, <1>4

LEMMA HotAddStep ==
    ASSUME ClientInv, HotAdd
    PROVE  ClientInv'
<1>1. /\ RequestInv' /\ Handling' = Handling /\ Entry' = Entry /\ reply' = reply
      /\ Need <= Need'
  BY AddProcessorStep DEF HotAdd, ClientInv
<1>2. /\ added' = added + 1
      /\ UNCHANGED <<pc, buffer_size, header, first_pass, result, received, runs, io, faults, resizes,
                     collected>>
  BY DEF HotAdd
<1>3. ClientTypes'
  BY <1>1, <1>2 DEF ClientInv, ClientTypes
<1>4. CollectInv'
  BY <1>1, <1>2 DEF ClientInv, CollectInv
<1>5. ResizeInv'
  <2>1. resizes \in Nat /\ added \in Nat /\ resizes <= 1 + added
    BY DEF ClientInv, ClientTypes, ResizeInv
  <2>2. resizes <= added'
    BY <1>2, <2>1
  <2>3. pc = "answer" /\ reply.status = "overflow" => resizes + 1 <= added'
    BY <1>2, <2>1 DEF ClientInv, ResizeInv
  <2>4. resizes' <= 1 + added'
    BY <1>2, <2>1
  <2>5. QED
    BY <1>1, <1>2, <2>2, <2>3, <2>4 DEF ClientInv, ResizeInv, Sized
<1>6. QED
  BY <1>1, <1>3, <1>4, <1>5 DEF ClientInv

LEMMA ClientNext ==
    ASSUME ClientInv, [Next]_vars
    PROVE  ClientInv'
<1>1. CASE CallRefused \/ CallAccepted \/ CallFails
  BY <1>1, CallStep
<1>2. CASE DriverStep
  BY <1>2, WaitStep
<1>3. CASE HotAdd
  BY <1>3, HotAddStep
<1>4. CASE RunDriver \/ ReturnAnswer \/ ResizeFirst \/ ReturnFailed \/ ResizeAgain \/ CallAgain
             \/ IoFails \/ IoRecovers
  <2>1. UNCHANGED driverVars
    BY <1>4 DEF RunDriver, ReturnAnswer, ResizeFirst, ReturnFailed, ResizeAgain, Resize, CallAgain,
       IoFails, IoRecovers
  <2>2. QED
    BY <1>4, <2>1, ClientAlone
<1>5. CASE UNCHANGED vars
  <2>1. /\ UNCHANGED driverVars
        /\ UNCHANGED <<pc, buffer_size, header, first_pass, result, received, runs, io, faults, resizes,
                       added, collected>>
    BY <1>5 DEF vars, clientVars
  <2>2. RequestInv' /\ Need' = Need /\ Handling' = Handling /\ Entry' = Entry /\ reply' = reply
    BY <2>1, DriverKept DEF ClientInv, driverVars
  <2>3. QED
    BY <2>1, <2>2 DEF ClientInv, ClientTypes, CollectInv, ResizeInv, Sized
<1>6. QED
  BY <1>1, <1>2, <1>3, <1>4, <1>5 DEF Next, Running, Machine, AllRun

THEOREM ClientInvariant == Spec => []ClientInv
<1>1. Init => ClientInv
  BY ClientInit
<1>2. ClientInv /\ [Next]_vars => ClientInv'
  BY ClientNext
<1>3. QED
  BY <1>1, <1>2, PTL DEF Spec

------------------------------------------------------------------------------
(* No sample is lost on its way. *)

\* Only an answer that is still to be returned has a newer sample.
ReceivedInv ==
    /\ pc \in {"idle", "call"} => received = samples
    /\ pc = "answer" /\ reply.status # "success" => received = samples

\* The client computes for the entries of an answer what the driver did.
LEMMA AnswerComplete ==
    ASSUME ClientInv, reply.status = "success"
    PROVE  ~Incomplete
<1>1. reply.entry_count \in Nat /\ reply.bytes = SizeOf(reply.entry_count)
  BY DriverTypes DEF ClientInv, RequestInv, Replies
<1>2. QED
  BY <1>1, Layout DEF Incomplete, SizeOf

LEMMA ReceivedNext ==
    ASSUME ClientInv, ReceivedInv, [Next]_vars
    PROVE  ReceivedInv'
<1>1. CASE CallRefused \/ CallFails
  <2>1. pc = "call" /\ pc' = "answer" /\ UNCHANGED <<received, samples>>
    BY <1>1 DEF CallRefused, CallFails, RefuseRequest
  <2>2. QED
    BY <2>1 DEF ReceivedInv
<1>2. CASE CallAccepted
  BY <1>2 DEF CallAccepted, ReceivedInv
<1>3. CASE DriverStep
  <2>1. pc = "wait" /\ HandleRequest /\ Handling /\ RequestInv
    BY <1>3 DEF DriverStep, ClientInv, CollectInv
  <2>2. request' = NoRequest => reply'.status = "success"
    BY <2>1, DriverGoesOn
  <2>3. \/ pc' = "answer" /\ request' = NoRequest
        \/ pc' = "wait"
    BY <1>3, <2>1 DEF DriverStep
  <2>4. QED
    BY <2>2, <2>3 DEF ReceivedInv
<1>4. CASE ReturnAnswer
  <2>1. reply.status = "success"
    BY <1>4 DEF ReturnAnswer, Answered
  <2>2. received' = samples /\ samples' = samples /\ pc' = "idle"
    BY <1>4, <2>1, AnswerComplete DEF ReturnAnswer, Return, driverVars
  <2>3. QED
    BY <2>2 DEF ReceivedInv
<1>5. CASE ResizeFirst \/ ResizeAgain \/ ReturnFailed \/ CallAgain
  <2>1. /\ pc = "answer" /\ reply.status # "success" /\ pc' \in {"idle", "call"}
        /\ UNCHANGED <<received, samples>>
    BY <1>5 DEF ResizeFirst, ResizeAgain, Resize, ReturnFailed, Return, CallAgain, Answered,
       SizeErrors, driverVars
  <2>2. QED
    BY <2>1 DEF ReceivedInv
<1>6. CASE RunDriver
  <2>1. pc = "idle" /\ pc' \in {"idle", "call"} /\ UNCHANGED <<received, samples>>
    BY <1>6 DEF RunDriver, driverVars
  <2>2. QED
    BY <2>1 DEF ReceivedInv
<1>7. CASE HotAdd \/ IoFails \/ IoRecovers \/ UNCHANGED vars
  <2>1. UNCHANGED <<pc, reply, received, samples>>
    BY <1>7 DEF HotAdd, AddProcessor, IoFails, IoRecovers, vars, clientVars, driverVars
  <2>2. QED
    BY <2>1 DEF ReceivedInv
<1>8. QED
  BY <1>1, <1>2, <1>3, <1>4, <1>5, <1>6, <1>7 DEF Next, Running, Machine, AllRun

------------------------------------------------------------------------------
(* Differences are taken to the last sample of the same metric. *)

DifferenceKinds == {"load", "pkg", "pp0"}
LoadOf(cpu) == [kind |-> "load", cpu |-> cpu]
PowerOf(kind) == [kind |-> kind, cpu |-> NoCpu]

TrueEntries(entries) ==
    \A n \in 1 .. Len(entries) :
        entries[n].metric.kind \in DifferenceKinds => TrueDelta(entries[n])

\* A reading that is marked valid is the last sample of its metric.
LoadsKept ==
    core_state # NoCoreState =>
      \A cpu \in 0 .. max_procs - 1 :
        core_state[cpu].valid => /\ LoadOf(cpu) \in Metrics
                                 /\ core_state[cpu].load # 0
                                 /\ core_state[cpu].load = last[LoadOf(cpu)]

PowersKept ==
    \A kind \in {"pkg", "pp0"} :
        pkg_state[kind].valid => /\ PowerOf(kind) \in Metrics
                                 /\ pkg_state[kind].prev # 0
                                 /\ pkg_state[kind].prev = last[PowerOf(kind)]

DeltaInv ==
    /\ Handling => samples # 0
    /\ LoadsKept /\ PowersKept
    /\ TrueEntries(request.entries) /\ TrueEntries(reply.entries)

\* What the metric a request has reached looks like.
LEMMA CurrentFields ==
    ASSUME RequestInv, NEW kinds, Collecting(kinds)
    PROVE  /\ Current \in Metrics
           /\ Current = [kind |-> Current.kind, cpu |-> Current.cpu]
           /\ Current.kind \in kinds
           /\ Current.kind \in {"pkg", "pp0"} => Current.cpu = NoCpu
<1> DEFINE C == Len(CoreMetrics)
           n == request.at
           start == C * request.procs
<1>1. vendor \in {"AMD", "Intel"} /\ request \in Requests
  BY DriverTypes
<1>2. /\ C \in {3, 4} /\ C = Len(CoreMetrics)
      /\ \A i \in 1 .. C : CoreMetrics[i] \notin {"pkg", "pp0"}
  <2>1. CASE vendor = "AMD"
    BY <2>1 DEF CoreMetrics
  <2>2. CASE vendor = "Intel"
    BY <2>2 DEF CoreMetrics
  <2>3. QED
    BY <1>1, <2>1, <2>2
<1>3. Current = IF n < start
                THEN [kind |-> CoreMetrics[(n % C) + 1], cpu |-> n \div C]
                ELSE [kind |-> AggregateMetrics[n - start + 1], cpu |-> NoCpu]
  BY DEF Current, MetricAt
<1>4. n \in Nat /\ Current.kind \in kinds /\ Current \in Metrics
  BY <1>1, CurrentIsMetric DEF Requests, Collecting
<1> HIDE DEF C, n, start
<1>5. (n % C) + 1 \in 1 .. C
  BY <1>2, <1>4
<1>6. QED
  BY <1>2, <1>3, <1>4, <1>5

\* What is appended is a true difference when it says that it is one.
LEMMA AddTrue ==
    ASSUME RequestInv, NEW kinds, Collecting(kinds), NEW from \in {NoDelta} \cup Nat, Add(from),
           TrueEntries(request.entries), TrueEntries(reply.entries),
           Current.kind \in DifferenceKinds /\ from # NoDelta => from # 0 /\ from = last[Current]
    PROVE  TrueEntries(request'.entries) /\ TrueEntries(reply'.entries)
<1> DEFINE entry == [metric |-> Current, from |-> from, since |-> last[Current]]
           more == Append(request.entries, entry)
<1>1. request \in Requests /\ last \in [Metrics -> Nat] /\ Current \in Metrics
  BY DriverTypes, CurrentIsMetric DEF KeptState
<1>2. entry \in Entry
  <2>1. last[Current] \in Nat
    BY <1>1
  <2>2. QED
    BY <1>1, <2>1 DEF Entry
<1>3. entry.metric.kind \in DifferenceKinds => TrueDelta(entry)
  BY DEF TrueDelta
<1>4. CASE request' = [request EXCEPT !.at = request.at + 1, !.entries = more] /\ reply' = reply
  <2>1. request'.entries = more
    BY <1>1, <1>4 DEF Requests
  <2>2. TrueEntries(more)
    <3> HIDE DEF entry
    <3>1. request.entries \in Seq(Entry)
      BY <1>1 DEF Requests
    <3>2. QED
      BY <1>2, <1>3, <3>1 DEF TrueEntries
  <2>3. QED
    BY <1>4, <2>1, <2>2
<1>5. CASE request' = NoRequest /\ reply'.entries = <<>>
  BY <1>5 DEF TrueEntries, NoRequest
<1>6. QED
  BY <1>4, <1>5 DEF Add, CompleteRequest

\* Nothing that carries a difference is touched.
LEMMA KeptReadings ==
    ASSUME DeltaInv, UNCHANGED <<loaded, core_state, pkg_state, last>>
    PROVE  LoadsKept' /\ PowersKept'
<1>1. Metrics' = Metrics /\ max_procs' = max_procs
  BY VendorKept DEF loaded
<1>2. QED
  BY <1>1 DEF DeltaInv, LoadsKept, PowersKept

\* Metrics that take no difference, and the end of the collection.
LEMMA PlainDelta ==
    ASSUME RequestInv, DeltaInv, Handling,
           CollectSimply \/ SkipProcessor \/ SkipMissing \/ CompleteCollection
    PROVE  DeltaInv'
<1>1. /\ UNCHANGED <<loaded, core_state, pkg_state, last>> /\ samples' = samples
      /\ request \in Requests
  BY DriverTypes
  DEF CollectSimply, CollectCoreReading, CollectAggregateReading, CollectNoLoad, CollectNoCorePower,
      CollectNoPackagePower, SkipProcessor, SkipMissing, CompleteCollection
<1>2. LoadsKept' /\ PowersKept' /\ samples' # 0
  BY <1>1, KeptReadings DEF DeltaInv
<1>3. TrueEntries(request'.entries) /\ TrueEntries(reply'.entries)
  <2>1. CASE CollectSimply
    <3>1. \E kinds : Collecting(kinds) /\ Add(NoDelta)
      BY <2>1 DEF CollectSimply, CollectCoreReading, CollectAggregateReading, CollectNoLoad,
         CollectNoCorePower, CollectNoPackagePower
    <3>2. QED
      BY <3>1, AddTrue DEF DeltaInv
  <2>2. CASE SkipProcessor \/ SkipMissing
    <3>1. request'.entries = request.entries /\ reply' = reply
      BY <1>1, <2>2 DEF SkipProcessor, SkipMissing, Requests
    <3>2. QED
      BY <3>1 DEF DeltaInv
  <2>3. CASE CompleteCollection
    <3>1. request' = NoRequest /\ reply'.entries = request.entries
      BY <2>3 DEF CompleteCollection, CompleteRequest
    <3>2. QED
      BY <3>1 DEF DeltaInv, TrueEntries, NoRequest
  <2>4. QED
    BY <2>1, <2>2, <2>3
<1>4. QED
  BY <1>2, <1>3 DEF DeltaInv

\* The load of one processor becomes the last sample of its metric, and no
\* other processor's is touched.
LEMMA LoadDelta ==
    ASSUME RequestInv, DeltaInv, CollectLoad
    PROVE  DeltaInv'
<1> DEFINE c == Current.cpu
           State == [valid : BOOLEAN, load : Nat, power : Nat]
           from == IF core_state[c].valid THEN core_state[c].load ELSE NoDelta
<1>1. /\ Collecting({"load"}) /\ HasState(c) /\ Add(from) /\ Sampled
      /\ core_state' = [core_state EXCEPT ![c].load = samples, ![c].valid = TRUE]
      /\ UNCHANGED <<loaded, pkg_state, samples>>
  BY DEF CollectLoad
<1>2. /\ Current = LoadOf(c) /\ Current \in Metrics /\ samples # 0 /\ samples \in Nat
      /\ last' = [last EXCEPT ![LoadOf(c)] = samples] /\ last \in [Metrics -> Nat]
  BY <1>1, CurrentFields, DriverTypes DEF LoadOf, Collecting, DeltaInv, KeptState, Sampled
<1>3. core_state \in [0 .. max_procs - 1 -> State] /\ c \in 0 .. max_procs - 1
  <2>1. core_state \in [0 .. max_procs - 1 -> State] /\ max_procs \in 1 .. total_procs
    BY <1>1 DEF HasState, RequestInv, DriverTypeOK
  <2>2. c \in Nat /\ total_procs \in Nat
    BY <1>1, CurrentIsMetric, DriverTypes
  <2>3. QED
    BY <1>1, <2>1, <2>2 DEF HasState
<1>4. core_state[c] \in State
  BY <1>3
<1>5. TrueEntries(request'.entries) /\ TrueEntries(reply'.entries)
  <2>1. from \in {NoDelta} \cup Nat
    BY <1>4
  <2>2. from # NoDelta => from # 0 /\ from = last[Current]
    BY <1>1, <1>2, <1>3 DEF DeltaInv, LoadsKept, HasState
  <2> HIDE DEF from
  <2>3. QED
    BY <1>1, <2>1, <2>2, AddTrue DEF DeltaInv
<1> HIDE DEF c
<1>6. Metrics' = Metrics /\ max_procs' = max_procs
  BY <1>1, VendorKept DEF loaded
<1>7. LoadsKept'
  <2> SUFFICES ASSUME NEW cpu \in 0 .. max_procs - 1, core_state'[cpu].valid
               PROVE  /\ LoadOf(cpu) \in Metrics /\ core_state'[cpu].load # 0
                      /\ core_state'[cpu].load = last'[LoadOf(cpu)]
    BY <1>6 DEF LoadsKept
  <2>1. CASE cpu = c
    <3>1. core_state'[c].load = samples /\ last'[LoadOf(c)] = samples
      BY <1>1, <1>2, <1>3
    <3>2. QED
      BY <1>2, <2>1, <3>1
  <2>2. CASE cpu # c
    <3>1. core_state'[cpu] = core_state[cpu] /\ LoadOf(cpu) # LoadOf(c)
      BY <1>1, <1>3, <2>2 DEF LoadOf
    <3>2. LoadOf(cpu) \in Metrics /\ core_state[cpu].load # 0
          /\ core_state[cpu].load = last[LoadOf(cpu)]
      BY <1>1, <3>1 DEF DeltaInv, LoadsKept, HasState
    <3>3. last'[LoadOf(cpu)] = last[LoadOf(cpu)]
      BY <1>2, <3>1, <3>2
    <3>4. QED
      BY <3>1, <3>2, <3>3
  <2>3. QED
    BY <2>1, <2>2
<1>8. PowersKept'
  <2>1. \A kind \in {"pkg", "pp0"} : PowerOf(kind) # LoadOf(c)
    BY DEF PowerOf, LoadOf
  <2>2. QED
    BY <1>1, <1>2, <1>6, <2>1 DEF DeltaInv, PowersKept
<1>9. QED
  BY <1>1, <1>2, <1>5, <1>7, <1>8 DEF DeltaInv

\* The core's power touches neither the load nor the flag that says it is one.
LEMMA CorePowerDelta ==
    ASSUME RequestInv, DeltaInv, CollectCorePower
    PROVE  DeltaInv'
<1> DEFINE c == Current.cpu
           State == [valid : BOOLEAN, load : Nat, power : Nat]
           from == IF core_state[c].valid THEN core_state[c].power ELSE NoDelta
<1>1. /\ Collecting({"power"}) /\ HasState(c) /\ Add(from) /\ Sampled
      /\ core_state' = [core_state EXCEPT ![c].power = samples]
      /\ UNCHANGED <<loaded, pkg_state, samples>>
  BY DEF CollectCorePower
<1>2. /\ Current.kind = "power" /\ Current \in Metrics /\ samples # 0
      /\ last' = [last EXCEPT ![Current] = samples] /\ last \in [Metrics -> Nat]
  BY <1>1, CurrentFields, DriverTypes DEF Collecting, DeltaInv, KeptState, Sampled
<1>3. core_state \in [0 .. max_procs - 1 -> State] /\ c \in 0 .. max_procs - 1
  <2>1. core_state \in [0 .. max_procs - 1 -> State] /\ max_procs \in 1 .. total_procs
    BY <1>1 DEF HasState, RequestInv, DriverTypeOK
  <2>2. c \in Nat /\ total_procs \in Nat
    BY <1>1, CurrentIsMetric, DriverTypes
  <2>3. QED
    BY <1>1, <2>1, <2>2 DEF HasState
<1>4. TrueEntries(request'.entries) /\ TrueEntries(reply'.entries)
  <2>1. from \in {NoDelta} \cup Nat
    BY <1>3
  <2> HIDE DEF from
  <2>2. QED
    BY <1>1, <1>2, <2>1, AddTrue DEF DeltaInv, DifferenceKinds
<1> HIDE DEF c
<1>5. Metrics' = Metrics /\ max_procs' = max_procs
  BY <1>1, VendorKept DEF loaded
<1>6. \A cpu \in 0 .. max_procs - 1 : /\ core_state'[cpu].valid = core_state[cpu].valid
                                      /\ core_state'[cpu].load = core_state[cpu].load
  BY <1>1, <1>3
<1>7. \A m \in Metrics : m.kind # "power" => last'[m] = last[m]
  BY <1>2
<1>8. LoadsKept'
  <2> SUFFICES ASSUME NEW cpu \in 0 .. max_procs - 1, core_state'[cpu].valid
               PROVE  /\ LoadOf(cpu) \in Metrics /\ core_state'[cpu].load # 0
                      /\ core_state'[cpu].load = last'[LoadOf(cpu)]
    BY <1>5 DEF LoadsKept
  <2>1. LoadOf(cpu) \in Metrics /\ core_state[cpu].load # 0
        /\ core_state[cpu].load = last[LoadOf(cpu)]
    BY <1>1, <1>6 DEF DeltaInv, LoadsKept, HasState
  <2>2. LoadOf(cpu).kind # "power"
    BY DEF LoadOf
  <2>3. QED
    BY <1>6, <1>7, <2>1, <2>2
<1>9. PowersKept'
  <2>1. \A kind \in {"pkg", "pp0"} : PowerOf(kind).kind # "power"
    BY DEF PowerOf
  <2>2. QED
    BY <1>1, <1>5, <1>7, <2>1 DEF DeltaInv, PowersKept
<1>10. QED
  BY <1>1, <1>2, <1>4, <1>8, <1>9 DEF DeltaInv

LEMMA PackageDelta ==
    ASSUME RequestInv, DeltaInv, CollectPackagePower
    PROVE  DeltaInv'
<1> DEFINE k == Current.kind
           State == [valid : BOOLEAN, prev : Nat]
           from == IF pkg_state[k].valid THEN pkg_state[k].prev ELSE NoDelta
<1>1. /\ Collecting({"pkg", "pp0"}) /\ Add(from) /\ Sampled
      /\ pkg_state' = [pkg_state EXCEPT ![k] = [valid |-> TRUE, prev |-> samples]]
      /\ UNCHANGED <<loaded, core_state, samples>>
  BY DEF CollectPackagePower
<1>2. /\ k \in {"pkg", "pp0"} /\ Current = PowerOf(k) /\ Current \in Metrics /\ samples # 0
      /\ last' = [last EXCEPT ![PowerOf(k)] = samples] /\ last \in [Metrics -> Nat]
  BY <1>1, CurrentFields, DriverTypes DEF PowerOf, Collecting, DeltaInv, KeptState, Sampled
<1>3. pkg_state \in [{"pkg", "pp0"} -> State] /\ pkg_state[k] \in State
  BY <1>2, DriverTypes DEF KeptState
<1>4. TrueEntries(request'.entries) /\ TrueEntries(reply'.entries)
  <2>1. from \in {NoDelta} \cup Nat
    BY <1>3
  <2>2. from # NoDelta => from # 0 /\ from = last[Current]
    BY <1>2 DEF DeltaInv, PowersKept
  <2> HIDE DEF from
  <2>3. QED
    BY <1>1, <2>1, <2>2, AddTrue DEF DeltaInv
<1> HIDE DEF k
<1>5. Metrics' = Metrics /\ max_procs' = max_procs
  BY <1>1, VendorKept DEF loaded
<1>6. PowersKept'
  <2> SUFFICES ASSUME NEW kind \in {"pkg", "pp0"}, pkg_state'[kind].valid
               PROVE  /\ PowerOf(kind) \in Metrics /\ pkg_state'[kind].prev # 0
                      /\ pkg_state'[kind].prev = last'[PowerOf(kind)]
    BY <1>5 DEF PowersKept
  <2>1. CASE kind = k
    <3>1. pkg_state'[k].prev = samples /\ last'[PowerOf(k)] = samples
      BY <1>1, <1>2, <1>3
    <3>2. QED
      BY <1>2, <2>1, <3>1
  <2>2. CASE kind # k
    <3>1. pkg_state'[kind] = pkg_state[kind] /\ PowerOf(kind) # PowerOf(k)
      BY <1>1, <1>3, <2>2 DEF PowerOf
    <3>2. PowerOf(kind) \in Metrics /\ pkg_state[kind].prev # 0
          /\ pkg_state[kind].prev = last[PowerOf(kind)]
      BY <3>1 DEF DeltaInv, PowersKept
    <3>3. last'[PowerOf(kind)] = last[PowerOf(kind)]
      BY <1>2, <3>1, <3>2
    <3>4. QED
      BY <3>1, <3>2, <3>3
  <2>3. QED
    BY <2>1, <2>2
<1>7. LoadsKept'
  <2>1. \A cpu : LoadOf(cpu) # PowerOf(k)
    BY <1>2 DEF PowerOf, LoadOf
  <2>2. QED
    BY <1>1, <1>2, <1>5, <2>1 DEF DeltaInv, LoadsKept
<1>8. QED
  BY <1>1, <1>2, <1>4, <1>6, <1>7 DEF DeltaInv

\* A request begins, is refused or does not get to the driver; and whatever
\* the client does meanwhile.
LEMMA OutsideDelta ==
    ASSUME ClientInv, DeltaInv, UNCHANGED <<loaded, core_state, pkg_state, last>>,
           \/ /\ request' = NoRequest /\ reply'.entries = <<>>
           \/ /\ request'.entries = <<>> /\ reply' = reply /\ samples' = samples + 1
           \/ UNCHANGED <<request, reply, samples>>
    PROVE  DeltaInv'
<1>1. LoadsKept' /\ PowersKept'
  BY KeptReadings
<1>2. samples \in Nat
  BY DriverTypes DEF ClientInv, KeptState
<1>3. Handling' => samples' # 0
  BY <1>2 DEF DeltaInv, Handling
<1>4. TrueEntries(<<>>)
  BY DEF TrueEntries
<1>5. TrueEntries(request'.entries) /\ TrueEntries(reply'.entries)
  BY <1>4 DEF DeltaInv, NoRequest
<1>6. QED
  BY <1>1, <1>3, <1>5 DEF DeltaInv

LEMMA DeltaNext ==
    ASSUME ClientInv, DeltaInv, [Next]_vars
    PROVE  DeltaInv'
<1>1. CASE DriverStep
  <2>1. RequestInv /\ Handling /\ HandleRequest
    BY <1>1 DEF ClientInv, CollectInv, DriverStep
  <2>2. QED
    BY <2>1, PlainDelta, LoadDelta, CorePowerDelta, PackageDelta DEF HandleRequest, CollectSimply
<1>2. CASE CallRefused \/ CallFails
  <2>1. /\ UNCHANGED <<loaded, core_state, pkg_state, last>>
        /\ request' = NoRequest /\ reply'.entries = <<>>
    BY <1>2 DEF CallRefused, CallFails, RefuseRequest, CompleteRequest
  <2>2. QED
    BY <2>1, OutsideDelta
<1>3. CASE CallAccepted
  <2>1. /\ UNCHANGED <<loaded, core_state, pkg_state, last>>
        /\ request'.entries = <<>> /\ reply' = reply /\ samples' = samples + 1
    BY <1>3 DEF CallAccepted, AcceptRequest
  <2>2. QED
    BY <2>1, OutsideDelta
<1>4. CASE \/ RunDriver \/ ReturnAnswer \/ ResizeFirst \/ ReturnFailed \/ ResizeAgain \/ CallAgain
           \/ HotAdd \/ IoFails \/ IoRecovers \/ UNCHANGED vars
  <2>1. UNCHANGED <<loaded, core_state, pkg_state, last, request, reply, samples>>
    BY <1>4 DEF RunDriver, ReturnAnswer, ResizeFirst, ReturnFailed, ResizeAgain, Resize, CallAgain,
       HotAdd, AddProcessor, IoFails, IoRecovers, driverVars, vars
  <2>2. QED
    BY <2>1, OutsideDelta
<1>5. QED
  BY <1>1, <1>2, <1>3, <1>4 DEF Next, Running, Machine, AllRun

THEOREM DeltaInvariant == Spec => []DeltaInv
<1>1. ASSUME Init
      PROVE  DeltaInv
  <2>1. request = NoRequest /\ reply.entries = <<>>
    BY <1>1 DEF Init, InitDriver
  <2>2. LoadsKept
    <3>1. core_state # NoCoreState =>
            core_state = [cpu \in 0 .. max_procs - 1 |->
                            [valid |-> FALSE, load |-> 0, power |-> 0]]
      BY <1>1 DEF Init, InitDriver
    <3>2. QED
      BY <3>1 DEF LoadsKept
  <2>3. PowersKept
    BY <1>1 DEF Init, InitDriver, PowersKept
  <2>4. QED
    BY <2>1, <2>2, <2>3 DEF DeltaInv, Handling, TrueEntries, NoRequest
<1>2. ClientInv /\ DeltaInv /\ [Next]_vars => DeltaInv'
  BY DeltaNext
<1>3. QED
  BY <1>1, <1>2, ClientInvariant, PTL DEF Spec

------------------------------------------------------------------------------
(* The theorems. *)

\* Driver and client stay within their types.
THEOREM ClientTypeCorrect == Spec => []TypeOK
<1>1. ClientInv => TypeOK
  BY DEF ClientInv, RequestInv, ClientTypes, TypeOK
<1>2. QED
  BY <1>1, ClientInvariant, PTL

\* tryAddTelemetryData in the drivers always finds room: what the size test of
\* EvtIoDeviceControl counts is what its loops collect.
THEOREM RoomForAll == Spec => []CapacitySuffices
<1>1. ClientInv => CapacitySuffices
  BY DEF ClientInv, RequestInv
<1>2. QED
  BY <1>1, ClientInvariant, PTL

\* What the driver samples for runDriver, that call of runDriver returns: no
\* retry, no failure and no test of the length throws a sample away.
THEOREM SamplesReturned == Spec => []EverySampleReturned
<1>1. Init => ReceivedInv
  BY DEF Init, InitDriver, ReceivedInv
<1>2. ClientInv /\ ReceivedInv /\ [Next]_vars => ReceivedInv'
  BY ReceivedNext
<1>3. ReceivedInv => EverySampleReturned
  BY DEF ReceivedInv, EverySampleReturned
<1>4. QED
  BY <1>1, <1>2, <1>3, ClientInvariant, PTL DEF Spec

\* runDriver's loop makes the driver sample once, however often it asks.
THEOREM OneSamplePerRun == Spec => []SampledOncePerRun
<1>1. ClientInv => SampledOncePerRun
  BY DEF ClientInv, CollectInv, SampledOncePerRun
<1>2. QED
  BY <1>1, ClientInvariant, PTL

\* runDriver resizes its buffer once, and again only for processors that were
\* added while it ran.
THEOREM FewResizes == Spec => []ResizesBounded
<1>1. ClientInv => ResizesBounded
  BY DEF ClientInv, ResizeInv, ResizesBounded
<1>2. QED
  BY <1>1, ClientInvariant, PTL

\* The first sample of retCoreLoad reports zero, and every later load is the
\* difference to the sample before it, of the same processor, also when
\* processors come or are skipped.
THEOREM LoadsAreDifferences == Spec => []LoadFromTwoSamples
<1>1. DeltaInv => LoadFromTwoSamples
  BY DEF DeltaInv, TrueEntries, DifferenceKinds, LoadFromTwoSamples, TrueDeltas
<1>2. QED
  BY <1>1, DeltaInvariant, PTL

\* So is every power of the package and of the core domain: each domain has a
\* flag and a counter of its own.
THEOREM PackagePowersAreDifferences == Spec => []PackagePowerFromTwoSamples
<1>1. DeltaInv => PackagePowerFromTwoSamples
  BY DEF DeltaInv, TrueEntries, DifferenceKinds, PackagePowerFromTwoSamples, TrueDeltas
<1>2. QED
  BY <1>1, DeltaInvariant, PTL

==============================================================================
