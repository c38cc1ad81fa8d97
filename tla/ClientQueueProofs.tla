------------------------- MODULE ClientQueueProofs -------------------------
(***************************************************************************)
(* Proofs about ClientQueue for every set of producers and every bound.    *)
(***************************************************************************)
EXTENDS ClientQueue, SequenceTheorems, TLAPS

\* Concatenation seen from an index: the stream's elements are those of
\* drained, then those of queue.
LEMMA ConcatFacts ==
    ASSUME NEW S, NEW s \in Seq(S), NEW t \in Seq(S)
    PROVE  /\ s \o t \in Seq(S)
           /\ Len(s \o t) = Len(s) + Len(t)
           /\ \A i \in 1 .. Len(s) : (s \o t)[i] = s[i]
           /\ \A i \in 1 .. Len(t) : (s \o t)[Len(s) + i] = t[i]
  OBVIOUS

\* Storing at the back of the queue stores at the back of the stream.
LEMMA ConcatAppend ==
    ASSUME NEW S, NEW s \in Seq(S), NEW t \in Seq(S), NEW e \in S
    PROVE  s \o Append(t, e) = Append(s \o t, e)
  OBVIOUS

\* Taking the whole queue leaves the stream as it is.
LEMMA ConcatEmpty ==
    ASSUME NEW S, NEW s \in Seq(S)
    PROVE  s \o <<>> = s
  OBVIOUS

\* Every step keeps every variable in its range.
LEMMA TypeStep ==
    ASSUME TypeOK, [Next]_vars
    PROVE  TypeOK'
<1> USE BoundAssumption
    DEF BoundAssumption, TypeOK, Threads, Acquire, Release, Goto
<1>1. ASSUME NEW p \in Producers, PushLock(p) PROVE TypeOK'
  BY <1>1 DEF PushLock
<1>2. ASSUME NEW p \in Producers, PushStore(p) PROVE TypeOK'
  BY <1>2 DEF PushStore, Pushing, Snapshot
<1>3. ASSUME NEW p \in Producers, PushDrop(p) PROVE TypeOK'
  BY <1>3 DEF PushDrop
<1>4. ASSUME NEW p \in Producers, PushNotify(p) PROVE TypeOK'
  BY <1>4 DEF PushNotify
<1>5. CASE Drain
  <2>1. CASE DrainTake
    <3>1. drained \o queue \in Seq(Snapshot)
      BY ConcatFacts
    <3>2. QED
      BY <2>1, <3>1 DEF DrainTake
  <2>2. CASE DrainLock \/ DrainWait \/ SpuriousWakeup \/ DrainRelock
    BY <2>2 DEF DrainLock, DrainWait, SpuriousWakeup, DrainRelock
  <2>3. QED
    BY <1>5, <2>1, <2>2 DEF Drain
<1>6. CASE Shutdown
  BY <1>6 DEF Shutdown, ShutdownLock, ShutdownSet, ShutdownNotify
<1>7. CASE UNCHANGED vars
  BY <1>7 DEF vars
<1>8. QED
  BY <1>1, <1>2, <1>3, <1>4, <1>5, <1>6, <1>7 DEF Next, Push

\* push, drain and shutdown keep every variable in its range.
THEOREM TypeCorrect == SafeSpec => []TypeOK
<1>1. Init => TypeOK
  <2> SUFFICES ASSUME Init PROVE TypeOK
    OBVIOUS
  <2>1. pushes \in [Producers -> 0 .. MaxPushes]
    BY BoundAssumption DEF BoundAssumption, Init
  <2>2. pc \in [Threads -> {"ready", "locked", "notify", "blocked", "done"}]
    BY DEF Init
  <2>3. queue \in Seq(Snapshot) /\ drained \in Seq(Snapshot)
    BY DEF Init
  <2>4. QED
    BY <2>1, <2>2, <2>3 DEF Init, TypeOK
<1>2. TypeOK /\ [Next]_vars => TypeOK'
  BY TypeStep
<1>3. QED
  BY <1>1, <1>2, PTL DEF SafeSpec

\* queue_ and shutting_down_ are touched by one thread at a time: a thread
\* inside push, drain or shutdown's critical section holds mtx_.
THEOREM Mutex == SafeSpec => []MutualExclusion
<1>1. Init => MutualExclusion
  BY DEF Init, MutualExclusion
<1>2. TypeOK /\ MutualExclusion /\ [Next]_vars => MutualExclusion'
  <2> SUFFICES ASSUME TypeOK, MutualExclusion, [Next]_vars
               PROVE  MutualExclusion'
    OBVIOUS
  <2> USE ThreadsAssumption
      DEF ThreadsAssumption, TypeOK, MutualExclusion, Threads, Acquire, Release, Goto
  <2>1. ASSUME NEW p \in Producers, Push(p) PROVE MutualExclusion'
    BY <2>1 DEF Push, PushLock, PushStore, PushDrop, PushNotify
  <2>2. CASE Drain
    BY <2>2 DEF Drain, DrainLock, DrainWait, SpuriousWakeup, DrainRelock, DrainTake
  <2>3. CASE Shutdown
    BY <2>3 DEF Shutdown, ShutdownLock, ShutdownSet, ShutdownNotify
  <2>4. CASE UNCHANGED vars
    BY <2>4 DEF vars
  <2>5. QED
    BY <2>1, <2>2, <2>3, <2>4 DEF Next
<1>3. QED
  BY <1>1, <1>2, TypeCorrect, PTL DEF SafeSpec

\* No push and no shutdown is lost on a consumer that waits in drain: when
\* there is something to do, a notification is on its way.
THEOREM NoWakeupLost == SafeSpec => []NoLostWakeup
<1>1. Init => NoLostWakeup
  BY DEF Init, NoLostWakeup
<1>2. TypeOK /\ NoLostWakeup /\ [Next]_vars => NoLostWakeup'
  <2> SUFFICES ASSUME TypeOK, NoLostWakeup, [Next]_vars
               PROVE  NoLostWakeup'
    OBVIOUS
  <2> USE ThreadsAssumption
      DEF ThreadsAssumption, TypeOK, NoLostWakeup, DrainReady, Threads, Goto
  <2>1. ASSUME NEW p \in Producers, PushLock(p) PROVE NoLostWakeup'
    BY <2>1 DEF PushLock
  <2>2. ASSUME NEW p \in Producers, PushStore(p) PROVE NoLostWakeup'
    BY <2>2 DEF PushStore
  <2>3. ASSUME NEW p \in Producers, PushDrop(p) PROVE NoLostWakeup'
    BY <2>3 DEF PushDrop
  <2>4. ASSUME NEW p \in Producers, PushNotify(p) PROVE NoLostWakeup'
    BY <2>4 DEF PushNotify
  <2>5. CASE Drain
    BY <2>5 DEF Drain, DrainLock, DrainWait, SpuriousWakeup, DrainRelock, DrainTake
  <2>6. CASE Shutdown
    BY <2>6 DEF Shutdown, ShutdownLock, ShutdownSet, ShutdownNotify
  <2>7. CASE UNCHANGED vars
    BY <2>7 DEF vars
  <2>8. QED
    BY <2>1, <2>2, <2>3, <2>4, <2>5, <2>6, <2>7 DEF Next, Push
<1>3. QED
  BY <1>1, <1>2, TypeCorrect, PTL DEF SafeSpec

------------------------------------------------------------------------------
(* The stream.  It only grows, and only in PushStore. *)

\* A snapshot in the stream carries a number its producer has reached, and
\* the number a producer is about to store is not in the stream yet.
NumbersReached ==
    \A i \in 1 .. Len(Stream) :
        LET p == Stream[i].from IN
        /\ Stream[i].seq <= pushes[p]
        /\ pc[p] = "locked" => Stream[i].seq < pushes[p]

LEMMA StreamType == TypeOK => Stream \in Seq(Snapshot)
  BY ConcatFacts DEF TypeOK, Stream

\* push stores at the end of the stream, and no other step changes it.
LEMMA StreamStep ==
    ASSUME TypeOK, [Next]_vars
    PROVE  \/ /\ \A p \in Producers : ~PushStore(p)
              /\ Stream' = Stream
           \/ \E p \in Producers : PushStore(p) /\ Stream' = Append(Stream, Pushing(p))
<1> USE DEF Stream
<1>1. ASSUME NEW p \in Producers, PushStore(p)
      PROVE  Stream' = Append(Stream, Pushing(p))
  <2>1. Pushing(p) \in Snapshot
    BY DEF TypeOK, Pushing, Snapshot
  <2>2. QED
    BY <1>1, <2>1, ConcatAppend DEF PushStore, TypeOK
<1>2. CASE DrainTake
  <2>1. drained \o queue \in Seq(Snapshot)
    BY ConcatFacts DEF TypeOK
  <2>2. Stream' = Stream
    BY <1>2, <2>1, ConcatEmpty DEF DrainTake
  <2>3. \A p \in Producers : ~PushStore(p)
    BY <1>2, ThreadsAssumption
    DEF ThreadsAssumption, DrainTake, PushStore, Goto, TypeOK, Threads
  <2>4. QED
    BY <2>2, <2>3
<1>3. CASE (\A p \in Producers : ~PushStore(p)) /\ ~DrainTake
  <2>1. UNCHANGED <<queue, drained>>
    BY <1>3 DEF Next, Push, PushLock, PushDrop, PushNotify, Drain, DrainLock,
         DrainWait, SpuriousWakeup, DrainRelock, Shutdown, ShutdownLock,
         ShutdownSet, ShutdownNotify, vars
  <2>2. QED
    BY <1>3, <2>1
<1>4. QED
  BY <1>1, <1>2, <1>3

LEMMA NumbersReachedInvariant == SafeSpec => []NumbersReached
<1>1. Init => NumbersReached
  BY DEF Init, NumbersReached, Stream
<1>2. TypeOK /\ NumbersReached /\ [Next]_vars => NumbersReached'
  <2> SUFFICES ASSUME TypeOK, NumbersReached, [Next]_vars
               PROVE  NumbersReached'
    OBVIOUS
  <2>0. Stream \in Seq(Snapshot)
    BY StreamType
  <2>1. CASE \E p \in Producers : PushStore(p) /\ Stream' = Append(Stream, Pushing(p))
    <3>1. PICK p \in Producers : PushStore(p) /\ Stream' = Append(Stream, Pushing(p))
      BY <2>1
    <3>2. /\ pushes' = pushes
          /\ pc' = [pc EXCEPT ![p] = "notify"]
      BY <3>1 DEF PushStore, Goto
    <3>3. QED
      BY <2>0, <3>1, <3>2
      DEF NumbersReached, TypeOK, Pushing, Snapshot, Threads
  <2>2. CASE (\A p \in Producers : ~PushStore(p)) /\ Stream' = Stream
    <3>1. \A p \in Producers :
            /\ pushes[p] <= pushes'[p]
            /\ pc'[p] = "locked" => \/ pc[p] = "locked" /\ pushes'[p] = pushes[p]
                                    \/ pushes'[p] = pushes[p] + 1
      <4> USE ThreadsAssumption, BoundAssumption
          DEF ThreadsAssumption, BoundAssumption, TypeOK, Threads, Goto
      <4>1. ASSUME NEW q \in Producers, PushLock(q)
            PROVE  \A p \in Producers :
                     /\ pushes[p] <= pushes'[p]
                     /\ pc'[p] = "locked" => \/ pc[p] = "locked" /\ pushes'[p] = pushes[p]
                                             \/ pushes'[p] = pushes[p] + 1
        BY <4>1 DEF PushLock
      <4>2. ASSUME \A q \in Producers : ~PushLock(q)
            PROVE  \A p \in Producers :
                     /\ pushes'[p] = pushes[p]
                     /\ pc'[p] = "locked" => pc[p] = "locked"
        <5>1. pushes' = pushes
          BY <2>2, <4>2 DEF Next, Push, PushDrop, PushNotify, Drain, DrainLock,
             DrainWait, SpuriousWakeup, DrainRelock, DrainTake, Shutdown,
             ShutdownLock, ShutdownSet, ShutdownNotify, vars
        <5>2. \A p \in Producers : pc'[p] = "locked" => pc[p] = "locked"
          <6>1. ASSUME NEW q \in Producers, PushDrop(q) \/ PushNotify(q)
                PROVE  \A p \in Producers : pc'[p] = "locked" => pc[p] = "locked"
            BY <6>1 DEF PushDrop, PushNotify
          <6>2. CASE Drain
            BY <6>2 DEF Drain, DrainLock, DrainWait, SpuriousWakeup, DrainRelock, DrainTake
          <6>3. CASE Shutdown
            BY <6>3 DEF Shutdown, ShutdownLock, ShutdownSet, ShutdownNotify
          <6>4. CASE UNCHANGED vars
            BY <6>4 DEF vars
          <6>5. QED
            BY <2>2, <4>2, <6>1, <6>2, <6>3, <6>4 DEF Next, Push
        <5>3. QED
          BY <5>1, <5>2
      <4>3. QED
        BY <4>1, <4>2
    <3>2. \A i \in 1 .. Len(Stream) :
            Stream[i].from \in Producers /\ Stream[i].seq \in Nat
      <4>1. \A i \in 1 .. Len(Stream) : Stream[i] \in Snapshot
        BY <2>0
      <4>2. \A s \in Snapshot : s.from \in Producers /\ s.seq \in Nat
        BY BoundAssumption DEF BoundAssumption, Snapshot
      <4>3. QED
        BY <4>1, <4>2
    <3>3. SUFFICES ASSUME NEW i \in 1 .. Len(Stream), NEW p \in Producers,
                          p = Stream[i].from
                   PROVE  /\ Stream[i].seq <= pushes'[p]
                          /\ pc'[p] = "locked" => Stream[i].seq < pushes'[p]
      BY <2>2, <3>2 DEF NumbersReached
    <3>4. /\ Stream[i].seq <= pushes[p]
          /\ pc[p] = "locked" => Stream[i].seq < pushes[p]
      BY <3>3 DEF NumbersReached
    <3>5. pushes[p] \in Nat /\ pushes'[p] \in Int
      <4>1. pushes[p] \in Nat
        BY BoundAssumption DEF BoundAssumption, TypeOK
      <4>2. TypeOK'
        BY TypeStep
      <4>3. pushes'[p] \in Nat
        BY <4>2, BoundAssumption DEF BoundAssumption, TypeOK
      <4>4. QED
        BY <4>1, <4>3
    <3>6. QED
      BY <3>1, <3>2, <3>4, <3>5
  <2>3. QED
    BY <2>1, <2>2, StreamStep
<1>3. QED
  BY <1>1, <1>2, TypeCorrect, PTL DEF SafeSpec

\* Snapshots of one poll thread are stored and drained in the order in which
\* that thread pushed them, and none twice.
THEOREM FifoPerProducer == SafeSpec => []PerProducerOrder
<1>1. Init => PerProducerOrder
  BY DEF Init, PerProducerOrder, Stream
<1>2. TypeOK /\ NumbersReached /\ PerProducerOrder /\ [Next]_vars => PerProducerOrder'
  <2> SUFFICES ASSUME TypeOK, NumbersReached, PerProducerOrder, [Next]_vars
               PROVE  PerProducerOrder'
    OBVIOUS
  <2>0. Stream \in Seq(Snapshot)
    BY StreamType
  <2>1. CASE \E p \in Producers : PushStore(p) /\ Stream' = Append(Stream, Pushing(p))
    <3>1. PICK p \in Producers : PushStore(p) /\ Stream' = Append(Stream, Pushing(p))
      BY <2>1
    <3>2. pc[p] = "locked"
      BY <3>1 DEF PushStore, Goto
    <3>3. Pushing(p) \in Snapshot /\ Pushing(p).from = p /\ Pushing(p).seq = pushes[p]
      BY DEF TypeOK, Pushing, Snapshot
    <3>4. \A i \in 1 .. Len(Stream) :
            Stream[i].from = p => Stream[i].seq < Pushing(p).seq
      BY <3>2, <3>3 DEF NumbersReached
    <3>5. /\ Len(Stream') = Len(Stream) + 1
          /\ Stream'[Len(Stream) + 1] = Pushing(p)
          /\ \A i \in 1 .. Len(Stream) : Stream'[i] = Stream[i]
          /\ Len(Stream) \in Nat
      BY <2>0, <3>1, <3>3
    <3>6. SUFFICES ASSUME NEW i \in 1 .. Len(Stream'), NEW j \in 1 .. Len(Stream'),
                          i < j, Stream'[i].from = Stream'[j].from
                   PROVE  Stream'[i].seq < Stream'[j].seq
      BY DEF PerProducerOrder
    <3>7. CASE j = Len(Stream) + 1
      BY <3>3, <3>4, <3>5, <3>6, <3>7
    <3>8. CASE j \in 1 .. Len(Stream)
      BY <3>5, <3>6, <3>8 DEF PerProducerOrder
    <3>9. QED
      BY <3>5, <3>6, <3>7, <3>8
  <2>2. CASE (\A p \in Producers : ~PushStore(p)) /\ Stream' = Stream
    BY <2>2 DEF PerProducerOrder
  <2>3. QED
    BY <2>1, <2>2, StreamStep
<1>3. QED
  BY <1>1, <1>2, TypeCorrect, NumbersReachedInvariant, PTL DEF SafeSpec

\* What is stored once stays stored.
LEMMA StoredStays ==
    ASSUME TypeOK, [Next]_vars, NEW p, NEW n, Stored(p, n)
    PROVE  Stored(p, n)'
<1>1. Stream \in Seq(Snapshot)
  BY StreamType
<1>2. \A q \in Producers : Pushing(q) \in Snapshot
  BY DEF TypeOK, Pushing, Snapshot
<1>3. \A i \in 1 .. Len(Stream) : i \in 1 .. Len(Stream') /\ Stream'[i] = Stream[i]
  BY <1>1, <1>2, StreamStep
<1>4. QED
  BY <1>3 DEF Stored

\* A number that its producer has not reached, or is about to store, is not
\* in the stream.
LEMMA NotYetStored ==
    ASSUME TypeOK, NumbersReached, NEW p \in Producers, NEW n \in Nat,
           \/ n > pushes[p]
           \/ n = pushes[p] /\ pc[p] = "locked"
    PROVE  ~Stored(p, n)
<1> SUFFICES ASSUME NEW i \in 1 .. Len(Stream), Stream[i] = [from |-> p, seq |-> n]
             PROVE  FALSE
  BY DEF Stored
<1>1. Stream[i].from = p /\ Stream[i].seq = n
  OBVIOUS
<1>2. pushes[p] \in Nat
  BY BoundAssumption DEF BoundAssumption, TypeOK
<1>3. QED
  BY <1>1, <1>2 DEF NumbersReached

\* No snapshot that a poll thread pushes disappears; a shutdown refuses it
\* only together with every later one of that thread.
THEOREM Lossless == SafeSpec => []NothingLost
<1>1. Init => NothingLost
  BY DEF Init, NothingLost
<1>2. TypeOK /\ NumbersReached /\ NothingLost /\ [Next]_vars => NothingLost'
  <2> SUFFICES ASSUME TypeOK, NumbersReached, NothingLost, [Next]_vars,
                      NEW p \in Producers, NEW n \in 1 .. pushes'[p]
               PROVE  \/ Stored(p, n)'
                      \/ n = pushes'[p] /\ pc'[p] = "locked"
                      \/ /\ shutting_down'
                         /\ \A m \in n .. pushes'[p] : ~Stored(p, m)'
    BY DEF NothingLost
  <2>1. pushes[p] \in Nat
    BY BoundAssumption DEF BoundAssumption, TypeOK
  <2>2. CASE PushLock(p)
    <3>1. pushes'[p] = pushes[p] + 1 /\ pc'[p] = "locked" /\ pc[p] # "locked"
      BY <2>2 DEF PushLock, Goto, TypeOK, Threads
    <3>2. UNCHANGED <<queue, drained, shutting_down>>
      BY <2>2 DEF PushLock
    <3>3. \A m : Stored(p, m)' <=> Stored(p, m)
      BY <3>2 DEF Stored, Stream
    <3>4. CASE n = pushes[p] + 1
      BY <3>1, <3>4
    <3>5. CASE n \in 1 .. pushes[p]
      <4>1. CASE Stored(p, n)
        BY <3>3, <4>1
      <4>2. CASE shutting_down /\ \A m \in n .. pushes[p] : ~Stored(p, m)
        <5>1. ~Stored(p, pushes[p] + 1)
          BY <2>1, NotYetStored
        <5>2. \A m \in n .. pushes'[p] : m \in n .. pushes[p] \/ m = pushes[p] + 1
          BY <2>1, <3>1
        <5>3. \A m \in n .. pushes'[p] : ~Stored(p, m)'
          BY <3>3, <4>2, <5>1, <5>2
        <5>4. QED
          BY <3>2, <4>2, <5>3
      <4>3. QED
        BY <3>1, <3>5, <4>1, <4>2 DEF NothingLost
    <3>6. QED
      BY <2>1, <3>1, <3>4, <3>5
  <2>3. CASE ~PushLock(p)
    <3>1. pushes'[p] = pushes[p]
      BY <2>3, ThreadsAssumption DEF ThreadsAssumption, TypeOK, Threads, Next, Push,
         PushLock, PushStore, PushDrop, PushNotify, Drain,
         DrainLock, DrainWait, SpuriousWakeup, DrainRelock, DrainTake, Shutdown,
         ShutdownLock, ShutdownSet, ShutdownNotify, vars
    <3>2. CASE Stored(p, n)
      BY <3>2, StoredStays
    <3>3. CASE n = pushes[p] /\ pc[p] = "locked"
      <4>1. CASE PushStore(p)
        <5>1. Pushing(p) = [from |-> p, seq |-> n] /\ Pushing(p) \in Snapshot
          BY <3>3 DEF Pushing, TypeOK, Snapshot
        <5>2. Stream' = Append(Stream, Pushing(p)) /\ Stream \in Seq(Snapshot)
          BY <4>1, <5>1, ConcatAppend, StreamType DEF PushStore, TypeOK, Stream
        <5>3. /\ Len(Stream) + 1 \in 1 .. Len(Stream')
              /\ Stream'[Len(Stream) + 1] = [from |-> p, seq |-> n]
          BY <5>1, <5>2
        <5>4. QED
          BY <5>3 DEF Stored
      <4>2. CASE PushDrop(p)
        <5>1. ~Stored(p, n)
          BY <3>3, NotYetStored
        <5>2. shutting_down' /\ ~Stored(p, n)'
          BY <4>2, <5>1 DEF PushDrop, Stored, Stream
        <5>3. \A m \in n .. pushes'[p] : m = n
          BY <2>1, <3>1, <3>3
        <5>4. QED
          BY <5>2, <5>3
      <4>3. CASE ~PushStore(p) /\ ~PushDrop(p)
        <5> USE ThreadsAssumption DEF ThreadsAssumption, TypeOK, Threads, Goto
        <5>1. pc'[p] = "locked"
          <6>1. ASSUME NEW q \in Producers, Push(q) PROVE pc'[p] = "locked"
            BY <2>3, <3>3, <4>3, <6>1
            DEF Push, PushLock, PushStore, PushDrop, PushNotify
          <6>2. CASE Drain
            BY <3>3, <6>2
            DEF Drain, DrainLock, DrainWait, SpuriousWakeup, DrainRelock, DrainTake
          <6>3. CASE Shutdown
            BY <3>3, <6>3 DEF Shutdown, ShutdownLock, ShutdownSet, ShutdownNotify
          <6>4. CASE UNCHANGED vars
            BY <3>3, <6>4 DEF vars
          <6>5. QED
            BY <6>1, <6>2, <6>3, <6>4 DEF Next
        <5>2. QED
          BY <3>1, <3>3, <5>1
      <4>4. QED
        BY <4>1, <4>2, <4>3
    <3>4. CASE shutting_down /\ \A m \in n .. pushes[p] : ~Stored(p, m)
      <4>1. \A q \in Producers : ~PushStore(q)
        BY <3>4 DEF PushStore
      <4>2. Stream' = Stream
        BY <4>1, StreamStep
      <4>3. shutting_down'
        BY <3>4 DEF Next, Push, PushLock, PushStore, PushDrop, PushNotify, Drain,
           DrainLock, DrainWait, SpuriousWakeup, DrainRelock, DrainTake, Shutdown,
           ShutdownLock, ShutdownSet, ShutdownNotify, vars
      <4>4. QED
        BY <3>1, <3>4, <4>2, <4>3 DEF Stored
    <3>5. QED
      BY <3>1, <3>2, <3>3, <3>4 DEF NothingLost
  <2>4. QED
    BY <2>2, <2>3
<1>3. QED
  BY <1>1, <1>2, TypeCorrect, NumbersReachedInvariant, PTL DEF SafeSpec

------------------------------------------------------------------------------
(* ClientQueue implements SnapshotChannel: push's store is Accept, drain's   *)
(* take is Deliver of everything queued, shutdown's flag is Close.           *)

\* The queue behaves as a lossless first-in first-out channel that accepts
\* nothing after shutdown.
THEOREM ImplementsChannel == SafeSpec => Channel!SafeSpec
<1>1. Init => Channel!Init
  BY DEF Init, Channel!Init, Stream
<1>2. TypeOK /\ [Next]_vars => [Channel!Next]_(Channel!vars)
  <2> SUFFICES ASSUME TypeOK, [Next]_vars
               PROVE  Channel!Next \/ UNCHANGED Channel!vars
    OBVIOUS
  <2> USE DEF Channel!Next, Channel!vars, Goto
  <2>1. ASSUME NEW p \in Producers, PushStore(p) PROVE Channel!Accept
    <3>1. Stream' = Append(Stream, Pushing(p))
      <4>1. Pushing(p) \in Snapshot
        BY DEF TypeOK, Pushing, Snapshot
      <4>2. QED
        BY <2>1, <4>1, ConcatAppend DEF PushStore, TypeOK, Stream
    <3>2. Pushing(p) \in Snapshot
      BY DEF TypeOK, Pushing, Snapshot
    <3>3. QED
      BY <2>1, <3>1, <3>2, StreamType DEF PushStore, Channel!Accept
  <2>2. CASE DrainTake
    <3>1. Stream' = Stream
      <4>1. drained \o queue \in Seq(Snapshot)
        BY ConcatFacts DEF TypeOK
      <4>2. QED
        BY <2>2, <4>1, ConcatEmpty DEF DrainTake, Stream
    <3>2. /\ Len(drained') = Len(Stream)
          /\ Len(drained) <= Len(Stream)
          /\ Len(drained) \in Nat /\ Len(Stream) \in Nat
      BY <2>2, ConcatFacts DEF DrainTake, Stream, TypeOK
    <3>3. CASE Len(drained) = Len(Stream)
      BY <2>2, <3>1, <3>2, <3>3 DEF DrainTake
    <3>4. CASE Len(drained) < Len(Stream)
      BY <2>2, <3>1, <3>2, <3>4 DEF DrainTake, Channel!Deliver
    <3>5. QED
      BY <3>2, <3>3, <3>4
  <2>3. CASE ShutdownSet
    BY <2>3 DEF ShutdownSet, Channel!Close, Stream
  <2>4. CASE /\ \A p \in Producers : ~PushStore(p)
             /\ ~DrainTake /\ ~ShutdownSet
    <3>1. UNCHANGED <<queue, drained, shutting_down>>
      BY <2>4 DEF Next, Push, PushLock, PushDrop, PushNotify, Drain, DrainLock,
         DrainWait, SpuriousWakeup, DrainRelock, Shutdown, ShutdownLock,
         ShutdownNotify, vars
    <3>2. QED
      BY <3>1 DEF Stream
  <2>5. QED
    BY <2>1, <2>2, <2>3, <2>4
<1>3. QED
  BY <1>1, <1>2, TypeCorrect, PTL DEF SafeSpec, Channel!SafeSpec
==============================================================================
