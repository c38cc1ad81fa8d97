----------------------- MODULE PerformanceLoggerProofs -----------------------
(***************************************************************************)
(* Proofs about PerformanceLogger for any threads and any number of        *)
(* measurements: what overlapping measurements cannot break.               *)
(***************************************************************************)
EXTENDS PerformanceLogger, TLAPS

\* Every reading of the clock that is kept was made before the next one.
ReadingsPast ==
    /\ start_time < clock
    /\ \A t \in Threads : began[t] < clock /\ end[t] < clock

\* start_time is the latest call of start, and the one that is logged next
\* while there is a label.
LatestStart ==
    /\ active_label # NoLabel => start_time = began[active_label]
    /\ \A t \in Threads : began[t] <= start_time
    /\ \A i \in 1 .. Len(rows) :
         /\ rows[i].from <= start_time
         /\ active_label # NoLabel => rows[i].from < start_time

\* Of the measurements under way, the latest is the one whose label is set,
\* and a thread that stops has read the clock after its own call of start.
LatestHasLabel ==
    \A t \in Threads :
        /\ pc[t] # "idle" /\ began[t] = start_time /\ active_label # NoLabel =>
              active_label = t
        /\ pc[t] = "stopping" => began[t] < end[t]

LoggerInv ==
    /\ TypeOK
    /\ ReadingsPast
    /\ LatestStart
    /\ LatestHasLabel
    /\ NoStartLoggedTwice
    /\ RowBeginsWithLabel
    /\ OwnStartTrueRow

LEMMA LoggerInitInv == Init => LoggerInv
  BY LabelAssumption, SpansAssumption
  DEF Init, LoggerInv, TypeOK, ReadingsPast, LatestStart, LatestHasLabel,
      NoStartLoggedTwice, RowBeginsWithLabel, OwnStartTrueRow, LabelAssumption, SpansAssumption

\* start, which replaces label and time together.
LEMMA StartStep ==
    ASSUME LoggerInv, NEW t \in Threads, Start(t)
    PROVE  LoggerInv'
<1>1. /\ active_label' = t /\ start_time' = clock /\ clock' = clock + 1
      /\ began' = [began EXCEPT ![t] = clock] /\ pc' = [pc EXCEPT ![t] = "measured"]
      /\ spans' = [spans EXCEPT ![t] = @ + 1] /\ spans[t] < MaxSpans
      /\ UNCHANGED <<rows, end>>
  BY DEF Start, BeginSpan, Goto, ReadClock
<1>2. TypeOK'
  BY <1>1, SpansAssumption DEF LoggerInv, TypeOK, SpansAssumption
<1>3. ReadingsPast' /\ LatestStart' /\ LatestHasLabel'
  <2>1. /\ clock \in Nat /\ start_time \in Nat /\ start_time < clock
        /\ \A u \in Threads : began[u] \in Nat /\ end[u] \in Nat
        /\ \A u \in Threads : began'[u] = IF u = t THEN clock ELSE began[u]
    BY <1>1 DEF LoggerInv, TypeOK, ReadingsPast
  <2>2. ReadingsPast'
    BY <1>1, <2>1 DEF LoggerInv, ReadingsPast
  <2>3. \A i \in 1 .. Len(rows) : rows[i].from \in Nat
    <3>1. \A i \in 1 .. Len(rows) : rows[i] \in Row
      BY DEF LoggerInv, TypeOK
    <3>2. QED
      BY <3>1 DEF Row
  <2>4. LatestStart'
    BY <1>1, <2>1, <2>3 DEF LoggerInv, TypeOK, LatestStart
  <2>5. \A u \in Threads : /\ began'[u] = start_time' => u = t
                           /\ pc'[u] = "stopping" => pc[u] = "stopping" /\ u # t
    BY <1>1, <2>1 DEF LoggerInv, TypeOK, ReadingsPast
  <2>6. LatestHasLabel'
    BY <1>1, <2>1, <2>5 DEF LoggerInv, LatestHasLabel
  <2>7. QED
    BY <2>2, <2>4, <2>6
<1>4. NoStartLoggedTwice' /\ RowBeginsWithLabel' /\ OwnStartTrueRow'
  BY <1>1 DEF LoggerInv, NoStartLoggedTwice, RowBeginsWithLabel, OwnStartTrueRow
<1>5. QED
  BY <1>2, <1>3, <1>4 DEF LoggerInv

\* The first half of stop.
LEMMA ReadStep ==
    ASSUME LoggerInv, NEW t \in Threads, StopReadsClock(t)
    PROVE  LoggerInv'
<1>1. /\ end' = [end EXCEPT ![t] = clock] /\ pc' = [pc EXCEPT ![t] = "stopping"]
      /\ pc[t] = "measured" /\ clock' = clock + 1
      /\ UNCHANGED <<active_label, start_time, rows, began, spans>>
  BY DEF StopReadsClock, Goto, ReadClock
<1>2. TypeOK'
  BY <1>1 DEF LoggerInv, TypeOK
<1>3. ReadingsPast' /\ LatestStart' /\ LatestHasLabel'
  BY <1>1 DEF LoggerInv, TypeOK, ReadingsPast, LatestStart, LatestHasLabel
<1>4. NoStartLoggedTwice' /\ RowBeginsWithLabel' /\ OwnStartTrueRow'
  BY <1>1 DEF LoggerInv, NoStartLoggedTwice, RowBeginsWithLabel, OwnStartTrueRow
<1>5. QED
  BY <1>2, <1>3, <1>4 DEF LoggerInv

\* The second half when there is a label: a row is logged.
LEMMA LogStep ==
    ASSUME LoggerInv, NEW t \in Threads, StopLogs(t)
    PROVE  LoggerInv'
<1> DEFINE row == NewRow(t)
<1>1. /\ rows' = Append(rows, row) /\ active_label' = NoLabel /\ active_label # NoLabel
      /\ pc' = [pc EXCEPT ![t] = "idle"] /\ pc[t] = "stopping"
      /\ UNCHANGED <<start_time, clock, began, end, spans>>
  BY DEF StopLogs, Goto
<1>2. /\ row \in Row
      /\ row.from = start_time /\ row.label = active_label /\ row.by = t
      /\ row.to = end[t] /\ row.began = began[t] /\ row.labelled = began[active_label]
  BY <1>1 DEF LoggerInv, TypeOK, NewRow, Row
<1>3. /\ Len(rows) \in Nat /\ Len(rows') = Len(rows) + 1
      /\ \A i \in 1 .. Len(rows) : rows'[i] = rows[i] /\ rows[i] \in Row
      /\ rows'[Len(rows) + 1] = row
  BY <1>1, <1>2 DEF LoggerInv, TypeOK
<1> HIDE DEF row
<1>4. TypeOK'
  BY <1>1, <1>2 DEF LoggerInv, TypeOK
<1>5. ReadingsPast' /\ LatestHasLabel'
  BY <1>1 DEF LoggerInv, TypeOK, ReadingsPast, LatestHasLabel
<1>6. LatestStart'
  <2>1. \A i \in 1 .. Len(rows) : rows[i].from < start_time
    BY <1>1 DEF LoggerInv, LatestStart
  <2>2. start_time \in Nat /\ \A u \in Threads : began[u] <= start_time
    BY DEF LoggerInv, TypeOK, LatestStart
  <2>3. \A i \in 1 .. Len(rows) : rows[i].from \in Nat
    BY <1>3 DEF Row
  <2>4. \A i \in 1 .. Len(rows') : rows'[i].from <= start_time
    BY <1>2, <1>3, <2>1, <2>2, <2>3
  <2>5. QED
    BY <1>1, <2>2, <2>4 DEF LatestStart
<1>7. NoStartLoggedTwice'
  <2>1. \A i \in 1 .. Len(rows) : rows[i].from < start_time
    BY <1>1 DEF LoggerInv, LatestStart
  <2>2. \A i, j \in 1 .. Len(rows) : i < j => rows[i].from < rows[j].from
    BY DEF LoggerInv, NoStartLoggedTwice
  <2>3. ASSUME NEW i \in 1 .. Len(rows'), NEW j \in 1 .. Len(rows'), i < j
        PROVE  rows'[i].from < rows'[j].from
    <3>1. i \in 1 .. Len(rows) /\ rows'[i] = rows[i]
      BY <1>3, <2>3
    <3>2. CASE j \in 1 .. Len(rows)
      BY <1>3, <2>2, <2>3, <3>1, <3>2
    <3>3. CASE j = Len(rows) + 1
      BY <1>2, <1>3, <2>1, <3>1, <3>3
    <3>4. QED
      BY <1>3, <3>2, <3>3
  <2>4. QED
    BY <2>3 DEF NoStartLoggedTwice
<1>8. RowBeginsWithLabel'
  <2>1. \A i \in 1 .. Len(rows) :
          rows[i].from = rows[i].labelled /\ rows[i].from >= rows[i].began
    BY DEF LoggerInv, RowBeginsWithLabel
  <2>2. row.from = row.labelled /\ row.from >= row.began
    BY <1>1, <1>2 DEF LoggerInv, TypeOK, LatestStart
  <2>3. ASSUME NEW i \in 1 .. Len(rows')
        PROVE  rows'[i].from = rows'[i].labelled /\ rows'[i].from >= rows'[i].began
    <3>1. CASE i \in 1 .. Len(rows)
      BY <1>3, <2>1, <3>1
    <3>2. CASE i = Len(rows) + 1
      BY <1>3, <2>2, <3>2
    <3>3. QED
      BY <1>3, <3>1, <3>2
  <2>4. QED
    BY <2>3 DEF RowBeginsWithLabel
<1>9. row.from = row.began => row.label = row.by /\ row.from <= row.to
  BY <1>1, <1>2 DEF LoggerInv, TypeOK, LatestHasLabel
<1>10. OwnStartTrueRow'
  BY <1>1, <1>3, <1>9 DEF LoggerInv, OwnStartTrueRow
<1>11. QED
  BY <1>4, <1>5, <1>6, <1>7, <1>8, <1>10 DEF LoggerInv

LEMMA LoggerStepInv == LoggerInv /\ [Next]_vars => LoggerInv'
<1> SUFFICES ASSUME LoggerInv, [Next]_vars
             PROVE  LoggerInv'
  OBVIOUS
<1>1. CASE \E t \in Threads : Start(t)
  BY <1>1, StartStep
<1>2. CASE \E t \in Threads : StopReadsClock(t)
  BY <1>2, ReadStep
<1>3. CASE \E t \in Threads : StopLogs(t)
  BY <1>3, LogStep
<1>4. CASE \E t \in Threads : StopReturns(t)
  BY <1>4 DEF StopReturns, Goto, LoggerInv, TypeOK, ReadingsPast, LatestStart,
     LatestHasLabel, NoStartLoggedTwice, RowBeginsWithLabel, OwnStartTrueRow
<1>5. CASE UNCHANGED vars
  BY <1>5 DEF vars, LoggerInv, TypeOK, ReadingsPast, LatestStart, LatestHasLabel,
     NoStartLoggedTwice, RowBeginsWithLabel, OwnStartTrueRow
<1>6. QED
  BY <1>1, <1>2, <1>3, <1>4, <1>5 DEF Next, Measure, AllMeasured

LEMMA LoggerInvariant == Spec => []LoggerInv
  BY LoggerInitInv, LoggerStepInv, PTL DEF Spec

\* The logger's variables keep their ranges: stop logs a row only while there
\* is a label.
THEOREM LoggerTypeCorrect == Spec => []TypeOK
<1>1. LoggerInv => TypeOK
  BY DEF LoggerInv
<1>2. QED
  BY LoggerInvariant, <1>1, PTL

\* No call of start is logged by two calls of stop, since a logging stop clears
\* the label and only a later start sets it again.
THEOREM StartsLoggedOnce == Spec => []NoStartLoggedTwice
<1>1. LoggerInv => NoStartLoggedTwice
  BY DEF LoggerInv
<1>2. QED
  BY LoggerInvariant, <1>1, PTL

\* A row begins at its label's own call of start, and within its writer's
\* measurement: label and start time are replaced together, by later times.
THEOREM RowsBeginTrue == Spec => []RowBeginsWithLabel
<1>1. LoggerInv => RowBeginsWithLabel
  BY DEF LoggerInv
<1>2. QED
  BY LoggerInvariant, <1>1, PTL

\* A row with its writer's own start time carries its writer's label and a
\* duration that is not negative, although stop reads the clock before it has
\* the mutex.
THEOREM OwnRowsTrue == Spec => []OwnStartTrueRow
<1>1. LoggerInv => OwnStartTrueRow
  BY DEF LoggerInv
<1>2. QED
  BY LoggerInvariant, <1>1, PTL
==============================================================================
