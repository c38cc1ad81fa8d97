-------------------------- MODULE PerformanceLogger --------------------------
(***************************************************************************)
(* user_space_common/PerformanceLogger and the threads of System_Info that *)
(* share one of it: both poll threads measure their execute, and main      *)
(* measures each write to the server.  start overwrites one label and one  *)
(* start time; stop logs a row from whatever it finds there.  The mutex    *)
(* makes start one step; stop reads the clock before it has the mutex, so  *)
(* it is two.                                                              *)
(*                                                                         *)
(* A reading of the clock is the number of readings before it: only their  *)
(* order matters.  Each thread always measures under the same label, and   *)
(* the label stands for the thread.                                        *)
(***************************************************************************)
EXTENDS Integers, Sequences

CONSTANTS
    Threads,     \* the labels: worker_name() of each worker, opc_ua_client_write
    NoLabel,     \* the empty string
    MaxSpans     \* bound: how many measurements each thread makes

ASSUME LabelAssumption == NoLabel \notin Threads

ASSUME SpansAssumption == MaxSpans \in Nat

VARIABLES
    active_label,   \* active_label_
    start_time,     \* start_time_
    rows,           \* the rows of the log; by, began and labelled are history
    clock,          \* how often the clock was read
    pc,             \* where each thread is
    began,          \* when each thread last called start
    end,            \* stop's local variable of each thread
    spans           \* how many measurements each thread has begun

vars == <<active_label, start_time, rows, clock, pc, began, end, spans>>

\* A row of the log, with the thread that wrote it and when that thread and
\* the label's thread had last called start.
Row ==
    [label : Threads, from : Nat, to : Nat, by : Threads, began : Nat, labelled : Nat]

Init ==
    /\ active_label = NoLabel
    /\ start_time = 0
    /\ rows = <<>>
    /\ clock = 1
    /\ pc = [t \in Threads |-> "idle"]
    /\ began = [t \in Threads |-> 0]
    /\ end = [t \in Threads |-> 0]
    /\ spans = [t \in Threads |-> 0]

Goto(t, from, to) == pc[t] = from /\ pc' = [pc EXCEPT ![t] = to]

\* now() of the steady clock.
ReadClock == clock' = clock + 1

BeginSpan(t) ==
    /\ spans[t] < MaxSpans
    /\ Goto(t, "idle", "measured")
    /\ spans' = [spans EXCEPT ![t] = @ + 1]
    /\ began' = [began EXCEPT ![t] = clock]
    /\ ReadClock
    /\ UNCHANGED <<rows, end>>

\* Mutant: a measurement that is under way is not overwritten.
StartKeepsActive(t) ==
    /\ BeginSpan(t)
    /\ active_label' = IF active_label = NoLabel THEN t ELSE active_label
    /\ start_time' = IF active_label = NoLabel THEN clock ELSE start_time

\* Mutant: the label is only set when there is none.
StartKeepsLabel(t) ==
    /\ BeginSpan(t)
    /\ active_label' = IF active_label = NoLabel THEN t ELSE active_label
    /\ start_time' = clock

Start(t) ==
    /\ BeginSpan(t)
    /\ active_label' = t
    /\ start_time' = clock

StopReadsClock(t) ==
    /\ Goto(t, "measured", "stopping")
    /\ end' = [end EXCEPT ![t] = clock]
    /\ ReadClock
    /\ UNCHANGED <<active_label, start_time, rows, began, spans>>

NewRow(t) ==
    [label |-> active_label, from |-> start_time, to |-> end[t],
     by |-> t, began |-> began[t], labelled |-> began[active_label]]

\* Mutant: active_label_ is not cleared.
StopKeepsLabel(t) ==
    /\ Goto(t, "stopping", "idle")
    /\ active_label # NoLabel
    /\ rows' = Append(rows, NewRow(t))
    /\ UNCHANGED <<active_label, start_time, clock, began, end, spans>>

StopLogs(t) ==
    /\ Goto(t, "stopping", "idle")
    /\ active_label # NoLabel
    /\ rows' = Append(rows, NewRow(t))
    /\ active_label' = NoLabel
    /\ UNCHANGED <<start_time, clock, began, end, spans>>

\* Another thread's stop has used up the label.
StopReturns(t) ==
    /\ Goto(t, "stopping", "idle")
    /\ active_label = NoLabel
    /\ UNCHANGED <<active_label, start_time, rows, clock, began, end, spans>>

Measure(t) == Start(t) \/ StopReadsClock(t) \/ StopLogs(t) \/ StopReturns(t)

\* Every thread has made its MaxSpans measurements.
AllMeasured ==
    /\ \A t \in Threads : pc[t] = "idle" /\ spans[t] = MaxSpans
    /\ UNCHANGED vars

Next == (\E t \in Threads : Measure(t)) \/ AllMeasured

Spec == Init /\ [][Next]_vars

------------------------------------------------------------------------------
(* Properties. *)

TypeOK ==
    /\ active_label \in Threads \cup {NoLabel}
    /\ start_time \in Nat
    /\ rows \in Seq(Row)
    /\ clock \in Nat
    /\ pc \in [Threads -> {"idle", "measured", "stopping"}]
    /\ began \in [Threads -> Nat]
    /\ end \in [Threads -> Nat]
    /\ spans \in [Threads -> 0 .. MaxSpans]

\* However the calls interleave, no call of start is logged by two calls of
\* stop, and the rows are in the order of the starts they log.
NoStartLoggedTwice ==
    \A i, j \in 1 .. Len(rows) : i < j => rows[i].from < rows[j].from

\* However measurements overlap, the beginning of a row is right: it is its
\* label's own call of start, never another thread's, and it falls into the
\* measurement of the thread that writes the row.  A row is therefore no longer
\* than its WRITER's measurement.  Its end is the writer's: a row may be longer
\* than its label's measurement when another thread's later stop writes it.
RowBeginsWithLabel ==
    \A i \in 1 .. Len(rows) :
        rows[i].from = rows[i].labelled /\ rows[i].from >= rows[i].began

\* A row that logs the start time of its writer's own call is right: it
\* carries its writer's label, since label and time are replaced together, and
\* its duration is not negative.  Of the other rows neither can be said: their
\* label is another thread's, and stop may have read the clock before that
\* thread's call of start.
OwnStartTrueRow ==
    \A i \in 1 .. Len(rows) :
        rows[i].from = rows[i].began =>
            rows[i].label = rows[i].by /\ rows[i].from <= rows[i].to
==============================================================================
