--------------------------- MODULE SnapshotChannel ---------------------------
(***************************************************************************)
(* What the telemetry path of System_Info promises to whoever polls the    *)
(* hardware: a lossless first-in first-out channel that can be closed.     *)
(* Snapshots enter at one end in some order; they leave at the other end   *)
(* in the same order, each exactly once; once the channel is closed no     *)
(* snapshot enters, and what entered before still leaves.                  *)
(*                                                                         *)
(* The specification has no source lines of its own: ClientQueue (push,    *)
(* drain and shutdown under a mutex and a condition variable) and          *)
(* TelemetryPipeline (poll threads, queue and sender) both implement it.   *)
(***************************************************************************)
EXTENDS Naturals, Sequences

CONSTANT Snapshots    \* what can be sent

VARIABLES
    accepted,         \* every snapshot that entered, in order
    delivered,        \* how many of them have left
    closed            \* nothing more may enter

vars == <<accepted, delivered, closed>>

Init ==
    /\ accepted = <<>>
    /\ delivered = 0
    /\ closed = FALSE

\* One more snapshot enters.  (Stated of accepted' so that Snapshots need not
\* be enumerated.)
Accept ==
    /\ ~closed
    /\ Len(accepted') = Len(accepted) + 1
    /\ accepted'[Len(accepted')] \in Snapshots
    /\ accepted' = Append(accepted, accepted'[Len(accepted')])
    /\ UNCHANGED <<delivered, closed>>

\* One delivery hands over any number of the snapshots that are due.
Deliver ==
    /\ delivered' \in (delivered + 1) .. Len(accepted)
    /\ UNCHANGED <<accepted, closed>>

Close ==
    /\ closed' = TRUE
    /\ UNCHANGED <<accepted, delivered>>

Next == Accept \/ Deliver \/ Close

SafeSpec == Init /\ [][Next]_vars

\* With a receiver that keeps receiving, what entered leaves.
Spec == SafeSpec /\ WF_vars(Deliver)
==============================================================================
