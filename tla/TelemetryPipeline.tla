-------------------------- MODULE TelemetryPipeline --------------------------
(***************************************************************************)
(* The System_Info process as its main composes it: the main thread        *)
(* connects to the OPC UA server, creates the machine's folder, lets the   *)
(* HardwareManager initialise its workers and start polling, and from then *)
(* on drains the ClientQueue and writes every snapshot to the server.      *)
(*                                                                         *)
(* HardwareManager gives the poll threads and the queue; main calls        *)
(* InitializeAllWorkers and StartPolling once and never StopPolling or     *)
(* ClientQueue::shutdown.  No call of main catches the exceptions of the   *)
(* OPC UA client, so a failed service call ends the process.               *)
(***************************************************************************)
EXTENDS HardwareManager

CONSTANT Name(_)    \* a device's name, which is its key on the server

Keys == {Name(d) : d \in Devices}

VARIABLES
    sender,    \* where main is
    batch,     \* what the last drain returned and is not written yet
    nodes,     \* device_nodes_: the keys whose node on the server is known
    written    \* history: the snapshots written to the server, in order

senderVars == <<sender, batch, nodes, written>>
pipelineVars == <<managerVars, senderVars>>

PipelineInit ==
    /\ InitManager
    /\ sender = "connect"
    /\ batch = <<>>
    /\ nodes = {}
    /\ written = <<>>

\* main moves on from one call to the next.
Running == owner # "terminated"
Sender(from, to) == Running /\ sender = from /\ sender' = to

------------------------------------------------------------------------------
(* Starting up. *)

Connect ==
    /\ Sender("connect", "addNodes")
    /\ UNCHANGED <<managerVars, batch, nodes, written>>

AddNodes ==
    /\ Sender("addNodes", "workers")
    /\ UNCHANGED <<managerVars, batch, nodes, written>>

MainInitializes ==
    /\ sender = "workers"
    /\ InitializeAllWorkers
    /\ UNCHANGED senderVars

MainStartsPolling ==
    /\ Sender("workers", "drain")
    /\ StartPolling
    /\ UNCHANGED <<batch, nodes, written>>

------------------------------------------------------------------------------
(* sendTelemetryPayload, over and over. *)

\* Mutant: the queue is read but not emptied.
DrainCopy ==
    /\ Sender("drain", "write")
    /\ queue # <<>>
    /\ batch' = queue
    /\ UNCHANGED <<managerVars, nodes, written>>

\* drain blocks until something is queued, then takes everything.
DrainQueue ==
    /\ Sender("drain", "write")
    /\ queue # <<>>
    /\ batch' = queue
    /\ queue' = <<>>
    /\ UNCHANGED <<owner, initialized, devices, threads, polls, reading, nodes, written>>

HeadKey == Name(Head(batch).device)

\* Mutant: the cache is filled with the device instead of its key.
EnsureNodeOfDevice ==
    /\ Running /\ sender = "write"
    /\ HeadKey \notin nodes
    /\ nodes' = nodes \cup {Head(batch).device}
    /\ UNCHANGED <<managerVars, sender, batch, written>>

\* The first snapshot of a device finds or creates its node on the server.
EnsureSnapshotNode ==
    /\ Running /\ sender = "write"
    /\ HeadKey \notin nodes
    /\ nodes' = nodes \cup {HeadKey}
    /\ UNCHANGED <<managerVars, sender, batch, written>>

\* Mutant: the batch is written back to front.
WriteLast ==
    /\ Running /\ sender = "write"
    /\ HeadKey \in nodes
    /\ written' = Append(written, batch[Len(batch)])
    /\ batch' = SubSeq(batch, 1, Len(batch) - 1)
    /\ sender' = IF Len(batch) = 1 THEN "drain" ELSE "write"
    /\ UNCHANGED <<managerVars, nodes>>

WriteSnapshot ==
    /\ Running /\ sender = "write"
    /\ HeadKey \in nodes
    /\ written' = Append(written, Head(batch))
    /\ batch' = Tail(batch)
    /\ sender' = IF Len(batch) = 1 THEN "drain" ELSE "write"
    /\ UNCHANGED <<managerVars, nodes>>

\* connect, addNodes, ensureSnapshotNode or writeSnapshot throws BadStatus,
\* and nothing catches it.
ClientThrows ==
    /\ Running /\ sender \in {"connect", "addNodes", "write"}
    /\ Terminate
    /\ UNCHANGED senderVars

------------------------------------------------------------------------------

MainGoesOn ==
    \/ Connect \/ AddNodes \/ MainInitializes \/ MainStartsPolling
    \/ DrainQueue \/ EnsureSnapshotNode \/ WriteSnapshot

MainStep == MainGoesOn \/ ClientThrows

WorkerStep ==
    /\ \/ \E w \in Workers : InitializeThread(w)
       \/ JoinInitializers
       \/ \E i \in 1 .. Len(threads) : PollThread(i)
    /\ UNCHANGED senderVars

PipelineNext == MainStep \/ WorkerStep

PipelineSafeSpec == PipelineInit /\ [][PipelineNext]_pipelineVars

\* main goes on while it can, since every call of the client returns or throws,
\* and so do the workers' threads together: polls are bounded, so that none of
\* them can keep the others waiting for ever.  No exception is owed.
PipelineSpec ==
    /\ PipelineSafeSpec
    /\ WF_pipelineVars(MainGoesOn)
    /\ WF_pipelineVars(WorkerStep)

------------------------------------------------------------------------------
(* Properties. *)

PipelineTypeOK ==
    /\ TypeOK
    /\ sender \in {"connect", "addNodes", "workers", "drain", "write"}
    /\ batch \in Seq(TelemetrySnapshot)
    /\ nodes \subseteq Keys
    /\ written \in Seq(TelemetrySnapshot)

\* Everything the poll threads pushed, in the order they pushed it.
PushedStream == written \o batch \o queue

\* On the server a device's readings never go back in time, whatever the
\* workers and the sender do at the same moment.
WrittenInReadingOrder == InReadingOrder(PushedStream)

\* Again and again everything that was pushed is written, unless the process
\* ends: nothing waits for ever in the queue or in a batch.
EverythingWritten == []<>(~Running \/ written = PushedStream)

\* From push to the server the process is a lossless first-in first-out
\* channel that is never closed; when it ends, what is on the way is lost.
Path == INSTANCE SnapshotChannel WITH
    Snapshots <- TelemetrySnapshot,
    accepted <- PushedStream,
    delivered <- Len(written),
    closed <- FALSE

PathSpec == Path!SafeSpec
==============================================================================
