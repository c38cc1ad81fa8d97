----------------------------- MODULE DriverClient -----------------------------
(***************************************************************************)
(* System_Info/driver_client/DriverClient with the driver it talks to:     *)
(* runDriver asks with a buffer that holds only the header, learns from it *)
(* how much the driver needs, and asks again.  The thread is in            *)
(* DeviceIoControl while the driver handles the request.                   *)
(*                                                                         *)
(* DeviceIoControl may also fail for reasons of its own, for a while or    *)
(* for good; io says whether it does.  The constructor has opened the      *)
(* device: the worker does not call runDriver otherwise.                   *)
(***************************************************************************)
EXTENDS CpuDriver

CONSTANTS
    MaxRuns,      \* bound: how often runDriver is called
    MaxFaults     \* bound: how often DeviceIoControl starts to fail

ASSUME BoundsAssumption == MaxRuns \in Nat /\ MaxFaults \in Nat

VARIABLES
    pc,             \* where runDriver is
    buffer_size,    \* buffer_size
    header,         \* required_size in the buffer; 0 while nothing was written there
    first_pass,     \* first_pass
    result,         \* ret_data
    received,       \* history: the number of the driver's sample in ret_data
    runs,           \* how often runDriver was called
    io,             \* whether DeviceIoControl works
    faults,         \* how often it stopped working
    resizes,        \* history: how often this call of runDriver resized its buffer
    added,          \* history: how often processors were added during this call
    collected       \* history: how many requests collected metrics in this call

clientVars ==
    <<pc, buffer_size, header, first_pass, result, received, runs, io, faults, resizes,
      added, collected>>
vars == <<driverVars, clientVars>>

Init ==
    /\ InitDriver
    /\ pc = "idle"
    /\ buffer_size = 0
    /\ header = 0
    /\ first_pass = TRUE
    /\ result = <<>>
    /\ received = 0
    /\ runs = 0
    /\ io = "works"
    /\ faults = 0
    /\ resizes = 0
    /\ added = 0
    /\ collected = 0

------------------------------------------------------------------------------
(* runDriver. *)

\* The first malloc may fail, and then runDriver returns.
RunDriver ==
    /\ pc = "idle"
    /\ runs < MaxRuns
    /\ runs' = runs + 1
    /\ pc' \in {"call", "idle"}
    /\ buffer_size' = HeaderSize
    /\ header' = 0
    /\ first_pass' = TRUE
    /\ resizes' = 0 /\ added' = 0 /\ collected' = 0
    /\ UNCHANGED <<driverVars, result, received, io, faults>>

\* DeviceIoControl hands the request to the driver, which answers at once ...
CallRefused ==
    /\ pc = "call" /\ io = "works"
    /\ RefuseRequest(buffer_size)
    /\ pc' = "answer"
    /\ header' = IF reply'.bytes >= HeaderSize THEN reply'.required ELSE header
    /\ UNCHANGED <<buffer_size, first_pass, result, received, runs, io, faults, resizes,
                   added, collected>>

\* ... or starts to collect,
CallAccepted ==
    /\ pc = "call" /\ io = "works"
    /\ AcceptRequest(buffer_size)
    /\ pc' = "wait"
    /\ collected' = collected + 1
    /\ UNCHANGED <<buffer_size, header, first_pass, result, received, runs, io, faults,
                   resizes, added>>

\* ... or it does not get there.
CallFails ==
    /\ pc = "call" /\ io # "works"
    /\ CompleteRequest("failed", 0, 0, 0, <<>>)
    /\ pc' = "answer"
    /\ UNCHANGED <<loaded, total_procs, core_state, pkg_state, samples, last>>
    /\ UNCHANGED <<buffer_size, header, first_pass, result, received, runs, io, faults,
                   resizes, added, collected>>

\* The driver goes on with the request, and the thread with its last step.
DriverStep ==
    /\ pc = "wait"
    /\ HandleRequest
    /\ IF request' = NoRequest
       THEN pc' = "answer" /\ header' = reply'.required
       ELSE UNCHANGED <<pc, header>>
    /\ UNCHANGED <<buffer_size, first_pass, result, received, runs, io, faults, resizes,
                   added, collected>>

Answered(statuses) == pc = "answer" /\ reply.status \in statuses
SizeErrors == {"overflow", "too_small"}

Return == pc' = "idle" /\ UNCHANGED <<buffer_size, header, first_pass>>

\* offsetof(CPU_DATA_BUFFER, data): where the client expects the first entry.
DataOffset == Aligned(HeaderSize)

\* The answer has fewer bytes than the client computes for the entries that
\* its header promises.
Incomplete == reply.bytes < DataOffset + reply.entry_count * EntrySize

\* Mutant: a complete answer does not end the loop.
ReturnAnswerLater ==
    /\ Answered({"success"})
    /\ result' = IF Incomplete THEN result ELSE reply.entries
    /\ received' = IF Incomplete THEN received ELSE samples
    /\ pc' = "call"
    /\ UNCHANGED <<driverVars, buffer_size, header, first_pass, runs, io, faults, resizes,
                   added, collected>>

\* ret_data is assigned, or nothing is returned and it stays.
ReturnAnswer ==
    /\ Answered({"success"})
    /\ result' = IF Incomplete THEN result ELSE reply.entries
    /\ received' = IF Incomplete THEN received ELSE samples
    /\ Return
    /\ UNCHANGED <<driverVars, runs, io, faults, resizes, added, collected>>

\* realloc may fail, and then runDriver returns.
Resize(size) ==
    /\ buffer_size' = size
    /\ pc' \in {"call", "idle"}
    /\ resizes' = resizes + 1
    /\ UNCHANGED <<driverVars, header, result, received, runs, io, faults, added, collected>>

\* Mutant: the first pass repeats the call with the buffer it has.
ResizeNever ==
    /\ Answered(SizeErrors)
    /\ first_pass
    /\ pc' = "call"
    /\ UNCHANGED <<driverVars, buffer_size, header, first_pass, result, received, runs, io, faults,
                   resizes, added, collected>>

\* Mutant: the size of the header is forgotten.
ResizeForEntries ==
    /\ Answered(SizeErrors)
    /\ first_pass
    /\ first_pass' = FALSE
    /\ Resize(header - HeaderSize)

ResizeFirst ==
    /\ Answered(SizeErrors)
    /\ first_pass
    /\ first_pass' = FALSE
    /\ Resize(header)

ReturnFailed ==
    /\ Answered({"failed"})
    /\ first_pass
    /\ Return
    /\ UNCHANGED <<driverVars, result, received, runs, io, faults, resizes, added, collected>>

ResizeAgain ==
    /\ Answered(SizeErrors)
    /\ ~first_pass
    /\ UNCHANGED first_pass
    /\ Resize(2 * header)

\* On a later pass any other error just repeats the call.
CallAgain ==
    /\ Answered({"failed"})
    /\ ~first_pass
    /\ pc' = "call"
    /\ UNCHANGED <<driverVars, buffer_size, header, first_pass, result, received, runs, io, faults,
                   resizes, added, collected>>

------------------------------------------------------------------------------
(* The machine. *)

HotAdd ==
    /\ AddProcessor
    /\ added' = added + 1
    /\ UNCHANGED <<pc, buffer_size, header, first_pass, result, received, runs, io, faults, resizes,
                   collected>>

IoFails ==
    /\ io = "works" /\ faults < MaxFaults
    /\ io' = "fails"
    /\ faults' = faults + 1
    /\ UNCHANGED <<driverVars, pc, buffer_size, header, first_pass, result, received, runs, resizes,
                   added, collected>>

IoRecovers ==
    /\ io = "fails"
    /\ io' = "works"
    /\ UNCHANGED <<driverVars, pc, buffer_size, header, first_pass, result, received, runs, faults,
                   resizes, added, collected>>

------------------------------------------------------------------------------

Running ==
    \/ CallRefused \/ CallAccepted \/ CallFails \/ DriverStep
    \/ ReturnAnswer \/ ResizeFirst \/ ReturnFailed \/ ResizeAgain \/ CallAgain

Machine == HotAdd \/ IoFails \/ IoRecovers

\* runDriver has been called MaxRuns times.
AllRun == pc = "idle" /\ runs = MaxRuns /\ UNCHANGED vars

Next == RunDriver \/ Running \/ Machine \/ AllRun

\* A call that was begun goes on.  The machine owes nothing.
Spec == Init /\ [][Next]_vars /\ WF_vars(Running)

------------------------------------------------------------------------------
(* Properties. *)

TypeOK ==
    /\ DriverTypeOK
    /\ pc \in {"idle", "call", "wait", "answer"}
    /\ buffer_size \in Nat /\ header \in Nat
    /\ first_pass \in BOOLEAN
    /\ result \in Seq(Entry)
    /\ received \in Nat
    /\ runs \in 0 .. MaxRuns /\ faults \in 0 .. MaxFaults
    /\ io \in {"works", "fails"}
    /\ resizes \in Nat /\ added \in Nat /\ collected \in Nat

\* What the driver samples in a call of runDriver, that call returns.  Every
\* sample becomes the base of the next differences, so one that were lost on
\* its way, in a retry or in a test of the length, would leave a gap between
\* two differences that the caller cannot see.
EverySampleReturned == pc = "idle" => received = samples

\* The buffer is resized once, and once more for each time the driver's need
\* grew meanwhile.
ResizesBounded == resizes <= 1 + added

\* One call of runDriver samples once, so that the next difference spans a
\* whole poll and not the time between two passes.
SampledOncePerRun == collected <= 1

\* runDriver returns, unless DeviceIoControl has stopped to work: after the
\* first pass an error that is not about the size repeats the call for ever.
ReturnsWhileIoWorks == pc # "idle" ~> pc = "idle" \/ io = "fails"
==============================================================================
