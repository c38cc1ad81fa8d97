SPECIFICATION Spec
CONSTANTS
    gpu_loop = gpu_loop
    cpu_loop = cpu_loop
    card1 = card1
    card2 = card2
    cpu = cpu
    WorkerList <- MCWorkerList
    Devices <- MCDevices
    Found <- MCFound
    MaxPolls = 2
INVARIANTS
    NoSharedDevice
    PollOnlyInitialized
    DevicesServedEvenly
PROPERTIES
    StopPollingReturns
\* An exception in an initialize thread ends the process.
CHECK_DEADLOCK FALSE
