SPECIFICATION PipelineSpec
CONSTANTS
    gpu_loop = gpu_loop
    cpu_loop = cpu_loop
    card1 = card1
    card2 = card2
    cpu = cpu
    card_name = card_name
    cpu_name = cpu_name
    WorkerList <- MCWorkerList
    Devices <- MCDevices
    Found <- MCFound
    Name <- MCName
    MaxPolls = 2
INVARIANTS
    WrittenInReadingOrder
PROPERTIES
    PathSpec
    EverythingWritten
\* An exception ends the process, and then nothing runs.
CHECK_DEADLOCK FALSE
