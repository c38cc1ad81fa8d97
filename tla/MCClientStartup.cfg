SPECIFICATION Spec
CONSTANTS
    Devices = {"pc", "lab"}
    MaxServerStarts = 1
    MaxSignals = 2
    MaxChanges = 1
    Machines = {"pc"}
    Center = "control_center"
    MaxClientStarts = 1
INVARIANTS
    TrustsEveryReadableDevice
PROPERTIES
    StopsWhenTold
    InterruptEndsCenter
\* The server and its clients may stay down.
CHECK_DEADLOCK FALSE
