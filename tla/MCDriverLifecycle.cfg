SPECIFICATION Spec
CONSTANTS
    Modulus = 4
    Divisor = 3
    Frequency = 2000
    MaxLoads = 2
    MaxUsed = 4
    MaxTicks = 4
INVARIANTS
    NothingLeftBehind
PROPERTIES
    PowerOfInterval
\* The driver may stay unloaded.
CHECK_DEADLOCK FALSE
