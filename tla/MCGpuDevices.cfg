SPECIFICATION Spec
CONSTANTS
    Machines <- MCMachines
    Sensors = {"Memory Clock Speed", "Core Clock Speed", "GPU Graphics Clock"}
INVARIANTS
    EveryActiveCardOnce
    SdkLivesForDevices
    PmLogBalanced
    HighestLevelWins
\* The process ends when nobody catches an exception or a function is missing.
CHECK_DEADLOCK FALSE
