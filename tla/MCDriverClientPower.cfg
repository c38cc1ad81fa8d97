SPECIFICATION Spec
CONSTANTS
    MaxProcs = 1
    MaxRuns = 2
    MaxFaults = 0
INVARIANTS
    CorePowerFromTwoSamples
