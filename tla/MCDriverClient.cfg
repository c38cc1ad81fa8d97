SPECIFICATION Spec
CONSTANTS
    MaxProcs = 2
    MaxRuns = 3
    MaxFaults = 1
INVARIANTS
    CapacitySuffices
    LoadFromTwoSamples
    PackagePowerFromTwoSamples
    EverySampleReturned
    ResizesBounded
    SampledOncePerRun
PROPERTIES
    ReturnsWhileIoWorks
