SPECIFICATION TreeSpec
CONSTANTS
    cpu = cpu
    card = card
    NoValue = NoValue
    DeviceNames <- MCDeviceNames
    Certificates = {"pc", "lab"}
    CertificateOf <- MCCertificateOf
    Sessions <- MCSessions
    Parts = {"pc", "lab", "gpu", "cpu", "name", "vendor", "hardware_type", "sensors"}
    NodeIds <- MCNodeIds
    Devices <- MCDevices
    Name <- MCName
    MaxStarts = 2
    MaxReadings = 2
    MaxServerStarts = 2
INVARIANTS
    EnsuredNodesServe
    SensorsComeLast
    PublishedComplete
\* A machine's System_Info may end for good.
CHECK_DEADLOCK FALSE
