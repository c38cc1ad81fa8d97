SPECIFICATION CenterLiveSpec
CONSTANTS
    cpu = cpu
    card = card
    NoValue = NoValue
    Nothing = Nothing
    DeviceNames <- MCDeviceNames
    Certificates = {"pc"}
    CertificateOf <- MCCertificateOf
    Sessions <- MCSessions
    Parts = {"pc", "gpu", "cpu", "name", "vendor", "hardware_type", "sensors"}
    NodeIds <- MCNodeIds
    Devices <- MCDevices
    Name <- MCName
    HardwareType <- MCHardwareType
    MaxStarts = 1
    MaxReadings = 1
    MaxServerStarts = 2
INVARIANTS
    WatchedOnce
    HeaderOfDevice
PROPERTIES
    UpdatesShown
