SPECIFICATION AccessSpec
CONSTANTS
    DeviceNames <- MCDeviceNames
    Certificates = {"pc", "lab", "other"}
    CertificateOf <- MCCertificateOf
    s1 = s1
    s2 = s2
    Sessions = {s1, s2}
    Parts = {"pc", "lab", "gpu", "tv"}
    NodeIds <- MCNodeIds
INVARIANTS
    SessionSpeaksForItsCertificate
    FolderIsOwn
    SubtreeOfOneDevice
