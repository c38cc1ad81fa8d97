--------------------------- MODULE MCControlCenter ---------------------------
(* One machine with two devices, and the control center.              *)
EXTENDS ControlCenter

CONSTANTS cpu, card

MCDeviceNames == {<<"pc">>}
MCCertificateOf(c) == c[1]
MCSessions == DeviceNames \X (1 .. MaxStarts)
MCDevices(c) == {cpu, card}
MCName(d) == IF d = card THEN <<"gpu">> ELSE <<"cpu">>
MCHardwareType(key) == IF key = <<"cpu">> THEN <<"CPU">> ELSE <<"GPU">>
MCNodeIds ==
    UNION {{c} \cup {c \o Name(d) : d \in Devices(c)}
               \cup {c \o Name(d) \o <<f>> : d \in Devices(c), f \in Fields} : c \in DeviceNames}
==============================================================================
