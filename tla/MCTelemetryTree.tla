--------------------------- MODULE MCTelemetryTree ---------------------------
(* Two machines; one has a processor and a card, the other nothing to report. *)
EXTENDS TelemetryTree

CONSTANTS cpu, card

MCDeviceNames == {<<"pc">>, <<"lab">>}
MCDevices(c) == IF c = <<"pc">> THEN {cpu, card} ELSE {}
MCName(d) == IF d = card THEN <<"gpu">> ELSE <<"cpu">>
MCCertificateOf(c) == c[1]
MCSessions == DeviceNames \X (1 .. MaxStarts)
MCNodeIds ==
    UNION {{c} \cup {c \o Name(d) : d \in Devices(c)}
               \cup {c \o Name(d) \o <<f>> : d \in Devices(c), f \in Fields} : c \in DeviceNames}
==============================================================================
