--------------------------- MODULE MCAccessControl ---------------------------
(* Two devices and a certificate nobody has.  There are ids for each         *)
(* device's folder and for nodes below it, and one that is no device's.      *)
EXTENDS AccessControl

MCDeviceNames == {<<"pc">>, <<"lab">>}
MCCertificateOf(d) == d[1]
MCNodeIds == {<<"pc">>, <<"pc", "gpu">>, <<"lab">>, <<"lab", "gpu">>, <<"tv">>}
==============================================================================
