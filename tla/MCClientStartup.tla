--------------------------- MODULE MCClientStartup ---------------------------
(* Two devices on the server's list, one machine and the control center.   *)
EXTENDS ClientStartup
=============================================================================
