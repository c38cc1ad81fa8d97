---------------------------- MODULE MCDriverClient ----------------------------
(* A few calls of runDriver on a machine whose processors grow.              *)
EXTENDS DriverClient
==============================================================================
