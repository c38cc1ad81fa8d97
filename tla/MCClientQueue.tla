---------------------------- MODULE MCClientQueue ----------------------------
(* Two poll threads that push at most MaxPushes snapshots each, one sender   *)
(* and one thread that shuts the queue down.  No symmetry set: the run has   *)
(* liveness properties.                                                      *)
EXTENDS ClientQueue
==============================================================================
