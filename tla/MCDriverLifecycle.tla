-------------------------- MODULE MCDriverLifecycle --------------------------
(* A counter of 4 values, 2 ticks in a millisecond. *)
EXTENDS DriverLifecycle
==============================================================================
