------------------------- MODULE MCPerformanceLogger -------------------------
(* The three threads of System_Info, which the logger does not tell apart.   *)
(* Every property is an invariant, so the symmetry is sound.                 *)
EXTENDS PerformanceLogger, TLC

CONSTANTS gpu_loop, cpu_loop, opc_ua_client_write

ThreadSymmetry == Permutations(Threads)
==============================================================================
