-------------------------- MODULE MCHardwareManager --------------------------
(* The two workers of the program.  The machine has up to two graphics       *)
(* cards, and the CPU driver may be missing.                                 *)
EXTENDS HardwareManager

CONSTANTS gpu_loop, cpu_loop, card1, card2, cpu

MCWorkerList == <<gpu_loop, cpu_loop>>
MCDevices == {card1, card2, cpu}
MCFound(w) ==
    IF w = gpu_loop THEN {<<>>, <<card1>>, <<card1, card2>>} ELSE {<<>>, <<cpu>>}
==============================================================================
