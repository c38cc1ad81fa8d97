------------------------- MODULE MCTelemetryPipeline -------------------------
(* The System_Info process on a machine with a processor and two or no       *)
(* graphics cards.  The cards are of one model, so they have the same name.  *)
EXTENDS TelemetryPipeline

CONSTANTS gpu_loop, cpu_loop, card1, card2, cpu, card_name, cpu_name

MCWorkerList == <<gpu_loop, cpu_loop>>
MCDevices == {card1, card2, cpu}
MCFound(w) ==
    IF w = gpu_loop THEN {<<>>, <<card1, card2>>} ELSE {<<cpu>>}

MCName(d) == IF d = cpu THEN cpu_name ELSE card_name
==============================================================================
