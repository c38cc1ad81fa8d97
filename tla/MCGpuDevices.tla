---------------------------- MODULE MCGpuDevices ----------------------------
(* A machine with two AMD cards of which one has three adapters, the first  *)
(* inactive; a machine with an AMD and an NVIDIA card; and one whose ADL    *)
(* library is too old.                                                      *)
EXTENDS GpuDevices

Shown(v) == [vendor |-> v, software |-> FALSE]
Adp(b, a) == [bus |-> b, active |-> a]

MCMachines ==
    {[dxgi |-> <<Shown("AMD"), Shown("AMD"), Shown("INTEL")>>,
      adapters |-> <<Adp(1, FALSE), Adp(1, TRUE), Adp(2, TRUE), Adp(1, TRUE)>>,
      adlx |-> <<1, 2>>, nvidia |-> <<>>, exports |-> {"create", "enumerate", "caps"}],
     [dxgi |-> <<Shown("AMD"), Shown("NVIDIA"), [vendor |-> "UNKNOWN", software |-> TRUE]>>,
      adapters |-> <<Adp(3, TRUE), Adp(3, TRUE)>>,
      adlx |-> <<3>>, nvidia |-> <<4>>, exports |-> {"create", "enumerate", "caps"}],
     [dxgi |-> <<Shown("AMD")>>, adapters |-> <<Adp(1, TRUE)>>,
      adlx |-> <<1>>, nvidia |-> <<>>, exports |-> {"create", "enumerate"}],
     [dxgi |-> <<Shown("AMD")>>, adapters |-> <<Adp(1, TRUE)>>,
      adlx |-> <<1>>, nvidia |-> <<>>, exports |-> {"create"}],
     [dxgi |-> <<Shown("AMD")>>, adapters |-> <<Adp(1, TRUE)>>,
      adlx |-> <<1>>, nvidia |-> <<>>, exports |-> {}]}
==============================================================================
