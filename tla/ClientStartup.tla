---------------------------- MODULE ClientStartup ----------------------------
(***************************************************************************)
(* The two programs that are clients of the server, from their start to    *)
(* their end: System_Info on a machine and the control center, with the    *)
(* constructor of CustomClient, which both share (CustomClient.cpp,        *)
(* System_Info.cpp, control_center/main.cpp).                              *)
(*                                                                         *)
(* A client runs on a machine of its own with key files of its own, so     *)
(* whether a file can be read is a choice made when it is read.  What a    *)
(* connected client does is the subject of TelemetryPipeline and of        *)
(* ControlCenter.                                                          *)
(***************************************************************************)
EXTENDS ServerLifecycle

CONSTANTS
    Machines,        \* the machines that run System_Info
    Center,          \* the control center
    MaxClientStarts

ASSUME ClientAssumption == Center \notin Machines /\ MaxClientStarts \in Nat

Clients == Machines \union {Center}

VARIABLES
    clientAt,        \* how far each client is
    console,         \* what the control center's terminal shows
    interrupted,     \* the control center's g_running is 0
    clientStarts

clientVars == <<clientAt, console, interrupted, clientStarts>>
startupVars == <<serverVars, clientVars>>

ClientPlaces ==
    {"down", "identity", "configure", "connect", "connected", "restored"}

ClientInit ==
    /\ clientAt = [c \in Clients |-> "down"]
    /\ console = "main"
    /\ interrupted = FALSE
    /\ clientStarts = [c \in Clients |-> 0]

-----------------------------------------------------------------------------
Step(c, from, to) ==
    /\ clientAt[c] = from
    /\ clientAt' = [clientAt EXCEPT ![c] = to]

(* The process is gone.  Nothing but restoreConsole gives the terminal     *)
(* back.                                                                   *)
ClientGone(c) ==
    /\ clientAt' = [clientAt EXCEPT ![c] = "down"]
    /\ interrupted' = (interrupted /\ c # Center)
    /\ UNCHANGED <<console, clientStarts, serverVars>>

(* The control center installs its handler and takes the terminal before   *)
(* it does anything that may fail.                                         *)
StartClient(c) ==
    /\ clientStarts[c] < MaxClientStarts
    /\ Step(c, "down", "identity")
    /\ clientStarts' = [clientStarts EXCEPT ![c] = @ + 1]
    /\ console' = IF c = Center THEN "alternate" ELSE console
    /\ UNCHANGED <<interrupted, serverVars>>

(* Its own certificate and key, then the server's and the CA's             *)
(* certificate: either of the latter is skipped when it cannot be read, so *)
(* that this step ends in the same way with any of them.                   *)
LoadFiles(c) ==
    /\ Step(c, "identity", "configure")
    /\ UNCHANGED <<console, interrupted, clientStarts, serverVars>>

(* The endpoint takes the first entry of the trust list.  When the server's*)
(* certificate was skipped there is none, and the read is undefined: it may*)
(* go on with any value, or end the process (ConstructorThrows).           *)
ConfigureClient(c) ==
    /\ Step(c, "configure", "connect")
    /\ UNCHANGED <<console, interrupted, clientStarts, serverVars>>

(* The own files cannot be read, SERVER_IP is not set, a call of the       *)
(* library fails or the list was empty.  Nobody catches what the           *)
(* constructor throws.                                                     *)
ConstructorThrows(c) ==
    /\ clientAt[c] \in {"identity", "configure"}
    /\ ClientGone(c)

(* A server whose loop runs may accept the client.                         *)
Connect(c) ==
    /\ serverAt = "running"
    /\ Step(c, "connect", "connected")
    /\ UNCHANGED <<console, interrupted, clientStarts, serverVars>>

(* The client is refused or finds no server.  System_Info throws out of    *)
(* main, the control center catches and returns.                           *)
ConnectThrows(c) ==
    /\ clientAt[c] = "connect"
    /\ ClientGone(c)

(* A call of the connected client throws out of main's loop.               *)
LoopThrows(c) ==
    /\ clientAt[c] = "connected"
    /\ ClientGone(c)

-----------------------------------------------------------------------------
(***************************************************************************)
(* The end of the control center's loop.                                   *)
(***************************************************************************)

(* Ctrl-C: the handler is there from the first line of main on.  Where the *)
(* system takes it out when it is called, a second one ends the process.   *)
Interrupt ==
    /\ clientAt[Center] # "down"
    /\ \/ /\ interrupted' = TRUE
          /\ UNCHANGED <<clientAt, console, clientStarts, serverVars>>
       \/ interrupted /\ ClientGone(Center)

(* Mutant: the flag is tested after the next tick that finds the server.   *)
LeaveLoopWithServer ==
    /\ interrupted
    /\ serverAt = "running"
    /\ Step(Center, "connected", "restored")
    /\ console' = "main"
    /\ UNCHANGED <<interrupted, clientStarts, serverVars>>

LeaveLoop ==
    /\ interrupted
    /\ Step(Center, "connected", "restored")
    /\ console' = "main"
    /\ UNCHANGED <<interrupted, clientStarts, serverVars>>

(* disconnect may throw, which main catches; the destructors release the   *)
(* lists and the process ends.                                             *)
EndClient(c) ==
    /\ clientAt[c] = "restored"
    /\ ClientGone(c)

(* System_Info has no handler: a signal ends it anywhere.                  *)
KillClient(c) ==
    /\ c \in Machines
    /\ clientAt[c] # "down"
    /\ ClientGone(c)

ClientStep(c) ==
    \/ LoadFiles(c) \/ ConfigureClient(c) \/ ConstructorThrows(c)
    \/ Connect(c) \/ ConnectThrows(c)
    \/ (c = Center /\ LeaveLoop) \/ EndClient(c)

ClientNext ==
    \E c \in Clients :
       StartClient(c) \/ ClientStep(c) \/ LoopThrows(c) \/ KillClient(c)

Init == ServerInit /\ ClientInit

Next ==
    \/ ServerNext /\ UNCHANGED clientVars
    \/ ClientNext
    \/ Interrupt

(***************************************************************************)
(* A client goes on as long as it can; reading a file and connecting end   *)
(* in one way or the other.                                                *)
(***************************************************************************)
ClientFairness == \A c \in Clients : WF_startupVars(ClientStep(c))

Spec == Init /\ [][Next]_startupVars /\ ServerFairness /\ ClientFairness

-----------------------------------------------------------------------------
StartupTypeOK ==
    /\ ServerTypeOK
    /\ clientAt \in [Clients -> ClientPlaces]
    /\ console \in {"main", "alternate"}
    /\ interrupted \in BOOLEAN
    /\ clientStarts \in [Clients -> Nat]

(***************************************************************************)
(* Ctrl-C ends the control center, also one that came while it was still   *)
(* starting or connecting, and whether or not the server answers           *)
(* (control_center/main.cpp:19, 90).                                       *)
(***************************************************************************)
InterruptEndsCenter == interrupted ~> clientAt[Center] = "down"
=============================================================================
