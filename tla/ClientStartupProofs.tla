------------------------- MODULE ClientStartupProofs -------------------------
(***************************************************************************)
(* Proofs about the server's start and end and about its clients', for     *)
(* every set of devices and machines and any number of starts, signals and *)
(* changes of the key files.                                               *)
(***************************************************************************)
EXTENDS ClientStartup, TLAPS

\* What the constructor has loaded so far accounts for every device whose
\* certificate could be read all along: it was loaded or is still to come.
TrustInv ==
    /\ steady \subseteq readable
    /\ serverAt = "trust" => steady \subseteq trust_list \union unvisited
    /\ serverAt \in Configured => steady \subseteq trust_list

ServerInv == ServerTypeOK /\ TrustInv

LEMMA ServerInitInv ==
    ASSUME ServerInit
    PROVE  ServerInv
<1>1. ServerTypeOK
  <2>1. serverAt \in Places /\ readable \subseteq Files
    BY DEF ServerInit, Places
  <2>2. /\ unvisited \subseteq Devices /\ trust_list \subseteq Devices /\ steady \subseteq Devices
        /\ handlers \subseteq Signals /\ handling \subseteq Signals
    BY DEF ServerInit
  <2>3. g_serverPtr \in BOOLEAN /\ stopped \in BOOLEAN
    BY DEF ServerInit
  <2>4. {serverStarts, signals, changes} \subseteq Nat
    BY DEF ServerInit
  <2>5. QED
    BY <2>1, <2>2, <2>3, <2>4 DEF ServerTypeOK
<1>2. TrustInv
  BY DEF ServerInit, TrustInv, Configured
<1>3. QED
  BY <1>1, <1>2 DEF ServerInv

\* A file that changes was not readable all along any more.
LEMMA ChangeFileStep ==
    ASSUME ServerInv, NEW f \in Files, ChangeFile(f)
    PROVE  ServerInv'
<1> USE DEF ServerInv, ChangeFile, loading, signalVars
<1>1. ServerTypeOK'
  BY DEF ServerTypeOK
<1>2. TrustInv'
  BY DEF TrustInv
<1>3. QED
  BY <1>1, <1>2

\* Wherever the program ends, nothing of it stays.
LEMMA ServerGoneStep ==
    ASSUME ServerInv, ServerGone, UNCHANGED <<readable, serverStarts, changes>>, signals' \in Nat
    PROVE  ServerInv'
  BY DEF ServerInv, ServerGone, ServerTypeOK, TrustInv, Places, Configured

LEMMA LoadStep ==
    ASSUME ServerInv, LoadIdentity \/ LoadIssuers
    PROVE  ServerInv'
<1>1. CASE ServerGone
  <2>1. UNCHANGED <<readable, serverStarts, changes>> /\ signals' = signals
    BY DEF LoadIdentity, LoadIssuers, LoadOrThrow, serverCounts
  <2>2. QED
    BY <1>1, <2>1, ServerGoneStep DEF ServerInv, ServerTypeOK
<1>2. CASE ~ServerGone
  <2>1. /\ \/ serverAt = "identity" /\ serverAt' = "issuers" /\ unvisited' = unvisited
           \/ serverAt = "issuers" /\ serverAt' = "trust" /\ unvisited' = Devices
        /\ UNCHANGED <<readable, trust_list, handlers, handling, g_serverPtr, stopped, steady,
                       serverStarts, signals, changes>>
    BY <1>2 DEF LoadIdentity, LoadIssuers, LoadOrThrow, Advance, signalVars, serverCounts
  <2>2. QED
    BY <2>1 DEF ServerInv, ServerTypeOK, TrustInv, Places, Configured
<1>3. QED
  BY <1>1, <1>2

\* A folder that is shown is loaded or skipped.
LEMMA VisitStep ==
    ASSUME ServerInv, NEW d \in Devices, VisitDevice(d)
    PROVE  ServerInv'
  BY DEF VisitDevice, ServerInv, ServerTypeOK, TrustInv, Places, Configured, signalVars,
     serverCounts

\* The steps of main and of its thread that load nothing.
LEMMA MainStep ==
    ASSUME ServerInv,
           \/ TrustLoaded \/ Configure \/ Publish \/ EnterRun \/ LeaveRun \/ RunThrows \/ JoinThread
    PROVE  ServerInv'
<1>1. /\ UNCHANGED <<readable, unvisited, trust_list, handlers, handling, steady, serverStarts,
                     signals, changes>>
      /\ \/ serverAt = "trust" /\ serverAt' = "configure" /\ unvisited = {}
            /\ UNCHANGED <<g_serverPtr, stopped>>
         \/ serverAt = "configure" /\ serverAt' = "signals" /\ UNCHANGED <<g_serverPtr, stopped>>
         \/ serverAt = "thread" /\ serverAt' = "published" /\ g_serverPtr' = TRUE
            /\ UNCHANGED stopped
         \/ serverAt = "published" /\ serverAt' \in {"running", "returned"} /\ stopped' \in BOOLEAN
            /\ UNCHANGED g_serverPtr
         \/ serverAt = "running" /\ serverAt' = "returned" /\ UNCHANGED <<g_serverPtr, stopped>>
         \/ serverAt = "returned" /\ serverAt' = "joined" /\ UNCHANGED <<g_serverPtr, stopped>>
  BY DEF TrustLoaded, Configure, Publish, EnterRun, LeaveRun, RunThrows, JoinThread, Advance,
     loading, signalVars, serverCounts, ServerInv, ServerTypeOK
<1>2. QED
  BY <1>1 DEF ServerInv, ServerTypeOK, TrustInv, Places, Configured

LEMMA SignalStep ==
    ASSUME ServerInv, NEW s \in Signals, InstallHandler(s) \/ HandleSignal(s) \/ DeliverSignal(s)
    PROVE  ServerInv'
<1>1. CASE InstallHandler(s)
  BY <1>1 DEF InstallHandler, ServerInv, ServerTypeOK, TrustInv, Places, Configured, loading,
     serverCounts
<1>2. CASE HandleSignal(s)
  BY <1>2 DEF HandleSignal, ServerInv, ServerTypeOK, TrustInv, Places, Configured, loading,
     serverCounts
<1>3. CASE DeliverSignal(s)
  <2>1. signals' \in Nat /\ UNCHANGED <<readable, serverStarts, changes>>
    BY <1>3 DEF DeliverSignal, ServerInv, ServerTypeOK
  <2>2. CASE s \in handlers
    BY <1>3, <2>1, <2>2 DEF DeliverSignal, ServerInv, ServerTypeOK, TrustInv, Places,
       Configured, loading
  <2>3. CASE s \notin handlers
    BY <1>3, <2>1, <2>3, ServerGoneStep DEF DeliverSignal
  <2>4. QED
    BY <2>2, <2>3
<1>4. QED
  BY <1>1, <1>2, <1>3

LEMMA ServerStepInv ==
    ASSUME ServerInv, ServerNext \/ UNCHANGED serverVars
    PROVE  ServerInv'
<1>1. CASE StartServer
  BY <1>1 DEF StartServer, Advance, ServerInv, ServerTypeOK, TrustInv, Places, Configured,
     loading, signalVars
<1>2. CASE ConfigureThrows \/ EndServer
  <2>1. ServerGone /\ UNCHANGED <<readable, serverStarts, changes>> /\ signals' = signals
    BY <1>2 DEF ConfigureThrows, EndServer, serverCounts
  <2>2. QED
    BY <2>1, ServerGoneStep DEF ServerInv, ServerTypeOK
<1>3. CASE UNCHANGED serverVars
  BY <1>3 DEF serverVars, loading, signalVars, serverCounts, ServerInv, ServerTypeOK, TrustInv
<1>4. QED
  BY <1>1, <1>2, <1>3, ChangeFileStep, LoadStep, VisitStep, MainStep, SignalStep
  DEF ServerNext, ServerStep

------------------------------------------------------------------------------
(* Server and clients together. *)

ClientTypes ==
    /\ clientAt \in [Clients -> ClientPlaces]
    /\ console \in {"main", "alternate"}
    /\ interrupted \in BOOLEAN
    /\ clientStarts \in [Clients -> Nat]

StartupInv == ServerInv /\ ClientTypes

LEMMA ClientStepTypes ==
    ASSUME ClientTypes, ClientNext \/ Interrupt
    PROVE  ClientTypes' /\ UNCHANGED serverVars
<1>1. CASE Interrupt
  BY <1>1 DEF Interrupt, ClientGone, ClientTypes, Clients, ClientPlaces
<1>2. ASSUME NEW c \in Clients,
             StartClient(c) \/ ClientStep(c) \/ LoopThrows(c) \/ KillClient(c)
      PROVE  ClientTypes' /\ UNCHANGED serverVars
  <2>1. CASE ClientGone(c)
    BY <2>1 DEF ClientGone, ClientTypes, ClientPlaces
  <2>2. CASE StartClient(c)
    BY <2>2 DEF StartClient, Step, ClientTypes, ClientPlaces
  <2>3. CASE LeaveLoop
    BY <2>3 DEF LeaveLoop, Step, ClientTypes, ClientPlaces, Clients
  <2>4. CASE LoadFiles(c) \/ ConfigureClient(c) \/ Connect(c)
    BY <2>4 DEF LoadFiles, ConfigureClient, Connect, Step, ClientTypes, ClientPlaces
  <2>5. QED
    BY <1>2, <2>1, <2>2, <2>3, <2>4
    DEF ClientStep, ConstructorThrows, ConnectThrows, EndClient, LoopThrows, KillClient
<1>3. QED
  BY <1>1, <1>2 DEF ClientNext

LEMMA StartupNext ==
    ASSUME StartupInv, [Next]_startupVars
    PROVE  StartupInv'
<1>1. CASE (ServerNext \/ UNCHANGED serverVars) /\ UNCHANGED clientVars
  BY <1>1, ServerStepInv DEF StartupInv, clientVars, ClientTypes
<1>2. CASE ClientNext \/ Interrupt
  BY <1>2, ClientStepTypes, ServerStepInv DEF StartupInv
<1>3. QED
  BY <1>1, <1>2 DEF Next, startupVars

THEOREM StartupInvariant == Spec => []StartupInv
<1>1. ASSUME Init
      PROVE  StartupInv
  <2>1. ServerInv
    BY <1>1, ServerInitInv DEF Init
  <2>2. ClientTypes
    BY <1>1 DEF Init, ClientInit, ClientTypes, ClientPlaces
  <2>3. QED
    BY <2>1, <2>2 DEF StartupInv
<1>2. StartupInv /\ [Next]_startupVars => StartupInv'
  BY StartupNext
<1>3. QED
  BY <1>1, <1>2, PTL DEF Spec

\* The server and its clients keep to their types.
THEOREM StartupTypeCorrect == Spec => []StartupTypeOK
<1>1. StartupInv => StartupTypeOK
  BY DEF StartupInv, ServerInv, ClientTypes, StartupTypeOK
<1>2. QED
  BY <1>1, StartupInvariant, PTL

\* The loop over pki/devices in server.cpp loses no device to another one's bad
\* certificate, whatever happens to the files while it reads them.
THEOREM ReadableDevicesTrusted == Spec => []TrustsEveryReadableDevice
<1>1. StartupInv => TrustsEveryReadableDevice
  BY DEF StartupInv, ServerInv, TrustInv, TrustsEveryReadableDevice
<1>2. QED
  BY <1>1, StartupInvariant, PTL
==============================================================================
