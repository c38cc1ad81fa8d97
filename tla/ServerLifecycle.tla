--------------------------- MODULE ServerLifecycle ---------------------------
(***************************************************************************)
(* The server program from its start to its end (server.cpp, main.cpp):    *)
(* it reads its key files, configures the library, installs its signal     *)
(* handlers and runs the library's loop in a thread that main joins.       *)
(*                                                                         *)
(* Around it: whoever keeps the key files changes them at any time, and    *)
(* signals arrive at any time.  The texts of certificates and of the       *)
(* configuration are left out; what counts is which files can be read when *)
(* they are read.                                                          *)
(***************************************************************************)
EXTENDS Naturals

CONSTANTS
    Devices,      \* the folders of pki/devices other than the server's
    MaxServerStarts, MaxSignals, MaxChanges

Signals == {"SIGINT", "SIGTERM"}
Files == Devices \union {"server", "ca"}

ASSUME ServerAssumption ==
    /\ {"server", "ca"} \intersect Devices = {}
    /\ {MaxServerStarts, MaxSignals, MaxChanges} \subseteq Nat

VARIABLES
    serverAt,     \* how far the program is
    readable,     \* the files that readBytesFromFile can read now
    unvisited,    \* the folders that the directory iterator has yet to show
    trust_list,   \* the devices whose certificates were loaded
    handlers,     \* the signals that have handleSignal as their handler
    handling,     \* the signals whose handler has begun
    g_serverPtr,  \* TRUE once the thread has published the server
    stopped,      \* TRUE once stop was called, until the loop sees it
    steady,       \* history: devices whose certificate could be read ever
                  \* since the start
    serverStarts, signals, changes

loading == <<unvisited, trust_list>>
signalVars == <<handlers, handling, g_serverPtr, stopped>>
serverCounts == <<serverStarts, signals, changes>>
serverVars == <<serverAt, readable, loading, signalVars, steady, serverCounts>>

Places == {"down", "identity", "issuers", "trust", "configure", "signals",
           "thread", "published", "running", "returned", "joined"}

ServerInit ==
    /\ serverAt = "down"
    /\ readable \in SUBSET Files
    /\ unvisited = {} /\ trust_list = {} /\ steady = {}
    /\ handlers = {} /\ handling = {}
    /\ g_serverPtr = FALSE /\ stopped = FALSE
    /\ serverStarts = 0 /\ signals = 0 /\ changes = 0

-----------------------------------------------------------------------------
(***************************************************************************)
(* The environment.                                                        *)
(***************************************************************************)

(* A file becomes readable, or is damaged, replaced or removed.            *)
ChangeFile(f) ==
    /\ changes < MaxChanges
    /\ changes' = changes + 1
    /\ readable' = IF f \in readable THEN readable \ {f}
                                     ELSE readable \union {f}
    /\ steady' = steady \ {f}
    /\ UNCHANGED <<serverAt, loading, signalVars, serverStarts, signals>>

-----------------------------------------------------------------------------
(***************************************************************************)
(* The constructor, one file read after the other.                         *)
(***************************************************************************)
Advance(from, to) ==
    /\ serverAt = from
    /\ serverAt' = to

(* The process is gone, and with it what it had loaded and installed.      *)
ServerGone ==
    /\ serverAt' = "down"
    /\ unvisited' = {} /\ trust_list' = {} /\ steady' = {}
    /\ handlers' = {} /\ handling' = {}
    /\ g_serverPtr' = FALSE /\ stopped' = FALSE

StartServer ==
    /\ Advance("down", "identity")
    /\ serverStarts < MaxServerStarts
    /\ serverStarts' = serverStarts + 1
    /\ steady' = readable \intersect Devices
    /\ UNCHANGED <<readable, loading, signalVars, signals, changes>>

(* The server's own certificate and key, or the CA's certificate: without  *)
(* them the constructor throws out of main.                                *)
LoadOrThrow(file, from, to) ==
    /\ serverAt = from
    /\ IF file \in readable
         THEN /\ Advance(from, to)
              /\ unvisited' = IF to = "trust" THEN Devices ELSE unvisited
              /\ UNCHANGED <<trust_list, signalVars, steady>>
         ELSE ServerGone
    /\ UNCHANGED <<readable, serverCounts>>

LoadIdentity == LoadOrThrow("server", "identity", "issuers")
LoadIssuers == LoadOrThrow("ca", "issuers", "trust")

(* Mutant: a certificate that cannot be read ends the loop.                *)
VisitDeviceOrBreak(d) ==
    /\ serverAt = "trust"
    /\ d \in unvisited
    /\ IF d \in readable
         THEN /\ unvisited' = unvisited \ {d}
              /\ trust_list' = trust_list \union {d}
         ELSE /\ unvisited' = {}
              /\ UNCHANGED trust_list
    /\ UNCHANGED <<serverAt, readable, signalVars, steady, serverCounts>>

(* The iterator shows the folders in any order.  One without a certificate *)
(* and one whose certificate cannot be read are skipped alike.             *)
VisitDevice(d) ==
    /\ serverAt = "trust"
    /\ d \in unvisited
    /\ unvisited' = unvisited \ {d}
    /\ trust_list' = IF d \in readable THEN trust_list \union {d}
                                       ELSE trust_list
    /\ UNCHANGED <<serverAt, readable, signalVars, steady, serverCounts>>

TrustLoaded ==
    /\ unvisited = {}
    /\ Advance("trust", "configure")
    /\ UNCHANGED <<readable, loading, signalVars, steady, serverCounts>>

(* The library takes the lists, the key, the policy and the endpoint, the  *)
(* folder of all clients is added and the access control is set.           *)
Configure ==
    /\ Advance("configure", "signals")
    /\ UNCHANGED <<readable, loading, signalVars, steady, serverCounts>>

(* A call of the library fails, or SERVER_IP is not set.                   *)
ConfigureThrows ==
    /\ serverAt = "configure"
    /\ ServerGone
    /\ UNCHANGED <<readable, serverCounts>>

-----------------------------------------------------------------------------
(***************************************************************************)
(* main and the thread it joins.                                           *)
(***************************************************************************)
InstallHandler(s) ==
    /\ serverAt = "signals"
    /\ s = "SIGTERM" => "SIGINT" \in handlers
    /\ s \notin handlers
    /\ handlers' = handlers \union {s}
    /\ serverAt' = IF s = "SIGTERM" THEN "thread" ELSE serverAt
    /\ UNCHANGED <<readable, loading, handling, g_serverPtr, stopped, steady,
                   serverCounts>>

Publish ==
    /\ Advance("thread", "published")
    /\ g_serverPtr' = TRUE
    /\ UNCHANGED <<readable, loading, handlers, handling, stopped, steady,
                   serverCounts>>

(* A stop that came before the loop may be forgotten or obeyed: the        *)
(* library decides.                                                        *)
EnterRun ==
    /\ serverAt = "published"
    /\ \/ serverAt' = "running"
       \/ stopped /\ serverAt' = "returned"
    /\ stopped' = FALSE
    /\ UNCHANGED <<readable, loading, handlers, handling, g_serverPtr, steady,
                   serverCounts>>

LeaveRun ==
    /\ stopped
    /\ Advance("running", "returned")
    /\ UNCHANGED <<readable, loading, signalVars, steady, serverCounts>>

(* run throws; runServer catches and the thread ends.                      *)
RunThrows ==
    /\ serverAt \in {"published", "running"}
    /\ serverAt' = "returned"
    /\ UNCHANGED <<readable, loading, signalVars, steady, serverCounts>>

(* main wakes up and returns, which destroys the server.  g_serverPtr is   *)
(* not reset, and a handler may still read it until the process is gone.   *)
JoinThread ==
    /\ Advance("returned", "joined")
    /\ UNCHANGED <<readable, loading, signalVars, steady, serverCounts>>

EndServer ==
    /\ serverAt = "joined"
    /\ ServerGone
    /\ UNCHANGED <<readable, serverCounts>>

-----------------------------------------------------------------------------
(***************************************************************************)
(* Signals.  Before its handler is installed a signal ends the process.    *)
(* Some systems take the handler out when it is called, so that the same   *)
(* signal ends the process when it comes again.                            *)
(***************************************************************************)
DeliverSignal(s) ==
    /\ serverAt # "down"
    /\ signals < MaxSignals
    /\ signals' = signals + 1
    /\ IF s \in handlers
         THEN /\ handling' = handling \union {s}
              /\ handlers' \in {handlers, handlers \ {s}}
              /\ UNCHANGED <<serverAt, loading, g_serverPtr, stopped, steady>>
         ELSE ServerGone
    /\ UNCHANGED <<readable, serverStarts, changes>>

(* Mutant: the handler only clears g_running.                              *)
HandleSignalByFlag(s) ==
    /\ s \in handling
    /\ handling' = handling \ {s}
    /\ UNCHANGED <<serverAt, readable, loading, handlers, g_serverPtr,
                   stopped, steady, serverCounts>>

(* g_running is written here and read nowhere, and left out.  Without the  *)
(* pointer the signal is swallowed.                                        *)
HandleSignal(s) ==
    /\ s \in handling
    /\ handling' = handling \ {s}
    /\ stopped' = (stopped \/ g_serverPtr)
    /\ UNCHANGED <<serverAt, readable, loading, handlers, g_serverPtr, steady,
                   serverCounts>>

-----------------------------------------------------------------------------
(* What the program does by itself when nothing fails.                     *)
ServerStep ==
    \/ LoadIdentity \/ LoadIssuers \/ TrustLoaded \/ Configure
    \/ \E d \in Devices : VisitDevice(d)
    \/ \E s \in Signals : InstallHandler(s) \/ HandleSignal(s)
    \/ Publish \/ EnterRun \/ LeaveRun \/ JoinThread \/ EndServer

ServerNext ==
    \/ ServerStep
    \/ StartServer \/ ConfigureThrows \/ RunThrows
    \/ \E s \in Signals : DeliverSignal(s)
    \/ \E f \in Files : ChangeFile(f)

(***************************************************************************)
(* Main, the thread and the handlers go on as long as they can.  Nobody    *)
(* owes a start, a signal or a file.                                       *)
(***************************************************************************)
ServerFairness ==
    /\ WF_serverVars(ServerStep)
    /\ \A s \in Signals : WF_serverVars(HandleSignal(s))

ServerSpec == ServerInit /\ [][ServerNext]_serverVars /\ ServerFairness

-----------------------------------------------------------------------------
ServerTypeOK ==
    /\ serverAt \in Places
    /\ readable \subseteq Files /\ steady \subseteq Devices
    /\ unvisited \subseteq Devices /\ trust_list \subseteq Devices
    /\ handlers \subseteq Signals /\ handling \subseteq Signals
    /\ g_serverPtr \in BOOLEAN /\ stopped \in BOOLEAN
    /\ {serverStarts, signals, changes} \subseteq Nat

Configured == {"configure", "signals", "thread", "published", "running"}

(***************************************************************************)
(* "don't abort startup over one bad device cert -- log and skip"          *)
(* (server.cpp:186): whatever happens to other devices' files during the   *)
(* start, a device whose certificate could be read all along is trusted by *)
(* the server that comes out of it, and the start got past the files       *)
(* without which there is no server.                                       *)
(***************************************************************************)
TrustsEveryReadableDevice ==
    serverAt \in Configured => steady \subseteq trust_list

(***************************************************************************)
(* A signal whose handler is at work while the server's loop runs ends the *)
(* program: "unblocks once SIGINT/SIGTERM fires server.stop()"             *)
(* (main.cpp:77).  One that was handled before the loop need not.          *)
(***************************************************************************)
StopsWhenTold ==
    (serverAt = "running" /\ handling # {}) ~> serverAt = "down"
=============================================================================
