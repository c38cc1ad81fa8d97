---------------------------- MODULE TelemetryTree ----------------------------
(***************************************************************************)
(* The nodes of the OPC UA server as the System_Info processes make them   *)
(* and write them, call by call: ensureClientFolder, ensureSnapshotNode    *)
(* and writeSnapshot of OPC_UA/utils.cpp, run by addNodes and              *)
(* sendTelemetryPayload of SystemInfoClient.                               *)
(*                                                                         *)
(* A machine's name is the name of the device whose certificate it has.    *)
(* One System_Info runs per machine.  It may end between any two calls,    *)
(* by an exception of the OPC UA client or otherwise, and be started       *)
(* again; the server may be restarted too and then has lost everything.    *)
(* Each call browses, adds or writes one node; AccessControl decides.      *)
(*                                                                         *)
(* What is drained at once is the subject of TelemetryPipeline: here a     *)
(* batch is one snapshot.  A device's vendor and type follow from its      *)
(* name, so that the name stands for each of the three strings.            *)
(***************************************************************************)
EXTENDS AccessControl

CONSTANTS
    Devices(_),        \* the devices of a machine
    Name(_),           \* a device's name, which is its device_key
    NoValue,           \* the value of a variable that nobody wrote
    MaxStarts,         \* how often System_Info is started on a machine
    MaxReadings,       \* how many snapshots it sends of a device
    MaxServerStarts    \* how often the server is started

ASSUME TreeBounds ==
    MaxStarts \in Nat /\ MaxReadings \in Nat /\ MaxServerStarts \in Nat \ {0}

ASSUME LivesAssumption == Sessions = DeviceNames \X (1 .. MaxStarts)

Strings == {"name", "vendor", "hardware_type"}
Fields == Strings \cup {"sensors"}
Items == {"folder", "object"} \cup Fields

AllDevices == UNION {Devices(c) : c \in DeviceNames}

\* Every device has a certificate of its own (gen_pki.py).
ASSUME CertificatesAssumption ==
    /\ \A c \in DeviceNames : CertificateOf(c) \in Certificates
    /\ \A c, e \in DeviceNames : CertificateOf(c) = CertificateOf(e) => c = e

\* The layout's ids are among those a client may ask for.  A string has at
\* least one part.  No machine or device is called sensors, and no device's
\* name is another one's, a dot and a variable's name: the layout would give
\* two nodes one id.
ASSUME LayoutAssumption ==
    \A c \in DeviceNames :
        /\ c \in NodeIds /\ c # <<"sensors">>
        /\ \A d \in Devices(c) :
             /\ Name(d) \in Seq(Parts) \ {<<>>, <<"sensors">>}
             /\ c \o Name(d) \in NodeIds
             /\ \A f \in Fields : /\ c \o Name(d) \o <<f>> \in NodeIds
                                  /\ \A e \in Devices(c) : Name(e) # Name(d) \o <<f>>

ASSUME NoValueAssumption ==
    /\ NoValue \notin {Name(d) : d \in AllDevices}
    /\ NoValue \notin [device : AllDevices, reading : 1 .. MaxReadings]

VARIABLES
    values,           \* the values of the variables, by their ids
    process,          \* the System_Info of each machine: where it is
    starts,           \* history: how often it was started
    readings,         \* how often a device's snapshot was sent
    server_starts     \* how often the server was started

treeVars == <<accessVars, values, process, starts, readings, server_starts>>
clientVars == <<process, starts, readings>>

\* step is the call under way, item its node, device whose snapshot it is for,
\* and known the keys of device_nodes_.
Process == [step : {"down", "browse", "add", "drain", "write"}, item : Items,
            device : AllDevices \cup {NoValue}, known : SUBSET {Name(d) : d \in AllDevices}]

Ended == [step |-> "down", item |-> "folder", device |-> NoValue, known |-> {}]

Session(c) == <<c, starts[c]>>

\* The server knows the session: after a restart it knows none.
Alive(c) == starts[c] > 0 /\ session_attributes[Session(c)].access_lvl # "absent"

At(c, step) == process[c].step = step /\ Alive(c)

InitTree ==
    /\ InitAccess
    /\ values = [id \in NodeIds |-> NoValue]
    /\ process = [c \in DeviceNames |-> Ended]
    /\ starts = [c \in DeviceNames |-> 0]
    /\ readings = [d \in AllDevices |-> 0]
    /\ server_starts = 1

------------------------------------------------------------------------------
(* The layout (shared_opc_ua_layout.h). *)

clientFolderId(c) == c
snapshotObjectId(c, key) == c \o key
snapshotFieldId(c, key, field) == c \o key \o <<field>>

Key(c) == Name(process[c].device)

\* The id, the parent and the browse name of the node a process is at.
IdOf(c, item) ==
    CASE item = "folder" -> clientFolderId(c)
      [] item = "object" -> snapshotObjectId(c, Key(c))
      [] OTHER           -> snapshotFieldId(c, Key(c), item)

ParentOf(c, item) ==
    CASE item = "folder" -> TelemetryClients
      [] item = "object" -> clientFolderId(c)
      [] OTHER           -> snapshotObjectId(c, Key(c))

BrowseName(c, item) ==
    CASE item = "folder" -> c
      [] item = "object" -> Key(c)
      [] OTHER           -> <<item>>

\* Mutant: the sensors variable is made before the vendor's.
AfterSensorsEarly ==
    [object |-> "name", name |-> "sensors", sensors |-> "vendor",
     vendor |-> "hardware_type"]

\* The order in which ensureSnapshotNode makes nodes.
After ==
    [object |-> "name", name |-> "vendor", vendor |-> "hardware_type",
     hardware_type |-> "sensors"]

\* The order in which writeSnapshot writes them.
AfterWrite ==
    [name |-> "vendor", vendor |-> "hardware_type", hardware_type |-> "sensors"]

------------------------------------------------------------------------------
(* A machine's System_Info. *)

\* connect and the beginning of addNodes: a new session, for the certificate
\* of the machine in the token and on the channel.
Start(c) ==
    /\ process[c].step = "down"
    /\ starts[c] < MaxStarts
    /\ starts' = [starts EXCEPT ![c] = @ + 1]
    /\ ActivateSession(<<c, starts[c] + 1>>, CertificateOf(c), CertificateOf(c))
    /\ process' = [process EXCEPT ![c] = [Ended EXCEPT !.step = "browse"]]
    /\ UNCHANGED <<values, readings, server_starts>>

\* Where a process is once it has the node of its item.
Ensured(p) ==
    CASE p.item = "folder"  -> [p EXCEPT !.step = "drain"]
      [] p.item \in DOMAIN After -> [p EXCEPT !.step = "browse", !.item = After[p.item]]
      [] OTHER -> [p EXCEPT !.step = "write", !.item = "name",
                            !.known = @ \cup {Name(p.device)}]

\* Mutant: whether the node exists is looked up under the client's folder.
BrowseUnderFolder(c) ==
    \E n \in nodes : n.parent = clientFolderId(c) /\ n.name = BrowseName(c, process[c].item)

\* tryBrowseChild: a child of the parent with that browse name.
BrowseFinds(c) ==
    \E n \in nodes : /\ n.parent = ParentOf(c, process[c].item)
                     /\ n.name = BrowseName(c, process[c].item)

Browse(c) ==
    /\ At(c, "browse")
    /\ process' = [process EXCEPT ![c] =
           IF BrowseFinds(c) THEN Ensured(@) ELSE [@ EXCEPT !.step = "add"]]
    /\ UNCHANGED <<accessVars, values, starts, readings, server_starts>>

Asked(c) == MayAdd(Session(c), ParentOf(c, process[c].item), IdOf(c, process[c].item))

\* addFolder, addObject, addVariable; when one is refused it throws.
Add(c) ==
    /\ At(c, "add")
    /\ LET item == process[c].item IN
         AddNode(Session(c), ParentOf(c, item), IdOf(c, item), BrowseName(c, item))
    /\ process' = [process EXCEPT ![c] = IF Asked(c) THEN Ensured(@) ELSE Ended]
    /\ UNCHANGED <<values, starts, readings, server_starts>>

\* drain has a snapshot, whose nodes are looked for once per process.
Drain(c) ==
    /\ At(c, "drain")
    /\ \E d \in Devices(c) :
         /\ readings[d] < MaxReadings
         /\ readings' = [readings EXCEPT ![d] = @ + 1]
         /\ process' = [process EXCEPT ![c] =
              IF Name(d) \in @.known
              THEN [@ EXCEPT !.device = d, !.step = "write", !.item = "name"]
              ELSE [@ EXCEPT !.device = d, !.step = "browse", !.item = "object"]]
    /\ UNCHANGED <<accessVars, values, starts, server_starts>>

Reading(d) == [device |-> d, reading |-> readings[d]]

\* Mutant: the vendor and the type are not written.
WriteNameOnly(c) ==
    LET p == process[c] IN
    IF p.item = "sensors" THEN [p EXCEPT !.step = "drain"]
    ELSE [p EXCEPT !.item = "sensors"]

\* Where a process is after it wrote its item.
Written(c) ==
    LET p == process[c] IN
    IF p.item \in DOMAIN AfterWrite THEN [p EXCEPT !.item = AfterWrite[p.item]]
    ELSE [p EXCEPT !.step = "drain"]

\* One writeValue of writeSnapshot: sessions that may write may write anywhere.
Write(c) ==
    /\ At(c, "write")
    /\ LET p == process[c]
           id == IdOf(c, p.item)
           writable == /\ session_attributes[Session(c)].access_lvl = "readwrite"
                       /\ NodeExists(id)
       IN
       /\ values' = IF writable
                    THEN [values EXCEPT ![id] =
                            IF p.item = "sensors" THEN Reading(p.device) ELSE Key(c)]
                    ELSE values
       /\ process' = [process EXCEPT ![c] = IF writable THEN Written(c) ELSE Ended]
    /\ UNCHANGED <<accessVars, starts, readings, server_starts>>

\* A call throws, or the process ends otherwise, before or after the server
\* did what it was asked for.
End(c) ==
    /\ process[c].step # "down"
    /\ process' = [process EXCEPT ![c] = Ended]
    /\ UNCHANGED <<accessVars, values, starts, readings, server_starts>>

\* The server has no nodes and no sessions but in its memory.
RestartServer ==
    /\ server_starts < MaxServerStarts
    /\ server_starts' = server_starts + 1
    /\ nodes' = {}
    /\ values' = [id \in NodeIds |-> NoValue]
    /\ session_attributes' = [s \in Sessions |-> NoAttributes]
    /\ UNCHANGED <<presented, clientVars>>

------------------------------------------------------------------------------

ClientStep(c) == Start(c) \/ Browse(c) \/ Add(c) \/ Drain(c) \/ Write(c) \/ End(c)

TreeNext == (\E c \in DeviceNames : ClientStep(c)) \/ RestartServer

TreeSpec == InitTree /\ [][TreeNext]_treeVars

------------------------------------------------------------------------------
(* Properties. *)

\* The variables' ranges; and a node's id is the path of browse names to it,
\* so that a node found by its name is the one its id was made for.
TreeTypeOK ==
    /\ AccessTypeOK
    /\ values \in [NodeIds -> {NoValue} \cup {Name(d) : d \in AllDevices}
                               \cup [device : AllDevices, reading : 1 .. MaxReadings]]
    /\ process \in [DeviceNames -> Process]
    /\ starts \in [DeviceNames -> 0 .. MaxStarts]
    /\ readings \in [AllDevices -> 0 .. MaxReadings]
    /\ server_starts \in 1 .. MaxServerStarts
    /\ \A n \in nodes :
         n.id = IF n.parent = TelemetryClients THEN n.name ELSE n.parent \o n.name

\* Whatever an earlier System_Info of the machine left half made, and
\* whatever the other machines do: a node that was browsed for in vain may
\* still be added, and a node that is written is there.
EnsuredNodesServe ==
    \A c \in DeviceNames :
        /\ At(c, "add") => Asked(c)
        /\ At(c, "write") =>
             /\ session_attributes[Session(c)].access_lvl = "readwrite"
             /\ NodeExists(IdOf(c, process[c].item))

\* A device's object that has its sensors has its strings too: who finds the
\* sensors may read the rest, as the control center does.
SensorsComeLast ==
    \A n \in nodes : n.name = <<"sensors">> =>
        \A f \in Strings : \E m \in nodes : m.parent = n.parent /\ m.name = <<f>>

\* Once a device's sensors have a value, its strings have theirs.
PublishedComplete ==
    \A c \in DeviceNames : \A d \in Devices(c) :
        values[snapshotFieldId(c, Name(d), "sensors")] # NoValue =>
            \A f \in Strings : values[snapshotFieldId(c, Name(d), f)] = Name(d)
==============================================================================
