---------------------------- MODULE AccessControl ----------------------------
(***************************************************************************)
(* OPC_UA/AccessControlCustom and the part of the server's address space   *)
(* it protects: what lies under the TelemetryClients folder.  A session is *)
(* activated for the device whose certificate it presents, and may then    *)
(* add nodes below that device's folder.  Nothing is ever deleted.         *)
(*                                                                         *)
(* Names and node ids are strings whose parts are joined by dots; here     *)
(* they are the sequences of the parts, so that joining is concatenation   *)
(* and "starts with the name and a dot" is being a longer sequence with    *)
(* that prefix.  The library calls the handlers one at a time.             *)
(***************************************************************************)
EXTENDS Naturals, Sequences

CONSTANTS
    DeviceNames,         \* the directories of pki/devices, without the server's
    Certificates,        \* what a session may present
    CertificateOf(_),    \* the certificate in a device's directory
    Sessions,            \* the ids of sessions, never used twice
    Parts,               \* the parts that names and node ids consist of
    NodeIds              \* the node ids that a client may ask for

ASSUME NamesAssumption == DeviceNames \subseteq Seq(Parts) /\ NodeIds \subseteq Seq(Parts)

\* id_str equals device_name, or starts with device_name and a dot.
nodeIdBelongsToDevice(id, device_name) ==
    /\ Len(device_name) <= Len(id)
    /\ \A i \in 1 .. Len(device_name) : id[i] = device_name[i]

\* No device's name is another's and a dot and more, and none is empty.
ASSUME IndependentAssumption ==
    /\ <<>> \notin DeviceNames
    /\ \A d, e \in DeviceNames : nodeIdBelongsToDevice(d, e) => d = e

TelemetryClients == <<"TelemetryClients">>    \* telemetry_clients_folder_
NoNode == <<>>                                \* a null node id
UnsupportedDevice == <<"Unsupported Device">>

ASSUME RootAssumption == TelemetryClients \notin NodeIds /\ NoNode \notin NodeIds

VARIABLES
    session_attributes,    \* session_attributes_
    presented,             \* history: what each session last presented
    nodes                  \* the nodes under TelemetryClients; by is history

accessVars == <<session_attributes, presented, nodes>>

Attributes == [device_name : DeviceNames \cup {UnsupportedDevice, <<>>},
               access_lvl : {"absent", "none", "readwrite"},
               device_folder_id : NodeIds \cup {NoNode}]

NodeRecord == [id : NodeIds, parent : NodeIds \cup {TelemetryClients},
               name : Seq(Parts), by : DeviceNames]

NoAttributes == [device_name |-> <<>>, access_lvl |-> "absent", device_folder_id |-> NoNode]

InitAccess ==
    /\ session_attributes = [s \in Sessions |-> NoAttributes]
    /\ presented = [s \in Sessions |-> {}]
    /\ nodes = {}

------------------------------------------------------------------------------
(* activateSession. *)

\* Mutant: the certificate of the channel is not looked at.
TrustedByToken(token, channel) == {d \in DeviceNames : CertificateOf(d) = token}

\* findTrustedDevice: the certificates of the token and of the channel have
\* to be the same, and the same as a device's.
Trusted(token, channel) == {d \in DeviceNames : CertificateOf(d) = token /\ token = channel}

\* Mutant: activating again keeps the folder.
ActivateKeepsFolder(s, token, channel) ==
    /\ \E d \in Trusted(token, channel) :
         session_attributes' = [session_attributes EXCEPT
             ![s].device_name = d, ![s].access_lvl = "readwrite"]
    /\ presented' = [presented EXCEPT ![s] = {token, channel}]
    /\ UNCHANGED nodes

\* A session may be activated more than once, for another device too.
ActivateSession(s, token, channel) ==
    /\ \E d \in Trusted(token, channel) :
         session_attributes' = [session_attributes EXCEPT
             ![s] = [device_name |-> d, access_lvl |-> "readwrite",
                     device_folder_id |-> NoNode]]
    /\ presented' = [presented EXCEPT ![s] = {token, channel}]
    /\ UNCHANGED nodes

\* Nothing matches, the token is malformed, or a file cannot be read.
RejectSession(s, token, channel) ==
    /\ session_attributes' = [session_attributes EXCEPT
           ![s] = [device_name |-> UnsupportedDevice, access_lvl |-> "none",
                   device_folder_id |-> NoNode]]
    /\ presented' = [presented EXCEPT ![s] = {token, channel}]
    /\ UNCHANGED nodes

------------------------------------------------------------------------------
(* Adding a node: allowAddNode, then allowAddReference for the new node's   *)
(* references to its type and to its parent.                                *)

NodeExists(id) == \E n \in nodes : n.id = id

allowAddNode(s, parent, requested) ==
    LET attrs == session_attributes[s] IN
    /\ attrs.access_lvl = "readwrite"
    /\ \/ parent \in {TelemetryClients, attrs.device_folder_id}
       \/ nodeIdBelongsToDevice(parent, attrs.device_name)
    /\ nodeIdBelongsToDevice(requested, attrs.device_name)

allowAddReference(s, source, target) ==
    LET attrs == session_attributes[s]
        Own(id) == id = attrs.device_folder_id \/ nodeIdBelongsToDevice(id, attrs.device_name)
    IN
    /\ attrs.access_lvl = "readwrite"
    /\ Own(source)
    /\ target = TelemetryClients \/ Own(target)

\* The server refuses an id it has, and a parent it does not have.
MayAdd(s, parent, requested) ==
    /\ allowAddNode(s, parent, requested)
    /\ allowAddReference(s, requested, parent)
    /\ parent = TelemetryClients \/ NodeExists(parent)
    /\ ~NodeExists(requested)

\* Mutant: the folder is remembered before its id is tested.
FolderUntested(s, parent, requested) ==
    IF parent = TelemetryClients /\ session_attributes[s].access_lvl = "readwrite" THEN requested
    ELSE session_attributes[s].device_folder_id

\* device_folder_id is set before the server has added anything.
FolderAfter(s, parent, requested) ==
    IF parent = TelemetryClients /\ allowAddNode(s, parent, requested) THEN requested
    ELSE session_attributes[s].device_folder_id

AddNode(s, parent, requested, name) ==
    /\ session_attributes' = [session_attributes EXCEPT
           ![s].device_folder_id = FolderAfter(s, parent, requested)]
    /\ nodes' = IF MayAdd(s, parent, requested)
                THEN nodes \cup {[id |-> requested, parent |-> parent, name |-> name,
                                  by |-> session_attributes[s].device_name]}
                ELSE nodes
    /\ UNCHANGED presented

------------------------------------------------------------------------------
(* The server on its own: any session presents and asks for anything. *)

AccessNext ==
    \E s \in Sessions :
        \/ \E token, channel \in Certificates :
             \/ ActivateSession(s, token, channel)
             \/ RejectSession(s, token, channel)
        \/ \E parent \in NodeIds \cup {TelemetryClients}, requested \in NodeIds :
             AddNode(s, parent, requested, requested)

AccessSpec == InitAccess /\ [][AccessNext]_accessVars

------------------------------------------------------------------------------
(* Properties. *)

AccessTypeOK ==
    /\ session_attributes \in [Sessions -> Attributes]
    /\ presented \in [Sessions -> SUBSET Certificates]
    /\ nodes \subseteq NodeRecord

\* A session that may write speaks for a device whose certificate it
\* presented, in its token and on its channel, when it was last activated.
SessionSpeaksForItsCertificate ==
    \A s \in Sessions :
        LET attrs == session_attributes[s] IN
        attrs.access_lvl = "readwrite" =>
            /\ attrs.device_name \in DeviceNames
            /\ presented[s] = {CertificateOf(attrs.device_name)}

\* The folder a session remembers is never another device's, however often
\* the session is activated for another device.
FolderIsOwn ==
    \A s \in Sessions :
        LET attrs == session_attributes[s] IN
        attrs.device_folder_id # NoNode =>
            nodeIdBelongsToDevice(attrs.device_folder_id, attrs.device_name)

\* Whatever a session asks for, in whatever order, every node lies below a
\* node of the device that added it, up to TelemetryClients: no device adds
\* to, or takes an id from, another one's subtree.
SubtreeOfOneDevice ==
    \A n \in nodes :
        /\ nodeIdBelongsToDevice(n.id, n.by)
        /\ \/ n.parent = TelemetryClients
           \/ \E m \in nodes : m.id = n.parent /\ m.by = n.by
==============================================================================
