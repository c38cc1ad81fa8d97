------------------------- MODULE AddressSpaceProofs -------------------------
(***************************************************************************)
(* Proofs about the server's address space: AccessControl for any devices, *)
(* certificates, sessions and node ids, TelemetryTree for any machines and *)
(* devices that keep to the layout, and ControlCenter on top of both.      *)
(***************************************************************************)
EXTENDS ControlCenter, TLAPS

\* Of two names that an id starts with, one starts with the other.
LEMMA PrefixesCompare ==
    ASSUME NEW S, NEW id \in Seq(S), NEW d \in Seq(S), NEW e \in Seq(S),
           nodeIdBelongsToDevice(id, d), nodeIdBelongsToDevice(id, e)
    PROVE  nodeIdBelongsToDevice(d, e) \/ nodeIdBelongsToDevice(e, d)
  BY DEF nodeIdBelongsToDevice

\* So an id belongs to one device at most.
LEMMA OneOwner ==
    ASSUME NEW id \in NodeIds, NEW d \in DeviceNames, NEW e \in DeviceNames,
           nodeIdBelongsToDevice(id, d), nodeIdBelongsToDevice(id, e)
    PROVE  d = e
<1>1. id \in Seq(Parts) /\ d \in Seq(Parts) /\ e \in Seq(Parts)
  BY NamesAssumption DEF NamesAssumption
<1>2. nodeIdBelongsToDevice(d, e) \/ nodeIdBelongsToDevice(e, d)
  BY <1>1, PrefixesCompare
<1>3. QED
  BY <1>2, IndependentAssumption DEF IndependentAssumption

AccessInv ==
    /\ AccessTypeOK
    /\ SessionSpeaksForItsCertificate
    /\ FolderIsOwn
    /\ SubtreeOfOneDevice

LEMMA AccessInitInv == InitAccess => AccessInv
  BY DEF InitAccess, AccessInv, AccessTypeOK, Attributes, NoAttributes,
     SessionSpeaksForItsCertificate, FolderIsOwn, SubtreeOfOneDevice

\* Whatever a session presents, it ends up with new attributes and no folder.
LEMMA ActivateStep ==
    ASSUME AccessInv, NEW s \in Sessions, NEW token \in Certificates, NEW channel \in Certificates,
           ActivateSession(s, token, channel) \/ RejectSession(s, token, channel)
    PROVE  AccessInv'
<1>1. PICK attrs \in Attributes :
         /\ session_attributes' = [session_attributes EXCEPT ![s] = attrs]
         /\ attrs.device_folder_id = NoNode
         /\ attrs.access_lvl = "readwrite" =>
              /\ attrs.device_name \in DeviceNames
              /\ {token, channel} = {CertificateOf(attrs.device_name)}
  <2>1. CASE ActivateSession(s, token, channel)
    <3>1. PICK d \in Trusted(token, channel) :
            session_attributes' = [session_attributes EXCEPT
              ![s] = [device_name |-> d, access_lvl |-> "readwrite", device_folder_id |-> NoNode]]
      BY <2>1 DEF ActivateSession
    <3>2. d \in DeviceNames /\ {token, channel} = {CertificateOf(d)}
      BY DEF Trusted
    <3>3. [device_name |-> d, access_lvl |-> "readwrite", device_folder_id |-> NoNode]
            \in Attributes
      BY <3>2 DEF Attributes
    <3>4. QED
      BY <3>1, <3>2, <3>3
  <2>2. CASE RejectSession(s, token, channel)
    <3>1. [device_name |-> UnsupportedDevice, access_lvl |-> "none", device_folder_id |-> NoNode]
            \in Attributes
      BY DEF Attributes
    <3>2. QED
      BY <2>2, <3>1 DEF RejectSession
  <2>3. QED
    BY <2>1, <2>2
<1>2. presented' = [presented EXCEPT ![s] = {token, channel}] /\ nodes' = nodes
  BY DEF ActivateSession, RejectSession
<1>3. AccessTypeOK'
  BY <1>1, <1>2 DEF AccessInv, AccessTypeOK
<1>4. \A t \in Sessions :
        /\ session_attributes'[t] = IF t = s THEN attrs ELSE session_attributes[t]
        /\ presented'[t] = IF t = s THEN {token, channel} ELSE presented[t]
  BY <1>1, <1>2 DEF AccessInv, AccessTypeOK
<1>5. SessionSpeaksForItsCertificate'
  BY <1>1, <1>4 DEF AccessInv, SessionSpeaksForItsCertificate
<1>6. FolderIsOwn'
  BY <1>1, <1>4 DEF AccessInv, FolderIsOwn
<1>7. SubtreeOfOneDevice'
  BY <1>2 DEF AccessInv, SubtreeOfOneDevice
<1>8. QED
  BY <1>3, <1>5, <1>6, <1>7 DEF AccessInv

\* What a session may add belongs to its device, and so does the parent.
LEMMA MayAddFacts ==
    ASSUME AccessInv, NEW s \in Sessions, NEW parent \in NodeIds \cup {TelemetryClients},
           NEW requested \in NodeIds, MayAdd(s, parent, requested)
    PROVE  LET device == session_attributes[s].device_name IN
           /\ device \in DeviceNames
           /\ nodeIdBelongsToDevice(requested, device)
           /\ ~NodeExists(requested)
           /\ \/ parent = TelemetryClients
              \/ \E m \in nodes : m.id = parent /\ m.by = device
<1> DEFINE device == session_attributes[s].device_name
<1>1. /\ device \in DeviceNames /\ nodeIdBelongsToDevice(requested, device)
      /\ ~NodeExists(requested)
  BY DEF MayAdd, allowAddNode, AccessInv, SessionSpeaksForItsCertificate
<1>2. CASE parent # TelemetryClients
  <2>1. nodeIdBelongsToDevice(parent, device)
    <3>1. parent \in NodeIds /\ parent # NoNode
      BY <1>2, RootAssumption DEF RootAssumption
    <3>2. parent = session_attributes[s].device_folder_id \/ nodeIdBelongsToDevice(parent, device)
      BY <1>2 DEF MayAdd, allowAddNode
    <3>3. QED
      BY <3>1, <3>2 DEF AccessInv, FolderIsOwn
  <2>2. PICK m \in nodes : m.id = parent
    BY <1>2 DEF MayAdd, NodeExists
  <2>3. nodeIdBelongsToDevice(parent, m.by) /\ m.by \in DeviceNames /\ parent \in NodeIds
    BY <1>2, <2>2 DEF AccessInv, SubtreeOfOneDevice, AccessTypeOK, NodeRecord
  <2>4. m.by = device
    BY <1>1, <2>1, <2>3, OneOwner
  <2>5. QED
    BY <1>1, <2>2, <2>4
<1>3. QED
  BY <1>1, <1>2

LEMMA AddStep ==
    ASSUME AccessInv, NEW s \in Sessions, NEW parent \in NodeIds \cup {TelemetryClients},
           NEW requested \in NodeIds, NEW name \in Seq(Parts),
           AddNode(s, parent, requested, name)
    PROVE  AccessInv'
<1> DEFINE device == session_attributes[s].device_name
           new == [id |-> requested, parent |-> parent, name |-> name, by |-> device]
           folder == FolderAfter(s, parent, requested)
<1>1. /\ session_attributes' = [session_attributes EXCEPT ![s].device_folder_id = folder]
      /\ nodes' = IF MayAdd(s, parent, requested) THEN nodes \cup {new} ELSE nodes
      /\ presented' = presented
  BY DEF AddNode
<1>2. /\ folder \in NodeIds \cup {NoNode}
      /\ folder # NoNode => nodeIdBelongsToDevice(folder, device)
  BY DEF FolderAfter, allowAddNode, AccessInv, AccessTypeOK, Attributes, FolderIsOwn
<1>3. \A t \in Sessions :
        /\ session_attributes'[t].device_name = session_attributes[t].device_name
        /\ session_attributes'[t].access_lvl = session_attributes[t].access_lvl
        /\ session_attributes'[t].device_folder_id =
             IF t = s THEN folder ELSE session_attributes[t].device_folder_id
  BY <1>1 DEF AccessInv, AccessTypeOK, Attributes
<1>4. MayAdd(s, parent, requested) => new \in NodeRecord
  BY MayAddFacts DEF NodeRecord
<1>5. AccessTypeOK'
  <2>1. session_attributes' \in [Sessions -> Attributes]
    BY <1>1, <1>2 DEF AccessInv, AccessTypeOK, Attributes
  <2>2. QED
    BY <1>1, <1>4, <2>1 DEF AccessInv, AccessTypeOK
<1>6. SessionSpeaksForItsCertificate'
  BY <1>1, <1>3 DEF AccessInv, SessionSpeaksForItsCertificate
<1>7. FolderIsOwn'
  BY <1>2, <1>3 DEF AccessInv, FolderIsOwn
<1>8. SubtreeOfOneDevice'
  <2>1. CASE MayAdd(s, parent, requested)
    <3>1. nodes' = nodes \cup {new}
      BY <1>1, <2>1
    <3>2. /\ nodeIdBelongsToDevice(new.id, new.by)
          /\ new.parent = TelemetryClients \/ \E m \in nodes : m.id = new.parent /\ m.by = new.by
      BY <2>1, MayAddFacts
    <3>3. QED
      BY <3>1, <3>2 DEF AccessInv, SubtreeOfOneDevice
  <2>2. CASE ~MayAdd(s, parent, requested)
    BY <1>1, <2>2 DEF AccessInv, SubtreeOfOneDevice
  <2>3. QED
    BY <2>1, <2>2
<1>9. QED
  BY <1>5, <1>6, <1>7, <1>8 DEF AccessInv

LEMMA AccessStep == AccessInv /\ [AccessNext]_accessVars => AccessInv'
<1> SUFFICES ASSUME AccessInv, [AccessNext]_accessVars PROVE AccessInv'
  OBVIOUS
<1>1. CASE UNCHANGED accessVars
  BY <1>1 DEF accessVars, AccessInv, AccessTypeOK, SessionSpeaksForItsCertificate, FolderIsOwn,
     SubtreeOfOneDevice
<1>2. ASSUME NEW s \in Sessions, NEW token \in Certificates, NEW channel \in Certificates,
             ActivateSession(s, token, channel) \/ RejectSession(s, token, channel)
      PROVE  AccessInv'
  BY <1>2, ActivateStep
<1>3. ASSUME NEW s \in Sessions, NEW parent \in NodeIds \cup {TelemetryClients},
             NEW requested \in NodeIds, AddNode(s, parent, requested, requested)
      PROVE  AccessInv'
  BY <1>3, AddStep, NamesAssumption DEF NamesAssumption
<1>4. QED
  BY <1>1, <1>2, <1>3 DEF AccessNext

LEMMA AccessInvariant == AccessSpec => []AccessInv
  BY AccessInitInv, AccessStep, PTL DEF AccessSpec

\* The variables of the access control keep their ranges.
THEOREM AccessTypeCorrect == AccessSpec => []AccessTypeOK
  BY AccessInvariant, PTL DEF AccessInv

\* A session that may write speaks for a device whose certificate it
\* presented, for any set of devices and certificates.
THEOREM SpeaksForItsCertificate == AccessSpec => []SessionSpeaksForItsCertificate
  BY AccessInvariant, PTL DEF AccessInv

\* The folder a session remembers is its device's (device_folder_id).
THEOREM OwnFolder == AccessSpec => []FolderIsOwn
  BY AccessInvariant, PTL DEF AccessInv

\* Every node lies below nodes of the device that added it (allowAddNode),
\* whatever sessions ask for.
THEOREM SubtreesSeparate == AccessSpec => []SubtreeOfOneDevice
  BY AccessInvariant, PTL DEF AccessInv

------------------------------------------------------------------------------
(* TelemetryTree: the layout.  A node is known by its machine and, below    *)
(* the machine's folder, by a device's key and the field's name.            *)

Keys(c) == {Name(d) : d \in Devices(c)}

FolderNode(c) == [id |-> c, parent |-> TelemetryClients, name |-> c, by |-> c]
ObjectNode(c, k) == [id |-> snapshotObjectId(c, k), parent |-> c, name |-> k, by |-> c]
FieldNode(c, k, f) ==
    [id |-> snapshotFieldId(c, k, f), parent |-> snapshotObjectId(c, k), name |-> <<f>>, by |-> c]

InLayout(n, c) ==
    \/ n = FolderNode(c)
    \/ \E k \in Keys(c) : n = ObjectNode(c, k)
    \/ \E k \in Keys(c), f \in Fields : n = FieldNode(c, k, f)

\* Concatenation can be undone.
LEMMA Cancel ==
    ASSUME NEW S, NEW s \in Seq(S), NEW t \in Seq(S), NEW u \in Seq(S), s \o t = s \o u
    PROVE  t = u
<1>1. Len(s \o t) = Len(s) + Len(t) /\ Len(s \o u) = Len(s) + Len(u)
  OBVIOUS
<1>2. Len(t) = Len(u)
  BY <1>1
<1>3. \A i \in 1 .. Len(t) : t[i] = (s \o t)[Len(s) + i] /\ u[i] = (s \o u)[Len(s) + i]
  BY <1>2
<1>4. \A i \in 1 .. Len(t) : t[i] = u[i]
  BY <1>3
<1>5. QED
  BY <1>2, <1>4

LEMMA ConcatLen ==
    ASSUME NEW S, NEW s \in Seq(S), NEW t \in Seq(S)
    PROVE  Len(s \o t) = Len(s) + Len(t)
  OBVIOUS

LEMMA LastPart ==
    ASSUME NEW S, NEW t \in Seq(S), NEW u \in Seq(S), NEW v \in Seq(S), NEW w \in Seq(S),
           Len(v) = Len(w), t \o v = u \o w
    PROVE  t = u /\ v = w
<1>1. Len(t \o v) = Len(t) + Len(v) /\ Len(u \o w) = Len(u) + Len(w)
  BY ConcatLen
<1>2. Len(t) = Len(u)
  BY <1>1
<1>3. \A i \in 1 .. Len(t) : t[i] = (t \o v)[i] /\ u[i] = (u \o w)[i]
  BY <1>2
<1>4. \A i \in 1 .. Len(t) : t[i] = u[i]
  BY <1>3
<1>5. t = u
  BY <1>2, <1>4
<1>6. QED
  BY <1>5, Cancel

LEMMA LayoutTypes ==
    ASSUME NEW c \in DeviceNames, NEW k \in Keys(c)
    PROVE  /\ c \in Seq(Parts) /\ k \in Seq(Parts) /\ k # <<>>
           /\ c \in NodeIds /\ snapshotObjectId(c, k) \in NodeIds
           /\ \A f \in Fields : f \in Parts /\ snapshotFieldId(c, k, f) \in NodeIds
<1>1. PICK d \in Devices(c) : k = Name(d)
  BY DEF Keys
<1>2. /\ c \in Seq(Parts) /\ k \in Seq(Parts) /\ k # <<>>
      /\ c \in NodeIds /\ c \o k \in NodeIds
      /\ \A f \in Fields : (c \o k) \o <<f>> \in NodeIds
  BY <1>1, LayoutAssumption, NamesAssumption DEF LayoutAssumption, NamesAssumption
<1>3. ASSUME NEW f \in Fields PROVE f \in Parts
  <2> DEFINE o == c \o k
             id == o \o <<f>>
  <2>1. o \in Seq(Parts) /\ id \in Seq(Parts)
    BY <1>2, NamesAssumption DEF NamesAssumption
  <2>2. Len(id) = Len(o) + 1 /\ id[Len(o) + 1] = f
    BY <2>1
  <2>3. Len(o) + 1 \in 1 .. Len(id)
    BY <2>1, <2>2
  <2> HIDE DEF id, o
  <2>4. QED
    BY <2>1, <2>2, <2>3
<1>4. QED
  BY <1>2, <1>3 DEF snapshotObjectId, snapshotFieldId

\* Every id of the layout starts with the machine's name.
LEMMA LayoutOwner ==
    ASSUME NEW c \in DeviceNames, NEW n, InLayout(n, c)
    PROVE  n.id \in NodeIds /\ nodeIdBelongsToDevice(n.id, c)
<1>1. CASE n = FolderNode(c)
  <2>1. c \in NodeIds /\ n.id = c
    BY <1>1, LayoutAssumption DEF LayoutAssumption, FolderNode
  <2>2. QED
    BY <2>1, NamesAssumption DEF NamesAssumption, nodeIdBelongsToDevice
<1>2. ASSUME NEW k \in Keys(c), n = ObjectNode(c, k)
      PROVE  n.id \in NodeIds /\ nodeIdBelongsToDevice(n.id, c)
  <2>1. n.id = c \o k
    BY <1>2 DEF ObjectNode, snapshotObjectId
  <2>2. c \in Seq(Parts) /\ k \in Seq(Parts) /\ c \o k \in NodeIds
    BY LayoutTypes DEF snapshotObjectId
  <2>3. nodeIdBelongsToDevice(c \o k, c)
    BY <2>2 DEF nodeIdBelongsToDevice
  <2>4. QED
    BY <2>1, <2>2, <2>3
<1>3. ASSUME NEW k \in Keys(c), NEW f \in Fields, n = FieldNode(c, k, f)
      PROVE  n.id \in NodeIds /\ nodeIdBelongsToDevice(n.id, c)
  <2>1. n.id = (c \o k) \o <<f>>
    BY <1>3 DEF FieldNode, snapshotFieldId
  <2>2. c \in Seq(Parts) /\ k \in Seq(Parts) /\ f \in Parts /\ (c \o k) \o <<f>> \in NodeIds
    BY LayoutTypes DEF snapshotFieldId
  <2>3. nodeIdBelongsToDevice((c \o k) \o <<f>>, c)
    BY <2>2 DEF nodeIdBelongsToDevice
  <2>4. QED
    BY <2>1, <2>2, <2>3
<1>4. QED
  BY <1>1, <1>2, <1>3 DEF InLayout

\* The objects of a machine and the variables of its devices have ids of
\* their own.
LEMMA KeysApart ==
    ASSUME NEW c \in DeviceNames, NEW k \in Keys(c), NEW l \in Keys(c),
           NEW f \in Fields, NEW g \in Fields
    PROVE  /\ snapshotObjectId(c, k) # c /\ snapshotFieldId(c, k, f) # c
           /\ snapshotObjectId(c, k) = snapshotObjectId(c, l) => k = l
           /\ snapshotFieldId(c, k, f) = snapshotFieldId(c, l, g) => k = l /\ f = g
           /\ snapshotFieldId(c, k, f) # snapshotObjectId(c, l)
<1>1. /\ c \in Seq(Parts) /\ k \in Seq(Parts) /\ l \in Seq(Parts) /\ k # <<>>
      /\ f \in Parts /\ g \in Parts
  BY LayoutTypes
<1>2. Len(c \o k) = Len(c) + Len(k) /\ Len((c \o k) \o <<f>>) = Len(c) + Len(k) + 1
      /\ Len(c) \in Nat /\ Len(k) \in Nat /\ Len(k) # 0
  BY <1>1
<1>3. c \o k # c /\ (c \o k) \o <<f>> # c
  BY <1>2
<1>4. c \o k = c \o l => k = l
  BY <1>1, Cancel
<1>5. (c \o k) \o <<f>> = (c \o l) \o <<g>> => k = l /\ f = g
  <2> DEFINE t == c \o k
             u == c \o l
  <2>1. t \in Seq(Parts) /\ u \in Seq(Parts)
    BY <1>1
  <2>2. t = u => k = l
    BY <1>4
  <2>3. ASSUME t \o <<f>> = u \o <<g>> PROVE k = l /\ f = g
    <3> DEFINE v == <<f>>
               w == <<g>>
    <3>1. v \in Seq(Parts) /\ w \in Seq(Parts) /\ Len(v) = Len(w)
      BY <1>1
    <3>2. v = w => f = g
      OBVIOUS
    <3>3. t \o v = u \o w
      BY <2>3
    <3> HIDE DEF t, u, v, w
    <3>4. t = u /\ v = w
      BY <2>1, <3>1, <3>3, LastPart
    <3>5. QED
      BY <2>2, <3>2, <3>4
  <2>4. QED
    BY <2>3
<1>6. (c \o k) \o <<f>> # c \o l
  <2>1. (c \o k) \o <<f>> = c \o (k \o <<f>>) /\ k \o <<f>> \in Seq(Parts)
    BY <1>1
  <2>2. l # k \o <<f>>
    BY LayoutAssumption DEF LayoutAssumption, Keys
  <2>3. QED
    BY <1>1, <2>1, <2>2, Cancel
<1>7. QED
  BY <1>3, <1>4, <1>5, <1>6 DEF snapshotObjectId, snapshotFieldId

\* No two nodes have the same id.
LEMMA OneNodePerId ==
    ASSUME NEW c \in DeviceNames, NEW e \in DeviceNames, NEW m, NEW n,
           InLayout(m, c), InLayout(n, e), m.id = n.id
    PROVE  m = n
<1>1. c = e
  BY LayoutOwner, OneOwner
<1> DEFINE Folder(x) == x = FolderNode(c)
           Object(x, k) == x = ObjectNode(c, k)
           Field(x, k, f) == x = FieldNode(c, k, f)
<1>2. ASSUME NEW k \in Keys(c), NEW l \in Keys(c), NEW f \in Fields, NEW g \in Fields
      PROVE  /\ FolderNode(c).id # ObjectNode(c, k).id /\ FolderNode(c).id # FieldNode(c, k, f).id
             /\ ObjectNode(c, k).id # FieldNode(c, l, f).id
             /\ ObjectNode(c, k).id = ObjectNode(c, l).id => k = l
             /\ FieldNode(c, k, f).id = FieldNode(c, l, g).id => k = l /\ f = g
  BY KeysApart DEF FolderNode, ObjectNode, FieldNode
<1>3. InLayout(n, c)
  BY <1>1
<1>4. "name" \in Fields
  BY DEF Fields, Strings
<1>5. QED
  BY <1>2, <1>3, <1>4 DEF InLayout

\* An id is the path of the names to it.
LEMMA PathOfNames ==
    ASSUME NEW c \in DeviceNames, NEW n, InLayout(n, c)
    PROVE  /\ n.id = IF n.parent = TelemetryClients THEN n.name ELSE n.parent \o n.name
           /\ n \in NodeRecord /\ n.by = c
<1>1. CASE n = FolderNode(c)
  BY <1>1, LayoutAssumption, NamesAssumption DEF LayoutAssumption, NamesAssumption, FolderNode, NodeRecord
<1>2. ASSUME NEW k \in Keys(c), n = ObjectNode(c, k)
      PROVE  /\ n.id = IF n.parent = TelemetryClients THEN n.name ELSE n.parent \o n.name
             /\ n \in NodeRecord /\ n.by = c
  <2>1. /\ c \in NodeIds /\ snapshotObjectId(c, k) \in NodeIds /\ k \in Seq(Parts)
        /\ c # TelemetryClients
    BY LayoutTypes, RootAssumption DEF RootAssumption
  <2>2. QED
    BY <1>2, <2>1 DEF ObjectNode, snapshotObjectId, NodeRecord
<1>3. ASSUME NEW k \in Keys(c), NEW f \in Fields, n = FieldNode(c, k, f)
      PROVE  /\ n.id = IF n.parent = TelemetryClients THEN n.name ELSE n.parent \o n.name
             /\ n \in NodeRecord /\ n.by = c
  <2>1. /\ snapshotObjectId(c, k) \in NodeIds /\ snapshotFieldId(c, k, f) \in NodeIds /\ f \in Parts
        /\ snapshotObjectId(c, k) # TelemetryClients
    BY LayoutTypes, RootAssumption DEF RootAssumption
  <2>2. <<f>> \in Seq(Parts)
    BY <2>1
  <2>3. QED
    BY <1>3, <2>1, <2>2 DEF FieldNode, snapshotObjectId, snapshotFieldId, NodeRecord
<1>4. QED
  BY <1>1, <1>2, <1>3 DEF InLayout

------------------------------------------------------------------------------
(* TelemetryTree: the invariant. *)

NodesInv == \A n \in nodes : n.by \in DeviceNames /\ InLayout(n, n.by)

HasFields(c, k, F) == ObjectNode(c, k) \in nodes /\ \A f \in F : FieldNode(c, k, f) \in nodes

FieldsInv ==
    \A c \in DeviceNames : \A k \in Keys(c) :
        FieldNode(c, k, "sensors") \in nodes => HasFields(c, k, Fields)

SensorValues(c, k) == [device : {d \in Devices(c) : Name(d) = k}, reading : 1 .. MaxReadings]

Published(c, k) == \A f \in Strings : values[snapshotFieldId(c, k, f)] = k

\* What the variables of a device hold: its own strings and readings, and a
\* reading only once all strings are there.
DeviceValues(c, k) ==
    /\ \A f \in Strings : values[snapshotFieldId(c, k, f)] \in {NoValue, k}
    /\ values[snapshotFieldId(c, k, "sensors")] \in {NoValue} \cup SensorValues(c, k)
    /\ values[snapshotFieldId(c, k, "sensors")] # NoValue => Published(c, k)

ValuesInv == \A c \in DeviceNames : \A k \in Keys(c) : DeviceValues(c, k)

\* A machine's session speaks for the machine.
SessionInv(c) ==
    Alive(c) => /\ session_attributes[Session(c)].access_lvl = "readwrite"
                /\ session_attributes[Session(c)].device_name = c

\* The process is at a device of its machine, of which it has a snapshot.
PlaceInv(c) ==
    LET p == process[c] IN
    /\ p.known \subseteq Keys(c)
    /\ p.item # "folder" => p.device \in Devices(c) /\ readings[p.device] > 0
    /\ p.step = "write" => p.item \in Fields /\ Key(c) \in p.known

\* The node a process is at.
NodeOf(c) == [id |-> IdOf(c, process[c].item), parent |-> ParentOf(c, process[c].item),
              name |-> BrowseName(c, process[c].item), by |-> c]

\* The variables that are made, and written, before an item.
Before(item) ==
    CASE item = "vendor"        -> {"name"}
      [] item = "hardware_type" -> {"name", "vendor"}
      [] item = "sensors"       -> Strings
      [] OTHER                  -> {}

\* What the server has of a machine whose session it knows: all that the
\* process went past.
ProgressInv(c) ==
    LET p == process[c] IN
    /\ p.item # "folder" \/ p.step = "drain" => FolderNode(c) \in nodes
    /\ p.item \in Fields => HasFields(c, Key(c), Before(p.item))
    /\ \A k \in p.known : HasFields(c, k, Fields)
    /\ p.step = "add" => NodeOf(c) \notin nodes
    /\ p.step = "write" =>
         \A f \in Before(p.item) : values[snapshotFieldId(c, Key(c), f)] = Key(c)

MachineInv(c) == SessionInv(c) /\ PlaceInv(c) /\ (Alive(c) => ProgressInv(c))

TreeInv ==
    /\ AccessInv /\ TreeTypeOK
    /\ NodesInv /\ FieldsInv /\ ValuesInv
    /\ \A c \in DeviceNames : MachineInv(c)

LEMMA NodeOfFacts ==
    ASSUME NEW c \in DeviceNames, PlaceInv(c), process[c].item \in Items
    PROVE  LET p == process[c] IN
           /\ p.item # "folder" => Key(c) \in Keys(c)
           /\ p.item = "folder" => NodeOf(c) = FolderNode(c)
           /\ p.item = "object" => NodeOf(c) = ObjectNode(c, Key(c))
           /\ p.item \in Fields => NodeOf(c) = FieldNode(c, Key(c), p.item)
           /\ InLayout(NodeOf(c), c)
<1> DEFINE p == process[c]
<1>1. p.item # "folder" => Key(c) \in Keys(c)
  BY DEF PlaceInv, Key, Keys
<1>2. p.item = "folder" => NodeOf(c) = FolderNode(c)
  BY DEF NodeOf, FolderNode, IdOf, ParentOf, BrowseName, clientFolderId
<1>3. p.item = "object" => NodeOf(c) = ObjectNode(c, Key(c))
  BY DEF NodeOf, ObjectNode, IdOf, ParentOf, BrowseName, clientFolderId
<1>4. p.item \in Fields => p.item # "folder" /\ p.item # "object"
  BY DEF Fields, Strings
<1>5. p.item \in Fields => NodeOf(c) = FieldNode(c, Key(c), p.item)
  BY <1>4 DEF NodeOf, FieldNode, IdOf, ParentOf, BrowseName
<1>6. p.item \in {"folder", "object"} \cup Fields
  BY DEF Items
<1>7. InLayout(NodeOf(c), c)
  BY <1>1, <1>2, <1>3, <1>4, <1>5, <1>6 DEF InLayout
<1>8. QED
  BY <1>1, <1>2, <1>3, <1>5, <1>7

LEMMA AliveFacts ==
    ASSUME TreeInv, NEW c \in DeviceNames, Alive(c)
    PROVE  /\ Session(c) \in Sessions
           /\ session_attributes[Session(c)].access_lvl = "readwrite"
           /\ session_attributes[Session(c)].device_name = c
           /\ ProgressInv(c)
<1>1. starts[c] \in 1 .. MaxStarts
  BY DEF TreeInv, TreeTypeOK, Alive
<1>2. Session(c) \in Sessions
  BY <1>1, LivesAssumption DEF LivesAssumption, Session
<1>3. QED
  BY <1>2 DEF TreeInv, MachineInv, SessionInv

\* Browsing finds the node exactly if it was made (tryBrowseChild).
LEMMA BrowseSees ==
    ASSUME NodesInv, NEW c \in DeviceNames, PlaceInv(c), process[c].item \in Items
    PROVE  BrowseFinds(c) <=> NodeOf(c) \in nodes
<1>1. ASSUME NEW n \in nodes, n.parent = NodeOf(c).parent, n.name = NodeOf(c).name
      PROVE  NodeOf(c) \in nodes
  <2>1. n.by \in DeviceNames /\ InLayout(n, n.by) /\ InLayout(NodeOf(c), c)
    BY NodeOfFacts DEF NodesInv
  <2>2. n.id = NodeOf(c).id
    BY <1>1, <2>1, PathOfNames
  <2>3. n = NodeOf(c)
    BY <2>1, <2>2, OneNodePerId
  <2>4. QED
    BY <2>3
<1>2. QED
  BY <1>1 DEF BrowseFinds, NodeOf

\* A node that was browsed for in vain may be added: whatever an earlier
\* process left, the server has its parent and not its id.
LEMMA AskedIsGranted ==
    ASSUME TreeInv, NEW c \in DeviceNames, At(c, "add")
    PROVE  Asked(c)
<1> DEFINE p == process[c]
           s == Session(c)
<1>1. /\ s \in Sessions /\ session_attributes[s].access_lvl = "readwrite"
      /\ session_attributes[s].device_name = c /\ ProgressInv(c)
  BY AliveFacts DEF At
<1>2. PlaceInv(c) /\ p.item \in Items /\ NodesInv
  BY DEF TreeInv, MachineInv, TreeTypeOK, Process
<1>3. InLayout(NodeOf(c), c) /\ NodeOf(c) \notin nodes
  BY <1>1, <1>2, NodeOfFacts DEF At, ProgressInv
<1>4. ~NodeExists(NodeOf(c).id)
  <2>1. SUFFICES ASSUME NEW n \in nodes, n.id = NodeOf(c).id PROVE FALSE
    BY DEF NodeExists
  <2>2. n = NodeOf(c)
    BY <1>2, <1>3, <2>1, OneNodePerId DEF NodesInv
  <2>3. QED
    BY <1>3, <2>2
<1>5. nodeIdBelongsToDevice(NodeOf(c).id, c)
  BY <1>3, LayoutOwner
<1>6. \/ NodeOf(c).parent = TelemetryClients
      \/ nodeIdBelongsToDevice(NodeOf(c).parent, c) /\ NodeExists(NodeOf(c).parent)
  <2>1. CASE p.item = "folder"
    BY <1>2, <2>1, NodeOfFacts DEF FolderNode
  <2>2. CASE p.item = "object"
    <3>1. NodeOf(c).parent = FolderNode(c).id /\ FolderNode(c) \in nodes
      BY <1>1, <1>2, <2>2, NodeOfFacts DEF ProgressInv, ObjectNode, FolderNode
    <3>2. nodeIdBelongsToDevice(FolderNode(c).id, c)
      BY LayoutOwner DEF InLayout
    <3>3. QED
      BY <3>1, <3>2 DEF NodeExists
  <2>3. CASE p.item \in Fields
    <3>1. p.item # "folder"
      BY <2>3 DEF Fields, Strings
    <3>2. /\ NodeOf(c).parent = ObjectNode(c, Key(c)).id /\ ObjectNode(c, Key(c)) \in nodes
          /\ Key(c) \in Keys(c)
      BY <1>1, <1>2, <2>3, <3>1, NodeOfFacts DEF ProgressInv, HasFields, ObjectNode, FieldNode
    <3>3. nodeIdBelongsToDevice(ObjectNode(c, Key(c)).id, c)
      BY <3>2, LayoutOwner DEF InLayout
    <3>4. QED
      BY <3>2, <3>3 DEF NodeExists
  <2>4. QED
    BY <1>2, <2>1, <2>2, <2>3 DEF Items
<1>7. QED
  BY <1>1, <1>4, <1>5, <1>6 DEF Asked, MayAdd, allowAddNode, allowAddReference, NodeOf

\* What one machine's step leaves of the others'.
Apart(c) ==
    \A e \in DeviceNames \ {c} :
        /\ process'[e] = process[e] /\ starts'[e] = starts[e]
        /\ \A i \in 1 .. MaxStarts :
             /\ session_attributes'[<<e, i>>].access_lvl = session_attributes[<<e, i>>].access_lvl
             /\ session_attributes'[<<e, i>>].device_name = session_attributes[<<e, i>>].device_name
        /\ \A k \in Keys(e), f \in Fields :
             values'[snapshotFieldId(e, k, f)] = values[snapshotFieldId(e, k, f)]

LEMMA BeforeFields ==
    ASSUME NEW item PROVE Before(item) \subseteq Strings /\ Strings \subseteq Fields
  BY DEF Before, Strings, Fields

LEMMA SameDeviceValues ==
    ASSUME NEW c \in DeviceNames, NEW k \in Keys(c), DeviceValues(c, k),
           \A f \in Fields : values'[snapshotFieldId(c, k, f)] = values[snapshotFieldId(c, k, f)]
    PROVE  DeviceValues(c, k)'
<1>1. "sensors" \in Fields /\ Strings \subseteq Fields
  BY DEF Fields
<1>2. /\ \A f \in Strings : values'[snapshotFieldId(c, k, f)] = values[snapshotFieldId(c, k, f)]
      /\ values'[snapshotFieldId(c, k, "sensors")] = values[snapshotFieldId(c, k, "sensors")]
  BY <1>1
<1>3. Published(c, k)' <=> Published(c, k)
  BY <1>2 DEF Published
<1>4. QED
  BY <1>2, <1>3 DEF DeviceValues

\* Another machine's place stays as good as it was.
LEMMA Elsewhere ==
    ASSUME TreeInv, NEW c \in DeviceNames, NEW e \in DeviceNames, e # c, Apart(c),
           \A d \in AllDevices : readings[d] > 0 => readings'[d] > 0,
           nodes \subseteq nodes', \A n \in nodes' \ nodes : n.by = c
    PROVE  MachineInv(e)'
<1> DEFINE p == process[e]
<1>1. /\ process'[e] = p /\ starts'[e] = starts[e] /\ MachineInv(e)
      /\ starts[e] \in 0 .. MaxStarts /\ p.item \in Items
  BY DEF Apart, TreeInv, TreeTypeOK, Process
<1>2. Key(e)' = Key(e) /\ NodeOf(e)' = NodeOf(e) /\ Session(e)' = Session(e)
  BY <1>1 DEF Key, NodeOf, IdOf, ParentOf, BrowseName, Session
<1>3. (Alive(e)' <=> Alive(e))
      /\ (Alive(e) => /\ session_attributes'[Session(e)].access_lvl = session_attributes[Session(e)].access_lvl
                      /\ session_attributes'[Session(e)].device_name = session_attributes[Session(e)].device_name)
  <2>1. CASE starts[e] = 0
    BY <1>1, <2>1 DEF Alive
  <2>2. CASE starts[e] \in 1 .. MaxStarts
    BY <1>1, <1>2, <2>2 DEF Alive, Apart, Session
  <2>3. QED
    BY <1>1, <2>1, <2>2, TreeBounds DEF TreeBounds
<1>4. SessionInv(e)'
  BY <1>1, <1>2, <1>3 DEF MachineInv, SessionInv
<1>5. PlaceInv(e)'
  <2>1. p.item # "folder" => p.device \in AllDevices
    BY <1>1 DEF MachineInv, PlaceInv, AllDevices
  <2>2. QED
    BY <1>1, <1>2, <2>1 DEF MachineInv, PlaceInv
<1>6. ASSUME ProgressInv(e) PROVE ProgressInv(e)'
  <2>1. PlaceInv(e)
    BY <1>1 DEF MachineInv
  <2>2. \A k, F : HasFields(e, k, F) => HasFields(e, k, F)'
    BY DEF HasFields
  <2>3. NodeOf(e) \notin nodes => NodeOf(e) \notin nodes'
    BY DEF NodeOf
  <2>4. p.step = "write" => \A f \in Before(p.item) :
          values'[snapshotFieldId(e, Key(e), f)] = values[snapshotFieldId(e, Key(e), f)]
    <3>1. p.step = "write" => Key(e) \in Keys(e)
      BY <2>1 DEF PlaceInv
    <3>2. QED
      BY <3>1, BeforeFields DEF Apart
  <2>5. QED
    BY <1>1, <1>2, <1>6, <2>2, <2>3, <2>4 DEF ProgressInv
<1>7. QED
  BY <1>1, <1>3, <1>4, <1>5, <1>6 DEF MachineInv


\* A machine's step keeps the invariant if it does where the machine is.
LEMMA LocalStep ==
    ASSUME TreeInv, NEW c \in DeviceNames, Apart(c), AccessInv',
           NEW q \in Process, process' = [process EXCEPT ![c] = q],
           starts' \in [DeviceNames -> 0 .. MaxStarts],
           readings' \in [AllDevices -> 0 .. MaxReadings],
           \A d \in AllDevices : readings[d] > 0 => readings'[d] > 0,
           server_starts' = server_starts,
           nodes \subseteq nodes', \A n \in nodes' \ nodes : n.by = c,
           values' \in [NodeIds -> {NoValue} \cup {Name(d) : d \in AllDevices}
                                   \cup [device : AllDevices, reading : 1 .. MaxReadings]],
           NodesInv', FieldsInv', (\A k \in Keys(c) : DeviceValues(c, k))', MachineInv(c)'
    PROVE  TreeInv'
<1>1. TreeTypeOK'
  <2>1. AccessTypeOK' /\ process' \in [DeviceNames -> Process] /\ server_starts' \in 1 .. MaxServerStarts
    BY DEF AccessInv, TreeInv, TreeTypeOK
  <2>2. \A n \in nodes' :
          n.id = IF n.parent = TelemetryClients THEN n.name ELSE n.parent \o n.name
    BY PathOfNames DEF NodesInv
  <2>3. QED
    BY <2>1, <2>2 DEF TreeTypeOK
<1>2. ValuesInv'
  <2>1. ASSUME NEW e \in DeviceNames, e # c, NEW k \in Keys(e) PROVE DeviceValues(e, k)'
    BY <2>1, SameDeviceValues DEF TreeInv, ValuesInv, Apart
  <2>2. QED
    BY <2>1 DEF ValuesInv
<1>3. \A e \in DeviceNames : MachineInv(e)'
  BY Elsewhere
<1>4. QED
  BY <1>1, <1>2, <1>3 DEF TreeInv

\* The order in which nodes are made, and where a process ends up.
LEMMA EnsuredCases ==
    ASSUME NEW p \in Process
    PROVE  /\ p.item = "folder" =>
                Ensured(p) = [step |-> "drain", item |-> "folder", device |-> p.device, known |-> p.known]
           /\ p.item \in {"object"} \cup Strings =>
                /\ Ensured(p) = [step |-> "browse", item |-> After[p.item],
                                 device |-> p.device, known |-> p.known]
                /\ After[p.item] \in Fields
                /\ Before(After[p.item]) = IF p.item = "object" THEN {} ELSE Before(p.item) \cup {p.item}
           /\ p.item = "sensors" =>
                Ensured(p) = [step |-> "write", item |-> "name", device |-> p.device,
                              known |-> p.known \cup {Name(p.device)}]
           /\ p.item \in {"folder", "sensors", "object"} \cup Strings
<1>1. /\ p = [step |-> p.step, item |-> p.item, device |-> p.device, known |-> p.known]
      /\ p.item \in {"folder", "object", "sensors"} \cup Strings
  BY DEF Process, Items, Fields
<1>2. DOMAIN After = {"object"} \cup Strings
  BY DEF After, Strings
<1>3. CASE p.item = "folder"
  <2>1. p.item \notin {"object", "sensors"} \cup Strings
    BY <1>3 DEF Strings
  <2>2. Ensured(p) = [p EXCEPT !.step = "drain"]
    BY <1>2, <1>3, <2>1 DEF Ensured
  <2>3. [p EXCEPT !.step = "drain"] =
          [step |-> "drain", item |-> p.item, device |-> p.device, known |-> p.known]
    BY <1>1
  <2>4. QED
    BY <1>1, <1>3, <2>1, <2>2, <2>3
<1>4. CASE p.item \in {"object"} \cup Strings
  <2>1. p.item \in DOMAIN After /\ p.item \notin {"folder", "sensors"}
    BY <1>2, <1>4 DEF Strings
  <2>2. Ensured(p) = [p EXCEPT !.step = "browse", !.item = After[p.item]]
    BY <2>1 DEF Ensured
  <2>3. /\ After[p.item] \in Fields
        /\ Before(After[p.item]) = IF p.item = "object" THEN {} ELSE Before(p.item) \cup {p.item}
    BY <1>4 DEF After, Fields, Strings, Before
  <2>4. Ensured(p) = [step |-> "browse", item |-> After[p.item],
                      device |-> p.device, known |-> p.known]
    BY <1>1, <2>2
  <2>5. QED
    BY <1>1, <2>1, <2>3, <2>4
<1>5. CASE p.item = "sensors"
  <2>1. p.item \notin DOMAIN After /\ p.item # "folder" /\ p.item \notin {"object"} \cup Strings
    BY <1>2, <1>5 DEF Strings
  <2>2. Ensured(p) = [p EXCEPT !.step = "write", !.item = "name",
                               !.known = p.known \cup {Name(p.device)}]
    BY <2>1 DEF Ensured
  <2>3. QED
    BY <1>1, <1>5, <2>1, <2>2
<1>6. QED
  BY <1>1, <1>3, <1>4, <1>5

\* A process that has the node it is at goes on to the next one.
LEMMA GoesOn ==
    ASSUME TreeInv, NEW c \in DeviceNames, Alive(c), process[c].step \in {"browse", "add"},
           nodes \subseteq nodes', NodeOf(c) \in nodes',
           process'[c] = Ensured(process[c]), readings' = readings
    PROVE  Ensured(process[c]) \in Process /\ PlaceInv(c)' /\ ProgressInv(c)'
<1> DEFINE p == process[c]
<1>1. /\ p \in Process /\ p.item \in Items /\ PlaceInv(c) /\ ProgressInv(c)
      /\ p.known \subseteq Keys(c)
  BY AliveFacts DEF TreeInv, TreeTypeOK, MachineInv, PlaceInv, Process
<1>2. /\ p.step \in {"down", "browse", "add", "drain", "write"} /\ p.device \in AllDevices \cup {NoValue}
      /\ p.known \in SUBSET {Name(d) : d \in AllDevices}
  BY <1>1 DEF Process
<1>3. \A k, F : HasFields(c, k, F) => HasFields(c, k, F)'
  BY DEF HasFields
<1>4. CASE p.item = "folder"
  <2>1. process'[c] = [step |-> "drain", item |-> "folder", device |-> p.device, known |-> p.known]
    BY <1>1, <1>4, EnsuredCases
  <2>2. process'[c] \in Process
    BY <1>2, <2>1 DEF Process, Items
  <2>3. FolderNode(c) \in nodes'
    BY <1>1, <1>4, NodeOfFacts
  <2>4. "folder" \notin Fields
    BY DEF Fields, Strings
  <2>5. PlaceInv(c)'
    BY <1>1, <2>1 DEF PlaceInv
  <2>6. ProgressInv(c)'
    BY <1>1, <1>3, <2>1, <2>3, <2>4 DEF ProgressInv
  <2>7. QED
    BY <2>2, <2>5, <2>6
<1>5. CASE p.item \in {"object"} \cup Strings
  <2>1. PICK next \in Fields :
          /\ process'[c] = [step |-> "browse", item |-> next, device |-> p.device, known |-> p.known]
          /\ Before(next) = IF p.item = "object" THEN {} ELSE Before(p.item) \cup {p.item}
    BY <1>1, <1>5, EnsuredCases
  <2>2. process'[c] \in Process
    BY <1>2, <2>1 DEF Process, Items
  <2>3. p.item # "folder" /\ (p.item # "object" => p.item \in Fields)
    BY <1>5 DEF Fields, Strings
  <2>4. Key(c)' = Key(c) /\ Key(c) \in Keys(c)
    BY <1>1, <2>1, <2>3, NodeOfFacts DEF Key
  <2>5. FolderNode(c) \in nodes'
    BY <1>1, <2>3 DEF ProgressInv
  <2>6. ObjectNode(c, Key(c)) \in nodes' /\ \A f \in Before(next) : FieldNode(c, Key(c), f) \in nodes'
    <3>1. CASE p.item = "object"
      BY <1>1, <2>1, <3>1, NodeOfFacts
    <3>2. CASE p.item # "object"
      BY <1>1, <2>1, <2>3, <3>2, NodeOfFacts DEF ProgressInv, HasFields
    <3>3. QED
      BY <3>1, <3>2
  <2>7. HasFields(c, Key(c), Before(process[c].item))'
    BY <2>1, <2>4, <2>6 DEF HasFields
  <2>8. PlaceInv(c)'
    BY <1>1, <2>1, <2>3 DEF PlaceInv
  <2>9. \A k \in process'[c].known : HasFields(c, k, Fields)'
    BY <1>1, <1>3, <2>1 DEF ProgressInv
  <2>10. ProgressInv(c)'
    BY <2>1, <2>5, <2>7, <2>9 DEF ProgressInv
  <2>11. QED
    BY <2>2, <2>8, <2>10
<1>6. CASE p.item = "sensors"
  <2>1. process'[c] = [step |-> "write", item |-> "name", device |-> p.device,
                       known |-> p.known \cup {Key(c)}]
    BY <1>1, <1>6, EnsuredCases DEF Key
  <2>2. p.item # "folder" /\ p.item \in Fields /\ Fields = Strings \cup {"sensors"}
    BY <1>6 DEF Fields
  <2>3. p.device \in Devices(c) /\ p.device \in AllDevices /\ readings[p.device] > 0
    BY <1>1, <2>2 DEF PlaceInv, AllDevices
  <2>4. Key(c)' = Key(c) /\ Key(c) \in Keys(c) /\ Key(c) \in {Name(d) : d \in AllDevices}
    BY <2>1, <2>3 DEF Key, Keys
  <2>5. "name" \in Items /\ "name" \in Fields /\ Before("name") = {}
    BY DEF Items, Before, Fields, Strings
  <2>6. process'[c] \in Process
    BY <1>2, <2>1, <2>4, <2>5 DEF Process
  <2>7. FolderNode(c) \in nodes'
    BY <1>1, <2>2 DEF ProgressInv
  <2>8. HasFields(c, Key(c), Strings) /\ FieldNode(c, Key(c), "sensors") \in nodes'
    BY <1>1, <1>6, <2>2, NodeOfFacts DEF ProgressInv, Before
  <2>9. ObjectNode(c, Key(c)) \in nodes' /\ \A f \in Fields : FieldNode(c, Key(c), f) \in nodes'
    BY <2>2, <2>8 DEF HasFields
  <2>10. \A k \in process'[c].known : HasFields(c, k, Fields)'
    BY <1>1, <1>3, <2>1, <2>9 DEF ProgressInv, HasFields
  <2>11. HasFields(c, Key(c), Before(process[c].item))'
    BY <2>1, <2>4, <2>5, <2>9 DEF HasFields
  <2>12. PlaceInv(c)'
    BY <1>1, <2>1, <2>3, <2>4, <2>5 DEF PlaceInv
  <2>13. ProgressInv(c)'
    BY <2>1, <2>5, <2>7, <2>10, <2>11 DEF ProgressInv
  <2>14. QED
    BY <2>6, <2>12, <2>13
<1>7. QED
  BY <1>1, <1>4, <1>5, <1>6, EnsuredCases

LEMMA StartStep ==
    ASSUME TreeInv, NEW c \in DeviceNames, Start(c)
    PROVE  TreeInv'
<1> DEFINE s == <<c, starts[c] + 1>>
           q == [Ended EXCEPT !.step = "browse"]
<1>1. /\ starts \in [DeviceNames -> 0 .. MaxStarts] /\ starts[c] < MaxStarts
      /\ session_attributes \in [Sessions -> Attributes]
      /\ readings \in [AllDevices -> 0 .. MaxReadings]
      /\ process \in [DeviceNames -> Process]
  BY DEF Start, TreeInv, TreeTypeOK, AccessTypeOK
<1>2. /\ starts' = [starts EXCEPT ![c] = starts[c] + 1] /\ process' = [process EXCEPT ![c] = q]
      /\ nodes' = nodes /\ values' = values /\ readings' = readings /\ server_starts' = server_starts
  BY DEF Start, ActivateSession
<1>3. starts[c] + 1 \in 1 .. MaxStarts
  BY <1>1, TreeBounds DEF TreeBounds
<1>4. s \in Sessions
  BY <1>3, LivesAssumption DEF LivesAssumption
<1>5. CertificateOf(c) \in Certificates
  BY CertificatesAssumption DEF CertificatesAssumption
<1>6. session_attributes' = [session_attributes EXCEPT
          ![s] = [device_name |-> c, access_lvl |-> "readwrite", device_folder_id |-> NoNode]]
  BY CertificatesAssumption DEF Start, ActivateSession, Trusted, CertificatesAssumption
<1>7. AccessInv'
  BY <1>4, <1>5, ActivateStep DEF Start, TreeInv
<1>8. q = [step |-> "browse", item |-> "folder", device |-> NoValue, known |-> {}]
  BY DEF Ended
<1>9. q \in Process
  BY <1>8 DEF Process, Items
<1>10. Apart(c)
  <2>1. ASSUME NEW e \in DeviceNames, e # c, NEW i \in 1 .. MaxStarts
        PROVE  session_attributes'[<<e, i>>] = session_attributes[<<e, i>>]
    <3>1. <<e, i>> \in Sessions /\ <<e, i>> # s
      BY <2>1, LivesAssumption DEF LivesAssumption
    <3>2. QED
      BY <1>1, <1>6, <3>1
  <2>2. \A e \in DeviceNames \ {c} : process'[e] = process[e] /\ starts'[e] = starts[e]
    BY <1>1, <1>2
  <2>3. QED
    BY <1>2, <2>1, <2>2 DEF Apart
<1>11. MachineInv(c)'
  <2>1. process'[c] = q /\ Session(c)' = s /\ session_attributes'[s].device_name = c
        /\ session_attributes'[s].access_lvl = "readwrite"
    BY <1>1, <1>2, <1>4, <1>6 DEF Session
  <2>2. SessionInv(c)'
    BY <2>1 DEF SessionInv
  <2>3. PlaceInv(c)'
    BY <1>8, <2>1 DEF PlaceInv
  <2>4. ProgressInv(c)'
    <3>1. "folder" \notin Fields
      BY DEF Fields, Strings
    <3>2. QED
      BY <1>8, <2>1, <3>1 DEF ProgressInv
  <2>5. QED
    BY <2>2, <2>3, <2>4 DEF MachineInv
<1>12. starts' \in [DeviceNames -> 0 .. MaxStarts]
  BY <1>1, <1>2, <1>3
<1>13. NodesInv' /\ FieldsInv' /\ \A k \in Keys(c) : DeviceValues(c, k)'
  BY <1>2 DEF TreeInv, NodesInv, FieldsInv, HasFields, ValuesInv, DeviceValues, Published
<1>14. values' \in [NodeIds -> {NoValue} \cup {Name(d) : d \in AllDevices}
                               \cup [device : AllDevices, reading : 1 .. MaxReadings]]
  BY <1>2 DEF TreeInv, TreeTypeOK
<1> HIDE DEF q, s
<1>15. QED
  BY <1>1, <1>2, <1>7, <1>9, <1>10, <1>11, <1>12, <1>13, <1>14, LocalStep

\* What keeps the server as it is.
LEMMA QuietStep ==
    ASSUME TreeInv, NEW c \in DeviceNames, NEW q \in Process,
           process' = [process EXCEPT ![c] = q],
           accessVars' = accessVars, values' = values, starts' = starts,
           server_starts' = server_starts,
           readings' \in [AllDevices -> 0 .. MaxReadings],
           \A d \in AllDevices : readings[d] > 0 => readings'[d] > 0,
           PlaceInv(c)', Alive(c) => ProgressInv(c)'
    PROVE  TreeInv'
<1>1. /\ session_attributes' = session_attributes /\ presented' = presented /\ nodes' = nodes
      /\ process \in [DeviceNames -> Process] /\ starts \in [DeviceNames -> 0 .. MaxStarts]
  BY DEF accessVars, TreeInv, TreeTypeOK
<1>2. AccessInv'
  BY <1>1 DEF TreeInv, AccessInv, AccessTypeOK, SessionSpeaksForItsCertificate, FolderIsOwn,
     SubtreeOfOneDevice
<1>3. Apart(c)
  BY <1>1 DEF Apart
<1>4. MachineInv(c)'
  <2>1. Session(c)' = Session(c) /\ (Alive(c)' <=> Alive(c))
    BY <1>1 DEF Session, Alive
  <2>2. SessionInv(c)'
    BY <1>1, <2>1 DEF TreeInv, MachineInv, SessionInv
  <2>3. QED
    BY <2>1, <2>2 DEF MachineInv
<1>5. NodesInv' /\ FieldsInv' /\ \A k \in Keys(c) : DeviceValues(c, k)'
  BY <1>1 DEF TreeInv, NodesInv, FieldsInv, HasFields, ValuesInv, DeviceValues, Published
<1>6. values' \in [NodeIds -> {NoValue} \cup {Name(d) : d \in AllDevices}
                              \cup [device : AllDevices, reading : 1 .. MaxReadings]]
  BY DEF TreeInv, TreeTypeOK
<1>7. QED
  BY <1>1, <1>2, <1>3, <1>4, <1>5, <1>6, LocalStep

LEMMA BrowseStep ==
    ASSUME TreeInv, NEW c \in DeviceNames, Browse(c)
    PROVE  TreeInv'
<1> DEFINE p == process[c]
<1>1. /\ p \in Process /\ p.item \in Items /\ PlaceInv(c) /\ ProgressInv(c) /\ NodesInv
      /\ readings \in [AllDevices -> 0 .. MaxReadings] /\ process \in [DeviceNames -> Process]
      /\ p.step = "browse" /\ Alive(c)
  BY AliveFacts DEF Browse, At, TreeInv, TreeTypeOK, MachineInv, Process
<1>2. /\ accessVars' = accessVars /\ values' = values /\ starts' = starts
      /\ readings' = readings /\ server_starts' = server_starts
  BY DEF Browse
<1>3. nodes' = nodes
  BY <1>2 DEF accessVars
<1>4. CASE BrowseFinds(c)
  <2>1. process' = [process EXCEPT ![c] = Ensured(p)]
    BY <1>4 DEF Browse
  <2>2. process'[c] = Ensured(p)
    BY <1>1, <2>1
  <2>3. NodeOf(c) \in nodes'
    BY <1>1, <1>3, <1>4, BrowseSees
  <2>4. Ensured(p) \in Process /\ PlaceInv(c)' /\ ProgressInv(c)'
    BY <1>1, <1>2, <1>3, <2>2, <2>3, GoesOn
  <2>5. QED
    BY <1>1, <1>2, <2>1, <2>4, QuietStep
<1>5. CASE ~BrowseFinds(c)
  <2> DEFINE q == [p EXCEPT !.step = "add"]
  <2>1. process' = [process EXCEPT ![c] = q]
    BY <1>5 DEF Browse
  <2>2. /\ q \in Process /\ q.step = "add" /\ q.item = p.item /\ q.device = p.device
        /\ q.known = p.known
    BY <1>1 DEF Process
  <2>3. process'[c] = q
    BY <1>1, <2>1
  <2> HIDE DEF q
  <2>4. Key(c)' = Key(c) /\ NodeOf(c)' = NodeOf(c)
    BY <2>2, <2>3 DEF Key, NodeOf, IdOf, ParentOf, BrowseName
  <2>5. NodeOf(c) \notin nodes
    BY <1>1, <1>5, BrowseSees
  <2>6. PlaceInv(c)'
    BY <1>1, <1>2, <2>2, <2>3 DEF PlaceInv
  <2>7. \A k, F : HasFields(c, k, F)' <=> HasFields(c, k, F)
    BY <1>3 DEF HasFields
  <2>8. ProgressInv(c)'
    BY <1>1, <1>2, <1>3, <2>2, <2>3, <2>4, <2>5, <2>7 DEF ProgressInv
  <2>9. QED
    BY <1>1, <1>2, <2>1, <2>2, <2>6, <2>8, QuietStep
<1>6. QED
  BY <1>4, <1>5

LEMMA EndStep ==
    ASSUME TreeInv, NEW c \in DeviceNames, process' = [process EXCEPT ![c] = Ended],
           accessVars' = accessVars,
           UNCHANGED <<values, starts, readings, server_starts>>
    PROVE  TreeInv'
<1>1. process'[c] = Ended /\ readings \in [AllDevices -> 0 .. MaxReadings]
  BY DEF TreeInv, TreeTypeOK
<1>2. "folder" \notin Fields /\ "folder" \in Items
  BY DEF Fields, Strings, Items
<1>3. Ended \in Process
  BY <1>2 DEF Ended, Process
<1>4. PlaceInv(c)' /\ ProgressInv(c)'
  BY <1>1, <1>2 DEF PlaceInv, ProgressInv, Ended
<1>5. QED
  BY <1>1, <1>3, <1>4, QuietStep

LEMMA DrainStep ==
    ASSUME TreeInv, NEW c \in DeviceNames, Drain(c)
    PROVE  TreeInv'
<1> DEFINE p == process[c]
<1>1. /\ p \in Process /\ p.item \in Items /\ PlaceInv(c) /\ ProgressInv(c)
      /\ readings \in [AllDevices -> 0 .. MaxReadings] /\ process \in [DeviceNames -> Process]
      /\ p.step = "drain" /\ Alive(c)
  BY AliveFacts DEF Drain, At, TreeInv, TreeTypeOK, MachineInv, Process
<1>2. /\ accessVars' = accessVars /\ values' = values /\ starts' = starts
      /\ server_starts' = server_starts
  BY DEF Drain
<1>3. PICK d \in Devices(c) :
        /\ readings[d] < MaxReadings
        /\ readings' = [readings EXCEPT ![d] = readings[d] + 1]
        /\ process' = [process EXCEPT ![c] =
              IF Name(d) \in p.known
              THEN [p EXCEPT !.device = d, !.step = "write", !.item = "name"]
              ELSE [p EXCEPT !.device = d, !.step = "browse", !.item = "object"]]
  BY DEF Drain
<1>4. d \in AllDevices /\ Name(d) \in Keys(c)
  BY DEF AllDevices, Keys
<1>5. /\ readings' \in [AllDevices -> 0 .. MaxReadings] /\ readings'[d] > 0
      /\ \A e \in AllDevices : readings[e] > 0 => readings'[e] > 0
  BY <1>1, <1>3, <1>4, TreeBounds DEF TreeBounds
<1>6. /\ FolderNode(c) \in nodes' /\ \A k \in p.known : HasFields(c, k, Fields)'
      /\ p.known \subseteq Keys(c)
  BY <1>1, <1>2 DEF ProgressInv, PlaceInv, accessVars, HasFields
<1>7. "name" \in Fields /\ "name" \in Items /\ "object" \in Items /\ "object" \notin Fields
      /\ Before("name") = {}
  BY DEF Fields, Strings, Items, Before
<1>8. CASE Name(d) \in p.known
  <2> DEFINE q == [p EXCEPT !.device = d, !.step = "write", !.item = "name"]
  <2>1. /\ q \in Process /\ q.step = "write" /\ q.item = "name" /\ q.device = d
        /\ q.known = p.known
    BY <1>1, <1>4, <1>7 DEF Process
  <2>2. process' = [process EXCEPT ![c] = q]
    BY <1>3, <1>8
  <2>3. process'[c] = q
    BY <1>1, <2>2
  <2> HIDE DEF q
  <2>4. Key(c)' = Name(d)
    BY <2>1, <2>3 DEF Key
  <2>5. PlaceInv(c)'
    BY <1>5, <1>6, <1>7, <1>8, <2>1, <2>3, <2>4 DEF PlaceInv
  <2>6. ProgressInv(c)'
    BY <1>6, <1>7, <1>8, <2>1, <2>3, <2>4 DEF ProgressInv, HasFields
  <2>7. QED
    BY <1>2, <1>5, <2>1, <2>2, <2>5, <2>6, QuietStep
<1>9. CASE Name(d) \notin p.known
  <2> DEFINE q == [p EXCEPT !.device = d, !.step = "browse", !.item = "object"]
  <2>1. /\ q \in Process /\ q.step = "browse" /\ q.item = "object" /\ q.device = d
        /\ q.known = p.known
    BY <1>1, <1>4, <1>7 DEF Process
  <2>2. process' = [process EXCEPT ![c] = q]
    BY <1>3, <1>9
  <2>3. process'[c] = q
    BY <1>1, <2>2
  <2> HIDE DEF q
  <2>4. PlaceInv(c)'
    BY <1>5, <1>6, <2>1, <2>3 DEF PlaceInv
  <2>5. ProgressInv(c)'
    BY <1>6, <1>7, <2>1, <2>3 DEF ProgressInv
  <2>6. QED
    BY <1>2, <1>5, <2>1, <2>2, <2>4, <2>5, QuietStep
<1>10. QED
  BY <1>8, <1>9

LEMMA AddCallStep ==
    ASSUME TreeInv, NEW c \in DeviceNames, Add(c)
    PROVE  TreeInv'
<1> DEFINE p == process[c]
           s == Session(c)
           new == NodeOf(c)
<1>1. /\ p \in Process /\ p.item \in Items /\ PlaceInv(c) /\ ProgressInv(c) /\ NodesInv
      /\ readings \in [AllDevices -> 0 .. MaxReadings] /\ process \in [DeviceNames -> Process]
      /\ p.step = "add" /\ Alive(c)
  BY AliveFacts DEF Add, At, TreeInv, TreeTypeOK, MachineInv, Process
<1>2. /\ s \in Sessions /\ session_attributes[s].access_lvl = "readwrite"
      /\ session_attributes[s].device_name = c
  BY <1>1, AliveFacts
<1>3. Asked(c)
  BY AskedIsGranted DEF Add
<1>4. InLayout(new, c) /\ new \in NodeRecord
  BY <1>1, NodeOfFacts, PathOfNames
<1>5. AddNode(s, new.parent, new.id, new.name)
  BY DEF Add, NodeOf
<1>6. /\ nodes' = nodes \cup {new}
      /\ process' = [process EXCEPT ![c] = Ensured(p)]
      /\ values' = values /\ starts' = starts /\ readings' = readings
      /\ server_starts' = server_starts
  <2>1. MayAdd(s, new.parent, new.id)
    BY <1>3 DEF Asked, NodeOf
  <2>2. new = [id |-> new.id, parent |-> new.parent, name |-> new.name,
               by |-> session_attributes[s].device_name]
    BY <1>2 DEF NodeOf
  <2>3. nodes' = nodes \cup {new}
    BY <1>5, <2>1, <2>2 DEF AddNode
  <2>4. QED
    BY <1>3, <2>3 DEF Add
<1>7. AccessInv'
  <2>1. new.parent \in NodeIds \cup {TelemetryClients} /\ new.id \in NodeIds /\ new.name \in Seq(Parts)
    BY <1>4 DEF NodeRecord
  <2>2. QED
    BY <1>2, <1>5, <2>1, AddStep DEF TreeInv
<1>8. \A t \in Sessions :
        /\ session_attributes'[t].access_lvl = session_attributes[t].access_lvl
        /\ session_attributes'[t].device_name = session_attributes[t].device_name
  <2>1. session_attributes \in [Sessions -> Attributes]
    BY DEF TreeInv, AccessInv, AccessTypeOK
  <2>2. session_attributes' = [session_attributes EXCEPT
            ![s].device_folder_id = FolderAfter(s, new.parent, new.id)]
    BY <1>5 DEF AddNode
  <2>3. QED
    BY <2>1, <2>2 DEF Attributes
<1>9. process'[c] = Ensured(p)
  BY <1>1, <1>6
<1>10. Ensured(p) \in Process /\ PlaceInv(c)' /\ ProgressInv(c)'
  BY <1>1, <1>6, <1>9, GoesOn
<1>11. MachineInv(c)'
  <2>1. Session(c)' = s /\ (Alive(c)' <=> Alive(c))
    BY <1>2, <1>6, <1>8 DEF Session, Alive
  <2>2. SessionInv(c)'
    BY <1>2, <1>8, <2>1 DEF SessionInv
  <2>3. QED
    BY <1>10, <2>2 DEF MachineInv
<1>12. Apart(c)
  <2>1. \A e \in DeviceNames, i \in 1 .. MaxStarts : <<e, i>> \in Sessions
    BY LivesAssumption DEF LivesAssumption
  <2>2. \A e \in DeviceNames \ {c} : process'[e] = process[e]
    BY <1>1, <1>6
  <2>3. QED
    BY <1>6, <1>8, <2>1, <2>2 DEF Apart
<1>13. NodesInv'
  <2>1. new.by = c
    BY DEF NodeOf
  <2>2. QED
    BY <1>1, <1>4, <1>6, <2>1 DEF NodesInv
<1>14. FieldsInv'
  <2>1. SUFFICES ASSUME NEW e \in DeviceNames, NEW k \in Keys(e), FieldNode(e, k, "sensors") \in nodes'
                 PROVE  HasFields(e, k, Fields)'
    BY DEF FieldsInv
  <2>2. CASE FieldNode(e, k, "sensors") \in nodes
    BY <1>6, <2>2 DEF TreeInv, FieldsInv, HasFields
  <2>3. CASE FieldNode(e, k, "sensors") = new
    <3>1. e = c
      BY <2>3 DEF FieldNode, NodeOf
    <3>2. "sensors" \in Fields /\ snapshotFieldId(c, k, "sensors") = new.id
      BY <2>3, <3>1 DEF FieldNode, Fields
    <3>3. p.item \in Fields
      <4>1. p.item # "folder"
        BY <1>1, <3>1, <3>2, NodeOfFacts, KeysApart DEF FolderNode
      <4>2. p.item # "object"
        <5>1. p.item = "object" => new.id = snapshotObjectId(c, Key(c)) /\ Key(c) \in Keys(c)
          BY <1>1, NodeOfFacts DEF ObjectNode
        <5>2. QED
          BY <3>1, <3>2, <5>1, KeysApart
      <4>3. QED
        BY <1>1, <4>1, <4>2 DEF Items
    <3>4. Key(c) = k /\ p.item = "sensors"
      <4>1. p.item # "folder"
        BY <3>3 DEF Fields, Strings
      <4>2. new.id = snapshotFieldId(c, Key(c), p.item) /\ Key(c) \in Keys(c)
        BY <1>1, <3>3, <4>1, NodeOfFacts DEF FieldNode
      <4>3. QED
        BY <3>1, <3>2, <3>3, <4>2, KeysApart
    <3>5. HasFields(c, k, Strings)
      BY <1>1, <3>3, <3>4 DEF ProgressInv, Before
    <3>6. QED
      BY <1>6, <2>3, <3>1, <3>5 DEF HasFields, Fields
  <2>4. QED
    BY <1>6, <2>1, <2>2, <2>3
<1>15. \A k \in Keys(c) : DeviceValues(c, k)'
  BY <1>6 DEF TreeInv, ValuesInv, DeviceValues, Published
<1>16. /\ nodes \subseteq nodes' /\ \A n \in nodes' \ nodes : n.by = c
       /\ starts' \in [DeviceNames -> 0 .. MaxStarts]
       /\ readings' \in [AllDevices -> 0 .. MaxReadings]
       /\ \A d \in AllDevices : readings[d] > 0 => readings'[d] > 0
       /\ values' \in [NodeIds -> {NoValue} \cup {Name(d) : d \in AllDevices}
                                  \cup [device : AllDevices, reading : 1 .. MaxReadings]]
  BY <1>6 DEF NodeOf, TreeInv, TreeTypeOK
<1> HIDE DEF p, s, new
<1>17. QED
  BY <1>6, <1>7, <1>10, <1>11, <1>12, <1>13, <1>14, <1>15, <1>16, LocalStep

\* What a write is for, and what it leaves of the other variables.
LEMMA WrittenVariable ==
    ASSUME TreeInv, NEW c \in DeviceNames, process[c].step = "write", NEW v,
           values' = [values EXCEPT ![snapshotFieldId(c, Key(c), process[c].item)] = v]
    PROVE  /\ values'[snapshotFieldId(c, Key(c), process[c].item)] = v
           /\ \A e \in DeviceNames : \A k \in Keys(e), f \in Fields :
                <<e, k, f>> # <<c, Key(c), process[c].item>> =>
                  values'[snapshotFieldId(e, k, f)] = values[snapshotFieldId(e, k, f)]
<1> DEFINE i == process[c].item
           id == snapshotFieldId(c, Key(c), i)
<1>1. i \in Fields /\ Key(c) \in Keys(c)
  <2>1. PlaceInv(c)
    BY DEF TreeInv, MachineInv
  <2>2. QED
    BY <2>1 DEF PlaceInv
<1>2. id \in NodeIds /\ DOMAIN values = NodeIds
  BY <1>1, LayoutTypes DEF TreeInv, TreeTypeOK
<1>3. ASSUME NEW e \in DeviceNames, NEW k \in Keys(e), NEW f \in Fields,
             <<e, k, f>> # <<c, Key(c), i>>
      PROVE  values'[snapshotFieldId(e, k, f)] = values[snapshotFieldId(e, k, f)]
  <2>1. snapshotFieldId(e, k, f) \in NodeIds
    BY LayoutTypes
  <2>2. snapshotFieldId(e, k, f) # id
    <3>1. CASE e = c
      BY <1>1, <1>3, <3>1, KeysApart
    <3>2. CASE e # c
      <4>1. InLayout(FieldNode(e, k, f), e) /\ InLayout(FieldNode(c, Key(c), i), c)
        BY <1>1 DEF InLayout
      <4>2. FieldNode(e, k, f).id # FieldNode(c, Key(c), i).id
        BY <3>2, <4>1, LayoutOwner, OneOwner
      <4>3. QED
        BY <4>2 DEF FieldNode
    <3>3. QED
      BY <3>1, <3>2
  <2>3. QED
    BY <1>2, <2>1, <2>2
<1>4. QED
  BY <1>2, <1>3

LEMMA WriteCallStep ==
    ASSUME TreeInv, NEW c \in DeviceNames, Write(c)
    PROVE  TreeInv'
<1> DEFINE p == process[c]
           s == Session(c)
           id == snapshotFieldId(c, Key(c), p.item)
           v == IF p.item = "sensors" THEN Reading(p.device) ELSE Key(c)
<1>1. /\ p \in Process /\ p.item \in Items /\ PlaceInv(c) /\ ProgressInv(c)
      /\ readings \in [AllDevices -> 0 .. MaxReadings] /\ process \in [DeviceNames -> Process]
      /\ p.step = "write" /\ Alive(c)
  BY AliveFacts DEF Write, At, TreeInv, TreeTypeOK, MachineInv, Process
<1>2. /\ accessVars' = accessVars /\ starts' = starts /\ readings' = readings
      /\ server_starts' = server_starts
  BY DEF Write
<1>3. /\ session_attributes' = session_attributes /\ presented' = presented /\ nodes' = nodes
  BY <1>2 DEF accessVars
<1>4. p.item \in Fields /\ p.item # "folder" /\ p.item # "object" /\ Key(c) \in Keys(c)
      /\ Key(c) \in p.known
  BY <1>1 DEF PlaceInv, Fields, Strings
<1>5. IdOf(c, p.item) = id
  BY <1>4 DEF IdOf
<1>6. p.device \in Devices(c) /\ p.device \in AllDevices /\ readings[p.device] \in 1 .. MaxReadings
  BY <1>1, <1>4, TreeBounds DEF PlaceInv, AllDevices, TreeBounds
<1>7. \/ process' = [process EXCEPT ![c] = Ended] /\ values' = values
      \/ process' = [process EXCEPT ![c] = Written(c)] /\ values' = [values EXCEPT ![id] = v]
  BY <1>5 DEF Write
<1>8. CASE process' = [process EXCEPT ![c] = Ended] /\ values' = values
  BY <1>2, <1>8, EndStep
<1>9. CASE process' = [process EXCEPT ![c] = Written(c)] /\ values' = [values EXCEPT ![id] = v]
  <2> DEFINE q == Written(c)
  <2>1. /\ values'[id] = v
        /\ \A e \in DeviceNames : \A k \in Keys(e), f \in Fields :
             <<e, k, f>> # <<c, Key(c), p.item>> =>
               values'[snapshotFieldId(e, k, f)] = values[snapshotFieldId(e, k, f)]
    <3> HIDE DEF v
    <3>1. QED
      BY <1>1, <1>9, WrittenVariable
  <2>2. /\ Strings \subseteq Fields /\ "sensors" \in Fields /\ "sensors" \notin Strings
        /\ p.item # "sensors" => p.item \in Strings
    BY <1>4 DEF Fields, Strings
  <2>3. v = IF p.item = "sensors" THEN [device |-> p.device, reading |-> readings[p.device]]
            ELSE Key(c)
    BY DEF Reading
  <2>4. /\ p.item = "sensors" => v \in SensorValues(c, Key(c))
        /\ p.item # "sensors" => v = Key(c)
    BY <1>4, <1>6, <2>3 DEF SensorValues, Key
  <2>5. values' \in [NodeIds -> {NoValue} \cup {Name(d) : d \in AllDevices}
                                \cup [device : AllDevices, reading : 1 .. MaxReadings]]
    <3>1. v \in {Name(d) : d \in AllDevices} \cup [device : AllDevices, reading : 1 .. MaxReadings]
      BY <1>6, <2>3 DEF Key
    <3> HIDE DEF v, id
    <3>2. QED
      BY <1>9, <3>1 DEF TreeInv, TreeTypeOK
  <2>6. \A f \in Before(p.item) : values[snapshotFieldId(c, Key(c), f)] = Key(c)
    BY <1>1 DEF ProgressInv
  <2>7. ASSUME NEW k \in Keys(c) PROVE DeviceValues(c, k)'
    <3>1. DeviceValues(c, k)
      BY DEF TreeInv, ValuesInv
    <3>2. CASE k # Key(c)
      BY <2>1, <3>1, <3>2, SameDeviceValues
    <3>3. CASE k = Key(c) /\ p.item = "sensors"
      <4>1. \A f \in Strings : values'[snapshotFieldId(c, k, f)] = k
        BY <2>1, <2>2, <2>6, <3>3 DEF Before
      <4>2. values'[snapshotFieldId(c, k, "sensors")] \in SensorValues(c, k)
        BY <2>1, <2>4, <3>3
      <4>3. QED
        BY <4>1, <4>2 DEF DeviceValues, Published, SensorValues
    <3>4. CASE k = Key(c) /\ p.item # "sensors"
      <4>1. values'[snapshotFieldId(c, k, "sensors")] = values[snapshotFieldId(c, k, "sensors")]
        BY <2>1, <2>2, <3>4
      <4>2. \A f \in Strings :
              values'[snapshotFieldId(c, k, f)] \in {k, values[snapshotFieldId(c, k, f)]}
        BY <2>1, <2>2, <2>4, <3>4
      <4>3. SensorValues(c, k)' = SensorValues(c, k)
        BY DEF SensorValues
      <4>4. QED
        BY <3>1, <4>1, <4>2, <4>3 DEF DeviceValues, Published
    <3>5. QED
      BY <3>2, <3>3, <3>4
  <2>8. /\ q \in Process /\ q.known = p.known /\ q.device = p.device /\ q.item \in Fields
        /\ \/ q.step = "drain"
           \/ q.step = "write" /\ Before(q.item) = Before(p.item) \cup {p.item} /\ p.item \in Strings
    <3>1. CASE p.item \in Strings
      <4>1. /\ p.item \in DOMAIN AfterWrite /\ AfterWrite[p.item] \in Fields
            /\ Before(AfterWrite[p.item]) = Before(p.item) \cup {p.item}
        BY <3>1 DEF Strings, AfterWrite, Fields, Before
      <4>2. q = [p EXCEPT !.item = AfterWrite[p.item]]
        BY <4>1 DEF Written
      <4>3. QED
        BY <1>1, <3>1, <4>1, <4>2 DEF Process, Items
    <3>2. CASE p.item = "sensors"
      <4>1. p.item \notin DOMAIN AfterWrite
        BY <3>2 DEF AfterWrite
      <4>2. q = [p EXCEPT !.step = "drain"]
        BY <4>1 DEF Written
      <4>3. QED
        BY <1>1, <1>4, <4>2 DEF Process
    <3>3. QED
      BY <2>2, <3>1, <3>2
  <2>9. process'[c] = q
    BY <1>1, <1>9
  <2> HIDE DEF q
  <2>10. Key(c)' = Key(c) /\ q.item # "folder"
    BY <2>8, <2>9 DEF Key, Fields, Strings
  <2>11. PlaceInv(c)'
    BY <1>1, <1>2, <1>4, <2>8, <2>9, <2>10 DEF PlaceInv
  <2>12. ProgressInv(c)'
    <3>1. /\ FolderNode(c) \in nodes' /\ \A k \in p.known : HasFields(c, k, Fields)'
      BY <1>1, <1>3, <1>4 DEF ProgressInv, HasFields
    <3>2. HasFields(c, Key(c), Before(process[c].item))'
      BY <1>4, <2>8, <2>9, <2>10, <3>1, BeforeFields DEF HasFields
    <3>3. q.step = "write" =>
            \A f \in Before(q.item) : values'[snapshotFieldId(c, Key(c), f)] = Key(c)
      BY <1>4, <2>1, <2>2, <2>4, <2>6, <2>8, BeforeFields
    <3>4. QED
      BY <2>8, <2>9, <2>10, <3>1, <3>2, <3>3 DEF ProgressInv
  <2>13. MachineInv(c)'
    <3>1. SessionInv(c)'
      BY <1>2, <1>3 DEF TreeInv, MachineInv, SessionInv, Session, Alive
    <3>2. QED
      BY <2>11, <2>12, <3>1 DEF MachineInv
  <2>14. Apart(c)
    <3>1. \A e \in DeviceNames \ {c} : process'[e] = process[e]
      BY <1>1, <1>9
    <3>2. QED
      BY <1>2, <1>3, <2>1, <3>1 DEF Apart
  <2>15. AccessInv'
    BY <1>3 DEF TreeInv, AccessInv, AccessTypeOK, SessionSpeaksForItsCertificate, FolderIsOwn,
       SubtreeOfOneDevice
  <2>16. NodesInv' /\ FieldsInv'
    BY <1>3 DEF TreeInv, NodesInv, FieldsInv, HasFields
  <2>17. starts' \in [DeviceNames -> 0 .. MaxStarts]
    BY <1>2 DEF TreeInv, TreeTypeOK
  <2>18. process' = [process EXCEPT ![c] = q] /\ q \in Process
    BY <1>9, <2>8 DEF q
  <2> HIDE DEF p, s, id, v
  <2>19. QED
    BY <1>1, <1>2, <1>3, <2>5, <2>7, <2>11, <2>13, <2>14, <2>15, <2>16, <2>17, <2>18, LocalStep
<1>10. QED
  BY <1>7, <1>8, <1>9

LEMMA RestartStep ==
    ASSUME TreeInv, RestartServer
    PROVE  TreeInv'
<1>1. /\ nodes' = {} /\ values' = [id \in NodeIds |-> NoValue]
      /\ session_attributes' = [s \in Sessions |-> NoAttributes]
      /\ presented' = presented /\ process' = process /\ starts' = starts /\ readings' = readings
      /\ server_starts < MaxServerStarts /\ server_starts' = server_starts + 1
  BY DEF RestartServer, clientVars
<1>2. AccessInv'
  <2>1. NoAttributes \in Attributes /\ NoAttributes.access_lvl # "readwrite"
        /\ NoAttributes.device_folder_id = NoNode
    BY DEF NoAttributes, Attributes
  <2>2. AccessTypeOK'
    BY <1>1, <2>1 DEF TreeInv, AccessInv, AccessTypeOK
  <2>3. SessionSpeaksForItsCertificate' /\ FolderIsOwn' /\ SubtreeOfOneDevice'
    BY <1>1, <2>1 DEF SessionSpeaksForItsCertificate, FolderIsOwn, SubtreeOfOneDevice
  <2>4. QED
    BY <2>2, <2>3 DEF AccessInv
<1>3. TreeTypeOK'
  <2>1. server_starts' \in 1 .. MaxServerStarts
    BY <1>1, TreeBounds DEF TreeInv, TreeTypeOK, TreeBounds
  <2>2. QED
    BY <1>1, <1>2, <2>1 DEF AccessInv, TreeInv, TreeTypeOK
<1>4. NodesInv' /\ FieldsInv'
  BY <1>1 DEF NodesInv, FieldsInv, HasFields
<1>5. ValuesInv'
  BY <1>1, LayoutTypes DEF ValuesInv, DeviceValues, Fields
<1>6. ASSUME NEW c \in DeviceNames PROVE MachineInv(c)'
  <2>1. starts[c] \in 0 .. MaxStarts
    BY DEF TreeInv, TreeTypeOK
  <2>2. ~Alive(c)'
    <3>1. ASSUME starts[c] > 0 PROVE <<c, starts[c]>> \in Sessions
      BY <2>1, <3>1, LivesAssumption DEF LivesAssumption
    <3>2. QED
      BY <1>1, <3>1 DEF Alive, Session, NoAttributes
  <2>3. PlaceInv(c)'
    <3>1. Key(c)' = Key(c)
      BY <1>1 DEF Key
    <3>2. QED
      BY <1>1, <3>1 DEF TreeInv, MachineInv, PlaceInv
  <2>4. QED
    BY <2>2, <2>3 DEF MachineInv, SessionInv
<1>7. QED
  BY <1>2, <1>3, <1>4, <1>5, <1>6 DEF TreeInv

LEMMA TreeInitInv == InitTree => TreeInv
<1> SUFFICES ASSUME InitTree PROVE TreeInv
  OBVIOUS
<1>1. /\ nodes = {} /\ values = [id \in NodeIds |-> NoValue]
      /\ process = [c \in DeviceNames |-> Ended] /\ starts = [c \in DeviceNames |-> 0]
      /\ readings = [d \in AllDevices |-> 0] /\ server_starts = 1
  BY DEF InitTree, InitAccess
<1>2. AccessInv
  BY AccessInitInv DEF InitTree
<1>3. TreeTypeOK
  <2>1. Ended \in Process
    BY DEF Ended, Process, Items
  <2>2. MaxStarts \in Nat /\ MaxReadings \in Nat /\ 1 \in 1 .. MaxServerStarts
    BY TreeBounds DEF TreeBounds
  <2>3. QED
    BY <1>1, <1>2, <2>1, <2>2 DEF AccessInv, TreeTypeOK
<1>4. NodesInv /\ FieldsInv
  BY <1>1 DEF NodesInv, FieldsInv, HasFields
<1>5. ValuesInv
  BY <1>1, LayoutTypes DEF ValuesInv, DeviceValues, Fields
<1>6. ASSUME NEW c \in DeviceNames PROVE MachineInv(c)
  BY <1>1 DEF MachineInv, SessionInv, PlaceInv, Alive, Ended
<1>7. QED
  BY <1>2, <1>3, <1>4, <1>5, <1>6 DEF TreeInv

LEMMA ClientStepInv ==
    ASSUME TreeInv, NEW c \in DeviceNames, ClientStep(c)
    PROVE  TreeInv'
<1>1. CASE End(c)
  BY <1>1, EndStep DEF End
<1>2. QED
  BY <1>1, StartStep, BrowseStep, AddCallStep, DrainStep, WriteCallStep DEF ClientStep

LEMMA TreeStutter ==
    ASSUME TreeInv, UNCHANGED treeVars
    PROVE  TreeInv'
<1>1. /\ session_attributes' = session_attributes /\ presented' = presented /\ nodes' = nodes
      /\ values' = values /\ process' = process /\ starts' = starts /\ readings' = readings
      /\ server_starts' = server_starts
  BY DEF treeVars, accessVars
<1>2. AccessInv' /\ TreeTypeOK'
  BY <1>1 DEF TreeInv, AccessInv, AccessTypeOK, SessionSpeaksForItsCertificate, FolderIsOwn,
     SubtreeOfOneDevice, TreeTypeOK
<1>3. NodesInv' /\ FieldsInv' /\ ValuesInv'
  BY <1>1 DEF TreeInv, NodesInv, FieldsInv, HasFields, ValuesInv, DeviceValues, Published
<1>4. ASSUME NEW c \in DeviceNames PROVE MachineInv(c)'
  <2>1. Key(c)' = Key(c) /\ NodeOf(c)' = NodeOf(c) /\ Session(c)' = Session(c) /\ (Alive(c)' <=> Alive(c))
    BY <1>1 DEF Key, NodeOf, IdOf, ParentOf, BrowseName, Session, Alive
  <2>2. \A k, F : HasFields(c, k, F)' <=> HasFields(c, k, F)
    BY <1>1 DEF HasFields
  <2>3. SessionInv(c)' /\ PlaceInv(c)'
    BY <1>1, <2>1 DEF TreeInv, MachineInv, SessionInv, PlaceInv
  <2>4. ProgressInv(c)' <=> ProgressInv(c)
    BY <1>1, <2>1, <2>2 DEF ProgressInv
  <2>5. QED
    BY <2>1, <2>3, <2>4 DEF TreeInv, MachineInv
<1>5. QED
  BY <1>2, <1>3, <1>4 DEF TreeInv

LEMMA TreeStep ==
    ASSUME TreeInv, [TreeNext]_treeVars
    PROVE  TreeInv'
<1>1. CASE UNCHANGED treeVars
  BY <1>1, TreeStutter
<1>2. CASE TreeNext
  BY <1>2, ClientStepInv, RestartStep DEF TreeNext
<1>3. QED
  BY <1>1, <1>2

LEMMA TreeInvariant == TreeSpec => []TreeInv
<1>1. TreeInv /\ [TreeNext]_treeVars => TreeInv'
  BY TreeStep
<1>2. QED
  BY <1>1, TreeInitInv, PTL DEF TreeSpec

\* The variables of the address space and of its clients keep their ranges,
\* and a node's id is the path of the names to it (shared_opc_ua_layout.h).
THEOREM TreeTypeCorrect == TreeSpec => []TreeTypeOK
<1>1. TreeInv => TreeTypeOK
  BY DEF TreeInv
<1>2. QED
  BY <1>1, TreeInvariant, PTL

LEMMA TreeInvServes ==
    ASSUME TreeInv
    PROVE  EnsuredNodesServe
<1>1. ASSUME NEW c \in DeviceNames, At(c, "add") PROVE Asked(c)
  BY <1>1, AskedIsGranted
<1>2. ASSUME NEW c \in DeviceNames, At(c, "write")
      PROVE  /\ session_attributes[Session(c)].access_lvl = "readwrite"
             /\ NodeExists(IdOf(c, process[c].item))
  <2>1. /\ process[c].step = "write" /\ PlaceInv(c) /\ ProgressInv(c)
        /\ session_attributes[Session(c)].access_lvl = "readwrite" /\ process[c].item \in Items
    BY <1>2, AliveFacts DEF At, TreeInv, MachineInv, TreeTypeOK, Process
  <2>2. process[c].item \in Fields /\ FieldNode(c, Key(c), process[c].item) \in nodes
    BY <2>1 DEF PlaceInv, ProgressInv, HasFields
  <2>3. process[c].item # "folder" /\ process[c].item # "object"
    BY <2>2 DEF Fields, Strings
  <2>4. FieldNode(c, Key(c), process[c].item).id = IdOf(c, process[c].item)
    BY <2>3 DEF FieldNode, IdOf
  <2>5. QED
    BY <2>1, <2>2, <2>4 DEF NodeExists
<1>3. QED
  BY <1>1, <1>2 DEF EnsuredNodesServe

\* Whatever earlier processes left half made and whatever other machines do,
\* a node that was browsed for in vain may still be added, and a node that is
\* written is there (ensureSnapshotNode, writeSnapshot).
THEOREM EnsuredServe == TreeSpec => []EnsuredNodesServe
<1>1. TreeInv => EnsuredNodesServe
  BY TreeInvServes
<1>2. QED
  BY <1>1, TreeInvariant, PTL

LEMMA TreeInvSensorsLast ==
    ASSUME TreeInv
    PROVE  SensorsComeLast
<1>1. SUFFICES ASSUME NEW n \in nodes, n.name = <<"sensors">>, NEW f \in Strings
               PROVE  \E m \in nodes : m.parent = n.parent /\ m.name = <<f>>
  BY DEF SensorsComeLast
<1>2. PICK c \in DeviceNames : InLayout(n, c)
  BY DEF TreeInv, NodesInv
<1>3. n # FolderNode(c)
  <2>1. c # <<"sensors">>
    BY LayoutAssumption DEF LayoutAssumption
  <2>2. FolderNode(c).name = c
    BY DEF FolderNode
  <2>3. QED
    BY <1>1, <2>1, <2>2
<1>4. ASSUME NEW k \in Keys(c) PROVE n # ObjectNode(c, k)
  <2>1. PICK d \in Devices(c) : k = Name(d)
    BY DEF Keys
  <2>2. k # <<"sensors">>
    BY <2>1, LayoutAssumption DEF LayoutAssumption
  <2>3. ObjectNode(c, k).name = k
    BY DEF ObjectNode
  <2>4. QED
    BY <1>1, <2>2, <2>3
<1>5. PICK k \in Keys(c), g \in Fields : n = FieldNode(c, k, g)
  BY <1>2, <1>3, <1>4 DEF InLayout
<1>6. g = "sensors"
  BY <1>1, <1>5 DEF FieldNode
<1>7. f \in Fields /\ FieldNode(c, k, f) \in nodes
  BY <1>5, <1>6 DEF TreeInv, FieldsInv, HasFields, Fields
<1>8. QED
  BY <1>5, <1>7 DEF FieldNode

\* An object that has its sensors has its strings too, for any machines and
\* devices and however often processes end half way (ensureSnapshotNode).
THEOREM SensorsLast == TreeSpec => []SensorsComeLast
<1>1. TreeInv => SensorsComeLast
  BY TreeInvSensorsLast
<1>2. QED
  BY <1>1, TreeInvariant, PTL

\* Once a device's sensors have a value its strings have theirs, whichever
\* process wrote them (writeSnapshot).
THEOREM CompleteWhenPublished == TreeSpec => []PublishedComplete
<1>1. TreeInv => PublishedComplete
  BY DEF TreeInv, ValuesInv, DeviceValues, Published, PublishedComplete, Keys
<1>2. QED
  BY <1>1, TreeInvariant, PTL

\* With the clients as they are, every node lies below nodes of the machine
\* that made it (allowAddNode), after any restarts.
THEOREM SubtreesSeparateInTree == TreeSpec => []SubtreeOfOneDevice
<1>1. TreeInv => SubtreeOfOneDevice
  BY DEF TreeInv, AccessInv
<1>2. QED
  BY <1>1, TreeInvariant, PTL

------------------------------------------------------------------------------
(* ControlCenter: what is known of a device stays with the device.          *)

\* The object of a device of machine c with name k.
IsObject(o, c, k) == c \in DeviceNames /\ k \in Keys(c) /\ o = snapshotObjectId(c, k)

\* What the server may report of an object's sensors.
IsSensed(o, x) == x = NoValue \/ \E c \in DeviceNames : \E k \in Keys(c) :
                                   IsObject(o, c, k) /\ x \in SensorValues(c, k)

TextsOf(k) == {EmptyText, k}

\* The folders and objects that are left to visit are machines and devices;
\* a device that is being read is not in the cache yet, and one that is being
\* subscribed to has no monitored item.
ViewerInv ==
    /\ viewer.folders \subseteq DeviceNames
    /\ viewer.step # "read" => viewer.info = NoInfo
    /\ \A o \in viewer.objects : \E k \in Keys(viewer.folder) : IsObject(o, viewer.folder, k)
    /\ viewer.step \in {"read", "subscribe"} =>
         \E k \in Keys(viewer.folder) :
            IsObject(viewer.object, viewer.folder, k) /\ \A f \in Shown : viewer.info[f] \in TextsOf(k)
    /\ viewer.step = "read" => ~Cached(viewer.object)
    /\ viewer.step = "subscribe" => Cached(viewer.object) /\ monitored[viewer.object] = 0

\* A device is in the cache once, with its own texts.
CacheInv ==
    /\ \A e \in cache : \E k \in Keys(e.client) :
          IsObject(e.object, e.client, k) /\ \A f \in Shown : e.info[f] \in TextsOf(k)
    /\ \A d, e \in cache : d.object = e.object => d = e

WatchInv == \A o \in ObjectIds : monitored[o] <= 1 /\ (monitored[o] # 0 => Cached(o))

ReportInv ==
    \A o \in ObjectIds : IsSensed(o, sampled[o]) /\ (report[o] = Nothing \/ IsSensed(o, report[o]))

IsRowOf(row, client, text, k) ==
    /\ row.name \in TextsOf(k) /\ text \in {EmptyText, HardwareType(k)}
    /\ row.sensors \in {NoValue} \cup SensorValues(client, k)

GridInv(grid) ==
    \A key \in DOMAIN grid : \E k \in Keys(key[1]) : IsRowOf(grid[key], key[1], key[2], k)

CenterInv ==
    /\ CenterTypeOK
    /\ ViewerInv /\ CacheInv /\ WatchInv /\ ReportInv
    /\ GridInv(rows) /\ GridInv(screen)

LEMMA SameObject ==
    ASSUME NEW o, NEW c, NEW e, NEW k, NEW l, IsObject(o, c, k), IsObject(o, e, l)
    PROVE  c = e /\ k = l
<1>1. InLayout(ObjectNode(c, k), c) /\ InLayout(ObjectNode(e, l), e)
      /\ c \in DeviceNames /\ e \in DeviceNames
  BY DEF IsObject, InLayout
<1>2. ObjectNode(c, k).id = ObjectNode(e, l).id
  BY DEF IsObject, ObjectNode
<1>3. ObjectNode(c, k) = ObjectNode(e, l)
  BY <1>1, <1>2, OneNodePerId
<1>4. /\ ObjectNode(c, k).by = c /\ ObjectNode(c, k).name = k
      /\ ObjectNode(e, l).by = e /\ ObjectNode(e, l).name = l
  BY DEF ObjectNode
<1>5. QED
  BY <1>3, <1>4

LEMMA ObjectFacts ==
    ASSUME NEW o, NEW c, NEW k, IsObject(o, c, k)
    PROVE  /\ o \in ObjectIds /\ o \in NodeIds /\ TextsOf(k) \subseteq Texts
           /\ HardwareType(k) \in {HardwareType(Name(d)) : d \in AllDevices}
           /\ SensorValues(c, k) \subseteq [device : AllDevices, reading : 1 .. MaxReadings]
<1>1. c \in DeviceNames /\ k \in Keys(c) /\ o = snapshotObjectId(c, k)
  BY DEF IsObject
<1>2. PICK d \in Devices(c) : k = Name(d)
  BY <1>1 DEF Keys
<1>3. d \in AllDevices /\ Devices(c) \subseteq AllDevices
  BY <1>1 DEF AllDevices
<1>4. o \in NodeIds
  BY <1>1, LayoutTypes
<1>5. o \in ObjectIds
  BY <1>1, <1>2, <1>3, <1>4 DEF ObjectIds
<1>6. TextsOf(k) \subseteq Texts
  BY <1>2, <1>3 DEF TextsOf, Texts
<1>7. HardwareType(k) \in {HardwareType(Name(e)) : e \in AllDevices}
  BY <1>2, <1>3
<1>8. SensorValues(c, k) \subseteq [device : AllDevices, reading : 1 .. MaxReadings]
  BY <1>3 DEF SensorValues
<1>9. QED
  BY <1>4, <1>5, <1>6, <1>7, <1>8

LEMMA SensedType ==
    ASSUME NEW o, NEW x, IsSensed(o, x)
    PROVE  x \in {NoValue} \cup [device : AllDevices, reading : 1 .. MaxReadings]
  BY ObjectFacts DEF IsSensed

\* What the control center reads is the device's own.
LEMMA ReadsOwn ==
    ASSUME TreeInv, NEW o, NEW c, NEW k, IsObject(o, c, k)
    PROVE  /\ IsSensed(o, values[SensorsOf(o)])
           /\ \A f \in Shown : TextOf(o, f) \in TextsOf(k)
<1>1. c \in DeviceNames /\ k \in Keys(c) /\ DeviceValues(c, k)
  BY DEF IsObject, TreeInv, ValuesInv
<1>2. SensorsOf(o) = snapshotFieldId(c, k, "sensors") /\ \A f : o \o <<f>> = snapshotFieldId(c, k, f)
  BY DEF IsObject, SensorsOf, snapshotFieldId, snapshotObjectId
<1>3. IsSensed(o, values[SensorsOf(o)])
  BY <1>1, <1>2 DEF DeviceValues, IsSensed
<1>4. ASSUME NEW f \in Shown PROVE TextOf(o, f) \in TextsOf(k)
  <2>1. f \in Strings
    BY DEF Shown, Strings
  <2>2. values[o \o <<f>>] \in {NoValue, k}
    BY <1>1, <1>2, <2>1 DEF DeviceValues
  <2>3. QED
    BY <2>2 DEF TextOf, TextsOf
<1>5. QED
  BY <1>3, <1>4

\* What lies under TelemetryClients are machines, and under a machine devices.
LEMMA Browsed ==
    ASSUME NodesInv
    PROVE  /\ FoldersThere \subseteq DeviceNames
           /\ \A c \in DeviceNames, n \in nodes :
                n.parent = c => \E k \in Keys(c) : IsObject(n.id, c, k)
<1>1. ASSUME NEW n \in nodes, n.parent = TelemetryClients PROVE n.id \in DeviceNames
  <2>1. PICK c \in DeviceNames : InLayout(n, c)
    BY DEF NodesInv
  <2>2. ASSUME NEW k \in Keys(c), NEW f \in Fields PROVE n # ObjectNode(c, k) /\ n # FieldNode(c, k, f)
    <3>1. c # TelemetryClients /\ snapshotObjectId(c, k) # TelemetryClients
      BY LayoutTypes, RootAssumption DEF RootAssumption
    <3>2. QED
      BY <1>1, <3>1 DEF ObjectNode, FieldNode
  <2>3. "name" \in Fields
    BY DEF Fields, Strings
  <2>4. n = FolderNode(c)
    BY <2>1, <2>2, <2>3 DEF InLayout
  <2>5. QED
    BY <2>4 DEF FolderNode
<1>2. ASSUME NEW c \in DeviceNames, NEW n \in nodes, n.parent = c
      PROVE  \E k \in Keys(c) : IsObject(n.id, c, k)
  <2>1. PICK e \in DeviceNames : InLayout(n, e)
    BY DEF NodesInv
  <2>2. n # FolderNode(e)
    <3>1. c # TelemetryClients
      BY LayoutAssumption, RootAssumption DEF LayoutAssumption, RootAssumption
    <3>2. QED
      BY <1>2, <3>1 DEF FolderNode
  <2>3. ASSUME NEW k \in Keys(e), NEW f \in Fields PROVE n # FieldNode(e, k, f)
    <3>1. SUFFICES ASSUME n = FieldNode(e, k, f) PROVE FALSE
      OBVIOUS
    <3>2. c = snapshotObjectId(e, k)
      BY <1>2, <3>1 DEF FieldNode
    <3>3. ObjectNode(e, k).id = FolderNode(c).id
      BY <3>2 DEF ObjectNode, FolderNode
    <3>4. ObjectNode(e, k) = FolderNode(c)
      BY <3>3, OneNodePerId DEF InLayout
    <3>5. e = TelemetryClients
      BY <3>4 DEF ObjectNode, FolderNode
    <3>6. QED
      BY <3>5, LayoutAssumption, RootAssumption DEF LayoutAssumption, RootAssumption
  <2>4. PICK k \in Keys(e) : n = ObjectNode(e, k)
    BY <2>1, <2>2, <2>3 DEF InLayout
  <2>5. e = c /\ n.id = snapshotObjectId(e, k)
    BY <1>2, <2>4 DEF ObjectNode
  <2>6. QED
    BY <2>5 DEF IsObject
<1>3. FoldersThere \subseteq DeviceNames
  BY <1>1 DEF FoldersThere
<1>4. QED
  BY <1>2, <1>3

\* A step of the discovery that only moves the control center on.
LEMMA ViewerStep ==
    ASSUME CenterInv, UNCHANGED <<cache, watchVars, gridVars>>, viewer' \in Viewer, ViewerInv'
    PROVE  CenterInv'
<1>1. /\ cache' = cache /\ monitored' = monitored /\ sampled' = sampled /\ report' = report
      /\ rows' = rows /\ dirty' = dirty /\ screen' = screen
  BY DEF watchVars, gridVars
<1>2. CenterTypeOK'
  BY <1>1 DEF CenterInv, CenterTypeOK
<1>3. CacheInv' /\ WatchInv' /\ ReportInv'
  BY <1>1 DEF CenterInv, CacheInv, WatchInv, ReportInv, Cached
<1>4. GridInv(rows)' /\ GridInv(screen)'
  BY <1>1 DEF CenterInv, GridInv
<1>5. QED
  BY <1>2, <1>3, <1>4 DEF CenterInv

LEMMA NoInfoText == NoInfo \in [Shown -> Texts] /\ Off \in Viewer
  BY DEF NoInfo, Texts, Off, Viewer, Shown

LEMMA StartCenterStep ==
    ASSUME TreeInv, CenterInv, StartCenter
    PROVE  CenterInv'
<1>1. FoldersThere \subseteq DeviceNames /\ DeviceNames \subseteq NodeIds
  BY Browsed, LayoutAssumption DEF TreeInv, LayoutAssumption
<1>2. viewer' = [step |-> "browse", folders |-> FoldersThere, objects |-> {}, folder |-> NoNode,
                 object |-> NoNode, field |-> "name", info |-> NoInfo]
  BY DEF StartCenter, Off
<1>3. viewer' \in Viewer
  BY <1>1, <1>2, NoInfoText DEF Viewer, Shown
<1>4. ViewerInv'
  BY <1>1, <1>2 DEF ViewerInv
<1>5. QED
  BY <1>3, <1>4, ViewerStep DEF StartCenter

LEMMA DiscoverStep ==
    ASSUME TreeInv, CenterInv, Discover
    PROVE  CenterInv'
<1> DEFINE q == [viewer EXCEPT !.folders = FoldersThere]
<1>1. FoldersThere \subseteq DeviceNames /\ DeviceNames \subseteq NodeIds
  BY Browsed, LayoutAssumption DEF TreeInv, LayoutAssumption
<1>2. viewer \in Viewer /\ ViewerInv /\ viewer.step = "browse" /\ viewer.objects = {} /\ viewer' = q
  BY DEF CenterInv, CenterTypeOK, Discover, Idle
<1>3. /\ q \in Viewer /\ q.folders = FoldersThere /\ q.step = viewer.step /\ q.objects = viewer.objects
      /\ q.info = viewer.info
  BY <1>1, <1>2 DEF Viewer
<1> HIDE DEF q
<1>4. ViewerInv'
  BY <1>1, <1>2, <1>3 DEF ViewerInv
<1>5. QED
  BY <1>2, <1>3, <1>4, ViewerStep DEF Discover

LEMMA BrowseFolderStep ==
    ASSUME TreeInv, CenterInv, BrowseFolder
    PROVE  CenterInv'
<1>1. viewer \in Viewer /\ ViewerInv /\ viewer.step = "browse"
  BY DEF CenterInv, CenterTypeOK, BrowseFolder
<1>2. PICK c \in viewer.folders :
        viewer' = [viewer EXCEPT !.folder = c, !.folders = viewer.folders \ {c},
                       !.objects = {n.id : n \in {m \in nodes : m.parent = c}}]
  BY DEF BrowseFolder
<1>3. c \in DeviceNames /\ c \in NodeIds
  BY <1>1, LayoutAssumption DEF ViewerInv, LayoutAssumption
<1> DEFINE found == {n.id : n \in {m \in nodes : m.parent = c}}
           q == [viewer EXCEPT !.folder = c, !.folders = viewer.folders \ {c}, !.objects = found]
<1>4. \A o \in found : o \in NodeIds /\ \E k \in Keys(c) : IsObject(o, c, k)
  BY <1>3, Browsed, ObjectFacts DEF TreeInv
<1>5. viewer' = q
  BY <1>2
<1> HIDE DEF found
<1>6. /\ q \in Viewer /\ q.folder = c /\ q.folders \subseteq viewer.folders /\ q.objects = found
      /\ q.step = "browse" /\ q.info = viewer.info
  BY <1>1, <1>3, <1>4 DEF Viewer
<1> HIDE DEF q
<1>7. ViewerInv'
  BY <1>1, <1>4, <1>5, <1>6 DEF ViewerInv
<1>8. QED
  BY <1>5, <1>6, <1>7, ViewerStep DEF BrowseFolder

LEMMA BrowseObjectStep ==
    ASSUME CenterInv, BrowseObject
    PROVE  CenterInv'
<1>1. viewer \in Viewer /\ ViewerInv /\ viewer.step = "browse" /\ viewer.info = NoInfo
      /\ cache' = cache /\ monitored' = monitored
  BY DEF CenterInv, CenterTypeOK, BrowseObject, ViewerInv, watchVars
<1>2. PICK o \in viewer.objects :
        viewer' = IF IsNew(o) THEN [viewer EXCEPT !.step = "read", !.object = o]
                  ELSE [viewer EXCEPT !.objects = viewer.objects \ {o}]
  BY DEF BrowseObject
<1>3. PICK k \in Keys(viewer.folder) : IsObject(o, viewer.folder, k)
  BY <1>1 DEF ViewerInv
<1>4. o \in NodeIds
  BY <1>3, ObjectFacts
<1>5. CASE IsNew(o)
  <2> DEFINE q == [viewer EXCEPT !.step = "read", !.object = o]
  <2>1. viewer' = q
    BY <1>2, <1>5
  <2>2. /\ q \in Viewer /\ q.step = "read" /\ q.object = o /\ q.folder = viewer.folder
        /\ q.folders = viewer.folders /\ q.objects = viewer.objects /\ q.info = NoInfo
    BY <1>1, <1>4 DEF Viewer
  <2> HIDE DEF q
  <2>3. \A f \in Shown : NoInfo[f] \in TextsOf(k)
    BY DEF NoInfo, TextsOf
  <2>4. ViewerInv'
    <3>1. (viewer.step = "read" => ~Cached(viewer.object))'
      BY <1>1, <1>5, <2>1, <2>2 DEF IsNew, Cached
    <3>2. \E l \in Keys(viewer'.folder) :
             IsObject(viewer'.object, viewer'.folder, l) /\ \A f \in Shown : viewer'.info[f] \in TextsOf(l)
      BY <1>3, <2>1, <2>2, <2>3
    <3>3. /\ viewer'.folders \subseteq DeviceNames /\ viewer'.step = "read"
          /\ \A r \in viewer'.objects : \E l \in Keys(viewer'.folder) : IsObject(r, viewer'.folder, l)
      BY <1>1, <2>1, <2>2 DEF ViewerInv
    <3>4. QED
      BY <3>1, <3>2, <3>3 DEF ViewerInv
  <2>5. QED
    BY <2>1, <2>2, <2>4, ViewerStep DEF BrowseObject
<1>6. CASE ~IsNew(o)
  <2> DEFINE q == [viewer EXCEPT !.objects = viewer.objects \ {o}]
  <2>1. viewer' = q
    BY <1>2, <1>6
  <2>2. /\ q \in Viewer /\ q.step = "browse" /\ q.folder = viewer.folder /\ q.folders = viewer.folders
        /\ q.objects \subseteq viewer.objects /\ q.info = NoInfo
    BY <1>1 DEF Viewer
  <2> HIDE DEF q
  <2>3. ViewerInv'
    BY <1>1, <2>1, <2>2 DEF ViewerInv
  <2>4. QED
    BY <2>1, <2>2, <2>3, ViewerStep DEF BrowseObject
<1>7. QED
  BY <1>5, <1>6

LEMMA ReadNameStep ==
    ASSUME TreeInv, CenterInv, ReadName
    PROVE  CenterInv'
<1> DEFINE t == TextOf(viewer.object, "name")
           info == [viewer.info EXCEPT !["name"] = t]
           q == [viewer EXCEPT !.info = info, !.field = "hardware_type"]
<1>1. viewer \in Viewer /\ ViewerInv /\ viewer.step = "read" /\ cache' = cache /\ monitored' = monitored
  BY DEF CenterInv, CenterTypeOK, ReadName, watchVars
<1>2. PICK k \in Keys(viewer.folder) :
        IsObject(viewer.object, viewer.folder, k) /\ \A f \in Shown : viewer.info[f] \in TextsOf(k)
  BY <1>1 DEF ViewerInv
<1>3. viewer' = q
  BY DEF ReadName
<1>4. t \in TextsOf(k) /\ TextsOf(k) \subseteq Texts
  BY <1>2, ReadsOwn, ObjectFacts DEF Shown
<1> HIDE DEF t
<1>5. info \in [Shown -> Texts] /\ \A f \in Shown : info[f] \in TextsOf(k)
  BY <1>1, <1>2, <1>4 DEF Viewer
<1> HIDE DEF info
<1>6. /\ q \in Viewer /\ q.step = "read" /\ q.object = viewer.object /\ q.folder = viewer.folder
      /\ q.folders = viewer.folders /\ q.objects = viewer.objects /\ q.info = info
  BY <1>1, <1>5 DEF Viewer, Shown
<1> HIDE DEF q
<1>7. ViewerInv'
  <2>1. (viewer.step = "read" => ~Cached(viewer.object))'
    BY <1>1, <1>3, <1>6 DEF ViewerInv, Cached
  <2>2. \E l \in Keys(viewer'.folder) :
           IsObject(viewer'.object, viewer'.folder, l) /\ \A f \in Shown : viewer'.info[f] \in TextsOf(l)
    BY <1>2, <1>3, <1>5, <1>6
  <2>3. /\ viewer'.folders \subseteq DeviceNames /\ viewer'.step = "read"
        /\ \A r \in viewer'.objects : \E l \in Keys(viewer'.folder) : IsObject(r, viewer'.folder, l)
    BY <1>1, <1>3, <1>6 DEF ViewerInv
  <2>4. QED
    BY <2>1, <2>2, <2>3 DEF ViewerInv
<1>8. QED
  BY <1>3, <1>6, <1>7, ViewerStep DEF ReadName

LEMMA ReadTypeStep ==
    ASSUME TreeInv, CenterInv, ReadType
    PROVE  CenterInv'
<1> DEFINE o == viewer.object
           c == viewer.folder
           t == TextOf(o, "hardware_type")
           info == [viewer.info EXCEPT !["hardware_type"] = t]
           new == [object |-> o, client |-> c, info |-> info]
           q == [viewer EXCEPT !.step = "subscribe", !.field = "name", !.info = NoInfo]
<1>1. /\ viewer \in Viewer /\ ViewerInv /\ viewer.step = "read" /\ CacheInv /\ WatchInv /\ ~Cached(o)
      /\ monitored \in [ObjectIds -> Nat]
  BY DEF CenterInv, CenterTypeOK, ReadType, ViewerInv
<1>2. /\ monitored' = monitored /\ sampled' = sampled /\ report' = report
      /\ rows' = rows /\ dirty' = dirty /\ screen' = screen
      /\ viewer' = q /\ cache' = cache \cup {new}
  BY DEF ReadType, watchVars, gridVars
<1>3. PICK k \in Keys(c) : IsObject(o, c, k) /\ \A f \in Shown : viewer.info[f] \in TextsOf(k)
  BY <1>1 DEF ViewerInv
<1>4. /\ t \in TextsOf(k) /\ TextsOf(k) \subseteq Texts
      /\ o \in ObjectIds /\ c \in DeviceNames
  BY <1>3, ReadsOwn, ObjectFacts DEF Shown, IsObject
<1> HIDE DEF t
<1>5. info \in [Shown -> Texts] /\ \A f \in Shown : info[f] \in TextsOf(k)
  BY <1>1, <1>3, <1>4 DEF Viewer
<1> HIDE DEF info
<1>6. /\ q \in Viewer /\ q.step = "subscribe" /\ q.object = o /\ q.folder = c
      /\ q.folders = viewer.folders /\ q.objects = viewer.objects /\ q.info = NoInfo
  BY <1>1, NoInfoText DEF Viewer, Shown
<1>7. new \in [object : ObjectIds, client : DeviceNames, info : [Shown -> Texts]]
      /\ new.object = o /\ new.client = c /\ new.info = info
  BY <1>4, <1>5
<1> HIDE DEF q, new, o, c
<1>8. CenterTypeOK'
  BY <1>2, <1>6, <1>7 DEF CenterInv, CenterTypeOK
<1>9. CacheInv'
  <2>1. ASSUME NEW e \in cache'
        PROVE  \E l \in Keys(e.client) :
                 IsObject(e.object, e.client, l) /\ \A f \in Shown : e.info[f] \in TextsOf(l)
    <3>1. CASE e \in cache
      BY <1>1, <3>1 DEF CacheInv
    <3>2. CASE e = new
      BY <1>3, <1>5, <1>7, <3>2
    <3>3. QED
      BY <1>2, <2>1, <3>1, <3>2
  <2>2. \A e \in cache : e.object # o
    BY <1>1 DEF Cached
  <2>3. \A d, e \in cache' : d.object = e.object => d = e
    BY <1>1, <1>2, <1>7, <2>2 DEF CacheInv
  <2>4. QED
    BY <2>1, <2>3 DEF CacheInv
<1>10. (\E e \in cache' : e.object = o) /\ \A r : Cached(r) => Cached(r)'
  BY <1>2, <1>7 DEF Cached
<1>11. WatchInv'
  BY <1>1, <1>2, <1>10 DEF WatchInv
<1>12. ViewerInv'
  <2>1. monitored[o] = 0
    BY <1>1, <1>4 DEF WatchInv
  <2>2. \A f \in Shown : NoInfo[f] \in TextsOf(k)
    BY DEF NoInfo, TextsOf
  <2>3. \E l \in Keys(viewer'.folder) :
           IsObject(viewer'.object, viewer'.folder, l) /\ \A f \in Shown : viewer'.info[f] \in TextsOf(l)
    BY <1>2, <1>3, <1>6, <2>2
  <2>4. (viewer.step = "subscribe" => Cached(viewer.object) /\ monitored[viewer.object] = 0)'
    <3>1. viewer'.object = o
      BY <1>2, <1>6
    <3>2. Cached(viewer.object)'
      BY <1>10, <3>1 DEF Cached
    <3>3. QED
      BY <1>2, <2>1, <3>1, <3>2
  <2>5. /\ viewer'.folders \subseteq DeviceNames /\ viewer'.step = "subscribe" /\ viewer'.info = NoInfo
        /\ \A r \in viewer'.objects : \E l \in Keys(viewer'.folder) : IsObject(r, viewer'.folder, l)
    BY <1>1, <1>2, <1>6 DEF ViewerInv, c
  <2>6. QED
    BY <2>3, <2>4, <2>5 DEF ViewerInv
<1>13. ReportInv' /\ GridInv(rows)' /\ GridInv(screen)'
  BY <1>2 DEF CenterInv, ReportInv, GridInv
<1>14. QED
  BY <1>8, <1>9, <1>11, <1>12, <1>13 DEF CenterInv

\* The report of an object is what the server has of it.
LEMMA Reports ==
    ASSUME TreeInv, CenterInv, NEW o \in ObjectIds, Cached(o),
           sampled' = [sampled EXCEPT ![o] = values[SensorsOf(o)]],
           report' = [report EXCEPT ![o] = values[SensorsOf(o)]]
    PROVE  /\ ReportInv'
           /\ \A r \in ObjectIds : sampled'[r] \in {NoValue} \cup [device : AllDevices, reading : 1 .. MaxReadings]
           /\ \A r \in ObjectIds : report'[r] \in {Nothing, NoValue} \cup
                                                    [device : AllDevices, reading : 1 .. MaxReadings]
<1>1. PICK e \in cache : e.object = o
  BY DEF Cached
<1>2. PICK k \in Keys(e.client) : IsObject(o, e.client, k)
  BY <1>1 DEF CenterInv, CacheInv
<1>3. IsSensed(o, values[SensorsOf(o)])
  BY <1>2, ReadsOwn
<1>4. \A r \in ObjectIds : /\ sampled'[r] \in {sampled[r], values[SensorsOf(o)]}
                           /\ report'[r] \in {report[r], values[SensorsOf(o)]}
                           /\ r # o => sampled'[r] = sampled[r] /\ report'[r] = report[r]
  OBVIOUS
<1>5. ASSUME NEW r \in ObjectIds
      PROVE  IsSensed(r, sampled'[r]) /\ (report'[r] = Nothing \/ IsSensed(r, report'[r]))
  BY <1>3, <1>4 DEF CenterInv, ReportInv
<1>6. ReportInv'
  BY <1>5 DEF ReportInv, IsSensed, IsObject
<1>7. QED
  BY <1>5, <1>6, SensedType

LEMMA SubscribeStep ==
    ASSUME TreeInv, CenterInv, Subscribe
    PROVE  CenterInv'
<1> DEFINE o == viewer.object
           q == [viewer EXCEPT !.step = "browse", !.objects = viewer.objects \ {o}, !.object = NoNode]
<1>1. /\ viewer \in Viewer /\ ViewerInv /\ viewer.step = "subscribe" /\ viewer.info = NoInfo
      /\ Cached(o) /\ monitored[o] = 0 /\ monitored \in [ObjectIds -> Nat] /\ WatchInv
  BY DEF CenterInv, CenterTypeOK, Subscribe, ViewerInv
<1>2. /\ cache' = cache /\ rows' = rows /\ dirty' = dirty /\ screen' = screen /\ viewer' = q
      /\ monitored' = [monitored EXCEPT ![o] = monitored[o] + 1]
      /\ sampled' = [sampled EXCEPT ![o] = values[SensorsOf(o)]]
      /\ report' = [report EXCEPT ![o] = values[SensorsOf(o)]]
  BY DEF Subscribe, gridVars
<1>3. o \in ObjectIds
  BY <1>1, ObjectFacts DEF ViewerInv
<1>4. /\ q \in Viewer /\ q.step = "browse" /\ q.folder = viewer.folder /\ q.folders = viewer.folders
      /\ q.objects \subseteq viewer.objects /\ q.info = NoInfo
  BY <1>1 DEF Viewer
<1> HIDE DEF q, o
<1>5. /\ ReportInv'
      /\ \A r \in ObjectIds : sampled'[r] \in {NoValue} \cup [device : AllDevices, reading : 1 .. MaxReadings]
      /\ \A r \in ObjectIds : report'[r] \in {Nothing, NoValue} \cup
                                               [device : AllDevices, reading : 1 .. MaxReadings]
  BY <1>1, <1>2, <1>3, Reports
<1>6. monitored' \in [ObjectIds -> Nat]
  BY <1>1, <1>2, <1>3
<1>7. CenterTypeOK'
  BY <1>2, <1>4, <1>5, <1>6 DEF CenterInv, CenterTypeOK
<1>8. ViewerInv'
  BY <1>1, <1>2, <1>4 DEF ViewerInv
<1>9. \A r : Cached(r)' <=> Cached(r)
  BY <1>2 DEF Cached
<1>10. WatchInv'
  BY <1>1, <1>2, <1>3, <1>9 DEF WatchInv
<1>11. CacheInv' /\ GridInv(rows)' /\ GridInv(screen)'
  BY <1>2 DEF CenterInv, CacheInv, GridInv
<1>12. QED
  BY <1>5, <1>7, <1>8, <1>10, <1>11 DEF CenterInv

LEMMA SampleStep ==
    ASSUME TreeInv, CenterInv, NEW o \in ObjectIds, Sample(o)
    PROVE  CenterInv'
<1>1. /\ cache' = cache /\ rows' = rows /\ dirty' = dirty /\ screen' = screen /\ viewer' = viewer
      /\ monitored' = monitored
      /\ sampled' = [sampled EXCEPT ![o] = values[SensorsOf(o)]]
      /\ report' = [report EXCEPT ![o] = values[SensorsOf(o)]]
  BY DEF Sample, gridVars
<1>2. Cached(o)
  BY DEF Sample, CenterInv, WatchInv, CenterTypeOK
<1>3. /\ ReportInv'
      /\ \A r \in ObjectIds : sampled'[r] \in {NoValue} \cup [device : AllDevices, reading : 1 .. MaxReadings]
      /\ \A r \in ObjectIds : report'[r] \in {Nothing, NoValue} \cup
                                               [device : AllDevices, reading : 1 .. MaxReadings]
  BY <1>1, <1>2, Reports
<1>4. CenterTypeOK'
  BY <1>1, <1>3 DEF CenterInv, CenterTypeOK
<1>5. ViewerInv' /\ CacheInv' /\ WatchInv' /\ GridInv(rows)' /\ GridInv(screen)'
  BY <1>1 DEF CenterInv, ViewerInv, CacheInv, WatchInv, GridInv, Cached
<1>6. QED
  BY <1>3, <1>4, <1>5 DEF CenterInv

LEMMA HandleUpdateStep ==
    ASSUME CenterInv, NEW o \in ObjectIds, HandleUpdate(o)
    PROVE  CenterInv'
<1>1. /\ viewer' = viewer /\ cache' = cache /\ monitored' = monitored /\ sampled' = sampled
      /\ report' = [report EXCEPT ![o] = Nothing] /\ report[o] # Nothing
  BY DEF HandleUpdate
<1>2. ViewerInv' /\ CacheInv' /\ WatchInv'
  BY <1>1 DEF CenterInv, ViewerInv, CacheInv, WatchInv, Cached
<1>3. ReportInv'
  <2>1. \A r \in ObjectIds : report'[r] \in {Nothing, report[r]}
    BY <1>1
  <2>2. QED
    BY <1>1, <2>1 DEF CenterInv, ReportInv, IsSensed, IsObject
<1>4. \A r \in ObjectIds : report'[r] \in {Nothing, NoValue} \cup
                                            [device : AllDevices, reading : 1 .. MaxReadings]
  <2>1. \A r \in ObjectIds : report'[r] \in {Nothing, report[r]}
    BY <1>1
  <2>2. QED
    BY <2>1 DEF CenterInv, CenterTypeOK
<1>5. CASE UNCHANGED gridVars
  <2>1. rows' = rows /\ dirty' = dirty /\ screen' = screen
    BY <1>5 DEF gridVars
  <2>2. CenterTypeOK'
    BY <1>1, <1>4, <2>1 DEF CenterInv, CenterTypeOK
  <2>3. GridInv(rows)' /\ GridInv(screen)'
    BY <2>1 DEF CenterInv, GridInv
  <2>4. QED
    BY <1>2, <1>3, <2>2, <2>3 DEF CenterInv
<1>6. ASSUME NEW e \in cache, IsEntryOf(e, o),
             Upsert(e.client, TypeText(e.info["hardware_type"]),
                    [name |-> e.info["name"], sensors |-> report[o]])
      PROVE  CenterInv'
  <2> DEFINE text == TypeText(e.info["hardware_type"])
             key == <<e.client, text>>
             row == [name |-> e.info["name"], sensors |-> report[o]]
  <2>1. /\ rows' = [x \in DOMAIN rows \cup {key} |-> IF x = key THEN row ELSE rows[x]]
        /\ dirty' = TRUE /\ screen' = screen
    BY <1>6 DEF Upsert
  <2>2. PICK k \in Keys(e.client) :
          IsObject(e.object, e.client, k) /\ \A f \in Shown : e.info[f] \in TextsOf(k)
    BY <1>6 DEF CenterInv, CacheInv
  <2>3. e.object = o
    BY <1>6 DEF IsEntryOf
  <2>4. e.info["name"] \in TextsOf(k) /\ e.info["hardware_type"] \in TextsOf(k)
    BY <2>2 DEF Shown
  <2>5. /\ TextsOf(k) \subseteq Texts /\ e.client \in DeviceNames
        /\ HardwareType(k) \in {HardwareType(Name(d)) : d \in AllDevices}
        /\ SensorValues(e.client, k) \subseteq [device : AllDevices, reading : 1 .. MaxReadings]
    BY <2>2, ObjectFacts DEF IsObject
  <2>6. text \in {EmptyText, HardwareType(k)}
    BY <2>4 DEF TypeText, TextsOf
  <2>7. report[o] \in {NoValue} \cup SensorValues(e.client, k)
    <3>1. IsSensed(o, report[o])
      BY <1>1 DEF CenterInv, ReportInv
    <3>2. QED
      BY <2>2, <2>3, <3>1, SameObject DEF IsSensed
  <2>8. row.name = e.info["name"] /\ row.sensors = report[o] /\ key[1] = e.client /\ key[2] = text
    OBVIOUS
  <2>9. IsRowOf(row, e.client, text, k)
    BY <2>4, <2>6, <2>7 DEF IsRowOf
  <2>10. row \in Row
    BY <2>4, <2>5, <2>7 DEF Row
  <2>11. key \in DeviceNames \X ({EmptyText} \cup {HardwareType(Name(d)) : d \in AllDevices})
    BY <2>5, <2>6
  <2> HIDE DEF text, key, row
  <2>12. DOMAIN rows' = DOMAIN rows \cup {key}
         /\ \A x \in DOMAIN rows' : rows'[x] = IF x = key THEN row ELSE rows[x]
    BY <2>1
  <2>13. IsGrid(rows)'
    BY <2>10, <2>11, <2>12 DEF CenterInv, CenterTypeOK, IsGrid
  <2>14. GridInv(rows)'
    <3>1. ASSUME NEW x \in DOMAIN rows' PROVE \E l \in Keys(x[1]) : IsRowOf(rows'[x], x[1], x[2], l)
      <4>1. CASE x = key
        BY <2>8, <2>9, <2>12, <4>1
      <4>2. CASE x # key
        BY <2>12, <4>2 DEF CenterInv, GridInv
      <4>3. QED
        BY <4>1, <4>2
    <3>2. QED
      BY <3>1 DEF GridInv, IsRowOf
  <2>15. CenterTypeOK'
    BY <1>1, <1>4, <2>1, <2>13 DEF CenterInv, CenterTypeOK
  <2>16. GridInv(screen)'
    BY <2>1 DEF CenterInv, GridInv
  <2>17. QED
    BY <1>2, <1>3, <2>14, <2>15, <2>16 DEF CenterInv
<1>7. QED
  BY <1>5, <1>6 DEF HandleUpdate

LEMMA RenderStep ==
    ASSUME CenterInv, Render
    PROVE  CenterInv'
<1>1. /\ viewer' = viewer /\ cache' = cache /\ monitored' = monitored /\ sampled' = sampled
      /\ report' = report /\ rows' = rows /\ screen' = rows /\ dirty' = FALSE
  BY DEF Render, watchVars
<1>2. ViewerInv' /\ CacheInv' /\ WatchInv' /\ ReportInv'
  BY <1>1 DEF CenterInv, ViewerInv, CacheInv, WatchInv, ReportInv, Cached
<1>3. CenterTypeOK'
  BY <1>1 DEF CenterInv, CenterTypeOK
<1>4. GridInv(rows)' /\ GridInv(screen)'
  BY <1>1 DEF CenterInv, GridInv
<1>5. QED
  BY <1>2, <1>3, <1>4 DEF CenterInv

\* A control center that has not started, or has ended.
Nil ==
    /\ viewer = Off /\ cache = {} /\ monitored = [o \in ObjectIds |-> 0]
    /\ report = [o \in ObjectIds |-> Nothing] /\ sampled = [o \in ObjectIds |-> NoValue]
    /\ rows = NoRows /\ screen = NoRows /\ dirty = FALSE

LEMMA NilInv == Nil => CenterInv
<1> SUFFICES ASSUME Nil PROVE CenterInv
  OBVIOUS
<1>1. /\ Off.step = "off" /\ Off.folders = {} /\ Off.objects = {} /\ Off.info = NoInfo
  BY DEF Off
<1>2. ViewerInv
  BY <1>1 DEF ViewerInv, Nil
<1>3. CacheInv /\ WatchInv
  BY DEF CacheInv, WatchInv, Nil
<1>4. ReportInv
  BY DEF ReportInv, IsSensed, Nil
<1>5. DOMAIN NoRows = {}
  BY DEF NoRows
<1>6. IsGrid(rows) /\ IsGrid(screen) /\ GridInv(rows) /\ GridInv(screen)
  BY <1>5 DEF IsGrid, GridInv, Nil
<1>7. CenterTypeOK
  BY <1>6, NoInfoText DEF CenterTypeOK, Nil
<1>8. QED
  BY <1>2, <1>3, <1>4, <1>6, <1>7 DEF CenterInv

LEMMA CenterInitInv == InitCenter => CenterInv
  BY NilInv DEF InitCenter, Nil

LEMMA EndCenterStep == EndCenter => CenterInv'
<1>1. EndCenter => Nil'
  BY DEF EndCenter, Nil
<1>2. QED
  BY <1>1, NilInv, PTL

LEMMA CenterStutter ==
    ASSUME CenterInv, UNCHANGED centerVars
    PROVE  CenterInv'
<1>1. viewer' = viewer /\ UNCHANGED <<cache, watchVars, gridVars>>
  BY DEF centerVars, gridVars
<1>2. cache' = cache /\ monitored' = monitored
  BY <1>1 DEF watchVars
<1>3. viewer' \in Viewer /\ ViewerInv'
  BY <1>1, <1>2 DEF CenterInv, CenterTypeOK, ViewerInv, Cached
<1>4. QED
  BY <1>1, <1>3, ViewerStep

LEMMA CenterStepInv ==
    ASSUME TreeInv, CenterInv, CenterStep
    PROVE  CenterInv'
<1>1. CASE DiscoveryStep
  BY <1>1, DiscoverStep, BrowseFolderStep, BrowseObjectStep, ReadNameStep, ReadTypeStep, SubscribeStep
     DEF DiscoveryStep
<1>2. ASSUME NEW o \in ObjectIds, Sample(o) \/ HandleUpdate(o) PROVE CenterInv'
  BY <1>2, SampleStep, HandleUpdateStep
<1>3. QED
  BY <1>1, <1>2, StartCenterStep, RenderStep, EndCenterStep DEF CenterStep

LEMMA CenterNextInv ==
    ASSUME TreeInv, CenterInv, [CenterNext]_allVars
    PROVE  CenterInv'
<1>1. CASE UNCHANGED centerVars
  BY <1>1, CenterStutter
<1>2. CASE CenterStep
  BY <1>2, CenterStepInv
<1>3. CASE EndCenter
  BY <1>3, EndCenterStep
<1>4. UNCHANGED centerVars \/ CenterStep \/ EndCenter
  BY DEF CenterNext, allVars
<1>5. QED
  BY <1>1, <1>2, <1>3, <1>4

\* The control center only reads: to the server and the machines, whatever it
\* does is as if it did nothing (ControlCenterClient makes no node and writes
\* no value).
THEOREM CenterOnlyReads == CenterSpec => TreeSpec
<1>1. InitCenter => InitTree
  BY DEF InitCenter
<1>2. [CenterNext]_allVars => [TreeNext]_treeVars
  BY DEF CenterNext, allVars, TreeNext
<1>3. QED
  BY <1>1, <1>2, PTL DEF CenterSpec, TreeSpec

LEMMA CenterInvariant == CenterSpec => [](TreeInv /\ CenterInv)
<1>1. TreeInv /\ CenterInv /\ [CenterNext]_allVars => CenterInv'
  BY CenterNextInv
<1>2. CenterSpec => []TreeInv
  BY CenterOnlyReads, TreeInvariant, PTL
<1>3. QED
  BY <1>1, <1>2, CenterInitInv, PTL DEF CenterSpec

\* The variables of the control center keep their ranges.
THEOREM CenterTypeCorrect == CenterSpec => []CenterTypeOK
<1>1. CenterInv => CenterTypeOK
  BY DEF CenterInv
<1>2. QED
  BY <1>1, CenterInvariant, PTL

\* However often it is discovered, a device is in device_cache_ once and has
\* one monitored item (discoverAndSubscribe).
THEOREM DevicesWatchedOnce == CenterSpec => []WatchedOnce
<1>1. CenterInv => WatchedOnce
  BY DEF CenterInv, CacheInv, WatchInv, WatchedOnce
<1>2. QED
  BY <1>1, CenterInvariant, PTL

LEMMA CenterInvHeader ==
    ASSUME CenterInv
    PROVE  HeaderOfDevice
<1>1. SUFFICES ASSUME NEW key \in DOMAIN rows, rows[key].sensors # NoValue
               PROVE  LET d == rows[key].sensors.device IN
                      /\ d \in Devices(key[1])
                      /\ rows[key].name \in {EmptyText, Name(d)}
                      /\ key[2] \in {EmptyText, HardwareType(Name(d))}
  BY DEF HeaderOfDevice
<1>2. PICK k \in Keys(key[1]) : IsRowOf(rows[key], key[1], key[2], k)
  BY DEF CenterInv, GridInv
<1>3. rows[key].sensors \in SensorValues(key[1], k)
  BY <1>1, <1>2 DEF IsRowOf
<1>4. rows[key].sensors.device \in Devices(key[1]) /\ Name(rows[key].sensors.device) = k
  BY <1>3 DEF SensorValues
<1>5. QED
  BY <1>2, <1>4 DEF IsRowOf, TextsOf

\* Sensors are shown in their machine's column and under no other device's
\* name or type, whichever reports are late (handleSensorUpdate).
THEOREM HeadersRight == CenterSpec => []HeaderOfDevice
<1>1. CenterInv => HeaderOfDevice
  BY CenterInvHeader
<1>2. QED
  BY <1>1, CenterInvariant, PTL
==============================================================================
