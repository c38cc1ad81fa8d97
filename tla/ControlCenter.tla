---------------------------- MODULE ControlCenter ----------------------------
(***************************************************************************)
(* The control center on top of TelemetryTree's server: it discovers the   *)
(* devices of all machines call by call, keeps what it read about a device *)
(* when it discovered it, subscribes to the device's sensors, and puts     *)
(* what the data changes report into a grid, which it renders from time    *)
(* to time (ControlCenterClient.cpp, DisplayGrid.cpp, main.cpp).           *)
(*                                                                         *)
(* Everything runs on one thread, but the library calls handleSensorUpdate *)
(* whenever it reads from the network: in runIterate, and while a call of  *)
(* the discovery waits for its answer.                                     *)
(***************************************************************************)
EXTENDS TelemetryTree

CONSTANTS
    HardwareType(_),    \* the type that goes with a device's name
    Nothing             \* no report waits to be delivered

VARIABLES
    viewer,        \* where the control center is
    cache,         \* device_cache_
    monitored,     \* how many monitored items there are for an object's sensors
    sampled,       \* the value the server last saw for them
    report,        \* what it has not delivered yet: the queue has one place
    rows,          \* rows_: by client and device_key
    dirty,         \* dirty_
    screen         \* what renderIfDirty put on the terminal

watchVars == <<monitored, sampled, report>>
gridVars == <<rows, dirty, screen>>
centerVars == <<viewer, cache, watchVars, gridVars>>

EmptyText == <<>>
Texts == {EmptyText} \cup {Name(d) : d \in AllDevices}

\* What the string variable hardware_type says.
TypeText(text) == IF text = EmptyText THEN EmptyText ELSE HardwareType(text)

\* The strings that are shown: the vendor is read and never used.
Shown == {"name", "hardware_type"}

\* What is left to visit, and the device under way with what was read of it.
Viewer == [step : {"off", "browse", "read", "subscribe"},
           folders : SUBSET NodeIds, objects : SUBSET NodeIds, folder : NodeIds \cup {NoNode},
           object : NodeIds \cup {NoNode}, field : Shown, info : [Shown -> Texts]]

NoInfo == [f \in Shown |-> EmptyText]

Off == [step |-> "off", folders |-> {}, objects |-> {}, folder |-> NoNode,
        object |-> NoNode, field |-> "name", info |-> NoInfo]

ObjectIds == {snapshotObjectId(c, Name(d)) : c \in DeviceNames, d \in AllDevices} \cap NodeIds

SensorsOf(o) == o \o <<"sensors">>
Cached(o) == \E e \in cache : e.object = o
NoRows == [k \in {} |-> NoValue]

InitCenter ==
    /\ InitTree
    /\ viewer = Off
    /\ cache = {}
    /\ monitored = [o \in ObjectIds |-> 0]
    /\ sampled = [o \in ObjectIds |-> NoValue]
    /\ report = [o \in ObjectIds |-> Nothing]
    /\ rows = NoRows
    /\ dirty = FALSE
    /\ screen = NoRows

------------------------------------------------------------------------------
(* Discovery (discoverAndSubscribe), one call of the server at a time. *)

FoldersThere == {n.id : n \in {m \in nodes : m.parent = TelemetryClients}}

\* start: the control center connects and discovers at once.
StartCenter ==
    /\ viewer.step = "off"
    /\ viewer' = [Off EXCEPT !.step = "browse", !.folders = FoldersThere]
    /\ UNCHANGED <<cache, watchVars, gridVars>>

\* Between two discoveries.
Idle == viewer.step = "browse" /\ viewer.folders = {} /\ viewer.objects = {}

\* tick, when poll_interval has passed.
Discover ==
    /\ Idle
    /\ viewer' = [viewer EXCEPT !.folders = FoldersThere]
    /\ UNCHANGED <<cache, watchVars, gridVars>>

\* The next folder, once all objects of the last one were visited.
BrowseFolder ==
    /\ viewer.step = "browse" /\ viewer.objects = {}
    /\ \E f \in viewer.folders :
         viewer' = [viewer EXCEPT !.folder = f, !.folders = @ \ {f},
                        !.objects = {n.id : n \in {m \in nodes : m.parent = f}}]
    /\ UNCHANGED <<cache, watchVars, gridVars>>

\* Mutant: every discovery discovers every device.
AlwaysNew(o) == \E n \in nodes : n.id = SensorsOf(o)

\* A device is discovered once, and only when its sensors are there.
IsNew(o) == ~Cached(o) /\ \E n \in nodes : n.parent = o /\ n.name = <<"sensors">>

BrowseObject ==
    /\ viewer.step = "browse"
    /\ \E o \in viewer.objects :
         viewer' = IF IsNew(o)
                   THEN [viewer EXCEPT !.step = "read", !.object = o]
                   ELSE [viewer EXCEPT !.objects = @ \ {o}]
    /\ UNCHANGED <<cache, watchVars, gridVars>>

\* readStringNode: a variable that nobody wrote reads as empty.
TextOf(o, f) == IF values[o \o <<f>>] = NoValue THEN EmptyText ELSE values[o \o <<f>>]

\* readDeviceInfo, a read at a time; the last one completes the device_cache_ entry.
ReadName ==
    /\ viewer.step = "read" /\ viewer.field = "name"
    /\ viewer' = [viewer EXCEPT !.info["name"] = TextOf(viewer.object, "name"),
                               !.field = "hardware_type"]
    /\ UNCHANGED <<cache, watchVars, gridVars>>

ReadType ==
    /\ viewer.step = "read" /\ viewer.field = "hardware_type"
    /\ cache' = cache \cup {[object |-> viewer.object, client |-> viewer.folder,
                info |-> [viewer.info EXCEPT !["hardware_type"] =
                            TextOf(viewer.object, "hardware_type")]]}
    /\ viewer' = [viewer EXCEPT !.step = "subscribe", !.field = "name", !.info = NoInfo]
    /\ UNCHANGED <<watchVars, gridVars>>

\* subscribeDataChange: the first report is the value there is.
Subscribe ==
    /\ viewer.step = "subscribe"
    /\ LET o == viewer.object IN
         /\ monitored' = [monitored EXCEPT ![o] = @ + 1]
         /\ sampled' = [sampled EXCEPT ![o] = values[SensorsOf(o)]]
         /\ report' = [report EXCEPT ![o] = values[SensorsOf(o)]]
         /\ viewer' = [viewer EXCEPT !.step = "browse", !.objects = @ \ {o}, !.object = NoNode]
    /\ UNCHANGED <<cache, gridVars>>

------------------------------------------------------------------------------
(* Reports and the grid. *)

\* The server looks at the variable again; an undelivered report is replaced.
Sample(o) ==
    /\ monitored[o] > 0
    /\ sampled[o] # values[SensorsOf(o)]
    /\ sampled' = [sampled EXCEPT ![o] = values[SensorsOf(o)]]
    /\ report' = [report EXCEPT ![o] = values[SensorsOf(o)]]
    /\ UNCHANGED <<viewer, cache, monitored, gridVars>>

\* Mutant: dirty_ is not set when the row is there already.
UpsertQuietly(client, device_key, row) ==
    /\ rows' = [k \in DOMAIN rows \cup {<<client, device_key>>} |->
                  IF k = <<client, device_key>> THEN row ELSE rows[k]]
    /\ dirty' = (dirty \/ <<client, device_key>> \notin DOMAIN rows)
    /\ UNCHANGED screen

\* DisplayGrid::update, under its lock.
Upsert(client, device_key, row) ==
    /\ rows' = [k \in DOMAIN rows \cup {<<client, device_key>>} |->
                  IF k = <<client, device_key>> THEN row ELSE rows[k]]
    /\ dirty' = TRUE
    /\ UNCHANGED screen

\* Mutant: the callback knows the client, not the device.
IsEntryOfClient(e, o) == nodeIdBelongsToDevice(o, e.client)

\* The callback has captured the device's node id.
IsEntryOf(e, o) == e.object = o

\* handleSensorUpdate: a header made of the cached texts, and the sensors.
HandleUpdate(o) ==
    /\ viewer.step # "off"
    /\ report[o] # Nothing
    /\ report' = [report EXCEPT ![o] = Nothing]
    /\ \/ \E e \in cache :
            /\ IsEntryOf(e, o)
            /\ Upsert(e.client, TypeText(e.info["hardware_type"]),
                      [name |-> e.info["name"], sensors |-> report[o]])
       \/ ~Cached(o) /\ UNCHANGED gridVars
    /\ UNCHANGED <<viewer, cache, monitored, sampled>>

\* renderIfDirty, between two ticks.
Render ==
    /\ Idle
    /\ dirty
    /\ screen' = rows
    /\ dirty' = FALSE
    /\ UNCHANGED <<viewer, cache, watchVars, rows>>

\* SIGINT, or an exception that main does not catch: the subscription ends.
EndCenter ==
    /\ viewer.step # "off"
    /\ viewer' = Off
    /\ cache' = {}
    /\ monitored' = [o \in ObjectIds |-> 0]
    /\ report' = [o \in ObjectIds |-> Nothing]
    /\ sampled' = [o \in ObjectIds |-> NoValue]
    /\ rows' = NoRows /\ dirty' = FALSE /\ screen' = NoRows

------------------------------------------------------------------------------

DiscoveryStep ==
    Discover \/ BrowseFolder \/ BrowseObject \/ ReadName \/ ReadType \/ Subscribe

CenterStep ==
    \/ StartCenter \/ DiscoveryStep \/ Render \/ EndCenter
    \/ \E o \in ObjectIds : Sample(o) \/ HandleUpdate(o)

\* When the server restarts, the control center's next call throws.
CenterNext ==
    \/ CenterStep /\ UNCHANGED treeVars
    \/ (\E c \in DeviceNames : ClientStep(c)) /\ UNCHANGED centerVars
    \/ RestartServer /\ (IF viewer.step = "off" THEN UNCHANGED centerVars ELSE EndCenter)

allVars == <<treeVars, centerVars>>

CenterSpec == InitCenter /\ [][CenterNext]_allVars

\* The main loop goes on while it is not ended, and comes by renderIfDirty
\* between its discoveries; reports are made and delivered.
CenterFairness ==
    /\ WF_allVars(DiscoveryStep /\ UNCHANGED treeVars)
    /\ SF_allVars(Render /\ UNCHANGED treeVars)
    /\ \A o \in ObjectIds : /\ WF_allVars(Sample(o) /\ UNCHANGED treeVars)
                            /\ WF_allVars(HandleUpdate(o) /\ UNCHANGED treeVars)

CenterLiveSpec == CenterSpec /\ CenterFairness

------------------------------------------------------------------------------
(* Properties. *)

Row == [name : Texts, sensors : {NoValue} \cup [device : AllDevices, reading : 1 .. MaxReadings]]

IsGrid(grid) ==
    /\ DOMAIN grid \subseteq DeviceNames \X ({EmptyText} \cup {HardwareType(Name(d)) : d \in AllDevices})
    /\ \A k \in DOMAIN grid : grid[k] \in Row

CenterTypeOK ==
    /\ viewer \in Viewer
    /\ cache \subseteq [object : ObjectIds, client : DeviceNames, info : [Shown -> Texts]]
    /\ monitored \in [ObjectIds -> Nat]
    /\ \A o \in ObjectIds : sampled[o] \in {NoValue} \cup [device : AllDevices, reading : 1 .. MaxReadings]
    /\ \A o \in ObjectIds : report[o] \in {Nothing, NoValue} \cup
                                [device : AllDevices, reading : 1 .. MaxReadings]
    /\ IsGrid(rows) /\ IsGrid(screen)
    /\ dirty \in BOOLEAN

\* However often it is discovered, a device is kept and watched once, and
\* what is reported of it finds the device in the cache.
WatchedOnce ==
    \A o \in ObjectIds :
        /\ monitored[o] <= 1
        /\ monitored[o] = 1 => Cached(o)
        /\ \A d, e \in cache : d.object = o /\ e.object = o => d = e

\* Sensors are shown in the column of their machine and never under another
\* device's name or type; the name and the type may be missing.
HeaderOfDevice ==
    \A k \in DOMAIN rows : rows[k].sensors # NoValue =>
        LET d == rows[k].sensors.device IN
        /\ d \in Devices(k[1])
        /\ rows[k].name \in {EmptyText, Name(d)}
        /\ k[2] \in {EmptyText, HardwareType(Name(d))}

RowKey(e) == <<e.client, TypeText(e.info["hardware_type"])>>

\* No other device that is watched has the row of the device with object o.
HasOwnRow(o) ==
    \A d, e \in cache : d.object = o /\ RowKey(d) = RowKey(e) => d = e

\* What the server has of a device for good is shown in the end, if the
\* control center stays and the device does not share its row.
UpdatesShown ==
    \A c \in DeviceNames : \A d \in Devices(c) : \A n \in 1 .. MaxReadings :
        LET reading == [device |-> d, reading |-> n]
            o == snapshotObjectId(c, Name(d))
        IN
        <>[](viewer.step # "off" /\ values[SensorsOf(o)] = reading /\ HasOwnRow(o))
          => <>(\E k \in DOMAIN screen : k[1] = c /\ screen[k].sensors = reading)
==============================================================================
