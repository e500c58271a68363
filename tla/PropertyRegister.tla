--------------------------- MODULE PropertyRegister ---------------------------
(***************************************************************************)
(* The register of the property adapters of a camera                       *)
(* (core/source/properties/properties.cpp, propertyadapterbase.cpp and the *)
(* creation of adapters in wtc640/source/propertieswtc640.cpp): which      *)
(* adapters exist, which addresses each of them has per device type, what  *)
(* can be done with each of them now, and which values are known.          *)
(*                                                                         *)
(* Adapters are created once, except those of the presets, whose addresses *)
(* the camera reports at each connection.  The status of an adapter        *)
(* depends on the device type and for some on the value of another         *)
(* property, its source.  Reads of properties and writes past them run in  *)
(* threads; each accesses the device first and stores its result later,    *)
(* and tasks with an address in common exclude each other                  *)
(* (TaskManagerQueued).  Writes of properties are in PropertyAdapters.     *)
(***************************************************************************)
EXTENDS MemorySpaceWtc640

CONSTANTS
    Row,             \* what createAdapters knows of each property
    Static, Presets, \* properties in the order of their creation
    NoSource,        \* a status without constraint
    None,            \* no value
    Answers,         \* what a read of a property may return
    Touched,         \* bound: the properties the program asks for
    WildRanges,      \* bound: the AddressRanges it writes past the properties
    PresetAddresses, \* bound: addresses the camera reports for each of Presets
    MaxTouches, MaxWrites, MaxConnections  \* bounds

DeviceTypes == {"loader", "main"}
Access == {"read", "write"}
Property == DOMAIN Row

\* The data of the code.  The ranges of two static properties that one device type
\* has are apart from each other.  The range of a preset is only a size, and the
\* loader has no presets.
ASSUME TableAssumption ==
    /\ Static \in Seq(Property) \ {<<>>} /\ Presets \in Seq(Property)
    /\ \A i, j \in DOMAIN Static : i # j => Static[i] # Static[j]
    /\ \A i, j \in DOMAIN Presets : i # j => Presets[i] # Presets[j]
    /\ \A i \in DOMAIN Static, j \in DOMAIN Presets : Static[i] # Presets[j]
    /\ \A p \in Property :
         /\ Row[p].access \in [DeviceTypes -> SUBSET Access]
         /\ Row[p].source \in Property \cup {NoSource}
         /\ DOMAIN Row[p].limit = {None} \cup UNION { Answers[q] : q \in Property }
    /\ \A i \in DOMAIN Static : LET p == Static[i] IN
         /\ IsAddressRanges(Row[p].ranges)
         /\ \A j \in DOMAIN Static \ {i}, t \in DeviceTypes :
              Row[p].access[t] # {} /\ Row[Static[j]].access[t] # {} =>
                \A r \in ToSet(Row[p].ranges), s \in ToSet(Row[Static[j]].ranges) : ~Overlap(r, s)
    /\ \A j \in DOMAIN Presets :
         /\ Row[Presets[j]].size \in Nat
         /\ Row[Presets[j]].access["loader"] = {}
         /\ PresetAddresses[j] \subseteq Addresses
    /\ \A w \in WildRanges : IsAddressRanges(w)

VARIABLES
    phase,       \* "creating", "open", or "connecting" in a state transaction
    next,        \* index of the adapter that is added next
    type,        \* m_currentDeviceType
    newType,     \* the device type of the state transaction
    ranges,      \* m_propertyAdapters, each with its getAddressRanges
    maps,        \* m_adapterAddressRangeMaps
    status,      \* m_status of each adapter
    value,       \* PropertyValues
    tasks,       \* tasks that wait or have a thread
    overwritten, \* history: values from before a write past their property
    counts       \* bounds

registerVars == <<ranges, maps>>
valueVars == <<status, value, overwritten>>
vars == <<phase, next, type, newType, ranges, maps, status, value, tasks, overwritten, counts>>

Registered == DOMAIN ranges

\* isActiveForDeviceType; no type has no access.
StatusForDevice(p, t) == IF t \in DeviceTypes THEN Row[p].access[t] ELSE {}

\* m_getStatusConstraintByValuesFunction
Constraint(p, values) ==
    IF Row[p].source = NoSource THEN Access ELSE Row[p].limit[values[Row[p].source]]

\* updateStatusValueChanged: both have to allow it.
StatusByValues(p, t, values) == StatusForDevice(p, t) \cap Constraint(p, values)

Readable(p) == "read" \in status[p]

HaveCommonAddress(these, others) ==
    \E r \in ToSet(these), s \in ToSet(others) : Overlap(r, s)

Read(p)  == [of |-> p, ranges |-> ranges[p], stage |-> "waiting", answer |-> None, old |-> FALSE]
Write(w) == [of |-> NoSource, ranges |-> w, stage |-> "waiting", answer |-> None, old |-> FALSE]
IsRead(t) == t.of # NoSource

\* addReadTask: ignored while a read of the same addresses waits or runs.
WithReads(old, properties) ==
    old \cup { Read(p) : p \in { q \in properties :
        \A t \in old : IsRead(t) => ~RangesContain(t.ranges, ranges[q]) } }

\* getStatus touches what the status depends on; touch reads what has no value.
SourcesOf(p) == { Row[p].source } \ {NoSource}
ToRead(properties) == { p \in properties : Readable(p) /\ value[p] = None }

Init ==
    /\ phase = "creating"
    /\ next = 1
    /\ type = "none"
    /\ newType = "none"
    /\ ranges = [p \in {} |-> <<>>]
    /\ maps = [t \in DeviceTypes |-> EmptyMap]
    /\ status = [p \in Property |-> {}]
    /\ value = [p \in Property |-> None]
    /\ tasks = {}
    /\ overwritten = {}
    /\ counts = [touches |-> 0, writes |-> 0, connections |-> 0]

-----------------------------------------------------------------------------
(* The register.                                                           *)

\* addValueAdapter, mapAdapterAddressRanges
AddValueAdapter(p, itsRanges) ==
    /\ ranges' = [q \in Registered \cup {p} |-> IF q = p THEN itsRanges ELSE ranges[q]]
    /\ maps' = [t \in DeviceTypes |->
                  IF Row[p].access[t] # {} /\ itsRanges # <<>>
                  THEN AddRanges(maps[t], ToSet(itsRanges), p) ELSE maps[t]]

RemoveDynamicPresetAdapters ==
    /\ ranges' = [p \in Registered \ ToSet(Presets) |-> ranges[p]]
    /\ maps' = [t \in DeviceTypes |-> RemoveRanges(maps[t], ToSet(Presets))]

\* One call of createAdapters.
CreateAdapter ==
    /\ phase = "creating"
    /\ AddValueAdapter(Static[next], Row[Static[next]].ranges)
    /\ next' = next + 1
    /\ phase' = IF next = Len(Static) THEN "open" ELSE phase
    /\ UNCHANGED <<type, newType, status, value, tasks, overwritten, counts>>

\* ConnectionStateTransactionData with setDataLinkInterface up to the test of the
\* device, which finds the type t: tasks that wait are dropped and those that run
\* are waited for; without a type nothing can be read.
BeginConnection(t) ==
    /\ phase = "open"
    /\ counts.connections < MaxConnections
    /\ \A task \in tasks : task.stage = "waiting"
    /\ phase' = "connecting"
    /\ newType' = t
    /\ type' = "none"
    /\ tasks' = {}
    /\ status' = [p \in Property |-> {}]
    /\ value' = [p \in Property |-> None]
    /\ overwritten' = {}
    /\ RemoveDynamicPresetAdapters
    /\ next' = 1
    /\ counts' = [counts EXCEPT !.connections = @ + 1]

\* Fault: adapters in conflict are accepted.
PresetRangeOk_NoConflict(range) ==
    \E d \in MemoryDescriptors(newType, range) : d.type = "FLASH"

\* checkPresetAdapterAddressRange
PresetRangeOk(range) ==
    /\ \E d \in MemoryDescriptors(newType, range) : d.type = "FLASH"
    /\ GetOverlap(maps["main"], {range}) = {}

\* addPresetAdapter for an attribute at the reported address; with one that is
\* refused all adapters of presets go.
AddPresetAdapter(address) ==
    /\ phase = "connecting"
    /\ newType = "main"
    /\ next \in DOMAIN Presets
    /\ address \in PresetAddresses[next]
    /\ LET p == Presets[next]
           range == FirstAndSize(address, Row[p].size)
       IN  IF PresetRangeOk(range)
           THEN AddValueAdapter(p, <<range>>) /\ next' = next + 1
           ELSE RemoveDynamicPresetAdapters /\ next' = Len(Presets) + 1
    /\ UNCHANGED <<phase, type, newType, status, value, tasks, overwritten, counts>>

\* The camera has no presets, or does not answer.
PresetTableError ==
    /\ phase = "connecting"
    /\ newType = "main"
    /\ next \in DOMAIN Presets
    /\ RemoveDynamicPresetAdapters
    /\ next' = Len(Presets) + 1
    /\ UNCHANGED <<phase, type, newType, status, value, tasks, overwritten, counts>>

\* ~ConnectionStateTransactionData: setCurrentDeviceType updates every status.
Connected ==
    /\ phase = "connecting"
    /\ newType = "main" => next \notin DOMAIN Presets
    /\ phase' = "open"
    /\ type' = newType
    /\ status' = [p \in Property |-> IF p \in Registered THEN StatusByValues(p, newType, value) ELSE {}]
    /\ UNCHANGED <<next, newType, ranges, maps, value, tasks, overwritten, counts>>

-----------------------------------------------------------------------------
(* Values.                                                                 *)

\* Values are set; adapters with a source among the changed properties take a new
\* status, and lose their value when that is not readable any more.
SetValues(values, changed, old) ==
    /\ status' = [p \in Property |->
                    IF p \in Registered /\ Row[p].source \in changed
                    THEN StatusByValues(p, type, values) ELSE status[p]]
    /\ value' = [p \in Property |->
                   IF status'[p] # status[p] /\ "read" \notin status'[p] THEN None ELSE values[p]]
    /\ overwritten' = { p \in old : value'[p] # None }

\* touch of a transaction
Touch(p) ==
    /\ phase = "open"
    /\ counts.touches < MaxTouches
    /\ p \in Touched \cap Registered
    /\ tasks' = WithReads(tasks, ToRead({p} \cup SourcesOf(p)))
    /\ counts' = [counts EXCEPT !.touches = @ + 1]
    /\ UNCHANGED <<phase, next, type, newType, registerVars, valueVars>>

\* A task that is told only what it writes.
WriteData(w) ==
    /\ phase = "open"
    /\ counts.writes < MaxWrites
    /\ w \in WildRanges
    /\ tasks' = tasks \cup {Write(w)}
    /\ counts' = [counts EXCEPT !.writes = @ + 1]
    /\ UNCHANGED <<phase, next, type, newType, registerVars, valueVars>>

Moving(t, u) == (tasks \ {t}) \cup {u}

\* A task gets a thread when none that has one overlaps it.
Start(t) ==
    /\ phase = "open"
    /\ t \in tasks
    /\ t.stage = "waiting"
    /\ \A u \in tasks : u.stage = "waiting" \/ ~RangesOverlap(t.ranges, u.ranges)
    /\ tasks' = Moving(t, [t EXCEPT !.stage = "running"])
    /\ UNCHANGED <<phase, next, type, newType, registerVars, valueVars, counts>>

\* The reader of the adapter.
AccessRead(t) ==
    /\ t \in tasks
    /\ t.stage = "running"
    /\ IsRead(t)
    /\ \E answer \in Answers[t.of] :
         tasks' = Moving(t, [t EXCEPT !.stage = "accessed", !.answer = answer])
    /\ UNCHANGED <<phase, next, type, newType, registerVars, valueVars, counts>>

\* The write past the properties: what is known of them, and what was just read,
\* is from before it.  (Its future is ready here already, before the values are forgotten at
\* the end of the task: a caller that waits for no more than the future may see the old ones.)
AccessWrite(t) ==
    /\ t \in tasks
    /\ t.stage = "running"
    /\ ~IsRead(t)
    /\ tasks' = { IF u = t THEN [t EXCEPT !.stage = "accessed"]
                  ELSE [u EXCEPT !.old = @ \/ (u.stage = "accessed" /\ IsRead(u)
                                                 /\ HaveCommonAddress(u.ranges, t.ranges))]
                  : u \in tasks }
    /\ overwritten' = overwritten \cup
         { p \in Registered : value[p] # None /\ HaveCommonAddress(ranges[p], t.ranges) }
    /\ UNCHANGED <<phase, next, type, newType, registerVars, status, value, counts>>

\* Fault: the answer is stored although the property is not readable any more.
UpdateValueAfterRead_Always(t) ==
    /\ t \in tasks
    /\ t.stage = "accessed"
    /\ IsRead(t)
    /\ tasks' = WithReads(tasks \ {t}, ToRead(SourcesOf(t.of)))
    /\ SetValues([value EXCEPT ![t.of] = t.answer], {t.of},
                 IF t.old THEN overwritten \cup {t.of} ELSE overwritten \ {t.of})
    /\ UNCHANGED <<phase, next, type, newType, registerVars, counts>>

\* The end of a read.
UpdateValueAfterRead(t) ==
    /\ t \in tasks
    /\ t.stage = "accessed"
    /\ IsRead(t)
    /\ tasks' = WithReads(tasks \ {t}, ToRead(SourcesOf(t.of)))
    /\ IF Readable(t.of)
       THEN SetValues([value EXCEPT ![t.of] = t.answer], {t.of},
                      IF t.old THEN overwritten \cup {t.of} ELSE overwritten \ {t.of})
       ELSE UNCHANGED valueVars
    /\ UNCHANGED <<phase, next, type, newType, registerVars, counts>>

\* The end of a write past the properties: those of the current type that it
\* overlaps lose their values.
InvalidateProperties(t) ==
    /\ t \in tasks
    /\ t.stage = "accessed"
    /\ ~IsRead(t)
    /\ tasks' = tasks \ {t}
    /\ LET invalid == IF type \in DeviceTypes THEN GetOverlap(maps[type], ToSet(t.ranges)) ELSE {}
       IN  SetValues([p \in Property |-> IF p \in invalid THEN None ELSE value[p]],
                     invalid, overwritten)
    /\ UNCHANGED <<phase, next, type, newType, registerVars, counts>>

RunStep ==
    \E t \in tasks : \/ Start(t) \/ AccessRead(t) \/ AccessWrite(t)
                     \/ UpdateValueAfterRead(t) \/ InvalidateProperties(t)

Next ==
    \/ CreateAdapter
    \/ \E t \in Types : BeginConnection(t)
    \/ \E i \in DOMAIN Presets : \E address \in PresetAddresses[i] : AddPresetAdapter(address)
    \/ PresetTableError
    \/ Connected
    \/ \E p \in Touched : Touch(p)
    \/ \E w \in WildRanges : WriteData(w)
    \/ RunStep

Spec == Init /\ [][Next]_vars

-----------------------------------------------------------------------------
(* Properties.                                                             *)

\* The VERIFYs of mapAdapterAddressRanges hold: whatever addresses a camera
\* reports for its presets, every adapter that exists is found over each of its
\* addresses for every device type that has it, and a map finds nothing else.
RegisteredIsMapped ==
    \A t \in DeviceTypes :
      /\ \A p \in Registered : Row[p].access[t] # {} =>
           \A r \in ToSet(ranges[p]) : r \in DOMAIN maps[t] /\ maps[t][r] = p
      /\ \A r \in DOMAIN maps[t] :
           /\ maps[t][r] \in Registered
           /\ Row[maps[t][r]].access[t] # {}
           /\ r \in ToSet(ranges[maps[t][r]])

\* The device interface accepts the addresses of what can be read: the camera
\* that is connected has each range of a readable property in one piece of memory.
ReadableIsAddressable ==
    \A p \in Registered : Readable(p) =>
      \A r \in ToSet(ranges[p]) : MemoryDescriptors(type, r) # {}

\* The assertion of PropertyAdapterValue::touch: a property that cannot be read
\* has no value, although answers arrive after its source has changed and after
\* the camera has gone.
UnreadableHasNoValue == \A p \in Property : ~Readable(p) => value[p] = None

\* A value from before a write past its property is forgotten: as long as it is
\* kept the task of the write is not finished, and no task has both seen the write end and
\* read the old value.
ForgetsOverwritten ==
    \A p \in overwritten :
      \E t \in tasks : /\ ~IsRead(t)
                       /\ t.stage = "accessed"
                       /\ HaveCommonAddress(t.ranges, ranges[p])

=============================================================================
