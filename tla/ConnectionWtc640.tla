-------------------------- MODULE ConnectionWtc640 --------------------------
(***************************************************************************)
(* The connection of PropertiesWtc640 (wtc640/source/propertieswtc640.cpp):*)
(* connecting over a serial port or eBUS, disconnecting, the change of the *)
(* baudrate, the resets with the reconnection that follows them, the       *)
(* update of the firmware, the adapters that exist only while a camera is  *)
(* connected, and the signal connectionLost.                               *)
(*                                                                         *)
(* One operation runs at a time: each holds a connection state or a        *)
(* connection exclusive transaction from its beginning to its end.  Beside *)
(* it the camera resets, is unplugged and plugged in, the user cancels,    *)
(* and a thread whose transaction has ended evaluates onTransactionFinished*)
(* outside every mutex.                                                    *)
(***************************************************************************)
EXTENDS Naturals, Sequences, FiniteSets, ProgressController

CONSTANTS
    BaudOrder,   \* the baudrates in the order in which they are tried
    PartsCount,  \* parts of a firmware (FirmwareWtc640::getUpdateData)
    Attempts,    \* attemptsCount of reconnectCoreAfterReset
    PresetsCount,\* presets a camera reports
    AttrCounts,  \* the counts of preset attributes cameras report
    Operations,  \* the operations the user calls
    MaxOps,      \* bound: operations started
    MaxFaults    \* bound: faults of the camera and of the cable

ASSUME ConnectionAssumption ==
    /\ BaudOrder \in Seq(Nat \ {0}) /\ BaudOrder # <<>>
    /\ PartsCount \in Nat \ {0} /\ Attempts \in Nat \ {0}
    /\ PresetsCount \in Nat /\ AttrCounts \subseteq Nat \ {0} /\ AttrCounts # {}
    /\ MaxOps \in Nat /\ MaxFaults \in Nat

VARIABLES
    core,       \* the camera: mode, baudrate, a reset to come, flash
    plugged,    \* the cable is plugged in
    link,       \* m_dataLinkInterface
    lost,       \* isConnectionLost() of the protocol or of the data link
    sent,       \* m_connectionLostSent
    type,       \* the current device type
    space,      \* the device type whose memory space the device interface has
    last,       \* m_lastConnectedUartPort, m_lastConnectedEbusDevice
    usb,        \* the dynamic (not the dummy) USB adapters are registered
    presetIds,  \* m_presetAttributeIds: per preset, the count of known attributes
    adapters,   \* <<preset, attribute>> with a registered adapter
    lens,       \* presets whose id adapter the lens range adapters hold
    thrown,     \* history: an exception has left the adapters of this link incomplete
    op,         \* the operation: name, trigger, baudrate to restore, stage, attempts, part
    pc,         \* where the operation is
    cand,       \* the ports and baudrates still to be tried
    progress,   \* the progress sequence
    outcome,    \* how the last operation ended, while no other has begun
    finishing,  \* what a thread with an ended transaction has still to do
    signals,    \* history: connectionLost on this link was "none", "found" (a refresh has found
                \* another camera, and signals next), "own" (signalled for this link), "late"
                \* (signalled while this link was not lost, by a thread that looked at an earlier one)
    asked,      \* what updateFirmware read of the connection before it begins
    ops, faults \* bounds

cameraVars   == <<core, plugged, faults>>
adapterVars  == <<usb, presetIds, adapters, lens, thrown>>
linkVars     == <<link, lost, sent, type, space, signals>>
controlVars  == <<op, pc, cand, outcome, ops, asked>>
vars == <<cameraVars, adapterVars, linkVars, last, controlVars, progress, finishing>>

Bauds == { BaudOrder[i] : i \in DOMAIN BaudOrder }
Types == {"none", "main", "loader"}
NoLink == [kind |-> "none", baud |-> 0]
Uart(b) == [kind |-> "uart", baud |-> b]
Ebus == [kind |-> "ebus", baud |-> 0]
Links == {NoLink, Ebus} \cup { Uart(b) : b \in Bauds }

\* A trigger and the device types that accept it; "none" is not connected.
AllowedTypes(trigger) ==
    CASE trigger \in {"STAY_IN_LOADER", "RESET_FROM_LOADER"}         -> {"loader"}
      [] trigger \in {"SOFTWARE_RESET", "RESET_TO_FACTORY_DEFAULT"} -> {"main"}
      [] trigger = "RESET_TO_LOADER"                                 -> {"main", "loader"}

\* What the camera does on a trigger; a loader without a usable main
\* firmware stays the loader.
ModeAfter(trigger) ==
    IF trigger \in {"RESET_TO_LOADER", "STAY_IN_LOADER"} THEN {"loader"} ELSE {"main", "loader"}

NotAsked == [old |-> 0, type |-> "not asked"]

NoOp == [name |-> "none", trigger |-> "none", old |-> 0, stage |-> "none", tries |-> 0, part |-> 0]

Init ==
    /\ core \in [mode : {"main", "loader"}, baud : Bauds, reset : {"none"},
                 flash : {[p \in 1..PartsCount |-> "old"]}]
    /\ plugged = TRUE /\ faults = 0
    /\ link = NoLink /\ lost = FALSE /\ sent = FALSE /\ signals = "none"
    /\ type = "none" /\ space = "none" /\ last = "none"
    /\ usb = FALSE /\ presetIds = <<>> /\ adapters = {} /\ lens = {}
    /\ thrown = FALSE
    /\ op = NoOp /\ pc = "idle" /\ cand = <<>> /\ outcome = "none"
    /\ ops = 0 /\ asked = NotAsked /\ progress = NoProgress /\ finishing = <<>>

-----------------------------------------------------------------------------
(* Access to the camera.                                                   *)

Reachable ==
    /\ plugged /\ link # NoLink
    /\ link.kind = "uart" => link.baud = core.baud

\* An access that succeeds, and one that fails: the camera is out of reach or
\* a fault hits it.  The failure may be the one that the protocol or the data
\* link takes for the loss of the connection.
Answered == Reachable /\ UNCHANGED <<lost, faults>>

FaultHappens == faults < MaxFaults /\ faults' = faults + 1

\* It fails as it must, or by a fault.
Fails(possible) == IF possible THEN FaultHappens ELSE UNCHANGED faults

NotAnswered ==
    /\ Fails(Reachable)
    /\ lost' \in {lost, TRUE}

-----------------------------------------------------------------------------
(* The data link and the adapters that depend on it.                       *)

\* Fault: the lens range adapters are not told.
RemoveDynamicPresetAdapters_KeepsLens == lens' = lens /\ adapters' = {}

\* removeDynamicPresetAdapters; what was learned of the attributes stays.
RemoveDynamicPresetAdapters ==
    lens' = {} /\ adapters' = {}

\* Fault: the flag of the previous connection stays.
SetDataLinkInterface_KeepsSent(newLink) ==
    /\ link' = newLink
    /\ type' = "none" /\ space' = "none"
    /\ lost' = FALSE /\ sent' = sent /\ signals' = "none"
    /\ usb' = FALSE /\ thrown' = FALSE
    /\ RemoveDynamicPresetAdapters
    /\ UNCHANGED presetIds

\* The first half of setDataLinkInterface: everything of the old connection
\* is dropped, and a link is taken into use.
SetDataLinkInterface(newLink) ==
    /\ link' = newLink
    /\ type' = "none" /\ space' = "none"
    /\ lost' = FALSE /\ sent' = FALSE /\ signals' = "none"
    /\ usb' = FALSE /\ thrown' = FALSE
    /\ RemoveDynamicPresetAdapters
    /\ UNCHANGED presetIds

\* The table of presets is read preset by preset; errorAt is where the camera
\* does not answer: 0 is the read of the counts, PresetsCount + 1 is nowhere.
NoError == PresetsCount + 1
ReadUpTo(errorAt) == IF errorAt = NoError THEN PresetsCount ELSE errorAt

\* m_presetAttributeIds is filled once per preset index and never again; attrs is
\* attributesCount, which another camera or another firmware may change.
KnownIds(upTo, attrs) ==
    presetIds \o [ i \in 1..(IF upTo > Len(presetIds) THEN upTo - Len(presetIds) ELSE 0) |-> attrs ]

\* The presets of which the camera has an attribute that the code does not
\* know and looks up with map::at: std::out_of_range.
UnknownPresets(errorAt, attrs) ==
    { i \in 1..ReadUpTo(errorAt) : i # errorAt /\ attrs > KnownIds(ReadUpTo(errorAt), attrs)[i] }

\* One adapter per preset and attribute, over the address the camera reports.
PresetAdapters(upTo, attrs) == (1..upTo) \X (1..attrs)

AddDynamicPresetAdapters(errorAt, attrs) ==
    LET ids == KnownIds(ReadUpTo(errorAt), attrs)
        unknown == UnknownPresets(errorAt, attrs)
    IN  \/ /\ unknown = {}
           /\ presetIds' = ids
           /\ IF errorAt = NoError
              THEN /\ adapters' = PresetAdapters(PresetsCount, attrs)
                   /\ lens' = 1..PresetsCount
              ELSE RemoveDynamicPresetAdapters
        \/ \E first \in unknown :
              /\ \A i \in unknown : first <= i
              /\ presetIds' = KnownIds(first, attrs)
              /\ adapters' = { a \in PresetAdapters(first, attrs) : a[2] <= ids[a[1]] }
              /\ lens' = {}

\* The second half of setDataLinkInterface, when testDeviceType succeeded.
DeviceTested(errorAt, attrs) ==
    /\ type' = core.mode /\ space' = core.mode
    /\ usb' = TRUE
    /\ thrown' = (core.mode = "main" /\ UnknownPresets(errorAt, attrs) # {})
    /\ IF core.mode = "main"
       THEN AddDynamicPresetAdapters(errorAt, attrs)
       ELSE UNCHANGED <<presetIds, adapters, lens>>
    /\ UNCHANGED <<link, sent, signals>>

-----------------------------------------------------------------------------
(* The end of an operation, and the ways it goes on.                       *)

Finish(result) ==
    /\ op' = NoOp /\ pc' = "idle" /\ cand' = <<>>
    /\ outcome' = result

Goto(where) == pc' = where /\ outcome' = "none"

\* Everything reconnectCore tries.
ReconnectCandidates ==
    IF last = "uart" THEN [ i \in DOMAIN BaudOrder |-> Uart(BaudOrder[i]) ]
    ELSE IF last = "ebus" THEN <<Ebus>> ELSE <<>>

\* resetCoreImpl returns: the operation ends, or the update goes on.  (Nothing sets
\* m_oldLoaderUpdateInProgress, which would skip the stage "stay".)
ResetReturns(result, typeNow) ==
    IF op.name # "update" \/ op.stage = "fromLoader" THEN Finish(result)
    ELSE IF op.stage = "toLoader"
    THEN IF result = "ok"
         THEN /\ op' = [op EXCEPT !.stage = "stay", !.trigger = "STAY_IN_LOADER", !.tries = 0]
              /\ cand' = <<>> /\ Goto("trigger")
         ELSE Finish("error")
    ELSE IF op.stage = "stay"                \* its error is only reported
    THEN IF typeNow = "loader"
         THEN /\ op' = [op EXCEPT !.stage = "parts", !.part = 1, !.tries = 0]
              /\ cand' = <<>> /\ Goto("write")
         ELSE Finish("error")
    ELSE /\ op' = [op EXCEPT !.stage = "fromLoader", !.trigger = "RESET_FROM_LOADER", !.tries = 0]
         /\ cand' = <<>> /\ Goto("trigger")

\* Fault: the attempts are not counted.
NextCandidate_Forever ==
    IF Len(cand) > 1
    THEN cand' = Tail(cand) /\ UNCHANGED op /\ Goto("try")
    ELSE IF op.tries >= 1
    THEN UNCHANGED op /\ cand' = ReconnectCandidates /\ Goto("try")
    ELSE Finish("error")

\* A port and baudrate did not work out: the next one, the next attempt after
\* a reset, or the end.
NextCandidate ==
    IF Len(cand) > 1
    THEN cand' = Tail(cand) /\ UNCHANGED op /\ Goto("try")
    ELSE IF op.tries > 1
    THEN /\ op' = [op EXCEPT !.tries = @ - 1]
         /\ cand' = ReconnectCandidates /\ Goto("try")
    ELSE IF op.tries = 1 THEN ResetReturns("error", "none") ELSE Finish("error")

\* connectUart or connectEbus of a candidate failed.  connectUartAuto looks at
\* the cancellation after each of them, and returns ok.
CandidateFails ==
    IF op.name = "auto" /\ progress.isCancelled THEN Finish("ok") ELSE NextCandidate

-----------------------------------------------------------------------------
(* The operations begin; each holds its transaction until Finish.          *)

Begin(name) ==
    /\ pc = "idle" /\ name \in Operations /\ ops < MaxOps
    /\ ops' = ops + 1 /\ UNCHANGED asked

\* createConnectionStateTransaction disconnects.
BeginConnect(name, candidates) ==
    /\ Begin(name)
    /\ SetDataLinkInterface(NoLink)
    /\ op' = [NoOp EXCEPT !.name = name] /\ cand' = candidates /\ Goto("try")
    /\ UNCHANGED <<cameraVars, last, finishing>>

ConnectUart == \E b \in Bauds : BeginConnect("connectUart", <<Uart(b)>>) /\ UNCHANGED progress

ConnectEbus == BeginConnect("connectEbus", <<Ebus>>) /\ UNCHANGED progress

ConnectUartAuto ==
    /\ BeginConnect("auto", [ i \in DOMAIN BaudOrder |-> Uart(BaudOrder[i]) ])
    /\ progress' = CreateTask(TRUE)

ReconnectCore ==
    /\ ReconnectCandidates # <<>>
    /\ BeginConnect("reconnect", ReconnectCandidates) /\ UNCHANGED progress

DisconnectCore ==
    /\ Begin("disconnect")
    /\ SetDataLinkInterface(NoLink)
    /\ outcome' = "ok"
    /\ UNCHANGED <<cameraVars, last, op, pc, cand, progress, finishing>>

\* setCoreBaudrate, called by the user, up to the write.
SetCoreBaudrateReturnsAtOnce(baud) == link.kind # "uart" \/ link.baud = baud

SetCoreBaudrate ==
    \E b \in Bauds :
        /\ Begin("setBaud")
        /\ UNCHANGED <<cameraVars, linkVars, adapterVars, last, cand, progress, finishing>>
        /\ IF SetCoreBaudrateReturnsAtOnce(b)
           THEN /\ outcome' = (IF link.kind = "uart" THEN "ok" ELSE "error")
                /\ UNCHANGED <<op, pc>>
           ELSE op' = [NoOp EXCEPT !.name = "setBaud", !.old = b] /\ Goto("baudWrite")

\* resetCore, resetToFactoryDefault, resetFromLoader.
ResetCore ==
    \E t \in {"SOFTWARE_RESET", "RESET_TO_FACTORY_DEFAULT", "RESET_FROM_LOADER"} :
        /\ Begin("reset")
        /\ op' = [NoOp EXCEPT !.name = "reset", !.trigger = t] /\ Goto("trigger")
        /\ UNCHANGED <<cameraVars, linkVars, adapterVars, last, cand, progress, finishing>>

\* updateFirmware reads the baudrate to return to and the device type in a
\* transaction of its own ...
AskBeforeUpdate ==
    /\ pc = "idle" /\ "update" \in Operations /\ ops < MaxOps /\ asked = NotAsked
    /\ ops' = ops + 1
    /\ asked' = [old |-> link.baud, type |-> type]
    /\ UNCHANGED <<cameraVars, linkVars, adapterVars, last, op, pc, cand, outcome, progress, finishing>>

\* ... and goes on by what it read, after operations of other threads.
UpdateFirmware ==
    /\ pc = "idle" /\ asked # NotAsked
    /\ asked' = NotAsked
    /\ op' = [NoOp EXCEPT !.name = "update", !.old = asked.old,
                 !.stage = IF asked.type = "loader" THEN "stay" ELSE "toLoader",
                 !.trigger = IF asked.type = "loader" THEN "STAY_IN_LOADER" ELSE "RESET_TO_LOADER"]
    /\ Goto("trigger")
    /\ UNCHANGED <<cameraVars, linkVars, adapterVars, last, cand, ops, progress, finishing>>

-----------------------------------------------------------------------------
(* Connecting.                                                             *)

\* The port is opened and taken into use; an unplugged or busy port leaves
\* the link as it is.
TryCandidate ==
    /\ pc = "try"
    /\ UNCHANGED <<core, plugged, last, ops, asked, progress, finishing>>
    /\ \/ /\ cand # <<>> /\ plugged
          /\ SetDataLinkInterface(Head(cand))
          /\ Goto("test") /\ UNCHANGED <<op, cand, faults>>
       \/ /\ Fails(cand # <<>> /\ plugged)
          /\ CandidateFails
          /\ UNCHANGED <<linkVars, adapterVars>>

\* Fault: the baudrate found after the reset is kept.
Connected_KeepsBaudrate ==
    /\ last' = link.kind
    /\ IF op.tries = 0 THEN Finish("ok") ELSE ResetReturns("ok", core.mode)

\* The port remembered for reconnectCore.
Connected ==
    /\ last' = link.kind
    /\ IF op.tries = 0 THEN Finish("ok")
       ELSE IF op.old = 0 \/ link = Uart(op.old)
       THEN ResetReturns("ok", core.mode)
       ELSE UNCHANGED <<op, cand>> /\ Goto("baudWrite")

TestDeviceType ==
    /\ pc = "test"
    /\ UNCHANGED <<core, plugged, ops, asked, progress, finishing>>
    /\ \/ /\ Reachable /\ UNCHANGED lost
          /\ \E errorAt \in 0..NoError, attrs \in AttrCounts :
                /\ errorAt # NoError => core.mode = "main" /\ FaultHappens
                /\ errorAt = NoError => UNCHANGED faults
                /\ DeviceTested(errorAt, attrs)
                /\ IF thrown'
                   THEN Finish("exception") /\ UNCHANGED last
                   ELSE Connected
       \/ /\ Fails(Reachable)
          /\ SetDataLinkInterface(NoLink)
          /\ CandidateFails /\ UNCHANGED last

-----------------------------------------------------------------------------
(* setCoreBaudrate: the register of the camera, the port, and polling.     *)

\* The user's call leaves the link as it is; after a reset it is closed.
BaudrateFails ==
    IF op.tries = 0
    THEN Finish("error") /\ UNCHANGED <<link, sent, type, space, signals, adapterVars>>
    ELSE SetDataLinkInterface(NoLink) /\ ResetReturns("error", "none")

\* The baudrate of a connection over a serial port, to which the camera has come back over
\* eBUS: the firmware update asked for it before operations of other threads.
NoUartConnection ==
    /\ pc = "baudWrite" /\ link.kind # "uart"
    /\ UNCHANGED <<cameraVars, last, ops, asked, progress, finishing>>
    /\ op.tries = 0 => UNCHANGED lost
    /\ BaudrateFails

\* The answer can be lost after the camera has taken the new baudrate.
WriteBaudrate ==
    /\ pc = "baudWrite" /\ link.kind = "uart"
    /\ UNCHANGED <<plugged, last, ops, asked, progress, finishing>>
    /\ \/ /\ Answered
          /\ core' = [core EXCEPT !.baud = op.old]
          /\ Goto("baudLink")
          /\ UNCHANGED <<link, sent, type, space, signals, adapterVars, op, cand>>
       \/ /\ Fails(Reachable)
          /\ core' \in {core} \cup (IF Reachable THEN {[core EXCEPT !.baud = op.old]} ELSE {})
          /\ op.tries = 0 => lost' \in {lost, TRUE}
          /\ BaudrateFails

SetLinkBaudrate ==
    /\ pc = "baudLink"
    /\ UNCHANGED <<core, plugged, last, ops, asked, progress, finishing>>
    /\ \/ /\ link' = [link EXCEPT !.baud = op.old]
          /\ Goto("baudPoll")
          /\ UNCHANGED <<lost, sent, type, space, signals, adapterVars, op, cand, faults>>
       \/ /\ FaultHappens
          /\ op.tries = 0 => UNCHANGED lost
          /\ BaudrateFails

PollDeviceType ==
    /\ pc = "baudPoll"
    /\ UNCHANGED <<core, plugged, last, ops, asked, progress, finishing>>
    /\ \/ /\ Answered
          /\ UNCHANGED <<link, sent, type, space, signals, adapterVars>>
          /\ IF op.tries = 0 THEN Finish("ok") ELSE ResetReturns("ok", type)
       \/ /\ Fails(Reachable)
          /\ op.tries = 0 => lost' \in {lost, TRUE}
          /\ BaudrateFails

-----------------------------------------------------------------------------
(* resetCoreImpl and updateFirmware.                                       *)

ActivateTrigger ==
    /\ pc = "trigger"
    /\ progress' = CreateTask(FALSE)
    /\ UNCHANGED <<plugged, link, sent, type, space, signals, adapterVars, last, ops, asked, finishing>>
    /\ \/ /\ type \notin AllowedTypes(op.trigger)
          /\ ResetReturns("error", type) /\ UNCHANGED <<core, lost, faults>>
       \/ /\ type \in AllowedTypes(op.trigger) /\ Answered
          /\ core' = [core EXCEPT !.reset = op.trigger]
          /\ Goto("wait") /\ UNCHANGED <<op, cand>>
       \/ /\ type \in AllowedTypes(op.trigger) /\ NotAnswered
          /\ core' \in {core} \cup (IF Reachable THEN {[core EXCEPT !.reset = op.trigger]} ELSE {})
          /\ ResetReturns("error", type)

\* However the wait for the end of the trigger ends (10 s at most), the link
\* is closed and the reconnection begins.
WaitTillTriggerFinished ==
    /\ pc = "wait"
    /\ progress' = CreateTask(FALSE)
    /\ SetDataLinkInterface(NoLink)
    /\ op' = [op EXCEPT !.tries = Attempts] /\ cand' = ReconnectCandidates /\ Goto("try")
    /\ UNCHANGED <<cameraVars, last, ops, asked, finishing>>

InLoader == Reachable /\ core.mode = "loader"

\* A part is written; it may arrive damaged although every packet is
\* acknowledged.
WritePart ==
    /\ pc = "write"
    /\ progress' = CreateTask(FALSE)
    /\ UNCHANGED <<plugged, link, sent, type, space, signals, adapterVars, last, ops, asked, finishing>>
    /\ \E content \in {"old", "new", "torn"} :
          /\ core' = [core EXCEPT !.flash[op.part] = content]
          /\ \/ /\ InLoader /\ UNCHANGED lost
                /\ IF content = "torn" THEN FaultHappens ELSE content = "new" /\ UNCHANGED faults
                /\ Goto("check") /\ UNCHANGED <<op, cand>>
             \/ /\ content \in {core.flash[op.part]} \cup (IF InLoader THEN {"torn"} ELSE {})
                /\ Fails(InLoader)
                /\ lost' \in {lost, TRUE}
                /\ Finish("error")

\* loader 2.1.8 or newer and a complete firmware: one more reset of the loader.
NextPart ==
    IF op.part < PartsCount
    THEN /\ op' = [op EXCEPT !.part = @ + 1] /\ Goto("write")
    ELSE \E again \in BOOLEAN :
            /\ op' = [op EXCEPT !.stage = IF again THEN "again" ELSE "fromLoader",
                                !.trigger = IF again THEN "RESET_TO_LOADER" ELSE "RESET_FROM_LOADER"]
            /\ Goto("trigger")

\* Fault: the part is read back and not compared.
CheckPart_NotCompared ==
    /\ pc = "check"
    /\ progress' = CreateTask(FALSE)
    /\ UNCHANGED <<core, plugged, link, sent, type, space, signals, adapterVars, last, ops, asked, finishing>>
    /\ \/ /\ InLoader /\ UNCHANGED <<lost, faults>>
          /\ NextPart /\ UNCHANGED cand
       \/ /\ Fails(InLoader)
          /\ lost' \in {lost, TRUE}
          /\ Finish("error")

\* The part is read back and compared.
CheckPart ==
    /\ pc = "check"
    /\ progress' = CreateTask(FALSE)
    /\ UNCHANGED <<core, plugged, link, sent, type, space, signals, adapterVars, last, ops, asked, finishing>>
    /\ \/ /\ InLoader /\ UNCHANGED <<lost, faults>>
          /\ IF core.flash[op.part] = "new" THEN NextPart /\ UNCHANGED cand ELSE Finish("error")
       \/ /\ Fails(InLoader)
          /\ lost' \in {lost, TRUE}
          /\ Finish("error")

-----------------------------------------------------------------------------
(* The camera, the user, and a thread whose transaction has ended.         *)

CameraResets ==
    /\ core.reset # "none"
    /\ \E m \in ModeAfter(core.reset), b \in Bauds :
          core' = [core EXCEPT !.mode = m, !.baud = b, !.reset = "none"]
    /\ UNCHANGED <<plugged, faults, adapterVars, linkVars, last, controlVars, progress, finishing>>

\* A power failure.  The flash keeps what it has: another camera on the same port is one only in
\* its mode, its baudrate and its attributes (AttrCounts).
CameraChanges ==
    /\ FaultHappens
    /\ \E m \in {"main", "loader"}, b \in Bauds :
          core' = [core EXCEPT !.mode = m, !.baud = b, !.reset = "none"]
    /\ UNCHANGED <<plugged, adapterVars, linkVars, last, controlVars, progress, finishing>>

Unplug ==
    /\ plugged /\ FaultHappens
    /\ plugged' = FALSE
    /\ UNCHANGED <<core, adapterVars, linkVars, last, controlVars, progress, finishing>>

Plug ==
    /\ ~plugged
    /\ plugged' = TRUE
    /\ UNCHANGED <<core, faults, adapterVars, linkVars, last, controlVars, progress, finishing>>

Cancel ==
    /\ pc # "idle"
    /\ progress' = CancelProgress(progress)
    /\ UNCHANGED <<cameraVars, adapterVars, linkVars, last, controlVars, finishing>>

\* Another thread ends a transaction; onTransactionFinished is still to come.
EndTransaction ==
    /\ pc = "idle" /\ finishing = <<>>
    /\ finishing' = <<"check">>
    /\ UNCHANGED <<cameraVars, adapterVars, linkVars, last, controlVars, progress>>

\* refreshProperties reads the status; a camera that is not ready or of another
\* type is lost, which is signalled after the transaction has ended.
RefreshProperties ==
    /\ pc = "idle" /\ finishing = <<>> /\ type # "none"
    /\ \/ /\ Answered
          /\ \/ core.mode = type /\ finishing' = <<"check">> /\ UNCHANGED signals
             \/ /\ core.mode # type /\ finishing' = <<"check", "lost">>
                /\ signals' = IF signals = "none" THEN "found" ELSE signals
       \/ /\ NotAnswered
          /\ finishing' = <<"check">> /\ UNCHANGED signals
    /\ UNCHANGED <<core, plugged, link, sent, type, space, adapterVars, last, controlVars, progress>>

\* onTransactionFinished, outside every mutex: the condition ...
CheckConnectionLost ==
    /\ finishing # <<>> /\ Head(finishing) = "check"
    /\ finishing' = (IF ~sent /\ lost THEN <<"lost">> ELSE <<>>) \o Tail(finishing)
    /\ UNCHANGED <<cameraVars, adapterVars, linkVars, last, controlVars, progress>>

\* ... and the signal.  The flag it sets is that of whatever link there is by now, which may
\* have been taken into use since the thread looked.
SignalConnectionLost ==
    /\ finishing # <<>> /\ Head(finishing) = "lost"
    /\ finishing' = Tail(finishing)
    /\ sent' = TRUE
    /\ signals' = IF lost \/ signals \in {"found", "own"} THEN "own" ELSE "late"
    /\ UNCHANGED <<cameraVars, adapterVars, link, lost, type, space, last, controlVars, progress>>

-----------------------------------------------------------------------------

OperationStep ==
    \/ TryCandidate \/ TestDeviceType
    \/ NoUartConnection \/ WriteBaudrate \/ SetLinkBaudrate \/ PollDeviceType
    \/ ActivateTrigger \/ WaitTillTriggerFinished
    \/ WritePart \/ CheckPart

Next ==
    \/ ConnectUart \/ ConnectEbus \/ ConnectUartAuto \/ ReconnectCore \/ DisconnectCore
    \/ SetCoreBaudrate \/ ResetCore \/ AskBeforeUpdate \/ UpdateFirmware
    \/ OperationStep
    \/ CameraResets \/ CameraChanges \/ Unplug \/ Plug \/ Cancel
    \/ EndTransaction \/ RefreshProperties
    \/ CheckConnectionLost \/ SignalConnectionLost

\* The thread of an operation runs on, transactions keep ending (a client
\* refreshes the properties periodically), and so does what follows them.
Fairness ==
    /\ WF_vars(OperationStep)
    /\ WF_vars(EndTransaction) /\ WF_vars(CheckConnectionLost) /\ WF_vars(SignalConnectionLost)

Spec == Init /\ [][Next]_vars /\ Fairness

-----------------------------------------------------------------------------
(* Properties.                                                             *)

\* Between operations there is a device type exactly while there is a link,
\* the memory space is the one of that type, and the adapters that a camera
\* brings with it are there for that camera only: the code keeps these in six
\* variables that every failure path has to reset.
TypeMatchesLink ==
    pc = "idle" /\ ~thrown =>
        /\ (type = "none") <=> (link = NoLink)
        /\ space = type
        /\ usb <=> type # "none"
        /\ type # "main" => adapters = {}
        /\ lens = { i \in 1..PresetsCount : <<i, 1>> \in adapters }

\* The operations that leave a connected camera behind when they return ok.
Connecting == {"connectUart", "connectEbus", "auto", "reconnect", "reset", "update", "setBaud"}

Ends(names) == op.name \in names /\ pc # "idle" /\ pc' = "idle"

\* An operation that returns ok leaves a link over which the camera answers,
\* at the baudrate that was to be set or kept: after an update this is the one
\* of the connection before it, whatever baudrates and modes the camera went
\* through.  connectUartAuto returns ok for a cancelled search, too.
OkMeansConnected ==
    [][ Ends(Connecting) /\ outcome' = "ok" /\ ~(op.name = "auto" /\ progress.isCancelled) =>
            /\ Reachable'
            /\ op.old # 0 => link'.baud = op.old ]_vars

\* An update that returns ok has left every part of the firmware in the flash,
\* whatever was lost, refused or damaged on the way.
FirmwareWhole ==
    [][ Ends({"update"}) /\ outcome' = "ok" => \A p \in 1..PartsCount : core'.flash[p] = "new" ]_vars

\* A connection that is lost is signalled during its life, unless it is closed before.  There
\* is one exception, which the code has: a thread that found an earlier link lost
\* (propertieswtc640.cpp:1611) sets m_connectionLostSent after setDataLinkInterface has reset it
\* (:3647), and the loss of the link after it is not signalled any more.
LossIsSignalled == (lost /\ signals # "late") ~> (signals = "own" \/ ~lost)

\* Every operation ends: the attempts to reconnect, the parts and the
\* candidates run out.
OperationsEnd == (pc # "idle") ~> (pc = "idle")
=============================================================================
