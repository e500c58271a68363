-------------------------- MODULE PropertyAdapters --------------------------
(***************************************************************************)
(* A composite property and its components                                 *)
(* (core/properties/propertyadaptervaluedevicecomposite.h,                 *)
(* propertyadaptervaluecomponent.h and the adapters they extend): the      *)
(* device holds one composite value, the program sees it and each of its   *)
(* components as properties, and a component is written by writing the     *)
(* composite that was written or read before, with the component changed.  *)
(*                                                                         *)
(* The tasks of the property run one at a time and those of its adapter in *)
(* the order of the calls, as TaskManagerQueued is shown to do.  A task    *)
(* accesses the device without the mutex of the values and updates them    *)
(* later; calls of the program come in between.                            *)
(***************************************************************************)
EXTENDS Naturals, Sequences, SequencesExt

CONSTANTS
  Components,
  Values,         \* of a component, as its validation accepts them
  Invalid,        \* stands for any other value of a component
  Default,        \* m_compositeValueDefault
  MaxWaiting,     \* bound on the tasks that wait
  MaxConnections  \* bound on the number of connections

Acceptable == [Components -> Values]
Composite  == [Components -> Values \cup {Invalid}]

ASSUME AdaptersAssumption ==
  /\ Invalid \notin Values /\ Default \in Acceptable
  /\ MaxWaiting \in Nat /\ MaxConnections \in Nat

\* OptionalResult: nothing, a value, or an error, which touch may recover from.
NoResult  == [kind |-> "none"]
Value(v)  == [kind |-> "value", value |-> v]
Errors    == {[kind |-> "recoverable"], [kind |-> "permanent"]}
Results(values) == {NoResult} \cup {Value(v) : v \in values} \cup Errors

Read     == [type |-> "read"]
Write(v) == [type |-> "write", value |-> v]
Wild     == [type |-> "wild"]       \* a WRITE_WILD task that overlaps the property
NoTask   == [type |-> "none"]

VARIABLES
  connections,  \* so far; connected while status allows to read and write
  connected,
  device,       \* the value the device holds
  cached,       \* the PropertyValue of the composite
  component,    \* and those of its components
  lastWritten,  \* m_lastWrittenValue
  firstRead,    \* m_firstReadValue
  writeFailed,  \* m_lastWriteResult is an error
  waiting,      \* tasks that wait, in order
  running,      \* the task that is registered as running
  stage,        \* of its thread: none, accessing, accessed, updated
  answer,       \* what its access to the device gave: the result, and whether it succeeded
  foreign       \* history: a wild write has come after the last write of the property

adapterVars == <<cached, component, lastWritten, firstRead, writeFailed>>
threadVars  == <<running, stage, answer>>
deviceVars  == <<connections, connected, device, foreign>>
vars == <<deviceVars, adapterVars, waiting, threadVars>>

IsProperty(t) == t.type \in {"read", "write"}
Idle == waiting = <<>> /\ running = NoTask
NoAnswer == [result |-> NoResult, ok |-> TRUE]

----------------------------------------------------------------------------
(* The values *)

\* PropertyAdapterValueComponent::onValueChanged
Projection(result, c) ==
  IF result.kind # "value" THEN result
  ELSE IF result.value[c] = Invalid THEN [kind |-> "permanent"]
  ELSE Value(result.value[c])

\* Fault: the components keep their values when the composite has none.
SetCached_KeepsComponents(result) ==
  /\ cached' = result
  /\ component' = IF result.kind \in {"none", cached.kind} THEN component
                  ELSE [c \in Components |-> Projection(result, c)]

\* setCurrentValue, resetValue: the components follow through valueChanged, which is not
\* emitted for an equal value.
SetCached(result) ==
  /\ cached' = result
  /\ component' = IF result = cached THEN component
                  ELSE [c \in Components |-> Projection(result, c)]

----------------------------------------------------------------------------
(* The calls of the program, each within a transaction *)

\* addTask: a read is ignored beside any other property task, as all have the same ranges.
WithRead(tasks) ==
  IF \E t \in Range(tasks) \cup {running} : IsProperty(t) THEN tasks ELSE Append(tasks, Read)

\* refreshValue of the composite or a component; touch and invalidateValue are the same
\* call, made for a value that is missing or one that is known.
RefreshValue ==
  /\ connected /\ Len(waiting) < MaxWaiting
  /\ waiting' = WithRead(waiting)
  /\ UNCHANGED <<deviceVars, adapterVars, threadVars>>

ResetValue ==
  /\ SetCached(NoResult)
  /\ UNCHANGED <<deviceVars, lastWritten, firstRead, writeFailed, waiting, threadVars>>

\* PropertyAdapterValueDevice::setValue of the composite, with `tasks` waiting: a value that
\* is not acceptable is refused, and one that is the cached one needs no write.
SetValue(v, tasks) ==
  /\ IF v \notin Acceptable \/ cached = Value(v)
     THEN waiting' = tasks /\ UNCHANGED lastWritten
     ELSE waiting' = Append(tasks, Write(v)) /\ lastWritten' = Value(v)
  /\ UNCHANGED <<deviceVars, cached, component, firstRead, writeFailed, threadVars>>

SetComposite(v) ==
  /\ connected /\ Len(waiting) < MaxWaiting
  /\ SetValue(v, waiting)

\* getCurrentCompositeValueForWrite: NoResult if the composite is not ready.
CompositeForWrite ==
  IF lastWritten.kind = "value" THEN lastWritten
  ELSE IF firstRead.kind = "none" THEN NoResult
  ELSE IF firstRead.kind = "value" /\ firstRead.value \in Acceptable THEN firstRead
  ELSE Value(Default)

\* PropertyAdapterValueComponent::setValue, which touches the composite first.
SetComponent(c, x) ==
  /\ connected
  /\ LET touched == IF cached.kind \in {"none", "recoverable"} THEN WithRead(waiting)
                    ELSE waiting
     IN IF CompositeForWrite = NoResult
        THEN waiting' = touched /\ UNCHANGED <<deviceVars, adapterVars, threadVars>>
        ELSE SetValue([CompositeForWrite.value EXCEPT ![c] = x], touched)
  /\ Len(waiting') <= MaxWaiting

\* writeData over addresses of the property.
WriteData ==
  /\ connected /\ Len(waiting) < MaxWaiting
  /\ waiting' = Append(waiting, Wild)
  /\ UNCHANGED <<deviceVars, adapterVars, threadVars>>

----------------------------------------------------------------------------
(* The tasks *)

\* Property tasks keep their order; a wild one has other ranges and need not.
Start(i) ==
  /\ running = NoTask
  /\ \A j \in 1..i-1 : ~(IsProperty(waiting[j]) /\ IsProperty(waiting[i]))
  /\ running' = waiting[i] /\ stage' = "accessing"
  /\ waiting' = RemoveAt(waiting, i)
  /\ UNCHANGED <<deviceVars, adapterVars, answer>>

Accessing(type) == running.type = type /\ stage = "accessing"
Accessed(type)  == running.type = type /\ stage = "accessed"

Answer(result, ok) == answer' = [result |-> result, ok |-> ok] /\ stage' = "accessed"

\* m_valueReader
AccessRead ==
  /\ Accessing("read")
  /\ \E result \in {Value(device)} \cup Errors : Answer(result, result.kind = "value")
  /\ UNCHANGED device

\* Fault: the value is not read again after a write that failed.
AccessWrite_Trusts ==
  /\ Accessing("write")
  /\ \/ device' = running.value /\ Answer(Value(running.value), TRUE)
     \/ device' \in {device, running.value} /\ Answer(Value(running.value), FALSE)

\* m_valueWriter, and m_valueReader after a failure: the device may have taken the value
\* although its answer was lost.
AccessWrite ==
  /\ Accessing("write")
  /\ \/ device' = running.value /\ Answer(Value(running.value), TRUE)
     \/ /\ device' \in {device, running.value}
        /\ \E result \in {Value(device')} \cup Errors : Answer(result, FALSE)

\* A wild write, as far as it comes.
AccessWild ==
  /\ Accessing("wild")
  /\ device' \in Composite
  /\ Answer(NoResult, TRUE)

AccessDevice ==
  /\ AccessRead \/ AccessWrite \/ AccessWild
  /\ foreign' = CASE running.type = "read" -> foreign
                  [] running.type = "write" -> FALSE
                  [] running.type = "wild" -> TRUE
  /\ UNCHANGED <<connections, connected, adapterVars, waiting, running>>

\* beforeValueUpdate
FirstRead == IF firstRead = NoResult THEN answer.result ELSE firstRead

\* updateValueAfterRead
UpdateAfterRead ==
  /\ Accessed("read")
  /\ firstRead' = FirstRead
  /\ SetCached(answer.result)
  /\ UNCHANGED <<lastWritten, writeFailed>>

\* updateValueAfterWrite
UpdateAfterWrite ==
  /\ Accessed("write")
  /\ SetCached(answer.result)
  /\ writeFailed' = ~answer.ok
  /\ UNCHANGED <<lastWritten, firstRead>>

\* Fault: the property is not reset.
InvalidateProperties_Forgets ==
  /\ Accessed("wild")
  /\ UNCHANGED adapterVars

\* The slot of invalidateProperties resets the composite.
InvalidateProperties ==
  /\ Accessed("wild")
  /\ SetCached(NoResult)
  /\ UNCHANGED <<lastWritten, firstRead, writeFailed>>

\* In a result transaction; the task stays registered.
Update ==
  /\ UpdateAfterRead \/ UpdateAfterWrite \/ InvalidateProperties
  /\ stage' = "updated" /\ answer' = NoAnswer
  /\ UNCHANGED <<deviceVars, waiting, running>>

OnTaskFinished ==
  /\ stage = "updated"
  /\ running' = NoTask /\ stage' = "none"
  /\ UNCHANGED <<deviceVars, adapterVars, waiting, answer>>

----------------------------------------------------------------------------
(* The connection *)

\* Fault: the composite to write survives the connection.
Disconnect_KeepsLastWritten ==
  /\ connected /\ Idle
  /\ connected' = FALSE
  /\ SetCached(NoResult)
  /\ firstRead' = NoResult /\ writeFailed' = FALSE
  /\ foreign' = FALSE
  /\ UNCHANGED <<connections, device, lastWritten, waiting, threadVars>>

\* A state transaction has drained the tasks; no device means the status DISABLED.
Disconnect ==
  /\ connected /\ Idle
  /\ connected' = FALSE
  /\ SetCached(NoResult)
  /\ lastWritten' = NoResult /\ firstRead' = NoResult /\ writeFailed' = FALSE
  /\ foreign' = FALSE
  /\ UNCHANGED <<connections, device, waiting, threadVars>>

Connect ==
  /\ ~connected /\ connections < MaxConnections
  /\ connected' = TRUE /\ connections' = connections + 1
  /\ device' \in Composite
  /\ UNCHANGED <<adapterVars, waiting, threadVars, foreign>>

Init ==
  /\ connections = 0 /\ connected = FALSE
  /\ device = Default
  /\ cached = NoResult /\ component = [c \in Components |-> NoResult]
  /\ lastWritten = NoResult /\ firstRead = NoResult /\ writeFailed = FALSE
  /\ waiting = <<>> /\ running = NoTask /\ stage = "none" /\ answer = NoAnswer
  /\ foreign = FALSE

TaskStep == (\E i \in DOMAIN waiting : Start(i)) \/ AccessDevice \/ Update \/ OnTaskFinished

Next ==
  \/ RefreshValue \/ ResetValue
  \/ \E v \in Composite : SetComposite(v)
  \/ \E c \in Components, x \in Values \cup {Invalid} : SetComponent(c, x)
  \/ WriteData
  \/ TaskStep
  \/ Disconnect \/ Connect

Spec == Init /\ [][Next]_vars

----------------------------------------------------------------------------
(* Properties *)

\* A value the program sees as known is the one the device holds, except between a write's
\* access to the device and the update that follows it, whatever failed, was lost, was
\* reset or was written past the property.
CacheIsTrue ==
  cached.kind = "value" =>
    cached.value = device \/ Accessed("write") \/ Accessed("wild")

\* The components always show what the composite shows.
ComponentsFollow == \A c \in Components : component[c] = Projection(cached, c)

\* When nothing waits or runs and the last write is not reported as failed, the device
\* holds the value that the next write of a component starts from, unless something has
\* been written past the property.
LastWrittenIsOnDevice ==
  Idle /\ ~writeFailed /\ ~foreign /\ lastWritten.kind = "value" => device = lastWritten.value

=============================================================================
