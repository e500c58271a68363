----------------------- MODULE PropertyAdaptersProofs -----------------------
(***************************************************************************)
(* Proofs about PropertyAdapters, for any components and values and any    *)
(* number of tasks that wait and of connections.                           *)
(***************************************************************************)
EXTENDS PropertyAdapters, SequenceTheorems, TLAPS

Tasks == {Read, Wild} \cup {Write(v) : v \in Acceptable}

Types ==
  /\ waiting \in Seq(Tasks) /\ running \in Tasks \cup {NoTask}
  /\ stage \in {"none", "accessing", "accessed", "updated"}
  /\ running = NoTask <=> stage = "none"

\* Without a connection there is nothing to write back and nothing that is known.
Offline ==
  ~connected => Idle /\ cached = NoResult /\ lastWritten = NoResult

\* What a task is about to store is what the device still holds.
AnswerIsTrue ==
  stage = "accessed" /\ answer.result.kind = "value" => answer.result.value = device

WritesAfter(tasks, i) == \E j \in DOMAIN tasks : j > i /\ tasks[j].type = "write"
Writes(tasks) == \E i \in DOMAIN tasks : tasks[i].type = "write"

\* The last write that waits is the one that the program remembers ...
LastWaits(tasks, written) ==
  \A i \in DOMAIN tasks :
    tasks[i].type = "write" /\ ~WritesAfter(tasks, i) => written = Value(tasks[i].value)

\* ... and so is, when none waits, the one that runs, or the one that has run.
LastRuns ==
  /\ Accessing("write") => lastWritten = Value(running.value)
  /\ Accessed("write") =>
       ~foreign /\ lastWritten.kind = "value" /\ (answer.ok => device = lastWritten.value)
  /\ ~Accessing("write") /\ ~Accessed("write") /\ ~writeFailed /\ ~foreign
       /\ lastWritten.kind = "value" => device = lastWritten.value

Remembered == LastWaits(waiting, lastWritten) /\ (~Writes(waiting) => LastRuns)

IInv == Types /\ Offline /\ AnswerIsTrue /\ Remembered /\ CacheIsTrue /\ ComponentsFollow
-----------------------------------------------------------------------------
(* The tasks that wait                                                     *)

LEMMA TaskTypes ==
  /\ \A t \in Tasks : t.type \in {"read", "write", "wild"}
  /\ Read.type = "read" /\ Wild.type = "wild" /\ NoTask.type = "none"
  /\ \A v : Write(v).type = "write" /\ Write(v).value = v
  /\ NoTask \notin Tasks
<1>1. Read.type = "read" /\ Wild.type = "wild" /\ NoTask.type = "none"
  BY DEF Read, Wild, NoTask
<1>2. ASSUME NEW v PROVE Write(v).type = "write" /\ Write(v).value = v
  BY DEF Write
<1>3. \A t \in Tasks : t.type \in {"read", "write", "wild"}
  BY <1>1, <1>2 DEF Tasks
<1> QED BY <1>1, <1>2, <1>3

LEMMA Appended ==
  ASSUME NEW tasks \in Seq(Tasks), NEW t \in Tasks
  PROVE  LET more == Append(tasks, t) IN
         /\ more \in Seq(Tasks) /\ DOMAIN more = 1..(Len(tasks) + 1)
         /\ Len(tasks) \in Nat /\ DOMAIN tasks = 1..Len(tasks)
         /\ \A i \in DOMAIN tasks : more[i] = tasks[i]
         /\ more[Len(tasks) + 1] = t
OBVIOUS

\* A task that is no write changes nothing of which write is the last.
LEMMA OtherAppended ==
  ASSUME NEW tasks \in Seq(Tasks), NEW t \in {Read, Wild}, NEW written
  PROVE  LET more == Append(tasks, t) IN
         /\ more \in Seq(Tasks)
         /\ LastWaits(tasks, written) => LastWaits(more, written)
         /\ Writes(tasks) => Writes(more)
<1> DEFINE more == Append(tasks, t)
<1>1. t \in Tasks /\ t.type # "write"
  BY TaskTypes DEF Tasks
<1>2. /\ more \in Seq(Tasks) /\ DOMAIN more = 1..(Len(tasks) + 1)
      /\ Len(tasks) \in Nat /\ DOMAIN tasks = 1..Len(tasks)
      /\ \A i \in DOMAIN tasks : more[i] = tasks[i]
      /\ more[Len(tasks) + 1] = t
  BY <1>1, Appended
<1> HIDE DEF more
<1>3. ASSUME LastWaits(tasks, written), NEW i \in DOMAIN more,
             more[i].type = "write", ~WritesAfter(more, i)
      PROVE  written = Value(more[i].value)
  <2>1. i \in DOMAIN tasks /\ more[i] = tasks[i]
    BY <1>1, <1>2, <1>3
  <2>2. ~WritesAfter(tasks, i)
    BY <1>2, <1>3 DEF WritesAfter
  <2> QED BY <1>3, <2>1, <2>2 DEF LastWaits
<1>4. Writes(tasks) => Writes(more)
  BY <1>2 DEF Writes
<1>5. LastWaits(tasks, written) => LastWaits(more, written)
  BY <1>3 DEF LastWaits
<1> QED BY <1>2, <1>4, <1>5 DEF more

\* A write that is added is the last one.
LEMMA WriteAppended ==
  ASSUME NEW tasks \in Seq(Tasks), NEW v \in Acceptable
  PROVE  LET more == Append(tasks, Write(v)) IN
         /\ more \in Seq(Tasks) /\ LastWaits(more, Value(v)) /\ Writes(more)
<1> DEFINE more == Append(tasks, Write(v))
<1>1. Write(v) \in Tasks /\ Write(v).type = "write" /\ Write(v).value = v
  BY TaskTypes DEF Tasks
<1>2. /\ more \in Seq(Tasks) /\ DOMAIN more = 1..(Len(tasks) + 1)
      /\ Len(tasks) \in Nat /\ more[Len(tasks) + 1] = Write(v)
  BY <1>1, Appended
<1> HIDE DEF more
<1>3. Writes(more)
  BY <1>1, <1>2 DEF Writes
<1>4. ASSUME NEW i \in DOMAIN more, ~WritesAfter(more, i) PROVE Value(v) = Value(more[i].value)
  <2>1. ~(Len(tasks) + 1 > i)
    BY <1>1, <1>2, <1>4 DEF WritesAfter
  <2>2. i = Len(tasks) + 1
    BY <1>2, <2>1
  <2> QED BY <1>1, <1>2, <2>2
<1> QED BY <1>2, <1>3, <1>4 DEF LastWaits, more

\* Where the tasks are that are left when one has been started.
LEMMA Removed ==
  ASSUME NEW tasks \in Seq(Tasks), NEW i \in DOMAIN tasks
  PROVE  LET left == RemoveAt(tasks, i) IN
         /\ left \in Seq(Tasks) /\ Len(tasks) \in Nat \ {0} /\ i \in 1..Len(tasks)
         /\ DOMAIN left = 1..(Len(tasks) - 1) /\ DOMAIN tasks = 1..Len(tasks)
         /\ \A k \in DOMAIN left : left[k] = IF k < i THEN tasks[k] ELSE tasks[k + 1]
<1> DEFINE first == SubSeq(tasks, 1, i - 1)
           rest == SubSeq(tasks, i + 1, Len(tasks))
           left == first \o rest
<1>1. Len(tasks) \in Nat \ {0} /\ i \in 1..Len(tasks) /\ DOMAIN tasks = 1..Len(tasks)
  OBVIOUS
<1>2. /\ first \in Seq(Tasks) /\ Len(first) = i - 1
      /\ \A k \in 1..(i - 1) : first[k] = tasks[k]
  BY <1>1
<1>3. /\ rest \in Seq(Tasks) /\ Len(rest) = Len(tasks) - i
      /\ \A k \in 1..(Len(tasks) - i) : rest[k] = tasks[k + i]
  BY <1>1
<1> HIDE DEF first, rest
<1>4. /\ left \in Seq(Tasks) /\ Len(left) = Len(tasks) - 1
      /\ \A k \in 1..(Len(tasks) - 1) :
           left[k] = IF k <= i - 1 THEN first[k] ELSE rest[k - (i - 1)]
  <2>1. /\ left \in Seq(Tasks) /\ Len(left) = Len(first) + Len(rest)
        /\ \A k \in 1..(Len(first) + Len(rest)) :
             left[k] = IF k <= Len(first) THEN first[k] ELSE rest[k - Len(first)]
    BY <1>2, <1>3, ConcatProperties
  <2> HIDE DEF left
  <2>2. Len(first) + Len(rest) = Len(tasks) - 1
    BY <1>1, <1>2, <1>3
  <2> QED BY <1>2, <2>1, <2>2
<1> HIDE DEF left
<1>5. DOMAIN left = 1..(Len(tasks) - 1)
  BY <1>4
<1>6. ASSUME NEW k \in 1..(Len(tasks) - 1)
      PROVE  left[k] = IF k < i THEN tasks[k] ELSE tasks[k + 1]
  <2>1. CASE k < i
    <3>1. k <= i - 1 /\ k \in 1..(i - 1)
      BY <1>1, <2>1
    <3> QED BY <1>2, <1>4, <2>1, <3>1
  <2>2. CASE k >= i
    <3>1. k - (i - 1) \in 1..(Len(tasks) - i) /\ (k - (i - 1)) + i = k + 1
      BY <1>1, <2>2
    <3>2. rest[k - (i - 1)] = tasks[k + 1]
      BY <1>3, <3>1
    <3> QED BY <1>1, <1>4, <2>2, <3>2
  <2> QED BY <1>1, <2>1, <2>2
<1> QED BY <1>1, <1>4, <1>5, <1>6 DEF RemoveAt, first, rest, left

\* Starting a task that no property task precedes, unless it is a wild one: which write is
\* the last stays the same, and if none is left it was this one.
LEMMA LastAfterStart ==
  ASSUME NEW tasks \in Seq(Tasks), NEW i \in DOMAIN tasks, NEW written,
         LastWaits(tasks, written),
         \A j \in 1..(i - 1) : ~(IsProperty(tasks[j]) /\ IsProperty(tasks[i]))
  PROVE  LET left == RemoveAt(tasks, i) IN
         /\ left \in Seq(Tasks) /\ LastWaits(left, written)
         /\ ~Writes(left) /\ tasks[i].type = "write" => written = Value(tasks[i].value)
         /\ ~Writes(left) /\ tasks[i].type # "write" => ~Writes(tasks)
<1> DEFINE left == RemoveAt(tasks, i)
<1>1. /\ left \in Seq(Tasks) /\ Len(tasks) \in Nat \ {0} /\ i \in 1..Len(tasks)
      /\ DOMAIN left = 1..(Len(tasks) - 1) /\ DOMAIN tasks = 1..Len(tasks)
      /\ \A k \in DOMAIN left : left[k] = IF k < i THEN tasks[k] ELSE tasks[k + 1]
  BY Removed
<1> HIDE DEF left
\* Every other task is left.
<1>2. ASSUME NEW j \in DOMAIN tasks, j # i
      PROVE  \E k \in DOMAIN left : left[k] = tasks[j] /\ k = (IF j < i THEN j ELSE j - 1)
  <2>1. CASE j < i
    <3>1. j \in DOMAIN left
      BY <1>1, <2>1
    <3> QED BY <1>1, <2>1, <3>1
  <2>2. CASE j > i
    <3>1. j - 1 \in DOMAIN left /\ ~(j - 1 < i) /\ (j - 1) + 1 = j /\ ~(j < i)
      BY <1>1, <2>2
    <3> QED BY <1>1, <3>1
  <2> QED BY <1>1, <1>2, <2>1, <2>2
<1>3. ASSUME NEW k \in DOMAIN left, left[k].type = "write", ~WritesAfter(left, k)
      PROVE  written = Value(left[k].value)
  <2> DEFINE j == IF k < i THEN k ELSE k + 1
  <2>1. j \in DOMAIN tasks /\ left[k] = tasks[j] /\ j # i /\ j \in Nat /\ k \in Nat
    BY <1>1
  <2>2. ASSUME NEW m \in DOMAIN tasks, m > j, tasks[m].type = "write" PROVE FALSE
    <3>1. CASE m = i
      <4>1. j \in 1..(i - 1)
        BY <1>1, <2>1, <2>2, <3>1
      <4> QED BY <1>3, <2>1, <2>2, <3>1, <4>1 DEF IsProperty
    <3>2. CASE m # i
      <4>1. PICK n \in DOMAIN left :
              left[n] = tasks[m] /\ n = (IF m < i THEN m ELSE m - 1)
        BY <1>2, <3>2
      <4>2. n > k
        BY <1>1, <2>1, <2>2, <3>2, <4>1
      <4> QED BY <1>3, <2>2, <4>1, <4>2 DEF WritesAfter
    <3> QED BY <3>1, <3>2
  <2>3. tasks[j].type = "write" /\ ~WritesAfter(tasks, j)
    BY <1>3, <2>1, <2>2 DEF WritesAfter
  <2> HIDE DEF j
  <2> QED BY <2>1, <2>3 DEF LastWaits
<1>4. ASSUME ~Writes(left), NEW j \in DOMAIN tasks, j # i PROVE tasks[j].type # "write"
  BY <1>2, <1>4 DEF Writes
<1>5. ~Writes(left) => ~WritesAfter(tasks, i)
  BY <1>1, <1>4 DEF WritesAfter
<1>6. ~Writes(left) /\ tasks[i].type # "write" => ~Writes(tasks)
  BY <1>4 DEF Writes
<1>7. LastWaits(left, written)
  BY <1>3 DEF LastWaits
<1> QED BY <1>1, <1>5, <1>6, <1>7 DEF LastWaits, left

-----------------------------------------------------------------------------
(* The actions                                                             *)

\* The slots on valueChanged leave the components showing the composite.
LEMMA SetCachedFollows ==
  ASSUME ComponentsFollow, NEW result, SetCached(result)
  PROVE  ComponentsFollow' /\ cached' = result
BY DEF ComponentsFollow, SetCached

\* What a call that leaves the values and the thread alone has to keep.
LEMMA CallInv ==
  ASSUME IInv, connected, UNCHANGED <<deviceVars, cached, component, firstRead, writeFailed>>,
         UNCHANGED threadVars, waiting' \in Seq(Tasks),
         LastWaits(waiting', lastWritten'),
         Writes(waiting') \/ (lastWritten' = lastWritten /\ ~Writes(waiting))
  PROVE  IInv'
<1>1. /\ connected' = connected /\ device' = device /\ foreign' = foreign
      /\ cached' = cached /\ component' = component /\ writeFailed' = writeFailed
      /\ running' = running /\ stage' = stage /\ answer' = answer
  BY DEF deviceVars, threadVars
<1>2. Types' /\ Offline' /\ AnswerIsTrue'
  BY <1>1 DEF IInv, Types, Offline, AnswerIsTrue
<1>3. CacheIsTrue' /\ ComponentsFollow'
  BY <1>1 DEF IInv, CacheIsTrue, ComponentsFollow, Accessed
<1>4. ~Writes(waiting') => LastRuns'
  <2>1. ~Writes(waiting') => LastRuns /\ lastWritten' = lastWritten
    BY DEF IInv, Remembered
  <2> QED BY <1>1, <2>1 DEF LastRuns, Accessing, Accessed
<1> QED BY <1>2, <1>3, <1>4 DEF IInv, Remembered

\* A read that is asked for, or ignored, beside the tasks that wait.
LEMMA WithReadKeeps ==
  ASSUME IInv
  PROVE  /\ WithRead(waiting) \in Seq(Tasks)
         /\ LastWaits(WithRead(waiting), lastWritten)
         /\ Writes(WithRead(waiting)) \/ ~Writes(waiting)
<1>1. waiting \in Seq(Tasks) /\ LastWaits(waiting, lastWritten)
  BY DEF IInv, Types, Remembered
<1>2. CASE WithRead(waiting) = waiting
  BY <1>1, <1>2
<1>3. CASE WithRead(waiting) = Append(waiting, Read)
  BY <1>1, <1>3, OtherAppended
<1> QED BY <1>2, <1>3 DEF WithRead

LEMMA RefreshValueInv == ASSUME IInv, RefreshValue PROVE IInv'
<1>1. /\ connected /\ waiting' = WithRead(waiting) /\ lastWritten' = lastWritten
      /\ UNCHANGED <<deviceVars, cached, component, firstRead, writeFailed>>
      /\ UNCHANGED threadVars
  BY DEF RefreshValue, adapterVars
<1> QED BY <1>1, WithReadKeeps, CallInv

LEMMA WriteDataInv == ASSUME IInv, WriteData PROVE IInv'
<1>1. /\ connected /\ waiting' = Append(waiting, Wild) /\ lastWritten' = lastWritten
      /\ UNCHANGED <<deviceVars, cached, component, firstRead, writeFailed>>
      /\ UNCHANGED threadVars
  BY DEF WriteData, adapterVars
<1>2. waiting \in Seq(Tasks) /\ LastWaits(waiting, lastWritten)
  BY DEF IInv, Types, Remembered
<1>3. /\ waiting' \in Seq(Tasks) /\ LastWaits(waiting', lastWritten)
      /\ Writes(waiting) => Writes(waiting')
  BY <1>1, <1>2, OtherAppended
<1> QED BY <1>1, <1>3, CallInv

\* A value that is set, with any tasks waiting that keep what is remembered.
LEMMA SetValueInv ==
  ASSUME IInv, connected, NEW v, NEW tasks \in Seq(Tasks), LastWaits(tasks, lastWritten),
         Writes(tasks) \/ ~Writes(waiting), SetValue(v, tasks)
  PROVE  IInv'
<1>1. /\ UNCHANGED <<deviceVars, cached, component, firstRead, writeFailed>>
      /\ UNCHANGED threadVars
  BY DEF SetValue
<1>2. CASE v \notin Acceptable \/ cached = Value(v)
  <2>1. waiting' = tasks /\ lastWritten' = lastWritten
    BY <1>2 DEF SetValue
  <2> QED BY <1>1, <2>1, CallInv
<1>3. CASE ~(v \notin Acceptable \/ cached = Value(v))
  <2>1. waiting' = Append(tasks, Write(v)) /\ lastWritten' = Value(v) /\ v \in Acceptable
    BY <1>3 DEF SetValue
  <2>2. /\ waiting' \in Seq(Tasks) /\ LastWaits(waiting', lastWritten') /\ Writes(waiting')
    BY <2>1, WriteAppended
  <2> QED BY <1>1, <2>2, CallInv
<1> QED BY <1>2, <1>3

LEMMA SetCompositeInv == ASSUME IInv, NEW v, SetComposite(v) PROVE IInv'
<1>1. waiting \in Seq(Tasks) /\ LastWaits(waiting, lastWritten)
  BY DEF IInv, Types, Remembered
<1> QED BY <1>1, SetValueInv DEF SetComposite

LEMMA SetComponentInv == ASSUME IInv, NEW c, NEW x, SetComponent(c, x) PROVE IInv'
<1> DEFINE touched == IF cached.kind \in {"none", "recoverable"} THEN WithRead(waiting)
                      ELSE waiting
<1>1. /\ touched \in Seq(Tasks) /\ LastWaits(touched, lastWritten)
      /\ Writes(touched) \/ ~Writes(waiting)
  <2>1. waiting \in Seq(Tasks) /\ LastWaits(waiting, lastWritten)
    BY DEF IInv, Types, Remembered
  <2> QED BY <2>1, WithReadKeeps
<1>2. CASE CompositeForWrite = NoResult
  <2>1. connected /\ waiting' = touched /\ UNCHANGED <<deviceVars, adapterVars, threadVars>>
    BY <1>2 DEF SetComponent
  <2>2. /\ UNCHANGED <<deviceVars, cached, component, firstRead, writeFailed>>
        /\ UNCHANGED threadVars /\ lastWritten' = lastWritten
    BY <2>1 DEF adapterVars
  <2> HIDE DEF touched
  <2> QED BY <1>1, <2>1, <2>2, CallInv
<1>3. CASE CompositeForWrite # NoResult
  <2>1. connected /\ SetValue([CompositeForWrite.value EXCEPT ![c] = x], touched)
    BY <1>3 DEF SetComponent
  <2> HIDE DEF touched
  <2> QED BY <1>1, <2>1, SetValueInv
<1> QED BY <1>2, <1>3

\* Resetting the composite, by the program.
LEMMA ResetValueInv == ASSUME IInv, ResetValue PROVE IInv'
<1>1. /\ SetCached(NoResult) /\ UNCHANGED <<deviceVars, lastWritten, writeFailed, waiting, threadVars>>
  BY DEF ResetValue
<1>2. ComponentsFollow' /\ cached' = NoResult
  BY <1>1, SetCachedFollows DEF IInv
<1>3. /\ connected' = connected /\ device' = device /\ foreign' = foreign
      /\ lastWritten' = lastWritten /\ writeFailed' = writeFailed /\ waiting' = waiting
      /\ running' = running /\ stage' = stage /\ answer' = answer
  BY <1>1 DEF deviceVars, threadVars
<1>4. Types' /\ Offline' /\ AnswerIsTrue'
  BY <1>2, <1>3 DEF IInv, Types, Offline, AnswerIsTrue, Idle
<1>5. CacheIsTrue'
  BY <1>2 DEF CacheIsTrue, NoResult
<1>6. Remembered'
  BY <1>3 DEF IInv, Remembered, LastWaits, Writes, WritesAfter, LastRuns, Accessing, Accessed
<1> QED BY <1>2, <1>4, <1>5, <1>6 DEF IInv

LEMMA StartInv == ASSUME IInv, NEW i \in DOMAIN waiting, Start(i) PROVE IInv'
<1>1. /\ running = NoTask /\ running' = waiting[i] /\ stage' = "accessing" /\ stage = "none"
      /\ waiting' = RemoveAt(waiting, i)
      /\ connected' = connected /\ device' = device /\ foreign' = foreign
      /\ cached' = cached /\ component' = component
      /\ lastWritten' = lastWritten /\ writeFailed' = writeFailed /\ answer' = answer
      /\ waiting \in Seq(Tasks) /\ LastWaits(waiting, lastWritten)
      /\ \A j \in 1..(i - 1) : ~(IsProperty(waiting[j]) /\ IsProperty(waiting[i]))
  BY DEF IInv, Types, Remembered, Start, deviceVars, adapterVars
<1>2. /\ waiting' \in Seq(Tasks) /\ LastWaits(waiting', lastWritten)
      /\ ~Writes(waiting') /\ waiting[i].type = "write" => lastWritten = Value(waiting[i].value)
      /\ ~Writes(waiting') /\ waiting[i].type # "write" => ~Writes(waiting)
  BY <1>1, LastAfterStart
<1>3. waiting[i] \in Tasks /\ waiting[i] # NoTask /\ waiting # <<>>
  BY <1>1, TaskTypes
<1>4. Types'
  BY <1>1, <1>2, <1>3 DEF Types
<1>5. connected /\ Offline' /\ AnswerIsTrue'
  BY <1>1, <1>3 DEF IInv, Offline, AnswerIsTrue, Idle
<1>6. CacheIsTrue' /\ ComponentsFollow'
  BY <1>1 DEF IInv, CacheIsTrue, ComponentsFollow, Accessed
<1>7. ASSUME ~Writes(waiting') PROVE LastRuns'
  <2>1. CASE waiting[i].type = "write"
    BY <1>1, <1>2, <1>7, <2>1 DEF LastRuns, Accessing, Accessed
  <2>2. CASE waiting[i].type # "write"
    <3>1. LastRuns
      BY <1>2, <1>7, <2>2 DEF IInv, Remembered
    <3>2. ~Accessing("write") /\ ~Accessed("write")
      BY <1>1 DEF Accessing, Accessed
    <3> QED BY <1>1, <2>2, <3>1, <3>2 DEF LastRuns, Accessing, Accessed
  <2> QED BY <2>1, <2>2
<1>8. Remembered'
  BY <1>1, <1>2, <1>7 DEF Remembered
<1> QED BY <1>4, <1>5, <1>6, <1>8 DEF IInv

LEMMA AccessDeviceInv == ASSUME IInv, AccessDevice PROVE IInv'
<1>1. /\ stage = "accessing" /\ stage' = "accessed" /\ running' = running
      /\ connected' = connected /\ cached' = cached /\ component' = component
      /\ lastWritten' = lastWritten /\ writeFailed' = writeFailed /\ waiting' = waiting
      /\ running.type \in {"read", "write", "wild"}
  BY DEF AccessDevice, AccessRead, AccessWrite, AccessWild, Accessing, Answer, adapterVars
<1>2. running # NoTask /\ connected /\ Types' /\ Offline'
  BY <1>1 DEF IInv, Types, Offline, Idle
<1>3. ComponentsFollow'
  BY <1>1 DEF IInv, ComponentsFollow
<1>4. cached.kind = "value" => cached.value = device
  BY <1>1 DEF IInv, CacheIsTrue, Accessed
<1>5. CASE running.type = "read"
  <2>1. /\ device' = device /\ foreign' = foreign
        /\ answer'.result.kind = "value" => answer'.result.value = device
    BY <1>5 DEF AccessDevice, AccessRead, AccessWrite, AccessWild, Accessing, Answer, Value, Errors
  <2>2. AnswerIsTrue' /\ CacheIsTrue'
    BY <1>1, <1>4, <2>1 DEF AnswerIsTrue, CacheIsTrue
  <2>3. LastRuns => LastRuns'
    BY <1>1, <1>5, <2>1 DEF LastRuns, Accessing, Accessed
  <2>4. Remembered'
    BY <1>1, <2>3 DEF IInv, Remembered
  <2> QED BY <1>2, <1>3, <2>2, <2>4 DEF IInv
<1>6. CASE running.type = "write"
  <2>1. /\ foreign' = FALSE
        /\ answer'.result.kind = "value" => answer'.result.value = device'
        /\ answer'.ok => device' = running.value
    <3>1. AccessWrite /\ foreign' = FALSE
      BY <1>6 DEF AccessDevice, AccessRead, AccessWild, Accessing
    <3>2. CASE device' = running.value /\ Answer(Value(running.value), TRUE)
      BY <3>1, <3>2 DEF Answer, Value
    <3>3. ASSUME NEW result \in {Value(device')} \cup Errors, Answer(result, FALSE)
          PROVE  /\ answer'.result.kind = "value" => answer'.result.value = device'
                 /\ ~answer'.ok
      <4>1. answer'.result = result /\ answer'.ok = FALSE
        BY <3>3 DEF Answer
      <4>2. result.kind = "value" => result.value = device'
        BY <3>3 DEF Value, Errors
      <4> QED BY <4>1, <4>2
    <3>4. \/ device' = running.value /\ Answer(Value(running.value), TRUE)
          \/ \E result \in {Value(device')} \cup Errors : Answer(result, FALSE)
      BY <3>1 DEF AccessWrite
    <3>5. CASE \E result \in {Value(device')} \cup Errors : Answer(result, FALSE)
      BY <3>1, <3>3, <3>5
    <3> QED BY <3>1, <3>2, <3>4, <3>5
  <2>2. AnswerIsTrue' /\ CacheIsTrue'
    BY <1>1, <1>6, <2>1 DEF AnswerIsTrue, CacheIsTrue, Accessed
  <2>3. LastRuns => LastRuns'
    BY <1>1, <1>6, <2>1 DEF LastRuns, Accessing, Accessed, Value
  <2>4. Remembered'
    BY <1>1, <2>3 DEF IInv, Remembered
  <2> QED BY <1>2, <1>3, <2>2, <2>4 DEF IInv
<1>7. CASE running.type = "wild"
  <2>1. foreign' = TRUE /\ answer'.result = NoResult
    BY <1>7 DEF AccessDevice, AccessRead, AccessWrite, AccessWild, Accessing, Answer
  <2>2. AnswerIsTrue' /\ CacheIsTrue'
    BY <1>1, <1>7, <2>1 DEF AnswerIsTrue, CacheIsTrue, Accessed, NoResult
  <2>3. LastRuns'
    BY <1>1, <1>7, <2>1 DEF LastRuns, Accessing, Accessed
  <2>4. Remembered'
    BY <1>1, <2>3 DEF IInv, Remembered
  <2> QED BY <1>2, <1>3, <2>2, <2>4 DEF IInv
<1> QED BY <1>1, <1>5, <1>6, <1>7

LEMMA UpdateInv == ASSUME IInv, Update PROVE IInv'
<1>1. /\ stage = "accessed" /\ stage' = "updated" /\ running' = running
      /\ connected' = connected /\ device' = device /\ foreign' = foreign
      /\ lastWritten' = lastWritten /\ waiting' = waiting
      /\ SetCached(answer.result) \/ SetCached(NoResult)
      /\ IF running.type = "write" THEN writeFailed' = ~answer.ok ELSE writeFailed' = writeFailed
  BY DEF Update, UpdateAfterRead, UpdateAfterWrite, InvalidateProperties, Accessed, deviceVars
<1>2. running # NoTask /\ connected /\ Types' /\ Offline' /\ AnswerIsTrue'
  BY <1>1 DEF IInv, Types, Offline, Idle, AnswerIsTrue
<1>3. ComponentsFollow' /\ cached' \in {answer.result, NoResult}
  BY <1>1, SetCachedFollows DEF IInv
<1>4. CacheIsTrue'
  BY <1>1, <1>3 DEF IInv, AnswerIsTrue, CacheIsTrue, NoResult
<1>5. LastRuns => LastRuns'
  BY <1>1 DEF LastRuns, Accessing, Accessed
<1>6. Remembered'
  BY <1>1, <1>5 DEF IInv, Remembered
<1> QED BY <1>2, <1>3, <1>4, <1>6 DEF IInv

LEMMA OnTaskFinishedInv == ASSUME IInv, OnTaskFinished PROVE IInv'
<1>1. /\ stage = "updated" /\ stage' = "none" /\ running' = NoTask
      /\ connected' = connected /\ device' = device /\ foreign' = foreign
      /\ cached' = cached /\ component' = component
      /\ lastWritten' = lastWritten /\ writeFailed' = writeFailed /\ waiting' = waiting
  BY DEF OnTaskFinished, deviceVars, adapterVars
<1>2. running # NoTask /\ connected /\ Types' /\ Offline' /\ AnswerIsTrue'
  BY <1>1 DEF IInv, Types, Offline, Idle, AnswerIsTrue
<1>3. CacheIsTrue' /\ ComponentsFollow'
  BY <1>1 DEF IInv, CacheIsTrue, ComponentsFollow, Accessed
<1>4. LastRuns => LastRuns'
  BY <1>1 DEF LastRuns, Accessing, Accessed
<1>5. Remembered'
  BY <1>1, <1>4 DEF IInv, Remembered
<1> QED BY <1>2, <1>3, <1>5 DEF IInv

LEMMA DisconnectInv == ASSUME IInv, Disconnect PROVE IInv'
<1>1. /\ Idle /\ connected' = FALSE /\ SetCached(NoResult) /\ lastWritten' = NoResult
      /\ waiting' = waiting /\ running' = running /\ stage' = stage /\ answer' = answer
  BY DEF Disconnect, threadVars
<1>2. ComponentsFollow' /\ cached' = NoResult
  BY <1>1, SetCachedFollows DEF IInv
<1>3. running = NoTask /\ waiting = <<>> /\ stage = "none"
  BY <1>1 DEF IInv, Types, Idle
<1>4. Types' /\ Offline' /\ AnswerIsTrue'
  BY <1>1, <1>2, <1>3 DEF IInv, Types, Offline, Idle, AnswerIsTrue
<1>5. CacheIsTrue'
  BY <1>2 DEF CacheIsTrue, NoResult
<1>6. LastWaits(waiting', lastWritten')
  BY <1>1, <1>3 DEF LastWaits
<1>7. LastRuns'
  BY <1>1, <1>3 DEF LastRuns, Accessing, Accessed, NoResult
<1> QED BY <1>2, <1>4, <1>5, <1>6, <1>7 DEF IInv, Remembered

LEMMA ConnectInv == ASSUME IInv, Connect PROVE IInv'
<1>1. /\ ~connected /\ connected' = TRUE /\ cached' = cached /\ component' = component
      /\ lastWritten' = lastWritten /\ waiting' = waiting
      /\ running' = running /\ stage' = stage /\ answer' = answer
  BY DEF Connect, adapterVars, threadVars
<1>2. Idle /\ cached = NoResult /\ lastWritten = NoResult /\ stage = "none"
  BY <1>1 DEF IInv, Types, Offline, Idle
<1>3. Types' /\ Offline' /\ AnswerIsTrue'
  BY <1>1, <1>2 DEF IInv, Types, Offline, Idle, AnswerIsTrue
<1>4. CacheIsTrue' /\ ComponentsFollow'
  BY <1>1, <1>2 DEF IInv, CacheIsTrue, ComponentsFollow, NoResult
<1>5. LastWaits(waiting', lastWritten')
  BY <1>1 DEF IInv, Remembered
<1>6. LastRuns'
  BY <1>1, <1>2 DEF LastRuns, Accessing, Accessed, NoResult
<1> QED BY <1>3, <1>4, <1>5, <1>6 DEF IInv, Remembered

LEMMA InitInv == ASSUME Init PROVE IInv
<1>1. waiting = <<>> /\ running = NoTask /\ stage = "none" /\ cached = NoResult
      /\ lastWritten = NoResult /\ component = [c \in Components |-> NoResult]
  BY DEF Init
<1>2. <<>> \in Seq(Tasks)
  OBVIOUS
<1>3. Types /\ Offline /\ AnswerIsTrue
  BY <1>1, <1>2 DEF Types, Offline, Idle, AnswerIsTrue
<1>4. CacheIsTrue /\ ComponentsFollow
  BY <1>1 DEF CacheIsTrue, ComponentsFollow, Projection, NoResult
<1>5. LastWaits(waiting, lastWritten)
  BY <1>1 DEF LastWaits
<1>6. LastRuns
  BY <1>1 DEF LastRuns, Accessing, Accessed, NoResult
<1> QED BY <1>3, <1>4, <1>5, <1>6 DEF IInv, Remembered

-----------------------------------------------------------------------------
(* Theorems                                                                *)

\* The inductive invariant: what a task will store is what the device holds, and the last
\* write that waits, runs or has run carries the composite that the program remembers.
THEOREM Invariance == Spec => []IInv
<1>1. Init => IInv
  BY InitInv
<1>2. ASSUME IInv, [Next]_vars PROVE IInv'
  <2>1. CASE Next
    BY <1>2, <2>1, RefreshValueInv, ResetValueInv, SetCompositeInv, SetComponentInv,
       WriteDataInv, StartInv, AccessDeviceInv, UpdateInv, OnTaskFinishedInv,
       DisconnectInv, ConnectInv
       DEF Next, TaskStep
  <2>2. CASE UNCHANGED vars
    <3>1. /\ connected' = connected /\ device' = device /\ foreign' = foreign
          /\ cached' = cached /\ component' = component
          /\ lastWritten' = lastWritten /\ writeFailed' = writeFailed /\ waiting' = waiting
          /\ running' = running /\ stage' = stage /\ answer' = answer
      BY <2>2 DEF vars, deviceVars, adapterVars, threadVars
    <3> QED BY <1>2, <3>1 DEF IInv, Types, Offline, Idle, AnswerIsTrue, Remembered, LastWaits,
              Writes, WritesAfter, LastRuns, Accessing, Accessed, CacheIsTrue, ComponentsFollow
  <2> QED BY <1>2, <2>1, <2>2
<1> QED BY <1>1, <1>2, PTL DEF Spec

\* CacheIsTrue: whatever fails, is lost, reset or written past the property, a value the
\* program sees is the one the device holds, but for the time a write takes to be stored.
THEOREM CachedIsOnDevice == Spec => []CacheIsTrue
<1>1. IInv => CacheIsTrue
  BY DEF IInv
<1> QED BY <1>1, Invariance, PTL

\* ComponentsFollow: the slots of the components, which run only when the composite changes,
\* keep them showing what the composite shows.
THEOREM ComponentsShowComposite == Spec => []ComponentsFollow
<1>1. IInv => ComponentsFollow
  BY DEF IInv
<1> QED BY <1>1, Invariance, PTL

\* LastWrittenIsOnDevice: when all tasks are done, m_lastWrittenValue, from which the next
\* write of a component starts, is what the device holds.
THEOREM WrittenIsOnDevice == Spec => []LastWrittenIsOnDevice
<1>1. ASSUME IInv PROVE LastWrittenIsOnDevice
  <2>1. SUFFICES ASSUME Idle, ~writeFailed, ~foreign, lastWritten.kind = "value"
                 PROVE  device = lastWritten.value
    BY DEF LastWrittenIsOnDevice
  <2>2. ~Writes(waiting) /\ stage = "none"
    BY <1>1, <2>1 DEF IInv, Types, Idle, Writes
  <2>3. LastRuns
    BY <1>1, <2>2 DEF IInv, Remembered
  <2> QED BY <2>1, <2>2, <2>3 DEF LastRuns, Accessing, Accessed
<1> QED BY <1>1, Invariance, PTL

=============================================================================
