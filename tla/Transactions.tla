---------------------------- MODULE Transactions ----------------------------
(***************************************************************************)
(* The transactions of core/properties/properties.cpp over an asynchronous *)
(* task manager.  Callers lock the outer transaction mutex and then the    *)
(* mutex of the property values; a connection exclusive or a connection    *)
(* state transaction lets go of the values while it drains the task        *)
(* manager, so that the threads of running tasks can store their results   *)
(* in a transaction of their own or, while one is open, as guests of it.   *)
(*                                                                         *)
(* A task reads or writes one property and is named by it.  The slot that  *)
(* resets the properties a WRITE_WILD task overlaps (invalidateProperties) *)
(* takes the same steps after the device access and before the erase.      *)
(*                                                                         *)
(* The task manager is the scheduler that TaskManagerQueued is shown to    *)
(* implement, without the address ranges: it may start any of the tasks    *)
(* that wait, and starts one if nothing runs.                              *)
(***************************************************************************)
EXTENDS Naturals, FiniteSets

CONSTANTS
  Callers,
  Tasks,
  Dependents,  \* [Tasks -> SUBSET Tasks]: properties touched after an update
  Nobody

ASSUME DependentsAssumption == Dependents \in [Tasks -> SUBSET Tasks]
ASSUME NobodyAssumption == Nobody \notin Callers \cup Tasks /\ Callers \cap Tasks = {}

Actors == Callers \cup Tasks
Kinds  == {"plain", "try", "exclusive", "state"}

VARIABLES
  outer,       \* holder of m_outerTransactionMutex
  values,      \* holder of the mutex of m_propertyValues
  transaction, \* owner of what m_transactionData points to
  exclusive,   \* m_exclusiveTaskManager is set
  pc,          \* of each caller
  kind,        \* of the transaction each caller asks for or has
  step,        \* of each task, idle if the manager does not know it
  blockAdding,
  blockRunning,
  changes,     \* getPropertiesChanged of the current values transaction
  saved,       \* m_propertiesValuesChanged of each actor's TransactionData
  unreported   \* history: values changed since transactionFinished told of them

locks       == <<outer, values, transaction, exclusive>>
managerVars == <<step, blockAdding, blockRunning>>
changeVars  == <<changes, saved, unreported>>
vars == <<locks, pc, kind, managerVars, changeVars>>

CallerPC == {"idle", "asking", "locking", "releasing", "blocking", "draining", "relocking",
             "open", "unpausing", "closing", "unlocking", "reporting"}
TaskStep == {"idle", "waiting", "running", "accessed", "holding", "updated",
             "reporting", "finished"}

Waiting(s) == {t \in Tasks : s[t] = "waiting"}
Live(s)    == {t \in Tasks : s[t] \notin {"idle", "waiting"}}

At(c, label) == pc[c] = label
Goto(c, label) == pc' = [pc EXCEPT ![c] = label]

\* ~TransactionData of the values, or setValuesTransaction(nullopt): what changed is
\* kept by the TransactionData of `owner`.
ReleaseValues(owner) ==
  /\ values' = Nobody
  /\ saved' = [saved EXCEPT ![owner] = @ \cup changes]
  /\ changes' = {}

Change(p) ==
  /\ changes' = changes \cup {p}
  /\ unreported' = unreported \cup {p}

\* onTransactionFinished
TransactionFinished(owner) ==
  /\ unreported' = unreported \ saved[owner]
  /\ saved' = [saved EXCEPT ![owner] = {}]

----------------------------------------------------------------------------
(* The task manager *)

\* tryRunTasks, from the steps s
TryRunTasks(s, blocked) ==
  \E started \in SUBSET Waiting(s) :
    /\ blocked => started = {}
    /\ ~blocked /\ Live(s) = {} /\ Waiting(s) # {} => started # {}
    /\ step' = [t \in Tasks |-> IF t \in started THEN "running" ELSE s[t]]

\* The steps after reads of `props` are asked for: known ones and blocked ones are ignored.
Added(props) ==
  [t \in Tasks |-> IF t \in props /\ step[t] = "idle" /\ ~blockAdding THEN "waiting" ELSE step[t]]

----------------------------------------------------------------------------
(* Opening a transaction *)

\* createPropertiesTransaction, tryCreatePropertiesTransaction,
\* createConnectionExclusiveTransaction, createConnectionStateTransactionData
Ask(c, k) ==
  /\ At(c, "idle")
  /\ Goto(c, "asking")
  /\ kind' = [kind EXCEPT ![c] = k]
  /\ UNCHANGED <<locks, managerVars, changeVars>>

\* try_lock_for times out.
GiveUp(c) ==
  /\ At(c, "asking") /\ kind[c] = "try"
  /\ outer # Nobody
  /\ Goto(c, "idle")
  /\ UNCHANGED <<locks, kind, managerVars, changeVars>>

LockOuter(c) ==
  /\ At(c, "asking") /\ outer = Nobody
  /\ outer' = c
  /\ Goto(c, "locking")
  /\ UNCHANGED <<values, transaction, exclusive, kind, managerVars, changeVars>>

\* createPropertiesTransactionDataImpl
LockValues(c) ==
  /\ At(c, "locking") /\ values = Nobody
  /\ values' = c
  /\ transaction' = c
  /\ Goto(c, IF kind[c] \in {"plain", "try"} THEN "open" ELSE "releasing")
  /\ UNCHANGED <<outer, exclusive, kind, managerVars, changeVars>>

\* Fault: the values are not released before the tasks are waited for.
SetNoValuesTransaction_KeepsValues(c) ==
  /\ At(c, "releasing")
  /\ Goto(c, "blocking")
  /\ UNCHANGED <<locks, kind, managerVars, changeVars>>

\* setValuesTransaction(nullopt), first step of the constructors of
\* ConnectionStateTransactionData and ConnectionExclusiveTransactionData.
SetNoValuesTransaction(c) ==
  /\ At(c, "releasing")
  /\ ReleaseValues(c)
  /\ Goto(c, "blocking")
  /\ UNCHANGED <<outer, transaction, exclusive, kind, managerVars, unreported>>

\* getOrCreateStopAndBlockTasksObject for a state transaction that has none yet,
\* getOrCreatePauseTasksObject otherwise.
BlockTasks(c) ==
  /\ At(c, "blocking")
  /\ IF kind[c] = "state" /\ ~blockAdding
     THEN blockAdding' = TRUE /\ UNCHANGED blockRunning
     ELSE blockRunning' = TRUE /\ UNCHANGED blockAdding
  /\ Goto(c, "draining")
  /\ UNCHANGED <<locks, kind, step, changeVars>>

\* The object is complete: finishTasks has found no task running.
FinishTasks(c) ==
  /\ At(c, "draining") /\ Live(step) = {}
  /\ Goto(c, "relocking")
  /\ UNCHANGED <<locks, kind, managerVars, changeVars>>

\* The rest of the constructors: the values again, and a direct task manager while
\* tasks are paused.
SetValuesTransaction(c) ==
  /\ At(c, "relocking") /\ values = Nobody
  /\ values' = c
  /\ exclusive' = blockRunning
  /\ Goto(c, "open")
  /\ UNCHANGED <<outer, transaction, kind, managerVars, changeVars>>

----------------------------------------------------------------------------
(* An open transaction *)

\* touch, refreshValue, setValue: a task for the manager.
AddTask(c, t) ==
  /\ At(c, "open") /\ ~exclusive
  /\ step[t] = "idle"
  /\ TryRunTasks(Added({t}), blockRunning)
  /\ UNCHANGED <<locks, pc, kind, blockAdding, blockRunning, changeVars>>

\* The same with the direct task manager: the task function runs now, and its result
\* transaction is the open one.
RunDirectly(c, t) ==
  /\ At(c, "open") /\ exclusive
  /\ Change(t)
  /\ UNCHANGED <<locks, pc, kind, managerVars, saved>>

\* resetValue
ResetValue(c, p) ==
  /\ At(c, "open")
  /\ Change(p)
  /\ UNCHANGED <<locks, pc, kind, managerVars, saved>>

\* createConnectionExclusiveTransaction of a state transaction, called by its user or
\* by its destructor.
CreateConnectionExclusiveTransaction(c) ==
  /\ At(c, "open") /\ kind[c] = "state" /\ ~exclusive
  /\ Goto(c, "releasing")
  /\ UNCHANGED <<locks, kind, managerVars, changeVars>>

\* ~ConnectionStateTransactionData lets the tasks be added again; what is left is the
\* exclusive transaction it holds.
UnblockAddingTasks(c) ==
  /\ At(c, "open") /\ kind[c] = "state" /\ exclusive
  /\ blockAdding' = FALSE
  /\ kind' = [kind EXCEPT ![c] = "exclusive"]
  /\ UNCHANGED <<locks, pc, step, blockRunning, changeVars>>

\* Fault: the tasks run again before the direct task manager is dropped.
ResetExclusiveTaskManager_AfterUnblock(c) ==
  /\ At(c, "open") /\ exclusive
  /\ blockRunning' = FALSE
  /\ TryRunTasks(step, FALSE)
  /\ Goto(c, "unpausing")
  /\ UNCHANGED <<locks, kind, blockAdding, changeVars>>

\* ~ConnectionExclusiveTransactionData
ResetExclusiveTaskManager(c) ==
  /\ At(c, "open") /\ exclusive
  /\ exclusive' = FALSE
  /\ Goto(c, "unpausing")
  /\ UNCHANGED <<outer, values, transaction, kind, managerVars, changeVars>>

UnblockRunningTasks(c) ==
  /\ At(c, "unpausing")
  /\ blockRunning' = FALSE
  /\ TryRunTasks(step, FALSE)
  /\ Goto(c, IF kind[c] = "state" THEN "open" ELSE "closing")
  /\ UNCHANGED <<locks, kind, blockAdding, changeVars>>

\* The last reference to a PropertiesTransactionData goes.
Close(c) ==
  /\ At(c, "open") /\ kind[c] \in {"plain", "try"}
  /\ Goto(c, "closing")
  /\ UNCHANGED <<locks, kind, managerVars, changeVars>>

\* ~PropertiesTransactionData, before the values are released.
UnlockOuter(c) ==
  /\ At(c, "closing")
  /\ outer' = Nobody
  /\ transaction' = Nobody
  /\ Goto(c, "unlocking")
  /\ UNCHANGED <<values, exclusive, kind, managerVars, changeVars>>

UnlockValues(c) ==
  /\ At(c, "unlocking")
  /\ ReleaseValues(c)
  /\ Goto(c, "reporting")
  /\ UNCHANGED <<outer, transaction, exclusive, kind, managerVars, unreported>>

Report(c) ==
  /\ At(c, "reporting")
  /\ TransactionFinished(c)
  /\ Goto(c, "idle")
  /\ UNCHANGED <<locks, kind, managerVars, changes>>

----------------------------------------------------------------------------
(* The thread of a task *)

AtStep(t, label) == step[t] = label
GotoStep(t, label) == step' = [step EXCEPT ![t] = label]

\* The reader or writer of the task returns.
AccessDevice(t) ==
  /\ AtStep(t, "running")
  /\ GotoStep(t, "accessed")
  /\ UNCHANGED <<locks, pc, kind, blockAdding, blockRunning, changeVars>>

\* Fault: the result transaction replaces the one that is open.
GetTaskResultTransaction_AlwaysOwn(t) ==
  /\ AtStep(t, "accessed") /\ values = Nobody
  /\ values' = t
  /\ transaction' = t
  /\ GotoStep(t, "holding")
  /\ UNCHANGED <<outer, exclusive, pc, kind, blockAdding, blockRunning, changeVars>>

\* getTaskResultTransaction: a guest of the transaction that is draining the manager,
\* otherwise an owner.
GetTaskResultTransaction(t) ==
  /\ AtStep(t, "accessed") /\ values = Nobody
  /\ values' = t
  /\ transaction' = IF transaction = Nobody THEN t ELSE transaction
  /\ GotoStep(t, "holding")
  /\ UNCHANGED <<outer, exclusive, pc, kind, blockAdding, blockRunning, changeVars>>

\* updateValueAfterRead, updateValueAfterWrite: the value, then the dependent properties.
UpdateValue(t) ==
  /\ AtStep(t, "holding")
  /\ Change(t)
  /\ TryRunTasks([Added(Dependents[t]) EXCEPT ![t] = "updated"], blockRunning)
  /\ UNCHANGED <<locks, pc, kind, blockAdding, blockRunning, saved>>

\* Fault: what a guest changed is not handed to the transaction it was a guest of.
ReleaseTaskResultTransaction_Forgets(t) ==
  /\ AtStep(t, "updated")
  /\ values' = Nobody /\ changes' = {}
  /\ IF transaction = t
     THEN /\ transaction' = Nobody
          /\ saved' = [saved EXCEPT ![t] = changes]
          /\ GotoStep(t, "reporting")
     ELSE GotoStep(t, "finished") /\ UNCHANGED <<transaction, saved>>
  /\ UNCHANGED <<outer, exclusive, pc, kind, blockAdding, blockRunning, unreported>>

\* Fault: a guest keeps what it changed, as an owner does.
ReleaseTaskResultTransaction_KeepsOwn(t) ==
  /\ AtStep(t, "updated")
  /\ ReleaseValues(t)
  /\ IF transaction = t
     THEN transaction' = Nobody /\ GotoStep(t, "reporting")
     ELSE GotoStep(t, "finished") /\ UNCHANGED transaction
  /\ UNCHANGED <<outer, exclusive, pc, kind, blockAdding, blockRunning, unreported>>

\* ~TransactionData of an owner, ~TaskResultTransactionData of a guest.
ReleaseTaskResultTransaction(t) ==
  /\ AtStep(t, "updated")
  /\ ReleaseValues(transaction)
  /\ IF transaction = t
     THEN transaction' = Nobody /\ GotoStep(t, "reporting")
     ELSE GotoStep(t, "finished") /\ UNCHANGED transaction
  /\ UNCHANGED <<outer, exclusive, pc, kind, blockAdding, blockRunning, unreported>>

ReportResult(t) ==
  /\ AtStep(t, "reporting")
  /\ TransactionFinished(t)
  /\ GotoStep(t, "finished")
  /\ UNCHANGED <<locks, pc, kind, blockAdding, blockRunning, changes>>

\* The erase in onTaskFinished.
OnTaskFinished(t) ==
  /\ AtStep(t, "finished")
  /\ TryRunTasks([step EXCEPT ![t] = "idle"], blockRunning)
  /\ UNCHANGED <<locks, pc, kind, blockAdding, blockRunning, changeVars>>

----------------------------------------------------------------------------

Init ==
  /\ outer = Nobody /\ values = Nobody /\ transaction = Nobody /\ exclusive = FALSE
  /\ pc = [c \in Callers |-> "idle"] /\ kind = [c \in Callers |-> "plain"]
  /\ step = [t \in Tasks |-> "idle"]
  /\ blockAdding = FALSE /\ blockRunning = FALSE
  /\ changes = {} /\ saved = [a \in Actors |-> {}] /\ unreported = {}

Use(c) ==
  \E t \in Tasks : AddTask(c, t) \/ RunDirectly(c, t) \/ ResetValue(c, t)

\* What a caller does without being asked, once it has the outer mutex.
CallerStep(c) ==
  \/ LockValues(c) \/ SetNoValuesTransaction(c) \/ BlockTasks(c) \/ FinishTasks(c)
  \/ SetValuesTransaction(c) \/ UnblockRunningTasks(c)
  \/ UnlockOuter(c) \/ UnlockValues(c) \/ Report(c)

\* The scope of a transaction ends.
EndScope(c) ==
  \/ Close(c) \/ CreateConnectionExclusiveTransaction(c)
  \/ UnblockAddingTasks(c) \/ ResetExclusiveTaskManager(c)

TaskThread(t) ==
  \/ AccessDevice(t) \/ GetTaskResultTransaction(t) \/ UpdateValue(t)
  \/ ReleaseTaskResultTransaction(t) \/ ReportResult(t) \/ OnTaskFinished(t)

Next ==
  \/ \E c \in Callers :
       \/ \E k \in Kinds : Ask(c, k)
       \/ GiveUp(c) \/ LockOuter(c)
       \/ Use(c) \/ CallerStep(c) \/ EndScope(c)
  \/ \E t \in Tasks : TaskThread(t)

Spec == Init /\ [][Next]_vars

\* Threads run: what a thread can do without waiting for a mutex for ever, it does.
\* Nobody has to ask for a transaction, use one or win the outer mutex.
Fairness ==
  /\ \A c \in Callers : WF_vars(CallerStep(c))
  /\ \A t \in Tasks : WF_vars(TaskThread(t))

FairSpec == Spec /\ Fairness

----------------------------------------------------------------------------
(* Properties *)

\* The assertions of properties.cpp on m_transactionData: whoever opens a transaction
\* finds none, an open transaction is its caller's own and holds the values, and a task
\* is a guest only of a caller that waits for the tasks without holding the values.
ValuesOwned ==
  /\ \A c \in Callers :
       /\ At(c, "locking") /\ values = Nobody => transaction = Nobody
       /\ pc[c] \in {"releasing", "open", "unpausing", "closing"} =>
            outer = c /\ values = c /\ transaction = c
  /\ \A t \in Tasks : step[t] \in {"holding", "updated"} =>
       /\ values = t
       /\ transaction # t =>
            transaction \in Callers /\ pc[transaction] \in {"blocking", "draining"}

\* While a caller has a connection exclusive or a connection state transaction, no
\* thread of a task is alive: the device is the caller's alone, and no task sees the
\* direct task manager and takes the open transaction for its own.
DeviceIsExclusive ==
  exclusive \/ (\E c \in Callers : At(c, "open") /\ kind[c] = "state") => Live(step) = {}

\* No change is lost on the way to transactionFinished: a changed value is in the current
\* values transaction or in a TransactionData whose end will report it, also when a
\* guest changed it or its owner let go of the values in between.
ChangesAreReported == unreported \subseteq changes \cup UNION {saved[a] : a \in Actors}

\* Whoever owns the transaction, or has let go of it and not told of its changes.
Owing ==
  {a \in Actors : a = transaction}
    \cup {c \in Callers : pc[c] \in {"unlocking", "reporting"}}
    \cup {t \in Tasks : step[t] = "reporting"}

Holder == IF transaction \in Callers THEN transaction ELSE Nobody

Usage ==
  IF Holder = Nobody \/ ~At(Holder, "open") THEN "none"
  ELSE IF exclusive \/ kind[Holder] = "state" THEN "alone" ELSE "shared"

Service == INSTANCE TransactionService WITH
  Caller <- Callers, Task <- Tasks,
  holder <- Holder, use <- Usage, working <- Live(step), owing <- Owing

\* The two mutexes, the hand-over of the values and the blocks of the task manager give
\* what TransactionService promises: between two uses of an open transaction the values
\* change by tasks, during a use only by its caller; whoever has the device alone meets
\* no task; and when the last report has been given, no change is left untold, wherever
\* guests and owners have put them in between.
ImplementsService == Service!Spec

\* A caller that has the outer mutex gets its transaction: neither the drain of the task
\* manager nor the values mutex can keep it waiting for ever.
OpeningEnds == \A c \in Callers : At(c, "locking") ~> At(c, "open")

=============================================================================
