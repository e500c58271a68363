------------------------- MODULE TransactionsProofs -------------------------
(***************************************************************************)
(* Proofs about the transactions, for any callers, tasks and dependent     *)
(* properties.  IInv ties the three locks, the two blocks of the task      *)
(* manager and the steps of its tasks to where the caller that has the     *)
(* outer mutex is; it is kept by every step, and the properties of         *)
(* Transactions follow from it.  With Debts, which says who will report    *)
(* what is saved, it also gives the refinement of TransactionService.  Last *)
(* comes that a caller that drains waits for work that only becomes less.  *)
(***************************************************************************)
EXTENDS Transactions, TLAPS

----------------------------------------------------------------------------
(* The inductive invariant *)

Types ==
  /\ outer \in Callers \cup {Nobody}
  /\ values \in Actors \cup {Nobody} /\ transaction \in Actors \cup {Nobody}
  /\ pc \in [Callers -> CallerPC] /\ kind \in [Callers -> Kinds]
  /\ step \in [Tasks -> TaskStep]
  /\ exclusive \in BOOLEAN /\ blockAdding \in BOOLEAN /\ blockRunning \in BOOLEAN
  /\ changes \in SUBSET Tasks /\ unreported \in SUBSET Tasks
  /\ saved \in [Actors -> SUBSET Tasks]

\* Where a caller has the outer mutex, the mutex of the values, the transaction.
OuterPC       == {"locking", "releasing", "blocking", "draining", "relocking", "open",
                  "unpausing", "closing"}
ValuesPC      == {"releasing", "open", "unpausing", "closing", "unlocking"}
TransactionPC == OuterPC \ {"locking"}

\* Where the tasks may be blocked, and where a transaction has the manager of the tasks.
BlockedPC == {"draining", "relocking", "open", "unpausing"}
DrainPC   == {"releasing", "blocking", "draining", "relocking", "unpausing"}

\* Each lock is held by whoever is where it is needed; the owner of the transaction is a
\* caller, or a task with the values.
Owners ==
  /\ \A c \in Callers : pc[c] \in OuterPC <=> outer = c
  /\ \A c \in Callers : pc[c] \in ValuesPC <=> values = c
  /\ \A c \in Callers : pc[c] \in TransactionPC <=> transaction = c
  /\ \A t \in Tasks : step[t] \in {"holding", "updated"} <=> values = t
  /\ \A t \in Tasks : transaction = t => values = t
  /\ \A t \in Tasks : values = t => transaction # Nobody

\* Which blocks the caller with the outer mutex has put on the task manager.
Blocks ==
  /\ \A c \in Callers : pc[c] \in DrainPC => kind[c] \in {"exclusive", "state"}
  /\ \A c \in Callers : pc[c] \in BlockedPC =>
       /\ kind[c] = "state" => blockAdding
       /\ kind[c] = "exclusive" => blockRunning
  /\ \A c \in Callers : pc[c] = "unpausing" => blockRunning
  /\ \A c \in Callers : pc[c] = "open" => (exclusive <=> blockRunning)
  /\ blockAdding =>
       outer \in Callers /\ kind[outer] = "state" /\ pc[outer] \in DrainPC \cup BlockedPC
  /\ blockRunning =>
       outer \in Callers /\ kind[outer] \in {"exclusive", "state"} /\ pc[outer] \in BlockedPC
  /\ exclusive => outer \in Callers /\ pc[outer] = "open"

NothingLive == \A t \in Tasks : step[t] \in {"idle", "waiting"}
AllIdle     == \A t \in Tasks : step[t] = "idle"

\* A drained manager stays drained, and one that neither adds nor runs tasks knows none.
Drained ==
  /\ \A c \in Callers :
       pc[c] = "relocking" \/ (pc[c] \in {"open", "unpausing"} /\ blockRunning) => NothingLive
  /\ \A c \in Callers :
       pc[c] \in DrainPC \cup BlockedPC /\ blockAdding /\ (pc[c] = "draining" => blockRunning) =>
         AllIdle

\* Tasks that may run do not wait beside an idle manager.
NoLostWakeup == ~blockRunning /\ NothingLive => AllIdle

IInv == Types /\ Owners /\ Blocks /\ Drained /\ NoLostWakeup /\ ChangesAreReported

----------------------------------------------------------------------------
(* The task manager *)

\* A scan starts waiting tasks only, none while running is blocked, and leaves no task
\* waiting beside an idle manager.
LEMMA Scan ==
  ASSUME NEW s \in [Tasks -> TaskStep], NEW b \in BOOLEAN, TryRunTasks(s, b)
  PROVE  /\ step' \in [Tasks -> TaskStep]
         /\ \A t \in Tasks : s[t] # "waiting" => step'[t] = s[t]
         /\ \A t \in Tasks : s[t] = "waiting" => step'[t] \in {"waiting", "running"}
         /\ b => step' = s
         /\ ~b /\ NothingLive' => AllIdle'
<1>1. PICK started \in SUBSET Waiting(s) :
        /\ b => started = {}
        /\ ~b /\ Live(s) = {} /\ Waiting(s) # {} => started # {}
        /\ step' = [t \in Tasks |-> IF t \in started THEN "running" ELSE s[t]]
  BY DEF TryRunTasks
<1>2. step' \in [Tasks -> TaskStep]
  BY <1>1 DEF TaskStep
<1>3. \A t \in Tasks : /\ s[t] # "waiting" => step'[t] = s[t]
                       /\ s[t] = "waiting" => step'[t] \in {"waiting", "running"}
  BY <1>1 DEF Waiting
<1>4. b => step' = s
  BY <1>1
<1>5. ASSUME ~b, NothingLive' PROVE AllIdle'
  <2>1. started = {}
    BY <1>1, <1>5 DEF NothingLive, Waiting
  <2>2. step' = s
    BY <1>1, <2>1
  <2>3. Live(s) = {}
    BY <1>5, <2>2 DEF NothingLive, Live
  <2>4. Waiting(s) = {}
    BY <1>1, <1>5, <2>1, <2>3
  <2>5. QED
    BY <1>5, <2>2, <2>4 DEF NothingLive, AllIdle, Waiting
<1>6. QED
  BY <1>2, <1>3, <1>4, <1>5

\* A caller asks for a transaction: it holds nothing yet.
LEMMA AskKeeps ==
  ASSUME IInv, NEW c \in Callers, NEW k \in Kinds, Ask(c, k)
  PROVE  IInv'
<1> USE NobodyAssumption DEF Ask, At, Goto, locks, managerVars, changeVars, Actors
<1>a. Types
  BY DEF IInv
<1>1. Types'
  BY <1>a DEF Types, CallerPC
<1>2. Owners'
  BY <1>a DEF IInv, Owners, OuterPC, ValuesPC, TransactionPC
<1>3. Blocks'
  BY <1>a DEF IInv, Blocks, BlockedPC, DrainPC
<1>4. Drained'
  BY <1>a DEF IInv, Drained, NothingLive, AllIdle, BlockedPC, DrainPC
<1>5. NoLostWakeup'
  BY <1>a DEF IInv, NoLostWakeup, NothingLive, AllIdle
<1>6. ChangesAreReported'
  BY <1>a DEF IInv, ChangesAreReported
<1>7. QED
  BY <1>1, <1>2, <1>3, <1>4, <1>5, <1>6 DEF IInv

\* A caller whose time is over leaves as it came.
LEMMA GiveUpKeeps ==
  ASSUME IInv, NEW c \in Callers, GiveUp(c)
  PROVE  IInv'
<1> USE NobodyAssumption DEF GiveUp, At, Goto, locks, managerVars, changeVars, Actors
<1>a. Types
  BY DEF IInv
<1>1. Types'
  BY <1>a DEF Types, CallerPC
<1>2. Owners'
  BY <1>a DEF IInv, Owners, OuterPC, ValuesPC, TransactionPC
<1>3. Blocks'
  BY <1>a DEF IInv, Blocks, DrainPC
<1>4. Drained'
  BY <1>a DEF IInv, Drained, NothingLive, AllIdle, BlockedPC, DrainPC
<1>5. NoLostWakeup'
  BY <1>a DEF IInv, NoLostWakeup, NothingLive, AllIdle
<1>6. ChangesAreReported'
  BY <1>a DEF IInv, ChangesAreReported
<1>7. QED
  BY <1>1, <1>2, <1>3, <1>4, <1>5, <1>6 DEF IInv

\* The outer mutex is taken by the one caller that gets past it.
LEMMA LockOuterKeeps ==
  ASSUME IInv, NEW c \in Callers, LockOuter(c)
  PROVE  IInv'
<1> USE NobodyAssumption DEF LockOuter, At, Goto, locks, managerVars, changeVars, Actors
<1>a. Types
  BY DEF IInv
<1>1. Types'
  BY <1>a DEF Types, CallerPC
<1>2. Owners'
  BY <1>a DEF IInv, Types, Owners, OuterPC, ValuesPC, TransactionPC
<1>3. Blocks'
  BY <1>a DEF IInv, Blocks, BlockedPC, DrainPC
<1>4. Drained'
  BY <1>a DEF IInv, Owners, Drained, OuterPC, BlockedPC, DrainPC
<1>5. NoLostWakeup'
  BY <1>a DEF IInv, NoLostWakeup, NothingLive, AllIdle
<1>6. ChangesAreReported'
  BY <1>a DEF IInv, ChangesAreReported
<1>7. QED
  BY <1>1, <1>2, <1>3, <1>4, <1>5, <1>6 DEF IInv

\* The mutex of the values is taken, and with it the transaction.
LEMMA LockValuesKeeps ==
  ASSUME IInv, NEW c \in Callers, LockValues(c)
  PROVE  IInv'
<1> USE NobodyAssumption DEF LockValues, At, Goto, locks, managerVars, changeVars, Actors
<1>a. Types
  BY DEF IInv
<1>1. Types'
  BY <1>a DEF Types, CallerPC
<1>2. Owners'
  BY <1>a DEF IInv, Types, Owners, OuterPC, ValuesPC, TransactionPC
<1>3. Blocks'
  BY <1>a DEF IInv, Types, Owners, Blocks, OuterPC, BlockedPC, DrainPC, Kinds
<1>4. Drained'
  BY <1>a DEF IInv, Owners, Blocks, Drained, OuterPC, BlockedPC, DrainPC
<1>5. NoLostWakeup'
  BY <1>a DEF IInv, NoLostWakeup, NothingLive, AllIdle
<1>6. ChangesAreReported'
  BY <1>a DEF IInv, ChangesAreReported
<1>7. QED
  BY <1>1, <1>2, <1>3, <1>4, <1>5, <1>6 DEF IInv

\* The values are given up so that the tasks can finish.
LEMMA SetNoValuesTransactionKeeps ==
  ASSUME IInv, NEW c \in Callers, SetNoValuesTransaction(c)
  PROVE  IInv'
<1> USE NobodyAssumption DEF SetNoValuesTransaction, At, Goto, ReleaseValues, locks,
      managerVars, changeVars, Actors
<1>a. Types
  BY DEF IInv
<1>1. Types'
  BY <1>a DEF Types, CallerPC
<1>2. Owners'
  BY <1>a DEF IInv, Types, Owners, OuterPC, ValuesPC, TransactionPC
<1>3. Blocks'
  BY <1>a DEF IInv, Blocks, BlockedPC, DrainPC
<1>4. Drained'
  BY <1>a DEF IInv, Owners, Drained, AllIdle, OuterPC, DrainPC
<1>5. NoLostWakeup'
  BY <1>a DEF IInv, NoLostWakeup, NothingLive, AllIdle
<1>6. ChangesAreReported'
  BY <1>a DEF IInv, Types, ChangesAreReported
<1>7. QED
  BY <1>1, <1>2, <1>3, <1>4, <1>5, <1>6 DEF IInv

\* The task manager is blocked; what runs goes on.
LEMMA BlockTasksKeeps ==
  ASSUME IInv, NEW c \in Callers, BlockTasks(c)
  PROVE  IInv'
<1> USE NobodyAssumption DEF BlockTasks, At, Goto, locks, managerVars, changeVars, Actors
<1>a. Types
  BY DEF IInv
<1>1. Types'
  BY <1>a DEF Types, CallerPC
<1>2. Owners'
  BY <1>a DEF IInv, Owners, OuterPC, ValuesPC, TransactionPC
<1>3. Blocks'
  BY <1>a DEF IInv, Types, Owners, Blocks, OuterPC, BlockedPC, DrainPC
<1>4. Drained'
  BY <1>a DEF IInv, Types, Owners, Blocks, Drained, AllIdle, OuterPC, BlockedPC, DrainPC
<1>5. NoLostWakeup'
  BY <1>a DEF IInv, NoLostWakeup, NothingLive, AllIdle
<1>6. ChangesAreReported'
  BY <1>a DEF IInv, ChangesAreReported
<1>7. QED
  BY <1>1, <1>2, <1>3, <1>4, <1>5, <1>6 DEF IInv

\* The caller waits until what the manager may still run has ended.
LEMMA FinishTasksKeeps ==
  ASSUME IInv, NEW c \in Callers, FinishTasks(c)
  PROVE  IInv'
<1> USE NobodyAssumption DEF FinishTasks, At, Goto, Live, locks, managerVars, changeVars, Actors
<1>a. Types
  BY DEF IInv
<1>1. Types'
  BY <1>a DEF Types, CallerPC
<1>2. Owners'
  BY <1>a DEF IInv, Owners, OuterPC, ValuesPC, TransactionPC
<1>3. Blocks'
  BY <1>a DEF IInv, Blocks, BlockedPC, DrainPC
<1>4. Drained'
  BY <1>a DEF IInv, Drained, NoLostWakeup, NothingLive, AllIdle, BlockedPC
<1>5. NoLostWakeup'
  BY <1>a DEF IInv, NoLostWakeup, NothingLive, AllIdle
<1>6. ChangesAreReported'
  BY <1>a DEF IInv, ChangesAreReported
<1>7. QED
  BY <1>1, <1>2, <1>3, <1>4, <1>5, <1>6 DEF IInv

\* The values are taken again, the manager being drained.
LEMMA SetValuesTransactionKeeps ==
  ASSUME IInv, NEW c \in Callers, SetValuesTransaction(c)
  PROVE  IInv'
<1> USE NobodyAssumption DEF SetValuesTransaction, At, Goto, locks, managerVars, changeVars,
      Actors
<1>a. Types
  BY DEF IInv
<1>1. Types'
  BY <1>a DEF Types, CallerPC
<1>2. Owners'
  BY <1>a DEF IInv, Types, Owners, OuterPC, ValuesPC, TransactionPC
<1>3. Blocks'
  BY <1>a DEF IInv, Types, Owners, Blocks, OuterPC, BlockedPC, DrainPC
<1>4. Drained'
  BY <1>a DEF IInv, Drained, NothingLive, AllIdle, BlockedPC
<1>5. NoLostWakeup'
  BY <1>a DEF IInv, NoLostWakeup, NothingLive, AllIdle
<1>6. ChangesAreReported'
  BY <1>a DEF IInv, ChangesAreReported
<1>7. QED
  BY <1>1, <1>2, <1>3, <1>4, <1>5, <1>6 DEF IInv

\* A task is added to the manager from an open transaction.
LEMMA AddTaskKeeps ==
  ASSUME IInv, NEW c \in Callers, NEW t \in Tasks, AddTask(c, t)
  PROVE  IInv'
<1> USE NobodyAssumption DEF AddTask, At, Goto, locks, managerVars, changeVars, Actors
<1>a. Types
  BY DEF IInv
<1>0. /\ step' \in [Tasks -> TaskStep]
      /\ \A u \in Tasks : Added({t})[u] # "waiting" => step'[u] = Added({t})[u]
      /\ \A u \in Tasks : Added({t})[u] = "waiting" => step'[u] \in {"waiting", "running"}
      /\ blockRunning => step' = Added({t})
      /\ ~blockRunning /\ NothingLive' => AllIdle'
  <2>1. Added({t}) \in [Tasks -> TaskStep] /\ blockRunning \in BOOLEAN
    BY <1>a DEF Types, Added, TaskStep
  <2>2. QED
    BY <2>1, Scan
<1>1. Types'
  BY <1>0, <1>a DEF Types
<1>2. Owners'
  BY <1>0, <1>a DEF IInv, Owners, Added
<1>3. Blocks'
  BY <1>0, <1>a DEF IInv, Blocks
<1>4. Drained'
  BY <1>0, <1>a DEF IInv, Owners, Blocks, Drained, AllIdle, OuterPC, Added
<1>5. NoLostWakeup'
  BY <1>0, <1>a DEF IInv, NoLostWakeup
<1>6. ChangesAreReported'
  BY <1>a DEF IInv, ChangesAreReported
<1>7. QED
  BY <1>1, <1>2, <1>3, <1>4, <1>5, <1>6 DEF IInv

\* An exclusive transaction runs a task in its own thread.
LEMMA RunDirectlyKeeps ==
  ASSUME IInv, NEW c \in Callers, NEW t \in Tasks, RunDirectly(c, t)
  PROVE  IInv'
<1> USE NobodyAssumption DEF RunDirectly, At, Goto, Change, locks, managerVars, changeVars,
      Actors
<1>a. Types
  BY DEF IInv
<1>1. Types'
  BY <1>a DEF Types
<1>2. Owners'
  BY <1>a DEF IInv, Owners
<1>3. Blocks'
  BY <1>a DEF IInv, Blocks
<1>4. Drained'
  BY <1>a DEF IInv, Drained, NothingLive, AllIdle
<1>5. NoLostWakeup'
  BY <1>a DEF IInv, Blocks, NoLostWakeup
<1>6. ChangesAreReported'
  BY <1>a DEF IInv, ChangesAreReported
<1>7. QED
  BY <1>1, <1>2, <1>3, <1>4, <1>5, <1>6 DEF IInv

\* A caller changes a value without the device.
LEMMA ResetValueKeeps ==
  ASSUME IInv, NEW c \in Callers, NEW t \in Tasks, ResetValue(c, t)
  PROVE  IInv'
<1> USE NobodyAssumption DEF ResetValue, At, Goto, Change, locks, managerVars, changeVars,
      Actors
<1>a. Types
  BY DEF IInv
<1>1. Types'
  BY <1>a DEF Types
<1>2. Owners'
  BY <1>a DEF IInv, Owners
<1>3. Blocks'
  BY <1>a DEF IInv, Blocks
<1>4. Drained'
  BY <1>a DEF IInv, Drained, NothingLive, AllIdle
<1>5. NoLostWakeup'
  BY <1>a DEF IInv, NoLostWakeup, NothingLive, AllIdle
<1>6. ChangesAreReported'
  BY <1>a DEF IInv, ChangesAreReported
<1>7. QED
  BY <1>1, <1>2, <1>3, <1>4, <1>5, <1>6 DEF IInv

\* A state transaction makes an exclusive one inside itself.
LEMMA CreateConnectionExclusiveTransactionKeeps ==
  ASSUME IInv, NEW c \in Callers, CreateConnectionExclusiveTransaction(c)
  PROVE  IInv'
<1> USE NobodyAssumption DEF CreateConnectionExclusiveTransaction, At, Goto, locks,
      managerVars, changeVars, Actors
<1>a. Types
  BY DEF IInv
<1>1. Types'
  BY <1>a DEF Types, CallerPC
<1>2. Owners'
  BY <1>a DEF IInv, Owners, OuterPC, ValuesPC, TransactionPC
<1>3. Blocks'
  BY <1>a DEF IInv, Blocks, BlockedPC, DrainPC
<1>4. Drained'
  BY <1>a DEF IInv, Types, Owners, Drained, AllIdle, OuterPC, BlockedPC
<1>5. NoLostWakeup'
  BY <1>a DEF IInv, NoLostWakeup, NothingLive, AllIdle
<1>6. ChangesAreReported'
  BY <1>a DEF IInv, ChangesAreReported
<1>7. QED
  BY <1>1, <1>2, <1>3, <1>4, <1>5, <1>6 DEF IInv

\* A state transaction lets tasks be added again at its end.
LEMMA UnblockAddingTasksKeeps ==
  ASSUME IInv, NEW c \in Callers, UnblockAddingTasks(c)
  PROVE  IInv'
<1> USE NobodyAssumption DEF UnblockAddingTasks, At, Goto, locks, managerVars, changeVars,
      Actors
<1>a. Types
  BY DEF IInv
<1>1. Types'
  BY <1>a DEF Types, Kinds
<1>2. Owners'
  BY <1>a DEF IInv, Owners
<1>3. Blocks'
  BY <1>a DEF IInv, Types, Owners, Blocks, OuterPC, BlockedPC
<1>4. Drained'
  BY <1>a DEF IInv, Drained, NothingLive
<1>5. NoLostWakeup'
  BY <1>a DEF IInv, Blocks, NoLostWakeup
<1>6. ChangesAreReported'
  BY <1>a DEF IInv, ChangesAreReported
<1>7. QED
  BY <1>1, <1>2, <1>3, <1>4, <1>5, <1>6 DEF IInv

\* The exclusive manager of an open transaction goes.
LEMMA ResetExclusiveTaskManagerKeeps ==
  ASSUME IInv, NEW c \in Callers, ResetExclusiveTaskManager(c)
  PROVE  IInv'
<1> USE NobodyAssumption DEF ResetExclusiveTaskManager, At, Goto, locks, managerVars,
      changeVars, Actors
<1>a. Types
  BY DEF IInv
<1>1. Types'
  BY <1>a DEF Types, CallerPC
<1>2. Owners'
  BY <1>a DEF IInv, Owners, OuterPC, ValuesPC, TransactionPC
<1>3. Blocks'
  BY <1>a DEF IInv, Types, Owners, Blocks, BlockedPC
<1>4. Drained'
  BY <1>a DEF IInv, Drained, NothingLive, AllIdle, BlockedPC
<1>5. NoLostWakeup'
  BY <1>a DEF IInv, Blocks, NoLostWakeup
<1>6. ChangesAreReported'
  BY <1>a DEF IInv, ChangesAreReported
<1>7. QED
  BY <1>1, <1>2, <1>3, <1>4, <1>5, <1>6 DEF IInv

\* Running tasks is allowed again: what waited is scanned.
LEMMA UnblockRunningTasksKeeps ==
  ASSUME IInv, NEW c \in Callers, UnblockRunningTasks(c)
  PROVE  IInv'
<1> USE NobodyAssumption DEF UnblockRunningTasks, At, Goto, locks, managerVars, changeVars,
      Actors
<1>a. Types
  BY DEF IInv
<1>0. /\ step' \in [Tasks -> TaskStep]
      /\ \A u \in Tasks : step[u] # "waiting" => step'[u] = step[u]
      /\ \A u \in Tasks : step[u] = "waiting" => step'[u] \in {"waiting", "running"}
      /\ NothingLive' => AllIdle'
  <2>1. step \in [Tasks -> TaskStep]
    BY <1>a DEF Types
  <2>2. QED
    BY <2>1, Scan
<1>1. Types'
  BY <1>0, <1>a DEF Types, CallerPC
<1>2. Owners'
  BY <1>0, <1>a DEF IInv, Owners, OuterPC, ValuesPC, TransactionPC
<1>3. Blocks'
  BY <1>0, <1>a DEF IInv, Types, Owners, Blocks, OuterPC, BlockedPC
<1>4. Drained'
  BY <1>0, <1>a DEF IInv, Owners, Drained, AllIdle, OuterPC, BlockedPC
<1>5. NoLostWakeup'
  BY <1>0, <1>a DEF IInv, NoLostWakeup
<1>6. ChangesAreReported'
  BY <1>a DEF IInv, ChangesAreReported
<1>7. QED
  BY <1>1, <1>2, <1>3, <1>4, <1>5, <1>6 DEF IInv

\* The transaction of the values is saved and closed.
LEMMA CloseKeeps ==
  ASSUME IInv, NEW c \in Callers, Close(c)
  PROVE  IInv'
<1> USE NobodyAssumption DEF Close, At, Goto, locks, managerVars, changeVars, Actors
<1>a. Types
  BY DEF IInv
<1>1. Types'
  BY <1>a DEF Types, CallerPC
<1>2. Owners'
  BY <1>a DEF IInv, Owners, OuterPC, ValuesPC, TransactionPC
<1>3. Blocks'
  BY <1>a DEF IInv, Blocks, DrainPC
<1>4. Drained'
  BY <1>a DEF IInv, Types, Owners, Drained, OuterPC, BlockedPC, DrainPC
<1>5. NoLostWakeup'
  BY <1>a DEF IInv, NoLostWakeup, NothingLive, AllIdle
<1>6. ChangesAreReported'
  BY <1>a DEF IInv, ChangesAreReported
<1>7. QED
  BY <1>1, <1>2, <1>3, <1>4, <1>5, <1>6 DEF IInv

\* The outer mutex is given back.
LEMMA UnlockOuterKeeps ==
  ASSUME IInv, NEW c \in Callers, UnlockOuter(c)
  PROVE  IInv'
<1> USE NobodyAssumption DEF UnlockOuter, At, Goto, locks, managerVars, changeVars, Actors
<1>a. Types
  BY DEF IInv
<1>1. Types'
  BY <1>a DEF Types, CallerPC
<1>2. Owners'
  BY <1>a DEF IInv, Types, Owners, OuterPC, ValuesPC, TransactionPC
<1>3. Blocks'
  BY <1>a DEF IInv, Owners, Blocks, OuterPC, BlockedPC, DrainPC
<1>4. Drained'
  BY <1>a DEF IInv, Owners, Drained, OuterPC, BlockedPC, DrainPC
<1>5. NoLostWakeup'
  BY <1>a DEF IInv, NoLostWakeup, NothingLive, AllIdle
<1>6. ChangesAreReported'
  BY <1>a DEF IInv, ChangesAreReported
<1>7. QED
  BY <1>1, <1>2, <1>3, <1>4, <1>5, <1>6 DEF IInv

\* The mutex of the values is given back.
LEMMA UnlockValuesKeeps ==
  ASSUME IInv, NEW c \in Callers, UnlockValues(c)
  PROVE  IInv'
<1> USE NobodyAssumption DEF UnlockValues, At, Goto, ReleaseValues, locks, managerVars,
      changeVars, Actors
<1>a. Types
  BY DEF IInv
<1>1. Types'
  BY <1>a DEF Types, CallerPC
<1>2. Owners'
  BY <1>a DEF IInv, Types, Owners, OuterPC, ValuesPC, TransactionPC
<1>3. Blocks'
  BY <1>a DEF IInv, Blocks, BlockedPC, DrainPC
<1>4. Drained'
  BY <1>a DEF IInv, Drained, NothingLive, AllIdle, BlockedPC, DrainPC
<1>5. NoLostWakeup'
  BY <1>a DEF IInv, NoLostWakeup, NothingLive, AllIdle
<1>6. ChangesAreReported'
  BY <1>a DEF IInv, Types, ChangesAreReported
<1>7. QED
  BY <1>1, <1>2, <1>3, <1>4, <1>5, <1>6 DEF IInv

\* The changes of a transaction are reported.
LEMMA ReportKeeps ==
  ASSUME IInv, NEW c \in Callers, Report(c)
  PROVE  IInv'
<1> USE NobodyAssumption DEF Report, At, Goto, TransactionFinished, locks, managerVars,
      changeVars, Actors
<1>a. Types
  BY DEF IInv
<1>1. Types'
  BY <1>a DEF Types, CallerPC
<1>2. Owners'
  BY <1>a DEF IInv, Owners, OuterPC, ValuesPC, TransactionPC
<1>3. Blocks'
  BY <1>a DEF IInv, Blocks, BlockedPC, DrainPC
<1>4. Drained'
  BY <1>a DEF IInv, Drained, NothingLive, AllIdle, BlockedPC, DrainPC
<1>5. NoLostWakeup'
  BY <1>a DEF IInv, NoLostWakeup, NothingLive, AllIdle
<1>6. ChangesAreReported'
  BY <1>a DEF IInv, ChangesAreReported
<1>7. QED
  BY <1>1, <1>2, <1>3, <1>4, <1>5, <1>6 DEF IInv

\* A task accesses the device without the values.
LEMMA AccessDeviceKeeps ==
  ASSUME IInv, NEW t \in Tasks, AccessDevice(t)
  PROVE  IInv'
<1> USE NobodyAssumption DEF AccessDevice, AtStep, GotoStep, locks, managerVars, changeVars,
      Actors
<1>a. Types
  BY DEF IInv
<1>1. Types'
  BY <1>a DEF Types, TaskStep
<1>2. Owners'
  BY <1>a DEF IInv, Owners
<1>3. Blocks'
  BY <1>a DEF IInv, Blocks
<1>4. Drained'
  BY <1>a DEF IInv, Drained, NothingLive, AllIdle
<1>5. NoLostWakeup'
  BY <1>a DEF IInv, NoLostWakeup, NothingLive
<1>6. ChangesAreReported'
  BY <1>a DEF IInv, ChangesAreReported
<1>7. QED
  BY <1>1, <1>2, <1>3, <1>4, <1>5, <1>6 DEF IInv

\* A task takes the values, or is the guest of a transaction that gave them up.
LEMMA GetTaskResultTransactionKeeps ==
  ASSUME IInv, NEW t \in Tasks, GetTaskResultTransaction(t)
  PROVE  IInv'
<1> USE NobodyAssumption DEF GetTaskResultTransaction, AtStep, GotoStep, locks, managerVars,
      changeVars, Actors
<1>a. Types
  BY DEF IInv
<1>1. Types'
  BY <1>a DEF Types, TaskStep
<1>2. Owners'
  BY <1>a DEF IInv, Types, Owners
<1>3. Blocks'
  BY <1>a DEF IInv, Blocks
<1>4. Drained'
  BY <1>a DEF IInv, Drained, NothingLive, AllIdle
<1>5. NoLostWakeup'
  BY <1>a DEF IInv, NoLostWakeup, NothingLive
<1>6. ChangesAreReported'
  BY <1>a DEF IInv, ChangesAreReported
<1>7. QED
  BY <1>1, <1>2, <1>3, <1>4, <1>5, <1>6 DEF IInv

\* A task updates its value and adds the tasks of its dependents.
LEMMA UpdateValueKeeps ==
  ASSUME IInv, NEW t \in Tasks, UpdateValue(t)
  PROVE  IInv'
<1> USE NobodyAssumption DEF UpdateValue, AtStep, GotoStep, Change, locks, managerVars,
      changeVars, Actors
<1>a. Types
  BY DEF IInv
<1> DEFINE s == [Added(Dependents[t]) EXCEPT ![t] = "updated"]
<1>0. /\ step' \in [Tasks -> TaskStep]
      /\ \A u \in Tasks : s[u] # "waiting" => step'[u] = s[u]
      /\ \A u \in Tasks : s[u] = "waiting" => step'[u] \in {"waiting", "running"}
      /\ blockRunning => step' = s
      /\ ~blockRunning /\ NothingLive' => AllIdle'
  <2>1. s \in [Tasks -> TaskStep] /\ blockRunning \in BOOLEAN
    BY <1>a DEF Types, Added, TaskStep
  <2>2. QED
    BY <2>1, Scan
<1>1. Types'
  BY <1>0, <1>a DEF Types
<1>2. Owners'
  BY <1>0, <1>a DEF IInv, Owners, Added
<1>3. Blocks'
  BY <1>0, <1>a DEF IInv, Blocks
<1>4. Drained'
  BY <1>0, <1>a DEF IInv, Drained, NothingLive, AllIdle
<1>5. NoLostWakeup'
  BY <1>0, <1>a DEF IInv, NoLostWakeup
<1>6. ChangesAreReported'
  BY <1>a DEF IInv, ChangesAreReported
<1>7. QED
  BY <1>1, <1>2, <1>3, <1>4, <1>5, <1>6 DEF IInv

\* A task gives the values back.
LEMMA ReleaseTaskResultTransactionKeeps ==
  ASSUME IInv, NEW t \in Tasks, ReleaseTaskResultTransaction(t)
  PROVE  IInv'
<1> USE NobodyAssumption DEF ReleaseTaskResultTransaction, AtStep, GotoStep, ReleaseValues,
      locks, managerVars, changeVars, Actors
<1>a. Types
  BY DEF IInv
<1>1. Types'
  BY <1>a DEF Types, TaskStep
<1>2. Owners'
  BY <1>a DEF IInv, Types, Owners
<1>3. Blocks'
  BY <1>a DEF IInv, Blocks
<1>4. Drained'
  BY <1>a DEF IInv, Drained, NothingLive, AllIdle
<1>5. NoLostWakeup'
  BY <1>a DEF IInv, Types, NoLostWakeup, NothingLive
<1>6. ChangesAreReported'
  BY <1>a DEF IInv, Types, Owners, ChangesAreReported
<1>7. QED
  BY <1>1, <1>2, <1>3, <1>4, <1>5, <1>6 DEF IInv

\* A task reports the changes it made.
LEMMA ReportResultKeeps ==
  ASSUME IInv, NEW t \in Tasks, ReportResult(t)
  PROVE  IInv'
<1> USE NobodyAssumption DEF ReportResult, AtStep, GotoStep, TransactionFinished, locks,
      managerVars, changeVars, Actors
<1>a. Types
  BY DEF IInv
<1>1. Types'
  BY <1>a DEF Types, TaskStep
<1>2. Owners'
  BY <1>a DEF IInv, Owners
<1>3. Blocks'
  BY <1>a DEF IInv, Blocks
<1>4. Drained'
  BY <1>a DEF IInv, Drained, NothingLive, AllIdle
<1>5. NoLostWakeup'
  BY <1>a DEF IInv, NoLostWakeup, NothingLive
<1>6. ChangesAreReported'
  BY <1>a DEF IInv, ChangesAreReported
<1>7. QED
  BY <1>1, <1>2, <1>3, <1>4, <1>5, <1>6 DEF IInv

\* A finished task leaves the manager, which scans what waits.
LEMMA OnTaskFinishedKeeps ==
  ASSUME IInv, NEW t \in Tasks, OnTaskFinished(t)
  PROVE  IInv'
<1> USE NobodyAssumption DEF OnTaskFinished, AtStep, GotoStep, locks, managerVars, changeVars,
      Actors
<1>a. Types
  BY DEF IInv
<1> DEFINE s == [step EXCEPT ![t] = "idle"]
<1>0. /\ step' \in [Tasks -> TaskStep]
      /\ \A u \in Tasks : s[u] # "waiting" => step'[u] = s[u]
      /\ \A u \in Tasks : s[u] = "waiting" => step'[u] \in {"waiting", "running"}
      /\ blockRunning => step' = s
      /\ ~blockRunning /\ NothingLive' => AllIdle'
  <2>1. s \in [Tasks -> TaskStep] /\ blockRunning \in BOOLEAN
    BY <1>a DEF Types, TaskStep
  <2>2. QED
    BY <2>1, Scan
<1>1. Types'
  BY <1>0, <1>a DEF Types
<1>2. Owners'
  BY <1>0, <1>a DEF IInv, Owners
<1>3. Blocks'
  BY <1>0, <1>a DEF IInv, Blocks
<1>4. Drained'
  BY <1>0, <1>a DEF IInv, Drained, NothingLive, AllIdle
<1>5. NoLostWakeup'
  BY <1>0, <1>a DEF IInv, NoLostWakeup
<1>6. ChangesAreReported'
  BY <1>a DEF IInv, ChangesAreReported
<1>7. QED
  BY <1>1, <1>2, <1>3, <1>4, <1>5, <1>6 DEF IInv

----------------------------------------------------------------------------
(* The invariant *)

\* Nobody has a lock, no task is known and nothing has changed.
LEMMA InitIInv == Init => IInv
<1> SUFFICES ASSUME Init PROVE IInv
  OBVIOUS
<1> USE NobodyAssumption DEF Init
<1>1. Types
  BY DEF Types, Actors, CallerPC, Kinds, TaskStep
<1>2. Owners
  BY DEF Owners, OuterPC, ValuesPC, TransactionPC, Actors
<1>3. Blocks /\ Drained
  BY DEF Blocks, Drained, DrainPC, BlockedPC, NothingLive, AllIdle
<1>4. NoLostWakeup /\ ChangesAreReported
  BY DEF NoLostWakeup, AllIdle, ChangesAreReported
<1>5. QED
  BY <1>1, <1>2, <1>3, <1>4 DEF IInv

\* A step that changes nothing changes nothing.
LEMMA StutterKeeps == IInv /\ UNCHANGED vars => IInv'
BY DEF IInv, Types, Owners, Blocks, Drained, NoLostWakeup, NothingLive, AllIdle,
       ChangesAreReported, vars, locks, managerVars, changeVars, Live

\* Every step is one of the actions above, or changes nothing.
LEMMA NextKeeps == IInv /\ [Next]_vars => IInv'
<1> SUFFICES ASSUME IInv, [Next]_vars PROVE IInv'
  OBVIOUS
<1>1. ASSUME NEW c \in Callers, NEW k \in Kinds, Ask(c, k) PROVE IInv'
  BY <1>1, AskKeeps
<1>2. ASSUME NEW c \in Callers, GiveUp(c) \/ LockOuter(c) PROVE IInv'
  BY <1>2, GiveUpKeeps, LockOuterKeeps
<1>3. ASSUME NEW c \in Callers, Use(c) PROVE IInv'
  BY <1>3, AddTaskKeeps, RunDirectlyKeeps, ResetValueKeeps DEF Use
<1>4. ASSUME NEW c \in Callers, CallerStep(c) PROVE IInv'
  BY <1>4, LockValuesKeeps, SetNoValuesTransactionKeeps, BlockTasksKeeps, FinishTasksKeeps,
     SetValuesTransactionKeeps, UnblockRunningTasksKeeps, UnlockOuterKeeps, UnlockValuesKeeps,
     ReportKeeps DEF CallerStep
<1>5. ASSUME NEW c \in Callers, EndScope(c) PROVE IInv'
  BY <1>5, CloseKeeps, CreateConnectionExclusiveTransactionKeeps, UnblockAddingTasksKeeps,
     ResetExclusiveTaskManagerKeeps DEF EndScope
<1>6. ASSUME NEW t \in Tasks, TaskThread(t) PROVE IInv'
  BY <1>6, AccessDeviceKeeps, GetTaskResultTransactionKeeps, UpdateValueKeeps,
     ReleaseTaskResultTransactionKeeps, ReportResultKeeps, OnTaskFinishedKeeps DEF TaskThread
<1>7. CASE UNCHANGED vars
  BY <1>7, StutterKeeps
<1>8. QED
  BY <1>1, <1>2, <1>3, <1>4, <1>5, <1>6, <1>7 DEF Next

\* IInv holds in every state of every behaviour.
THEOREM Invariance == Spec => []IInv
<1>1. Init => IInv
  BY InitIInv
<1>2. IInv /\ [Next]_vars => IInv'
  BY NextKeeps
<1>3. QED
  BY <1>1, <1>2, PTL DEF Spec

----------------------------------------------------------------------------
(* What follows from it *)

\* When nobody has the values, the one that is about to take them finds no transaction.
LEMMA ValuesFree ==
  ASSUME IInv, NEW c \in Callers, At(c, "locking"), values = Nobody
  PROVE  transaction = Nobody
<1>1. outer = c /\ transaction # c
  BY DEF At, IInv, Owners, OuterPC, TransactionPC
<1>2. transaction \notin Callers
  BY <1>1 DEF IInv, Owners, OuterPC, TransactionPC
<1>3. transaction \notin Tasks
  BY NobodyAssumption DEF IInv, Owners
<1> QED BY <1>2, <1>3 DEF IInv, Types, Actors

\* For any number of callers and tasks the assertions of properties.cpp on
\* m_transactionData hold: each transaction is opened where there is none, owns the
\* values while it is open, and lets only the tasks it waits for in as its guests.
THEOREM ValuesAreOwned == Spec => []ValuesOwned
<1>1. ASSUME IInv, NEW c \in Callers PROVE
        /\ At(c, "locking") /\ values = Nobody => transaction = Nobody
        /\ pc[c] \in {"releasing", "open", "unpausing", "closing"} =>
             outer = c /\ values = c /\ transaction = c
  <2>1. At(c, "locking") /\ values = Nobody => transaction = Nobody
    BY <1>1, ValuesFree
  <2>2. QED
    BY <1>1, <2>1 DEF IInv, Owners, OuterPC, ValuesPC, TransactionPC
<1>2. ASSUME IInv, NEW t \in Tasks, step[t] \in {"holding", "updated"} PROVE
        /\ values = t
        /\ transaction # t =>
             transaction \in Callers /\ pc[transaction] \in {"blocking", "draining"}
  <2>1. values = t /\ transaction # Nobody
    BY <1>2 DEF IInv, Owners
  <2>2. ASSUME transaction # t PROVE transaction \in Callers
    BY <1>2, <2>1, <2>2 DEF IInv, Types, Owners, Actors
  <2>3. ASSUME transaction # t PROVE pc[transaction] \in {"blocking", "draining"}
    <3>1. PICK c \in Callers : c = transaction
      BY <2>2, <2>3
    <3>2. pc[c] \in TransactionPC /\ pc[c] \notin ValuesPC
      BY <1>2, <2>1, <3>1, NobodyAssumption DEF IInv, Owners
    <3>3. pc[c] # "relocking"
      BY <1>2 DEF IInv, Drained, NothingLive
    <3>4. QED
      BY <3>1, <3>2, <3>3 DEF TransactionPC, OuterPC, ValuesPC
  <2>4. QED
    BY <2>1, <2>2, <2>3
<1>3. IInv => ValuesOwned
  BY <1>1, <1>2 DEF ValuesOwned
<1>4. QED
  BY <1>3, Invariance, PTL

\* Where the device is a caller's alone, the manager has been drained.
LEMMA AloneWithDevice == IInv => DeviceIsExclusive
<1>1. ASSUME IInv, exclusive PROVE Live(step) = {}
  <2>1. outer \in Callers /\ pc[outer] = "open" /\ blockRunning
    BY <1>1 DEF IInv, Blocks
  <2>2. NothingLive
    BY <1>1, <2>1 DEF IInv, Drained
  <2>3. QED
    BY <2>2 DEF NothingLive, Live
<1>2. ASSUME IInv, NEW c \in Callers, At(c, "open"), kind[c] = "state" PROVE Live(step) = {}
  <2>1. blockAdding
    BY <1>2 DEF At, IInv, Blocks, BlockedPC
  <2>2. AllIdle
    BY <1>2, <2>1 DEF At, IInv, Drained, BlockedPC
  <2>3. QED
    BY <2>2 DEF AllIdle, Live
<1> QED BY <1>1, <1>2 DEF DeviceIsExclusive

\* For any number of callers and tasks, whoever has a connection exclusive or connection
\* state transaction is alone with the device: no thread of a task is left.
THEOREM ExclusiveIsAlone == Spec => []DeviceIsExclusive
BY AloneWithDevice, Invariance, PTL

\* For any number of callers and tasks, no change of a value is lost between the
\* transaction that makes it and the signal transactionFinished.
THEOREM NoChangeIsLost == Spec => []ChangesAreReported
<1>1. IInv => ChangesAreReported
  BY DEF IInv
<1>2. QED
  BY <1>1, Invariance, PTL

----------------------------------------------------------------------------
(* The transactions implement TransactionService *)

\* A change that is not reported is with whoever has the values, or saved for one that
\* owes a report.
Debts ==
  /\ changes # {} => values # Nobody
  /\ \A a \in Actors : saved[a] # {} => a \in Owing

\* Whoever owes a report goes on to owe it.
LEMMA DebtsStay ==
  ASSUME IInv, Debts, UNCHANGED <<values, transaction, changes, saved>>,
         \A c \in Callers : pc[c] \in {"unlocking", "reporting"} => pc'[c] = pc[c],
         \A t \in Tasks : step[t] = "reporting" => step'[t] = "reporting"
  PROVE  Debts'
BY DEF Debts, Owing

\* The steps of a caller that leave the values and what is saved alone.
LEMMA CallerKeepsDebts ==
  ASSUME IInv, Debts, NEW c \in Callers,
         \/ \E k \in Kinds : Ask(c, k)
         \/ GiveUp(c) \/ LockOuter(c) \/ BlockTasks(c) \/ FinishTasks(c)
         \/ CreateConnectionExclusiveTransaction(c) \/ UnblockAddingTasks(c)
         \/ ResetExclusiveTaskManager(c) \/ Close(c)
  PROVE  Debts'
<1>1. UNCHANGED <<values, transaction, changes, saved, step>>
  BY DEF Ask, GiveUp, LockOuter, BlockTasks, FinishTasks, CreateConnectionExclusiveTransaction,
         UnblockAddingTasks, ResetExclusiveTaskManager, Close, locks, managerVars, changeVars
<1>2. \A d \in Callers : pc[d] \in {"unlocking", "reporting"} => pc'[d] = pc[d]
  BY DEF IInv, Types, Ask, GiveUp, LockOuter, BlockTasks, FinishTasks,
         CreateConnectionExclusiveTransaction, UnblockAddingTasks, ResetExclusiveTaskManager,
         Close, At, Goto
<1> QED BY <1>1, <1>2, DebtsStay

\* A scan of the tasks that wait.
LEMMA ScanKeepsReporting ==
  ASSUME NEW s \in [Tasks -> TaskStep], NEW b \in BOOLEAN, TryRunTasks(s, b),
         NEW t \in Tasks, s[t] = "reporting"
  PROVE  step'[t] = "reporting"
BY Scan

\* Every step keeps what is owed.
LEMMA DebtsKept == IInv /\ Debts /\ [Next]_vars => Debts'
<1> SUFFICES ASSUME IInv, Debts, [Next]_vars PROVE Debts'
  OBVIOUS
<1> USE NobodyAssumption DEF Actors
<1>a. Types /\ Owners
  BY DEF IInv
<1>1. ASSUME NEW c \in Callers,
             \/ \E k \in Kinds : Ask(c, k)
             \/ GiveUp(c) \/ LockOuter(c) \/ BlockTasks(c) \/ FinishTasks(c) \/ EndScope(c)
      PROVE  Debts'
  BY <1>1, CallerKeepsDebts DEF EndScope
<1>2. ASSUME NEW c \in Callers, NEW t \in Tasks, AddTask(c, t) PROVE Debts'
  <2>1. Added({t}) \in [Tasks -> TaskStep] /\ blockRunning \in BOOLEAN
    BY <1>a DEF Types, Added, TaskStep
  <2>2. \A u \in Tasks : step[u] = "reporting" => step'[u] = "reporting"
    BY <1>2, <2>1, ScanKeepsReporting DEF AddTask, Added
  <2> QED BY <1>2, <2>2, DebtsStay DEF AddTask, locks, changeVars
<1>3. ASSUME NEW c \in Callers, NEW t \in Tasks, RunDirectly(c, t) \/ ResetValue(c, t)
      PROVE  Debts'
  <2>1. values = c
    BY <1>3, <1>a DEF RunDirectly, ResetValue, At, Owners, ValuesPC
  <2> QED BY <1>3, <2>1
          DEF RunDirectly, ResetValue, Change, Debts, Owing, locks, managerVars
<1>4. ASSUME NEW c \in Callers, LockValues(c) PROVE Debts'
  <2>1. transaction = Nobody
    BY <1>4, ValuesFree DEF LockValues
  <2> QED BY <1>4, <1>a, <2>1
          DEF LockValues, At, Goto, Debts, Owing, Types, managerVars, changeVars
<1>5. ASSUME NEW c \in Callers, SetNoValuesTransaction(c) PROVE Debts'
  <2>1. transaction = c
    BY <1>5, <1>a DEF SetNoValuesTransaction, At, Owners, TransactionPC, OuterPC
  <2> QED BY <1>5, <1>a, <2>1
          DEF SetNoValuesTransaction, At, Goto, ReleaseValues, Debts, Owing, Types, managerVars
<1>6. ASSUME NEW c \in Callers, SetValuesTransaction(c) PROVE Debts'
  BY <1>6, <1>a DEF SetValuesTransaction, At, Goto, Debts, Owing, Types, managerVars, changeVars
<1>7. ASSUME NEW c \in Callers, UnblockRunningTasks(c) PROVE Debts'
  <2>1. \A u \in Tasks : step[u] = "reporting" => step'[u] = "reporting"
    BY <1>7, <1>a, ScanKeepsReporting DEF UnblockRunningTasks, Types
  <2>2. \A d \in Callers : pc[d] \in {"unlocking", "reporting"} => pc'[d] = pc[d]
    BY <1>7, <1>a DEF UnblockRunningTasks, At, Goto, Types
  <2> QED BY <1>7, <2>1, <2>2, DebtsStay DEF UnblockRunningTasks, locks, changeVars
<1>8. ASSUME NEW c \in Callers, UnlockOuter(c) PROVE Debts'
  <2>1. transaction = c
    BY <1>8, <1>a DEF UnlockOuter, At, Owners, TransactionPC, OuterPC
  <2> QED BY <1>8, <1>a, <2>1
          DEF UnlockOuter, At, Goto, Debts, Owing, Types, managerVars, changeVars
<1>9. ASSUME NEW c \in Callers, UnlockValues(c) PROVE Debts'
  BY <1>9, <1>a DEF UnlockValues, At, Goto, ReleaseValues, Debts, Owing, Types, managerVars
<1>10. ASSUME NEW c \in Callers, Report(c) PROVE Debts'
  BY <1>10, <1>a DEF Report, At, Goto, TransactionFinished, Debts, Owing, Types, locks, managerVars
<1>11. ASSUME NEW t \in Tasks, AccessDevice(t) PROVE Debts'
  BY <1>11, <1>a, DebtsStay DEF AccessDevice, AtStep, GotoStep, Types, locks, changeVars
<1>12. ASSUME NEW t \in Tasks, GetTaskResultTransaction(t) PROVE Debts'
  BY <1>12, <1>a DEF GetTaskResultTransaction, AtStep, GotoStep, Debts, Owing, Types, changeVars
<1>13. ASSUME NEW t \in Tasks, UpdateValue(t) PROVE Debts'
  <2> DEFINE s == [Added(Dependents[t]) EXCEPT ![t] = "updated"]
  <2>1. s \in [Tasks -> TaskStep] /\ blockRunning \in BOOLEAN /\ TryRunTasks(s, blockRunning)
    BY <1>13, <1>a DEF UpdateValue, Types, Added, TaskStep
  <2>2. \A u \in Tasks : step[u] = "reporting" => s[u] = "reporting"
    BY <1>13, <1>a DEF UpdateValue, AtStep, Types, Added
  <2> HIDE DEF s
  <2>3. \A u \in Tasks : step[u] = "reporting" => step'[u] = "reporting"
    BY <2>1, <2>2, ScanKeepsReporting
  <2>4. values = t
    BY <1>13, <1>a DEF UpdateValue, AtStep, Owners
  <2> QED BY <1>13, <2>3, <2>4 DEF UpdateValue, Change, Debts, Owing, locks
<1>14. ASSUME NEW t \in Tasks, ReleaseTaskResultTransaction(t) PROVE Debts'
  <2>1. transaction \in Actors
    BY <1>14, <1>a DEF ReleaseTaskResultTransaction, AtStep, Types, Owners
  <2> QED BY <1>14, <1>a, <2>1
          DEF ReleaseTaskResultTransaction, AtStep, GotoStep, ReleaseValues, Debts, Owing, Types
<1>15. ASSUME NEW t \in Tasks, ReportResult(t) PROVE Debts'
  BY <1>15, <1>a
     DEF ReportResult, AtStep, GotoStep, TransactionFinished, Debts, Owing, Types, locks
<1>16. ASSUME NEW t \in Tasks, OnTaskFinished(t) PROVE Debts'
  <2> DEFINE s == [step EXCEPT ![t] = "idle"]
  <2>1. s \in [Tasks -> TaskStep] /\ blockRunning \in BOOLEAN /\ TryRunTasks(s, blockRunning)
    BY <1>16, <1>a DEF OnTaskFinished, Types, TaskStep
  <2>2. \A u \in Tasks : step[u] = "reporting" => s[u] = "reporting"
    BY <1>16, <1>a DEF OnTaskFinished, AtStep, Types
  <2> HIDE DEF s
  <2>3. \A u \in Tasks : step[u] = "reporting" => step'[u] = "reporting"
    BY <2>1, <2>2, ScanKeepsReporting
  <2> QED BY <1>16, <2>3, DebtsStay DEF OnTaskFinished, locks, changeVars
<1>17. CASE UNCHANGED vars
  BY <1>17, DebtsStay DEF vars, locks, managerVars, changeVars
<1>18. QED
  BY <1>1, <1>2, <1>3, <1>4, <1>5, <1>6, <1>7, <1>8, <1>9, <1>10, <1>11, <1>12, <1>13, <1>14,
     <1>15, <1>16, <1>17 DEF Next, Use, CallerStep, TaskThread

\* When nobody owes a report, every change has been told of.
Told == Owing = {} => unreported = {}

LEMMA Settled == IInv /\ Debts => Told
<1> SUFFICES ASSUME IInv, Debts, Owing = {} PROVE unreported = {}
  BY DEF Told
<1>1. \A a \in Actors : saved[a] = {}
  BY DEF Debts
<1>2. changes = {}
  <2>1. SUFFICES ASSUME values # Nobody PROVE FALSE
    BY DEF Debts
  <2>2. CASE values \in Tasks
    <3>1. transaction \in Actors
      BY <2>2, NobodyAssumption DEF IInv, Types, Owners
    <3> QED BY <3>1 DEF Owing
  <2>3. CASE values \in Callers
    <3>1. PICK c \in Callers : c = values
      BY <2>3
    <3>2. pc[c] \in ValuesPC /\ (pc[c] \in TransactionPC => transaction = c)
      BY <3>1 DEF IInv, Owners
    <3> QED BY <3>2 DEF ValuesPC, TransactionPC, OuterPC, Owing, Actors
  <2> QED BY <2>1, <2>2, <2>3 DEF IInv, Types, Actors
<1>3. UNION {saved[a] : a \in Actors} = {}
  BY <1>1
<1> QED BY <1>2, <1>3 DEF IInv, ChangesAreReported

LEMMA SettledNext == IInv' /\ Debts' => Told'
BY Settled, PTL

\* What a program sees of a step that moves no transaction.
LEMMA SameView ==
  ASSUME IInv, transaction' \in Callers \/ transaction \in Callers => transaction' = transaction,
         UNCHANGED <<exclusive, kind>>,
         transaction \in Callers => pc'[transaction] = pc[transaction]
  PROVE  Holder' = Holder /\ Usage' = Usage
<1>1. CASE transaction \in Callers
  BY <1>1, NobodyAssumption DEF Holder, Usage, At
<1>2. CASE transaction \notin Callers
  BY <1>2 DEF Holder, Usage
<1> QED BY <1>1, <1>2

LEMMA SameOwing ==
  ASSUME UNCHANGED transaction,
         \A c \in Callers :
           pc'[c] \in {"unlocking", "reporting"} <=> pc[c] \in {"unlocking", "reporting"},
         \A t \in Tasks : step'[t] = "reporting" <=> step[t] = "reporting"
  PROVE  Owing' = Owing
BY DEF Owing

\* The view of the caller that has the transaction.
LEMMA HolderView ==
  ASSUME IInv, NEW c \in Callers, pc[c] \in TransactionPC
  PROVE  /\ transaction = c /\ Holder = c /\ c # Nobody /\ c \in Owing
         /\ Usage = IF pc[c] # "open" THEN "none"
                    ELSE IF exclusive \/ kind[c] = "state" THEN "alone" ELSE "shared"
<1>1. transaction = c /\ c # Nobody
  BY NobodyAssumption DEF IInv, Owners
<1>2. Holder = c
  BY <1>1 DEF Holder
<1> QED BY <1>1, <1>2 DEF Usage, At, Owing, Actors

\* What waits and what runs when a scan is over.
LEMMA ScanLive ==
  ASSUME NEW s \in [Tasks -> TaskStep], NEW b \in BOOLEAN, TryRunTasks(s, b)
  PROVE  Live(s) \subseteq Live(step') /\ Live(step') \in SUBSET Tasks
BY Scan DEF Live

\* Usage is alone only where no thread of a task is left.
LEMMA AloneView == IInv /\ Usage = "alone" => Live(step) = {}
<1> SUFFICES ASSUME IInv, Usage = "alone" PROVE Live(step) = {}
  OBVIOUS
<1>1. PICK c \in Callers : c = transaction /\ pc[c] = "open" /\ (exclusive \/ kind[c] = "state")
  BY DEF Usage, Holder, At
<1> QED BY <1>1, AloneWithDevice DEF DeviceIsExclusive, At

\* The steps of a caller on its way to a transaction, or that waits for the tasks.
LEMMA CallerHides ==
  ASSUME IInv, NEW c \in Callers,
         \/ \E k \in Kinds : Ask(c, k)
         \/ GiveUp(c) \/ LockOuter(c) \/ SetNoValuesTransaction(c) \/ BlockTasks(c)
         \/ FinishTasks(c) \/ UnblockAddingTasks(c) \/ UnlockValues(c)
  PROVE  UNCHANGED Service!vars
<1> USE DEF At, Goto, locks, managerVars, changeVars
<1>a. Types
  BY DEF IInv
<1>1. UNCHANGED <<transaction, exclusive, step, unreported>>
  BY DEF Ask, GiveUp, LockOuter, SetNoValuesTransaction, BlockTasks, FinishTasks,
         UnblockAddingTasks, UnlockValues
<1>2. Owing' = Owing
  BY <1>1, <1>a DEF Types, Owing, Ask, GiveUp, LockOuter, SetNoValuesTransaction, BlockTasks,
         FinishTasks, UnblockAddingTasks, UnlockValues
<1>3. Holder' = Holder
  BY <1>1 DEF Holder
<1>4. Usage' = Usage
  <2>1. ASSUME NEW d \in Callers, d = transaction
        PROVE  /\ pc'[d] = "open" <=> pc[d] = "open"
               /\ pc[d] = "open" => (exclusive' \/ kind'[d] = "state" <=> exclusive \/ kind[d] = "state")
    BY <1>1, <1>a DEF Types, Ask, GiveUp, LockOuter, SetNoValuesTransaction,
           BlockTasks, FinishTasks, UnblockAddingTasks, UnlockValues
  <2> QED BY <1>1, <2>1, NobodyAssumption DEF Holder, Usage
<1> QED BY <1>1, <1>2, <1>3, <1>4 DEF Service!vars, Live

\* The steps of the caller that has the transaction.
LEMMA CallerBegins ==
  ASSUME IInv, NEW c \in Callers, LockValues(c)
  PROVE  Service!Begin(c)
<1> USE DEF At, Goto, managerVars, changeVars
<1>a. Types /\ transaction = Nobody
  BY ValuesFree DEF IInv, LockValues
<1>1. Holder = Nobody /\ Holder' = c
  BY <1>a, NobodyAssumption DEF Holder, LockValues
<1>2. Usage' \in {"none", "shared"}
  <2>1. ~exclusive
    BY DEF LockValues, IInv, Owners, Blocks, OuterPC
  <2>2. pc'[c] = "open" => kind[c] \in {"plain", "try"}
    BY <1>a DEF LockValues, Types
  <2> QED BY <1>1, <2>1, <2>2 DEF LockValues, Usage
<1>3. Owing' = Owing \cup {c}
  BY <1>a, NobodyAssumption DEF Types, LockValues, Owing, Actors
<1> QED BY <1>1, <1>2, <1>3 DEF Service!Begin, LockValues

LEMMA CallerBeginsUse ==
  ASSUME IInv, NEW c \in Callers, SetValuesTransaction(c)
  PROVE  Service!BeginUse
<1> USE DEF At, Goto, managerVars, changeVars
<1>a. Types
  BY DEF IInv
<1>0. Holder = c /\ c # Nobody /\ transaction = c /\ Usage = "none"
  BY HolderView DEF SetValuesTransaction, TransactionPC, OuterPC
<1>1. Holder' = c
  BY <1>0 DEF Holder, SetValuesTransaction
<1>2. Live(step) = {}
  BY DEF IInv, Drained, NothingLive, Live, SetValuesTransaction
<1>3. exclusive' \/ kind[c] = "state"
  BY DEF IInv, Blocks, DrainPC, BlockedPC, SetValuesTransaction
<1>4. Usage' = "alone"
  BY <1>a, <1>0, <1>1, <1>3 DEF Types, Usage, SetValuesTransaction
<1>5. Owing' = Owing
  BY <1>a, SameOwing DEF Types, SetValuesTransaction
<1> QED BY <1>0, <1>1, <1>2, <1>4, <1>5 DEF Service!BeginUse, SetValuesTransaction

LEMMA CallerAddsTask ==
  ASSUME IInv, NEW c \in Callers, NEW t \in Tasks, AddTask(c, t)
  PROVE  Service!Schedule \/ UNCHANGED Service!vars
<1> USE DEF At, locks, changeVars
<1>a. Types /\ blockRunning \in BOOLEAN
  BY DEF IInv, Types
<1>0. /\ Holder' = Holder /\ Usage' = Usage
      /\ Usage = IF kind[c] = "state" THEN "alone" ELSE "shared"
  BY HolderView, SameView DEF AddTask, TransactionPC, OuterPC
<1>1. Added({t}) \in [Tasks -> TaskStep]
  BY <1>a DEF Types, Added, TaskStep
<1>2. /\ Live(Added({t})) = Live(step)
      /\ \A u \in Tasks : step[u] = "reporting" <=> Added({t})[u] = "reporting"
  BY <1>a DEF Types, Live, Added
<1>3. \A u \in Tasks : step'[u] = "reporting" <=> step[u] = "reporting"
  BY <1>a, <1>1, <1>2, Scan DEF AddTask
<1>4. Owing' = Owing
  BY <1>3, SameOwing DEF AddTask
<1>5. Live(step) \subseteq Live(step') /\ Live(step') \in SUBSET Tasks
  BY <1>a, <1>1, <1>2, ScanLive DEF AddTask
<1>6. CASE kind[c] = "state"
  <2>1. blockAdding /\ AllIdle
    BY <1>6 DEF IInv, Blocks, Drained, BlockedPC, AddTask
  <2>2. \A u \in Tasks : Added({t})[u] = "idle"
    BY <2>1 DEF AllIdle, Added
  <2>3. \A u \in Tasks : step'[u] = "idle"
    BY <1>a, <1>1, <2>2, Scan DEF AddTask
  <2>4. Live(step') = Live(step)
    BY <2>1, <2>3 DEF AllIdle, Live
  <2> QED BY <1>0, <1>4, <2>4 DEF AddTask, Service!vars
<1>7. CASE kind[c] # "state"
  BY <1>0, <1>4, <1>5, <1>7 DEF AddTask, Service!Schedule
<1> QED BY <1>6, <1>7

LEMMA CallerChanges ==
  ASSUME IInv, NEW c \in Callers, NEW t \in Tasks, RunDirectly(c, t) \/ ResetValue(c, t)
  PROVE  Service!HolderChanges(t)
<1> USE DEF At, locks, managerVars
<1>1. /\ pc[c] = "open" /\ unreported' = unreported \cup {t}
      /\ UNCHANGED <<transaction, exclusive, pc, kind, step>>
  BY DEF RunDirectly, ResetValue, Change
<1>2. Usage # "none" /\ Holder' = Holder /\ Usage' = Usage
  BY <1>1, HolderView, SameView DEF TransactionPC, OuterPC
<1>3. Owing' = Owing
  BY <1>1, SameOwing
<1> QED BY <1>1, <1>2, <1>3 DEF Service!HolderChanges

LEMMA CallerEndsUse ==
  ASSUME IInv, NEW c \in Callers,
         Close(c) \/ CreateConnectionExclusiveTransaction(c) \/ ResetExclusiveTaskManager(c)
  PROVE  Service!EndUse
<1> USE DEF At, Goto, locks, managerVars, changeVars
<1>a. Types
  BY DEF IInv
<1>1. /\ pc[c] = "open" /\ pc' = [pc EXCEPT ![c] = pc'[c]]
      /\ pc'[c] \in {"closing", "releasing", "unpausing"}
      /\ UNCHANGED <<transaction, kind, step, unreported>>
  BY <1>a DEF Types, Close, CreateConnectionExclusiveTransaction, ResetExclusiveTaskManager
<1>2. Holder = c /\ transaction = c /\ Usage # "none"
  BY <1>1, HolderView DEF TransactionPC, OuterPC
<1>3. Holder' = c /\ Usage' = "none"
  BY <1>1, <1>2 DEF Holder, Usage
<1>4. Owing' = Owing
  BY <1>a, <1>1, SameOwing DEF Types
<1> QED BY <1>1, <1>2, <1>3, <1>4 DEF Service!EndUse

LEMMA CallerUnblocks ==
  ASSUME IInv, NEW c \in Callers, UnblockRunningTasks(c)
  PROVE  Service!Schedule \/ Service!BeginUse
<1> USE DEF At, Goto, locks, changeVars
<1>a. Types
  BY DEF IInv
<1>0. Holder = c /\ c # Nobody /\ transaction = c /\ Usage = "none"
  BY HolderView DEF UnblockRunningTasks, TransactionPC, OuterPC
<1>1. Holder' = c
  BY <1>0 DEF Holder, UnblockRunningTasks
<1>2. \A u \in Tasks : step'[u] = "reporting" <=> step[u] = "reporting"
  BY <1>a, Scan DEF Types, UnblockRunningTasks
<1>3. Owing' = Owing
  BY <1>a, <1>2, SameOwing DEF Types, UnblockRunningTasks
<1>4. CASE kind[c] = "state"
  <2>1. AllIdle
    BY <1>4 DEF IInv, Blocks, Drained, BlockedPC, UnblockRunningTasks
  <2>2. \A u \in Tasks : step'[u] = "idle"
    BY <1>a, <2>1, Scan DEF Types, AllIdle, UnblockRunningTasks
  <2>3. Live(step) = {} /\ Live(step') = {}
    BY <2>1, <2>2 DEF AllIdle, Live
  <2>4. Usage' = "alone"
    BY <1>a, <1>0, <1>1, <1>4 DEF Types, Usage, UnblockRunningTasks
  <2> QED BY <1>0, <1>1, <1>3, <2>3, <2>4 DEF Service!BeginUse, UnblockRunningTasks
<1>5. CASE kind[c] # "state"
  <2>1. Usage' = "none"
    BY <1>a, <1>0, <1>1, <1>5 DEF Types, Usage, UnblockRunningTasks
  <2>2. Live(step) \subseteq Live(step') /\ Live(step') \in SUBSET Tasks
    BY <1>a, ScanLive DEF Types, UnblockRunningTasks
  <2> QED BY <1>0, <1>1, <1>3, <2>1, <2>2 DEF Service!Schedule, UnblockRunningTasks
<1> QED BY <1>4, <1>5

LEMMA CallerEnds ==
  ASSUME IInv, NEW c \in Callers, UnlockOuter(c)
  PROVE  Service!End
<1> USE DEF At, Goto, managerVars, changeVars
<1>a. Types
  BY DEF IInv
<1>0. Holder = c /\ c # Nobody /\ transaction = c /\ Usage = "none"
  BY HolderView DEF UnlockOuter, TransactionPC, OuterPC
<1>1. Holder' = Nobody /\ Usage' = "none"
  BY NobodyAssumption DEF Holder, Usage, UnlockOuter
<1>2. Owing' = Owing
  BY <1>a, <1>0, NobodyAssumption DEF Types, Owing, Actors, UnlockOuter
<1> QED BY <1>0, <1>1, <1>2 DEF Service!End, UnlockOuter

LEMMA CallerReports ==
  ASSUME IInv, Debts, IInv', Debts', NEW c \in Callers, Report(c)
  PROVE  Service!Report(c)
<1> USE DEF At, Goto, locks, managerVars
<1>a. Types /\ transaction # c
  BY DEF IInv, Owners, TransactionPC, OuterPC, Report
<1>1. Holder' = Holder /\ Usage' = Usage
  BY <1>a, SameView DEF Types, Report
<1>2. c \in Owing /\ c # Holder /\ Owing' = Owing \ {c}
  BY <1>a, NobodyAssumption DEF Types, Owing, Actors, Holder, Report
<1>3. Owing' = {} => unreported' = {}
  BY SettledNext DEF Told
<1> QED BY <1>1, <1>2, <1>3 DEF Service!Report, Report, TransactionFinished

\* The steps in the thread of a task.
LEMMA TaskHides ==
  ASSUME IInv, NEW t \in Tasks, AccessDevice(t) \/ ReleaseTaskResultTransaction(t)
  PROVE  UNCHANGED Service!vars
<1> USE NobodyAssumption DEF AtStep, GotoStep, locks, changeVars
<1>a. Types
  BY DEF IInv
<1>1. /\ step[t] \notin {"idle", "waiting", "reporting"}
      /\ step' = [step EXCEPT ![t] = step'[t]]
      /\ step'[t] \in {"accessed", "finished", "reporting"}
      /\ UNCHANGED <<exclusive, pc, kind, unreported>>
  BY <1>a DEF Types, AccessDevice, ReleaseTaskResultTransaction
<1>2. Live(step') = Live(step)
  BY <1>a, <1>1 DEF Types, Live
<1>3. \/ transaction' = transaction /\ step'[t] # "reporting"
      \/ transaction = t /\ transaction' = Nobody /\ step'[t] = "reporting"
  BY <1>a DEF Types, AccessDevice, ReleaseTaskResultTransaction
<1>4. Owing' = Owing
  BY <1>a, <1>1, <1>3 DEF Types, Owing, Actors
<1>5. Holder' = Holder /\ Usage' = Usage
  BY <1>1, <1>3, SameView
<1> QED BY <1>1, <1>2, <1>4, <1>5 DEF Service!vars

LEMMA TaskBeginsResult ==
  ASSUME IInv, NEW t \in Tasks, GetTaskResultTransaction(t)
  PROVE  Service!BeginResult(t) \/ UNCHANGED Service!vars
<1> USE NobodyAssumption DEF AtStep, GotoStep, changeVars
<1>a. Types
  BY DEF IInv
<1>1. /\ step' = [step EXCEPT ![t] = "holding"] /\ step[t] = "accessed"
      /\ UNCHANGED <<exclusive, pc, kind, unreported>>
      /\ transaction' = IF transaction = Nobody THEN t ELSE transaction
  BY DEF GetTaskResultTransaction
<1>2. Live(step') = Live(step) /\ t \in Live(step)
  BY <1>a, <1>1 DEF Types, Live
<1>3. Holder' = Holder /\ Usage' = Usage
  BY <1>1, SameView
<1>4. CASE transaction = Nobody
  <2>1. Owing' = Owing \cup {t} /\ Holder = Nobody
    BY <1>a, <1>1, <1>4 DEF Types, Owing, Actors, Holder
  <2> QED BY <1>1, <1>2, <1>3, <2>1 DEF Service!BeginResult
<1>5. CASE transaction # Nobody
  <2>1. Owing' = Owing
    BY <1>a, <1>1, <1>5, SameOwing DEF Types
  <2> QED BY <1>1, <1>2, <1>3, <2>1 DEF Service!vars
<1> QED BY <1>4, <1>5

LEMMA TaskUpdates ==
  ASSUME IInv, NEW t \in Tasks, UpdateValue(t)
  PROVE  Service!TaskChanges(t)
<1> USE NobodyAssumption DEF AtStep, locks
<1>a. Types /\ values = t /\ transaction # Nobody /\ step[t] = "holding"
  BY DEF IInv, Owners, UpdateValue
<1> DEFINE s == [Added(Dependents[t]) EXCEPT ![t] = "updated"]
<1>1. s \in [Tasks -> TaskStep] /\ blockRunning \in BOOLEAN /\ TryRunTasks(s, blockRunning)
  BY <1>a DEF UpdateValue, Types, Added, TaskStep
<1>2. Live(s) = Live(step) /\ \A u \in Tasks : s[u] = "reporting" <=> step[u] = "reporting"
  BY <1>a DEF Types, Live, Added
<1> HIDE DEF s
<1>3. /\ Live(step) \subseteq Live(step') /\ Live(step') \in SUBSET Tasks
      /\ \A u \in Tasks : step'[u] = "reporting" <=> step[u] = "reporting"
  BY <1>1, <1>2, Scan, ScanLive
<1>4. /\ UNCHANGED <<transaction, exclusive, pc, kind>>
      /\ unreported' = unreported \cup {t}
  BY DEF UpdateValue, Change
<1>5. Holder' = Holder /\ Usage' = Usage /\ Owing' = Owing
  BY <1>3, <1>4, SameView, SameOwing
<1>6. Usage = "none"
  <2>1. ASSUME NEW c \in Callers PROVE pc[c] # "open"
    BY <1>a DEF IInv, Owners, ValuesPC
  <2> QED BY <2>1 DEF Usage, Holder, At
<1>7. t \in Owing \/ Holder # Nobody
  <2>1. transaction \in Callers \/ transaction = t
    BY <1>a DEF IInv, Types, Owners, Actors
  <2> QED BY <2>1 DEF Owing, Holder, Actors
<1>8. t \in Live(step)
  BY <1>a DEF Live
<1> QED BY <1>3, <1>4, <1>5, <1>6, <1>7, <1>8 DEF Service!TaskChanges

LEMMA TaskReports ==
  ASSUME IInv, Debts, IInv', Debts', NEW t \in Tasks, ReportResult(t)
  PROVE  Service!Report(t)
<1> USE NobodyAssumption DEF AtStep, GotoStep, locks
<1>a. Types /\ transaction # t /\ step[t] = "reporting"
  BY DEF IInv, Owners, ReportResult
<1>1. /\ step' = [step EXCEPT ![t] = "finished"]
      /\ UNCHANGED <<transaction, exclusive, pc, kind>>
      /\ unreported' \in SUBSET unreported
  BY DEF ReportResult, TransactionFinished
<1>2. Holder' = Holder /\ Usage' = Usage
  BY <1>1, SameView
<1>3. t \in Owing /\ t # Holder /\ Owing' = Owing \ {t}
  BY <1>a, <1>1 DEF Types, Owing, Actors, Holder
<1>4. Live(step') = Live(step)
  BY <1>a, <1>1 DEF Types, Live
<1>5. Owing' = {} => unreported' = {}
  BY SettledNext DEF Told
<1> QED BY <1>1, <1>2, <1>3, <1>4, <1>5 DEF Service!Report

LEMMA TaskEnds ==
  ASSUME IInv, NEW t \in Tasks, OnTaskFinished(t)
  PROVE  Service!Schedule
<1> USE NobodyAssumption DEF AtStep, locks, changeVars
<1>a. Types /\ step[t] = "finished" /\ transaction # t
  BY DEF IInv, Owners, OnTaskFinished
<1> DEFINE s == [step EXCEPT ![t] = "idle"]
<1>1. s \in [Tasks -> TaskStep] /\ blockRunning \in BOOLEAN /\ TryRunTasks(s, blockRunning)
  BY <1>a DEF OnTaskFinished, Types, TaskStep
<1>2. /\ Live(s) = Live(step) \ {t}
      /\ \A u \in Tasks : s[u] = "reporting" <=> step[u] = "reporting"
  BY <1>a DEF Types, Live
<1> HIDE DEF s
<1>3. /\ Live(step) \ {t} \subseteq Live(step') /\ Live(step') \in SUBSET Tasks
      /\ \A u \in Tasks : step'[u] = "reporting" <=> step[u] = "reporting"
  BY <1>1, <1>2, Scan, ScanLive
<1>4. UNCHANGED <<transaction, exclusive, pc, kind, unreported>>
  BY DEF OnTaskFinished
<1>5. Holder' = Holder /\ Usage' = Usage /\ Owing' = Owing
  BY <1>3, <1>4, SameView, SameOwing
<1>6. t \notin Owing
  BY <1>a DEF Owing
<1>7. Usage # "alone"
  BY <1>a, AloneView DEF Live
<1> QED BY <1>3, <1>4, <1>5, <1>6, <1>7 DEF Service!Schedule

\* Every step of the transactions is a step of the service or hidden from it.
LEMMA StepImplements ==
  IInv /\ Debts /\ [Next]_vars /\ IInv' /\ Debts' => [Service!Next]_(Service!vars)
<1> SUFFICES ASSUME IInv, Debts, [Next]_vars, IInv', Debts'
             PROVE  Service!Next \/ UNCHANGED Service!vars
  OBVIOUS
<1>1. ASSUME NEW c \in Callers, \/ \E k \in Kinds : Ask(c, k)
                                \/ GiveUp(c) \/ LockOuter(c) \/ CallerStep(c)
      PROVE  Service!Next \/ UNCHANGED Service!vars
  BY <1>1, CallerHides, CallerBegins, CallerBeginsUse, CallerUnblocks, CallerEnds, CallerReports
     DEF CallerStep, Service!Next
<1>2. ASSUME NEW c \in Callers, Use(c) PROVE Service!Next \/ UNCHANGED Service!vars
  BY <1>2, CallerAddsTask, CallerChanges DEF Use, Service!Next
<1>3. ASSUME NEW c \in Callers, EndScope(c) PROVE Service!Next \/ UNCHANGED Service!vars
  BY <1>3, CallerHides, CallerEndsUse DEF EndScope, Service!Next
<1>4. ASSUME NEW t \in Tasks, TaskThread(t) PROVE Service!Next \/ UNCHANGED Service!vars
  BY <1>4, TaskHides, TaskBeginsResult, TaskUpdates, TaskReports, TaskEnds
     DEF TaskThread, Service!Next
<1>5. CASE UNCHANGED vars
  BY <1>5 DEF vars, locks, managerVars, changeVars, Service!vars, Holder, Usage, Owing, Live, At
<1> QED BY <1>1, <1>2, <1>3, <1>4, <1>5 DEF Next

\* The transactions implement TransactionService: for any number of callers and tasks, the
\* hand-over of the values between two mutexes never lets a task change a value under a
\* caller that uses the transaction, never lets a task run beside a caller that is alone, and
\* leaves no change untold when the last who owes a report has given it.
THEOREM Refinement == Spec => ImplementsService
<1>1. Init => Service!Init /\ Debts
  BY NobodyAssumption
     DEF Init, Service!Init, Debts, Holder, Usage, Owing, Actors, Live, At
<1>2. IInv /\ Debts /\ [Next]_vars /\ IInv' => Debts'
  BY DebtsKept
<1>3. IInv /\ Debts /\ [Next]_vars /\ IInv' /\ Debts' => [Service!Next]_(Service!vars)
  BY StepImplements
<1> QED BY <1>1, <1>2, <1>3, Invariance, PTL DEF Spec, ImplementsService, Service!Spec

----------------------------------------------------------------------------
(* What a caller that drains the task manager waits for only shrinks *)

StepsLeft ==
  [idle |-> 0, waiting |-> 7, running |-> 6, accessed |-> 5, holding |-> 4, updated |-> 3,
   reporting |-> 2, finished |-> 1]

\* How many steps t has before it when no end of a pause comes.
Remaining(t) == IF step[t] = "waiting" /\ blockRunning THEN 0 ELSE StepsLeft[step[t]]

SomeoneDrains == \E c \in Callers : At(c, "draining")

\* While a caller drains the manager, no step of anyone gives a task more to do, not
\* even a result that asks for reads of other properties, and every step of the thread
\* of a task leaves that task less.
DrainStep ==
  SomeoneDrains =>
    /\ \A t \in Tasks : Remaining(t)' <= Remaining(t)
    /\ \A t \in Tasks : TaskThread(t) => Remaining(t)' < Remaining(t)

\* The caller that drains has the outer mutex, and a block on the manager.
LEMMA DrainBlocks ==
  ASSUME IInv, NEW c \in Callers, At(c, "draining")
  PROVE  /\ outer = c
         /\ \A d \in Callers : pc[d] \in OuterPC => d = c
         /\ blockAdding \/ blockRunning
<1>1. outer = c /\ \A d \in Callers : pc[d] \in OuterPC => outer = d
  BY DEF IInv, Owners, At, OuterPC
<1>2. kind[c] \in {"exclusive", "state"}
  BY DEF IInv, Blocks, At, DrainPC
<1>3. blockAdding \/ blockRunning
  BY <1>2 DEF IInv, Blocks, At, BlockedPC
<1>4. QED
  BY <1>1, <1>3

\* Nothing a caller can do during a drain changes what the tasks have left.
LEMMA CallerLeavesTasks ==
  ASSUME IInv, NEW c \in Callers, At(c, "draining"), NEW d \in Callers,
         \/ \E k \in Kinds : Ask(d, k)
         \/ GiveUp(d) \/ LockOuter(d) \/ Use(d) \/ CallerStep(d) \/ EndScope(d)
  PROVE  UNCHANGED <<step, blockRunning>>
<1>1. outer = c /\ (pc[d] \in OuterPC => pc[d] = "draining")
  BY DrainBlocks DEF At
<1>2. c # Nobody
  BY NobodyAssumption
<1>3. CASE \/ \E k \in Kinds : Ask(d, k)
           \/ GiveUp(d) \/ FinishTasks(d) \/ UnlockValues(d) \/ Report(d)
  BY <1>3 DEF Ask, GiveUp, FinishTasks, UnlockValues, Report, managerVars
<1>4. CASE LockOuter(d)
  BY <1>1, <1>2, <1>4 DEF LockOuter
<1>5. CASE Use(d) \/ EndScope(d)
  <2>1. At(d, "open")
    BY <1>5 DEF Use, AddTask, RunDirectly, ResetValue, EndScope, Close,
       CreateConnectionExclusiveTransaction, UnblockAddingTasks, ResetExclusiveTaskManager
  <2>2. QED
    BY <1>1, <2>1 DEF At, OuterPC
<1>6. CASE \/ LockValues(d) \/ SetNoValuesTransaction(d) \/ BlockTasks(d)
           \/ SetValuesTransaction(d) \/ UnblockRunningTasks(d) \/ UnlockOuter(d)
  <2>1. pc[d] \in OuterPC \ {"draining"}
    BY <1>6 DEF LockValues, SetNoValuesTransaction, BlockTasks, SetValuesTransaction,
       UnblockRunningTasks, UnlockOuter, At, OuterPC
  <2>2. QED
    BY <1>1, <2>1
<1>7. QED
  BY <1>3, <1>4, <1>5, <1>6 DEF CallerStep

\* A scan starts tasks the drain waits for already.
LEMMA ScanShrinks ==
  ASSUME Types, NEW s \in [Tasks -> TaskStep], TryRunTasks(s, blockRunning),
         blockRunning' = blockRunning, NEW t \in Tasks,
         s[t] = step[t] \/ (s[t] = "waiting" /\ blockRunning /\ step[t] = "idle")
  PROVE  Remaining(t)' <= Remaining(t)
<1>1. /\ step' \in [Tasks -> TaskStep] /\ blockRunning \in BOOLEAN
      /\ s[t] # "waiting" => step'[t] = s[t]
      /\ s[t] = "waiting" => step'[t] \in {"waiting", "running"}
      /\ blockRunning => step' = s
  BY Scan DEF Types
<1>2. StepsLeft[step[t]] \in Nat /\ StepsLeft[step'[t]] \in Nat
  <2>1. step[t] \in TaskStep /\ step'[t] \in TaskStep
    BY <1>1 DEF Types
  <2>2. QED
    BY <2>1 DEF StepsLeft, TaskStep
<1>3. CASE s[t] = step[t] /\ s[t] # "waiting"
  BY <1>1, <1>2, <1>3 DEF Remaining
<1>4. CASE s[t] = "waiting" /\ blockRunning
  BY <1>1, <1>2, <1>4 DEF Remaining
<1>5. CASE s[t] = step[t] /\ s[t] = "waiting" /\ ~blockRunning
  BY <1>1, <1>5 DEF Remaining, StepsLeft
<1>6. QED
  BY <1>3, <1>4, <1>5

\* The steps of a thread that do not call the manager.
LEMMA ThreadShrinksQuietly ==
  ASSUME Types, NEW u \in Tasks,
         \/ AccessDevice(u) \/ GetTaskResultTransaction(u)
         \/ ReleaseTaskResultTransaction(u) \/ ReportResult(u)
  PROVE  /\ \A t \in Tasks : t # u => Remaining(t)' <= Remaining(t)
         /\ Remaining(u)' < Remaining(u)
<1>1. /\ blockRunning' = blockRunning
      /\ \/ step[u] = "running" /\ step' = [step EXCEPT ![u] = "accessed"]
         \/ step[u] = "accessed" /\ step' = [step EXCEPT ![u] = "holding"]
         \/ /\ step[u] = "updated"
            /\ \/ step' = [step EXCEPT ![u] = "reporting"]
               \/ step' = [step EXCEPT ![u] = "finished"]
         \/ step[u] = "reporting" /\ step' = [step EXCEPT ![u] = "finished"]
  BY DEF AccessDevice, GetTaskResultTransaction, ReleaseTaskResultTransaction, ReportResult,
     AtStep, GotoStep
<1>2. \A t \in Tasks : t # u => step'[t] = step[t]
  BY <1>1 DEF Types
<1>3. Remaining(u)' < Remaining(u)
  BY <1>1 DEF Types, Remaining, StepsLeft
<1>4. ASSUME NEW t \in Tasks, t # u PROVE Remaining(t)' <= Remaining(t)
  <2>1. step'[t] = step[t] /\ step[t] \in TaskStep
    BY <1>2, <1>4 DEF Types
  <2>2. Remaining(t) \in Nat
    BY <2>1 DEF Remaining, StepsLeft, TaskStep
  <2>3. Remaining(t)' = Remaining(t)
    BY <1>1, <2>1 DEF Remaining
  <2>4. QED
    BY <2>2, <2>3
<1>5. QED
  BY <1>3, <1>4

\* The end of a task gives its place to others.
LEMMA EndShrinks ==
  ASSUME Types, NEW u \in Tasks, OnTaskFinished(u)
  PROVE  /\ \A t \in Tasks : t # u => Remaining(t)' <= Remaining(t)
         /\ Remaining(u)' < Remaining(u)
<1> DEFINE s == [step EXCEPT ![u] = "idle"]
<1>1. /\ step[u] = "finished" /\ TryRunTasks(s, blockRunning)
      /\ UNCHANGED blockRunning /\ s \in [Tasks -> TaskStep]
  BY DEF OnTaskFinished, AtStep, Types, TaskStep
<1>2. s[u] = "idle" /\ \A t \in Tasks : t # u => s[t] = step[t]
  BY DEF Types
<1>3. step'[u] = "idle"
  <2> HIDE DEF s
  <2>1. QED
    BY <1>1, <1>2, Scan DEF Types
<1>4. Remaining(u)' < Remaining(u)
  BY <1>1, <1>3 DEF Remaining, StepsLeft
<1>5. ASSUME NEW t \in Tasks, t # u PROVE Remaining(t)' <= Remaining(t)
  <2> HIDE DEF s
  <2>1. QED
    BY <1>1, <1>2, <1>5, ScanShrinks
<1>6. QED
  BY <1>4, <1>5

\* A result asks for reads of other properties; behind a stop they are ignored, behind a
\* pause they wait.
LEMMA UpdateShrinks ==
  ASSUME Types, blockAdding \/ blockRunning, NEW u \in Tasks, UpdateValue(u)
  PROVE  /\ \A t \in Tasks : t # u => Remaining(t)' <= Remaining(t)
         /\ Remaining(u)' < Remaining(u)
<1> DEFINE s == [Added(Dependents[u]) EXCEPT ![u] = "updated"]
<1>1. /\ step[u] = "holding" /\ TryRunTasks(s, blockRunning)
      /\ UNCHANGED blockRunning
  BY DEF UpdateValue, AtStep
<1>2. s \in [Tasks -> TaskStep] /\ s[u] = "updated"
  BY DEF Added, Types, TaskStep
<1>3. \A t \in Tasks : t # u =>
        s[t] = step[t] \/ (s[t] = "waiting" /\ blockRunning /\ step[t] = "idle")
  BY DEF Added
<1>4. step'[u] = "updated"
  <2> HIDE DEF s
  <2>1. QED
    BY <1>1, <1>2, Scan DEF Types
<1>5. Remaining(u)' < Remaining(u)
  BY <1>1, <1>4 DEF Remaining, StepsLeft
<1>6. ASSUME NEW t \in Tasks, t # u PROVE Remaining(t)' <= Remaining(t)
  <2> HIDE DEF s
  <2>1. QED
    BY <1>1, <1>2, <1>3, <1>6, ScanShrinks
<1>7. QED
  BY <1>5, <1>6

RemainingTypes == \A t \in Tasks : Remaining(t) \in Nat

LEMMA RemainingIsNat == IInv => RemainingTypes
  BY DEF IInv, Types, Remaining, RemainingTypes, StepsLeft, TaskStep

LEMMA RemainingIsNatNext == IInv' => RemainingTypes'
  BY RemainingIsNat, PTL

LEMMA DrainStepHolds == IInv /\ [Next]_vars => DrainStep
<1>1. SUFFICES ASSUME IInv, [Next]_vars, NEW c \in Callers, At(c, "draining")
               PROVE  /\ \A t \in Tasks : Remaining(t)' <= Remaining(t)
                      /\ \A t \in Tasks : TaskThread(t) => Remaining(t)' < Remaining(t)
  BY DEF DrainStep, SomeoneDrains
<1>2. Types /\ (blockAdding \/ blockRunning)
  BY <1>1, DrainBlocks DEF IInv
<1>3. \A u \in Tasks : TaskThread(u) =>
        /\ \A t \in Tasks : Remaining(t)' <= Remaining(t)
        /\ Remaining(u)' < Remaining(u)
  <2>1. SUFFICES ASSUME NEW u \in Tasks, TaskThread(u)
                 PROVE  /\ \A t \in Tasks : Remaining(t)' <= Remaining(t)
                        /\ Remaining(u)' < Remaining(u)
    OBVIOUS
  <2>2. /\ \A t \in Tasks : t # u => Remaining(t)' <= Remaining(t)
        /\ Remaining(u)' < Remaining(u)
    BY <1>2, <2>1, ThreadShrinksQuietly, EndShrinks, UpdateShrinks DEF TaskThread
  <2>3. Remaining(u) \in Nat /\ Remaining(u)' \in Nat
    BY <1>1, NextKeeps, RemainingIsNat, RemainingIsNatNext DEF RemainingTypes
  <2>4. QED
    BY <2>2, <2>3
<1>4. CASE \E u \in Tasks : TaskThread(u)
  BY <1>3, <1>4
<1>5. CASE UNCHANGED <<step, blockRunning>>
  <2>1. \A t \in Tasks : Remaining(t) \in Nat
    BY <1>1, RemainingIsNat DEF RemainingTypes
  <2>2. \A t \in Tasks : Remaining(t)' = Remaining(t)
    BY <1>5 DEF Remaining
  <2>3. QED
    BY <1>3, <2>1, <2>2
<1>6. CASE UNCHANGED vars
  BY <1>5, <1>6 DEF vars, managerVars
<1>7. QED
  BY <1>1, <1>4, <1>5, <1>6, CallerLeavesTasks DEF Next

\* A connection exclusive and a connection state transaction wait for work that only
\* becomes less: although the tasks they wait for update properties, ask for others and
\* are followed by tasks that waited, none gets further from its end, and every step of a
\* thread brings its own nearer.
THEOREM DrainsShrink == Spec => [][DrainStep]_vars
<1>1. IInv /\ [Next]_vars => [DrainStep]_vars
  BY DrainStepHolds
<1>2. QED
  BY <1>1, Invariance, PTL DEF Spec

\* While something remains, a thread is alive to do it, and no thread waits in vain for
\* the values: they are free, or with a task past its device access, or with a caller
\* whose next step lets go of them, and never with one that waits for the tasks.
DrainHasWayOut ==
  \A c \in Callers : At(c, "draining") =>
    /\ (\E t \in Tasks : Remaining(t) > 0) <=> Live(step) # {}
    /\ \/ values = Nobody
       \/ \E t \in Tasks : values = t /\ step[t] \in {"holding", "updated"}
       \/ \E d \in Callers : values = d /\ At(d, "unlocking")

THEOREM DrainsHaveWayOut == Spec => []DrainHasWayOut
<1>1. ASSUME IInv, NEW c \in Callers, At(c, "draining")
      PROVE  (\E t \in Tasks : Remaining(t) > 0) <=> Live(step) # {}
  <2>1. ASSUME NEW t \in Live(step) PROVE t \in Tasks /\ Remaining(t) > 0
    BY <1>1, <2>1 DEF IInv, Types, Live, Remaining, StepsLeft, TaskStep
  <2>2. ASSUME NEW t \in Tasks, Remaining(t) > 0 PROVE Live(step) # {}
    <3>1. step[t] # "idle" /\ (step[t] = "waiting" => ~blockRunning)
      BY <2>2 DEF Remaining, StepsLeft
    <3>2. CASE step[t] # "waiting"
      BY <3>1, <3>2 DEF Live
    <3>3. CASE step[t] = "waiting"
      <4>1. ~NothingLive
        BY <1>1, <3>1, <3>3 DEF IInv, NoLostWakeup, AllIdle
      <4>2. QED
        BY <4>1 DEF NothingLive, Live
    <3>4. QED
      BY <3>2, <3>3
  <2>3. QED
    BY <2>1, <2>2
<1>2. ASSUME IInv, NEW c \in Callers, At(c, "draining"), values # Nobody
      PROVE  \/ \E t \in Tasks : values = t /\ step[t] \in {"holding", "updated"}
             \/ \E d \in Callers : values = d /\ At(d, "unlocking")
  <2>1. CASE values \in Tasks
    BY <1>2, <2>1 DEF IInv, Owners
  <2>2. CASE values \in Callers
    <3>1. PICK d \in Callers : values = d /\ pc[d] \in ValuesPC
      BY <1>2, <2>2 DEF IInv, Owners
    <3>2. pc[d] \in OuterPC => d = c
      BY <1>2, DrainBlocks
    <3>3. pc[d] = "unlocking"
      BY <1>2, <3>1, <3>2 DEF At, ValuesPC, OuterPC
    <3>4. QED
      BY <3>1, <3>3 DEF At
  <2>3. QED
    BY <1>2, <2>1, <2>2 DEF IInv, Types, Actors
<1>3. IInv => DrainHasWayOut
  BY <1>1, <1>2 DEF DrainHasWayOut
<1>4. QED
  BY <1>3, Invariance, PTL

=============================================================================
