------------------------- MODULE TaskManagerRefresh -------------------------
(***************************************************************************)
(* The queued task manager once more, with the moment at which a property  *)
(* task accesses the device.  refreshValue of an adapter adds a            *)
(* READ_PROPERTY task (addReadTask); addTask ignores it while a property   *)
(* task that includes its ranges waits or is registered as running.  A     *)
(* task stays registered until its thread erases it: after its device      *)
(* access, while it updates the cached value and runs every handler of     *)
(* transactionFinished.  A refresh asked for in that time reads nothing.   *)
(***************************************************************************)
EXTENDS TaskManagerQueued

VARIABLES
  accessed,  \* executing tasks whose reader or writer has returned
  owed       \* history: addresses of refreshes answered by no later access

refreshVars == <<vars, accessed, owed>>

\* Some task that makes the manager ignore a read of `ranges` has still to read it.
WillBeRead(ranges) ==
  \E t \in waiting \cup (executing \ accessed) :
    IsPropertyTask(t) /\ ranges \subseteq t.info.ranges

\* addReadTask, addWriteTask and the wild accesses.
RefreshAddTask(info) ==
  /\ AddTask(info)
  /\ owed' = IF /\ info.type = "READ_PROPERTY" /\ ~blockAdding
                /\ Ignored(info) /\ ~WillBeRead(info.ranges)
             THEN owed \cup info.ranges
             ELSE owed
  /\ UNCHANGED accessed

\* m_valueReader or m_valueWriter returns inside the task function.
AccessDevice(t) ==
  /\ t \in executing \ accessed
  /\ accessed' = accessed \cup {t}
  /\ owed' = owed \ t.info.ranges
  /\ UNCHANGED vars

RefreshRunTaskFunction(t) ==
  /\ t \in accessed
  /\ RunTaskFunction(t)
  /\ accessed' = accessed \ {t}
  /\ UNCHANGED owed

\* A stop discards what was asked for: the device is about to change.
RefreshStop ==
  /\ BlockAddingTasks \/ Destroy
  /\ owed' = {}
  /\ UNCHANGED accessed

RefreshOther ==
  /\ \/ \E t \in Live : InvalidateProperties(t) \/ OnTaskFinished(t)
     \/ BlockRunningTasks \/ FinishTasks \/ UnblockAddingTasks \/ UnblockRunningTasks
  /\ UNCHANGED <<accessed, owed>>

RefreshInit == Init /\ accessed = {} /\ owed = {}

RefreshNext ==
  \/ \E info \in TaskInfos : RefreshAddTask(info)
  \/ \E t \in executing : AccessDevice(t) \/ RefreshRunTaskFunction(t)
  \/ RefreshStop
  \/ RefreshOther

RefreshSpec == RefreshInit /\ [][RefreshNext]_refreshVars

\* "if is readable, read new value" (properties.h, refreshValue): when nothing waits or
\* runs any more, every refresh that was asked for has been followed by an access to
\* its addresses.  The code does not keep this: see the README.
RefreshReadsNewValue == waiting = {} /\ Live = {} => owed = {}

=============================================================================
