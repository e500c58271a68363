------------------------- MODULE TaskManagerQueued -------------------------
(***************************************************************************)
(* The queued task manager (core/properties/taskmanagerqueued.cpp): tasks  *)
(* that read or write ranges of device memory wait in a vector, run on     *)
(* detached threads when nothing that runs overlaps them, and the manager  *)
(* can be drained, paused or stopped while all this goes on.               *)
(*                                                                         *)
(* Every critical section of m_mutex is one action.  A task's thread goes  *)
(* through three phases: its function runs (executing), the                *)
(* invalidateProperties signal is emitted for a WRITE_WILD task            *)
(* (invalidating), and it is about to erase itself (returned).             *)
(*                                                                         *)
(* The vector is a set of tasks ordered by the ticket each request gets:   *)
(* the code only pushes at the back, erases by index and clears.           *)
(***************************************************************************)
EXTENDS Naturals, FiniteSets, Sequences

CONSTANTS
  TaskInfos,              \* the requests callers make
  MaximumNumberOfThreads, \* m_maximumNumberOfThreads
  MaxRequests             \* bound on the number of requests of a behaviour

TaskType == {"READ_PROPERTY", "WRITE_PROPERTY", "READ_WILD", "WRITE_WILD"}

ASSUME TaskInfosAssumption ==
  /\ IsFiniteSet(TaskInfos)
  /\ \A i \in TaskInfos :
       /\ i.ranges # {}               \* the assertion at the head of addTask
       /\ i.type \in TaskType
       /\ i.withProgress \in BOOLEAN
ASSUME ThreadsAssumption  == MaximumNumberOfThreads \in Nat \ {0}
ASSUME RequestsAssumption == MaxRequests \in Nat

Task == [ticket : 1..MaxRequests, info : TaskInfos]

VARIABLES
  waiting,       \* m_tasksWaitingQueue
  inProgress,    \* m_tasksInProgress
  executing,     \* tasks whose thread runs the task function
  invalidating,  \* tasks whose thread emits invalidateProperties
  returned,      \* tasks whose thread has only the final erase left
  blockAdding,   \* m_blockAddingTasks
  blockRunning,  \* m_blockRunningTasks
  stopHandle,    \* the StopAndBlockTasks object of the controlling caller
  pauseHandle,   \* its PauseTasks object
  life,          \* of the manager itself: alive, closing (in ~), destroyed
  requests       \* number of calls of addTask so far

threadVars == <<executing, invalidating, returned>>
handleVars == <<stopHandle, pauseHandle, life>>
vars == <<waiting, inProgress, executing, invalidating, returned,
          blockAdding, blockRunning, stopHandle, pauseHandle, life, requests>>

HandleState == {"none", "draining", "held"}

Live == executing \cup invalidating \cup returned

----------------------------------------------------------------------------
(* tryRunTasks *)

\* canRunTask: at most one task with progress, and no overlap with what runs.
CanRunTask(t, running) ==
  \A r \in running :
    /\ ~(t.info.withProgress /\ r.info.withProgress)
    /\ r.info.ranges \cap t.info.ranges = {}

Earlier(t, tasks) == {u \in tasks : u.ticket < t.ticket}

\* What runs when the scan of the queue reaches t, if the scan starts `started`.
SeenBy(t, running, started) == running \cup Earlier(t, started)

MayStart(t, running) ==
  Cardinality(running) < MaximumNumberOfThreads /\ CanRunTask(t, running)

\* The loop over m_tasksWaitingQueue: after k turns it has started started[k].
LoopStarts(queue, running) ==
  LET started[k \in 0..Len(queue)] ==
        IF k = 0 THEN {}
        ELSE IF MayStart(queue[k], running \cup started[k-1])
             THEN started[k-1] \cup {queue[k]}
             ELSE started[k-1]
  IN  started[Len(queue)]

\* The same as a condition on the set it starts: a task is started exactly when,
\* with all that ran before and the earlier tasks this scan started, a thread is
\* left and canRunTask holds.
ScanStarts(queue, running, started) ==
  \A t \in queue : t \in started <=> MayStart(t, SeenBy(t, running, started))

\* The threads of `started` are created; `threads` run a task function already.
StartThreads(queue, running, threads, started) ==
  /\ waiting'    = queue \ started
  /\ inProgress' = running \cup started
  /\ executing'  = threads \cup started

\* Fault: the scan does not add what it starts to the running ranges.
TryRunTasks_StaleRanges(blocked, queue, running, threads) ==
  \E started \in SUBSET queue :
    /\ started = {t \in queue : ~blocked /\ CanRunTask(t, running)}
    /\ StartThreads(queue, running, threads, started)

\* Fault: one thread too many.
TryRunTasks_OffByOne(blocked, queue, running, threads) ==
  \E started \in SUBSET queue :
    /\ \A t \in queue :
         t \in started <=>
           /\ ~blocked
           /\ Cardinality(SeenBy(t, running, started)) <= MaximumNumberOfThreads
           /\ CanRunTask(t, SeenBy(t, running, started))
    /\ StartThreads(queue, running, threads, started)

\* Fault: any one task that can run is started, not the first.
TryRunTasks_AnyOrder(blocked, queue, running, threads) ==
  \E started \in SUBSET queue :
    /\ \/ started = {}
       \/ \E t \in queue : started = {t} /\ ~blocked /\ CanRunTask(t, running)
    /\ StartThreads(queue, running, threads, started)

\* tryRunTasks on a queue and a running set, with m_blockRunningTasks = blocked.
TryRunTasks(blocked, queue, running, threads) ==
  \E started \in SUBSET queue :
    /\ IF blocked THEN started = {} ELSE ScanStarts(queue, running, started)
    /\ StartThreads(queue, running, threads, started)

----------------------------------------------------------------------------
(* addTaskSimple, addTaskWithProgress, addTask *)

IsPropertyTask(t) == t.info.type \in {"READ_PROPERTY", "WRITE_PROPERTY"}

HasPropertyTaskWaitingOrRunning(ranges) ==
  \E t \in inProgress \cup waiting :
    IsPropertyTask(t) /\ ranges \subseteq t.info.ranges

Ignored(info) ==
  \/ blockAdding
  \/ info.type = "READ_PROPERTY" /\ HasPropertyTaskWaitingOrRunning(info.ranges)

AddTask(info) ==
  /\ life = "alive"
  /\ requests < MaxRequests
  /\ requests' = requests + 1
  /\ IF Ignored(info)
     THEN UNCHANGED <<waiting, inProgress, executing>>
     ELSE TryRunTasks(blockRunning,
                      waiting \cup {[ticket |-> requests + 1, info |-> info]},
                      inProgress, executing)
  /\ UNCHANGED <<invalidating, returned, blockAdding, blockRunning, handleVars>>

----------------------------------------------------------------------------
(* The thread of a task *)

\* Fault: a path of the task function that leaves without onTaskFinished.
RunTaskFunction_NoScopeExit(t) ==
  /\ t \in executing
  /\ executing' = executing \ {t}
  /\ UNCHANGED <<waiting, inProgress, invalidating, returned,
                 blockAdding, blockRunning, handleVars, requests>>

\* Fault: the task is erased before the signal, not after it.
RunTaskFunction_EraseFirst(t) ==
  /\ t \in executing
  /\ executing' = executing \ {t}
  /\ inProgress' = IF t.info.type = "WRITE_WILD" THEN inProgress \ {t} ELSE inProgress
  /\ IF t.info.type = "WRITE_WILD"
     THEN invalidating' = invalidating \cup {t} /\ UNCHANGED returned
     ELSE returned' = returned \cup {t} /\ UNCHANGED invalidating
  /\ UNCHANGED <<waiting, blockAdding, blockRunning, handleVars, requests>>

\* The task function returns; onTaskFinished starts with the signal for WRITE_WILD.
RunTaskFunction(t) ==
  /\ t \in executing
  /\ executing' = executing \ {t}
  /\ IF t.info.type = "WRITE_WILD"
     THEN invalidating' = invalidating \cup {t} /\ UNCHANGED returned
     ELSE returned' = returned \cup {t} /\ UNCHANGED invalidating
  /\ UNCHANGED <<waiting, inProgress, blockAdding, blockRunning, handleVars, requests>>

\* Every slot of invalidateProperties has run.
InvalidateProperties(t) ==
  /\ t \in invalidating
  /\ invalidating' = invalidating \ {t}
  /\ returned' = returned \cup {t}
  /\ UNCHANGED <<waiting, inProgress, executing, blockAdding, blockRunning,
                 handleVars, requests>>

\* Fault: nothing is started when a task ends.
OnTaskFinished_NoRescan(t) ==
  /\ t \in returned
  /\ returned' = returned \ {t}
  /\ inProgress' = inProgress \ {t}
  /\ UNCHANGED <<waiting, executing, invalidating, blockAdding, blockRunning,
                 handleVars, requests>>

\* Fault: the early return for blocked running comes before the erase.
OnTaskFinished_ReturnsEarly(t) ==
  /\ t \in returned
  /\ returned' = returned \ {t}
  /\ IF blockRunning
     THEN UNCHANGED <<waiting, inProgress, executing>>
     ELSE TryRunTasks(blockRunning, waiting, inProgress \ {t}, executing)
  /\ UNCHANGED <<invalidating, blockAdding, blockRunning, handleVars, requests>>

\* The critical section of onTaskFinished.
OnTaskFinished(t) ==
  /\ t \in returned
  /\ returned' = returned \ {t}
  /\ TryRunTasks(blockRunning, waiting, inProgress \ {t}, executing)
  /\ UNCHANGED <<invalidating, blockAdding, blockRunning, handleVars, requests>>

----------------------------------------------------------------------------
(* StopAndBlockTasks, PauseTasks and the destructor.  One caller at a time    *)
(* drains: Properties creates both objects under its outer transaction mutex. *)

Draining == "draining" \in {stopHandle, pauseHandle} \/ life = "closing"

BlockAddingTasks ==
  /\ life = "alive" /\ stopHandle = "none" /\ ~Draining
  /\ blockAdding' = TRUE
  /\ waiting' = IF blockRunning THEN {} ELSE waiting
  /\ stopHandle' = "draining"
  /\ UNCHANGED <<inProgress, threadVars, blockRunning, pauseHandle, life, requests>>

BlockRunningTasks ==
  /\ life = "alive" /\ pauseHandle = "none" /\ ~Draining
  /\ blockRunning' = TRUE
  /\ pauseHandle' = "draining"
  /\ UNCHANGED <<waiting, inProgress, threadVars, blockAdding, stopHandle, life, requests>>

\* Fault: the blocking call does not wait.
FinishTasks_NoWait ==
  /\ Draining
  /\ stopHandle'  = IF stopHandle  = "draining" THEN "held" ELSE stopHandle
  /\ pauseHandle' = IF pauseHandle = "draining" THEN "held" ELSE pauseHandle
  /\ life' = IF life = "closing" THEN "destroyed" ELSE life
  /\ UNCHANGED <<waiting, inProgress, threadVars, blockAdding, blockRunning, requests>>

\* finishTasks finds m_tasksInProgress empty and its caller goes on.
FinishTasks ==
  /\ Draining
  /\ inProgress = {}
  /\ stopHandle'  = IF stopHandle  = "draining" THEN "held" ELSE stopHandle
  /\ pauseHandle' = IF pauseHandle = "draining" THEN "held" ELSE pauseHandle
  /\ life' = IF life = "closing" THEN "destroyed" ELSE life
  /\ UNCHANGED <<waiting, inProgress, threadVars, blockAdding, blockRunning, requests>>

UnblockAddingTasks ==
  /\ stopHandle = "held" /\ ~Draining
  /\ blockAdding' = FALSE
  /\ stopHandle' = "none"
  /\ UNCHANGED <<waiting, inProgress, threadVars, blockRunning, pauseHandle, life, requests>>

\* Fault: the queue is not scanned when running is allowed again.
UnblockRunningTasks_NoRescan ==
  /\ pauseHandle = "held" /\ ~Draining
  /\ blockRunning' = FALSE
  /\ pauseHandle' = "none"
  /\ UNCHANGED <<waiting, inProgress, threadVars, blockAdding, stopHandle, life, requests>>

UnblockRunningTasks ==
  /\ pauseHandle = "held" /\ ~Draining
  /\ blockRunning' = FALSE
  /\ pauseHandle' = "none"
  /\ TryRunTasks(FALSE, waiting, inProgress, executing)
  /\ UNCHANGED <<invalidating, returned, blockAdding, stopHandle, life, requests>>

\* ~TaskManagerQueued: the handles hold the manager, so both are gone.
Destroy ==
  /\ life = "alive" /\ stopHandle = "none" /\ pauseHandle = "none"
  /\ life' = "closing"
  /\ blockAdding' = TRUE
  /\ waiting' = {}
  /\ UNCHANGED <<inProgress, threadVars, blockRunning, stopHandle, pauseHandle, requests>>

----------------------------------------------------------------------------

Init ==
  /\ waiting = {} /\ inProgress = {}
  /\ executing = {} /\ invalidating = {} /\ returned = {}
  /\ blockAdding = FALSE /\ blockRunning = FALSE
  /\ stopHandle = "none" /\ pauseHandle = "none"
  /\ life = "alive"
  /\ requests = 0

ThreadStep(t) == RunTaskFunction(t) \/ InvalidateProperties(t) \/ OnTaskFinished(t)

Next ==
  \/ \E info \in TaskInfos : AddTask(info)
  \/ \E t \in Live : ThreadStep(t)
  \/ BlockAddingTasks
  \/ BlockRunningTasks
  \/ FinishTasks
  \/ UnblockAddingTasks
  \/ UnblockRunningTasks
  \/ Destroy

Spec == Init /\ [][Next]_vars

\* Task functions return (each device access has a timeout), finishTasks polls
\* until it succeeds, and the handles are scoped objects.  Callers need not call.
Fairness ==
  /\ \A t \in Task : WF_vars(ThreadStep(t))
  /\ WF_vars(FinishTasks)
  /\ WF_vars(UnblockAddingTasks)
  /\ WF_vars(UnblockRunningTasks)

FairSpec == Spec /\ Fairness

----------------------------------------------------------------------------
(* Properties *)

\* The types of the variables.  The registered tasks are those with a thread, and a
\* thread is in one phase: the VERIFY on the erase in onTaskFinished holds.
TypeOK ==
  /\ waiting \subseteq Task /\ inProgress \subseteq Task
  /\ inProgress = Live
  /\ executing \cap invalidating = {}
  /\ executing \cap returned = {} /\ invalidating \cap returned = {}
  /\ blockAdding \in BOOLEAN /\ blockRunning \in BOOLEAN
  /\ stopHandle \in HandleState /\ pauseHandle \in HandleState
  /\ life \in {"alive", "closing", "destroyed"}
  /\ requests \in 0..MaxRequests

\* Two tasks that run never touch a common address, and never both report
\* progress: the device sees overlapping accesses one after the other, whatever
\* the order of adds, ends, pauses and resumes.
ConflictFree ==
  \A t, u \in inProgress : t # u =>
    /\ t.info.ranges \cap u.info.ranges = {}
    /\ ~(t.info.withProgress /\ u.info.withProgress)

\* No more threads live than m_maximumNumberOfThreads, counting the threads that
\* are still emitting signals.
ThreadLimit == Cardinality(Live) <= MaximumNumberOfThreads

\* No wake-up is lost: unless running is blocked, a task waits only because
\* every thread is in use or something that runs conflicts with it.
NoLostWakeup ==
  ~blockRunning =>
    \A t \in waiting :
      \/ Cardinality(inProgress) >= MaximumNumberOfThreads
      \/ ~CanRunTask(t, inProgress)

\* A later task never overtakes a waiting one whose ranges it includes (and whose
\* progress flag it shares): two writes of one property reach the device in the
\* order they were asked for, so the last value asked for is the last one written.
WritesInOrder ==
  \A t \in waiting, u \in inProgress :
    t.ticket < u.ticket =>
      ~ /\ t.info.ranges \subseteq u.info.ranges
        /\ t.info.withProgress => u.info.withProgress

\* Once blockRunningTasksAndWait or blockAddingTasksAndWait has returned, or the
\* destructor is over, no thread of the manager is left, not even one in a slot of
\* invalidateProperties, and after a stop no task is left to run later.
BlockedIsQuiet ==
  /\ "held" \in {stopHandle, pauseHandle} => Live = {}
  /\ stopHandle = "held" => waiting = {}
  /\ life = "destroyed" => Live = {} /\ waiting = {}

\* A caller that drains the manager gets it: both blocking calls return and the
\* destructor ends, whatever was queued or running.
DrainsFinish == Draining ~> ~Draining

\* A task that was accepted does not wait for ever: it runs to its end or is
\* dropped by a stop.
TasksSettle ==
  \A n \in 1..MaxRequests :
    (\E t \in waiting : t.ticket = n) ~> ~(\E t \in waiting \cup Live : t.ticket = n)

----------------------------------------------------------------------------
(* The scheduler this manager implements *)

Compatible ==
  {p \in Task \X Task : CanRunTask(p[1], {p[2]})}

MustFollow ==
  {p \in Task \X Task :
     /\ p[1].ticket < p[2].ticket
     /\ p[1].info.ranges \subseteq p[2].info.ranges
     /\ p[1].info.withProgress => p[2].info.withProgress}

Quiet == "held" \in {stopHandle, pauseHandle} \/ life = "destroyed"

Scheduler == INSTANCE TaskScheduler WITH
  pending   <- waiting,
  running   <- inProgress,
  seen      <- {t \in Task : t.ticket <= requests},
  accepting <- ~blockAdding,
  starting  <- ~blockRunning,
  gate      <- IF Quiet THEN "shut" ELSE "open"

\* The manager is a scheduler: whatever its callers do, no step loses, repeats or
\* reorders a task, starts one while a caller holds the device, or leaves one waiting
\* that no end of a task and no end of a pause is going to start.
ImplementsScheduler == Scheduler!Spec

=============================================================================
