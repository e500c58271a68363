------------------------- MODULE ProgressController -------------------------
(***************************************************************************)
(* The progress of one sequence (core/misc/progresscontroller.cpp): the    *)
(* task that is shown to the user, and the flag with which the user asks   *)
(* for its cancellation.  The state of a sequence is a record that the     *)
(* modules of the operations reporting progress keep as a variable of      *)
(* theirs.  The tasks of the operations modelled here do not overlap, and  *)
(* the ids that tell a late message of an old task are left out.           *)
(***************************************************************************)

Progress == [ cancellable : BOOLEAN,  \* what taskStarted told the user
              isCancelled : BOOLEAN ] \* m_isCancelled

NoProgress == [cancellable |-> FALSE, isCancelled |-> FALSE]

\* createTaskUnbound, createTaskBound: a request to cancel does not survive
\* the start of the next task.
CreateTask(isCancellable) == [cancellable |-> isCancellable, isCancelled |-> FALSE]

\* Whether or not the current task can be cancelled.
CancelProgress(p) == [p EXCEPT !.isCancelled = TRUE]
=============================================================================
