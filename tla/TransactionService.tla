------------------------- MODULE TransactionService -------------------------
(***************************************************************************)
(* What transactions promise to a program, whatever mutexes, hand-overs    *)
(* and blocks of the task manager they are made of.  One caller at a time  *)
(* holds the transaction.  While it may use it, no value changes but by    *)
(* its own hand; while it has the device alone, no task is at work.  Tasks *)
(* store what they found in between, on their own or for the holder that   *)
(* waits for them.  Whoever has had the values owes a report, and when     *)
(* nobody owes one any more, every change has been told of.                *)
(***************************************************************************)
CONSTANTS
  Caller,
  Task,    \* a task is named by the property it reads or writes
  Nobody

VARIABLES
  holder,     \* the caller with the transaction, or Nobody
  use,        \* what the holder may do now: "none", "shared", "alone"
  working,    \* tasks at work
  owing,      \* callers and tasks that have yet to report
  unreported  \* properties changed and not reported

vars == <<holder, use, working, owing, unreported>>

Init ==
  /\ holder = Nobody /\ use = "none"
  /\ working = {} /\ owing = {} /\ unreported = {}

Begin(c) ==
  /\ holder = Nobody /\ holder' = c
  /\ use' \in {"none", "shared"}
  /\ owing' = owing \cup {c}
  /\ UNCHANGED <<working, unreported>>

BeginUse ==
  /\ holder # Nobody /\ use = "none"
  /\ use' \in {"shared", "alone"}
  /\ use' = "alone" => working = {}
  /\ UNCHANGED <<holder, working, owing, unreported>>

EndUse ==
  /\ use # "none" /\ use' = "none"
  /\ UNCHANGED <<holder, working, owing, unreported>>

End ==
  /\ holder # Nobody /\ use = "none"
  /\ holder' = Nobody
  /\ UNCHANGED <<use, working, owing, unreported>>

\* Tasks start and end, not beside a holder that is alone, nor owing a report.
Schedule ==
  /\ use # "alone"
  /\ working' \in SUBSET Task
  /\ working \cap owing \subseteq working'
  /\ UNCHANGED <<holder, use, owing, unreported>>

\* A task opens a transaction of its own.
BeginResult(t) ==
  /\ t \in working /\ holder = Nobody
  /\ owing' = owing \cup {t}
  /\ UNCHANGED <<holder, use, working, unreported>>

HolderChanges(p) ==
  /\ use # "none"
  /\ unreported' = unreported \cup {p}
  /\ UNCHANGED <<holder, use, working, owing>>

\* A task changes its value, and tasks of dependent properties may start.
TaskChanges(t) ==
  /\ t \in working /\ use = "none"
  /\ t \in owing \/ holder # Nobody
  /\ unreported' = unreported \cup {t}
  /\ working \subseteq working' /\ working' \in SUBSET Task
  /\ UNCHANGED <<holder, use, owing>>

Report(a) ==
  /\ a \in owing \ {holder}
  /\ owing' = owing \ {a}
  /\ unreported' \in SUBSET unreported
  /\ owing' = {} => unreported' = {}
  /\ UNCHANGED <<holder, use, working>>

Next ==
  \/ \E c \in Caller : Begin(c)
  \/ BeginUse \/ EndUse \/ End
  \/ Schedule
  \/ \E t \in Task : BeginResult(t) \/ HolderChanges(t) \/ TaskChanges(t)
  \/ \E a \in Caller \cup Task : Report(a)

Spec == Init /\ [][Next]_vars

=============================================================================
