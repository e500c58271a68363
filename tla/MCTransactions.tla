--------------------------- MODULE MCTransactions ---------------------------
(* Two callers and two tasks, the first of which touches the second. *)
EXTENDS Transactions

CONSTANTS c1, c2, t1, t2

MCDependents == [t \in {t1, t2} |-> IF t = t1 THEN {t2} ELSE {}]

=============================================================================
