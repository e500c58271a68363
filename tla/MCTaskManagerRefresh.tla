------------------------ MODULE MCTaskManagerRefresh ------------------------
(* Refreshes and writes of one property, while a second property is written. *)
EXTENDS TaskManagerRefresh

CONSTANTS a, b

MCTaskInfos ==
  { [ranges |-> {a}, type |-> "READ_PROPERTY",  withProgress |-> FALSE],
    [ranges |-> {b}, type |-> "WRITE_PROPERTY", withProgress |-> FALSE] }

=============================================================================
