------------------------ MODULE MCTaskManagerQueued ------------------------
(* The queued task manager on three addresses, two threads and four requests. *)
EXTENDS TaskManagerQueued, Sequences, SequencesExt

CONSTANTS a, b, c

Info(ranges, type, withProgress) ==
  [ranges |-> ranges, type |-> type, withProgress |-> withProgress]

\* A property read and written, a write that overlaps it, a long wild write and a
\* long wild read that both report progress, and a read that conflicts with nothing.
MCTaskInfos ==
  { Info({a}, "READ_PROPERTY", FALSE),
    Info({a}, "WRITE_PROPERTY", FALSE),
    Info({a, b}, "WRITE_PROPERTY", FALSE),
    Info({b}, "WRITE_WILD", TRUE),
    Info({a}, "READ_WILD", TRUE),
    Info({c}, "READ_WILD", FALSE) }

----------------------------------------------------------------------------
(* ScanStarts is the loop of tryRunTasks: evaluated over every short queue. *)

InOrder(queue) == SetToSortSeq(queue, LAMBDA t, u : t.ticket < u.ticket)

Queues == {[n \in 1..3 |-> [ticket |-> n, info |-> i[n]]] : i \in [1..3 -> MCTaskInfos]}

ASSUME ScanIsTheLoop ==
  \A q \in Queues, k \in 0..1 :
    LET running == {q[n] : n \in 1..k}
        queue   == {q[n] : n \in k+1..3}
    IN  {s \in SUBSET queue : ScanStarts(queue, running, s)} = {LoopStarts(InOrder(queue), running)}

=============================================================================
