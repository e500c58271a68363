--------------------------- MODULE TaskScheduler ---------------------------
(***************************************************************************)
(* What a task manager promises to its callers, whatever its threads, its  *)
(* queue and its blocking calls are: an accepted task is started at most   *)
(* once and is lost only by a stop that drops everything that waits,       *)
(* incompatible tasks never run together, a task never overtakes one it    *)
(* must follow, nothing is accepted or started while that is blocked,      *)
(* nothing runs while the gate is shut, and nothing is left waiting that   *)
(* no later end or unblocking will start.                                  *)
(***************************************************************************)
CONSTANTS
  Task,
  Compatible,  \* pairs of tasks that may run together
  MustFollow   \* pairs <<t, u>>: once offered after t, u does not start before t

VARIABLES
  pending,     \* accepted and not started
  running,     \* started and not over
  seen,        \* every task ever offered is in here
  accepting,   \* FALSE while a stop ignores what is offered
  starting,    \* FALSE while a pause keeps what is pending from starting
  gate         \* "shut" while a caller relies on nothing running

blocks == <<accepting, starting>>
vars   == <<pending, running, seen, blocks, gate>>

Started  == running' \ running
Accepted == (pending' \cup Started) \ pending

Init ==
  /\ pending = {} /\ running = {} /\ seen = {}
  /\ accepting = TRUE /\ starting = TRUE /\ gate = "open"

\* What tasks started in a step owe to each other and to those that still wait.
StartsWell ==
  /\ \A t, u \in running' : t # u => <<t, u>> \in Compatible
  /\ \A t \in pending', u \in Started : <<t, u>> \notin MustFollow
  /\ Started \cap pending' = {}
  /\ Started # {} => starting' /\ gate' = "open"

\* Tasks are offered, start and end, several in one step.
Work ==
  /\ Accepted \subseteq Task \ seen
  /\ seen \cup Accepted \subseteq seen'
  /\ Accepted # {} => accepting
  /\ pending \ Started \subseteq pending'
  /\ StartsWell
  /\ UNCHANGED <<blocks, gate>>

\* A pause blocks the starts; a stop blocks the offers and may drop what waits.
Block ==
  /\ accepting' => accepting
  /\ starting' => starting
  /\ pending' = pending \/ (pending' = {} /\ ~accepting')
  /\ UNCHANGED <<running, seen, gate>>

Shut == running = {} /\ gate' = "shut" /\ UNCHANGED <<pending, running, seen, blocks>>

\* A stop or a pause ends; the gate stays shut while the other one holds it.
Unblock ==
  /\ accepting => accepting'
  /\ starting => starting'
  /\ gate' \in {gate, "open"}
  /\ Accepted = {} /\ pending \ Started \subseteq pending'
  /\ StartsWell
  /\ UNCHANGED seen

\* What waits is started by the end of what runs, or by the end of a pause that has
\* not been followed by a stop; and the gate is shut only behind a block.
Kept ==
  /\ pending # {} => IF starting THEN running # {} ELSE accepting
  /\ gate = "shut" => ~accepting \/ ~starting

Next == (Work \/ Block \/ Shut \/ Unblock) /\ Kept'

Spec == Init /\ [][Next]_vars

=============================================================================
