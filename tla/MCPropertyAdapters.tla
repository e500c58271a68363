------------------------- MODULE MCPropertyAdapters -------------------------
(* Two components of two values, two tasks that wait, two connections. *)
EXTENDS PropertyAdapters, TLC

CONSTANTS a, b, off, on

MCDefault == [c \in {a, b} |-> off]

Symmetry == Permutations({a, b})

=============================================================================
