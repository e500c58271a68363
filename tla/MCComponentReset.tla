-------------------------- MODULE MCComponentReset --------------------------
(* Two components of two values, one task that waits, one connection. *)
EXTENDS ComponentReset

CONSTANTS a, b, off, on

MCDefault == [c \in {a, b} |-> off]

=============================================================================
