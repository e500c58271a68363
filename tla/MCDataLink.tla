----------------------------- MODULE MCDataLink -----------------------------
(* Instances of DataLink for TLC. *)
EXTENDS DataLink

\* A header and an answer of two bytes.
MCSizes == {1, 2}

=============================================================================
