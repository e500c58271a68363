--------------------------- MODULE MCProtocolTCSI ---------------------------
(* Two addresses, three packet ids, four requests. *)
EXTENDS ProtocolTCSI

CONSTANTS x, y

=============================================================================
