------------------------- MODULE MCConnectionWtc640 -------------------------
(* Instances of ConnectionWtc640 for TLC. *)
EXTENDS ConnectionWtc640

\* Two baudrates, the faster one tried first.
MCBaudOrder == <<2, 1>>

MCOperations == {"connectUart", "connectEbus", "auto", "reconnect", "disconnect", "setBaud", "reset", "update"}

=============================================================================
