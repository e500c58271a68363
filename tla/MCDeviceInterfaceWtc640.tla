---------------------- MODULE MCDeviceInterfaceWtc640 ----------------------
(* Two threads; reads and writes of three packets, flash writes of two sectors. *)
EXTENDS DeviceInterfaceWtc640

CONSTANTS p, q

MCSectors ==
  [k \in {"read", "write", "flash"} |->
     IF k = "flash" THEN <<2, 1>> ELSE <<3>>]

MCFlashOnly == [k \in {"flash"} |-> <<1>>]

=============================================================================
