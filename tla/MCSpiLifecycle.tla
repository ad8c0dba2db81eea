--------------------------- MODULE MCSpiLifecycle ---------------------------
(* Instance of SpiLifecycle for TLC.                                       *)
EXTENDS SpiLifecycle

CONSTANTS p, q

(* As another program left the UART, or as this one did.                   *)
WrongOrRight == {LineFault, {}}
=============================================================================
