---------------------------- MODULE MCUartBridge ----------------------------
(***************************************************************************)
(* Instances of UartBridge: one chip, whose bridge, avrdude thread and     *)
(* scripts meet in every order.  The pool is as large as the threads that  *)
(* may each hold a bridge, plus one that strays.                           *)
(***************************************************************************)
EXTENDS UartBridge

OneChip == {1}
TwoChips == {1, 2}
=============================================================================
