---------------------------- MODULE MCUartServer ----------------------------
(***************************************************************************)
(* Instances of UartServer: one chip with a flasher and a bridge, or with  *)
(* two flashers.                                                           *)
(***************************************************************************)
EXTENDS UartServer

CONSTANTS f1, f2, b1

TwoFlashers == {f1, f2}
OneFlasher  == {f1}
OneBridge   == {b1}
NoBridge    == {}
=============================================================================
