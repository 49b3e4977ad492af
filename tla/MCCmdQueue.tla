---------------------------- MODULE MCCmdQueue ----------------------------
(***************************************************************************)
(* Instance of CmdQueue: stdin and one scenario, which is running from the *)
(* start or started by a command.                                          *)
(***************************************************************************)
EXTENDS CmdQueue

CONSTANT s1

OneScript == {s1}
=============================================================================
