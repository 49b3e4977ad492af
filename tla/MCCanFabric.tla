---------------------------- MODULE MCCanFabric ----------------------------
(***************************************************************************)
(* An instance of CanFabric: two ECUs, the first of which sends repeatedly *)
(* and overruns the queue of the other with the help of the injecting main *)
(* thread; the operator locks either.                                      *)
(***************************************************************************)
EXTENDS CanFabric

\* ECU 0 sends two frames, ECU 1 and the main thread one.
TwoAndOnes == [t \in 0..2 |-> IF t = 0 THEN 2 ELSE 1]

BothEcus == {0, 1}
=============================================================================
