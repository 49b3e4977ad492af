---------------------------- MODULE MCCalibrate ----------------------------
(* Two LEDs around a pad.  Ranges are small, so that arrows, scaling and
   rotation leave what the spin boxes can show, and x and the sizes are kept
   with one more digit than their boxes have. *)
EXTENDS Calibrate

MCKind == <<"led", "pad", "led">>
MCSteps == [x |-> {0, 40}, w |-> {0, 10}, rot |-> {-5, 0, 5}, r |-> {0, 10}]
MCDefault == [x |-> 0, w |-> 14, rot |-> 0, r |-> 6]
MCNudges == {7, 35}
MCClicks == {38}
=============================================================================
