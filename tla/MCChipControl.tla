--------------------------- MODULE MCChipControl ---------------------------
(* Instance of ChipControl: the configurations only choose N and Paced. *)
EXTENDS ChipControl
=============================================================================
