SPECIFICATION Spec
CONSTANTS
  N = 2
  Paced = TRUE
INVARIANT PauseResetsPacing
CHECK_DEADLOCK FALSE
