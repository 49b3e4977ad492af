SPECIFICATION FairSpec
CONSTANTS
  N = 2
  Paced = TRUE
INVARIANTS TypeOK PauseTakesHold EjectTakesHold SafeTeardown
PROPERTIES RunningChipAdvances StopEndsAll
CHECK_DEADLOCK FALSE
