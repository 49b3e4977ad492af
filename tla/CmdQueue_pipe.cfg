SPECIFICATION FairSpec
CONSTANTS
  s1 = s1
  Reader = Reader
  Scripts <- OneScript
  NoCmd = NoCmd
  Cap = 2
  Lines = 3
INVARIANTS OwnedOnce
PROPERTIES ImplementsPipe AcceptedIsApplied
CHECK_DEADLOCK FALSE
