SPECIFICATION FairSpec
CONSTANTS
  N = 2
  QueueCap = 2
  Quota <- TwoAndOnes
  Operated <- BothEcus
PROPERTIES ImplementsBus EveryFrameOffered
INVARIANTS PipelineOrdered NothingVanishes
