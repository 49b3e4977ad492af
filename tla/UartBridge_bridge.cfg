SPECIFICATION FairSpec
CONSTANTS
  Chip <- OneChip
  Pool = 3
  MaxFlashes = 2
  MaxScripts = 1
  NoOne = NoOne
  Avrdude = Avrdude
INVARIANTS FreshWorkers StopIsComplete
PROPERTIES AvrdudeFindsSlotFree ThreadsReturn KickedReturns
