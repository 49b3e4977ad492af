SPECIFICATION FairSpec
CONSTANTS
  f1 = f1
  f2 = f2
  b1 = b1
  NoConn = NoConn
  Flashers <- OneFlasher
  Bridges <- OneBridge
  RingCap = 1
  MaxChunks = 1
INVARIANTS RingsBelongToOwner FirstSyncPasses SlotCoherent ResetsAreEarned
PROPERTIES EveryFlasherResets
