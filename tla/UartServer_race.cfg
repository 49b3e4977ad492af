SPECIFICATION Spec
CONSTANTS
  f1 = f1
  f2 = f2
  b1 = b1
  NoConn = NoConn
  Flashers <- TwoFlashers
  Bridges <- NoBridge
  RingCap = 1
  MaxChunks = 0
PROPERTIES BootloaderKept
