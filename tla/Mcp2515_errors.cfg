SPECIFICATION Spec
CONSTANTS
  Frames <- MCFrames
  ExtFrames <- MCExtFrames
  ZeroFrame = 0
  WarnLimit = 2
  PassiveLimit = 3
  BusOffLimit = 6
  TxErrorStep = 2
  ReqopValues <- ErrReqop
  RtsMasks <- ErrRts
  TxLoads <- TxFrames
  BusFrames <- ErrBus
  InteValues <- ErrInte
  IntfValues <- FreeIntf
  IntfClears <- ErrClears
  EflgValues <- None
  RxbCtrlValues <- None
  FilterValues <- None
  ErrorCounts <- ErrCounts
INVARIANTS IntCoherent EflgDerived
PROPERTIES BusOffEdges
