SPECIFICATION Spec
CONSTANTS
  Frames <- MCFrames
  ExtFrames <- MCExtFrames
  ZeroFrame = 0
  WarnLimit = 1
  PassiveLimit = 2
  BusOffLimit = 3
  TxErrorStep = 2
  ReqopValues <- BufReqop
  RtsMasks <- TxRts
  TxLoads <- None
  BusFrames <- RxBus
  InteValues <- None
  IntfValues <- None
  IntfClears <- TxClears
  EflgValues <- FreeEflg
  RxbCtrlValues <- BufRxbCtrl
  FilterValues <- BufFilters
  ErrorCounts <- None

PROPERTIES FullBufferKept CompletionReported BusOffSilent
