SPECIFICATION Spec
CONSTANTS
  Chips <- Both
  Ecus <- OneEcu
  Apps <- Windows
  Events <- MCEvents
  AdcMax = 5
  Channels = {0, 1}
  LogMax = 2
  LogKeep = 1
  LcdCols = 2
  FramesMax = 1
  BufLen = 2
  Targets <- MCTargets
  Ports <- MCPorts
  RowMax = 2
  ConsoleMax = 3
  ConsoleSlack = 1
  BlockMax = 2
  PulseTicks = 1
  Characters = {0, 1, 2, 3, 9}
  Newline = 0
  Escape = 9
  AllIds = AllIds
  Buttons <- MCButtons
  Knobs <- MCKnobs
  Inputs <- MCInputs
  Speeds <- MCSpeeds
  Filters <- MCFilters
  InjectIds = {1, 0}
  BadId = 0
  Typed <- MCTyped
  NoButton = NoButton
  UsedSlots <- MCSlots
  MaxSteps = 3
  MaxPieces = 3
INVARIANTS NothingLost StoreIsLatest QmlShowsStore RowsAreNewest ConsoleIsTail PanelsFollow ControlsAreHeard
CHECK_DEADLOCK FALSE
