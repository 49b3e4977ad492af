SPECIFICATION Spec
CONSTANTS
  Kind <- MCKind
  Steps <- MCSteps
  Default <- MCDefault
  Nudges <- MCNudges
  Turn = 5
  Clicks <- MCClicks
  NoFile = NoFile
  BadFile = BadFile
  MaxEdits = 2
INVARIANTS EditorShowsItem ListIsTrue
PROPERTIES ClickMovesOn
