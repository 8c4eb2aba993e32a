SPECIFICATION WsSpec
CONSTANTS
  MaxPaneId = 3
  MaxStrips = 1
  MaxActs = 4
  QuitFrames = 1
  Gestures = {"exit", "x", "NewTab"}
INVARIANT NeverTabless
CHECK_DEADLOCK FALSE
