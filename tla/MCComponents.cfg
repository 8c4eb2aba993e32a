SPECIFICATION ComponentsSpec
CONSTANTS
  Lines <- MCLines
  Outputs <- MCOutputs
  MaxWrites = 2
  MaxOutputs = 2
  MaxPaneId = 4
  MaxStrips = 2
  MaxActs = 3
  Gestures = {"exit", "alt", "osclose", "click", "x", "plus", "drag", "NewTab", "CloseTab", "Quit",
              "NextTab", "PrevTab", "Restart", "norow", "fails"}
  QuitFrames = 1
  SelBlocks <- MCSelBlocks
  SelLinks <- MCLinks
  SelWidths = {2, 3}
  SelColumns = {0, 2}
  SelMoves = {"clear", "resize", "grid", "editor", "sticky", "cmd", "shift"}
  MaxSealed = 2
  MaxGestures = 2
  HistTexts <- MCTexts
  HistProcs = {"m", "n"}
  HistFaults = {"busy", "degraded"}
  MaxClock = 3
  OverlayFrom = 3
  MaxRuns = 2
  RunsCap = 1
  Dirs = {"home", "tmp"}
  Repo = {"home"}
  Branches = {"main", "topic"}
  WithPr = {"topic"}
  ChipMoves = {}
  MaxMoves = 2
  MaxCheckouts = 2
INVARIANTS ChunksDoNotMatter EchoAndMarkersAreOut EveryStripShowsItsOwn NoUnsavedLayout
  HighlightIsCopied WholeUnitsStaySelected ExitIsOfItsRun RecallIsExact ReplayIsIdempotent
  ChipsAreCurrent
PROPERTIES NoProgramKilledUnasked TextSurvives
CHECK_DEADLOCK FALSE
