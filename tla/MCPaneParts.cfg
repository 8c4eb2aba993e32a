SPECIFICATION PanePartsSpec
CONSTANTS
  EditorTexts <- MCTexts
  EditorKeys = {"type", "paste", "backspace", "delete", "word_left", "word_right", "line_start",
                "transpose", "undo", "cut", "pick", "left", "right", "word<", "word>", "home", "end",
                "doc<", "doc>", "extend", "select_all", "mouse", "arrows", "submit"}
  MaxEdits = 3
  FindBlocks <- MCFindBlocks
  FindQueries <- MCQueries
  FindPast <- MCPast
  FindMoves = {"alt"}
  MaxBlocks = 2
  MaxAsks = 5
  KeyPlatforms = {"mac", "linux"}
  KeyFrames <- MCKeyFrames
  KeyMoves = {}
  MaxEvents = 6
  PathShells = {"zsh", "fish", "bash"}
  PathKeys = {"a", "_", "B", "S", "D", "/", "~", "="}
  PathTree <- MCTree
  PathMoves = {}
  MaxKeys = 3
  PaneAvail <- MCAvail
  FirstSize <- MCFirst
  MinSize <- MCMin
  Debounce = 2
  SizeMoves = {"fails"}
  MaxSizing = 5
  PaneRows = 10
  CommandRows = {1, 2}
  OutputRows = 6
  StickyCap = 4
  MaxViewBlocks = 2
  MaxEditRows = 2
INVARIANTS CaretsOnBoundaries UndoCoversEveryEdit FindIsExact  KeysReachTheirReader NamesAreRead SizesSettle NoRowStaysCovered
PROPERTIES MatchHolds
CHECK_DEADLOCK FALSE
