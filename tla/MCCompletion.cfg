SPECIFICATION CompletionSpec
CONSTANTS
  Keys = {"g", "_"}
  Moves = {"mouse", "ttl"}
  Lines <- MCLines
  Tool <- MCTool
  Commands <- MCCommands
  Files <- MCFiles
  OtherWords <- MCOther
  MaxActs = 4
INVARIANTS CacheFitsTheQuestion
PROPERTIES TypingNeverAccepts AwaitedIsResolved
CHECK_DEADLOCK FALSE
