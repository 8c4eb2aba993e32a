SPECIFICATION CompletionSpec
CONSTANTS
  Keys = {"g"}
  Moves = {"none"}
  Lines <- MCWord
  Tool <- MCNoTool
  Commands <- MCCommands
  Files <- MCFiles
  OtherWords <- MCOther
  MaxActs = 4
PROPERTY AnswersFitTheQuestion
CHECK_DEADLOCK FALSE
