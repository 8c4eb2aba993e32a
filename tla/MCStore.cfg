SPECIFICATION Spec
CONSTANTS
  Procs = {p, q}
  Moves = {"clear", "close", "newtab", "quit", "crash", "gc", "fail"}
  MaxPanes = 2
  MaxSessions = 3
  MaxLaunches = 2
  LinesOf <- MCLines
INVARIANTS ScreenIsStored ClearedStaysCleared DurableUntilDiscarded
PROPERTIES CollectsNoneAlive ImplementsTranscript
CHECK_DEADLOCK FALSE
