SPECIFICATION Spec
CONSTANTS
  Procs = {p}
  Moves = {"clear", "clear_dead", "quit"}
  MaxPanes = 1
  MaxSessions = 2
  MaxLaunches = 3
  LinesOf <- MCLines
INVARIANT ClearedStaysCleared
CHECK_DEADLOCK FALSE
