SPECIFICATION Spec
CONSTANTS
  TimeoutFrames = 3
  Shells = {"zsh", "fish"}
  Lockstep = FALSE
  Moves = {"alt", "zombie", "fail", "exit", "slow", "raw", "complete", "clear"}
  MaxSubmits = 2
  MaxLines = 1
  Restored = 1
CHECK_DEADLOCK FALSE
INVARIANT EditorNeverCoversProgram
INVARIANT AltMatchesMode
INVARIANT IdsIncrease
