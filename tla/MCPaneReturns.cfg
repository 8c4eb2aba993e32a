SPECIFICATION Spec
CONSTANTS
  TimeoutFrames = 3
  Shells = {"zsh", "fish"}
  Lockstep = TRUE
  Moves = {"alt", "zombie"}
  MaxSubmits = 2
  MaxLines = 2
  Restored = 0
CHECK_DEADLOCK FALSE
PROPERTY EditorReturns
