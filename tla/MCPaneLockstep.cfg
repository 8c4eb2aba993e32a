SPECIFICATION Spec
CONSTANTS
  TimeoutFrames = 3
  Shells = {"zsh", "fish"}
  Lockstep = TRUE
  Moves = {"out", "alt"}
  MaxSubmits = 3
  MaxLines = 3
  Restored = 0
CHECK_DEADLOCK FALSE
INVARIANT ContinuationAgreement
INVARIANT RunsWhatWasSubmitted
INVARIANT SealedOutputIsOwn
INVARIANT EveryCommandHasItsBlock
