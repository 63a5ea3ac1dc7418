SPECIFICATION Spec
CONSTANTS
  Modes <- MCModes
  Callbacks <- MCCallbacks
  MaxTokens = 2
  MaxCalls = 2
INVARIANT
  InterruptedSaysSo
CHECK_DEADLOCK FALSE
