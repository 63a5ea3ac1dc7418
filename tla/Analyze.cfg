SPECIFICATION Spec
CONSTANTS
  Modes <- MCModes
  Callbacks <- MCCallbacks
  MaxTokens = 2
  MaxCalls = 2
INVARIANTS
  FreedExactlyOnce
  FailureSetsError
  InterruptAborts
CHECK_DEADLOCK FALSE
