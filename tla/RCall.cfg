SPECIFICATION Spec
CONSTANTS
  MaxCalls <- MCMaxCalls
  MaxPolls <- MCMaxPolls
INVARIANTS
  NothingFreedTwice
  OwnerKnows
  InterruptRaised
PROPERTY
  KeepsCustody
CHECK_DEADLOCK FALSE
