SPECIFICATION Spec
CONSTANTS
  Inputs <- MCInputs
  Transitions <- MCTransitions
  Phrases <- MCPhrases
  MaxPhrases = 3
INVARIANTS
  GroupingLosesNothing
PROPERTY
  KeepsPromise
CHECK_DEADLOCK FALSE
