SPECIFICATION Spec
CONSTANT
  Texts <- MCTexts
INVARIANTS
  TextConserved
  NoLongRun
CHECK_DEADLOCK FALSE
