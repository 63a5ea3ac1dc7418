SPECIFICATION Spec
CONSTANTS
  b1 = b1
  b2 = b2
  x = x
  u = u
  Missing = Missing
  Bundled <- MCBundled
  External <- MCExternal
  Users <- MCUsers
  MaxCalls = 3
INVARIANTS
  AllOrNothing
  OldOrBackup
PROPERTY
  RestoreBringsBack
CHECK_DEADLOCK FALSE
