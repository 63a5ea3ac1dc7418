SPECIFICATION Spec
CONSTANTS
  Bytes = {"a", "sp", "esc"}
  Nul = "nul"
  Junk = "junk"
  Spaces = {"sp"}
  Blank = "sp"
  Escape = "esc"
  Puncts = {"esc"}
  Texts <- MCTexts
  SizeMax = 7
  FirstCap = 2
INVARIANTS
  RoomForTerminator
PROPERTIES
  HoldsText
