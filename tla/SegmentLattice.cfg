SPECIFICATION Spec
CONSTANTS
  Keys = {k1, k2}
  StartKey = start
  MaxSegment = 6
  Words <- MCWords
  Segments <- MCSegments
INVARIANTS
  LinksEnd
  TrieTellsTruth
PROPERTY
  HandedOutStays
CHECK_DEADLOCK FALSE
