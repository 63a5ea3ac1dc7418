SPECIFICATION Spec
CONSTANTS
  MaxReplacements = 2
  MaxChanges = 64
  MaxHead = 6
  Words <- MCWords
  TagsOf <- MCTagsOf
INVARIANTS
  StaysNear
  IrregularStems
  SpellsWord
\* A reading ends with the word.
CHECK_DEADLOCK FALSE
