SPECIFICATION Spec
CONSTANTS
  MaxTrieWord = 2
  Directories <- MCDirectories
  TypeRules <- MCTypeRules
  MaxTags = 3
  MaxMorph = 4
  MaxFailures = 2
  Probes <- MCProbes
  ChartResults <- MCChartResults
  Contracted <- MCContracted
  Open <- MCOpen
  Positive <- MCPositive
  Eo <- MCEo
  A <- MCA
  Endings = {"ep", "ef"}
INVARIANTS
  ServesWhatItRead
  OnlyDeclaredConnections
  AnalysesComeFirst
  UnknownsNamed
  TriesFreedOnce
PROPERTIES
  LifeEnds
CHECK_DEADLOCK FALSE
