SPECIFICATION Spec
CONSTANTS
  Positions <- MCPositions
  Chain <- MCChain
  Tags <- MCTags
  IwgTag = "iwg"
  UnkTag = "unk"
  TagTypes <- MCTagTypes
  All = "ALL"
  Connects <- MCConnects
  Lexicons <- MCLexicons
  RuleSets <- MCRuleSets
  Parens <- MCParens
  MaxChart = 10
  MaxConn = 10
  MaxMorph = 4
  MaxDepth = 4
  MaxCandidates = 10
  MaxPass = 8
INVARIANTS
  TypeOK
  ConnectedSucceeded
  ConnectionsAcyclic
  RecursionWithinChart
  CandidatesAreReadings
  CountMeansCandidates
  NoReadingLost
PROPERTIES
  SettledStays
  AnalysisEnds
CHECK_DEADLOCK FALSE
