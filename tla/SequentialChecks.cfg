SPECIFICATION MCSpec
CONSTANTS
  MaxSize = 8
  Growths <- MCGrowths
  MaxTree = 6
  MaxPath = 3
  Latencies = {1, 2, 4}
  MinTrials = 2
  MaxTrials = 3
  Resamples = 3
  RankNumerator = 2
  RankDenominator = 3
  LowNumerator = 1
  HighNumerator = 3
  TailDenominator = 4
  Scale = 10
  MinImprovement = 1
  Certificates <- MCCertificates
  PinnedRoot <- MCRoot
  Tokens <- MCTokens
  KeyIds = {1, 2, 3}
  Keys = {"k1", "k2", "k3"}
  Custodians = {"c1", "c2", "c3"}
  Authorizations <- MCAuthorizations
  Release = "this"
  Rosters <- MCRosters
  MaxDate = 6
  MaxAge = 2
  Skew = 1
  v1 = v1
  v2 = v2
  Versions = {v1, v2}
  Files <- MCFiles
  Prefix <- MCPrefix
  SumsFile <- MCSumsFile
  Manifest <- MCManifest
  PathOrder <- MCPathOrder
  Foreign <- MCForeign
  Nothing = Nothing
  Directory = Directory
  MaxEdits = 1
  MaxCalls = 2
INVARIANTS
  OnlyTheLeaf
  NoRewrittenLeaf
  RankIsNearest
  IntervalWithinPairs
  ChainSound
  ThresholdMet
  FreshEvidence
  ExtractedIsArchive
  UndisturbedBuildAccepted
PROPERTIES
  ProofsOfLeavesAccepted
  HonestGrowthAccepted
  ChainDecides
CHECK_DEADLOCK FALSE
