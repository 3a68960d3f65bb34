SPECIFICATION MCSpec
CONSTANTS
  Processes = {p1, p2, p3}
  NoProcess = NoProcess
  MaxAttempts = 2
  Overlap = FALSE
  Rows = {x1}
  CopyCap = 2
  MaxDeaths = 1
  Sharpes = {81, 82, 109, 110, 125}
  Fitnesses = {49, 84, 85, 100}
  Turnovers = {70, 85, 86}
  Bare = b1
  MetricReady = {b1, b2}
  Options = {{}, {"resume", "limited", "recheck"}, {"dry"}}
  MaxChecks = 1
  Retries = 2
  MaxErrors = 1
  l1 = l1
  l2 = l2
  l3 = l3
  Account <- MCAccount
  NewAlphas = {l4, l5}
  DataFields <- MCDataFields
  DataSets <- MCDataSets
  PageLimit = 2
  SearchLimit = 1
  Window = 4
  ListingAttempts = 3
  MaxRefusals = 3
  Policies = {t1}
  ScanStages = {1, 2}
  Slices <- MCSlices
  Batches <- MCBatches
  MaxRows = 20
  Kinds <- MCKinds
  Pools <- MCPools
  Measures <- MCMeasures
  Rooms = {4}
  NoName = NoName
  BaseShare = 25
  FieldShare = 50
  FamilyShare = 60
  SkeletonShare = 25
  PriceShare = 40
  DownShare = 20
INVARIANTS
  DecisionsTypeOK
  MutualExclusion
  RouteAgreesWithDiagnosis
  VerdictsAreEarned
  ListingIsWhole
  ChoiceIsDiverse
PROPERTIES
  MemoryIsWhole
  MemoryResultsArrive
  EveryoneIsReviewed
CHECK_DEADLOCK FALSE
