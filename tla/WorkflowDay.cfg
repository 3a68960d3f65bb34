SPECIFICATION MCSpec
CONSTANTS
  StageBudget <- TwoStages
  DailyBudget = 5
  Candidates = {1, 2, 3, 4, 5, 6, 7}
  Invalid = {2}
  Families = {1}
  Family <- OneFamily
  Diverse = 5
  MaxFailures = 2
  MaxCrashes = 3
  Pool <- FeedbackPool
  Boundaries <- FeedbackBoundaries
  Days = 4
  RequestedModes = {"off", "control"}
  Allocation = 3
  CapShare = 0
  ExplorationShare = 20
  MinRuns = 2
  MinSimulations = 5
  MaxBreaks = 1
  Keys = {k1}
  NoKey = NoKey
  Digests = {d1, d2}
  ValidDigests = {d1}
  Kinds = {"gemini", "cli", "disabled"}
  MaxRepairs = 1
  RetryBase = 1
  RetryCap = 3
  CountCap = 3
  None = None
INVARIANTS
  CheckpointMatchesPlan
  DayTypeOK
  SimulationsWithinBudget
PROPERTIES
  ReportIsKept
  OutboxDrains
  CreditsAreWritten
  ControlIsEarned
  PlanIsReplacedForAReason
  DeferredIsAskedAgain
CHECK_DEADLOCK FALSE
