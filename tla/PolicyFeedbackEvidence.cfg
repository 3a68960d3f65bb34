SPECIFICATION FeedbackSpec
CONSTANTS
  Pool <- SmallPool
  Boundaries <- FeedbackBoundaries
  Days = 1
  RequestedModes = {"control"}
  Allocation = 3
  CapShare = 0
  ExplorationShare = 20
  MinRuns = 2
  MinSimulations = 5
  MaxBreaks = 0
PROPERTY EvidenceIsKept
CHECK_DEADLOCK FALSE
