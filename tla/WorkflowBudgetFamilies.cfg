SPECIFICATION Spec
CONSTANTS
  StageBudget <- OneStage
  DailyBudget = 2
  Candidates = {1, 2, 3, 4, 5}
  Invalid = {}
  Families = {1, 2}
  Family <- TwoFamilies
  Diverse = 2
  MaxFailures = 0
  MaxCrashes = 0
INVARIANT SimulationsWithinBudget
CHECK_DEADLOCK FALSE
