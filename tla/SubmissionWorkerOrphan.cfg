SPECIFICATION FairSpec
CONSTANTS
  Alphas = {a1}
  NoAlpha = NoAlpha
  MaxOps = 2
  MaxJobsPerTick = 1
  MaxReconcile = 2
  MaxConfirm = 2
  Capability = {TRUE}
  MaxCrashes = 1
  MaxEnqueues = 1
  Elsewhere = {a1}
PROPERTY AmbiguousIsResolved
