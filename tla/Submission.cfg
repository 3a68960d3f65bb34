SPECIFICATION MCSpec
CONSTANTS
  Alphas = {a1}
  NoAlpha = NoAlpha
  MaxOps = 3
  MaxJobsPerTick = 1
  MaxReconcile = 2
  MaxConfirm = 2
  Capability = {TRUE}
  MaxCrashes = 2
  MaxEnqueues = 0
  Elsewhere = {a1}
  ReadyAlphas = {a1}
  Runs = {r1, r2}
  Decisions = {d1}
  NoDecision = NoDecision
  NoRun = NoRun
  MaxFaults = 1
INVARIANT OneTickOwner
PROPERTIES
  AmbiguousIsResolved
  AcceptedIsClosed
  RegistryCatchesUp
