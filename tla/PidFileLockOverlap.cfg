SPECIFICATION Spec
CONSTANTS
  Processes = {p1, p2}
  NoProcess = NoProcess
  MaxAttempts = 2
  Overlap = TRUE
INVARIANT MutualExclusion
SYMMETRY ProcessSymmetry
CHECK_DEADLOCK FALSE
