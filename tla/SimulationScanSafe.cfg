SPECIFICATION Spec
CONSTANTS
  Candidates = {c1, c2}
  Processes = {p1}
  Clients = {w1, w2}
  NoClient = NoClient
  MaxTries = 1
  MaxAttempts = 2
  MaxCrashes = 1
  Twins = {c1}
  Faults = {"auth", "gap", "timeout"}
INVARIANTS
  TypeOK
  AtMostOneSimulation
  ResultHasAlpha
SYMMETRY ClientSymmetry
CHECK_DEADLOCK FALSE
