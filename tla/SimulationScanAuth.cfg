SPECIFICATION FairSpec
CONSTANTS
  Candidates = {c1}
  Processes = {p1}
  Clients = {w1}
  NoClient = NoClient
  MaxTries = 2
  MaxAttempts = 2
  MaxCrashes = 0
  Twins = {}
  Faults = {"auth"}
PROPERTY OpenIsResolved
CHECK_DEADLOCK FALSE
