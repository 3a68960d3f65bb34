SPECIFICATION FairSpec
CONSTANTS
  Candidates = {c1, c2}
  Processes = {p1}
  Clients = {w1}
  NoClient = NoClient
  MaxTries = 1
  MaxAttempts = 2
  MaxCrashes = 1
  Twins = {}
  Faults = {}
INVARIANT FinalRowIsSettled
PROPERTIES
  OpenIsResolved
  AcceptedIsCollected
CHECK_DEADLOCK FALSE
