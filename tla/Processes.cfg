SPECIFICATION MCSpec
CONSTANTS
  Limit = 1
  MaxOut = 2
  Supervisors = {s1, s2}
  Pids = {1, 2, 3}
  NoPid = 0
  NoParent = none
  MaxFaults = 2
INVARIANTS ProcessesTypeOK EndsCleanly OneEngine
PROPERTIES BoundedCallEnds EngineComesBack BothMarksStay
CHECK_DEADLOCK FALSE
