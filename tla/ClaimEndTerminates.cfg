SPECIFICATION FairSpec
CONSTANTS
  N = 1
  NT = 1
  SPT = 1
  Counts = {1}
  MaxStarts = 1
  CounterMod = 8
  Faults = {}
PROPERTY EndTerminates
CHECK_DEADLOCK FALSE
