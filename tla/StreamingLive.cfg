SPECIFICATION FairSpec
CONSTANTS
  N = 1
  NT = 2
  SPT = 1
  Counts = {0}
  MaxStarts = 1
  CounterMod = 4
  Faults = {"torn", "submit", "transfer", "cancel", "ctrl", "nodev"}
PROPERTIES CancelDrains EndTerminates
CHECK_DEADLOCK FALSE
