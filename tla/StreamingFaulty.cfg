SPECIFICATION Spec
CONSTANTS
  N = 1
  NT = 2
  SPT = 2
  Counts = {0, 5}
  MaxStarts = 2
  CounterMod = 4
  Faults = {"submit", "transfer", "cancel", "ctrl", "nodev", "underflow", "drop"}
INVARIANTS TypeOK NumActiveExact CaptureComplete
CHECK_DEADLOCK FALSE
