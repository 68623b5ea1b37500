SPECIFICATION Spec
CONSTANTS
  N = 2
  NT = 1
  SPT = 1
  Counts = {1}
  MaxStarts = 2
  CounterMod = 8
  Faults = {"stall"}
INVARIANTS CompletionQuiet LockDiscipline
PROPERTIES EndSeesDrained
CHECK_DEADLOCK FALSE
