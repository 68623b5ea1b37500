SPECIFICATION Spec
CONSTANTS
  N = 2
  NT = 2
  SPT = 2
  Counts = {0, 3}
  MaxStarts = 2
  CounterMod = 8
  Faults = {}
INVARIANTS ActiveDevicesExact CompletedOnce NoLostWakeup
PROPERTIES ImplementsLifecycle
CHECK_DEADLOCK FALSE
