SPECIFICATION Spec
CONSTANTS
  Capacity = 2
  SPT = 3
  Sizes = {1, 3}
  Cyclics = {FALSE, TRUE}
  Counts = {0, 4}
  Calls = {"flush", "off", "destroy"}
  MaxCalls = 5
  AvailMod = 8
INVARIANTS TypeOK SingleConsumer NoLostBuffer
CHECK_DEADLOCK FALSE
