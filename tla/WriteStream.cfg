SPECIFICATION FairSpec
CONSTANTS
  Capacity = 2
  SPT = 3
  Sizes = {1, 3}
  Cyclics = {FALSE}
  Counts = {1, 4}
  Calls = {"flush"}
  MaxCalls = 5
  AvailMod = 16
INVARIANTS NoOverpromise
PROPERTIES ImplementsStream EncodeTerminates WritesReturn
CHECK_DEADLOCK FALSE
