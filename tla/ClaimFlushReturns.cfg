SPECIFICATION FairSpec
CONSTANTS
  Capacity = 1
  SPT = 1
  Sizes = {2}
  Cyclics = {FALSE}
  Counts = {1}
  Calls = {"flush"}
  MaxCalls = 3
  AvailMod = 16
PROPERTY CallsReturn
CHECK_DEADLOCK FALSE
