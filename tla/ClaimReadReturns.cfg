SPECIFICATION FairSpec
CONSTANTS
  Capacity = 4
  SPT = 2
  Wants = {2}
  Blockings = {TRUE}
  Skips = {FALSE}
  Counts = {3}
  MaxMade = 4
  Width = 16
PROPERTY BlockingReadReturns
CHECK_DEADLOCK FALSE
