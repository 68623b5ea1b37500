SPECIFICATION FairSpec
CONSTANTS
  Capacity = 3
  SPT = 2
  Wants = {1, 2}
  Blockings = {FALSE, TRUE}
  Skips = {FALSE, TRUE}
  Counts = {0, 3}
  MaxMade = 6
  Width = 8
INVARIANTS TypeOK AvailExact PopsWhatIsThere
PROPERTIES ImplementsFeed ReadReturns
CHECK_DEADLOCK FALSE
