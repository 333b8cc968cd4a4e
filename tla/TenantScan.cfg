SPECIFICATION Spec
CONSTANTS
  ProjectOf <- MCProjectOf
  Blocks <- MCBlocks
  TopN = 2
  MaxFaults = 1
CHECK_DEADLOCK FALSE
INVARIANTS TypeOK NoUndercount
