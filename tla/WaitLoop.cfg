SPECIFICATION Spec
CONSTANTS
  Tasks = {t1, t2}
  All = All
  MaxPolls = 4
  MaxOutages = 1
SYMMETRY TaskSymmetry
CHECK_DEADLOCK FALSE
INVARIANTS TypeOK OkMeansDelivered
