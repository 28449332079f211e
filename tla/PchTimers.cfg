CONSTANTS
  Slot = {1, 2, 3}
  SwsmiIntervals = {1, 2}
  PeriodicIntervals = {4}
  Periods = {2, 4}
  MaxOps = 4
SPECIFICATION FairSpec
INVARIANTS
  RateFastEnough
PROPERTIES
  NoEarlyCall
  ChildrenCalled
CHECK_DEADLOCK FALSE
