SPECIFICATION FairSpec
CONSTANTS
  Slot = {1, 2, 3}
  Sources = {"Sw", "Sx", "Mch", "SpiWp", "Pme", "Swsmi"}
  EscapeCount = 2
  SwValues = {1, 2}
  SleepTypes = {1, 3}
  MaxEvents = 3
  MaxOps = 3
  Freedoms = {}
INVARIANTS
  EnablesMatch
  NoEventLost
  SleepAfterChildren
CHECK_DEADLOCK FALSE
PROPERTIES
  SmisSettle
