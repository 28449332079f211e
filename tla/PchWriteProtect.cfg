SPECIFICATION FairSpec
CONSTANTS
  Slot = {1, 2}
  Sources = {"SpiWp"}
  EscapeCount = 3
  SwValues = {1}
  SleepTypes = {3}
  MaxEvents = 1
  MaxOps = 2
  Freedoms = {}
PROPERTIES
  WriteProtectStays
CHECK_DEADLOCK FALSE
