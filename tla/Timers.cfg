CONSTANTS
  Start = 6
  End = 2
  Timeout = 3
  MaxElapsed = 14
SPECIFICATION Spec
INVARIANTS
  SyncMeasures
  CheckMeasures
