CONSTANTS
  CPU = {c1, c2, c3}
  InitialCpus = {c1, c2, c3}
  NoBsp = NoBsp
  Locked = 7
  Election = TRUE
  BootBsp = c1
  HookBsp = NoBsp
  NeedMtrrs = FALSE
  SmiKinds = {"hardware"}
  PromptWindows = TRUE
  Services = {"startup", "blocking", "mode", "arrival", "switch"}
  MaxSmi = 2
  MaxCalls = 1
SPECIFICATION Spec
INVARIANTS
  LockedUntilOpened
  SingleBsp
  CounterCounts
  SameRun
  SignalsBalance
  ProceduresRunOnce
  SomebodyGoesOn
PROPERTIES
  ImplementsGate
SYMMETRY Perms
