CONSTANTS
  CPU = {c1, c2}
  InitialCpus = {c1, c2}
  NoBsp = NoBsp
  Locked = 7
  Election = TRUE
  BootBsp = c1
  HookBsp = NoBsp
  NeedMtrrs = FALSE
  SmiKinds = {"hardware", "apm"}
  PromptWindows = TRUE
  Services = {"startup", "blocking", "mode"}
  MaxSmi = 2
  MaxCalls = 1
SPECIFICATION FairSpec
PROPERTIES
  EveryoneLeaves
  EventsServiced
