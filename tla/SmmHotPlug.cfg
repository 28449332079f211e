CONSTANTS
  CPU = {c1, c2, c3}
  InitialCpus = {c1, c2}
  NoBsp = NoBsp
  Locked = 7
  Election = TRUE
  BootBsp = c1
  HookBsp = NoBsp
  NeedMtrrs = TRUE
  SmiKinds = {"hardware"}
  PromptWindows = TRUE
  Services = {"add", "remove", "send", "enable", "startup"}
  MaxSmi = 2
  MaxCalls = 2
SPECIFICATION Spec
INVARIANTS
  CpusAccountedFor
  MtrrsSwapped
  NoOsCodeBesideHandlers
SYMMETRY Perms
