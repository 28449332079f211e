CONSTANTS
  Handle = {h1, h2}
  Default = dflt
  Types = {"BiosWrProtect", "BiosWrReport", "PcFatalErr", "FlashNonFatalErr", "FlashFatalErr", "LnkType1Err"}
  SlaveCount = 2
  TcoChild = TRUE
  MaxEvents = 3
  MaxOps = 3
SPECIFICATION FairSpec
INVARIANTS
  ChildrenReachable
  NoEventLost

  
CHECK_DEADLOCK FALSE
