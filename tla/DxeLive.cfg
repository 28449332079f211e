CONSTANTS
  NumAPs = 2
  BreakEvents = TRUE
  PromptWindows = TRUE
  Careful = TRUE
  Calls <- LiveCalls
  MaxCalls = 2
SPECIFICATION FairSpec
PROPERTIES
  CallsReturn
  Boots
