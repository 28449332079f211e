CONSTANTS
  NumAPs = 2
  BreakEvents = TRUE
  PromptWindows = TRUE
  Careful = FALSE
  Calls <- SwitchCalls
  MaxCalls = 2
SPECIFICATION Spec
INVARIANTS
  StacksApart
