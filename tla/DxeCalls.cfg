CONSTANTS
  NumAPs = 2
  BreakEvents = TRUE
  PromptWindows = FALSE
  Careful = TRUE
  Calls <- AllCalls
  MaxCalls = 2
SPECIFICATION Spec
INVARIANTS
  CountsAgree
  WorkGoesOn
  StatesTrue
  OneAtATime
  StacksApart
  ParkedAtBoot
PROPERTIES
  ImplementsCalls
