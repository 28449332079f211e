CONSTANTS
  AddressBits = 5
  FixedTable <- Table
  SubRanges = 2
  VariableMtrrCount = 5
  Reserved = 1
  DefaultType = "UC"
  AP = {p1}
  Requests <- RequestSet
  MaxCalls = 4
SPECIFICATION Spec
INVARIANTS
  RegistersLegal
  ProcessorsAgree
  RequestHonoured
  NeighboursKept
PROPERTIES
  GcdAgrees
