SPECIFICATION Spec
CONSTANTS
  Arities = {0, 2}
  ClosureArities = {0, 7}
  Copies = {0, 2}
  Temporaries = {0, 1}
  Operands <- MCOperands
  Lengths = {5, 64}
  LeafCost = 4
  LengthCost = 2
  MaxVisits = 4
  HandlersResume = TRUE
  kMaxTemps = 35
INVARIANTS StackAsTracked
CHECK_DEADLOCK FALSE
