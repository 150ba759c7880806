SPECIFICATION Spec
CONSTANTS
  StackSizes = {29}
  MaxContexts = 4
  MaxClosures = 1
  MaxBci = 2
  MaxDepth = 2
  MaxTurns = 2
  MaxReflections = 1
  Methods = {"m", "ensure", "root"}
  Arity <- MCArity
  NumTemps <- MCNumTemps
  UnwindProtect = {"ensure"}
  SimulationRoot = {"root"}
  Dispatch = "dispatch"
  CannotReturn = "cannotReturn"
  AboutToReturn = "aboutToReturn"
INVARIANTS SenderIsNoAddress
CHECK_DEADLOCK FALSE
