SPECIFICATION Spec
CONSTANTS
  l1 = l1
  Port <- Signed
  Loop = {l1}
  InitialCapacity = 8
  None = None
INVARIANTS
  StaysInBounds
CHECK_DEADLOCK FALSE
