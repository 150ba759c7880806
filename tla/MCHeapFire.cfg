SPECIFICATION Spec
CONSTANTS
  Nil = Nil
  One = a
  Obj = {a, b, c}
  Mixes <- Ephemerons
  Cid = {1}
  MaxStack = 2
  Unbarriered = {}
  FreshRoot = FALSE
SYMMETRY Symmetry
PROPERTIES
  ValueKeptWhileKeyAlive
CHECK_DEADLOCK FALSE
