SPECIFICATION Spec
CONSTANTS
  Nil = Nil
  One = a
  Obj = {a, b, c}
  Mixes <- Classes
  Cid = {1, 2}
  MaxStack = 2
  Unbarriered = {b}
  FreshRoot = TRUE
INVARIANTS
  EveryClassSound
CHECK_DEADLOCK FALSE
