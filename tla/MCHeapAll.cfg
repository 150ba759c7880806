SPECIFICATION AllSpec
CONSTANTS
  Nil = Nil
  One = a
  Obj = {a, b, c}
  Mixes <- AllMixes
  Cid = {1, 2}
  MaxStack = 2
  Unbarriered = {}
  FreshRoot = TRUE
  NewUnits = 5
  RegionUnits = 6
  LargeUnits = 4
  MaxTag = 2
  SizeClasses = 2
  LimitSlack = 4
  Arrays = {1, 4}
  Digits = {3}
  MaxRoots = 2
  MaxRegions = 2
  MaxLoaded = 1
  MaxCalls = 5
  LargeShifts = FALSE
  SelfReference = FALSE
SYMMETRY Symmetry
INVARIANTS
  HeapSound
  ClassesSound
  RememberedExact
  MemorySound
  NoOverrun
PROPERTIES
  GCKeepsLive
  CollectsGarbage
  BecomeKeepsClasses
CHECK_DEADLOCK FALSE
