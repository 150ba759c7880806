SPECIFICATION Spec
CONSTANTS
  c1 = c1
  t1 = t1  t2 = t2
  Child = {c1}
  Timer = {t1}
  Repeating = {t1}
  Durations = {0, 1}
  Capacity = 1
  Chunk = 2
  MaxPending = 1
  MaxNow = 2
  Beside = {t1}
INVARIANTS
  EverySignalServed
CHECK_DEADLOCK FALSE
