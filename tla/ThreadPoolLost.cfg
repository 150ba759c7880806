SPECIFICATION Spec
CONSTANTS
  w1 = w1  w2 = w2
  t1 = t1  t2 = t2  t3 = t3
  Worker = {w1, w2}
  Task = {t1, t2, t3}
  SpawningTask = {t1, t2}
  Main = Main
  None = None
INVARIANTS
  ShutdownWaitsForTasks
CHECK_DEADLOCK FALSE
