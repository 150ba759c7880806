SPECIFICATION MCSpec
CONSTANTS
  w1 = w1  w2 = w2  w3 = w3
  t1 = t1  t2 = t2  t3 = t3  t4 = t4
  Worker = {w1, w2, w3}
  Task = {t1, t2, t3, t4}
  SpawningTask = {t1, t2}
  Main = Main
  None = None
INVARIANTS
  TypeOK
  CountsMatchLists
  OneHandOffPerWorker
  PickedWorkerAlive
  NoUseAfterFree
  JoinedOnce
PROPERTIES
  AloneImplementsTaskPool
CHECK_DEADLOCK FALSE
