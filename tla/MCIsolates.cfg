SPECIFICATION FairTurns
CONSTANTS
  Main = main
  Isolate = {main, c1}
  Port = {p1}
  Message = {m1, m2, m3}
  None = None
  Failure = 1
  Quotas <- MCQuotas
  ForeignClose = FALSE
INVARIANTS
  NoLostWakeup
  MessagesInOrder
  RoutesToLoops
  HandlerTouchesLive
  AbandonedMeansStopped
PROPERTIES
  EveryMessageSettles
  InterruptEnds
CHECK_DEADLOCK FALSE
