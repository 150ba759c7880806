SPECIFICATION FairTurns
CONSTANTS
  Main = main
  Isolate = {main, c1}
  Port = {p1}
  Message = {m1, m2}
  None = None
  Failure = 1
  Quotas <- MCQuotasExit
  ForeignClose = FALSE
PROPERTIES
  MainExitEndsProcess
CHECK_DEADLOCK FALSE
