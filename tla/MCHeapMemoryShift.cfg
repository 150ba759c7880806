SPECIFICATION Spec
CONSTANTS
  NewUnits = 5
  RegionUnits = 6
  LargeUnits = 4
  MaxTag = 2
  SizeClasses = 2
  LimitSlack = 4
  Arrays = {1, 4}
  Digits = {3}
  MaxRoots = 2
  MaxRegions = 2
  MaxLoaded = 1
  MaxCalls = 6
  LargeShifts = TRUE
  SelfReference = FALSE
INVARIANTS WalksFindObjects
CHECK_DEADLOCK FALSE
