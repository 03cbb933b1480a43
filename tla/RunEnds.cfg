CONSTANTS
  r1 = r1
  r2 = r2
  w1 = w1
  p1 = p1
  Nobody = Nobody
  NoRun = NoRun
SPECIFICATION FairSpec
CHECK_DEADLOCK FALSE
PROPERTIES EveryRunSettles RestoreWaitEnds
