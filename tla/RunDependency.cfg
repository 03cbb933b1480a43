CONSTANTS
  r1 = r1
  r2 = r2
  w1 = w1
  w2 = w2
  p1 = p1
  Nobody = Nobody
  NoRun = NoRun
  Runs = {r1, r2}
  Kind <- RestoredQuestion
  Slots = {w1}
  Process <- OneSlot
  VideoSlots = 1
  SourceSlots = 1
  MaxEpoch = 2
  MaxGeneration = 2
  Events = {"join", "cancel", "reinterpret"}
  Faults = {"redis"}
  FaultBudget = 1
SPECIFICATION Spec
CHECK_DEADLOCK FALSE
CONSTRAINT RestoreOnce
INVARIANT CancelMeansUnneeded
PROPERTY SharesWork
