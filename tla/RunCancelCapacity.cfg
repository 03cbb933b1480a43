CONSTANTS
  r1 = r1
  r2 = r2
  w1 = w1
  w2 = w2
  p1 = p1
  Nobody = Nobody
  NoRun = NoRun
  Runs = {r1}
  Kind <- OneArticle
  Slots = {w1}
  Process <- OneSlot
  VideoSlots = 1
  SourceSlots = 1
  MaxEpoch = 1
  MaxGeneration = 1
  Events = {"cancel"}
  Faults = {}
  FaultBudget = 0
SPECIFICATION Spec
CHECK_DEADLOCK FALSE
PROPERTY CancelingKeepsCapacity
