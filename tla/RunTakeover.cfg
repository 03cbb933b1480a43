CONSTANTS
  r1 = r1
  r2 = r2
  w1 = w1
  w2 = w2
  p1 = p1
  Nobody = Nobody
  NoRun = NoRun
  Runs = {r1}
  Kind <- OneArticle
  Slots = {w1, w2}
  Process <- SameProcess
  VideoSlots = 1
  SourceSlots = 1
  MaxEpoch = 3
  MaxGeneration = 1
  Events = {"join", "cancel", "deadline"}
  Faults = {"crash", "stall", "shutdown", "database", "ack_lost"}
  FaultBudget = 2
SPECIFICATION Spec
CHECK_DEADLOCK FALSE
SYMMETRY AnySlot
INVARIANTS TypeOK AttemptsMatchStatus FailuresAccounted SoleWriter DeliveredIsEnqueued
PROPERTY KeepsPromise
