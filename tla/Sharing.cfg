CONSTANTS
  v1 = v1
  v2 = v2
  s1 = s1
  s2 = s2
  NoRun = 0
  NoRequest = NoRequest
  NoSnapshot = NoSnapshot
  Requests = {q1, q2, q3}
  Runs = {1, 2, 3, 4, 5}
  Sources = {v1, v2}
  LocalSources = {v2}
  Snapshots = {s1, s2}
  SourceOf <- TwoVideos
  Retainable = {s1}
  Bases = {b1}
  MaxPending = 2
SPECIFICATION Spec
CHECK_DEADLOCK FALSE
SYMMETRY AnyRequest
INVARIANTS ServedWhileOpen AnsweredAsAsked NoLateRefusal
PROPERTY StopsWithItsLastUser
CONSTRAINT Bounded
