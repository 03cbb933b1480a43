CONSTANTS
  v1 = v1
  v2 = v2
  s1 = s1
  s2 = s2
  NoRun = 0
  NoRequest = NoRequest
  NoSnapshot = NoSnapshot
  Requests = {q1, q2}
  Runs = {1, 2, 3}
  Sources = {v1}
  LocalSources = {}
  Snapshots = {s1}
  SourceOf <- OneVideo
  Retainable = {s1}
  Bases = {b1}
  MaxPending = 2
SPECIFICATION Spec
CHECK_DEADLOCK FALSE
SYMMETRY AnyRequest
INVARIANT StopHarmsNobodyElse
CONSTRAINT InOrder
