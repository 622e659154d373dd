SPECIFICATION Spec
CONSTANTS
  s1 = s1
  s2 = s2
  w1 = w1
  w2 = w2
  p1 = p1
  NoScan = NoScan
  Scans = {s1, s2}
  Projects = {p1}
  Workers = {w1, w2}
  ProjectOf <- OneProject
  KindOf <- MixedScans
  Faults = {"worker_crash", "api_crash", "time_limit"}
  MaxFaults = 2
SYMMETRY AnyWorker
CHECK_DEADLOCK FALSE
INVARIANTS
  CompleteWhenSucceeded
PROPERTIES
  SucceededIsFinal
  ImplementsBoard
