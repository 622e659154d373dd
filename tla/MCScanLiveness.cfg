SPECIFICATION FairSpec
CONSTANTS
  s1 = s1
  s2 = s2
  w1 = w1
  w2 = w2
  p1 = p1
  NoScan = NoScan
  Scans = {s1, s2}
  Projects = {p1}
  Workers = {w1}
  ProjectOf <- OneProject
  KindOf <- OneBare
  Faults = {"worker_crash", "overlap", "lost_reply"}
  MaxFaults = 2
CHECK_DEADLOCK FALSE
PROPERTY EveryScanSettles
