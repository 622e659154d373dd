SPECIFICATION TriageSpec
CONSTANTS
  Users = {u1}
  Teams = {t1}
  Requests = {r1, r2}
  Scans = {1}
  Vulns = {v1}
  RunTwice = {}
  MaxPatches = 2
INVARIANT HistoryIsPossible
