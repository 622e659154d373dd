SPECIFICATION CatalogueSpec
CONSTANTS
  Writers = {w1, w2}
  Packages = {a, b}
  Declared = {}
  Cves = {v1}
  Found = {}
  Nobody = Nobody
CHECK_DEADLOCK FALSE
INVARIANTS
  CommittedIsStored
