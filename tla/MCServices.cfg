SPECIFICATION ServicesSpec
CONSTANTS
  Users = {u1, u2, u3}
  Teams = {t1}
  Requests = {r1, r2}
  Scans = {1, 2}
  ProjectScans = {1, 2}
  Vulns = {v1}
  RunTwice = {1}
  MaxPatches = 2
  Pushes = {d1, d2, d3}
  Ignored = {d3}
  MaxWebScans = 2
  AutoNames = {a1}
  ManualNames = {m1, m2}
  Jobs = {r1, r2}
  Restores = {q1}
  MaxLosses = 1
  Tabs = {r1, r2}
  Slots = {1, 2}
  Cap = 1
  Stages = 1
  MaxRuns = 2
  Clients = {r1, r2, dev}
  Admins = {r1, r2}
  Ids = {m1, m2}
  Pairs = {p1}
  None = None
  Components = {1, 2}
  Licences = {l1, l2}
  Forbidden = {l1}
  Permitted = {l2}
  Obliged = {l1}
  Cves = {v1, v2}
  Critical = {v1}
  Unrated = {v2}
  DrawerCap = 1
  MaxTokens = 3
  MaxResets = 3
  Accounts = {x1, x2}
  Emails = {e1, e2}
  MaxUnlinks = 1
  Issuers = {u1, u2}
  Tenants = {t1, t2}
  Keys = {p1}
  Projects = {p1}
  Null = Null
  Workers = {r1, r2}
  Packages = {p1}
  LicenceNames = {l1, l2}
  Phrased = {l2}
  Spoilt = {x1}
  MaxRetries = 1
  Slugs = {p1}
  Texts = {x1, x2}
  MaxWrites = 3
  Chunk = 1
  Limit = 3
SYMMETRY AnySlot
CHECK_DEADLOCK FALSE
INVARIANTS
  ServicesTypeOK
  SuperAdminRemains
  VerdictHeld
  PushesScannedOnce
  NothingTornIsRestored
  StreamsAreCounted
  OneOpen
  ReportsAgree
  ExportsAreWhole
  TabsStaySignedIn
  AMailedLinkWorks
  SameAccount
  LicenceSuffices
  AuditReplays
  ExportLosesOnlyTheOldest
PROPERTIES
  LastAdminStays
  MovesAreSeen
  ScansKeepBoard
  PercentNeverFalls
  DecidedAsSeen
  RevocationSticks
