SPECIFICATION TasksSpec
CONSTANTS
  Callers = {resync}
  Monitors = {heartbeat}
  Admins = {admin}
  Regular = {resync}
  Threshold = 2
  Cooldown = 1
  MaxMishaps = 3
  Users = {u1}
  Teams = {t1}
  Requests = {r1}
  Projects = {p1}
  Cleanups = {k1, k2}
  MaxRetries = 1
  Letters = {l1}
  Channels = {email, slack}
  Usual = {email}
  MaxResends = 1
  MaxLostSends = 1
  lib = lib
  tool = tool
  cve1 = cve1
  cve2 = cve2
  leader = w1
  Writers = {w1, w2}
  Packages = {lib, tool}
  Declared = {lib}
  Cves = {cve1, cve2}
  Found <- TwoInOne
  Nobody = Nobody
CHECK_DEADLOCK FALSE
INVARIANTS
  TasksTypeOK
  ChosenAreAccounted
  DoneMeansDelivered
  AllOrNothing
  SomeoneGoesOn
PROPERTIES
  RecoversWhenUp
  OpensWhenDown
  OnlyOrphansGo
  ImplementsLease
  LettersEnd
  PipelinesEnd
