SPECIFICATION Spec
CONSTANTS
  Callers = {resync, scan}
  Monitors = {heartbeat}
  Admins = {}
  Regular = {resync}
  Threshold = 2
  Cooldown = 1
  MaxMishaps = 2
INVARIANT OneProbe
