SPECIFICATION Spec
CONSTANTS
  Clients = {ann, bob, dev}
  Admins = {ann, bob}
  Ids = {i1}
  Pairs = {p1}
  None = None
PROPERTY DecidedIsKept
