SPECIFICATION AdminSpec
CONSTANTS
  Users = {u1, u2, u3}
  Teams = {t1}
  Requests = {r1, r2, r3}
SYMMETRY AnyUser
CHECK_DEADLOCK FALSE
INVARIANT ActiveSuperAdminLeft
