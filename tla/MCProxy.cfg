SPECIFICATION Spec
CONSTANTS
  Client = {c1, c2}
  Request = {r1}
  Tenant = {t1, t2}
  SessionId = {i1, i2}
  UniqueIds = FALSE
  None = None
SYMMETRY Symmetry
INVARIANTS
  TypeOK
  BoundAsAuthenticated
  CleanedUp
  NoneMissed
  OrderlyStop
