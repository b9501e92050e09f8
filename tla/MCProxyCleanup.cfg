SPECIFICATION Spec
CONSTANTS
  Client = {c1, c2, c3}
  Request = {}
  Tenant = {t1}
  SessionId = {i1, i2}
  UniqueIds = FALSE
  None = None
SYMMETRY Symmetry
INVARIANTS
  CleanedUp
