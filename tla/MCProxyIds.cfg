SPECIFICATION SameTickSpec
CONSTANTS
  Client = {c1, c2}
  Request = {}
  Tenant = {t1}
  SessionId = {i1}
  UniqueIds = FALSE
  None = None
INVARIANTS
  CleanedUpOnDisconnect
