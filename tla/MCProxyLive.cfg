SPECIFICATION OwnIdsSpec
CONSTANTS
  Client = {c1, c2}
  Request = {}
  Tenant = {t1, t2}
  SessionId = {c1, c2}
  UniqueIds = TRUE
  None = None
PROPERTIES
  Serves
  StopReturns
  ConnectionsEnd
