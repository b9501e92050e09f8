SPECIFICATION Spec
CONSTANTS
  Name = {n1, n2, n3}
  User = {u1, u2}
  Request = {r1, r2}
  None = None
INVARIANTS
  TypeOK
  AcknowledgedKept
  Reopenable
  MapsAgree
  PoolsAccounted
PROPERTIES
  NothingTakenBack
  Provisions
  RequestsReturn
