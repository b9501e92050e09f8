SPECIFICATION Spec
CONSTANTS
  Session = {s1, s2}
  Conn = {c1, c2}
  Row = {w1, w2, w3}
  Command = {"begin", "commit", "rollback", "write", "read", "infoSchema", "savepoint", "release", "prepare", "execute", "closeStmt", "preparedCommit"}
  MaxSavepoints = 1
  DiskFills = FALSE
  None = None
SYMMETRY Symmetry
INVARIANTS
  TypeOK
  PromisedKept
  RevokedGone
  ClientViewMatches
  ConnectionsArePrivate
  PooledConnectionsClean
PROPERTIES
  Transactional
