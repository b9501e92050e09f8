SPECIFICATION Spec
CONSTANTS
  Session = {s1, s2}
  Conn = {c1, c2}
  Row = {w1, w2}
  Command = {"begin", "commit", "rollback", "write", "bareSavepoint"}
  MaxSavepoints = 1
  DiskFills = FALSE
  None = None
SYMMETRY Symmetry
INVARIANTS
  PooledConnectionsClean
