SPECIFICATION Spec
CONSTANTS
  Session = {s1, s2}
  Conn = {c1, c2}
  Row = {w1, w2, w3}
  Command = {"begin", "commit", "rollback", "write", "prepare", "execute", "preparedCommit"}
  MaxSavepoints = 0
  DiskFills = TRUE
  None = None
SYMMETRY Symmetry
INVARIANTS
  PromisedKept
  PooledConnectionsClean
