SPECIFICATION Spec
CONSTANTS
  Session = {s1}
  Conn = {c1}
  Row = {w1, w2}
  Command = {"begin", "commit", "write", "savepoint", "rollbackTo"}
  MaxSavepoints = 1
  DiskFills = FALSE
  None = None
SYMMETRY Symmetry
INVARIANTS
  ClientViewMatches
