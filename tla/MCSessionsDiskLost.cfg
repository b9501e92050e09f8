SPECIFICATION Spec
CONSTANTS
  Session = {s1}
  Conn = {c1}
  Row = {w1, w2}
  Command = {"begin", "commit", "rollback", "write"}
  MaxSavepoints = 0
  DiskFills = TRUE
  None = None
SYMMETRY Symmetry
INVARIANTS
  RevokedGone
