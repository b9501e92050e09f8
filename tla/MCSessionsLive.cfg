SPECIFICATION Spec
CONSTANTS
  Session = {s1, s2}
  Conn = {c1, c2}
  Row = {w1, w2}
  Command = {"begin", "write", "infoSchema", "preparedBegin"}
  MaxSavepoints = 0
  DiskFills = TRUE
  None = None
PROPERTIES
  RepliesUnlessExhausted
