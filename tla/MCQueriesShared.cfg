SPECIFICATION SerialSpec
CONSTANTS
  Session = {s1, s2}
  MaxLen = 2
  Capacity = {1, 2}
  Text <- const_Plain
  None = None
SYMMETRY Symmetry
INVARIANTS
  OwnStatements
