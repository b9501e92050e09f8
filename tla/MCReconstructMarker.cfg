SPECIFICATION Spec
CONSTANTS
  Session = {s1}
  Row = {w1}
  Column = {"name"}
  Def = {d1, d2}
  None = None
PROPERTIES
  ModifiedWhenAnswered
