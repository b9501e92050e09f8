SPECIFICATION Spec
CONSTANTS
  Session = {s1, s2}
  Row = {w1, w2, w3}
  Column = {"name", "age"}
  Def = {d1, d2}
  None = None
SYMMETRY Symmetry
INVARIANTS
  TypeOK
  RowsSurvive
  NeverBothGone
  CopyIsPrivate
