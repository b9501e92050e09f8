SPECIFICATION Spec
CONSTANTS
  Session = {s1, s2}
  MaxLen = 2
  Capacity = {1, 2}
  Text <- const_Text
  None = None
SYMMETRY Symmetry
INVARIANTS
  TypeOK
  OwnUnlessDisturbed
  AnswerTells
