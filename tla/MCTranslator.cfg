SPECIFICATION Spec
CONSTANTS
  Value <- const_Value
  Type <- const_Type
INVARIANTS
  TypeOK
  OrderIrrelevant
  LiteralKept
CHECK_DEADLOCK FALSE
