SPECIFICATION Spec
CONSTANTS
  Value <- const_Path
  Type <- const_Type
INVARIANTS
  StringsStay
CHECK_DEADLOCK FALSE
