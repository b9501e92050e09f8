SPECIFICATION Spec
CONSTANTS
  Value <- const_Name
  Type <- const_Type
INVARIANTS
  StringsStay
CHECK_DEADLOCK FALSE
