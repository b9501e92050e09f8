SPECIFICATION Spec
CONSTANTS
  Value <- const_Word
  Type <- const_Type
INVARIANTS
  StringsStay
CHECK_DEADLOCK FALSE
