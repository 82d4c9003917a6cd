CONSTANTS
  Size = 5
  UIntMod = 16
  MaxBytes = 17
SPECIFICATION RingSpec
INVARIANTS RingInv StreamInOrder
CHECK_DEADLOCK FALSE
