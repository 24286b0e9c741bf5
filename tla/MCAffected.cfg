SPECIFICATION Spec

CONSTANTS
  b1 = b1
  b2 = b2
  b3 = b3
  Body = {b1, b2, b3}

CHECK_DEADLOCK FALSE

INVARIANTS
  ResultIsClosure
  ScanInv
