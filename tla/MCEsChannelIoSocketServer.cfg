SPECIFICATION Spec
CONSTANTS
  Lens = {1, 2, 3}
  MaxBytes = 5
  MaxOpens = 2
INVARIANTS
  TypeOK
  ReadOnce
  WakesAtLength
  FreshReadIsWhole
CHECK_DEADLOCK FALSE
