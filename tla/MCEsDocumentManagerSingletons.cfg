SPECIFICATION Spec
CONSTANTS
  d1 = d1
  d2 = d2
  NoDoc = NoDoc
  Docs = {d1, d2}
  Types = {"single", "derived"}
  Singletons = {"single"}
  Kinds <- MCKinds
  Keys = {"file", "copy", "new0"}
  NewKey <- MCNewKey
  MaxNew = 1
  Vals = {1}
  NoVal = 0
INVARIANTS
  OneSingletonOpen
CHECK_DEADLOCK FALSE
