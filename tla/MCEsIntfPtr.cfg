SPECIFICATION Spec
CONSTANTS
  a = a
  b = b
  c = c
  t1 = t1
  t2 = t2
  o1 = o1
  o2 = o2
  Threads = {t1, t2}
  Pointers = {a, b, c}
  Objects = {o1, o2}
  NoObject = NoObject
  NoThread = NoThread
  Sources <- MCSources
SYMMETRY MCSymmetry
INVARIANTS
  RefsCounted
  DestroyedByLastOwner
