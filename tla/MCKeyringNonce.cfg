CONSTANTS
  p1 = p1
  p2 = p2
  k1 = k1
  k2 = k2
  Proc = {p1, p2}
  Thread = {p1, p2}
  ProcOf <- OneThreadEach
  KEK = {k1}
  InitKEK = k1
  MaxTerm = 2
  MaxDEK = 2
  MaxCounter = 3
  LeaseSize = 2
  None = None
SYMMETRY Symm
SPECIFICATION Spec
INVARIANTS NonceUnique
PROPERTIES CountersNeverBack
CHECK_DEADLOCK FALSE
