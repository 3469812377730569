CONSTANTS
  p1 = p1
  p2 = p2
  k1 = k1
  k2 = k2
  Proc = {p1, p2}
  Thread = {p1, p2}
  ProcOf <- OneThreadEach
  KEK = {k1, k2}
  InitKEK = k1
  MaxTerm = 2
  MaxDEK = 3
  MaxCounter = 1
  LeaseSize = 0
  None = None
SYMMETRY Symm
SPECIFICATION Spec
INVARIANTS TermsUsable
PROPERTIES DestroyedForever
CHECK_DEADLOCK FALSE
