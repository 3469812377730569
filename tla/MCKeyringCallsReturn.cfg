CONSTANTS
  p1 = p1
  p2 = p2
  k1 = k1
  k2 = k2
  Proc = {p1, p2}
  Thread = {p1, p2}
  ProcOf <- OneThreadEach
  KEK = {k1}
  InitKEK = k1
  MaxTerm = 2
  MaxDEK = 2
  MaxCounter = 1
  LeaseSize = 1
  None = None
SPECIFICATION FairSpec
PROPERTIES CallsReturn
CHECK_DEADLOCK FALSE
