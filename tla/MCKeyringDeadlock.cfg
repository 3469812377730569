CONSTANTS
  p1 = p1
  p2 = p2
  k1 = k1
  k2 = k2
  Proc = {p1}
  Thread = {p1, p2}
  ProcOf <- TwoThreads
  KEK = {k1}
  InitKEK = k1
  MaxTerm = 1
  MaxDEK = 1
  MaxCounter = 1
  LeaseSize = 1
  None = None
SPECIFICATION FairSpec
PROPERTIES CallsReturn
CHECK_DEADLOCK FALSE
