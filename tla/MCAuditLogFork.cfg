CONSTANTS
  p1 = p1
  p2 = p2
  Proc = {p1, p2}
  Ops = {}
  Faults = {}
  Retain = 2
  MaxSize = 9
  MaxLine = 4
  MaxFile = 3
  MaxFault = 0
SYMMETRY Symm
SPECIFICATION Spec
INVARIANTS ChainVerifies
CHECK_DEADLOCK FALSE
