CONSTANTS
  p1 = p1
  p2 = p2
  Proc = {p1}
  Ops = {"rotate", "prune", "sweep"}
  Faults = {"crash", "write", "sync", "rename", "open"}
  Retain = 2
  MaxSize = 1
  MaxLine = 6
  MaxFile = 4
  MaxFault = 2
SPECIFICATION Spec
INVARIANTS AckedOnDisk ChainHolds
CHECK_DEADLOCK FALSE
