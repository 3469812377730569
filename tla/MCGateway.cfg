CONSTANTS
  a1 = a1
  a2 = a2
  a3 = a3
  p1 = p1
  p2 = p2
  p3 = p3
  init1 = init1
  Thread = {a1, a2}
  Request = {r1}
  Content = {c1, c2}
  Key = {k1, k2}
  MaxTime = 2
  DefaultTTL = 1
  MaxTTL = 1
  UseWindow = 1
  None = None
  LsPid = {p1, p2, p3}
  LsMaxStart = 3
  LsMaxKey = 2
  LsInit1 = init1
  GpPid = {1, 2, 3}
SPECIFICATION GatewaySpec
INVARIANTS
  SessionsHold
  ProcessHolds
PROPERTIES
  ImplementsConsent
SYMMETRY ApprovalSymm
CHECK_DEADLOCK FALSE
