CONSTANTS
  Parts = {"grant"}
  p1 = p1
  p2 = p2
  g1 = g1
  g2 = g2
  g3 = g3
  t1 = t1
  t2 = t2
  n1 = n1
  n2 = n2
  Proc = {p1, p2}
  Thread = {g1, g2, g3}
  ProcOf <- TwoAndOne
  Token = {t1, t2}
  ParentOf <- ChildOf1
  MaxUses <- Limits
  NonceOf <- Bound
  Nonce = {n1, n2}
  LockMayFail = FALSE
  None = None
  r1 = r1
  r2 = r2
  a1 = a1
  GrantProc = {g1, g2, g3}
  Writer = {g1, g2}
  Grant = {r1, r2}
  GrantUses <- Uses
  FromLLM = {}
  Ask = {a1}
  Fits <- FitsAll
  NoGrant = NoGrant
  k1 = k1
  k2 = k2
  Caller = {g1, g2}
  Key = {k1, k2}
  Sessions <- TwoSessions
  Actors <- AllKeys
  MaxEntries = 1
  MaxToken = 2
  NoKey = NoKey
  actor = actor
  GwGoroutine = {g1, g2}
  GwActor = {actor}
  GwRoute <- Routes
  GwPolicies <- PolicyFiles
  GwLimit <- Limits1And2
SPECIFICATION PermSpec
INVARIANTS NoLateFind
