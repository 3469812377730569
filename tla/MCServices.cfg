CONSTANTS
  c1 = c1
  nobody = nobody
  org = org
  other = other
  repo1 = repo1
  repo2 = repo2
  owner = owner
  m1 = m1
  m2 = m2
  u1 = u1
  u2 = u2
  cap1 = cap1
  keyA = keyA
  keyB = keyB
  nokid = nokid
  p1 = p1
  p2 = p2
  RnProc = {c1}
  RnRequest <- SvRequests
  NoProc = nobody
  MtAsk <- SvAsks
  MtPolicy <- SvMintPolicies
  MtReply <- SvReplies
  TmMember = {owner, m1, m2}
  TmOwner = owner
  TmRosters <- SvRosters
  TmCaller = {u1, u2}
  TmMaxOps = 3
  BgCaller = {u1, u2}
  BgLimit = 3
  BgDay = 3
  BgMaxTime = 4
  SbBundle <- SvBundles
  SbCapability = {cap1}
  SbProc = {1, 2}
  SbMaxTime = 2
  RgBundle <- SvRegistry
  RgProc = {1, 2}
  CiKey = {keyA, keyB}
  NoKid = nokid
  CiVerifier = {u1, u2}
  CiTTL = 1
  CiMaxTime = 2
  SxEvent = {1, 2, 3, 4}
  SxSender = {1, 2}
  SxBuffer = 2
  TrChain <- MCTrChain
  TrOps <- MCTrOps
  TrKey = {"k1", "k2"}
  TrEd = {"k1", "k2"}
  TrMaxOps = 2
  TrMaxAgent = 2
  CnProc = {u1, u2}
  CnSecret <- MCCnSecret
  CnRequired = {"extra", "key"}
  CnConfig <- MCCnConfig
  CnDefault = {}
  CnPrefixed = {"inst"}
  CnAsks <- MCCnAsks
  CnMaxCmds = 2
  UsReq = {u1, u2}
  UsLaunches <- MCUsLaunches
  UsMaxFail = 2
  UsWindow = 1
  UsTTL = 2
  UsMaxTime = 3
  UsMaxReqs = 4
  EsSub = {"s1", "s2"}
  EsCap = 2
  EsBuf = 2
  EsMaxPush = 4
  MxSub = {"s1", "s2"}
  MxPub = {"a", "b"}
  MxBuf = 1
  MxMaxPub = 2
  MkBodies <- MCMkBodies
  MkPolicies <- MCMkPolicies
  MkName <- MCMkName
  MkField <- MCMkField
  MkValue = {"plain", "api_key", "long_token", "pem", "true", "redacted", "stripped", "token", "secret_id", "my_secret_x", "page_token", "body", "x"}
  MkDepth = 4
  McConn = {1, 2, 3}
  McNonce = {1, 2}
  McCall = {1, 2}
  McWindow = 2
  McIdle = 1
  McTTL = 3
  McMaxTime = 4
  McProviders = {"x", "none"}
  McAccounts = {"x", "default", "", "number"}
  Letters = {"g", "s", " "}
  McLines <- Lines
  McArrays <- Arrays
  McTemplates <- Allowlists
  McMaxTests = 2
  McMaxRuns = 1
  PxReq = {u1, u2}
  PxHost = {"api", "cdn", "other"}
  PxAllowed = {"api", "cdn"}
  PxSub <- ProxySub
  PxHeaders <- ProxyHeaders
  PxRoutes <- ProxyRoutes
  PxPath <- ProxyPaths
  PxMaxRounds = 2
  PxLeafLife = 1
  PxMaxCerts = 0
  PxMaxTime = 1
  BsProc = {p1, p2}
  BsTerminal = p1
  BsTTL = {1, 2}
  BsMaxUnlock = 2
  BsMaxTime = 2
  DrFact <- DoctorFacts
  DrOther = {"file", "op"}
  DrMaxFaults = 2
SPECIFICATION SvSpec
INVARIANTS
  RunHolds
  MintHolds
  TeamHolds
  BundlesHold
  WithdrawnKeyRefused
  BuffersHold
  ConnectionsHold
  UiHolds
  MaskingHolds
  McpHolds
  ProxyHolds
  SessionCacheHolds
  DoctorTrue
  TrustHolds
SYMMETRY Interchangeable
CHECK_DEADLOCK FALSE
