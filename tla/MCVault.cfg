CONSTANTS
  p1 = p1
  q1 = q1
  q2 = q2
  v1 = v1
  KcNone = KcNone
  Procs = {p1}
  Ops = {"rotate", "rollback", "destroy"}
  Audited = {"rotate", "rollback"}
  Faults = {"write", "remove", "emit", "crash"}
  DefaultMax = 2
  Limits = {0, 2, 3}
  MaxWrites = 4
  MaxDestroys = 1
  MaxSec = 2
  FsPath = {"a", "b"}
  FsFaults = {"write", "crash"}
  FsMaxSeal = 4
  CmItems = 3
  CmMetas = 2
  KcProc = {q1, q2}
  KcPath = {"a", "b"}
  KcValue = {v1}
  KcPassword = {1, 2}
  KcForce = TRUE
  ViOpener = {"o1"}
  ViBooter = "b"
  ViMaxCmds = 3
  ViItem = {1, 2, 3, 4, 5, 6}
  StBackend = {"file", "keychain", "op"}
  StMac = TRUE
  StMaxCmds = 2
  StMaxEdits = 2
  GiProc = {"p", "q"}
  GiEvented = {"u1", "u2"}
  GiBare = {"w"}
  GiMaxCmds = 3
SPECIFICATION VaultSpec
INVARIANTS
  FsAckedHolds
  MigrationHolds
  KeychainHolds
  IdentityKept
  SetupHolds
  GuardHolds
PROPERTIES
  VersionsHold
CHECK_DEADLOCK FALSE
