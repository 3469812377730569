------------------------------ MODULE StoreProofs ------------------------------
(***************************************************************************)
(* Proofs about what keylatch keeps on the machine: the flat layout of the *)
(* file backend, the change of its cipher, the keychain, the identity of   *)
(* the vault and the versions of a secret, for every number of paths,      *)
(* versions, processes and values.                                         *)
(***************************************************************************)
EXTENDS VaultVersions, FileStore, Keychain, VaultIdentity, Integers, FiniteSetTheorems, TLAPS

-----------------------------------------------------------------------------
\* The flat layout

FsSteps == {"enc", "nonce", "aad", "list", "remove", "unlist"}

FsTypeOK ==
    /\ fsEnc \in [FsPath -> Nat] /\ fsNonce \in [FsPath -> Nat] /\ fsAad \in [FsPath -> Nat]
    /\ fsMem.loaded \in BOOLEAN /\ fsMem = [loaded |-> fsMem.loaded, paths |-> fsMem.paths]
    /\ fsSeals \in Nat /\ fsAcked \in [FsPath -> {"ok", "open"} \X Nat]
    /\ fsCall = FsIdle \/ fsCall \in [at : FsSteps, path : FsPath, seal : Nat]

\* The call under way: its path promises nothing, the manifest is in memory, and
\* the files written so far are of its sealing.
FsCallInv ==
    fsCall.at # "idle" =>
        /\ fsMem.loaded /\ fsAcked[fsCall.path][1] = "open"
        /\ fsCall.at \in {"remove", "unlist"} <=> fsCall.seal = 0
        /\ fsCall.at \in {"nonce", "aad", "list"} => fsEnc[fsCall.path] = fsCall.seal
        /\ fsCall.at \in {"aad", "list"} => fsNonce[fsCall.path] = fsCall.seal
        /\ fsCall.at = "list" => fsAad[fsCall.path] = fsCall.seal /\ fsCall.path \in fsMem.paths
        /\ fsCall.at = "unlist" => fsCall.path \notin fsMem.paths

\* One path in one manifest: as it was reported.
FsPathHolds(p, paths) ==
    /\ FsGet(paths, p) = fsAcked[p][2]
    /\ p \in paths <=> fsAcked[p][2] > 0

FsAckInv ==
    \A p \in FsPath : fsAcked[p][1] = "ok" =>
        FsPathHolds(p, fsDisk) /\ (fsMem.loaded => FsPathHolds(p, fsMem.paths))

FsInv == FsTypeOK /\ FsCallInv /\ FsAckInv

\* A call that is not idle has a path.
LEMMA FsCallType ==
    ASSUME FsTypeOK, fsCall.at # "idle"
    PROVE  fsCall \in [at : FsSteps, path : FsPath, seal : Nat] /\ fsCall.at \in FsSteps /\ fsCall.path \in FsPath /\ fsCall.seal \in Nat
  <1>1. fsCall # FsIdle
    BY DEF FsIdle
  <1> QED BY <1>1 DEF FsTypeOK

\* A step that writes files of the call's path only, and keeps the manifests and
\* the promises for the others.
LEMMA FsOthers ==
    ASSUME FsInv, fsCall.at # "idle", FsTypeOK', NEW r \in FsPath, r = fsCall.path,
           \A p \in FsPath : p # r =>
              /\ fsEnc'[p] = fsEnc[p] /\ fsNonce'[p] = fsNonce[p] /\ fsAad'[p] = fsAad[p] /\ fsAcked'[p] = fsAcked[p]
              /\ p \in fsMem'.paths <=> p \in fsMem.paths,
           fsMem'.loaded = fsMem.loaded,
           \/ fsDisk' = fsDisk
           \/ fsDisk' = fsMem.paths /\ UNCHANGED fsMem,
           fsAcked'[r][1] = "ok" => FsPathHolds(r, fsDisk)' /\ FsPathHolds(r, fsMem.paths)'
    PROVE  FsAckInv'
  <1>1. fsMem.loaded
    BY DEF FsInv, FsCallInv
  <1> SUFFICES ASSUME NEW p \in FsPath, fsAcked'[p][1] = "ok"
               PROVE  FsPathHolds(p, fsDisk)' /\ FsPathHolds(p, fsMem.paths)'
    BY DEF FsAckInv
  <1>2. CASE p = r
    BY <1>2
  <1>3. CASE p # r
    <2>1. FsPathHolds(p, fsDisk) /\ FsPathHolds(p, fsMem.paths)
      BY <1>1, <1>3 DEF FsInv, FsAckInv
    <2>2. /\ fsEnc'[p] = fsEnc[p] /\ fsNonce'[p] = fsNonce[p] /\ fsAad'[p] = fsAad[p] /\ fsAcked'[p] = fsAcked[p]
          /\ p \in fsMem'.paths <=> p \in fsMem.paths
          /\ (p \in fsDisk' <=> p \in fsDisk) \/ (p \in fsDisk' <=> p \in fsMem.paths)
      BY <1>3
    <2> QED BY <2>1, <2>2 DEF FsPathHolds, FsGet
  <1> QED BY <1>2, <1>3

\* A call begins: the manifest is read, and its path promises nothing any more.
LEMMA FsBegin ==
    ASSUME FsInv, NEW p \in FsPath, fsCall.at = "idle", fsMem' = FsLoaded,
           fsSeals' \in Nat, fsCall' \in [at : {"enc", "remove"}, path : {p}, seal : Nat],
           fsCall'.at = "remove" <=> fsCall'.seal = 0,
           fsAcked' = [fsAcked EXCEPT ![p] = <<"open", 0>>], UNCHANGED <<fsFiles, fsDisk>>
    PROVE  FsInv'
  <1>1. UNCHANGED <<fsEnc, fsNonce, fsAad>>
    BY DEF fsFiles
  <1>2. fsAcked' \in [FsPath -> {"ok", "open"} \X Nat] /\ fsAcked'[p][1] = "open" /\ \A q \in FsPath : q # p => fsAcked'[q] = fsAcked[q]
    BY DEF FsInv, FsTypeOK
  <1>3. /\ fsMem' = [loaded |-> TRUE, paths |-> IF fsMem.loaded THEN fsMem.paths ELSE fsDisk]
        /\ fsMem'.loaded = TRUE
        /\ fsMem'.paths = IF fsMem.loaded THEN fsMem.paths ELSE fsDisk
    BY DEF FsLoaded, FsInv, FsTypeOK
  <1>4. /\ fsCall' \in [at : FsSteps, path : FsPath, seal : Nat] /\ fsCall'.path = p /\ fsCall'.at \in {"enc", "remove"}
    BY DEF FsSteps
  <1>5. FsTypeOK'
    BY <1>1, <1>2, <1>3, <1>4 DEF FsInv, FsTypeOK
  <1>6. FsCallInv'
    BY <1>2, <1>3, <1>4 DEF FsCallInv
  <1>7. FsAckInv'
    <2> SUFFICES ASSUME NEW q \in FsPath, fsAcked'[q][1] = "ok"
                 PROVE  FsPathHolds(q, fsDisk)' /\ FsPathHolds(q, fsMem.paths)'
      BY DEF FsAckInv
    <2>1. q # p /\ fsAcked'[q] = fsAcked[q]
      BY <1>2
    <2>2. FsPathHolds(q, fsDisk) /\ FsPathHolds(q, IF fsMem.loaded THEN fsMem.paths ELSE fsDisk)
      BY <2>1 DEF FsInv, FsAckInv
    <2>3. fsDisk' = fsDisk /\ fsMem'.paths = IF fsMem.loaded THEN fsMem.paths ELSE fsDisk
      BY <1>3
    <2> QED BY <1>1, <2>1, <2>2, <2>3 DEF FsPathHolds, FsGet
  <1> QED BY <1>5, <1>6, <1>7 DEF FsInv

\* Every step of a Set, a Delete or a crash preserves the invariant.
LEMMA FsNextInv == ASSUME FsInv, [FsNext]_fsVars PROVE FsInv'
  <1> USE DEF fsFiles
  <1>1. ASSUME NEW p \in FsPath, FsSet(p) PROVE FsInv'
    <2>1. /\ fsCall.at = "idle" /\ fsMem' = FsLoaded /\ fsSeals' = fsSeals + 1 /\ UNCHANGED <<fsFiles, fsDisk>>
          /\ fsCall' = [at |-> "enc", path |-> p, seal |-> fsSeals + 1] /\ fsAcked' = [fsAcked EXCEPT ![p] = <<"open", 0>>]
      BY <1>1 DEF FsSet, FsAt
    <2>2. fsSeals \in Nat
      BY DEF FsInv, FsTypeOK
    <2>3. /\ fsCall' \in [at : {"enc", "remove"}, path : {p}, seal : Nat] /\ fsCall'.at = "enc" /\ fsCall'.seal # 0
          /\ fsSeals' \in Nat
      BY <2>1, <2>2
    <2> QED BY <2>1, <2>3, FsBegin
  <1>2. ASSUME NEW p \in FsPath, FsDelete(p) PROVE FsInv'
    <2>1. /\ fsCall.at = "idle" /\ fsMem' = FsLoaded /\ UNCHANGED <<fsFiles, fsDisk, fsSeals>>
          /\ fsCall' = [at |-> "remove", path |-> p, seal |-> 0] /\ fsAcked' = [fsAcked EXCEPT ![p] = <<"open", 0>>]
      BY <1>2 DEF FsDelete, FsAt
    <2>2. /\ fsCall' \in [at : {"enc", "remove"}, path : {p}, seal : Nat] /\ fsCall'.at = "remove" /\ fsCall'.seal = 0
          /\ fsSeals' \in Nat
      BY <2>1 DEF FsInv, FsTypeOK
    <2> QED BY <2>1, <2>2, FsBegin
  <1>3. CASE FsWriteEnc \/ FsWriteNonce \/ FsWriteAad \/ FsRemoveAll \/ FsSaveManifest
    <2>1. fsCall.at # "idle"
      BY <1>3 DEF FsWriteEnc, FsWriteNonce, FsWriteAad, FsRemoveAll, FsSaveManifest, FsAt
    <2>2. PICK c \in [at : FsSteps, path : FsPath, seal : Nat] : c = fsCall
      BY <2>1, FsCallType DEF FsInv
    <2>r. c.path \in FsPath /\ c.path = fsCall.path
      BY <2>2
    <2>3. \A s \in FsSteps : /\ [c EXCEPT !.at = s] \in [at : FsSteps, path : FsPath, seal : Nat]
                             /\ [c EXCEPT !.at = s].at = s /\ [c EXCEPT !.at = s].path = c.path /\ [c EXCEPT !.at = s].seal = c.seal
      OBVIOUS
    <2>4. FsIdle.at = "idle"
      BY DEF FsIdle
    <2>5. CASE FsWriteEnc
      <3>1. CASE fsEnc' = [fsEnc EXCEPT ![c.path] = c.seal] /\ fsCall' = [c EXCEPT !.at = "nonce"]
        <4>1. UNCHANGED <<fsNonce, fsAad, fsDisk, fsMem, fsSeals, fsAcked>> /\ c.at = "enc"
          BY <2>2, <2>5 DEF FsWriteEnc, FsAt
        <4>2. /\ fsCall' \in [at : FsSteps, path : FsPath, seal : Nat] /\ fsCall'.at = "nonce" /\ fsCall'.path = c.path
              /\ fsCall'.seal = c.seal
          BY <2>3, <3>1 DEF FsSteps
        <4>3. FsTypeOK'
          BY <3>1, <4>1, <4>2 DEF FsInv, FsTypeOK
        <4>4. FsCallInv'
          BY <2>2, <3>1, <4>1, <4>2 DEF FsInv, FsCallInv, FsTypeOK
        <4>5. FsAckInv'
          BY <2>1, <2>2, <3>1, <4>1, <4>3, <2>r, FsOthers DEF FsInv, FsCallInv
        <4> QED BY <4>3, <4>4, <4>5 DEF FsInv
      <3>2. CASE fsCall' = FsIdle /\ UNCHANGED fsEnc
        <4>1. UNCHANGED <<fsEnc, fsNonce, fsAad, fsDisk, fsMem, fsSeals, fsAcked>>
          BY <2>5, <3>2 DEF FsWriteEnc
        <4> QED BY <2>4, <3>2, <4>1 DEF FsInv, FsTypeOK, FsCallInv, FsAckInv, FsPathHolds, FsGet
      <3> QED BY <2>2, <2>5, <3>1, <3>2 DEF FsWriteEnc
    <2>6. CASE FsWriteNonce
      <3>1. UNCHANGED <<fsAad, fsDisk, fsMem, fsSeals, fsAcked>> /\ c.at = "nonce"
        BY <2>2, <2>6 DEF FsWriteNonce, FsAt
      <3>2. CASE fsNonce' = [fsNonce EXCEPT ![c.path] = c.seal] /\ fsCall' = [c EXCEPT !.at = "aad"] /\ UNCHANGED fsEnc
        <4>2. /\ fsCall' \in [at : FsSteps, path : FsPath, seal : Nat] /\ fsCall'.at = "aad" /\ fsCall'.path = c.path
              /\ fsCall'.seal = c.seal
          BY <2>3, <3>2 DEF FsSteps
        <4>3. FsTypeOK'
          BY <3>1, <3>2, <4>2 DEF FsInv, FsTypeOK
        <4>4. FsCallInv'
          BY <2>2, <3>1, <3>2, <4>2 DEF FsInv, FsCallInv, FsTypeOK
        <4>5. FsAckInv'
          BY <2>1, <2>2, <3>1, <3>2, <4>3, <2>r, FsOthers DEF FsInv, FsCallInv
        <4> QED BY <4>3, <4>4, <4>5 DEF FsInv
      <3>3. CASE fsEnc' = [fsEnc EXCEPT ![c.path] = 0] /\ fsCall' = FsIdle /\ UNCHANGED fsNonce
        <4>1. FsTypeOK'
          BY <3>1, <3>3 DEF FsInv, FsTypeOK
        <4>2. FsAckInv'
          BY <2>1, <2>2, <3>1, <3>3, <4>1, <2>r, FsOthers DEF FsInv, FsCallInv
        <4> QED BY <2>4, <3>3, <4>1, <4>2 DEF FsInv, FsCallInv
      <3> QED BY <2>2, <2>6, <3>2, <3>3 DEF FsWriteNonce
    <2>7. CASE FsWriteAad
      <3>1. UNCHANGED <<fsDisk, fsSeals, fsAcked>> /\ c.at = "aad"
        BY <2>2, <2>7 DEF FsWriteAad, FsAt
      <3>2. CASE /\ fsAad' = [fsAad EXCEPT ![c.path] = c.seal] /\ fsMem' = [fsMem EXCEPT !.paths = @ \cup {c.path}]
                 /\ fsCall' = [c EXCEPT !.at = "list"] /\ UNCHANGED <<fsEnc, fsNonce>>
        <4>1. fsMem' = [loaded |-> fsMem.loaded, paths |-> fsMem.paths \cup {c.path}]
          <5>1. PICK l, s : fsMem = [loaded |-> l, paths |-> s]
            BY DEF FsInv, FsTypeOK
          <5> QED BY <3>2, <5>1
        <4>2. fsMem'.loaded = fsMem.loaded /\ fsMem'.paths = fsMem.paths \cup {c.path} /\ fsMem' = [loaded |-> fsMem'.loaded, paths |-> fsMem'.paths]
          BY <4>1
        <4>3. /\ fsCall' \in [at : FsSteps, path : FsPath, seal : Nat] /\ fsCall'.at = "list" /\ fsCall'.path = c.path
              /\ fsCall'.seal = c.seal
          BY <2>3, <3>2 DEF FsSteps
        <4>4. FsTypeOK'
          BY <3>1, <3>2, <4>2, <4>3 DEF FsInv, FsTypeOK
        <4>5. FsCallInv'
          BY <2>2, <3>1, <3>2, <4>2, <4>3 DEF FsInv, FsCallInv, FsTypeOK
        <4>6. FsAckInv'
          BY <2>1, <2>2, <3>1, <3>2, <4>2, <4>4, <2>r, FsOthers DEF FsInv, FsCallInv
        <4> QED BY <4>4, <4>5, <4>6 DEF FsInv
      <3>3. CASE /\ fsEnc' = [fsEnc EXCEPT ![c.path] = 0] /\ fsNonce' = [fsNonce EXCEPT ![c.path] = 0]
                 /\ fsCall' = FsIdle /\ UNCHANGED <<fsAad, fsMem>>
        <4>1. FsTypeOK'
          BY <3>1, <3>3 DEF FsInv, FsTypeOK
        <4>2. FsAckInv'
          BY <2>1, <2>2, <3>1, <3>3, <4>1, <2>r, FsOthers DEF FsInv, FsCallInv
        <4> QED BY <2>4, <3>3, <4>1, <4>2 DEF FsInv, FsCallInv
      <3> QED BY <2>2, <2>7, <3>2, <3>3 DEF FsWriteAad
    <2>8. CASE FsRemoveAll
      <3>1. /\ UNCHANGED <<fsDisk, fsSeals, fsAcked>> /\ c.at = "remove"
            /\ fsEnc' = [fsEnc EXCEPT ![c.path] = 0] /\ fsNonce' = [fsNonce EXCEPT ![c.path] = 0] /\ fsAad' = [fsAad EXCEPT ![c.path] = 0]
            /\ fsMem' = [fsMem EXCEPT !.paths = @ \ {c.path}] /\ fsCall' = [c EXCEPT !.at = "unlist"]
        BY <2>2, <2>8 DEF FsRemoveAll, FsAt
      <3>2. fsMem' = [loaded |-> fsMem.loaded, paths |-> fsMem.paths \ {c.path}]
        <4>1. PICK l, s : fsMem = [loaded |-> l, paths |-> s]
          BY DEF FsInv, FsTypeOK
        <4> QED BY <3>1, <4>1
      <3>3. fsMem'.loaded = fsMem.loaded /\ fsMem'.paths = fsMem.paths \ {c.path} /\ fsMem' = [loaded |-> fsMem'.loaded, paths |-> fsMem'.paths]
        BY <3>2
      <3>4. /\ fsCall' \in [at : FsSteps, path : FsPath, seal : Nat] /\ fsCall'.at = "unlist" /\ fsCall'.path = c.path
            /\ fsCall'.seal = c.seal
        BY <2>3, <3>1 DEF FsSteps
      <3>5. FsTypeOK'
        BY <3>1, <3>3, <3>4 DEF FsInv, FsTypeOK
      <3>6. FsCallInv'
        BY <2>2, <3>1, <3>3, <3>4 DEF FsInv, FsCallInv, FsTypeOK
      <3>7. FsAckInv'
        BY <2>1, <2>2, <3>1, <3>3, <3>5, <2>r, FsOthers DEF FsInv, FsCallInv
      <3> QED BY <3>5, <3>6, <3>7 DEF FsInv
    <2>9. CASE FsSaveManifest
      <3>1. c.at \in {"list", "unlist"} /\ fsCall' = FsIdle /\ UNCHANGED <<fsFiles, fsMem, fsSeals>>
        BY <2>2, <2>9 DEF FsSaveManifest
      <3>2. CASE fsDisk' = fsMem.paths /\ fsAcked' = [fsAcked EXCEPT ![c.path] = <<"ok", c.seal>>]
        <4>1. FsTypeOK'
          BY <3>1, <3>2 DEF FsInv, FsTypeOK
        <4>2. fsAcked'[c.path][2] = c.seal /\ \A p \in FsPath : p # c.path => fsAcked'[p] = fsAcked[p]
          BY <3>2 DEF FsInv, FsTypeOK
        <4>3. FsPathHolds(c.path, fsMem.paths)'
          <5>1. c.path \in fsMem'.paths <=> c.seal > 0
            BY <2>2, <3>1 DEF FsInv, FsCallInv
          <5>2. c.seal > 0 => fsEnc'[c.path] = c.seal /\ fsNonce'[c.path] = c.seal /\ fsAad'[c.path] = c.seal
            BY <2>2, <3>1 DEF FsInv, FsCallInv
          <5>3. FsGet(fsMem.paths, c.path)' = c.seal
            BY <5>1, <5>2 DEF FsGet
          <5> QED BY <4>2, <5>1, <5>3 DEF FsPathHolds, FsGet
        <4>4. FsPathHolds(c.path, fsDisk)'
          <5>1. fsDisk' = fsMem'.paths
            BY <3>1, <3>2
          <5> QED BY <4>3, <5>1 DEF FsPathHolds, FsGet
        <4>5. FsAckInv'
          BY <2>1, <2>2, <3>1, <3>2, <4>1, <4>2, <4>3, <4>4, <2>r, FsOthers
        <4> QED BY <2>4, <3>1, <4>1, <4>5 DEF FsInv, FsCallInv
      <3>3. CASE UNCHANGED <<fsDisk, fsAcked>>
        BY <2>4, <3>1, <3>3 DEF FsInv, FsTypeOK, FsCallInv, FsAckInv, FsPathHolds, FsGet
      <3> QED BY <2>2, <2>9, <3>2, <3>3 DEF FsSaveManifest
    <2> QED BY <1>3, <2>5, <2>6, <2>7, <2>8, <2>9
  <1>4. CASE FsCrash
    <2>1. fsMem' = [loaded |-> FALSE, paths |-> {}] /\ fsCall' = FsIdle /\ UNCHANGED <<fsFiles, fsDisk, fsSeals, fsAcked>>
      BY <1>4 DEF FsCrash
    <2>2. fsMem'.loaded = FALSE /\ fsMem' = [loaded |-> fsMem'.loaded, paths |-> fsMem'.paths] /\ fsCall'.at = "idle"
      BY <2>1 DEF FsIdle
    <2> QED BY <2>1, <2>2 DEF FsInv, FsTypeOK, FsCallInv, FsAckInv, FsPathHolds, FsGet
  <1>5. CASE UNCHANGED fsVars
    BY <1>5 DEF fsVars, FsInv, FsTypeOK, FsCallInv, FsAckInv, FsPathHolds, FsGet
  <1> QED BY <1>1, <1>2, <1>3, <1>4, <1>5 DEF FsNext

\* Set and Delete of the flat layout, with writes that fail and crashes between
\* any two files, for any number of paths: what a call has reported stays true.
THEOREM FlatLayoutHolds == FsInit /\ [][FsNext]_fsVars => []FsAckedHolds
  <1>1. FsInit => FsInv
    <2> SUFFICES ASSUME FsInit PROVE FsInv
      OBVIOUS
    <2>1. FsTypeOK
      BY DEF FsInit, FsTypeOK
    <2>2. fsCall.at = "idle"
      BY DEF FsInit, FsIdle
    <2>3. FsAckInv
      BY DEF FsInit, FsAckInv, FsPathHolds, FsGet
    <2> QED BY <2>1, <2>2, <2>3 DEF FsInv, FsCallInv
  <1>2. FsInv => FsAckedHolds
    BY DEF FsInv, FsAckInv, FsPathHolds, FsAckedHolds
  <1> QED BY <1>1, <1>2, FsNextInv, PTL

-----------------------------------------------------------------------------
\* migrate cipher

CmAge   == {"old", "new"}
CmPhase == {"read", "rotate", "items", "metas", "alg", "rollback", "done", "failed", "crashed"}

CmTypeOK ==
    /\ cmFile \in [1..CmItems -> [CmPart -> CmAge]] /\ cmMeta \in [1..CmMetas -> CmAge]
    /\ cmKeyring \in [term : CmAge, alg : CmAge] /\ cmSaved \in [items : 0..CmItems, metas : 0..CmMetas]
    /\ cmPhase \in CmPhase /\ cmUnrestored \in BOOLEAN /\ cmAt \in (Nat \ {0}) \X (CmPart \cup {"backup", "meta", "alg"})

CmNewItem(i) == \A x \in CmPart : cmFile[i][x] = "new"

\* The files of a version that are written before file x of it.
CmBefore(x) == CASE x = "nonce" -> {"ct"} [] x = "binding" -> {"ct", "nonce"} [] OTHER -> {}

CmStartInv ==
    cmPhase \in {"read", "rotate"} =>
        /\ cmAt = <<1, "backup">> /\ cmSaved.items = 0 /\ cmSaved.metas = 0 /\ cmKeyring.alg = "old" /\ ~cmUnrestored
        /\ (\A i \in 1..CmItems : cmFile[i] = CmOld) /\ (\A m \in 1..CmMetas : cmMeta[m] = "old")

\* The versions before the one at hand are new, those after it old; what may have
\* been overwritten is backed up.
CmItemsInv ==
    cmPhase = "items" =>
        /\ cmAt[1] \in 1..CmItems /\ cmAt[2] \in CmPart \cup {"backup"}
        /\ cmKeyring.term = "new" /\ cmKeyring.alg = "old" /\ ~cmUnrestored
        /\ \A i \in 1..CmItems : (i < cmAt[1] => CmNewItem(i)) /\ (i > cmAt[1] => cmFile[i] = CmOld)
        /\ \A x \in CmPart : cmFile[cmAt[1]][x] = IF x \in CmBefore(cmAt[2]) THEN "new" ELSE "old"
        /\ cmSaved.items = (IF cmAt[2] = "backup" THEN cmAt[1] - 1 ELSE cmAt[1]) /\ cmSaved.metas = 0
        /\ \A m \in 1..CmMetas : cmMeta[m] = "old"

CmMetasInv ==
    cmPhase = "metas" =>
        /\ cmAt[1] \in 1..CmMetas /\ cmSaved.items = CmItems /\ cmSaved.metas = cmAt[1] - 1
        /\ cmKeyring.term = "new" /\ cmKeyring.alg = "old" /\ ~cmUnrestored
        /\ (\A i \in 1..CmItems : CmNewItem(i))
        /\ \A m \in 1..CmMetas : cmMeta[m] = IF m < cmAt[1] THEN "new" ELSE "old"

CmAlgInv ==
    /\ cmPhase \in {"alg", "done"} =>
          /\ cmKeyring.term = "new" /\ (\A i \in 1..CmItems : CmNewItem(i)) /\ (\A m \in 1..CmMetas : cmMeta[m] = "new")
    /\ cmPhase = "alg" => cmSaved.items = CmItems /\ cmSaved.metas = CmMetas /\ cmKeyring.alg = "old" /\ ~cmUnrestored
    /\ cmPhase = "done" => cmKeyring.alg = "new"

\* The versions before the one at hand are old again, those behind the last backup
\* are old still, and those between are new, but for the one that was at hand
\* when the command failed.
CmBackInv ==
    cmPhase = "rollback" =>
        /\ cmKeyring.term = "new" /\ cmKeyring.alg = "old" /\ cmAt[2] \in CmPart \cup {"meta"}
        /\ ~cmUnrestored =>
              /\ \A i \in 1..CmItems : i > cmSaved.items => cmFile[i] = CmOld
              /\ \A m \in 1..CmMetas : m > cmSaved.metas => cmMeta[m] = "old"
              /\ cmAt[2] \in CmPart =>
                    /\ \A i \in 1..CmItems : /\ i < cmAt[1] => cmFile[i] = CmOld
                                             /\ i > cmAt[1] /\ i < cmSaved.items => CmNewItem(i)
                    /\ cmAt[1] <= cmSaved.items => \A x \in CmBefore(cmAt[2]) : cmFile[cmAt[1]][x] = "old"
              /\ cmAt[2] = "meta" =>
                    /\ \A i \in 1..CmItems : cmFile[i] = CmOld
                    /\ \A m \in 1..CmMetas : m < cmAt[1] => cmMeta[m] = "old"

CmFailInv ==
    cmPhase = "failed" =>
        /\ cmKeyring.alg = "old"
        /\ ~cmUnrestored => (\A i \in 1..CmItems : cmFile[i] = CmOld) /\ (\A m \in 1..CmMetas : cmMeta[m] = "old")

CmCrashInv ==
    cmPhase = "crashed" /\ ~cmUnrestored =>
        \E a, b \in Nat : \A i \in 1..CmItems : ~CmReadable(i) => i \in {a, b}

CmInv == CmTypeOK /\ CmStartInv /\ CmItemsInv /\ CmMetasInv /\ CmAlgInv /\ CmBackInv /\ CmFailInv /\ CmCrashInv

\* A version is old when its three files are.
LEMMA CmOldByParts ==
    ASSUME CmTypeOK, NEW i \in 1..CmItems
    PROVE  cmFile[i] = CmOld <=> \A x \in CmPart : cmFile[i][x] = "old"
  <1>1. cmFile[i] \in [CmPart -> CmAge]
    BY DEF CmTypeOK
  <1>2. CmOld \in [CmPart -> CmAge] /\ \A x \in CmPart : CmOld[x] = "old"
    BY DEF CmOld, CmAge
  <1>3. (\A x \in CmPart : cmFile[i][x] = "old") => cmFile[i] = CmOld
    BY <1>1, <1>2
  <1> QED BY <1>2, <1>3

\* The same after a step.
LEMMA CmOldByPartsNext ==
    ASSUME CmTypeOK', NEW i \in 1..CmItems
    PROVE  cmFile'[i] = CmOld <=> \A x \in CmPart : cmFile'[i][x] = "old"
  <1>1. cmFile'[i] \in [CmPart -> CmAge]
    BY DEF CmTypeOK
  <1>2. CmOld \in [CmPart -> CmAge] /\ \A x \in CmPart : CmOld[x] = "old"
    BY DEF CmOld, CmAge
  <1>3. (\A x \in CmPart : cmFile'[i][x] = "old") => cmFile'[i] = CmOld
    BY <1>1, <1>2
  <1> QED BY <1>2, <1>3

\* The versions that do not decrypt while the command runs: the one at hand and
\* the last one backed up, at most.
LEMMA CmFewUnreadable ==
    ASSUME CmInv, ~cmUnrestored
    PROVE  /\ \E a, b \in Nat : \A i \in 1..CmItems : ~CmReadable(i) => i \in {a, b}
           /\ cmPhase \notin {"rollback", "crashed"} => \E a \in Nat : \A i \in 1..CmItems : ~CmReadable(i) => i = a
  <1>1. cmAt[1] \in Nat /\ cmSaved.items \in Nat /\ cmPhase \in CmPhase
    BY CmAssumption DEF CmInv, CmTypeOK
  <1>2. CASE cmPhase \in {"read", "rotate", "metas", "alg", "done", "failed"}
    BY <1>2 DEF CmInv, CmStartInv, CmMetasInv, CmAlgInv, CmFailInv, CmReadable, CmNewItem
  <1>3. CASE cmPhase = "items"
    <2>1. \A i \in 1..CmItems : ~CmReadable(i) => i = cmAt[1]
      BY <1>1, <1>3 DEF CmInv, CmItemsInv, CmReadable, CmNewItem
    <2> QED BY <1>1, <2>1
  <1>4. CASE cmPhase = "rollback"
    <2>1. \A i \in 1..CmItems : ~CmReadable(i) => i \in {cmAt[1], cmSaved.items}
      BY <1>1, <1>4 DEF CmInv, CmBackInv, CmReadable, CmNewItem
    <2> QED BY <1>1, <1>4, <2>1
  <1>5. CASE cmPhase = "crashed"
    BY <1>5 DEF CmInv, CmCrashInv
  <1> QED BY <1>1, <1>2, <1>3, <1>4, <1>5 DEF CmPhase

\* The command fails and begins its rollback.
LEMMA CmFails ==
    ASSUME CmInv, CmFail, cmPhase \in {"items", "metas", "alg"}, UNCHANGED <<cmFile, cmMeta, cmKeyring, cmSaved, cmUnrestored>>
    PROVE  CmInv'
  <1>1. cmPhase' = "rollback" /\ cmAt' = <<1, "ct">> /\ cmAt'[1] = 1 /\ cmAt'[2] = "ct"
    BY DEF CmFail
  <1>2. CmTypeOK'
    BY <1>1 DEF CmInv, CmTypeOK, CmPhase, CmPart
  <1>3. /\ cmKeyring.term = "new" /\ cmKeyring.alg = "old" /\ cmSaved.items \in Nat /\ cmSaved.metas \in Nat /\ cmAt[1] \in Nat
        /\ \A i \in 1..CmItems : (i > cmSaved.items => cmFile[i] = CmOld) /\ (i < cmSaved.items => CmNewItem(i))
        /\ \A m \in 1..CmMetas : m > cmSaved.metas => cmMeta[m] = "old"
    <2>1. cmSaved.items \in Nat /\ cmSaved.metas \in Nat /\ cmAt[1] \in Nat
      BY CmAssumption DEF CmInv, CmTypeOK
    <2>2. CASE cmPhase = "items"
      <3>1. cmAt[2] = "backup" => cmFile[cmAt[1]] = CmOld
        BY <2>2, CmOldByParts DEF CmInv, CmItemsInv, CmBefore
      <3> QED BY <2>1, <2>2, <3>1 DEF CmInv, CmItemsInv
    <2>3. CASE cmPhase = "metas"
      BY <2>1, <2>3, CmAssumption DEF CmInv, CmMetasInv
    <2>4. CASE cmPhase = "alg"
      BY <2>1, <2>4, CmAssumption DEF CmInv, CmAlgInv
    <2> QED BY <2>2, <2>3, <2>4
  <1>4. CmBackInv'
    BY <1>1, <1>3 DEF CmBackInv, CmBefore, CmPart, CmNewItem
  <1> QED BY <1>1, <1>2, <1>4 DEF CmInv, CmStartInv, CmItemsInv, CmMetasInv, CmAlgInv, CmFailInv, CmCrashInv

\* Every step of the command preserves the invariant.
LEMMA CmNextInv == ASSUME CmInv, [CmNext]_cmVars PROVE CmInv'
  <1>t. /\ cmAt[1] \in Nat \ {0} /\ cmAt[2] \in CmPart \cup {"backup", "meta", "alg"} /\ cmSaved.items \in 0..CmItems /\ cmSaved.metas \in 0..CmMetas
        /\ CmItems \in Nat \ {0} /\ CmMetas \in Nat \ {0}
    BY CmAssumption DEF CmInv, CmTypeOK
  <1>1. CASE CmRead
    BY <1>1 DEF CmRead, CmInv, CmTypeOK, CmPhase, CmStartInv, CmItemsInv, CmMetasInv, CmAlgInv, CmBackInv, CmFailInv, CmCrashInv
  <1>2. CASE CmRotate
    <2>1. /\ cmPhase = "rotate" /\ cmPhase' \in {"items", "failed"} /\ UNCHANGED <<cmFile, cmMeta, cmSaved, cmAt, cmUnrestored>>
          /\ cmKeyring' = [cmKeyring EXCEPT !.term = "new"] \/ (cmKeyring' = cmKeyring /\ cmPhase' = "failed")
      BY <1>2 DEF CmRotate
    <2>2. cmKeyring' \in [term : CmAge, alg : CmAge] /\ cmKeyring'.alg = cmKeyring.alg /\ (cmPhase' = "items" => cmKeyring'.term = "new")
      BY <2>1 DEF CmInv, CmTypeOK, CmAge
    <2>3. CmTypeOK'
      BY <2>1, <2>2 DEF CmInv, CmTypeOK, CmPhase
    <2>4. CmItemsInv'
      <3>1. cmAt = <<1, "backup">> /\ cmAt[1] = 1 /\ cmAt[2] = "backup" /\ 1 \in 1..CmItems
        BY <1>t, <2>1 DEF CmInv, CmStartInv
      <3>2. \A x \in CmPart : cmFile[1][x] = "old"
        BY <2>1, <3>1, CmOldByParts DEF CmInv, CmStartInv
      <3> QED BY <2>1, <2>2, <3>1, <3>2 DEF CmInv, CmStartInv, CmItemsInv, CmBefore
    <2> QED BY <2>1, <2>2, <2>3, <2>4 DEF CmInv, CmStartInv, CmMetasInv, CmAlgInv, CmBackInv, CmFailInv, CmCrashInv
  <1>3. CASE CmBackup
    <2>1. cmPhase = "items" /\ cmAt[2] = "backup" /\ UNCHANGED <<cmFile, cmMeta, cmKeyring, cmUnrestored>>
      BY <1>3 DEF CmBackup
    <2>2. CASE CmFail /\ UNCHANGED cmSaved
      BY <2>1, <2>2, CmFails
    <2>3. CASE cmSaved' = [cmSaved EXCEPT !.items = cmAt[1]] /\ cmAt' = <<cmAt[1], "ct">> /\ UNCHANGED cmPhase
      <3>1. /\ cmSaved' \in [items : 0..CmItems, metas : 0..CmMetas] /\ cmSaved'.items = cmAt[1] /\ cmSaved'.metas = cmSaved.metas
            /\ cmAt'[1] = cmAt[1] /\ cmAt'[2] = "ct"
        <4>1. PICK n \in 0..CmItems : n = cmAt[1]
          BY <2>1 DEF CmInv, CmItemsInv
        <4>2. cmSaved' = [cmSaved EXCEPT !.items = n] /\ cmSaved \in [items : 0..CmItems, metas : 0..CmMetas]
          BY <2>3, <4>1 DEF CmInv, CmTypeOK
        <4> QED BY <2>3, <4>1, <4>2
      <3>2. CmTypeOK'
        BY <1>t, <2>1, <2>3, <3>1 DEF CmInv, CmTypeOK, CmPart
      <3>3. CmItemsInv'
        BY <2>1, <2>3, <3>1 DEF CmInv, CmItemsInv, CmBefore, CmPart, CmNewItem
      <3> QED BY <2>1, <2>3, <3>2, <3>3 DEF CmInv, CmStartInv, CmMetasInv, CmAlgInv, CmBackInv, CmFailInv, CmCrashInv
    <2> QED BY <1>3, <2>2, <2>3 DEF CmBackup
  <1>4. CASE CmWrite
    <2>1. cmPhase = "items" /\ cmAt[2] \in CmPart /\ UNCHANGED <<cmMeta, cmKeyring, cmSaved, cmUnrestored>>
      BY <1>4 DEF CmWrite
    <2>2. CASE CmFail /\ UNCHANGED cmFile
      BY <2>1, <2>2, CmFails
    <2>3. CASE cmFile' = [cmFile EXCEPT ![cmAt[1]][cmAt[2]] = "new"]
      <3>i. PICK i \in 1..CmItems, x \in CmPart : i = cmAt[1] /\ x = cmAt[2]
        BY <2>1 DEF CmInv, CmItemsInv
      <3>1. /\ i \in 1..CmItems /\ x \in CmPart
            /\ (\A j \in 1..CmItems : (j < i => CmNewItem(j)) /\ (j > i => cmFile[j] = CmOld))
            /\ \A y \in CmPart : cmFile[i][y] = IF y \in CmBefore(x) THEN "new" ELSE "old"
            /\ cmSaved.items = i /\ cmSaved.metas = 0 /\ cmKeyring.term = "new" /\ cmKeyring.alg = "old" /\ ~cmUnrestored
            /\ \A m \in 1..CmMetas : cmMeta[m] = "old"
        BY <2>1, <3>i DEF CmInv, CmItemsInv, CmPart
      <3>2. /\ cmFile' \in [1..CmItems -> [CmPart -> CmAge]] /\ cmFile'[i][x] = "new"
            /\ \A j \in 1..CmItems : j # i => cmFile'[j] = cmFile[j]
            /\ \A y \in CmPart : y # x => cmFile'[i][y] = cmFile[i][y]
        BY <2>3, <3>i, <3>1 DEF CmInv, CmTypeOK, CmAge
      <3>3. /\ \/ x # "binding" /\ cmAt' = <<i, CmAfter(x)>> /\ UNCHANGED cmPhase
               \/ x = "binding" /\ i < CmItems /\ cmAt' = <<i + 1, "backup">> /\ UNCHANGED cmPhase
               \/ x = "binding" /\ ~(i < CmItems) /\ cmAt' = <<1, "meta">> /\ cmPhase' = "metas"
               \/ CmFail /\ UNCHANGED cmFile
        BY <1>4, <3>i DEF CmWrite
      <3>4. CASE x # "binding" /\ cmAt' = <<i, CmAfter(x)>> /\ UNCHANGED cmPhase
        <4>1. /\ x \in {"ct", "nonce"} /\ cmAt'[1] = i /\ cmAt'[2] = CmAfter(x) /\ CmAfter(x) \in CmPart
              /\ CmBefore(CmAfter(x)) = CmBefore(x) \cup {x}
          BY <3>1, <3>4 DEF CmPart, CmAfter, CmBefore
        <4>2. CmTypeOK'
          BY <1>t, <2>1, <3>1, <3>2, <3>4, <4>1 DEF CmInv, CmTypeOK
        <4>3. \A y \in CmPart : cmFile'[i][y] = IF y \in CmBefore(CmAfter(x)) THEN "new" ELSE "old"
          <5> SUFFICES ASSUME NEW y \in CmPart
                       PROVE  cmFile'[i][y] = IF y \in CmBefore(CmAfter(x)) THEN "new" ELSE "old"
            OBVIOUS
          <5>1. y \in CmBefore(CmAfter(x)) <=> y = x \/ y \in CmBefore(x)
            BY <4>1
          <5>2. CASE y = x
            BY <3>2, <5>1, <5>2
          <5>3. CASE y # x
            <6>1. cmFile'[i][y] = cmFile[i][y]
              BY <3>2, <5>3
            <6>2. cmFile[i][y] = IF y \in CmBefore(x) THEN "new" ELSE "old"
              BY <3>1
            <6> QED BY <5>1, <5>3, <6>1, <6>2
          <5> QED BY <5>2, <5>3
        <4>4. \A j \in 1..CmItems : (j < i => CmNewItem(j)') /\ (j > i => cmFile'[j] = CmOld)
          BY <3>1, <3>2 DEF CmNewItem
        <4>5. CmItemsInv'
          BY <2>1, <3>1, <3>4, <4>1, <4>3, <4>4 DEF CmItemsInv, CmPart
        <4> QED BY <2>1, <3>4, <4>2, <4>5 DEF CmInv, CmStartInv, CmMetasInv, CmAlgInv, CmBackInv, CmFailInv, CmCrashInv
      <3>5. ASSUME x = "binding" PROVE CmNewItem(i)' /\ \A j \in 1..CmItems : j <= i => CmNewItem(j)'
        <4>1. CmNewItem(i)'
          BY <3>1, <3>2, <3>5 DEF CmNewItem, CmBefore, CmPart
        <4>2. \A j \in 1..CmItems : j < i => CmNewItem(j)'
          BY <3>1, <3>2 DEF CmNewItem
        <4> QED BY <3>1, <4>1, <4>2
      <3>6. CASE x = "binding" /\ i < CmItems /\ cmAt' = <<i + 1, "backup">> /\ UNCHANGED cmPhase
        <4>1. cmAt'[1] = i + 1 /\ cmAt'[2] = "backup" /\ i + 1 \in 1..CmItems /\ i + 1 # i
          BY <1>t, <3>1, <3>6
        <4>2. CmTypeOK'
          BY <1>t, <2>1, <3>2, <3>6, <4>1 DEF CmInv, CmTypeOK
        <4>3. \A y \in CmPart : cmFile'[i + 1][y] = "old"
          <5>1. cmFile'[i + 1] = CmOld
            BY <3>1, <3>2, <4>1
          <5> QED BY <5>1 DEF CmOld
        <4>4. \A j \in 1..CmItems : (j < i + 1 => CmNewItem(j)') /\ (j > i + 1 => cmFile'[j] = CmOld)
          BY <3>1, <3>2, <3>5, <3>6
        <4>5. CmItemsInv'
          BY <2>1, <3>1, <3>6, <4>1, <4>3, <4>4 DEF CmItemsInv, CmBefore
        <4> QED BY <2>1, <3>6, <4>2, <4>5 DEF CmInv, CmStartInv, CmMetasInv, CmAlgInv, CmBackInv, CmFailInv, CmCrashInv
      <3>7. CASE x = "binding" /\ ~(i < CmItems) /\ cmAt' = <<1, "meta">> /\ cmPhase' = "metas"
        <4>1. cmAt'[1] = 1 /\ cmAt'[2] = "meta" /\ i = CmItems /\ 1 \in 1..CmMetas
          BY <1>t, <3>1, <3>7
        <4>2. CmTypeOK'
          BY <1>t, <2>1, <3>2, <3>7 DEF CmInv, CmTypeOK, CmPhase
        <4>3. CmMetasInv'
          BY <2>1, <3>1, <3>5, <3>7, <4>1 DEF CmMetasInv
        <4> QED BY <3>7, <4>2, <4>3 DEF CmInv, CmStartInv, CmItemsInv, CmAlgInv, CmBackInv, CmFailInv, CmCrashInv
      <3>8. CASE CmFail /\ UNCHANGED cmFile
        BY <2>2, <3>8
      <3> QED BY <3>3, <3>4, <3>6, <3>7, <3>8
    <2> QED BY <1>4, <2>2, <2>3 DEF CmWrite
  <1>5. CASE CmWriteMeta
    <2>1. cmPhase = "metas" /\ UNCHANGED <<cmFile, cmKeyring, cmUnrestored>>
      BY <1>5 DEF CmWriteMeta
    <2>2. CASE CmFail /\ UNCHANGED <<cmMeta, cmSaved>>
      BY <2>1, <2>2, CmFails
    <2>3. CASE /\ cmMeta' = [cmMeta EXCEPT ![cmAt[1]] = "new"] /\ cmSaved' = [cmSaved EXCEPT !.metas = cmAt[1]]
               /\ IF cmAt[1] < CmMetas THEN cmAt' = <<cmAt[1] + 1, "meta">> /\ UNCHANGED cmPhase
                  ELSE cmAt' = <<1, "alg">> /\ cmPhase' = "alg"
      <3>1. /\ cmAt[1] \in 1..CmMetas /\ cmSaved.items = CmItems /\ cmKeyring.term = "new" /\ cmKeyring.alg = "old" /\ ~cmUnrestored
            /\ (\A i \in 1..CmItems : CmNewItem(i)) /\ \A m \in 1..CmMetas : cmMeta[m] = IF m < cmAt[1] THEN "new" ELSE "old"
        BY <2>1 DEF CmInv, CmMetasInv
      <3>2. /\ cmMeta' \in [1..CmMetas -> CmAge] /\ cmSaved' \in [items : 0..CmItems, metas : 0..CmMetas]
            /\ cmSaved'.items = cmSaved.items /\ cmSaved'.metas = cmAt[1]
            /\ \A m \in 1..CmMetas : cmMeta'[m] = IF m < cmAt[1] + 1 THEN "new" ELSE "old"
        <4>1. PICK n \in 1..CmMetas : n = cmAt[1]
          BY <3>1
        <4>2. /\ cmSaved' = [cmSaved EXCEPT !.metas = n] /\ cmSaved \in [items : 0..CmItems, metas : 0..CmMetas]
              /\ cmMeta' = [cmMeta EXCEPT ![n] = "new"] /\ cmMeta \in [1..CmMetas -> CmAge]
          BY <2>3, <4>1 DEF CmInv, CmTypeOK
        <4>3. n \in 0..CmMetas
          BY <1>t
        <4>4. cmSaved' \in [items : 0..CmItems, metas : 0..CmMetas] /\ cmSaved'.items = cmSaved.items /\ cmSaved'.metas = n
          BY <4>2, <4>3
        <4>5. cmMeta' \in [1..CmMetas -> CmAge]
          BY <4>2 DEF CmAge
        <4>6. ASSUME NEW m \in 1..CmMetas PROVE cmMeta'[m] = IF m < cmAt[1] + 1 THEN "new" ELSE "old"
          <5>1. cmMeta'[m] = IF m = n THEN "new" ELSE cmMeta[m]
            BY <4>2
          <5>2. m < n + 1 <=> m = n \/ m < n
            BY <1>t
          <5> QED BY <3>1, <4>1, <5>1, <5>2
        <4> QED BY <4>1, <4>4, <4>5, <4>6
      <3>3. \A i \in 1..CmItems : CmNewItem(i)'
        BY <2>1, <3>1 DEF CmNewItem
      <3>4. CASE cmAt[1] < CmMetas
        <4>1. cmAt' = <<cmAt[1] + 1, "meta">> /\ cmAt'[1] = cmAt[1] + 1 /\ UNCHANGED cmPhase /\ cmAt[1] + 1 \in 1..CmMetas
          BY <1>t, <2>3, <3>4
        <4>2. CmTypeOK'
          BY <1>t, <2>1, <3>2, <4>1 DEF CmInv, CmTypeOK
        <4>3. CmMetasInv'
          BY <1>t, <2>1, <3>1, <3>2, <3>3, <4>1 DEF CmMetasInv
        <4> QED BY <2>1, <4>1, <4>2, <4>3 DEF CmInv, CmStartInv, CmItemsInv, CmAlgInv, CmBackInv, CmFailInv, CmCrashInv
      <3>5. CASE ~(cmAt[1] < CmMetas)
        <4>1. cmAt' = <<1, "alg">> /\ cmPhase' = "alg" /\ cmAt[1] = CmMetas
          BY <1>t, <2>3, <3>1, <3>5
        <4>2. CmTypeOK'
          BY <1>t, <2>1, <3>2, <4>1 DEF CmInv, CmTypeOK, CmPhase
        <4>3. \A m \in 1..CmMetas : cmMeta'[m] = "new"
          BY <1>t, <3>2, <4>1
        <4>4. CmAlgInv'
          BY <1>t, <2>1, <3>1, <3>2, <3>3, <4>1, <4>3 DEF CmAlgInv
        <4> QED BY <4>1, <4>2, <4>4 DEF CmInv, CmStartInv, CmItemsInv, CmMetasInv, CmBackInv, CmFailInv, CmCrashInv
      <3> QED BY <3>4, <3>5
    <2> QED BY <1>5, <2>2, <2>3 DEF CmWriteMeta
  <1>6. CASE CmUpdateAlgorithm
    <2>1. cmPhase = "alg" /\ UNCHANGED <<cmFile, cmMeta, cmSaved, cmUnrestored>>
      BY <1>6 DEF CmUpdateAlgorithm
    <2>2. CASE CmFail /\ UNCHANGED cmKeyring
      BY <2>1, <2>2, CmFails
    <2>3. CASE cmKeyring' = [cmKeyring EXCEPT !.alg = "new"] /\ cmPhase' = "done" /\ UNCHANGED cmAt
      <3>1. cmKeyring' \in [term : CmAge, alg : CmAge] /\ cmKeyring'.alg = "new" /\ cmKeyring'.term = cmKeyring.term
        BY <2>3 DEF CmInv, CmTypeOK, CmAge
      <3>2. CmTypeOK'
        BY <2>1, <2>3, <3>1 DEF CmInv, CmTypeOK, CmPhase
      <3>3. CmAlgInv'
        BY <2>1, <2>3, <3>1 DEF CmInv, CmAlgInv, CmNewItem
      <3> QED BY <2>3, <3>2, <3>3 DEF CmInv, CmStartInv, CmItemsInv, CmMetasInv, CmBackInv, CmFailInv, CmCrashInv
    <2> QED BY <1>6, <2>2, <2>3 DEF CmUpdateAlgorithm
  <1>7. CASE CmRestore
    <2>1. cmPhase = "rollback" /\ cmAt[2] \in CmPart /\ UNCHANGED <<cmMeta, cmKeyring, cmSaved, cmPhase>>
      BY <1>7 DEF CmRestore
    <2> DEFINE j == cmAt[1]
               x == cmAt[2]
    <2>2. CASE j > cmSaved.items
      <3>1. cmAt' = <<1, "meta">> /\ cmAt'[1] = 1 /\ cmAt'[2] = "meta" /\ UNCHANGED <<cmFile, cmUnrestored>>
        BY <1>7, <2>2 DEF CmRestore
      <3>2. CmTypeOK'
        BY <2>1, <3>1 DEF CmInv, CmTypeOK
      <3>3. ~cmUnrestored => \A i \in 1..CmItems : cmFile[i] = CmOld
        <4>1. ASSUME ~cmUnrestored, NEW i \in 1..CmItems PROVE i < j \/ i > cmSaved.items
          BY <1>t, <2>2
        <4> QED BY <2>1, <4>1 DEF CmInv, CmBackInv
      <3>4. CmBackInv'
        BY <2>1, <3>1, <3>3 DEF CmInv, CmBackInv, CmPart
      <3> QED BY <2>1, <3>2, <3>4 DEF CmInv, CmStartInv, CmItemsInv, CmMetasInv, CmAlgInv, CmFailInv, CmCrashInv
    <2>3. CASE ~(j > cmSaved.items) /\ cmUnrestored' = TRUE /\ UNCHANGED cmFile /\ cmAt' = <<j + 1, "ct">>
      <3>1. cmAt'[1] = j + 1 /\ cmAt'[2] = "ct" /\ j + 1 \in Nat \ {0}
        BY <1>t, <2>3
      <3>2. CmTypeOK'
        BY <2>1, <2>3, <3>1 DEF CmInv, CmTypeOK, CmPart
      <3>3. CmBackInv'
        BY <2>1, <2>3, <3>1 DEF CmInv, CmBackInv, CmPart
      <3> QED BY <2>1, <3>2, <3>3 DEF CmInv, CmStartInv, CmItemsInv, CmMetasInv, CmAlgInv, CmFailInv, CmCrashInv
    <2>4. CASE /\ ~(j > cmSaved.items) /\ cmFile' = [cmFile EXCEPT ![j][x] = "old"] /\ UNCHANGED cmUnrestored
               /\ cmAt' = IF x = "binding" THEN <<j + 1, "ct">> ELSE <<j, CmAfter(x)>>
      <3>1. j \in 1..CmItems /\ x \in CmPart
        BY <1>t, <2>1, <2>4
      <3>2. /\ cmFile' \in [1..CmItems -> [CmPart -> CmAge]] /\ cmFile'[j][x] = "old"
            /\ \A i \in 1..CmItems : i # j => cmFile'[i] = cmFile[i]
            /\ \A y \in CmPart : y # x => cmFile'[j][y] = cmFile[j][y]
        BY <2>4, <3>1 DEF CmInv, CmTypeOK, CmAge
      <3>3. /\ x # "binding" => cmAt' = <<j, CmAfter(x)>> /\ CmAfter(x) \in CmPart /\ CmBefore(CmAfter(x)) = CmBefore(x) \cup {x}
            /\ x = "binding" => cmAt' = <<j + 1, "ct">> /\ CmPart = CmBefore(x) \cup {x}
        BY <2>4, <3>1 DEF CmAfter, CmBefore, CmPart
      <3>4. CmTypeOK'
        BY <1>t, <2>1, <2>4, <3>2, <3>3 DEF CmInv, CmTypeOK, CmPart
      <3>5. /\ cmKeyring'.term = "new" /\ cmKeyring'.alg = "old" /\ cmAt'[2] \in CmPart
        BY <2>1, <3>3 DEF CmInv, CmBackInv, CmPart
      <3>6. ASSUME ~cmUnrestored'
            PROVE  /\ \A i \in 1..CmItems : i > cmSaved.items => cmFile'[i] = CmOld
                   /\ \A m \in 1..CmMetas : m > cmSaved.metas => cmMeta'[m] = "old"
                   /\ \A i \in 1..CmItems : /\ i < cmAt'[1] => cmFile'[i] = CmOld
                                            /\ i > cmAt'[1] /\ i < cmSaved.items => CmNewItem(i)'
                   /\ \A y \in CmBefore(cmAt'[2]) : cmAt'[1] <= cmSaved.items => cmFile'[cmAt'[1]][y] = "old"
        <4>1. /\ \A i \in 1..CmItems : i > cmSaved.items => cmFile[i] = CmOld
              /\ \A m \in 1..CmMetas : m > cmSaved.metas => cmMeta[m] = "old"
              /\ \A i \in 1..CmItems : /\ i < j => cmFile[i] = CmOld
                                       /\ i > j /\ i < cmSaved.items => CmNewItem(i)
              /\ \A y \in CmBefore(x) : cmFile[j][y] = "old"
          BY <1>t, <2>1, <2>4, <3>6 DEF CmInv, CmBackInv
        <4>2. \A y \in CmBefore(x) : y # x /\ y \in CmPart
          BY <3>1 DEF CmBefore, CmPart
        <4>3. \A y \in CmBefore(x) \cup {x} : cmFile'[j][y] = "old"
          BY <3>2, <4>1, <4>2
        <4>4. \A i \in 1..CmItems : i > cmSaved.items => cmFile'[i] = CmOld
          BY <1>t, <2>4, <3>2, <4>1
        <4>5. \A i \in 1..CmItems : /\ i < j => cmFile'[i] = CmOld
                                    /\ i > j /\ i < cmSaved.items => CmNewItem(i)'
          BY <1>t, <3>2, <4>1 DEF CmNewItem
        <4>6. CASE x # "binding"
          <5>1. cmAt'[1] = j /\ cmAt'[2] = CmAfter(x)
            BY <3>3, <4>6
          <5> QED BY <2>1, <3>3, <4>1, <4>3, <4>4, <4>5, <4>6, <5>1
        <4>7. CASE x = "binding"
          <5>1. cmAt'[1] = j + 1 /\ cmAt'[2] = "ct" /\ CmBefore("ct") = {}
            BY <3>3, <4>7 DEF CmBefore
          <5>2. cmFile'[j] = CmOld
            BY <3>1, <3>3, <3>4, <4>3, <4>7, CmOldByPartsNext
          <5>3. \A i \in 1..CmItems : /\ i < j + 1 => cmFile'[i] = CmOld
                                      /\ i > j + 1 /\ i < cmSaved.items => CmNewItem(i)'
            BY <1>t, <3>1, <4>5, <5>2
          <5> QED BY <2>1, <4>1, <4>4, <5>1, <5>3
        <4> QED BY <4>6, <4>7
      <3>7. CmBackInv'
        BY <2>1, <3>5, <3>6 DEF CmBackInv, CmPart
      <3> QED BY <2>1, <3>4, <3>7 DEF CmInv, CmStartInv, CmItemsInv, CmMetasInv, CmAlgInv, CmFailInv, CmCrashInv
    <2> QED BY <1>7, <2>2, <2>3, <2>4 DEF CmRestore
  <1>8. CASE CmRestoreMeta
    <2>1. cmPhase = "rollback" /\ cmAt[2] = "meta" /\ UNCHANGED <<cmFile, cmKeyring, cmSaved>>
      BY <1>8 DEF CmRestoreMeta
    <2>2. CASE cmAt[1] > cmSaved.metas /\ cmPhase' = "failed" /\ UNCHANGED <<cmMeta, cmAt, cmUnrestored>>
      <3>1. CmTypeOK'
        BY <2>1, <2>2 DEF CmInv, CmTypeOK, CmPhase
      <3>2. ~cmUnrestored => \A m \in 1..CmMetas : cmMeta[m] = "old"
        <4>1. ASSUME ~cmUnrestored, NEW m \in 1..CmMetas PROVE m < cmAt[1] \/ m > cmSaved.metas
          BY <1>t, <2>2
        <4> QED BY <2>1, <4>1 DEF CmInv, CmBackInv
      <3>3. CmFailInv'
        BY <2>1, <2>2, <3>2 DEF CmInv, CmBackInv, CmFailInv
      <3> QED BY <2>2, <3>1, <3>3 DEF CmInv, CmStartInv, CmItemsInv, CmMetasInv, CmAlgInv, CmBackInv, CmCrashInv
    <2>3. CASE ~(cmAt[1] > cmSaved.metas)
      <3>1. /\ cmAt' = <<cmAt[1] + 1, "meta">> /\ UNCHANGED cmPhase
            /\ \/ cmMeta' = [cmMeta EXCEPT ![cmAt[1]] = "old"] /\ UNCHANGED cmUnrestored
               \/ cmUnrestored' = TRUE /\ UNCHANGED cmMeta
        BY <1>8, <2>3 DEF CmRestoreMeta
      <3>2. cmAt'[1] = cmAt[1] + 1 /\ cmAt'[2] = "meta" /\ cmAt[1] + 1 \in Nat \ {0} /\ cmAt[1] \in 1..CmMetas
        BY <1>t, <2>3, <3>1
      <3>3. CmTypeOK'
        BY <2>1, <3>1, <3>2 DEF CmInv, CmTypeOK, CmAge
      <3>4. ~cmUnrestored' => /\ ~cmUnrestored /\ cmMeta' = [cmMeta EXCEPT ![cmAt[1]] = "old"]
                              /\ \A m \in 1..CmMetas : cmMeta'[m] = IF m = cmAt[1] THEN "old" ELSE cmMeta[m]
        BY <3>1 DEF CmInv, CmTypeOK
      <3>5. CmBackInv'
        BY <1>t, <2>1, <3>1, <3>2, <3>4 DEF CmInv, CmBackInv, CmPart
      <3> QED BY <2>1, <3>1, <3>3, <3>5 DEF CmInv, CmStartInv, CmItemsInv, CmMetasInv, CmAlgInv, CmFailInv, CmCrashInv
    <2> QED BY <1>8, <2>2, <2>3 DEF CmRestoreMeta
  <1>9. CASE CmCrash
    <2>1. cmPhase' = "crashed" /\ UNCHANGED <<cmFile, cmMeta, cmKeyring, cmSaved, cmAt, cmUnrestored>>
      BY <1>9 DEF CmCrash
    <2>2. CmTypeOK'
      BY <2>1 DEF CmInv, CmTypeOK, CmPhase
    <2>3. \A i \in 1..CmItems : CmReadable(i)' <=> CmReadable(i)
      BY <2>1 DEF CmReadable
    <2>4. CmCrashInv'
      BY <2>1, <2>3, CmFewUnreadable DEF CmCrashInv
    <2> QED BY <2>1, <2>2, <2>4 DEF CmInv, CmStartInv, CmItemsInv, CmMetasInv, CmAlgInv, CmBackInv, CmFailInv
  <1>10. CASE UNCHANGED cmVars
    BY <1>10 DEF cmVars, CmInv, CmTypeOK, CmStartInv, CmItemsInv, CmMetasInv, CmAlgInv, CmBackInv, CmFailInv, CmCrashInv, CmNewItem, CmReadable
  <1> QED BY <1>1, <1>2, <1>3, <1>4, <1>5, <1>6, <1>7, <1>8, <1>9, <1>10 DEF CmNext

\* migrate cipher of any number of versions and metadata files, with a failure or a
\* crash at any step: all or nothing, and a crash costs at most two versions.
THEOREM CipherMigrationHolds == CmInit /\ [][CmNext]_cmVars => []MigrationHolds
  <1>1. CmInit => CmInv
    <2> SUFFICES ASSUME CmInit PROVE CmInv
      OBVIOUS
    <2>1. CmTypeOK
      <3>1. CmOld \in [CmPart -> CmAge]
        BY DEF CmOld, CmAge
      <3>2. cmFile \in [1..CmItems -> [CmPart -> CmAge]] /\ cmMeta \in [1..CmMetas -> CmAge]
        BY <3>1 DEF CmInit, CmAge
      <3>3. cmSaved \in [items : 0..CmItems, metas : 0..CmMetas] /\ cmKeyring \in [term : CmAge, alg : CmAge]
        BY CmAssumption DEF CmInit, CmAge
      <3>4. cmAt \in (Nat \ {0}) \X (CmPart \cup {"backup", "meta", "alg"})
        BY DEF CmInit
      <3> QED BY <3>2, <3>3, <3>4 DEF CmInit, CmTypeOK, CmPhase
    <2>2. CmStartInv
      BY DEF CmInit, CmStartInv
    <2> QED BY <2>1, <2>2 DEF CmInit, CmInv, CmItemsInv, CmMetasInv, CmAlgInv, CmBackInv, CmFailInv, CmCrashInv
  <1>2. CmInv => CmAllOrNothing
    <2> SUFFICES ASSUME CmInv PROVE CmAllOrNothing
      OBVIOUS
    <2>1. \A i \in 1..CmItems : CmNewItem(i) => cmFile[i] # CmOld
      BY DEF CmNewItem, CmOld, CmPart
    <2> QED BY <2>1 DEF CmInv, CmFailInv, CmAlgInv, CmAllOrNothing, CmReadable, CmNewItem
  <1>3. CmInv => CmCrashCostsFew
    <2> SUFFICES ASSUME CmInv, ~cmUnrestored
                 PROVE  Cardinality({i \in 1..CmItems : ~CmReadable(i)}) <= IF cmPhase \in {"rollback", "crashed"} THEN 2 ELSE 1
      BY DEF CmCrashCostsFew
    <2> DEFINE U == {i \in 1..CmItems : ~CmReadable(i)}
    <2>1. ASSUME NEW a, NEW b, U \subseteq {a, b} PROVE Cardinality(U) <= 2
      <3>1. IsFiniteSet({a, b}) /\ Cardinality({a, b}) <= 2
        <4>1. IsFiniteSet({a}) /\ Cardinality({a}) = 1
          BY FS_Singleton
        <4>2. {a, b} = {a} \cup {b}
          OBVIOUS
        <4> QED BY <4>1, <4>2, FS_AddElement
      <3>2. Cardinality(U) <= Cardinality({a, b}) /\ Cardinality(U) \in Nat /\ Cardinality({a, b}) \in Nat
        BY <2>1, <3>1, FS_Subset, FS_CardinalityType
      <3> QED BY <3>1, <3>2
    <2>2. ASSUME NEW a, U \subseteq {a} PROVE Cardinality(U) <= 1
      <3>1. IsFiniteSet({a}) /\ Cardinality({a}) = 1
        BY FS_Singleton
      <3>2. Cardinality(U) <= Cardinality({a})
        BY <2>2, <3>1, FS_Subset
      <3> QED BY <3>1, <3>2
    <2>3. PICK a \in Nat, b \in Nat : \A i \in 1..CmItems : ~CmReadable(i) => i \in {a, b}
      BY CmFewUnreadable
    <2>4. Cardinality(U) <= 2
      BY <2>1, <2>3
    <2>5. cmPhase \notin {"rollback", "crashed"} => Cardinality(U) <= 1
      BY <2>2, CmFewUnreadable
    <2> QED BY <2>4, <2>5
  <1> QED BY <1>1, <1>2, <1>3, CmNextInv, PTL DEF MigrationHolds

-----------------------------------------------------------------------------
\* The keychain

KcInside == {"store", "load", "value", "erase", "save", "lock"}
KcHeld   == KcInside \cup {"password", "unlock"}
KcRecord == [at : KcHeld \cup {"idle", "flock", "create", "item", "repair"}, op : {"none", "get", "set", "delete", "init"},
             path : KcPath \cup {KcNone}, val : KcValue \cup {KcNone}, man : SUBSET KcPath, pw : KcPassword \cup {KcNone},
             write : BOOLEAN]

KcTypeOK ==
    /\ kcFlock \in KcProc \cup {KcNone} /\ kcOpen \in BOOLEAN /\ kcDB \in KcPassword \cup {KcNone}
    /\ kcItem \in KcPassword \cup {KcNone} /\ kcVal \in [KcPath -> KcValue \cup {KcNone}] /\ kcMan \in SUBSET KcPath
    /\ kcRun \in [KcProc -> KcRecord] /\ kcForced \in BOOLEAN /\ kcLeftOpen \in BOOLEAN
    /\ kcAcked \in [KcPath -> {"ok", "open", "unheard"} \X (KcValue \cup {KcNone})]

\* What a call is about, by its operation and its step.
KcShape(r) ==
    /\ r.at = "idle" => r = KcIdle
    /\ r.op = "none" <=> r.at = "idle"
    /\ r.at \in {"create", "item", "repair"} => r.op = "init"
    /\ r.op \in {"get", "set", "delete"} => r.path \in KcPath
    /\ r.op = "set" => r.val \in KcValue
    /\ r.op \in {"get", "delete"} => r.val = KcNone
    /\ r.at = "store" => r.op \in {"set", "init"}
    /\ r.at = "erase" => r.op = "delete"
    /\ r.at = "save" => r.op \in {"set", "delete", "init"}
    /\ r.at \in {"create", "item"} => r.pw \in KcPassword

\* The password of a call: the unlock item, and under the unlocked keychain the
\* one it was created with; Init's, the one it creates the keychain with.
KcPasswords(r) ==
    /\ r.at \in KcInside \cup {"unlock"} => r.pw = kcItem /\ r.pw # KcNone
    /\ r.at \in KcInside => kcDB = r.pw
    /\ r.at = "create" /\ r.write /\ ~kcForced => kcDB = KcNone
    /\ r.at = "item" /\ ~kcForced => kcDB = r.pw

\* What a call has changed so far: its path promises nothing, and the manifest it
\* has loaded is the one that is stored.
KcChanges(r) ==
    /\ r.at \in {"load", "save"} /\ r.op = "set" =>
          kcAcked[r.path][1] = "unheard" \/ (kcAcked[r.path][1] = "open" /\ kcVal[r.path] = r.val)
    /\ r.at = "save" /\ r.op = "delete" =>
          kcAcked[r.path][1] = "unheard" \/ (kcAcked[r.path][1] = "open" /\ kcVal[r.path] = KcNone)
    /\ r.at \in {"erase", "save"} => r.man = kcMan

KcProcInv(q) ==
    /\ KcShape(kcRun[q]) /\ KcPasswords(kcRun[q]) /\ KcChanges(kcRun[q])
    /\ kcRun[q].at \in KcHeld => kcFlock = q
    /\ kcRun[q].op = "init" => \A o \in KcProc : o # q => kcRun[o].at = "idle"

\* The keychain is open because its lock's holder is at work, or was left open.
KcOpenInv == kcOpen /\ ~kcLeftOpen => kcFlock \in KcProc /\ kcRun[kcFlock].at \in KcInside

KcInv == KcTypeOK /\ (\A q \in KcProc : KcProcInv(q)) /\ KcOpenInv /\ KcNeverOrphaned /\ KcAckedStored

\* A process makes a step.  Under the file lock, or as Init, it is the only one at
\* work; otherwise it changes nothing that others see.
LEMMA KcStep ==
    ASSUME KcInv, NEW q \in KcProc, NEW r \in KcRecord, kcRun' = [kcRun EXCEPT ![q] = r],
           kcFlock' \in KcProc \cup {KcNone}, kcOpen' \in BOOLEAN, kcDB' \in KcPassword \cup {KcNone},
           kcItem' \in KcPassword \cup {KcNone}, kcVal' \in [KcPath -> KcValue \cup {KcNone}], kcMan' \in SUBSET KcPath,
           kcForced' \in BOOLEAN, kcLeftOpen' \in BOOLEAN, kcAcked' \in [KcPath -> {"ok", "open", "unheard"} \X (KcValue \cup {KcNone})],
           KcShape(r), KcPasswords(r)', KcChanges(r)', r.at \in KcHeld => kcFlock' = q,
           \/ kcRun[q].at \in KcHeld /\ UNCHANGED <<kcDB, kcItem, kcForced>>
           \/ kcRun[q].op = "init"
           \/ UNCHANGED <<kcDB, kcItem, kcForced, kcVal, kcMan, kcAcked>>
           \/ KcQuiet(q) /\ UNCHANGED <<kcDB, kcItem, kcVal, kcMan, kcAcked>>,
           \/ kcFlock' = kcFlock
           \/ kcFlock = q /\ kcFlock' = KcNone
           \/ kcFlock = KcNone /\ kcFlock' = q,
           r.op = "init" => kcRun[q].op = "init" \/ KcQuiet(q),
           r.at = "idle" \/ kcRun[q].at # "idle" \/ ~KcInitRuns,
           KcOpenInv', KcNeverOrphaned', KcAckedStored'
    PROVE  KcInv'
  <1>1. kcRun'[q] = r /\ \A o \in KcProc : o # q => kcRun'[o] = kcRun[o]
    BY DEF KcInv, KcTypeOK
  <1>2. KcTypeOK'
    BY DEF KcInv, KcTypeOK
  <1>3. ASSUME NEW o \in KcProc PROVE KcProcInv(o)'
    <2>1. CASE o = q
      <3>1. (kcRun'[q].op = "init" => \A s \in KcProc : s # q => kcRun'[s].at = "idle")
        BY <1>1 DEF KcInv, KcProcInv, KcQuiet, KcAt
      <3> QED BY <1>1, <2>1, <3>1 DEF KcProcInv, KcShape, KcPasswords, KcChanges
    <2>2. CASE o # q
      <3>1. kcRun'[o] = kcRun[o] /\ KcProcInv(o)
        BY <1>1, <2>2 DEF KcInv
      <3>2. kcRun'[o].at \in KcHeld => kcFlock' = o
        BY <2>2, <3>1, KcAssumption DEF KcProcInv
      <3>3. kcRun'[o].op = "init" => \A s \in KcProc : s # o => kcRun'[s].at = "idle"
        <4>1. SUFFICES ASSUME kcRun[o].op = "init" PROVE r.at = "idle"
          BY <1>1, <3>1 DEF KcProcInv
        <4>2. KcInitRuns /\ kcRun[q].at = "idle"
          BY <2>2, <3>1, <4>1 DEF KcProcInv, KcInitRuns
        <4> QED BY <4>2
      <3>4. CASE UNCHANGED <<kcDB, kcItem, kcForced, kcVal, kcMan, kcAcked>>
        BY <3>1, <3>2, <3>3, <3>4 DEF KcProcInv, KcShape, KcPasswords, KcChanges
      <3>5. CASE kcRun[q].at \in KcHeld /\ UNCHANGED <<kcDB, kcItem, kcForced>>
        <4>1. kcFlock = q /\ kcRun[o].at \notin KcHeld
          BY <2>2, <3>1, <3>5 DEF KcInv, KcProcInv
        <4> QED BY <3>1, <3>2, <3>3, <3>5, <4>1 DEF KcProcInv, KcShape, KcPasswords, KcChanges, KcHeld, KcInside
      <3>6. CASE kcRun[q].op = "init" \/ KcQuiet(q)
        <4>1. kcRun[o].at = "idle"
          BY <2>2, <3>6 DEF KcInv, KcProcInv, KcQuiet, KcAt
        <4> QED BY <3>1, <3>2, <3>3, <4>1 DEF KcProcInv, KcShape, KcPasswords, KcChanges, KcHeld, KcInside
      <3> QED BY <3>4, <3>5, <3>6
    <2> QED BY <2>1, <2>2
  <1> QED BY <1>2, <1>3 DEF KcInv

\* Nothing of a process that does nothing.
LEMMA KcIdleRecord ==
    /\ KcIdle \in KcRecord /\ KcIdle.at = "idle" /\ KcIdle.op = "none" /\ KcIdle.path = KcNone /\ KcIdle.val = KcNone
    /\ KcShape(KcIdle) /\ KcIdle.at \notin KcHeld
  <1>1. KcIdle \in KcRecord /\ KcIdle.at = "idle" /\ KcIdle.op = "none" /\ KcIdle.path = KcNone /\ KcIdle.val = KcNone
    BY DEF KcIdle, KcRecord
  <1> QED BY <1>1 DEF KcShape, KcHeld, KcInside

\* A call ends, with or without its file lock; or the process dies in it.
LEMMA KcStops ==
    ASSUME KcInv, NEW q \in KcProc, kcRun' = [kcRun EXCEPT ![q] = KcIdle],
           UNCHANGED <<kcDB, kcItem, kcVal, kcMan, kcForced, kcAcked>>,
           kcFlock' = kcFlock \/ (kcFlock = q /\ kcFlock' = KcNone),
           kcOpen' \in BOOLEAN, kcLeftOpen' \in BOOLEAN,
           kcOpen' /\ ~kcLeftOpen' => kcOpen /\ ~kcLeftOpen /\ (kcFlock # q \/ kcRun[q].at \notin KcInside)
    PROVE  KcInv'
  <1>1. kcRun'[q] = KcIdle /\ \A o \in KcProc : o # q => kcRun'[o] = kcRun[o]
    BY DEF KcInv, KcTypeOK
  <1>2. KcOpenInv'
    BY <1>1 DEF KcInv, KcOpenInv
  <1>3. KcNeverOrphaned' /\ KcAckedStored'
    BY DEF KcInv, KcNeverOrphaned, KcUnlocks, KcAckedStored
  <1>5. kcFlock' \in KcProc \cup {KcNone}
    BY DEF KcInv, KcTypeOK
  <1>6. /\ kcDB' \in KcPassword \cup {KcNone} /\ kcItem' \in KcPassword \cup {KcNone}
        /\ kcVal' \in [KcPath -> KcValue \cup {KcNone}] /\ kcMan' \in SUBSET KcPath
        /\ kcForced' \in BOOLEAN /\ kcAcked' \in [KcPath -> {"ok", "open", "unheard"} \X (KcValue \cup {KcNone})]
    BY DEF KcInv, KcTypeOK
  <1>7. \/ kcFlock' = kcFlock
        \/ kcFlock = q /\ kcFlock' = KcNone
    OBVIOUS
  <1>8. KcIdle.at = "idle" /\ KcIdle.op = "none" /\ KcIdle \in KcRecord /\ KcShape(KcIdle) /\ KcIdle.at \notin KcHeld
    BY KcIdleRecord
  <1>9. UNCHANGED <<kcDB, kcItem, kcForced, kcVal, kcMan, kcAcked>>
    OBVIOUS
  <1>10. KcIdle.op # "init"
    BY <1>8
  <1>11. PICK r \in KcRecord : r = KcIdle
    BY <1>8
  <1>12. /\ kcRun' = [kcRun EXCEPT ![q] = r] /\ KcShape(r) /\ r.at \notin KcHeld /\ r.op # "init" /\ r.at = "idle"
    BY <1>8, <1>10, <1>11
  <1>13. KcPasswords(r)' /\ KcChanges(r)'
    BY <1>12 DEF KcPasswords, KcChanges, KcInside, KcHeld
  <1>14. kcFlock' \in KcProc \cup {KcNone} /\ kcOpen' \in BOOLEAN /\ kcLeftOpen' \in BOOLEAN
    BY <1>5
  <1> QED BY <1>2, <1>3, <1>6, <1>7, <1>9, <1>12, <1>13, <1>14, KcStep, Zenon
\* A call moves on to its step s and keeps the rest of its state.
LEMMA KcMoves ==
    ASSUME KcInv, NEW q \in KcProc, NEW s \in KcHeld \cup {"idle", "flock", "create", "item", "repair"}, KcTo(q, s)
    PROVE  \E r \in KcRecord : /\ kcRun' = [kcRun EXCEPT ![q] = r] /\ r.at = s
                               /\ r.op = kcRun[q].op /\ r.path = kcRun[q].path /\ r.val = kcRun[q].val
                               /\ r.man = kcRun[q].man /\ r.pw = kcRun[q].pw /\ r.write = kcRun[q].write
  <1>1. PICK b \in KcRecord : b = kcRun[q]
    BY DEF KcInv, KcTypeOK
  <1>2. PICK r : r = [b EXCEPT !.at = s]
    OBVIOUS
  <1>3. r \in KcRecord /\ r.at = s /\ r.op = b.op /\ r.path = b.path /\ r.val = b.val /\ r.man = b.man /\ r.pw = b.pw /\ r.write = b.write
    BY <1>1, <1>2 DEF KcRecord
  <1>4. kcRun' = [kcRun EXCEPT ![q] = r]
    BY <1>1, <1>2 DEF KcTo
  <1> QED BY <1>1, <1>3, <1>4

\* A call moves on and stores nothing.
LEMMA KcGoes ==
    ASSUME KcInv, NEW q \in KcProc, NEW r \in KcRecord, kcRun' = [kcRun EXCEPT ![q] = r],
           UNCHANGED <<kcDB, kcItem, kcForced, kcVal, kcMan, kcAcked, kcLeftOpen>>,
           kcRun[q].at # "idle", r.op = kcRun[q].op, KcShape(r), KcPasswords(r), KcChanges(r),
           kcFlock' = kcFlock \/ (kcFlock = KcNone /\ kcFlock' = q), r.at \in KcHeld => kcFlock' = q,
           kcOpen' = kcOpen \/ (kcOpen' = TRUE /\ r.at \in KcInside),
           kcRun[q].at \in KcInside => r.at \in KcInside
    PROVE  KcInv'
  <1>1. kcRun'[q] = r /\ \A o \in KcProc : o # q => kcRun'[o] = kcRun[o]
    BY DEF KcInv, KcTypeOK
  <1>2. KcOpenInv'
    BY <1>1, KcAssumption DEF KcInv, KcOpenInv, KcHeld
  <1>3. KcNeverOrphaned' /\ KcAckedStored'
    BY DEF KcInv, KcNeverOrphaned, KcUnlocks, KcAckedStored
  <1>4. KcPasswords(r)'
    BY DEF KcPasswords
  <1>5. KcChanges(r)'
    BY DEF KcChanges
  <1>6. kcFlock' \in KcProc \cup {KcNone} /\ kcOpen' \in BOOLEAN /\ kcLeftOpen' \in BOOLEAN
    BY DEF KcInv, KcTypeOK
  <1>7. /\ kcDB' \in KcPassword \cup {KcNone} /\ kcItem' \in KcPassword \cup {KcNone}
        /\ kcVal' \in [KcPath -> KcValue \cup {KcNone}] /\ kcMan' \in SUBSET KcPath
        /\ kcForced' \in BOOLEAN /\ kcAcked' \in [KcPath -> {"ok", "open", "unheard"} \X (KcValue \cup {KcNone})]
    BY DEF KcInv, KcTypeOK
  <1>8. r.op = "init" => kcRun[q].op = "init"
    OBVIOUS
  <1>9. UNCHANGED <<kcDB, kcItem, kcForced, kcVal, kcMan, kcAcked>>
    OBVIOUS
  <1> QED BY <1>2, <1>3, <1>4, <1>5, <1>6, <1>7, <1>8, <1>9, KcStep, Zenon

\* The facts about the call at work that every action of it starts from.
LEMMA KcAtWork ==
    ASSUME KcInv, NEW q \in KcProc
    PROVE  /\ KcShape(kcRun[q]) /\ KcPasswords(kcRun[q]) /\ KcChanges(kcRun[q]) /\ kcRun[q] \in KcRecord
           /\ kcRun[q].at \in KcHeld => kcFlock = q
  BY DEF KcInv, KcTypeOK, KcProcInv

\* A call ends and leaves the keychain and its lock state as they are.
LEMMA KcGivesUp ==
    ASSUME KcInv, NEW q \in KcProc, kcRun' = [kcRun EXCEPT ![q] = KcIdle],
           kcFlock' = kcFlock \/ (kcFlock = q /\ kcFlock' = KcNone), kcRun[q].at \notin KcInside,
           UNCHANGED <<kcOpen, kcDB, kcItem, kcVal, kcMan, kcForced, kcLeftOpen, kcAcked>>
    PROVE  KcInv'
  <1>1. kcOpen' \in BOOLEAN /\ kcLeftOpen' \in BOOLEAN
    BY DEF KcInv, KcTypeOK
  <1>2. kcOpen' /\ ~kcLeftOpen' => kcOpen /\ ~kcLeftOpen /\ (kcFlock # q \/ kcRun[q].at \notin KcInside)
    OBVIOUS
  <1>3. UNCHANGED <<kcDB, kcItem, kcVal, kcMan, kcForced, kcAcked>>
    OBVIOUS
  <1> QED BY <1>1, <1>2, <1>3, KcStops, Zenon

\* The steps up to the unlocked keychain keep the invariant.
LEMMA KcOpening ==
    ASSUME KcInv, NEW q \in KcProc, KcAcquireFlock(q) \/ KcReadUnlockPassword(q) \/ KcUnlock(q)
    PROVE  KcInv'
  <1> USE KcAtWork
  <1>1. CASE KcAcquireFlock(q)
    <2>1. PICK r \in KcRecord : /\ kcRun' = [kcRun EXCEPT ![q] = r] /\ r.at = "password"
                                /\ r.op = kcRun[q].op /\ r.path = kcRun[q].path /\ r.val = kcRun[q].val
      BY <1>1, KcMoves DEF KcAcquireFlock, KcHeld
    <2>2. KcShape(r) /\ KcPasswords(r) /\ KcChanges(r)
      BY <1>1, <2>1 DEF KcAcquireFlock, KcAt, KcShape, KcPasswords, KcChanges, KcInside
    <2>3. /\ kcRun[q].at # "idle" /\ kcFlock = KcNone /\ kcFlock' = q /\ kcOpen' = kcOpen
          /\ UNCHANGED <<kcDB, kcItem, kcForced, kcVal, kcMan, kcAcked, kcLeftOpen>> /\ kcRun[q].at \notin KcInside
      BY <1>1 DEF KcAcquireFlock, KcAt, KcInside
    <2> QED BY <2>1, <2>2, <2>3, KcGoes, Zenon
  <1>2. CASE KcReadUnlockPassword(q)
    <2>1. /\ kcRun[q].at = "password" /\ kcRun[q].at # "idle" /\ kcFlock = q /\ kcOpen' = kcOpen
          /\ UNCHANGED <<kcOpen, kcDB, kcItem, kcVal, kcMan, kcForced, kcLeftOpen, kcAcked>> /\ kcRun[q].at \notin KcInside
      BY <1>2 DEF KcReadUnlockPassword, KcAt, KcInside, KcHeld
    <2>2. CASE kcRun' = [kcRun EXCEPT ![q] = KcIdle] /\ kcFlock' = KcNone
      BY <2>1, <2>2, KcGivesUp
    <2>3. CASE kcItem # KcNone /\ kcRun' = [kcRun EXCEPT ![q].at = "unlock", ![q].pw = kcItem] /\ UNCHANGED kcFlock
      <3>1. PICK b \in KcRecord : b = kcRun[q]
        OBVIOUS
      <3>2. PICK r : r = [b EXCEPT !.at = "unlock", !.pw = kcItem]
        OBVIOUS
      <3>3. kcItem \in KcPassword \cup {KcNone}
        BY DEF KcInv, KcTypeOK
      <3>4. r \in KcRecord /\ r.at = "unlock" /\ r.op = b.op /\ r.path = b.path /\ r.val = b.val /\ r.pw = kcItem
        BY <3>1, <3>2, <3>3, ZenonT(60) DEF KcRecord, KcHeld
      <3>5. kcRun' = [kcRun EXCEPT ![q] = r]
        BY <2>3, <3>1, <3>2 DEF KcInv, KcTypeOK
      <3>6. KcShape(r) /\ KcPasswords(r) /\ KcChanges(r) /\ r.op = kcRun[q].op
        BY <2>1, <2>3, <3>1, <3>4 DEF KcShape, KcPasswords, KcChanges, KcInside
      <3>7. kcFlock' = kcFlock /\ kcFlock' = q
        BY <2>1, <2>3
      <3>8. UNCHANGED <<kcDB, kcItem, kcForced, kcVal, kcMan, kcAcked, kcLeftOpen>>
        BY <2>1
      <3> QED BY <2>1, <3>4, <3>5, <3>6, <3>7, <3>8, KcGoes, Zenon
    <2> QED BY <1>2, <2>2, <2>3 DEF KcReadUnlockPassword
  <1>3. CASE KcUnlock(q)
    <2>1. /\ kcRun[q].at = "unlock" /\ kcRun[q].at # "idle" /\ kcFlock = q
          /\ UNCHANGED <<kcDB, kcItem, kcVal, kcMan, kcForced, kcLeftOpen, kcAcked>> /\ kcRun[q].at \notin KcInside
      BY <1>3 DEF KcUnlock, KcAt, KcInside, KcHeld
    <2>2. CASE kcRun' = [kcRun EXCEPT ![q] = KcIdle] /\ kcFlock' = KcNone /\ UNCHANGED kcOpen
      BY <2>1, <2>2, KcGivesUp
    <2>3. CASE /\ KcUnlocks(kcRun[q].pw) /\ kcOpen' = TRUE /\ UNCHANGED kcFlock
               /\ KcTo(q, IF kcRun[q].op = "set" \/ kcRun[q].op = "init" THEN "store" ELSE "load")
      <3>1. PICK s \in {"store", "load"} : /\ KcTo(q, s) /\ (s = "store" => kcRun[q].op \in {"set", "init"})
                                           /\ s = "load" => kcRun[q].op # "set"
        BY <2>3
      <3>2. PICK r \in KcRecord : /\ kcRun' = [kcRun EXCEPT ![q] = r] /\ r.at = s
                                  /\ r.op = kcRun[q].op /\ r.path = kcRun[q].path /\ r.val = kcRun[q].val /\ r.pw = kcRun[q].pw
        BY <3>1, KcMoves DEF KcHeld, KcInside
      <3>3. KcShape(r) /\ KcPasswords(r) /\ KcChanges(r) /\ r.at \in KcInside
        BY <2>1, <2>3, <3>1, <3>2 DEF KcShape, KcPasswords, KcChanges, KcInside, KcUnlocks
      <3>4. kcFlock' = kcFlock /\ kcFlock' = q /\ kcOpen' = TRUE
        BY <2>1, <2>3
      <3>5. UNCHANGED <<kcDB, kcItem, kcForced, kcVal, kcMan, kcAcked, kcLeftOpen>>
        BY <2>1
      <3> QED BY <2>1, <3>2, <3>3, <3>4, <3>5, KcGoes, Zenon
    <2> QED BY <1>3, <2>2, <2>3 DEF KcUnlock
  <1> QED BY <1>1, <1>2, <1>3

\* A call under the unlocked keychain goes on to lock it.
LEMMA KcLeaves ==
    ASSUME KcInv, NEW q \in KcProc, kcRun[q].at \in KcInside, KcTo(q, "lock"),
           UNCHANGED <<kcFlock, kcOpen, kcDB, kcItem, kcVal, kcMan, kcForced, kcLeftOpen, kcAcked>>
    PROVE  KcInv'
  <1>1. PICK r \in KcRecord : /\ kcRun' = [kcRun EXCEPT ![q] = r] /\ r.at = "lock"
                              /\ r.op = kcRun[q].op /\ r.path = kcRun[q].path /\ r.val = kcRun[q].val /\ r.pw = kcRun[q].pw
    BY KcMoves DEF KcHeld, KcInside
  <1>2. kcRun[q].at # "idle" /\ kcFlock = q
    BY KcAtWork DEF KcHeld, KcInside
  <1>3. KcShape(r) /\ KcPasswords(r) /\ KcChanges(r) /\ r.at \in KcInside
    BY <1>1, <1>2, KcAtWork DEF KcShape, KcPasswords, KcChanges, KcInside
  <1>4. kcFlock' = kcFlock /\ kcFlock' = q /\ kcOpen' = kcOpen /\ UNCHANGED <<kcDB, kcItem, kcForced, kcVal, kcMan, kcAcked, kcLeftOpen>>
    BY <1>2
  <1> QED BY <1>1, <1>2, <1>3, <1>4, KcGoes, Zenon

\* The steps under the unlocked keychain that store nothing keep the invariant.
LEMMA KcReading ==
    ASSUME KcInv, NEW q \in KcProc, KcLoadManifest(q) \/ KcGetOneValue(q)
    PROVE  KcInv'
  <1>1. CASE KcGetOneValue(q)
    BY <1>1, KcLeaves DEF KcGetOneValue, KcAt, KcInside
  <1>2. CASE KcLoadManifest(q)
    <2>1. /\ kcRun[q].at = "load" /\ kcRun[q].at # "idle" /\ kcFlock = q /\ kcRun[q].at \in KcInside
          /\ UNCHANGED <<kcFlock, kcOpen, kcDB, kcItem, kcVal, kcMan, kcForced, kcLeftOpen, kcAcked>>
      BY <1>2, KcAtWork DEF KcLoadManifest, KcAt, KcInside, KcHeld
    <2>2. CASE KcTo(q, "lock")
      BY <2>1, <2>2, KcLeaves
    <2>3. CASE kcRun' = [kcRun EXCEPT ![q].man = kcMan, ![q].at =
                 CASE kcRun[q].op = "get" -> IF kcRun[q].path \in kcMan THEN "value" ELSE "lock"
                   [] kcRun[q].op = "delete" -> IF kcRun[q].path \in kcMan THEN "erase" ELSE "lock"
                   [] OTHER -> "save"]
      <3>1. PICK b \in KcRecord : b = kcRun[q]
        BY KcAtWork
      <3>2. PICK s \in KcInside : /\ s = CASE b.op = "get" -> IF b.path \in kcMan THEN "value" ELSE "lock"
                                           [] b.op = "delete" -> IF b.path \in kcMan THEN "erase" ELSE "lock"
                                           [] OTHER -> "save"
        BY DEF KcInside
      <3>3. /\ s \in {"value", "lock", "erase", "save"} /\ (s = "erase" => b.op = "delete")
            /\ (s = "save" => b.op # "get" /\ b.op # "delete")
        BY <3>2
      <3>4. PICK r : r = [b EXCEPT !.man = kcMan, !.at = s]
        OBVIOUS
      <3>5. kcMan \in SUBSET KcPath
        BY DEF KcInv, KcTypeOK
      <3>6. /\ r \in KcRecord /\ r.at = s /\ r.op = b.op /\ r.path = b.path /\ r.val = b.val /\ r.pw = b.pw /\ r.man = kcMan
        BY <3>1, <3>3, <3>4, <3>5, ZenonT(60) DEF KcRecord, KcHeld, KcInside
      <3>7. kcRun' = [kcRun EXCEPT ![q] = r]
        BY <2>3, <3>1, <3>2, <3>4 DEF KcInv, KcTypeOK
      <3>8. KcShape(b) /\ KcPasswords(b) /\ KcChanges(b) /\ b.at = "load"
        BY <2>1, <3>1, KcAtWork
      <3>9. KcShape(r)
        BY <3>1, <3>3, <3>6, <3>8 DEF KcShape, KcRecord
      <3>10. KcPasswords(r) /\ KcChanges(r) /\ r.at \in KcInside
        BY <3>3, <3>6, <3>8 DEF KcPasswords, KcChanges, KcInside
      <3>11. /\ kcFlock' = kcFlock /\ kcFlock' = q /\ kcOpen' = kcOpen /\ r.op = kcRun[q].op
             /\ UNCHANGED <<kcDB, kcItem, kcForced, kcVal, kcMan, kcAcked, kcLeftOpen>>
        BY <2>1, <3>1, <3>6
      <3> QED BY <2>1, <3>6, <3>7, <3>9, <3>10, <3>11, KcGoes, Zenon
    <2> QED BY <1>2, <2>2, <2>3 DEF KcLoadManifest
  <1> QED BY <1>1, <1>2

\* A call stores under the unlocked keychain: the value, its removal or the manifest.
LEMMA KcWrites ==
    ASSUME KcInv, NEW q \in KcProc, NEW r \in KcRecord, kcRun' = [kcRun EXCEPT ![q] = r],
           UNCHANGED <<kcFlock, kcOpen, kcDB, kcItem, kcForced, kcLeftOpen>>,
           kcRun[q].at \in KcInside, r.at \in KcInside, r.op = kcRun[q].op, r.pw = kcRun[q].pw, KcShape(r), KcChanges(r)',
           kcVal' \in [KcPath -> KcValue \cup {KcNone}], kcMan' \in SUBSET KcPath,
           kcAcked' \in [KcPath -> {"ok", "open", "unheard"} \X (KcValue \cup {KcNone})], KcAckedStored'
    PROVE  KcInv'
  <1>1. kcRun'[q] = r /\ \A o \in KcProc : o # q => kcRun'[o] = kcRun[o]
    BY DEF KcInv, KcTypeOK
  <1>2. kcRun[q].at # "idle" /\ kcFlock = q /\ kcFlock' = q /\ kcRun[q].at \in KcHeld /\ r.at # "idle"
    BY KcAtWork DEF KcHeld, KcInside
  <1>3. KcOpenInv'
    BY <1>1, <1>2 DEF KcOpenInv
  <1>4. kcItem # KcNone /\ kcDB = kcItem /\ r.pw = kcItem
    BY KcAtWork DEF KcPasswords
  <1>5. KcNeverOrphaned'
    BY <1>4 DEF KcNeverOrphaned, KcUnlocks
  <1>6. KcPasswords(r)'
    BY <1>4 DEF KcPasswords, KcInside
  <1>7. kcFlock' \in KcProc \cup {KcNone} /\ kcOpen' \in BOOLEAN /\ kcLeftOpen' \in BOOLEAN
    BY DEF KcInv, KcTypeOK
  <1>8. kcDB' \in KcPassword \cup {KcNone} /\ kcItem' \in KcPassword \cup {KcNone} /\ kcForced' \in BOOLEAN
    BY DEF KcInv, KcTypeOK
  <1>9. UNCHANGED <<kcDB, kcItem, kcForced>> /\ kcFlock' = kcFlock /\ (r.op = "init" => kcRun[q].op = "init")
    OBVIOUS
  <1> QED BY <1>2, <1>3, <1>5, <1>6, <1>7, <1>8, <1>9, KcStep, Zenon

\* The step that writes a value or removes it: its path promises nothing until the
\* manifest is saved.
LEMMA KcChanging ==
    ASSUME KcInv, NEW q \in KcProc, KcStore(q) \/ KcErase(q)
    PROVE  KcInv'
  <1>1. /\ kcRun[q].at \in {"store", "erase"} /\ kcRun[q].at \in KcInside
        /\ UNCHANGED <<kcFlock, kcOpen, kcDB, kcItem, kcMan, kcForced, kcLeftOpen>>
    BY DEF KcStore, KcErase, KcAt, KcInside
  <1>2. CASE KcTo(q, "lock") /\ UNCHANGED <<kcVal, kcAcked>>
    BY <1>1, <1>2, KcLeaves
  <1>3. CASE KcStore(q) /\ kcRun[q].op = "init" /\ KcTo(q, "load") /\ UNCHANGED <<kcVal, kcAcked>>
    <2>1. PICK r \in KcRecord : /\ kcRun' = [kcRun EXCEPT ![q] = r] /\ r.at = "load"
                                /\ r.op = kcRun[q].op /\ r.path = kcRun[q].path /\ r.val = kcRun[q].val /\ r.pw = kcRun[q].pw
      BY <1>3, KcMoves DEF KcHeld, KcInside
    <2>2. kcRun[q].at # "idle" /\ kcFlock = q
      BY <1>1, KcAtWork DEF KcHeld, KcInside
    <2>3. KcShape(r) /\ KcPasswords(r) /\ KcChanges(r) /\ r.at \in KcInside
      BY <1>3, <2>1, <2>2, KcAtWork, <1>1 DEF KcShape, KcPasswords, KcChanges, KcInside
    <2>4. kcFlock' = kcFlock /\ kcFlock' = q /\ kcOpen' = kcOpen /\ UNCHANGED <<kcDB, kcItem, kcForced, kcVal, kcMan, kcAcked, kcLeftOpen>>
      BY <1>1, <1>3, <2>2
    <2> QED BY <2>1, <2>2, <2>3, <2>4, KcGoes, Zenon
  <1>4. ASSUME NEW s \in {"load", "save"}, NEW v \in KcValue \cup {KcNone}, NEW st \in {"open", "unheard"}, KcTo(q, s),
               kcVal' = [kcVal EXCEPT ![kcRun[q].path] = v],
               kcAcked' = [kcAcked EXCEPT ![kcRun[q].path] = <<st, KcNone>>],
               \/ s = "load" /\ kcRun[q].op = "set" /\ (st = "open" => v = kcRun[q].val)
               \/ s = "save" /\ kcRun[q].op = "delete" /\ (st = "open" => v = KcNone) /\ kcRun[q].at = "erase"
        PROVE  KcInv'
    <2>1. PICK r \in KcRecord : /\ kcRun' = [kcRun EXCEPT ![q] = r] /\ r.at = s
                                /\ r.op = kcRun[q].op /\ r.path = kcRun[q].path /\ r.val = kcRun[q].val
                                /\ r.man = kcRun[q].man /\ r.pw = kcRun[q].pw
      BY <1>4, KcMoves DEF KcHeld, KcInside
    <2>2. KcShape(kcRun[q]) /\ KcChanges(kcRun[q])
      BY KcAtWork
    <2>3. KcShape(r) /\ r.path \in KcPath /\ r.at \in KcInside
      BY <1>4, <2>1, <2>2 DEF KcShape, KcInside
    <2>4. /\ kcVal' \in [KcPath -> KcValue \cup {KcNone}] /\ kcVal'[r.path] = v
          /\ \A p \in KcPath : p # r.path => kcVal'[p] = kcVal[p]
      BY <1>4, <2>1, <2>3 DEF KcInv, KcTypeOK
    <2>5. /\ kcAcked' \in [KcPath -> {"ok", "open", "unheard"} \X (KcValue \cup {KcNone})] /\ kcAcked'[r.path] = <<st, KcNone>> /\ kcAcked'[r.path][1] = st
          /\ \A p \in KcPath : p # r.path => kcAcked'[p] = kcAcked[p]
      BY <1>4, <2>1, <2>3 DEF KcInv, KcTypeOK
    <2>6. kcMan' \in SUBSET KcPath /\ kcMan' = kcMan
      BY <1>1 DEF KcInv, KcTypeOK
    <2>7. KcAckedStored'
      BY <2>3, <2>4, <2>5, <2>6 DEF KcInv, KcAckedStored
    <2>8. r.at = "save" => r.man = kcMan'
      BY <1>4, <2>1, <2>2, <2>6 DEF KcChanges
    <2>9. KcChanges(r)'
      BY <1>4, <2>1, <2>4, <2>5, <2>8 DEF KcChanges
    <2>10. UNCHANGED <<kcFlock, kcOpen, kcDB, kcItem, kcForced, kcLeftOpen>>
      BY <1>1
    <2> QED BY <1>1, <2>1, <2>3, <2>4, <2>5, <2>6, <2>7, <2>9, <2>10, KcWrites, Zenon
  \* A value that is not written over or erased is written over by itself.
  <1>7. ASSUME kcRun[q].op # "init" PROVE kcRun[q].path \in KcPath
    BY <1>1, <1>7, KcAtWork DEF KcShape
  <1>8. ASSUME kcRun[q].op # "init", kcVal' = kcVal
        PROVE  \E v \in KcValue \cup {KcNone} : kcVal' = [kcVal EXCEPT ![kcRun[q].path] = v]
    <2>1. kcVal \in [KcPath -> KcValue \cup {KcNone}]
      BY DEF KcInv, KcTypeOK
    <2>2. kcVal = [kcVal EXCEPT ![kcRun[q].path] = kcVal[kcRun[q].path]] /\ kcVal[kcRun[q].path] \in KcValue \cup {KcNone}
      BY <1>7, <1>8, <2>1
    <2> QED BY <1>8, <2>2
  <1>5. CASE KcErase(q)
    <2>3. kcRun[q].op = "delete" /\ kcRun[q].at = "erase"
      BY <1>5, KcAtWork DEF KcErase, KcAt, KcShape
    <2>1. CASE /\ KcTo(q, "save") /\ kcVal' = [kcVal EXCEPT ![kcRun[q].path] = KcNone]
               /\ KcSays(q, <<"open", KcNone>>)
      BY <1>4, <2>1, <2>3 DEF KcSays
    <2>4. CASE KcTo(q, "save") /\ KcSays(q, <<"unheard", KcNone>>) /\ UNCHANGED kcVal
      BY <1>4, <1>8, <2>3, <2>4 DEF KcSays
    <2>2. CASE KcTo(q, "lock") /\ UNCHANGED <<kcVal, kcAcked>>
      BY <1>2, <2>2
    <2> QED BY <1>5, <2>1, <2>2, <2>4 DEF KcErase
  <1>6. CASE KcStore(q) /\ kcRun[q].op # "init"
    <2>1. kcRun[q].op = "set" /\ kcRun[q].val \in KcValue
      BY <1>6, KcAtWork DEF KcStore, KcAt, KcShape
    <2>2. CASE /\ KcTo(q, "load") /\ kcVal' = [kcVal EXCEPT ![kcRun[q].path] = kcRun[q].val]
               /\ KcSays(q, <<"open", KcNone>>)
      BY <1>4, <2>1, <2>2 DEF KcSays
    <2>3. CASE KcTo(q, "load") /\ KcSays(q, <<"unheard", KcNone>>) /\ UNCHANGED kcVal
      BY <1>4, <1>8, <2>1, <2>3 DEF KcSays
    <2>4. CASE KcTo(q, "lock") /\ UNCHANGED <<kcVal, kcAcked>>
      BY <1>2, <2>4
    <2> QED BY <1>6, <2>1, <2>2, <2>3, <2>4 DEF KcStore
  <1> QED BY <1>2, <1>3, <1>5, <1>6 DEF KcStore, KcSays

\* Saving the manifest: the path's value and its place in the manifest agree, and
\* the call reports them.
LEMMA KcSaving ==
    ASSUME KcInv, NEW q \in KcProc, KcSaveManifest(q)
    PROVE  KcInv'
  <1>1. /\ kcRun[q].at = "save" /\ kcRun[q].at \in KcInside /\ KcTo(q, "lock")
        /\ UNCHANGED <<kcFlock, kcOpen, kcDB, kcItem, kcVal, kcForced, kcLeftOpen>>
    BY DEF KcSaveManifest, KcAt, KcInside
  <1>2. CASE UNCHANGED <<kcMan, kcAcked>>
    BY <1>1, <1>2, KcLeaves
  <1>3. ASSUME NEW st \in {"ok", "unheard"}, NEW m \in {kcMan, KcNewManifest(q)}, kcMan' = m, KcSays(q, <<st, kcRun[q].val>>),
               st = "ok" => m = KcNewManifest(q) /\ kcAcked[kcRun[q].path][1] = "open"
        PROVE  KcInv'
    <2>1. PICK r \in KcRecord : /\ kcRun' = [kcRun EXCEPT ![q] = r] /\ r.at = "lock"
                                /\ r.op = kcRun[q].op /\ r.path = kcRun[q].path /\ r.val = kcRun[q].val
                                /\ r.man = kcRun[q].man /\ r.pw = kcRun[q].pw
      BY <1>1, KcMoves DEF KcHeld, KcInside
    <2>2. KcShape(kcRun[q]) /\ KcChanges(kcRun[q])
      BY KcAtWork
    <2>3. KcShape(r) /\ r.at \in KcInside /\ r.man = kcMan
      BY <1>1, <2>1, <2>2 DEF KcShape, KcInside, KcChanges
    <2>4. KcChanges(r)'
      BY <2>1 DEF KcChanges
    <2>5. kcVal' = kcVal /\ kcVal' \in [KcPath -> KcValue \cup {KcNone}] /\ UNCHANGED <<kcFlock, kcOpen, kcDB, kcItem, kcForced, kcLeftOpen>>
      BY <1>1 DEF KcInv, KcTypeOK
    <2>6. kcMan \in SUBSET KcPath
      BY DEF KcInv, KcTypeOK
    <2>7. CASE r.op = "init"
      <3>1. kcMan' = kcMan /\ kcAcked' = kcAcked
        BY <1>3, <2>1, <2>3, <2>7 DEF KcNewManifest, KcSays
      <3> QED BY <1>2, <3>1
    <2>8. CASE r.op # "init"
      <3>1. r.path \in KcPath /\ r.op \in {"set", "delete"} /\ (st = "ok" => kcVal[r.path] = r.val)
            /\ (r.op = "set" <=> r.val # KcNone) /\ r.val \in KcValue \cup {KcNone}
        BY <1>1, <1>3, <2>1, <2>2, <2>8, KcAssumption DEF KcShape, KcChanges
      <3>2. /\ kcMan' \in SUBSET KcPath /\ \A p \in KcPath : p # r.path => (p \in kcMan' <=> p \in kcMan)
            /\ st = "ok" => (r.path \in kcMan' <=> r.val # KcNone)
        <4>3. CASE m = kcMan /\ st # "ok"
          BY <1>3, <2>6, <4>3
        <4>4. CASE m = KcNewManifest(q)
         <5>1. CASE r.op = "set"
           BY <1>3, <2>1, <2>3, <2>6, <3>1, <4>4, <5>1 DEF KcNewManifest
         <5>2. CASE r.op = "delete"
           BY <1>3, <2>1, <2>3, <2>6, <3>1, <4>4, <5>2 DEF KcNewManifest
         <5> QED BY <3>1, <5>1, <5>2
        <4> QED BY <1>3, <4>3, <4>4
      <3>3. /\ kcAcked' \in [KcPath -> {"ok", "open", "unheard"} \X (KcValue \cup {KcNone})] /\ kcAcked'[r.path] = <<st, r.val>>
            /\ kcAcked'[r.path][1] = st /\ kcAcked'[r.path][2] = r.val
            /\ \A p \in KcPath : p # r.path => kcAcked'[p] = kcAcked[p]
        BY <1>3, <2>1, <2>8, <3>1 DEF KcInv, KcTypeOK, KcSays
      <3>4. KcAckedStored'
        BY <2>5, <3>1, <3>2, <3>3 DEF KcInv, KcAckedStored
      <3> QED BY <1>1, <2>1, <2>3, <2>4, <2>5, <3>2, <3>3, <3>4, KcWrites, Zenon
    <2> QED BY <2>7, <2>8
  <1>4. CASE /\ kcMan' = KcNewManifest(q)
             /\ KcSays(q, <<IF kcAcked[kcRun[q].path][1] = "open" THEN "ok" ELSE "unheard", kcRun[q].val>>)
    <2>1. CASE kcAcked[kcRun[q].path][1] = "open"
      BY <1>3, <1>4, <2>1
    <2>2. CASE kcAcked[kcRun[q].path][1] # "open"
      BY <1>3, <1>4, <2>2
    <2> QED BY <2>1, <2>2
  <1>5. CASE UNCHANGED kcMan /\ KcSays(q, <<"unheard", kcRun[q].val>>)
    BY <1>3, <1>5
  <1> QED BY <1>2, <1>4, <1>5 DEF KcSaveManifest

\* The keychain is locked again and the file lock released; Init goes on to repair
\* the access lists, every other call is over.
LEMMA KcLocking ==
    ASSUME KcInv, NEW q \in KcProc, KcLock(q)
    PROVE  KcInv'
  <1>1. /\ kcRun[q].at = "lock" /\ kcFlock = q /\ kcFlock' = KcNone /\ kcRun[q].at # "idle"
        /\ UNCHANGED <<kcDB, kcItem, kcVal, kcMan, kcForced, kcAcked>>
    BY KcAtWork DEF KcLock, KcReturn, KcAt, KcHeld, KcInside
  <1>2. kcOpen' \in BOOLEAN /\ kcLeftOpen' \in BOOLEAN /\ ~(kcOpen' /\ ~kcLeftOpen')
    BY DEF KcLock, KcInv, KcTypeOK
  <1>3. CASE kcRun[q].op # "init"
    <2>1. kcRun' = [kcRun EXCEPT ![q] = KcIdle]
      BY <1>3 DEF KcLock, KcReturn, KcInv, KcTypeOK
    <2> QED BY <1>1, <1>2, <2>1, KcStops, Zenon
  <1>4. CASE kcRun[q].op = "init"
    <2>1. KcTo(q, "repair")
      BY <1>4 DEF KcLock, KcReturn, KcTo, KcInv, KcTypeOK
    <2>2. PICK r \in KcRecord : kcRun' = [kcRun EXCEPT ![q] = r] /\ r.at = "repair" /\ r.op = "init"
      BY <1>4, <2>1, KcMoves
    <2>3. KcShape(r) /\ r.at \notin KcHeld
      BY <2>2 DEF KcShape, KcHeld, KcInside
    <2>4. KcPasswords(r)' /\ KcChanges(r)'
      BY <2>2 DEF KcPasswords, KcChanges, KcInside
    <2>5. KcOpenInv'
      BY <1>2 DEF KcOpenInv
    <2>6. KcNeverOrphaned' /\ KcAckedStored'
      BY <1>1 DEF KcInv, KcNeverOrphaned, KcUnlocks, KcAckedStored
    <2>7. /\ kcDB' \in KcPassword \cup {KcNone} /\ kcItem' \in KcPassword \cup {KcNone}
          /\ kcVal' \in [KcPath -> KcValue \cup {KcNone}] /\ kcMan' \in SUBSET KcPath
          /\ kcForced' \in BOOLEAN /\ kcAcked' \in [KcPath -> {"ok", "open", "unheard"} \X (KcValue \cup {KcNone})]
      BY <1>1 DEF KcInv, KcTypeOK
    <2>8. kcFlock' \in KcProc \cup {KcNone}
      BY <1>1
    <2> QED BY <1>1, <1>2, <1>4, <2>2, <2>3, <2>4, <2>5, <2>6, <2>7, <2>8, KcStep, Zenon
  <1> QED BY <1>3, <1>4

\* A call begins, or Init decides what it will do.
LEMMA KcStarts ==
    ASSUME KcInv, NEW q \in KcProc,
           \/ KcInit(q)
           \/ \E p \in KcPath, v \in KcValue : KcSet(q, p, v)
           \/ \E p \in KcPath : KcGet(q, p) \/ KcDelete(q, p)
    PROVE  KcInv'
  <1>1. ASSUME NEW r \in KcRecord, kcRun' = [kcRun EXCEPT ![q] = r], kcRun[q].at = "idle", r.at \notin KcHeld, ~KcInitRuns,
               UNCHANGED <<kcFlock, kcOpen, kcDB, kcItem, kcVal, kcMan, kcLeftOpen, kcAcked>>, kcForced' \in BOOLEAN,
               kcForced' = kcForced \/ (kcForced' = TRUE /\ KcQuiet(q)), r.op = "init" => KcQuiet(q),
               KcShape(r), r.at = "create" /\ r.write /\ ~kcForced' => kcDB' = KcNone, r.at # "item"
        PROVE  KcInv'
    <2>1. kcRun'[q] = r /\ \A o \in KcProc : o # q => kcRun'[o] = kcRun[o]
      BY <1>1 DEF KcInv, KcTypeOK
    <2>2. KcOpenInv'
      <3>1. kcRun[q].at \notin KcInside
        BY <1>1 DEF KcInside
      <3> QED BY <1>1, <2>1, <3>1 DEF KcInv, KcOpenInv
    <2>3. KcNeverOrphaned'
      BY <1>1 DEF KcInv, KcNeverOrphaned, KcUnlocks
    <2>4. KcAckedStored'
      BY <1>1 DEF KcInv, KcAckedStored
    <2>5. KcPasswords(r)' /\ KcChanges(r)'
      BY <1>1 DEF KcPasswords, KcChanges, KcInside, KcHeld
    <2>6. /\ kcDB' \in KcPassword \cup {KcNone} /\ kcItem' \in KcPassword \cup {KcNone}
          /\ kcVal' \in [KcPath -> KcValue \cup {KcNone}] /\ kcMan' \in SUBSET KcPath
          /\ kcAcked' \in [KcPath -> {"ok", "open", "unheard"} \X (KcValue \cup {KcNone})]
      BY <1>1 DEF KcInv, KcTypeOK
    <2>7. kcFlock' \in KcProc \cup {KcNone} /\ kcFlock' = kcFlock /\ kcOpen' \in BOOLEAN /\ kcLeftOpen' \in BOOLEAN
      BY <1>1 DEF KcInv, KcTypeOK
    <2>8. \/ UNCHANGED <<kcDB, kcItem, kcForced, kcVal, kcMan, kcAcked>>
          \/ KcQuiet(q) /\ UNCHANGED <<kcDB, kcItem, kcVal, kcMan, kcAcked>>
      BY <1>1
    <2> QED BY <1>1, <2>2, <2>3, <2>4, <2>5, <2>6, <2>7, <2>8, KcStep, Zenon
  <1>2. ASSUME NEW op \in {"get", "set", "delete"}, NEW p \in KcPath, NEW v \in KcValue \cup {KcNone}, KcBegin(q, op, p, v),
               op = "set" <=> v # KcNone
        PROVE  KcInv'
    <2>1. PICK r : r = [KcIdle EXCEPT !.at = "flock", !.op = op, !.path = p, !.val = v]
      OBVIOUS
    <2>2. r \in KcRecord /\ r.at = "flock" /\ r.op = op /\ r.path = p /\ r.val = v
      BY <2>1 DEF KcIdle, KcRecord
    <2>3. kcRun' = [kcRun EXCEPT ![q] = r] /\ ~KcInitRuns /\ kcRun[q].at = "idle" /\ kcForced' = kcForced
      BY <1>2, <2>1 DEF KcBegin, KcAt
    <2>4. UNCHANGED <<kcFlock, kcOpen, kcDB, kcItem, kcVal, kcMan, kcLeftOpen, kcAcked>>
      BY <1>2 DEF KcBegin
    <2>5. KcShape(r) /\ r.at \notin KcHeld
      BY <1>2, <2>2 DEF KcShape, KcHeld, KcInside
    <2>6. kcForced' \in BOOLEAN
      BY <2>3 DEF KcInv, KcTypeOK
    <2> QED BY <1>1, <2>2, <2>3, <2>4, <2>5, <2>6
  <1>3. CASE KcInit(q)
    <2>1. kcRun[q].at = "idle" /\ KcQuiet(q) /\ UNCHANGED <<kcFlock, kcOpen, kcDB, kcItem, kcVal, kcMan, kcLeftOpen, kcAcked>>
      BY <1>3 DEF KcInit, KcAt
    <2>2. ~KcInitRuns
      <3>1. ASSUME NEW o \in KcProc PROVE kcRun[o].op # "init"
        <4>1. kcRun[o].at = "idle"
          BY <2>1 DEF KcQuiet, KcAt
        <4> QED BY <4>1, KcAtWork DEF KcShape
      <3> QED BY <3>1 DEF KcInitRuns
    <2>3. PICK pw \in KcPassword, w \in BOOLEAN :
            /\ kcRun' = [kcRun EXCEPT ![q] = [KcIdle EXCEPT !.op = "init", !.at = "create", !.pw = pw, !.write = w]]
            /\ kcForced' = kcForced \/ kcForced' = TRUE
            /\ w /\ ~kcForced' => kcDB = KcNone
      <3>1. kcItem \in KcPassword \cup {KcNone}
        BY DEF KcInv, KcTypeOK
      <3> QED BY <1>3, <3>1 DEF KcInit, KcSeenItem
    <2>4. PICK r : r = [KcIdle EXCEPT !.op = "init", !.at = "create", !.pw = pw, !.write = w]
      OBVIOUS
    <2>5. r \in KcRecord /\ r.at = "create" /\ r.op = "init" /\ r.pw = pw /\ r.write = w
      BY <2>4 DEF KcIdle, KcRecord
    <2>6. KcShape(r) /\ r.at \notin KcHeld
      BY <2>5 DEF KcShape, KcHeld, KcInside
    <2>7. kcForced' \in BOOLEAN
      BY <2>3 DEF KcInv, KcTypeOK
    <2>8. r.at = "create" /\ r.write /\ ~kcForced' => kcDB' = KcNone
      BY <2>1, <2>3, <2>5
    <2> QED BY <1>1, <2>1, <2>2, <2>3, <2>4, <2>5, <2>6, <2>7, <2>8
  <1>4. CASE \E p \in KcPath, v \in KcValue : KcSet(q, p, v)
    BY <1>2, <1>4, KcAssumption DEF KcSet
  <1>5. CASE \E p \in KcPath : KcGet(q, p) \/ KcDelete(q, p)
    BY <1>2, <1>5 DEF KcGet, KcDelete
  <1> QED BY <1>3, <1>4, <1>5

\* Init, alone at work: it creates the keychain with the password it then writes as
\* the unlock item, or stops between the two.
LEMMA KcCreating ==
    ASSUME KcInv, NEW q \in KcProc, KcCreate(q) \/ KcWriteUnlockItem(q)
    PROVE  KcInv'
  <1>1. /\ kcRun[q].at \in {"create", "item"} /\ UNCHANGED <<kcFlock, kcOpen, kcVal, kcMan, kcForced, kcLeftOpen, kcAcked>>
    BY DEF KcCreate, KcWriteUnlockItem, KcAt
  <1>2. /\ kcRun[q].op = "init" /\ kcRun[q].pw \in KcPassword /\ kcRun[q].at \notin KcInside /\ kcRun[q].at # "idle"
    BY <1>1, KcAtWork DEF KcShape, KcInside
  <1>3. CASE kcRun' = [kcRun EXCEPT ![q] = KcIdle] /\ UNCHANGED <<kcDB, kcItem>>
    <2>1. UNCHANGED <<kcOpen, kcDB, kcItem, kcVal, kcMan, kcForced, kcLeftOpen, kcAcked>> /\ kcFlock' = kcFlock
      BY <1>1, <1>3
    <2> QED BY <1>2, <1>3, <2>1, KcGivesUp, Zenon
  <1>4. ASSUME NEW s \in {"item", "flock"}, KcTo(q, s), kcDB' \in KcPassword \cup {KcNone}, kcItem' \in KcPassword \cup {KcNone},
               s = "item" /\ ~kcForced => kcDB' = kcRun[q].pw, KcNeverOrphaned'
        PROVE  KcInv'
    <2>1. PICK r \in KcRecord : /\ kcRun' = [kcRun EXCEPT ![q] = r] /\ r.at = s /\ r.op = "init" /\ r.pw = kcRun[q].pw
      BY <1>2, <1>4, KcMoves
    <2>2. KcShape(r) /\ r.at \notin KcHeld
      BY <1>2, <2>1 DEF KcShape, KcHeld, KcInside
    <2>3. KcPasswords(r)' /\ KcChanges(r)'
      BY <1>1, <1>4, <2>1 DEF KcPasswords, KcChanges, KcInside
    <2>4. kcRun'[q] = r /\ \A o \in KcProc : o # q => kcRun'[o] = kcRun[o]
      BY <2>1 DEF KcInv, KcTypeOK
    <2>5. KcOpenInv'
      BY <1>1, <1>2, <2>4 DEF KcInv, KcOpenInv
    <2>6. KcAckedStored'
      BY <1>1 DEF KcInv, KcAckedStored
    <2>7. /\ kcVal' \in [KcPath -> KcValue \cup {KcNone}] /\ kcMan' \in SUBSET KcPath
          /\ kcForced' \in BOOLEAN /\ kcAcked' \in [KcPath -> {"ok", "open", "unheard"} \X (KcValue \cup {KcNone})]
      BY <1>1 DEF KcInv, KcTypeOK
    <2>8. kcFlock' \in KcProc \cup {KcNone} /\ kcFlock' = kcFlock /\ kcOpen' \in BOOLEAN /\ kcLeftOpen' \in BOOLEAN
      BY <1>1 DEF KcInv, KcTypeOK
    <2> QED BY <1>2, <1>4, <2>1, <2>2, <2>3, <2>5, <2>6, <2>7, <2>8, KcStep, Zenon
  <1>5. CASE KcCreate(q)
    <2>1. CASE kcDB' = (IF kcDB = KcNone THEN kcRun[q].pw ELSE kcDB) /\ KcTo(q, IF kcRun[q].write THEN "item" ELSE "flock")
      <3>1. kcItem' = kcItem /\ kcItem' \in KcPassword \cup {KcNone} /\ kcDB' \in KcPassword \cup {KcNone}
        BY <1>2, <1>5, <2>1 DEF KcCreate, KcInv, KcTypeOK
      <3>2. kcRun[q].at = "create" /\ KcPasswords(kcRun[q])
        BY <1>5, KcAtWork DEF KcCreate, KcAt
      <3>3. KcNeverOrphaned'
        <4>1. CASE kcDB = KcNone
          BY <1>1, <4>1 DEF KcInv, KcNeverOrphaned, KcUnlocks
        <4>2. CASE kcDB # KcNone
          BY <1>1, <2>1, <3>1, <4>2 DEF KcInv, KcNeverOrphaned, KcUnlocks
        <4> QED BY <4>1, <4>2
      <3>4. CASE kcRun[q].write
        BY <1>4, <2>1, <3>1, <3>2, <3>3, <3>4 DEF KcPasswords
      <3>5. CASE ~kcRun[q].write
        BY <1>4, <2>1, <3>1, <3>3, <3>5
      <3> QED BY <3>4, <3>5
    <2> QED BY <1>3, <1>5, <2>1 DEF KcCreate
  <1>6. CASE KcWriteUnlockItem(q)
    <2>1. CASE kcItem' = kcRun[q].pw /\ KcTo(q, "flock")
      <3>1. kcRun[q].at = "item" /\ KcPasswords(kcRun[q]) /\ kcDB' = kcDB
        BY <1>6, KcAtWork DEF KcWriteUnlockItem, KcAt
      <3>2. KcNeverOrphaned'
        BY <1>1, <1>2, <2>1, <3>1, KcAssumption DEF KcPasswords, KcNeverOrphaned, KcUnlocks
      <3>3. kcDB' \in KcPassword \cup {KcNone} /\ kcItem' \in KcPassword \cup {KcNone}
        BY <1>2, <2>1, <3>1 DEF KcInv, KcTypeOK
      <3> QED BY <1>4, <2>1, <3>2, <3>3
    <2> QED BY <1>3, <1>6, <2>1 DEF KcWriteUnlockItem
  <1> QED BY <1>5, <1>6

\* The keychain file is deleted while nobody is at work.
LEMMA KcRemoved ==
    ASSUME KcInv, KcFileRemoved
    PROVE  KcInv'
  <1>1. KcTypeOK'
    BY DEF KcInv, KcTypeOK, KcFileRemoved
  <1>2. ASSUME NEW q \in KcProc PROVE KcProcInv(q)'
    <2>1. kcRun'[q] = kcRun[q] /\ kcRun[q].at = "idle" /\ KcProcInv(q) /\ kcFlock' = kcFlock /\ kcRun' = kcRun
      BY DEF KcInv, KcFileRemoved, KcAt
    <2> QED BY <2>1 DEF KcProcInv, KcShape, KcPasswords, KcChanges, KcHeld, KcInside
  <1>3. KcOpenInv' /\ KcNeverOrphaned' /\ KcAckedStored'
    BY DEF KcFileRemoved, KcOpenInv, KcNeverOrphaned, KcAckedStored
  <1> QED BY <1>1, <1>2, <1>3 DEF KcInv

\* Every step keeps the invariant of the keychain.
LEMMA KcNextInv == KcInv /\ [KcNext]_kcVars => KcInv'
  <1> SUFFICES ASSUME KcInv, [KcNext]_kcVars PROVE KcInv'
    OBVIOUS
  <1>1. CASE UNCHANGED kcVars
    <2>1. KcTypeOK'
      BY <1>1 DEF KcInv, KcTypeOK, kcVars
    <2>2. ASSUME NEW q \in KcProc PROVE KcProcInv(q)'
      <3>1. KcProcInv(q)
        BY DEF KcInv
      <3> QED BY <1>1, <3>1 DEF kcVars, KcProcInv, KcShape, KcPasswords, KcChanges
    <2>3. KcOpenInv' /\ KcNeverOrphaned' /\ KcAckedStored'
      BY <1>1 DEF KcInv, kcVars, KcOpenInv, KcNeverOrphaned, KcUnlocks, KcAckedStored
    <2> QED BY <2>1, <2>2, <2>3 DEF KcInv
  <1>2. CASE KcFileRemoved
    BY <1>2, KcRemoved
  <1>3. ASSUME NEW q \in KcProc, KcRepair(q) PROVE KcInv'
    BY <1>3, KcGivesUp DEF KcRepair, KcAt, KcInside
  <1>4. ASSUME NEW q \in KcProc, KcDies(q) PROVE KcInv'
    <2>1. kcLeftOpen' \in BOOLEAN /\ kcOpen' \in BOOLEAN
      BY <1>4 DEF KcDies, KcInv, KcTypeOK
    <2>2. kcOpen' /\ ~kcLeftOpen' => kcOpen /\ ~kcLeftOpen /\ (kcFlock # q \/ kcRun[q].at \notin KcInside)
      BY <1>4 DEF KcDies
    <2>3. /\ kcRun' = [kcRun EXCEPT ![q] = KcIdle] /\ UNCHANGED <<kcDB, kcItem, kcVal, kcMan, kcForced, kcAcked>>
          /\ kcFlock' = kcFlock \/ (kcFlock = q /\ kcFlock' = KcNone)
      BY <1>4 DEF KcDies
    <2> QED BY <2>1, <2>2, <2>3, KcStops, Zenon
  <1> QED BY <1>1, <1>2, <1>3, <1>4, KcStarts, KcOpening, KcReading, KcChanging, KcSaving, KcLocking, KcCreating DEF KcNext

\* Whatever interleaves and wherever a process dies: the unlock item opens every
\* stored secret unless --force replaced it, the keychain is open only under its
\* file lock unless a lock command failed or its process died, and a reported Set
\* or Delete for which the security tool exited with 0 throughout holds in the value
\* and in the manifest (backend/keychain/keychain.go, init.go).
THEOREM KeychainStoreHolds == KcStart /\ [][KcNext]_kcVars => []KeychainHolds
  <1>1. KcStart => KcInv
    <2> SUFFICES ASSUME KcStart PROVE KcInv
      OBVIOUS
    <2>1. KcTypeOK
      BY KcIdleRecord DEF KcStart, KcTypeOK
    <2>2. ASSUME NEW q \in KcProc PROVE KcProcInv(q)
      BY KcIdleRecord DEF KcStart, KcProcInv, KcPasswords, KcChanges, KcHeld, KcInside
    <2>3. KcOpenInv /\ KcNeverOrphaned /\ KcAckedStored
      BY DEF KcStart, KcOpenInv, KcNeverOrphaned, KcAckedStored
    <2> QED BY <2>1, <2>2, <2>3 DEF KcInv
  <1>2. KcInv => KeychainHolds
    BY KcAssumption DEF KcInv, KcOpenInv, KeychainHolds, KcOpenOnlyUnderLock
  <1> QED BY <1>1, <1>2, KcNextInv, PTL

-----------------------------------------------------------------------------
\* The vault identity

ViSteps == {"idle", "loc", "loc2", "mloc", "mloc2", "mread", "compare", "store", "readback", "wref", "shred", "unlink", "unmark",
            "load", "wfile", "mark", "rmitem", "rmref", "rmmark", "ring", "derive", "write"}
ViOpenSteps == {"idle", "loc", "loc2", "mloc", "mloc2", "mread", "compare", "store", "readback", "wref", "shred", "unlink", "unmark", "load"}
ViMigSteps == {"mread", "compare", "store", "readback", "wref", "shred", "unlink", "unmark"}
ViRecord == [at : ViSteps, op : {"open", "bootstrap", "force"}, insecure : BOOLEAN, store : BOOLEAN, inRef : BOOLEAN,
             mig : BOOLEAN, id : Nat, acct : Nat]

ViTypeOK ==
    /\ viFile \in Nat /\ viMark \in BOOLEAN /\ viRef \in Nat /\ viSlot \in [ViItem -> Nat] /\ viRing \in Nat
    /\ viNew \in Nat /\ viCmd \in [ViProc -> ViRecord] /\ viCmds \in Nat /\ viTorn \in BOOLEAN /\ viOver \in BOOLEAN

\* The identity that the properties speak of.
ViLive == viRing # 0 /\ viRing \notin viGone /\ ~viOver

\* An item holds it that no command will take back: the owner of an item takes it
\* back only before it has referred to it.
ViPending(r) == r.at \in {"readback", "wref"}
ViSettled == \E i \in ViItem : /\ i <= viNew /\ viSlot[i] = viRing
                               /\ \A p \in ViProc : ViPending(viCmd[p]) => viCmd[p].acct # i

\* Which command is where.
ViShape(p, r) ==
    /\ r.at = "idle" => r.op = "open"
    /\ r.at # "idle" => (r.op = "open" <=> p # ViBooter)
    /\ r.op = "open" => r.at \in ViOpenSteps
    /\ r.at = "load" => r.op = "open"
    /\ r.mig => r.at \in ViMigSteps
    /\ r.at \in {"mread", "compare", "unmark"} => r.mig
    /\ r.at = "compare" => r.inRef
    /\ r.op = "open" /\ r.at \in ViMigSteps => r.mig
    /\ ~r.mig /\ r.at \in {"shred", "unlink"} => r.op = "force"
    /\ r.at \in {"rmitem", "rmref", "rmmark"} => r.op = "force" /\ ~r.mig

\* What a command may rely on: the item it writes is its own and not yet referred
\* to; a migration carries the live identity, or that is settled already, and the
\* file goes only once it is settled; removals and fresh identities happen only
\* where the live identity was given up or another command had moved it.
ViFacts(r) ==
    /\ ViPending(r) => r.acct \in ViItem /\ r.acct <= viNew /\ r.acct # viRef
    /\ r.at = "wref" => viSlot[r.acct] = r.id
    /\ ~viOver /\ r.inRef /\ r.at \in {"loc2", "mloc2", "mread", "compare"} => viRef # 0
    /\ ViLive /\ r.mig /\ r.at \in {"store", "readback", "wref", "compare"} => r.id = viRing \/ (viTorn /\ ViSettled)
    /\ ~viTorn /\ ~viOver /\ r.mig /\ r.at \in {"store", "readback", "wref", "compare"} =>
           viFile \in {r.id, 0, ViJunk} /\ (viFile \in {0, ViJunk} => viRef # 0)
    /\ ~viTorn /\ ~viOver /\ ~r.mig /\ r.at \in {"wfile", "store", "readback", "wref"} => viFile = 0 /\ viRef = 0
    /\ ~viOver /\ r.mig /\ r.at \in {"shred", "unlink"} => viRef # 0
    /\ ViLive /\ r.at \in {"shred", "unlink"} => ViSettled
    /\ ~viOver /\ r.at \in {"rmref", "rmmark"} => viFile = 0
    /\ ~viOver /\ r.at = "rmmark" => viRef = 0
    /\ r.at \in {"rmitem", "rmref", "rmmark"} \/ (r.at \in {"shred", "unlink"} /\ ~r.mig) => ~ViLive
    /\ ~r.mig /\ r.at \in {"wfile", "store", "readback", "wref"} => ~ViLive \/ (viTorn /\ ViSettled)
    /\ r.at \in {"derive", "write"} => viRing = 0
    /\ r.at = "write" => r.id # 0 /\ (viOver \/ r.id = LoadIdentity)

\* bootstrap and --force work alone.
ViAloneInv ==
    /\ viRef # 0 => viRef \in ViItem /\ viRef <= viNew
    /\ ~viOver /\ (viRing = 0 \/ viCmd[ViBooter].op = "force") => \A o \in ViOpener : viCmd[o].at = "idle"
    /\ viCmds = 0 => \A p \in ViProc : viCmd[p].at = "idle"

ViOwnInv == \A p, q \in ViProc : p # q /\ ViPending(viCmd[p]) /\ ViPending(viCmd[q]) => viCmd[p].acct # viCmd[q].acct
ViKeptInv == ViLive => viFile = viRing \/ ViSettled

\* While the identity is in both places, it is the same identity.
ViAgreeInv == ~viTorn /\ ~viOver /\ viRef # 0 /\ viFile \notin {0, ViJunk} => viSlot[viRef] \in {viFile, 0}

ViInv ==
    /\ ViTypeOK /\ ViAloneInv /\ ViOwnInv /\ ViKeptInv /\ ViAgreeInv /\ IdentityLoads
    /\ \A p \in ViProc : ViShape(p, viCmd[p]) /\ ViFacts(viCmd[p])

\* Items that nobody takes back are kept by a step that touches no such item.
LEMMA ViSettledKept ==
    ASSUME ViInv, NEW q \in ViProc, NEW r \in ViRecord, viCmd' = [viCmd EXCEPT ![q] = r], viRing' = viRing,
           viNew' \in Nat, viNew <= viNew', ViSettled,
           ViPending(r) => r.acct > viNew \/ (ViPending(viCmd[q]) /\ r.acct = viCmd[q].acct),
           \A i \in ViItem : i <= viNew /\ viSlot'[i] # viSlot[i] => ViPending(viCmd[q]) /\ i = viCmd[q].acct
    PROVE  ViSettled'
  <1>1. viCmd'[q] = r /\ \A o \in ViProc : o # q => viCmd'[o] = viCmd[o]
    BY DEF ViInv, ViTypeOK
  <1>2. PICK i \in ViItem : /\ i <= viNew /\ viSlot[i] = viRing
                            /\ \A p \in ViProc : ViPending(viCmd[p]) => viCmd[p].acct # i
    BY DEF ViSettled
  <1>3. i \in Nat /\ viNew \in Nat
    BY ViAssumption DEF ViInv, ViTypeOK
  <1>4. viSlot'[i] = viRing' /\ i <= viNew'
    BY <1>2, <1>3
  <1>5. ASSUME NEW p \in ViProc, ViPending(viCmd'[p]) PROVE viCmd'[p].acct # i
    <2>1. CASE p # q
      BY <1>1, <1>2, <1>5, <2>1
    <2>2. CASE p = q
      <3>1. r.acct \in Nat /\ (r.acct > viNew \/ (ViPending(viCmd[q]) /\ r.acct = viCmd[q].acct))
        BY <1>1, <1>5, <2>2 DEF ViRecord
      <3> QED BY <1>1, <1>2, <1>3, <2>2, <3>1
    <2> QED BY <2>1, <2>2
  <1>6. ViPending(viCmd[q])' <=> ViPending(viCmd'[q])
    BY DEF ViPending
  <1> QED BY <1>4, <1>5 DEF ViSettled, ViPending

\* What is known of a command.
LEMMA ViCommand ==
    ASSUME ViInv, NEW q \in ViProc
    PROVE  \E c \in ViRecord : c = viCmd[q] /\ ViShape(q, c) /\ ViFacts(c)
  <1>1. PICK c \in ViRecord : c = viCmd[q]
    BY DEF ViInv, ViTypeOK
  <1>2. ViFacts(viCmd[q]) /\ ViShape(q, viCmd[q])
    BY DEF ViInv
  <1>3. ViFacts(c)
    BY <1>1, <1>2 DEF ViFacts, ViPending
  <1> QED BY <1>1, <1>2, <1>3

ViAloneFor(q) == \A o \in ViProc : o # q => viCmd[o].at = "idle"

\* A command makes a step that brings no identity to life.
LEMMA ViStep ==
    ASSUME ViInv, NEW q \in ViProc, NEW r \in ViRecord, viCmd' = [viCmd EXCEPT ![q] = r],
           viFile' \in Nat, viMark' \in BOOLEAN, viRef' \in Nat, viSlot' \in [ViItem -> Nat], viRing' \in Nat, viNew' \in Nat,
           viCmds' \in Nat, viTorn' \in BOOLEAN, viOver' \in BOOLEAN,
           viNew <= viNew', viTorn => viTorn', viOver => viOver',
           ViLive' => ViLive /\ viRing' = viRing, ViLive' /\ ViSettled => ViSettled',
           viRing' = viRing \/ q = ViBooter,
           viCmd[q].at # "idle" \/ UNCHANGED <<viFile, viRef, viSlot>>,
           viRef = 0 \/ viRef' # 0 \/ viOver' \/ ViAloneFor(q),
           \/ viTorn' \/ viOver' \/ ViAloneFor(q) \/ (viFile' = viFile /\ viRef' = viRef)
           \/ viRef' # 0 /\ viFile' \in {viFile, 0, ViJunk} /\ (viFile = 0 => viFile' = 0) /\ (viFile # 0 \/ viRef # 0)
           \/ q = ViBooter /\ viFile = 0 /\ viRef = 0,
           \A o \in ViProc : o # q /\ ViPending(viCmd[o]) =>
                 viSlot'[viCmd[o].acct] = viSlot[viCmd[o].acct] /\ viCmd[o].acct # viRef'
                 /\ (ViPending(r) => r.acct # viCmd[o].acct),
           ViShape(q, r), ViFacts(r)', ViAloneInv', ViKeptInv', ViAgreeInv', IdentityLoads'
    PROVE  ViInv'
  <1>1. viCmd'[q] = r /\ \A o \in ViProc : o # q => viCmd'[o] = viCmd[o]
    BY DEF ViInv, ViTypeOK
  <1>2. ViTypeOK'
    BY DEF ViInv, ViTypeOK
  <1>3. ViOwnInv'
    BY <1>1 DEF ViInv, ViOwnInv, ViPending
  <1>4. ASSUME NEW o \in ViProc PROVE ViShape(o, viCmd'[o]) /\ ViFacts(viCmd[o])'
    <2>1. CASE o = q
      BY <1>1, <2>1 DEF ViFacts, ViPending
    <2>2. CASE o # q
      <3>1. PICK c \in ViRecord : c = viCmd[o] /\ ViShape(o, c) /\ ViFacts(c)
        BY ViCommand
      <3>2. c = viCmd'[o]
        BY <1>1, <2>2, <3>1
      <3>3. c.at # "idle" => ~ViAloneFor(q)
        BY <2>2, <3>1 DEF ViAloneFor
      <3>4. ViPending(c) => /\ viSlot'[c.acct] = viSlot[c.acct] /\ c.acct # viRef' /\ c.acct \in ViItem /\ c.acct <= viNew'
        <4>1. ViPending(c) => c.acct \in ViItem /\ c.acct <= viNew
          BY <3>1 DEF ViFacts
        <4>2. viNew \in Nat /\ ViItem \subseteq Nat
          BY ViAssumption DEF ViInv, ViTypeOK
        <4> QED BY <2>2, <3>1, <4>1, <4>2 DEF ViPending
      <3>5. ~viOver' /\ c.inRef /\ c.at \in {"loc2", "mloc2", "mread", "compare"} => viRef' # 0
        BY <3>1, <3>3 DEF ViFacts
      <3>6. c.at \in {"derive", "write"} => viRing' = 0
        <4>1. c.at \in {"derive", "write"} => o = ViBooter
          BY <3>1 DEF ViShape, ViOpenSteps
        <4> QED BY <2>2, <3>1, <4>1 DEF ViFacts
      <3>7. (c.at = "write" \/ c.op = "force") /\ ~viOver' => viFile' = viFile /\ viRef' = viRef /\ viSlot' = viSlot
        <4> SUFFICES ASSUME c.at = "write" \/ c.op = "force", ~viOver' PROVE viFile' = viFile /\ viRef' = viRef /\ viSlot' = viSlot
          OBVIOUS
        <4>1. o = ViBooter /\ (viRing = 0 \/ viCmd[ViBooter].op = "force")
          BY <3>1 DEF ViShape, ViOpenSteps, ViFacts
        <4>2. q \in ViOpener /\ viCmd[q].at = "idle"
          BY <2>2, <4>1 DEF ViInv, ViAloneInv, ViProc
        <4>3. UNCHANGED <<viFile, viRef, viSlot>>
          BY <4>2
        <4> QED BY <4>3
      <3>8. c.at = "write" => c.id # 0 /\ (viOver' \/ c.id = LoadIdentity')
        BY <3>1, <3>7 DEF ViFacts, LoadIdentity
      <3>9. ViLive' /\ c.mig /\ c.at \in {"store", "readback", "wref", "compare"} => c.id = viRing' \/ (viTorn' /\ ViSettled')
        BY <3>1 DEF ViFacts
      <3>10. ViLive' /\ c.at \in {"shred", "unlink"} => ViSettled'
        BY <3>1 DEF ViFacts
      <3>11. ~viOver' /\ c.mig /\ c.at \in {"shred", "unlink"} => viRef' # 0
        BY <3>1, <3>3 DEF ViFacts
      <3>12. c.at \in {"rmitem", "rmref", "rmmark"} \/ (c.at \in {"shred", "unlink"} /\ ~c.mig) => ~ViLive'
        BY <3>1 DEF ViFacts
      <3>13. ~c.mig /\ c.at \in {"wfile", "store", "readback", "wref"} => ~ViLive' \/ (viTorn' /\ ViSettled')
        BY <3>1 DEF ViFacts
      <3>14. c.at = "wref" => viSlot'[c.acct] = c.id
        BY <3>1, <3>4 DEF ViFacts, ViPending
      <3>15. ~viTorn' /\ ~viOver' /\ c.mig /\ c.at \in {"store", "readback", "wref", "compare"} =>
                 viFile' \in {c.id, 0, ViJunk} /\ (viFile' \in {0, ViJunk} => viRef' # 0)
        BY <3>1, <3>3 DEF ViFacts
      <3>16. ~viTorn' /\ ~viOver' /\ ~c.mig /\ c.at \in {"wfile", "store", "readback", "wref"} => viFile' = 0 /\ viRef' = 0
        <4>1. ~c.mig /\ c.at \in {"wfile", "store", "readback", "wref"} => o = ViBooter
          BY <3>1 DEF ViShape, ViOpenSteps, ViMigSteps
        <4> QED BY <2>2, <3>1, <3>3, <4>1 DEF ViFacts
      <3>17. (~viOver' /\ c.at \in {"rmref", "rmmark"} => viFile' = 0) /\ (~viOver' /\ c.at = "rmmark" => viRef' = 0)
        BY <3>1, <3>7 DEF ViShape, ViFacts
      <3>18. ViFacts(c)'
        BY <3>4, <3>5, <3>6, <3>8, <3>9, <3>10, <3>11, <3>12, <3>13, <3>14, <3>15, <3>16, <3>17 DEF ViFacts, ViPending
      <3> QED BY <3>1, <3>2, <3>18 DEF ViFacts, ViPending
    <2> QED BY <2>1, <2>2
  <1> QED BY <1>2, <1>3, <1>4 DEF ViInv

ViQuietSteps == {"idle", "loc", "mloc", "mark", "ring", "load", "unmark"}

\* A command goes on without touching the identity: it may take back its own
\* item, to which nothing refers yet.
LEMMA ViMove ==
    ASSUME ViInv, NEW q \in ViProc, NEW r \in ViRecord, viCmd' = [viCmd EXCEPT ![q] = r], viCmd[q].at # "idle",
           viFile' = viFile, viRef' = viRef, viRing' = viRing, viCmds' = viCmds, viOver' = viOver,
           viMark' \in BOOLEAN, viNew' \in Nat, viNew <= viNew', viTorn' \in BOOLEAN, viTorn => viTorn', viGone \subseteq viGone',
           viSlot' \in [ViItem -> Nat],
           \A i \in ViItem : viSlot'[i] # viSlot[i] => ViPending(viCmd[q]) /\ i = viCmd[q].acct,
           ViPending(r) => ViPending(viCmd[q]) /\ r.acct = viCmd[q].acct,
           r.op = viCmd[q].op \/ r.op = "open", ViShape(q, r),
           r.at \in ViQuietSteps \/ ((ViSettled => ViSettled') => ViFacts(r)')
    PROVE  ViInv'
  <1>1. viCmd'[q] = r /\ \A o \in ViProc : o # q => viCmd'[o] = viCmd[o]
    BY DEF ViInv, ViTypeOK
  <1>2. ViSettled => ViSettled'
    BY ViSettledKept
  <1>3. PICK c \in ViRecord : c = viCmd[q] /\ ViShape(q, c) /\ ViFacts(c)
    BY ViCommand
  <1>4. ViFacts(r)'
    <2>1. CASE r.at \in ViQuietSteps
      BY <2>1 DEF ViFacts, ViPending, ViQuietSteps
    <2> QED BY <1>2, <2>1
  <1>5. ViLive' => ViLive /\ viRing' = viRing
    BY DEF ViLive
  <1>6. LoadIdentity' = LoadIdentity /\ (viRef # 0 => viSlot'[viRef] = viSlot[viRef])
    <2>1. ViPending(c) => c.acct # viRef
      BY <1>3 DEF ViFacts
    <2>2. viRef # 0 => viRef \in ViItem
      BY DEF ViInv, ViAloneInv
    <2>3. viRef # 0 => viSlot'[viRef] = viSlot[viRef]
      BY <1>3, <2>1, <2>2
    <2> QED BY <2>3 DEF LoadIdentity
  <1>7. IdentityLoads'
    BY <1>6 DEF ViInv, IdentityLoads
  <1>8. ViKeptInv'
    BY <1>2, <1>5 DEF ViInv, ViKeptInv
  <1>9. ViAgreeInv'
    BY <1>6 DEF ViInv, ViAgreeInv
  <1>10. ViAloneInv'
    <2>1. viRef' # 0 => viRef' \in ViItem /\ viRef' <= viNew'
      <3>1. viRef # 0 => viRef \in ViItem /\ viRef <= viNew
        BY DEF ViInv, ViAloneInv
      <3> QED BY <3>1, ViAssumption DEF ViInv, ViTypeOK
    <2>2. ~viOver' /\ (viRing' = 0 \/ viCmd'[ViBooter].op = "force") => \A o \in ViOpener : viCmd'[o].at = "idle"
      <3> SUFFICES ASSUME ~viOver, viRing = 0 \/ viCmd'[ViBooter].op = "force", NEW o \in ViOpener PROVE viCmd'[o].at = "idle"
        OBVIOUS
      <3>1. viCmd'[ViBooter].op = "force" => viCmd[ViBooter].op = "force"
        BY <1>1 DEF ViProc
      <3>2. \A x \in ViOpener : viCmd[x].at = "idle"
        BY <3>1 DEF ViInv, ViAloneInv
      <3> QED BY <1>1, <3>2 DEF ViProc
    <2>3. viCmds' # 0
      BY DEF ViInv, ViAloneInv
    <2> QED BY <2>1, <2>2, <2>3 DEF ViAloneInv
  <1>11. \A o \in ViProc : o # q /\ ViPending(viCmd[o]) =>
                 viSlot'[viCmd[o].acct] = viSlot[viCmd[o].acct] /\ viCmd[o].acct # viRef'
                 /\ (ViPending(r) => r.acct # viCmd[o].acct)
    <2> SUFFICES ASSUME NEW o \in ViProc, o # q, ViPending(viCmd[o])
                 PROVE  viSlot'[viCmd[o].acct] = viSlot[viCmd[o].acct] /\ viCmd[o].acct # viRef
                        /\ (ViPending(r) => r.acct # viCmd[o].acct)
      OBVIOUS
    <2>1. PICK d \in ViRecord : d = viCmd[o] /\ ViShape(o, d) /\ ViFacts(d)
      BY ViCommand
    <2>2. ViPending(c) => c.acct # d.acct
      BY <1>3, <2>1 DEF ViInv, ViOwnInv
    <2>3. d.acct \in ViItem /\ d.acct # viRef
      BY <2>1 DEF ViFacts
    <2> QED BY <1>3, <2>1, <2>2, <2>3
  <1>12. viRef' \in Nat /\ viFile' \in Nat /\ viRing' \in Nat /\ viCmds' \in Nat /\ viOver' \in BOOLEAN
    BY DEF ViInv, ViTypeOK
  <1> QED BY <1>2, <1>4, <1>5, <1>7, <1>8, <1>9, <1>10, <1>11, <1>12, ViStep

\* The record of a command that is over, or goes on after its migration.
LEMMA ViRestRecord ==
    /\ ViRest \in ViRecord /\ ViRest.at = "idle" /\ ViRest.op = "open" /\ ViRest.mig = FALSE
    /\ \A p \in ViProc : ViShape(p, ViRest)
    /\ ~ViPending(ViRest)
  BY DEF ViRest, ViRecord, ViSteps, ViShape, ViOpenSteps, ViMigSteps, ViPending

\* What a step leaves alone while a command stops or returns.
ViLeaves(q) ==
    /\ viCmd[q].at # "idle" /\ viFile' = viFile /\ viRef' = viRef /\ viRing' = viRing /\ viCmds' = viCmds /\ viOver' = viOver
    /\ viMark' \in BOOLEAN /\ viNew' = viNew /\ viTorn' \in BOOLEAN /\ (viTorn => viTorn') /\ viGone' = viGone
    /\ viSlot' \in [ViItem -> Nat]
    /\ \A i \in ViItem : viSlot'[i] # viSlot[i] => ViPending(viCmd[q]) /\ i = viCmd[q].acct

\* A command stops.
LEMMA ViStops ==
    ASSUME ViInv, NEW q \in ViProc, ViLeaves(q), ViStop(q)
    PROVE  ViInv'
  <1>1. PICK r \in ViRecord : r = ViRest
    BY ViRestRecord
  <1>2. viCmd' = [viCmd EXCEPT ![q] = r]
    BY <1>1 DEF ViStop
  <1>3. r.at = "idle" /\ r.op = "open" /\ ViShape(q, r) /\ ~ViPending(r) /\ r.at \in ViQuietSteps
    BY <1>1, ViRestRecord DEF ViQuietSteps
  <1>4. viNew' \in Nat /\ viNew <= viNew'
    BY DEF ViInv, ViTypeOK, ViLeaves
  <1> QED BY <1>2, <1>3, <1>4, ViMove DEF ViLeaves

\* A command goes on after its migration.
LEMMA ViGoesBack ==
    ASSUME ViInv, NEW q \in ViProc, ViLeaves(q), ViBack(q)
    PROVE  ViInv'
  <1>1. PICK c \in ViRecord : c = viCmd[q] /\ ViShape(q, c) /\ ViFacts(c)
    BY ViCommand
  <1>2. PICK r : r = [c EXCEPT !.mig = FALSE, !.id = 0, !.at = IF c.op = "open" THEN "load" ELSE "ring"]
    OBVIOUS
  <1>3. r \in ViRecord /\ r.mig = FALSE /\ r.op = c.op /\ r.at = IF c.op = "open" THEN "load" ELSE "ring"
    BY <1>2 DEF ViRecord, ViSteps
  <1>4. viCmd' = [viCmd EXCEPT ![q] = r]
    BY <1>1, <1>2 DEF ViBack
  <1>5. r.at \in ViQuietSteps /\ ~ViPending(r)
    BY <1>3 DEF ViQuietSteps, ViPending
  <1>6. ViShape(q, r)
    BY <1>1, <1>3 DEF ViShape, ViOpenSteps, ViMigSteps, ViLeaves
  <1>7. viNew' \in Nat /\ viNew <= viNew'
    BY DEF ViInv, ViTypeOK, ViLeaves
  <1> QED BY <1>1, <1>3, <1>4, <1>5, <1>6, <1>7, ViMove DEF ViLeaves

\* Location, first half.
LEMMA ViStatRef ==
    ASSUME ViInv, NEW q \in ViProc, StatRef(q)
    PROVE  ViInv'
  <1>1. PICK c \in ViRecord : c = viCmd[q] /\ ViShape(q, c) /\ ViFacts(c)
    BY ViCommand
  <1>2. PICK b \in BOOLEAN : b = (viRef # 0)
    BY Zenon
  <1>3. PICK r : r = [c EXCEPT !.inRef = b, !.at = IF c.at = "loc" THEN "loc2" ELSE "mloc2"]
    OBVIOUS
  <1>4. r \in ViRecord
    BY <1>1, <1>3, ZenonT(60) DEF ViRecord, ViSteps
  <1>5. r.mig = c.mig /\ r.op = c.op /\ r.at = IF c.at = "loc" THEN "loc2" ELSE "mloc2"
    BY <1>1, <1>3 DEF ViRecord, ViSteps
  <1>6. r.inRef <=> b
    BY <1>1, <1>3 DEF ViRecord, ViSteps
  <1>7. r \in ViRecord /\ r.mig = c.mig /\ r.op = c.op /\ (r.inRef <=> b) /\ r.at = IF c.at = "loc" THEN "loc2" ELSE "mloc2"
    BY <1>4, <1>5, <1>6
  <1>8. c.at \in {"loc", "mloc"} /\ viCmd' = [viCmd EXCEPT ![q] = r]
    BY <1>1, <1>3, <1>2 DEF StatRef
  <1>9. ViShape(q, r) /\ ~ViPending(r)
    BY <1>1, <1>7, <1>8 DEF ViShape, ViOpenSteps, ViMigSteps, ViPending
  <1>10. ViLeaves(q)
    BY <1>1, <1>8 DEF StatRef, ViLeaves, ViDisk, ViHist, ViInv, ViTypeOK
  <1>11. ViFacts(r)'
    BY <1>7, <1>8, <1>10, <1>2 DEF ViFacts, ViPending, ViLeaves
  <1>12. viNew' \in Nat /\ viNew <= viNew'
    BY <1>10 DEF ViInv, ViTypeOK, ViLeaves
  <1> QED BY <1>1, <1>7, <1>8, <1>9, <1>10, <1>11, <1>12, ViMove DEF ViLeaves

\* An opening command decides whether the identity has to move.
LEMMA ViSecure ==
    ASSUME ViInv, NEW q \in ViProc, SecureVaultIdentity(q)
    PROVE  ViInv'
  <1>1. PICK c \in ViRecord : c = viCmd[q] /\ ViShape(q, c) /\ ViFacts(c)
    BY ViCommand
  <1>2. PICK r : r = [c EXCEPT !.at = IF viFile = 0 \/ (~c.inRef /\ (viMark \/ c.insecure)) THEN "load" ELSE "mloc"]
    OBVIOUS
  <1>3. r \in ViRecord /\ r.mig = c.mig /\ r.op = c.op /\ r.at \in {"load", "mloc"}
    BY <1>1, <1>2 DEF ViRecord, ViSteps
  <1>4. c.at = "loc2" /\ c.op = "open" /\ viCmd' = [viCmd EXCEPT ![q] = r]
    BY <1>1, <1>2 DEF SecureVaultIdentity, ViGoto
  <1>5. ViShape(q, r) /\ ~ViPending(r) /\ r.at \in ViQuietSteps
    BY <1>1, <1>3, <1>4 DEF ViShape, ViOpenSteps, ViMigSteps, ViPending, ViQuietSteps
  <1>6. ViLeaves(q)
    BY <1>1, <1>4 DEF SecureVaultIdentity, ViLeaves, ViDisk, ViHist, ViInv, ViTypeOK
  <1>7. viNew' \in Nat /\ viNew <= viNew'
    BY <1>6 DEF ViInv, ViTypeOK, ViLeaves
  <1> QED BY <1>1, <1>3, <1>4, <1>5, <1>6, <1>7, ViMove DEF ViLeaves

\* MigrateToKeyring finds the identity in the file.
LEMMA ViMigLocate ==
    ASSUME ViInv, NEW q \in ViProc, MigLocate(q)
    PROVE  ViInv'
  <1>1. PICK c \in ViRecord : c = viCmd[q] /\ ViShape(q, c) /\ ViFacts(c)
    BY ViCommand
  <1>2. PICK r : r = [c EXCEPT !.at = "mread", !.mig = TRUE]
    OBVIOUS
  <1>3. r \in ViRecord /\ r.mig = TRUE /\ r.op = c.op /\ r.at = "mread" /\ r.inRef = c.inRef
    BY <1>1, <1>2, ZenonT(60) DEF ViRecord, ViSteps
  <1>4. c.at = "mloc2"
    BY <1>1 DEF MigLocate
  <1>5. ViLeaves(q)
    BY <1>1, <1>4 DEF MigLocate, ViLeaves, ViDisk, ViHist, ViInv, ViTypeOK
  <1>6. CASE viFile = 0 \/ ~viCmd[q].store
    BY <1>5, <1>6, ViGoesBack DEF MigLocate
  <1>7. CASE ~(viFile = 0 \/ ~viCmd[q].store)
    <2>1. viCmd' = [viCmd EXCEPT ![q] = r]
      BY <1>1, <1>2, <1>7 DEF MigLocate
    <2>2. ViShape(q, r) /\ ~ViPending(r)
      BY <1>1, <1>3, <1>4 DEF ViShape, ViOpenSteps, ViMigSteps, ViPending
    <2>3. ViFacts(r)'
      BY <1>1, <1>3, <1>4, <1>5 DEF ViFacts, ViPending, ViLeaves
    <2>4. viNew' \in Nat /\ viNew <= viNew'
      BY <1>5 DEF ViInv, ViTypeOK, ViLeaves
    <2> QED BY <1>1, <1>3, <1>5, <2>1, <2>2, <2>3, <2>4, ViMove DEF ViLeaves
  <1> QED BY <1>6, <1>7

\* It reads the file; one that another command is shredding counts as torn.
LEMMA ViMigRead ==
    ASSUME ViInv, NEW q \in ViProc, MigRead(q)
    PROVE  ViInv'
  <1>1. PICK c \in ViRecord : c = viCmd[q] /\ ViShape(q, c) /\ ViFacts(c)
    BY ViCommand
  <1>2. PICK r : r = [c EXCEPT !.id = viFile, !.at = IF c.inRef THEN "compare" ELSE "store"]
    OBVIOUS
  <1>3. /\ r \in ViRecord /\ r.mig = c.mig /\ r.op = c.op /\ r.inRef = c.inRef /\ r.id = viFile
        /\ r.at = IF c.inRef THEN "compare" ELSE "store"
    BY <1>1, <1>2, ZenonT(60) DEF ViRecord, ViSteps, ViInv, ViTypeOK
  <1>4. c.at = "mread" /\ c.mig
    BY <1>1 DEF MigRead, ViShape
  <1>5. viTorn' = (viTorn \/ viFile = ViJunk)
    BY DEF MigRead
  <1>6. ViLeaves(q)
    <2>1. viTorn' \in BOOLEAN /\ (viTorn => viTorn')
      BY <1>5, Zenon DEF ViInv, ViTypeOK
    <2> QED BY <1>1, <1>4, <2>1 DEF MigRead, ViLeaves, ViDisk, ViInv, ViTypeOK
  <1>7. CASE viFile = 0
    BY <1>6, <1>7, ViGoesBack DEF MigRead
  <1>8. CASE viFile # 0
    <2>1. viCmd' = [viCmd EXCEPT ![q] = r]
      BY <1>1, <1>2, <1>8 DEF MigRead
    <2>2. ViShape(q, r) /\ ~ViPending(r)
      BY <1>1, <1>3, <1>4 DEF ViShape, ViOpenSteps, ViMigSteps, ViPending
    <2>3. ViLive => viFile = viRing \/ ViSettled
      BY DEF ViInv, ViKeptInv
    <2>4. ViLive /\ ~viTorn' => viFile = viRing
      <3> SUFFICES ASSUME ViLive, ~viTorn' PROVE viFile = viRing
        OBVIOUS
      <3>1. ~viTorn /\ viFile # ViJunk /\ ~viOver /\ viRing # 0
        BY <1>5 DEF ViLive
      <3>2. LoadIdentity = viRing
        BY <3>1 DEF ViInv, IdentityLoads, ViLive
      <3>3. viRef # 0 => viSlot[viRef] \in {viFile, 0}
        BY <1>8, <3>1 DEF ViInv, ViAgreeInv
      <3> QED BY <3>1, <3>2, <3>3 DEF LoadIdentity
    <2>5. ViLive' <=> ViLive
      BY <1>6 DEF ViLive, ViLeaves
    <2>6. ASSUME ViSettled => ViSettled' PROVE ViFacts(r)'
      <3>1. ViLive' => r.id = viRing' \/ (viTorn' /\ ViSettled')
        BY <1>3, <1>6, <2>3, <2>4, <2>5, <2>6 DEF ViLeaves
      <3>2. ~viTorn' => viFile' \in {r.id, 0, ViJunk} /\ (viFile' \in {0, ViJunk} => viRef' # 0)
        BY <1>3, <1>5, <1>6, <1>8 DEF ViLeaves
      <3>3. ~viOver' /\ r.inRef => viRef' # 0
        BY <1>1, <1>3, <1>4, <1>6 DEF ViFacts, ViLeaves
      <3> QED BY <1>3, <1>4, <3>1, <3>2, <3>3 DEF ViFacts, ViPending
    <2>7. viNew' \in Nat /\ viNew <= viNew'
      BY <1>6 DEF ViInv, ViTypeOK, ViLeaves
    <2> QED BY <1>1, <1>3, <1>6, <2>1, <2>2, <2>6, <2>7, ViMove DEF ViLeaves
  <1> QED BY <1>7, <1>8

\* Both places hold it: the file may go if the keyring has the same identity.
LEMMA ViMigCompare ==
    ASSUME ViInv, NEW q \in ViProc, MigCompare(q)
    PROVE  ViInv'
  <1>1. PICK c \in ViRecord : c = viCmd[q] /\ ViShape(q, c) /\ ViFacts(c)
    BY ViCommand
  <1>2. PICK r : r = [c EXCEPT !.at = "shred"]
    OBVIOUS
  <1>3. r \in ViRecord /\ r.mig = c.mig /\ r.op = c.op /\ r.at = "shred"
    BY <1>1, <1>2 DEF ViRecord, ViSteps
  <1>4. c.at = "compare" /\ c.mig /\ c.inRef
    BY <1>1 DEF MigCompare, ViShape
  <1>5. ViLeaves(q)
    BY <1>1, <1>4 DEF MigCompare, ViLeaves, ViDisk, ViHist, ViInv, ViTypeOK
  <1>6. CASE LoadIdentity # viCmd[q].id
    BY <1>5, <1>6, ViGoesBack DEF MigCompare
  <1>7. CASE LoadIdentity = viCmd[q].id
    <2>1. viCmd' = [viCmd EXCEPT ![q] = r]
      BY <1>1, <1>2, <1>7 DEF MigCompare, ViGoto
    <2>2. ViShape(q, r) /\ ~ViPending(r)
      BY <1>1, <1>3, <1>4 DEF ViShape, ViOpenSteps, ViMigSteps, ViPending
    <2>3. ~viOver => viRef # 0
      BY <1>1, <1>4 DEF ViFacts
    <2>4. ViLive => ViSettled
      <3> SUFFICES ASSUME ViLive, c.id = viRing PROVE ViSettled
        BY <1>1, <1>4 DEF ViFacts
      <3>1. viRef # 0 /\ viRef \in ViItem /\ viRef <= viNew
        BY <2>3 DEF ViLive, ViInv, ViAloneInv
      <3>2. viSlot[viRef] = viRing
        BY <1>1, <1>7, <3>1 DEF LoadIdentity
      <3>3. \A p \in ViProc : ViPending(viCmd[p]) => viCmd[p].acct # viRef
        BY DEF ViInv, ViFacts
      <3> QED BY <3>1, <3>2, <3>3 DEF ViSettled
    <2>5. ASSUME ViSettled => ViSettled' PROVE ViFacts(r)'
      <3>1. ViLive' => ViSettled'
        BY <1>5, <2>4, <2>5 DEF ViLive, ViLeaves
      <3>2. ~viOver' => viRef' # 0
        BY <1>5, <2>3 DEF ViLeaves
      <3> QED BY <1>3, <1>4, <3>1, <3>2 DEF ViFacts, ViPending
    <2>6. viNew' \in Nat /\ viNew <= viNew'
      BY <1>5 DEF ViInv, ViTypeOK, ViLeaves
    <2> QED BY <1>1, <1>3, <1>5, <2>1, <2>2, <2>5, <2>6, ViMove DEF ViLeaves
  <1> QED BY <1>6, <1>7

\* The keyring refuses the item.
LEMMA ViStoreFails ==
    ASSUME ViInv, NEW q \in ViProc, KeyringStoreFails(q)
    PROVE  ViInv'
  <1>1. PICK c \in ViRecord : c = viCmd[q] /\ ViShape(q, c) /\ ViFacts(c)
    BY ViCommand
  <1>2. ViLeaves(q)
    BY DEF KeyringStoreFails, ViLeaves, ViDisk, ViHist, ViInv, ViTypeOK
  <1> QED BY <1>2, ViStops, ViGoesBack DEF KeyringStoreFails, ViFail

\* The item is read back, and taken back if it is not the identity.
LEMMA ViReadBack ==
    ASSUME ViInv, NEW q \in ViProc, ReadBack(q)
    PROVE  ViInv'
  <1>1. PICK c \in ViRecord : c = viCmd[q] /\ ViShape(q, c) /\ ViFacts(c)
    BY ViCommand
  <1>2. c.at = "readback" /\ c.acct \in ViItem /\ ViPending(viCmd[q])
    BY <1>1 DEF ReadBack, ViFacts, ViPending
  <1>3. PICK held \in BOOLEAN, deleted \in BOOLEAN :
           IF held /\ viSlot[c.acct] = c.id THEN ViGoto(q, "wref") /\ UNCHANGED viSlot
           ELSE ViFail(q) /\ viSlot' = IF deleted THEN [viSlot EXCEPT ![c.acct] = 0] ELSE viSlot
    BY <1>1 DEF ReadBack
  <1>4. viSlot' \in [ViItem -> Nat] /\ \A i \in ViItem : viSlot'[i] # viSlot[i] => i = c.acct
    BY <1>2, <1>3 DEF ViInv, ViTypeOK
  <1>5. ViLeaves(q)
    BY <1>1, <1>2, <1>4 DEF ReadBack, ViLeaves, ViHist, ViInv, ViTypeOK
  <1>6. CASE ViFail(q)
    BY <1>5, <1>6, ViStops, ViGoesBack DEF ViFail
  <1>7. CASE ViGoto(q, "wref") /\ UNCHANGED viSlot /\ viSlot[c.acct] = c.id
    <2>1. PICK r : r = [c EXCEPT !.at = "wref"]
      OBVIOUS
    <2>2. r \in ViRecord /\ r.mig = c.mig /\ r.op = c.op /\ r.at = "wref" /\ r.id = c.id /\ r.acct = c.acct
      BY <1>1, <2>1 DEF ViRecord, ViSteps
    <2>3. viCmd' = [viCmd EXCEPT ![q] = r]
      BY <1>1, <1>7, <2>1 DEF ViGoto
    <2>4. ViShape(q, r) /\ ViPending(r)
      BY <1>1, <1>2, <2>2 DEF ViShape, ViOpenSteps, ViMigSteps, ViPending
    <2>5. ASSUME ViSettled => ViSettled' PROVE ViFacts(r)'
      <3>1. ViLive' <=> ViLive
        BY <1>5 DEF ViLive, ViLeaves
      <3>2. viSlot' = viSlot /\ viNew' = viNew /\ viRef' = viRef /\ viFile' = viFile /\ viOver' = viOver /\ viRing' = viRing
            /\ (viTorn => viTorn')
        BY <1>5, <1>7 DEF ViLeaves
      <3>3. viTorn' = viTorn
        BY DEF ReadBack, ViHist
      <3>4. r.acct \in ViItem /\ r.acct <= viNew' /\ r.acct # viRef' /\ viSlot'[r.acct] = r.id
        BY <1>1, <1>2, <1>7, <2>2, <3>2 DEF ViFacts, ViPending
      <3>5. ViLive' /\ r.mig => r.id = viRing' \/ (viTorn' /\ ViSettled')
        BY <1>1, <1>2, <2>2, <2>5, <3>1, <3>2, <3>3 DEF ViFacts
      <3>6. ~r.mig => ~ViLive' \/ (viTorn' /\ ViSettled')
        BY <1>1, <1>2, <2>2, <2>5, <3>1, <3>2, <3>3 DEF ViFacts
      <3>7. ~viTorn' /\ ~viOver' => IF r.mig THEN viFile' \in {r.id, 0, ViJunk} /\ (viFile' \in {0, ViJunk} => viRef' # 0)
                                             ELSE viFile' = 0 /\ viRef' = 0
        BY <1>1, <1>2, <2>2, <3>2, <3>3 DEF ViFacts
      <3> QED BY <2>2, <3>4, <3>5, <3>6, <3>7 DEF ViFacts, ViPending
    <2>6. viNew' \in Nat /\ viNew <= viNew'
      BY <1>5 DEF ViInv, ViTypeOK, ViLeaves
    <2> QED BY <1>1, <1>2, <1>5, <2>2, <2>3, <2>4, <2>5, <2>6, ViMove DEF ViLeaves
  <1> QED BY <1>3, <1>6, <1>7

\* The reference cannot be written: the item is taken back.
LEMMA ViWriteRefFails ==
    ASSUME ViInv, NEW q \in ViProc, WriteRefFails(q)
    PROVE  ViInv'
  <1>1. PICK c \in ViRecord : c = viCmd[q] /\ ViShape(q, c) /\ ViFacts(c)
    BY ViCommand
  <1>2. c.at = "wref" /\ c.acct \in ViItem /\ ViPending(viCmd[q])
    BY <1>1 DEF WriteRefFails, ViFacts, ViPending
  <1>3. viSlot' \in [ViItem -> Nat] /\ \A i \in ViItem : viSlot'[i] # viSlot[i] => i = c.acct
    BY <1>1, <1>2 DEF WriteRefFails, ViInv, ViTypeOK
  <1>4. ViLeaves(q)
    BY <1>1, <1>2, <1>3 DEF WriteRefFails, ViLeaves, ViHist, ViInv, ViTypeOK
  <1> QED BY <1>4, ViStops, ViGoesBack DEF WriteRefFails, ViFail

\* The marker goes after the file.
LEMMA ViUnmark ==
    ASSUME ViInv, NEW q \in ViProc, Unmark(q)
    PROVE  ViInv'
  <1>1. PICK c \in ViRecord : c = viCmd[q] /\ ViShape(q, c) /\ ViFacts(c)
    BY ViCommand
  <1>2. ViLeaves(q)
    BY DEF Unmark, ViLeaves, ViHist, ViInv, ViTypeOK
  <1> QED BY <1>2, ViGoesBack DEF Unmark

\* The marker of an identity that stays in the file.
LEMMA ViAcknowledge ==
    ASSUME ViInv, NEW q \in ViProc, Acknowledge(q)
    PROVE  ViInv'
  <1>1. PICK c \in ViRecord : c = viCmd[q] /\ ViShape(q, c) /\ ViFacts(c)
    BY ViCommand
  <1>2. PICK r : r = [c EXCEPT !.at = "ring"]
    OBVIOUS
  <1>3. r \in ViRecord /\ r.mig = c.mig /\ r.op = c.op /\ r.at = "ring"
    BY <1>1, <1>2 DEF ViRecord, ViSteps
  <1>4. c.at = "mark" /\ viCmd' = [viCmd EXCEPT ![q] = r]
    BY <1>1, <1>2 DEF Acknowledge, ViGoto
  <1>5. ViShape(q, r) /\ ~ViPending(r) /\ r.at \in ViQuietSteps
    BY <1>1, <1>3, <1>4 DEF ViShape, ViOpenSteps, ViMigSteps, ViPending, ViQuietSteps
  <1>6. ViLeaves(q)
    BY <1>1, <1>4 DEF Acknowledge, ViLeaves, ViHist, ViInv, ViTypeOK
  <1>7. viNew' \in Nat /\ viNew <= viNew'
    BY <1>6 DEF ViInv, ViTypeOK, ViLeaves
  <1> QED BY <1>1, <1>3, <1>4, <1>5, <1>6, <1>7, ViMove DEF ViLeaves

\* An opening command ends.
LEMMA ViOpenRing ==
    ASSUME ViInv, NEW q \in ViProc, OpenRing(q)
    PROVE  ViInv'
  <1>1. PICK c \in ViRecord : c = viCmd[q] /\ ViShape(q, c) /\ ViFacts(c)
    BY ViCommand
  <1>2. ViLeaves(q)
    BY DEF OpenRing, ViLeaves, ViDisk, ViHist, ViInv, ViTypeOK
  <1> QED BY <1>2, ViStops DEF OpenRing

\* A command dies.
LEMMA ViDies ==
    ASSUME ViInv, NEW q \in ViProc, ViCrash(q)
    PROVE  ViInv'
  <1>1. PICK c \in ViRecord : c = viCmd[q] /\ ViShape(q, c) /\ ViFacts(c)
    BY ViCommand
  <1>2. ViLeaves(q)
    BY DEF ViCrash, ViLeaves, ViDisk, ViHist, ViInv, ViTypeOK
  <1> QED BY <1>2, ViStops DEF ViCrash

\* The KEK is derived from the identity as it loads now.
LEMMA ViRingDerive ==
    ASSUME ViInv, NEW q \in ViProc, RingDerive(q)
    PROVE  ViInv'
  <1>1. PICK c \in ViRecord : c = viCmd[q] /\ ViShape(q, c) /\ ViFacts(c)
    BY ViCommand
  <1>2. ViLeaves(q)
    BY DEF RingDerive, ViLeaves, ViDisk, ViHist, ViInv, ViTypeOK
  <1>3. LoadIdentity \in Nat
    BY DEF LoadIdentity, ViInv, ViTypeOK, ViAloneInv
  <1>4. PICK id \in Nat : id = LoadIdentity
    BY <1>3
  <1>5. PICK r : r = [c EXCEPT !.id = id, !.at = "write"]
    OBVIOUS
  <1>6. r \in ViRecord /\ r.mig = c.mig /\ r.op = c.op /\ r.at = "write" /\ r.id = id
    BY <1>1, <1>5, ZenonT(60) DEF ViRecord, ViSteps
  <1>7. c.at = "derive"
    BY <1>1 DEF RingDerive
  <1>8. CASE LoadIdentity \in {0, ViJunk} \/ (viRef # 0 /\ ~viCmd[q].store)
    BY <1>2, <1>8, ViStops DEF RingDerive
  <1>9. CASE ~(LoadIdentity \in {0, ViJunk} \/ (viRef # 0 /\ ~viCmd[q].store))
    <2>1. viCmd' = [viCmd EXCEPT ![q] = r] /\ id # 0
      BY <1>1, <1>4, <1>5, <1>9 DEF RingDerive
    <2>2. ViShape(q, r) /\ ~ViPending(r)
      BY <1>1, <1>6, <1>7 DEF ViShape, ViOpenSteps, ViMigSteps, ViPending
    <2>3. viFile' = viFile /\ viRef' = viRef /\ viSlot' = viSlot /\ viRing' = viRing
      BY DEF RingDerive, ViDisk
    <2>4. LoadIdentity' = id /\ viRing' = 0
      BY <1>1, <1>4, <1>7, <2>3 DEF LoadIdentity, ViFacts
    <2>5. ViFacts(r)'
      BY <1>6, <2>1, <2>4 DEF ViFacts, ViPending
    <2>6. viNew' \in Nat /\ viNew <= viNew'
      BY <1>2 DEF ViInv, ViTypeOK, ViLeaves
    <2> QED BY <1>1, <1>2, <1>6, <2>1, <2>2, <2>5, <2>6, ViMove DEF ViLeaves
  <1> QED BY <1>8, <1>9

\* A fresh identity is planned where none is to be found.
LEMMA ViProvisions ==
    ASSUME ViInv, NEW q \in ViProc, ViProvision(q),
           viCmd[q].at \in {"loc2", "rmmark"}, viCmd[q].op # "open",
           viFile' = viFile, viRef' = viRef, viSlot' = viSlot, viRing' = viRing, viCmds' = viCmds, viOver' = viOver, viGone' = viGone,
           viMark' \in BOOLEAN, viTorn' \in BOOLEAN, viTorn => viTorn',
           ~viTorn' /\ ~viOver => viFile = 0 /\ viRef = 0, ViLive => viTorn' /\ ViSettled
    PROVE  ViInv'
  <1>1. PICK c \in ViRecord : c = viCmd[q] /\ ViShape(q, c) /\ ViFacts(c)
    BY ViCommand
  <1>2. ~c.mig
    BY <1>1 DEF ViShape, ViMigSteps
  <1>3. CASE ~c.insecure /\ ~c.store
    <2>1. ViStop(q) /\ viNew' = viNew
      BY <1>1, <1>3 DEF ViProvision
    <2>2. ViLeaves(q)
      BY <2>1 DEF ViLeaves, ViInv, ViTypeOK
    <2> QED BY <2>1, <2>2, ViStops
  <1>4. CASE ~(~c.insecure /\ ~c.store)
    <2>1. PICK n \in Nat : n = viNew + 1
      BY DEF ViInv, ViTypeOK
    <2>2. PICK r : r = [c EXCEPT !.id = n, !.at = IF c.insecure THEN "wfile" ELSE "store"]
      OBVIOUS
    <2>3. r \in ViRecord /\ r.mig = c.mig /\ r.op = c.op /\ r.at = IF c.insecure THEN "wfile" ELSE "store"
      BY <1>1, <2>1, <2>2 DEF ViRecord, ViSteps
    <2>4. viCmd' = [viCmd EXCEPT ![q] = r] /\ viNew' = n
      BY <1>1, <1>4, <2>1, <2>2 DEF ViProvision
    <2>5. viNew' \in Nat /\ viNew <= viNew'
      BY <2>1, <2>4 DEF ViInv, ViTypeOK
    <2>6. ViShape(q, r) /\ ~ViPending(r)
      BY <1>1, <1>2, <2>3 DEF ViShape, ViOpenSteps, ViMigSteps, ViPending
    <2>7. ASSUME ViSettled => ViSettled' PROVE ViFacts(r)'
      <3>1. ~ViLive' \/ (viTorn' /\ ViSettled')
        BY <2>7 DEF ViLive
      <3>2. ~viTorn' /\ ~viOver' => viFile' = 0 /\ viRef' = 0
        OBVIOUS
      <3> QED BY <1>2, <2>3, <3>1, <3>2 DEF ViFacts, ViPending
    <2>8. viSlot' \in [ViItem -> Nat] /\ \A i \in ViItem : viSlot'[i] = viSlot[i]
      BY DEF ViInv, ViTypeOK
    <2> QED BY <1>1, <2>3, <2>4, <2>5, <2>6, <2>7, <2>8, ViMove
  <1> QED BY <1>3, <1>4

\* The last step of Remove.
LEMMA ViRemoveMark ==
    ASSUME ViInv, NEW q \in ViProc, RemoveMark(q)
    PROVE  ViInv'
  <1>1. PICK c \in ViRecord : c = viCmd[q] /\ ViShape(q, c) /\ ViFacts(c)
    BY ViCommand
  <1>2. c.at = "rmmark" /\ c.op = "force" /\ ~ViLive /\ (~viOver => viFile = 0 /\ viRef = 0)
    BY <1>1 DEF RemoveMark, ViShape, ViFacts
  <1>3. viMark' = FALSE /\ ViProvision(q)
    BY DEF RemoveMark
  <1>4. /\ viFile' = viFile /\ viRef' = viRef /\ viSlot' = viSlot /\ viRing' = viRing /\ viCmds' = viCmds /\ viOver' = viOver
        /\ viGone' = viGone /\ viTorn' = viTorn
    BY DEF RemoveMark, ViHist
  <1>5. viTorn' \in BOOLEAN
    BY <1>4 DEF ViInv, ViTypeOK
  <1> QED BY <1>1, <1>2, <1>3, <1>4, <1>5, ViProvisions

\* bootstrap decides what to do with the identity it found.
LEMMA ViPlan ==
    ASSUME ViInv, NEW q \in ViProc, PlanIdentity(q)
    PROVE  ViInv'
  <1>1. PICK c \in ViRecord : c = viCmd[q] /\ ViShape(q, c) /\ ViFacts(c)
    BY ViCommand
  <1>2. c.at = "loc2" /\ c.op # "open" /\ ~c.mig
    BY <1>1 DEF PlanIdentity, ViShape, ViMigSteps
  <1>3. /\ viFile' = viFile /\ viRef' = viRef /\ viSlot' = viSlot /\ viRing' = viRing /\ viCmds' = viCmds /\ viOver' = viOver
        /\ viMark' = viMark /\ viTorn' = (viTorn \/ (Location(q) = "missing" /\ viRef # 0))
    BY DEF PlanIdentity, ViDisk
  <1>4. viTorn' \in BOOLEAN /\ (viTorn => viTorn')
    BY <1>3, Zenon DEF ViInv, ViTypeOK
  <1>5. viMark' \in BOOLEAN /\ viNew \in Nat /\ viSlot' \in [ViItem -> Nat] /\ \A i \in ViItem : viSlot'[i] = viSlot[i]
    BY <1>3 DEF ViInv, ViTypeOK
  <1>6. ASSUME c.op = "force", ViGoto(q, "rmitem"), viGone' = viGone \cup {viRing}, viNew' = viNew PROVE ViInv'
    <2>1. PICK r : r = [c EXCEPT !.at = "rmitem"]
      OBVIOUS
    <2>2. r \in ViRecord /\ r.mig = c.mig /\ r.op = c.op /\ r.at = "rmitem"
      BY <1>1, <2>1 DEF ViRecord, ViSteps
    <2>3. viCmd' = [viCmd EXCEPT ![q] = r]
      BY <1>1, <1>6, <2>1 DEF ViGoto
    <2>4. ViShape(q, r) /\ ~ViPending(r)
      BY <1>1, <1>2, <1>6, <2>2 DEF ViShape, ViOpenSteps, ViMigSteps, ViPending
    <2>5. ~ViLive'
      BY <1>3, <1>6 DEF ViLive
    <2>6. ViFacts(r)'
      BY <1>2, <2>2, <2>5 DEF ViFacts, ViPending
    <2>7. viNew' \in Nat /\ viNew <= viNew' /\ viGone \subseteq viGone'
      BY <1>5, <1>6
    <2> QED BY <1>1, <1>2, <1>3, <1>4, <1>5, <2>2, <2>3, <2>4, <2>6, <2>7, ViMove
  <1>7. ASSUME Location(q) = "missing", ViProvision(q), viGone' = viGone PROVE ViInv'
    <2>1. viFile = 0
      BY <1>7 DEF Location
    <2>2. ~viTorn' => viRef = 0
      BY <1>3, <1>7
    <2>3. ViLive => ViSettled
      BY <2>1 DEF ViInv, ViKeptInv, ViLive
    <2>4. ViLive => viTorn'
      BY <1>4, <2>1, <2>2 DEF ViInv, IdentityLoads, LoadIdentity, ViLive
    <2> QED BY <1>1, <1>2, <1>3, <1>4, <1>5, <1>7, <2>1, <2>2, <2>3, <2>4, ViProvisions
  <1>8. ASSUME NEW at \in {"ring", "mark", "mloc"}, ViGoto(q, at), viNew' = viNew, viGone' = viGone PROVE ViInv'
    <2>1. PICK r : r = [c EXCEPT !.at = at]
      OBVIOUS
    <2>2. r \in ViRecord /\ r.mig = c.mig /\ r.op = c.op /\ r.at = at
      BY <1>1, <2>1 DEF ViRecord, ViSteps
    <2>3. viCmd' = [viCmd EXCEPT ![q] = r]
      BY <1>1, <1>8, <2>1 DEF ViGoto
    <2>4. ViShape(q, r) /\ ~ViPending(r) /\ r.at \in ViQuietSteps
      BY <1>1, <1>2, <2>2 DEF ViShape, ViOpenSteps, ViMigSteps, ViPending, ViQuietSteps
    <2>5. viNew' \in Nat /\ viNew <= viNew' /\ viGone \subseteq viGone'
      BY <1>5, <1>8
    <2> QED BY <1>1, <1>2, <1>3, <1>4, <1>5, <2>2, <2>3, <2>4, <2>5, ViMove
  <1>9. \/ c.op = "force" /\ ViGoto(q, "rmitem") /\ viGone' = viGone \cup {viRing} /\ viNew' = viNew
        \/ Location(q) = "missing" /\ ViProvision(q) /\ viGone' = viGone
        \/ \E at \in {"ring", "mark", "mloc"} : ViGoto(q, at) /\ viNew' = viNew /\ viGone' = viGone
    <2>1. CASE Location(q) # "missing" /\ c.op # "force"
      <3>1. PICK at : ViGoto(q, at) /\ viNew' = viNew /\ viGone' = viGone
                      /\ at = CASE Location(q) = "keyring" /\ viFile = 0     -> "ring"
                                [] Location(q) = "acknowledged" /\ c.insecure -> "ring"
                                [] Location(q) = "unacknowledged" /\ c.insecure -> "mark"
                                [] OTHER                                      -> "mloc"
        BY <1>1, <2>1 DEF PlanIdentity
      <3>2. at \in {"ring", "mark", "mloc"}
        BY <3>1
      <3> QED BY <3>1, <3>2
    <2>2. CASE ~(Location(q) # "missing" /\ c.op # "force")
      BY <1>1, <2>2 DEF PlanIdentity
    <2> QED BY <2>1, <2>2
  <1> QED BY <1>6, <1>7, <1>8, <1>9

\* Who works alone still does.
LEMMA ViAloneKept ==
    ASSUME ViInv, NEW q \in ViProc, NEW r \in ViRecord, viCmd' = [viCmd EXCEPT ![q] = r], viCmd[q].at # "idle",
           viRef' # 0 => viRef' \in ViItem /\ viRef' <= viNew', viOver' = viOver, viCmds' = viCmds,
           viRing' = 0 => viRing = 0 \/ viCmd[ViBooter].op = "force", r.op = viCmd[q].op \/ r.op = "open"
    PROVE  ViAloneInv'
  <1>1. viCmd'[q] = r /\ \A o \in ViProc : o # q => viCmd'[o] = viCmd[o]
    BY DEF ViInv, ViTypeOK
  <1>2. ~viOver' /\ (viRing' = 0 \/ viCmd'[ViBooter].op = "force") => \A o \in ViOpener : viCmd'[o].at = "idle"
    <2> SUFFICES ASSUME ~viOver, viRing' = 0 \/ viCmd'[ViBooter].op = "force", NEW o \in ViOpener PROVE viCmd'[o].at = "idle"
      OBVIOUS
    <2>1. viCmd'[ViBooter].op = "force" => viCmd[ViBooter].op = "force"
      BY <1>1 DEF ViProc
    <2>2. \A x \in ViOpener : viCmd[x].at = "idle"
      BY <2>1 DEF ViInv, ViAloneInv
    <2> QED BY <1>1, <2>2 DEF ViProc
  <1>3. viCmds' # 0
    BY DEF ViInv, ViAloneInv
  <1> QED BY <1>2, <1>3 DEF ViAloneInv

\* A command of bootstrap --force has the vault for itself.
LEMMA ViForceAlone ==
    ASSUME ViInv, NEW q \in ViProc, viCmd[q].op = "force", ~viOver
    PROVE  ViAloneFor(q)
  <1>1. q = ViBooter
    BY DEF ViInv, ViShape
  <1> QED BY <1>1 DEF ViInv, ViAloneInv, ViAloneFor, ViProc

\* The item of another command is not the one referred to, and not this command's.
LEMMA ViOthersItems ==
    ASSUME ViInv, NEW q \in ViProc, NEW o \in ViProc, o # q, ViPending(viCmd[o])
    PROVE  viCmd[o].acct \in ViItem /\ viCmd[o].acct <= viNew /\ viCmd[o].acct # viRef
           /\ (ViPending(viCmd[q]) => viCmd[q].acct # viCmd[o].acct)
  BY DEF ViInv, ViOwnInv, ViFacts

\* The identity is written to a fresh item.
LEMMA ViKeyringStore ==
    ASSUME ViInv, NEW q \in ViProc, KeyringStore(q)
    PROVE  ViInv'
  <1>1. PICK c \in ViRecord : c = viCmd[q] /\ ViShape(q, c) /\ ViFacts(c)
    BY ViCommand
  <1>2. PICK n \in ViItem : n = viNew + 1
    BY DEF KeyringStore
  <1>3. n \in Nat /\ viNew \in Nat /\ n > viNew
    BY <1>2, ViAssumption DEF ViInv, ViTypeOK
  <1>4. PICK r : r = [c EXCEPT !.at = "readback", !.acct = n]
    OBVIOUS
  <1>5. r \in ViRecord /\ r.mig = c.mig /\ r.op = c.op /\ r.at = "readback" /\ r.acct = n /\ r.id = c.id
    BY <1>1, <1>3, <1>4, ZenonT(60) DEF ViRecord, ViSteps
  <1>6. c.at = "store" /\ viCmd' = [viCmd EXCEPT ![q] = r] /\ viNew' = n
    BY <1>1, <1>2, <1>4 DEF KeyringStore
  <1>7. /\ viFile' = viFile /\ viMark' = viMark /\ viRef' = viRef /\ viRing' = viRing /\ viCmds' = viCmds
        /\ viGone' = viGone /\ viTorn' = viTorn /\ viOver' = viOver
    BY DEF KeyringStore, ViHist
  <1>8. PICK held \in {c.id, ViJunk} : viSlot' = [viSlot EXCEPT ![n] = held]
    BY <1>1, <1>2 DEF KeyringStore
  <1>9. held \in Nat
    BY <1>1, <1>8 DEF ViRecord, ViJunk
  <1>10. viSlot' \in [ViItem -> Nat] /\ \A i \in ViItem : i <= viNew => viSlot'[i] = viSlot[i]
    <2>1. \A i \in ViItem : i <= viNew => i # n
      BY <1>3, ViAssumption
    <2> QED BY <1>8, <1>9, <2>1 DEF ViInv, ViTypeOK
  <1>11. viFile' \in Nat /\ viMark' \in BOOLEAN /\ viRef' \in Nat /\ viRing' \in Nat /\ viNew' \in Nat /\ viCmds' \in Nat
         /\ viTorn' \in BOOLEAN /\ viOver' \in BOOLEAN /\ viNew <= viNew'
    BY <1>3, <1>6, <1>7 DEF ViInv, ViTypeOK
  <1>12. ViShape(q, r) /\ ViPending(r)
    BY <1>1, <1>5, <1>6 DEF ViShape, ViOpenSteps, ViMigSteps, ViPending
  <1>13. ViSettled => ViSettled'
    BY <1>3, <1>5, <1>6, <1>7, <1>10, <1>11, ViSettledKept
  <1>14. ViLive' <=> ViLive
    BY <1>7 DEF ViLive
  <1>15. viRef # 0 => viRef \in ViItem /\ viRef <= viNew
    BY DEF ViInv, ViAloneInv
  <1>16. LoadIdentity' = LoadIdentity /\ (viRef # 0 => viSlot'[viRef] = viSlot[viRef])
    BY <1>7, <1>10, <1>15 DEF LoadIdentity
  <1>17. ViFacts(r)'
    <2>1. r.acct \in ViItem /\ r.acct <= viNew' /\ r.acct # viRef'
      BY <1>3, <1>5, <1>6, <1>7, <1>15
    <2>2. ViLive' /\ r.mig => r.id = viRing' \/ (viTorn' /\ ViSettled')
      BY <1>1, <1>5, <1>6, <1>7, <1>13, <1>14 DEF ViFacts
    <2>3. ~r.mig => ~ViLive' \/ (viTorn' /\ ViSettled')
      BY <1>1, <1>5, <1>6, <1>7, <1>13, <1>14 DEF ViFacts
    <2>4. ~viTorn' /\ ~viOver' => IF r.mig THEN viFile' \in {r.id, 0, ViJunk} /\ (viFile' \in {0, ViJunk} => viRef' # 0)
                                           ELSE viFile' = 0 /\ viRef' = 0
      BY <1>1, <1>5, <1>6, <1>7 DEF ViFacts
    <2> QED BY <1>5, <2>1, <2>2, <2>3, <2>4 DEF ViFacts, ViPending
  <1>18. viRef' # 0 => viRef' \in ViItem /\ viRef' <= viNew'
    BY <1>3, <1>6, <1>7, <1>11, <1>15
  <1>19. ViAloneInv'
    BY <1>1, <1>5, <1>6, <1>7, <1>18, ViAloneKept DEF ViInv, ViAloneInv
  <1>20. ViKeptInv' /\ ViAgreeInv' /\ IdentityLoads'
    BY <1>7, <1>13, <1>14, <1>16 DEF ViInv, ViKeptInv, ViAgreeInv, IdentityLoads
  <1>21. \A o \in ViProc : o # q /\ ViPending(viCmd[o]) =>
                 viSlot'[viCmd[o].acct] = viSlot[viCmd[o].acct] /\ viCmd[o].acct # viRef'
                 /\ (ViPending(r) => r.acct # viCmd[o].acct)
    <2> SUFFICES ASSUME NEW o \in ViProc, o # q, ViPending(viCmd[o])
                 PROVE  viSlot'[viCmd[o].acct] = viSlot[viCmd[o].acct] /\ viCmd[o].acct # viRef' /\ r.acct # viCmd[o].acct
      OBVIOUS
    <2>1. viCmd[o].acct \in ViItem /\ viCmd[o].acct <= viNew /\ viCmd[o].acct # viRef
      BY ViOthersItems
    <2>2. viSlot'[viCmd[o].acct] = viSlot[viCmd[o].acct]
      BY <1>10, <2>1
    <2>3. viCmd[o].acct # n
      <3>1. PICK a \in ViItem : a = viCmd[o].acct /\ a <= viNew
        BY <2>1
      <3>2. a \in Nat
        BY ViAssumption
      <3>3. a # n
        BY <1>3, <3>1, <3>2
      <3> QED BY <3>1, <3>3
    <2> QED BY <1>5, <1>7, <2>1, <2>2, <2>3
  <1> QED BY <1>1, <1>5, <1>6, <1>7, <1>10, <1>11, <1>12, <1>13, <1>14, <1>17, <1>19, <1>20, <1>21, ViStep

\* The reference is written: from now on the item is the identity.
LEMMA ViWriteRef ==
    ASSUME ViInv, NEW q \in ViProc, WriteRef(q)
    PROVE  ViInv'
  <1>1. PICK c \in ViRecord : c = viCmd[q] /\ ViShape(q, c) /\ ViFacts(c)
    BY ViCommand
  <1>2. PICK r : r = [c EXCEPT !.at = IF c.mig THEN "shred" ELSE "ring"]
    OBVIOUS
  <1>3. r \in ViRecord /\ r.mig = c.mig /\ r.op = c.op /\ r.at = IF c.mig THEN "shred" ELSE "ring"
    BY <1>1, <1>2 DEF ViRecord, ViSteps
  <1>4. c.at = "wref" /\ viCmd' = [viCmd EXCEPT ![q] = r] /\ viRef' = c.acct
    BY <1>1, <1>2 DEF WriteRef, ViGoto
  <1>5. /\ viFile' = viFile /\ viMark' = viMark /\ viSlot' = viSlot /\ viRing' = viRing /\ viNew' = viNew /\ viCmds' = viCmds
        /\ viGone' = viGone /\ viTorn' = viTorn /\ viOver' = viOver
    BY DEF WriteRef, ViHist
  <1>6. c.acct \in ViItem /\ c.acct <= viNew /\ viSlot[c.acct] = c.id /\ c.acct \in Nat /\ c.acct # 0 /\ ViPending(viCmd[q])
    BY <1>1, <1>4, ViAssumption DEF ViFacts, ViPending
  <1>7. viFile' \in Nat /\ viMark' \in BOOLEAN /\ viRef' \in Nat /\ viSlot' \in [ViItem -> Nat] /\ viRing' \in Nat /\ viNew' \in Nat
        /\ viCmds' \in Nat /\ viTorn' \in BOOLEAN /\ viOver' \in BOOLEAN /\ viNew <= viNew'
    BY <1>4, <1>5, <1>6 DEF ViInv, ViTypeOK
  <1>8. ViShape(q, r) /\ ~ViPending(r)
    BY <1>1, <1>3, <1>4 DEF ViShape, ViOpenSteps, ViMigSteps, ViPending
  <1>9. ViSettled => ViSettled'
    BY <1>3, <1>4, <1>5, <1>7, <1>8, ViSettledKept
  <1>10. ViLive' <=> ViLive
    BY <1>5 DEF ViLive
  <1>11. \A o \in ViProc : o # q /\ ViPending(viCmd[o]) => viCmd[o].acct # c.acct
    BY <1>1, <1>6, ViOthersItems
  <1>12. c.id = viRing => ViSettled'
    <2> SUFFICES ASSUME c.id = viRing PROVE ViSettled'
      OBVIOUS
    <2>1. viSlot'[c.acct] = viRing' /\ c.acct <= viNew'
      BY <1>5, <1>6
    <2>2. viCmd'[q] = r /\ \A o \in ViProc : o # q => viCmd'[o] = viCmd[o]
      BY <1>4 DEF ViInv, ViTypeOK
    <2>3. \A p \in ViProc : ViPending(viCmd'[p]) => viCmd'[p].acct # c.acct
      BY <1>8, <1>11, <2>2
    <2> QED BY <1>6, <2>1, <2>3 DEF ViSettled, ViPending
  <1>13. ViLive => ViSettled' /\ (viTorn \/ c.id = viRing)
    BY <1>1, <1>4, <1>9, <1>12 DEF ViFacts
  <1>14. ViFacts(r)'
    BY <1>3, <1>4, <1>5, <1>6, <1>10, <1>13 DEF ViFacts, ViPending
  <1>15. ViAloneInv'
    BY <1>1, <1>3, <1>4, <1>5, <1>6, ViAloneKept DEF ViInv, ViAloneInv
  <1>16. ViKeptInv'
    BY <1>10, <1>13 DEF ViKeptInv
  <1>17. IdentityLoads'
    BY <1>4, <1>5, <1>6, <1>13 DEF IdentityLoads, LoadIdentity, ViLive
  <1>18. ~viTorn /\ ~viOver => IF c.mig THEN viFile \in {c.id, 0, ViJunk} /\ (viFile \in {0, ViJunk} => viRef # 0)
                                        ELSE viFile = 0 /\ viRef = 0 /\ q = ViBooter
    BY <1>1, <1>4 DEF ViFacts, ViShape, ViMigSteps
  <1>19. ViAgreeInv'
    BY <1>4, <1>5, <1>6, <1>18 DEF ViAgreeInv
  <1>20. \/ viTorn' \/ viOver'
         \/ viRef' # 0 /\ viFile' \in {viFile, 0, ViJunk} /\ (viFile = 0 => viFile' = 0) /\ (viFile # 0 \/ viRef # 0)
         \/ q = ViBooter /\ viFile = 0 /\ viRef = 0
    BY <1>4, <1>5, <1>6, <1>18
  <1>21. \A o \in ViProc : o # q /\ ViPending(viCmd[o]) =>
                 viSlot'[viCmd[o].acct] = viSlot[viCmd[o].acct] /\ viCmd[o].acct # viRef'
                 /\ (ViPending(r) => r.acct # viCmd[o].acct)
    BY <1>4, <1>5, <1>8, <1>11
  <1> QED BY <1>1, <1>3, <1>4, <1>5, <1>6, <1>7, <1>8, <1>9, <1>10, <1>14, <1>15, <1>16, <1>17, <1>19, <1>20, <1>21, ViStep

\* The file is overwritten.
LEMMA ViShred ==
    ASSUME ViInv, NEW q \in ViProc, Shred(q)
    PROVE  ViInv'
  <1>1. PICK c \in ViRecord : c = viCmd[q] /\ ViShape(q, c) /\ ViFacts(c)
    BY ViCommand
  <1>2. PICK r : r = [c EXCEPT !.at = "unlink"]
    OBVIOUS
  <1>3. r \in ViRecord /\ r.mig = c.mig /\ r.op = c.op /\ r.at = "unlink"
    BY <1>1, <1>2 DEF ViRecord, ViSteps
  <1>4. c.at = "shred" /\ viCmd' = [viCmd EXCEPT ![q] = r] /\ viFile' = (IF viFile = 0 THEN 0 ELSE ViJunk)
    BY <1>1, <1>2 DEF Shred, ViGoto
  <1>5. /\ viRef' = viRef /\ viMark' = viMark /\ viSlot' = viSlot /\ viRing' = viRing /\ viNew' = viNew /\ viCmds' = viCmds
        /\ viGone' = viGone /\ viTorn' = viTorn /\ viOver' = viOver
    BY DEF Shred, ViHist
  <1>6. viFile' \in Nat /\ viMark' \in BOOLEAN /\ viRef' \in Nat /\ viSlot' \in [ViItem -> Nat] /\ viRing' \in Nat /\ viNew' \in Nat
        /\ viCmds' \in Nat /\ viTorn' \in BOOLEAN /\ viOver' \in BOOLEAN /\ viNew <= viNew'
    BY <1>4, <1>5 DEF ViInv, ViTypeOK, ViJunk
  <1>7. ViShape(q, r) /\ ~ViPending(r)
    BY <1>1, <1>3, <1>4 DEF ViShape, ViOpenSteps, ViMigSteps, ViPending
  <1>8. ViSettled => ViSettled'
    BY <1>3, <1>4, <1>5, <1>6, <1>7, ViSettledKept
  <1>9. ViLive' <=> ViLive
    BY <1>5 DEF ViLive
  <1>10. (ViLive => ViSettled' /\ c.mig) /\ (~viOver /\ c.mig => viRef # 0)
    BY <1>1, <1>4, <1>8 DEF ViFacts
  <1>11. ViFacts(r)'
    BY <1>3, <1>5, <1>9, <1>10 DEF ViFacts, ViPending
  <1>12. viRef' # 0 => viRef' \in ViItem /\ viRef' <= viNew'
    BY <1>5 DEF ViInv, ViAloneInv
  <1>13. ViAloneInv'
    BY <1>1, <1>3, <1>4, <1>5, <1>12, ViAloneKept
  <1>14. ViKeptInv' /\ ViAgreeInv'
    BY <1>4, <1>9, <1>10 DEF ViKeptInv, ViAgreeInv
  <1>15. IdentityLoads'
    BY <1>5, <1>10 DEF ViInv, IdentityLoads, LoadIdentity, ViLive
  <1>16. \/ viTorn' \/ viOver' \/ ViAloneFor(q) \/ (viFile' = viFile /\ viRef' = viRef)
         \/ viRef' # 0 /\ viFile' \in {viFile, 0, ViJunk} /\ (viFile = 0 => viFile' = 0) /\ (viFile # 0 \/ viRef # 0)
         \/ q = ViBooter /\ viFile = 0 /\ viRef = 0
    <2>1. ~viOver => viRef # 0 \/ ViAloneFor(q)
      <3>1. c.mig \/ c.op = "force"
        BY <1>1, <1>4 DEF ViShape
      <3> QED BY <1>1, <1>10, <3>1, ViForceAlone
    <2> QED BY <1>4, <1>5, <2>1
  <1>17. \A o \in ViProc : o # q /\ ViPending(viCmd[o]) =>
                 viSlot'[viCmd[o].acct] = viSlot[viCmd[o].acct] /\ viCmd[o].acct # viRef'
                 /\ (ViPending(r) => r.acct # viCmd[o].acct)
    BY <1>5, <1>7, ViOthersItems
  <1> QED BY <1>1, <1>3, <1>4, <1>5, <1>6, <1>7, <1>8, <1>9, <1>11, <1>13, <1>14, <1>15, <1>16, <1>17, ViStep

\* The file is unlinked.
LEMMA ViUnlink ==
    ASSUME ViInv, NEW q \in ViProc, Unlink(q)
    PROVE  ViInv'
  <1>1. PICK c \in ViRecord : c = viCmd[q] /\ ViShape(q, c) /\ ViFacts(c)
    BY ViCommand
  <1>2. PICK r : r = [c EXCEPT !.at = IF c.mig THEN "unmark" ELSE "rmref"]
    OBVIOUS
  <1>3. r \in ViRecord /\ r.mig = c.mig /\ r.op = c.op /\ r.at = IF c.mig THEN "unmark" ELSE "rmref"
    BY <1>1, <1>2 DEF ViRecord, ViSteps
  <1>4. c.at = "unlink" /\ viCmd' = [viCmd EXCEPT ![q] = r] /\ viFile' = 0
    BY <1>1, <1>2 DEF Unlink, ViGoto
  <1>5. /\ viRef' = viRef /\ viMark' = viMark /\ viSlot' = viSlot /\ viRing' = viRing /\ viNew' = viNew /\ viCmds' = viCmds
        /\ viGone' = viGone /\ viTorn' = viTorn /\ viOver' = viOver
    BY DEF Unlink, ViHist
  <1>6. viFile' \in Nat /\ viMark' \in BOOLEAN /\ viRef' \in Nat /\ viSlot' \in [ViItem -> Nat] /\ viRing' \in Nat /\ viNew' \in Nat
        /\ viCmds' \in Nat /\ viTorn' \in BOOLEAN /\ viOver' \in BOOLEAN /\ viNew <= viNew'
    BY <1>4, <1>5 DEF ViInv, ViTypeOK
  <1>7. ViShape(q, r) /\ ~ViPending(r)
    BY <1>1, <1>3, <1>4 DEF ViShape, ViOpenSteps, ViMigSteps, ViPending
  <1>8. ViSettled => ViSettled'
    BY <1>3, <1>4, <1>5, <1>6, <1>7, ViSettledKept
  <1>9. ViLive' <=> ViLive
    BY <1>5 DEF ViLive
  <1>10. (ViLive => ViSettled' /\ c.mig) /\ (~viOver /\ c.mig => viRef # 0)
    BY <1>1, <1>4, <1>8 DEF ViFacts
  <1>11. ViFacts(r)'
    BY <1>3, <1>4, <1>5, <1>9, <1>10 DEF ViFacts, ViPending
  <1>12. viRef' # 0 => viRef' \in ViItem /\ viRef' <= viNew'
    BY <1>5 DEF ViInv, ViAloneInv
  <1>13. ViAloneInv'
    BY <1>1, <1>3, <1>4, <1>5, <1>12, ViAloneKept
  <1>14. ViKeptInv' /\ ViAgreeInv'
    BY <1>4, <1>9, <1>10 DEF ViKeptInv, ViAgreeInv
  <1>15. IdentityLoads'
    BY <1>5, <1>10 DEF ViInv, IdentityLoads, LoadIdentity, ViLive
  <1>16. \/ viTorn' \/ viOver' \/ ViAloneFor(q) \/ (viFile' = viFile /\ viRef' = viRef)
         \/ viRef' # 0 /\ viFile' \in {viFile, 0, ViJunk} /\ (viFile = 0 => viFile' = 0) /\ (viFile # 0 \/ viRef # 0)
         \/ q = ViBooter /\ viFile = 0 /\ viRef = 0
    <2>1. ~viOver => viRef # 0 \/ ViAloneFor(q)
      <3>1. c.mig \/ c.op = "force"
        BY <1>1, <1>4 DEF ViShape
      <3> QED BY <1>1, <1>10, <3>1, ViForceAlone
    <2> QED BY <1>4, <1>5, <2>1
  <1>17. \A o \in ViProc : o # q /\ ViPending(viCmd[o]) =>
                 viSlot'[viCmd[o].acct] = viSlot[viCmd[o].acct] /\ viCmd[o].acct # viRef'
                 /\ (ViPending(r) => r.acct # viCmd[o].acct)
    BY <1>5, <1>7, ViOthersItems
  <1> QED BY <1>1, <1>3, <1>4, <1>5, <1>6, <1>7, <1>8, <1>9, <1>11, <1>13, <1>14, <1>15, <1>16, <1>17, ViStep

\* A fresh identity goes to the file.
LEMMA ViWriteIdentity ==
    ASSUME ViInv, NEW q \in ViProc, WriteIdentity(q)
    PROVE  ViInv'
  <1>1. PICK c \in ViRecord : c = viCmd[q] /\ ViShape(q, c) /\ ViFacts(c)
    BY ViCommand
  <1>2. PICK r : r = [c EXCEPT !.at = "mark"]
    OBVIOUS
  <1>3. r \in ViRecord /\ r.mig = c.mig /\ r.op = c.op /\ r.at = "mark"
    BY <1>1, <1>2 DEF ViRecord, ViSteps
  <1>4. c.at = "wfile" /\ viCmd' = [viCmd EXCEPT ![q] = r] /\ viFile' = c.id
    BY <1>1, <1>2 DEF WriteIdentity, ViGoto
  <1>5. /\ viRef' = viRef /\ viMark' = viMark /\ viSlot' = viSlot /\ viRing' = viRing /\ viNew' = viNew /\ viCmds' = viCmds
        /\ viGone' = viGone /\ viTorn' = viTorn /\ viOver' = viOver
    BY DEF WriteIdentity, ViHist
  <1>6. viFile' \in Nat /\ viMark' \in BOOLEAN /\ viRef' \in Nat /\ viSlot' \in [ViItem -> Nat] /\ viRing' \in Nat /\ viNew' \in Nat
        /\ viCmds' \in Nat /\ viTorn' \in BOOLEAN /\ viOver' \in BOOLEAN /\ viNew <= viNew'
    BY <1>1, <1>4, <1>5 DEF ViInv, ViTypeOK, ViRecord
  <1>7. ViShape(q, r) /\ ~ViPending(r) /\ ~c.mig /\ q = ViBooter
    BY <1>1, <1>3, <1>4 DEF ViShape, ViOpenSteps, ViMigSteps, ViPending
  <1>8. ViSettled => ViSettled'
    BY <1>3, <1>4, <1>5, <1>6, <1>7, ViSettledKept
  <1>9. ViLive' <=> ViLive
    BY <1>5 DEF ViLive
  <1>10. (ViLive => viTorn /\ ViSettled') /\ (~viTorn /\ ~viOver => viFile = 0 /\ viRef = 0)
    BY <1>1, <1>4, <1>7, <1>8 DEF ViFacts
  <1>11. ViFacts(r)'
    BY <1>3 DEF ViFacts, ViPending
  <1>12. viRef' # 0 => viRef' \in ViItem /\ viRef' <= viNew'
    BY <1>5 DEF ViInv, ViAloneInv
  <1>13. ViAloneInv'
    BY <1>1, <1>3, <1>4, <1>5, <1>12, ViAloneKept
  <1>14. ViKeptInv' /\ ViAgreeInv' /\ IdentityLoads'
    BY <1>5, <1>9, <1>10 DEF ViKeptInv, ViAgreeInv, IdentityLoads, ViLive
  <1>15. \A o \in ViProc : o # q /\ ViPending(viCmd[o]) =>
                 viSlot'[viCmd[o].acct] = viSlot[viCmd[o].acct] /\ viCmd[o].acct # viRef'
                 /\ (ViPending(r) => r.acct # viCmd[o].acct)
    BY <1>5, <1>7, ViOthersItems
  <1>16. viTorn' \/ viOver' \/ (q = ViBooter /\ viFile = 0 /\ viRef = 0)
    BY <1>5, <1>7, <1>10
  <1> QED BY <1>1, <1>3, <1>4, <1>5, <1>6, <1>7, <1>8, <1>9, <1>11, <1>13, <1>14, <1>15, <1>16, ViStep

\* Remove takes the item out of the keyring.
LEMMA ViRemoveItem ==
    ASSUME ViInv, NEW q \in ViProc, RemoveItem(q)
    PROVE  ViInv'
  <1>1. PICK c \in ViRecord : c = viCmd[q] /\ ViShape(q, c) /\ ViFacts(c)
    BY ViCommand
  <1>2. PICK r : r = [c EXCEPT !.at = "shred"]
    OBVIOUS
  <1>3. r \in ViRecord /\ r.mig = c.mig /\ r.op = c.op /\ r.at = "shred"
    BY <1>1, <1>2 DEF ViRecord, ViSteps
  <1>4. c.at = "rmitem" /\ viCmd' = [viCmd EXCEPT ![q] = r]
    BY <1>1, <1>2 DEF RemoveItem, ViGoto
  <1>5. /\ viRef' = viRef /\ viFile' = viFile /\ viMark' = viMark /\ viRing' = viRing /\ viNew' = viNew /\ viCmds' = viCmds
        /\ viGone' = viGone /\ viTorn' = viTorn /\ viOver' = viOver
    BY DEF RemoveItem, ViHist
  <1>6. viRef # 0 => viRef \in ViItem /\ viRef <= viNew
    BY DEF ViInv, ViAloneInv
  <1>7. /\ viSlot' \in [ViItem -> Nat] /\ (\A i \in ViItem : i # viRef => viSlot'[i] = viSlot[i])
        /\ (viRef # 0 => viSlot'[viRef] \in {viSlot[viRef], 0})
    BY <1>6 DEF RemoveItem, ViInv, ViTypeOK
  <1>8. viFile' \in Nat /\ viMark' \in BOOLEAN /\ viRef' \in Nat /\ viSlot' \in [ViItem -> Nat] /\ viRing' \in Nat /\ viNew' \in Nat
        /\ viCmds' \in Nat /\ viTorn' \in BOOLEAN /\ viOver' \in BOOLEAN /\ viNew <= viNew'
    BY <1>5, <1>7 DEF ViInv, ViTypeOK
  <1>9. ViShape(q, r) /\ ~ViPending(r) /\ c.op = "force" /\ ~c.mig /\ ~ViLive
    BY <1>1, <1>3, <1>4 DEF ViShape, ViOpenSteps, ViMigSteps, ViPending, ViFacts
  <1>10. ~ViLive'
    BY <1>5, <1>9 DEF ViLive
  <1>11. ViFacts(r)'
    BY <1>3, <1>9, <1>10 DEF ViFacts, ViPending
  <1>12. viRef' # 0 => viRef' \in ViItem /\ viRef' <= viNew'
    BY <1>5, <1>6
  <1>13. ViAloneInv'
    BY <1>1, <1>3, <1>4, <1>5, <1>12, ViAloneKept
  <1>14. ViKeptInv' /\ IdentityLoads'
    BY <1>10 DEF ViKeptInv, IdentityLoads, ViLive
  <1>15. ViAgreeInv'
    BY <1>5, <1>7 DEF ViInv, ViAgreeInv
  <1>16. \A o \in ViProc : o # q /\ ViPending(viCmd[o]) =>
                 viSlot'[viCmd[o].acct] = viSlot[viCmd[o].acct] /\ viCmd[o].acct # viRef'
                 /\ (ViPending(r) => r.acct # viCmd[o].acct)
    BY <1>5, <1>7, <1>9, ViOthersItems
  <1> QED BY <1>1, <1>3, <1>4, <1>5, <1>8, <1>9, <1>10, <1>11, <1>13, <1>14, <1>15, <1>16, ViStep

\* Remove takes the reference away.
LEMMA ViRemoveRef ==
    ASSUME ViInv, NEW q \in ViProc, RemoveRef(q)
    PROVE  ViInv'
  <1>1. PICK c \in ViRecord : c = viCmd[q] /\ ViShape(q, c) /\ ViFacts(c)
    BY ViCommand
  <1>2. PICK r : r = [c EXCEPT !.at = "rmmark"]
    OBVIOUS
  <1>3. r \in ViRecord /\ r.mig = c.mig /\ r.op = c.op /\ r.at = "rmmark"
    BY <1>1, <1>2 DEF ViRecord, ViSteps
  <1>4. c.at = "rmref" /\ viCmd' = [viCmd EXCEPT ![q] = r] /\ viRef' = 0
    BY <1>1, <1>2 DEF RemoveRef, ViGoto
  <1>5. /\ viFile' = viFile /\ viMark' = viMark /\ viSlot' = viSlot /\ viRing' = viRing /\ viNew' = viNew /\ viCmds' = viCmds
        /\ viGone' = viGone /\ viTorn' = viTorn /\ viOver' = viOver
    BY DEF RemoveRef, ViHist
  <1>6. viFile' \in Nat /\ viMark' \in BOOLEAN /\ viRef' \in Nat /\ viSlot' \in [ViItem -> Nat] /\ viRing' \in Nat /\ viNew' \in Nat
        /\ viCmds' \in Nat /\ viTorn' \in BOOLEAN /\ viOver' \in BOOLEAN /\ viNew <= viNew'
    BY <1>4, <1>5 DEF ViInv, ViTypeOK
  <1>7. ViShape(q, r) /\ ~ViPending(r) /\ c.op = "force" /\ ~c.mig /\ ~ViLive /\ (~viOver => viFile = 0)
    BY <1>1, <1>3, <1>4 DEF ViShape, ViOpenSteps, ViMigSteps, ViPending, ViFacts
  <1>8. ~ViLive'
    BY <1>5, <1>7 DEF ViLive
  <1>9. ViFacts(r)'
    BY <1>3, <1>4, <1>5, <1>7, <1>8 DEF ViFacts, ViPending
  <1>10. ViAloneInv'
    BY <1>1, <1>3, <1>4, <1>5, ViAloneKept
  <1>11. ViKeptInv' /\ IdentityLoads' /\ ViAgreeInv'
    BY <1>4, <1>8 DEF ViKeptInv, IdentityLoads, ViLive, ViAgreeInv
  <1>12. viOver' \/ ViAloneFor(q)
    BY <1>1, <1>5, <1>7, ViForceAlone
  <1>13. \A o \in ViProc : o # q /\ ViPending(viCmd[o]) => viCmd[o].acct # 0
    BY ViOthersItems, ViAssumption
  <1>14. \A o \in ViProc : o # q /\ ViPending(viCmd[o]) =>
                 viSlot'[viCmd[o].acct] = viSlot[viCmd[o].acct] /\ viCmd[o].acct # viRef'
                 /\ (ViPending(r) => r.acct # viCmd[o].acct)
    BY <1>4, <1>5, <1>7, <1>13
  <1> QED BY <1>1, <1>3, <1>4, <1>5, <1>6, <1>7, <1>8, <1>9, <1>10, <1>11, <1>12, <1>14, ViStep

\* planWriteKeyring: keyring.json is there already, or goes to be written anew.
LEMMA ViRingExists ==
    ASSUME ViInv, NEW q \in ViProc, RingExists(q)
    PROVE  ViInv'
  <1>1. PICK c \in ViRecord : c = viCmd[q] /\ ViShape(q, c) /\ ViFacts(c)
    BY ViCommand
  <1>2. PICK r : r = [c EXCEPT !.at = "derive"]
    OBVIOUS
  <1>3. r \in ViRecord /\ r.mig = c.mig /\ r.op = c.op /\ r.at = "derive"
    BY <1>1, <1>2 DEF ViRecord, ViSteps
  <1>4. c.at = "ring" /\ q = ViBooter
    BY <1>1 DEF RingExists, ViShape, ViOpenSteps
  <1>5. /\ viFile' = viFile /\ viRef' = viRef /\ viMark' = viMark /\ viSlot' = viSlot /\ viNew' = viNew /\ viCmds' = viCmds
        /\ viGone' = viGone /\ viTorn' = viTorn /\ viOver' = viOver
    BY DEF RingExists, ViHist
  <1>6. CASE viRing # 0 /\ viCmd[q].op # "force"
    <2>1. ViStop(q) /\ viRing' = viRing
      BY <1>6 DEF RingExists
    <2>2. ViLeaves(q)
      BY <1>1, <1>4, <1>5, <2>1 DEF ViLeaves, ViInv, ViTypeOK
    <2> QED BY <2>1, <2>2, ViStops
  <1>7. CASE ~(viRing # 0 /\ viCmd[q].op # "force")
    <2>1. viRing' = 0 /\ viCmd' = [viCmd EXCEPT ![q] = r]
      BY <1>1, <1>2, <1>7 DEF RingExists, ViGoto
    <2>2. viFile' \in Nat /\ viMark' \in BOOLEAN /\ viRef' \in Nat /\ viSlot' \in [ViItem -> Nat] /\ viRing' \in Nat /\ viNew' \in Nat
        /\ viCmds' \in Nat /\ viTorn' \in BOOLEAN /\ viOver' \in BOOLEAN /\ viNew <= viNew'
      BY <1>5, <2>1 DEF ViInv, ViTypeOK
    <2>3. ViShape(q, r) /\ ~ViPending(r)
      BY <1>1, <1>3, <1>4 DEF ViShape, ViOpenSteps, ViMigSteps, ViPending
    <2>4. ~ViLive'
      BY <2>1 DEF ViLive
    <2>5. ViFacts(r)'
      BY <1>3, <2>1 DEF ViFacts, ViPending
    <2>6. viRef' # 0 => viRef' \in ViItem /\ viRef' <= viNew'
      BY <1>5 DEF ViInv, ViAloneInv
    <2>7. ViAloneInv'
      BY <1>1, <1>3, <1>4, <1>5, <1>7, <2>1, <2>6, ViAloneKept
    <2>8. ViKeptInv' /\ IdentityLoads' /\ ViAgreeInv'
      BY <1>5, <2>4 DEF ViInv, ViKeptInv, IdentityLoads, ViLive, ViAgreeInv
    <2>9. \A o \in ViProc : o # q /\ ViPending(viCmd[o]) =>
                 viSlot'[viCmd[o].acct] = viSlot[viCmd[o].acct] /\ viCmd[o].acct # viRef'
                 /\ (ViPending(r) => r.acct # viCmd[o].acct)
      BY <1>5, <2>3, ViOthersItems
    <2> QED BY <1>1, <1>3, <1>4, <1>5, <2>1, <2>2, <2>3, <2>4, <2>5, <2>7, <2>8, <2>9, ViStep
  <1> QED BY <1>6, <1>7

\* While no command runs, the identity that loads is the one of keyring.json.
LEMMA ViAllIdle ==
    ASSUME ViTypeOK', \A p \in ViProc : viCmd'[p].at = "idle" /\ ViShape(p, viCmd'[p]),
           ViAloneInv', ViAgreeInv', viRing' # 0 => LoadIdentity' = viRing'
    PROVE  ViInv'
  <1>1. ASSUME NEW p \in ViProc PROVE ViShape(p, viCmd'[p]) /\ ViFacts(viCmd[p])'
    BY <1>1 DEF ViFacts, ViPending
  <1>2. ViOwnInv' /\ IdentityLoads'
    BY DEF ViOwnInv, ViPending, IdentityLoads
  <1>3. ViKeptInv'
    <2>1. viRing' # 0 /\ viRef' # 0 => ViSettled'
      <3> SUFFICES ASSUME viRing' # 0, viRef' # 0 PROVE ViSettled'
        OBVIOUS
      <3>1. viRef' \in ViItem /\ viRef' <= viNew' /\ viSlot'[viRef'] = viRing'
        BY DEF ViAloneInv, LoadIdentity
      <3> QED BY <3>1 DEF ViSettled, ViPending
    <2> QED BY <2>1 DEF ViKeptInv, ViLive, LoadIdentity
  <1> QED BY <1>1, <1>2, <1>3 DEF ViInv

\* keyring.json is wrapped with the identity that loads.
LEMMA ViRingWrite ==
    ASSUME ViInv, NEW q \in ViProc, RingWrite(q)
    PROVE  ViInv'
  <1>1. PICK c \in ViRecord : c = viCmd[q] /\ ViShape(q, c) /\ ViFacts(c)
    BY ViCommand
  <1>2. PICK r \in ViRecord : r = ViRest
    BY ViRestRecord
  <1>3. r.at = "idle" /\ r.op = "open" /\ ViShape(q, r) /\ ~ViPending(r)
    BY <1>2, ViRestRecord
  <1>4. c.at = "write" /\ viCmd' = [viCmd EXCEPT ![q] = r] /\ viRing' = c.id
    BY <1>1, <1>2 DEF RingWrite, ViStop
  <1>5. /\ viFile' = viFile /\ viRef' = viRef /\ viMark' = viMark /\ viSlot' = viSlot /\ viNew' = viNew /\ viCmds' = viCmds
        /\ viGone' = viGone /\ viTorn' = viTorn /\ viOver' = viOver
    BY DEF RingWrite, ViHist
  <1>6. viFile' \in Nat /\ viMark' \in BOOLEAN /\ viRef' \in Nat /\ viSlot' \in [ViItem -> Nat] /\ viRing' \in Nat /\ viNew' \in Nat
        /\ viCmds' \in Nat /\ viTorn' \in BOOLEAN /\ viOver' \in BOOLEAN /\ viNew <= viNew'
    BY <1>1, <1>4, <1>5 DEF ViInv, ViTypeOK, ViRecord
  <1>7. q = ViBooter /\ viRing = 0 /\ c.id # 0 /\ (~viOver => c.id = LoadIdentity)
    BY <1>1, <1>4 DEF ViShape, ViOpenSteps, ViFacts
  <1>8. viRef' # 0 => viRef' \in ViItem /\ viRef' <= viNew'
    BY <1>5 DEF ViInv, ViAloneInv
  <1>9. ViAloneInv'
    BY <1>1, <1>3, <1>4, <1>5, <1>7, <1>8, ViAloneKept
  <1>10. ViAgreeInv'
    BY <1>5 DEF ViInv, ViAgreeInv
  <1>11. CASE viOver
    <2>1. ~ViLive'
      BY <1>5, <1>11 DEF ViLive
    <2>2. ViFacts(r)'
      BY <1>3 DEF ViFacts, ViPending
    <2>3. ViKeptInv' /\ IdentityLoads'
      BY <2>1 DEF ViKeptInv, IdentityLoads, ViLive
    <2>4. \A o \in ViProc : o # q /\ ViPending(viCmd[o]) =>
                 viSlot'[viCmd[o].acct] = viSlot[viCmd[o].acct] /\ viCmd[o].acct # viRef'
                 /\ (ViPending(r) => r.acct # viCmd[o].acct)
      BY <1>3, <1>5, ViOthersItems
    <2> QED BY <1>1, <1>3, <1>4, <1>5, <1>6, <1>7, <1>9, <1>10, <2>1, <2>2, <2>3, <2>4, ViStep
  <1>12. CASE ~viOver
    <2>1. viCmd'[q] = r /\ \A o \in ViProc : o # q => viCmd'[o] = viCmd[o]
      BY <1>4 DEF ViInv, ViTypeOK
    <2>2. \A o \in ViOpener : viCmd[o].at = "idle"
      BY <1>7, <1>12 DEF ViInv, ViAloneInv
    <2>3. \A p \in ViProc : viCmd'[p].at = "idle" /\ ViShape(p, viCmd'[p])
      BY <1>3, <1>7, <2>1, <2>2 DEF ViProc, ViInv
    <2>4. LoadIdentity' = viRing'
      BY <1>4, <1>5, <1>7, <1>12 DEF LoadIdentity
    <2>5. ViTypeOK'
      BY <1>4, <1>6 DEF ViInv, ViTypeOK
    <2> QED BY <1>9, <1>10, <2>3, <2>4, <2>5, ViAllIdle
  <1> QED BY <1>11, <1>12

\* An installation of an older release.
LEMMA ViOlder ==
    ASSUME ViInv, OlderInstall
    PROVE  ViInv'
  <1>1. /\ viCmds = 0 /\ viNew = 0 /\ viNew' = 1 /\ viFile' = 1 /\ viRing' = 1 /\ viMark' = viMark /\ viRef' = viRef
        /\ viSlot' = viSlot /\ viCmd' = viCmd /\ viCmds' = viCmds /\ viGone' = viGone /\ viTorn' = viTorn /\ viOver' = viOver
    BY DEF OlderInstall, ViHist
  <1>2. viRef = 0
    <2>1. viRef # 0 => viRef \in ViItem /\ viRef <= 0
      BY <1>1 DEF ViInv, ViAloneInv
    <2>2. \A i \in ViItem : ~(i <= 0)
      BY ViAssumption
    <2> QED BY <2>1, <2>2
  <1>3. \A p \in ViProc : viCmd[p].at = "idle" /\ ViShape(p, viCmd[p])
    BY <1>1 DEF ViInv, ViAloneInv
  <1>4. ViTypeOK'
    BY <1>1 DEF ViInv, ViTypeOK
  <1>5. ViAloneInv' /\ ViAgreeInv' /\ LoadIdentity' = viRing'
    BY <1>1, <1>2, <1>3 DEF ViAloneInv, ViAgreeInv, LoadIdentity, ViProc
  <1> QED BY <1>1, <1>3, <1>4, <1>5, ViAllIdle

\* A command starts.
LEMMA ViStarts ==
    ASSUME ViInv, NEW q \in ViProc, NEW op \in {"open", "bootstrap", "force"}, NEW insecure \in BOOLEAN, NEW store \in BOOLEAN,
           ViStart(q, op, insecure, store)
    PROVE  ViInv'
  <1>1. PICK c \in ViRecord : c = viCmd[q] /\ ViShape(q, c) /\ ViFacts(c)
    BY ViCommand
  <1>2. PICK r : r = [ViRest EXCEPT !.at = "loc", !.op = op, !.insecure = insecure, !.store = store]
    OBVIOUS
  <1>3. r \in ViRecord /\ r.mig = FALSE /\ r.op = op /\ r.at = "loc"
    BY <1>2, ViRestRecord DEF ViRecord, ViSteps
  <1>4. c.at = "idle" /\ viCmd' = [viCmd EXCEPT ![q] = r] /\ viCmds' = viCmds + 1 /\ (op = "open" <=> q # ViBooter)
        /\ (op = "open" => viRing # 0)
    BY <1>1, <1>2 DEF ViStart
  <1>5. /\ viFile' = viFile /\ viRef' = viRef /\ viMark' = viMark /\ viSlot' = viSlot /\ viRing' = viRing /\ viNew' = viNew
        /\ viGone' = viGone /\ viTorn' = viTorn
    BY DEF ViStart, ViDisk
  <1>6. viOver' = (viOver \/ (ViBusy # {} /\ (op = "force" \/ viCmd[ViBooter].op = "force")))
    BY DEF ViStart
  <1>7. viOver' \in BOOLEAN /\ (viOver => viOver')
    BY <1>6, Zenon DEF ViInv, ViTypeOK
  <1>8. viFile' \in Nat /\ viMark' \in BOOLEAN /\ viRef' \in Nat /\ viSlot' \in [ViItem -> Nat] /\ viRing' \in Nat /\ viNew' \in Nat
        /\ viCmds' \in Nat /\ viTorn' \in BOOLEAN /\ viNew <= viNew'
    BY <1>4, <1>5 DEF ViInv, ViTypeOK
  <1>9. ViShape(q, r) /\ ~ViPending(r)
    BY <1>3, <1>4 DEF ViShape, ViOpenSteps, ViMigSteps, ViPending
  <1>10. ViSettled => ViSettled'
    BY <1>3, <1>4, <1>5, <1>8, <1>9, ViSettledKept
  <1>11. ViLive' => ViLive /\ viRing' = viRing
    BY <1>5, <1>7 DEF ViLive
  <1>12. ViFacts(r)'
    BY <1>3 DEF ViFacts, ViPending
  <1>13. ViKeptInv' /\ ViAgreeInv' /\ IdentityLoads'
    BY <1>5, <1>7, <1>10, <1>11 DEF ViInv, ViKeptInv, ViAgreeInv, IdentityLoads, LoadIdentity
  <1>14. ViAloneInv'
    <2>1. viCmd'[q] = r /\ \A o \in ViProc : o # q => viCmd'[o] = viCmd[o]
      BY <1>4 DEF ViInv, ViTypeOK
    <2>2. ~viOver' /\ (viRing' = 0 \/ viCmd'[ViBooter].op = "force") => \A o \in ViOpener : viCmd'[o].at = "idle"
      <3> SUFFICES ASSUME ~viOver', viRing' = 0 \/ viCmd'[ViBooter].op = "force", NEW o \in ViOpener PROVE viCmd'[o].at = "idle"
        OBVIOUS
      <3>1. o # ViBooter /\ o \in ViProc /\ ViBooter \in ViProc
        BY ViAssumption DEF ViProc
      <3>2. ViBusy = {} \/ (op # "force" /\ viCmd[ViBooter].op # "force")
        BY <1>6
      <3>3. CASE q = ViBooter
        <4>1. viRing = 0 \/ op = "force"
          BY <1>3, <1>5, <2>1, <3>3
        <4>2. viCmd[o].at = "idle"
          BY <1>7, <3>1, <3>2, <4>1 DEF ViInv, ViAloneInv, ViBusy
        <4> QED BY <2>1, <3>1, <3>3, <4>2
      <3>4. CASE q # ViBooter
        <4>1. viRing # 0 /\ viCmd'[ViBooter] = viCmd[ViBooter]
          BY <1>4, <2>1, <3>1, <3>4
        <4>2. viCmd[ViBooter].op = "force"
          BY <1>5, <4>1
        <4>3. viCmd[ViBooter].at # "idle"
          BY <3>1, <4>2 DEF ViInv, ViShape
        <4> QED BY <3>1, <3>2, <4>2, <4>3 DEF ViBusy
      <3> QED BY <3>3, <3>4
    <2>3. viCmds' # 0
      BY <1>4 DEF ViInv, ViTypeOK
    <2>4. viRef' # 0 => viRef' \in ViItem /\ viRef' <= viNew'
      BY <1>5 DEF ViInv, ViAloneInv
    <2> QED BY <2>2, <2>3, <2>4 DEF ViAloneInv
  <1>15. \A o \in ViProc : o # q /\ ViPending(viCmd[o]) =>
                 viSlot'[viCmd[o].acct] = viSlot[viCmd[o].acct] /\ viCmd[o].acct # viRef'
                 /\ (ViPending(r) => r.acct # viCmd[o].acct)
    BY <1>5, <1>9, ViOthersItems
  <1>16. UNCHANGED <<viFile, viRef, viSlot>>
    BY <1>5
  <1> QED BY <1>3, <1>4, <1>5, <1>7, <1>8, <1>9, <1>10, <1>11, <1>12, <1>13, <1>14, <1>15, <1>16, ViStep

\* Whatever dies or fails while commands move, replace and use the vault identity,
\* the identity of keyring.json is still stored somewhere, and it loads at every
\* moment unless a command looked at it in the middle of a move
\* (vault_identity.go:130, 162), for any number of opening commands.
THEOREM VaultIdentityKept == ViInit /\ [][ViNext]_viVars => []IdentityKept
  <1>1. ViInit => ViInv
    <2> SUFFICES ASSUME ViInit PROVE ViInv
      OBVIOUS
    <2>1. PICK r \in ViRecord : r = ViRest
      BY ViRestRecord
    <2>2. r.at = "idle" /\ ~ViPending(r) /\ \A p \in ViProc : ViShape(p, r)
      BY <2>1, ViRestRecord
    <2>3. \A p \in ViProc : viCmd[p] = r
      BY <2>1 DEF ViInit
    <2>4. ViTypeOK
      BY <2>1 DEF ViInit, ViTypeOK
    <2>5. ViAloneInv /\ ViOwnInv /\ ViKeptInv /\ ViAgreeInv /\ IdentityLoads
      BY <2>2, <2>3 DEF ViInit, ViAloneInv, ViOwnInv, ViKeptInv, ViAgreeInv, IdentityLoads, ViLive, ViProc
    <2>6. ViFacts(r)
      BY <2>2 DEF ViFacts, ViPending
    <2>7. \A p \in ViProc : ViShape(p, viCmd[p]) /\ ViFacts(viCmd[p])
      BY <2>2, <2>3, <2>6 DEF ViFacts, ViPending
    <2> QED BY <2>4, <2>5, <2>7 DEF ViInv
  <1>2. ViInv /\ [ViNext]_viVars => ViInv'
    <2> SUFFICES ASSUME ViInv, [ViNext]_viVars PROVE ViInv'
      OBVIOUS
    <2>1. CASE UNCHANGED viVars
      <3>1. /\ viFile' = viFile /\ viMark' = viMark /\ viRef' = viRef /\ viSlot' = viSlot /\ viRing' = viRing /\ viNew' = viNew
            /\ viCmd' = viCmd /\ viCmds' = viCmds /\ viGone' = viGone /\ viTorn' = viTorn /\ viOver' = viOver
        BY <2>1 DEF viVars
      <3>2. ViTypeOK' /\ ViAloneInv' /\ ViOwnInv' /\ ViAgreeInv' /\ IdentityLoads'
        BY <3>1 DEF ViInv, ViTypeOK, ViAloneInv, ViOwnInv, ViAgreeInv, IdentityLoads, LoadIdentity, ViPending
      <3>3. (ViSettled' <=> ViSettled) /\ (ViLive' <=> ViLive)
        BY <3>1 DEF ViSettled, ViLive, ViPending
      <3>4. ViKeptInv'
        BY <3>1, <3>3 DEF ViInv, ViKeptInv
      <3>5. ASSUME NEW p \in ViProc PROVE ViShape(p, viCmd'[p]) /\ ViFacts(viCmd[p])'
        BY <3>1, <3>3, <3>5 DEF ViInv, ViFacts, ViPending, LoadIdentity
      <3> QED BY <3>2, <3>4, <3>5 DEF ViInv
    <2>2. CASE OlderInstall
      BY <2>2, ViOlder
    <2>3. ASSUME NEW q \in ViProc, NEW op \in {"open", "bootstrap", "force"}, NEW i \in BOOLEAN, NEW s \in BOOLEAN,
                 ViStart(q, op, i, s)
          PROVE  ViInv'
      BY <2>3, ViStarts
    <2>4. ASSUME NEW q \in ViProc,
                 \/ StatRef(q) \/ PlanIdentity(q) \/ SecureVaultIdentity(q) \/ MigLocate(q) \/ MigRead(q) \/ MigCompare(q)
                 \/ KeyringStore(q) \/ KeyringStoreFails(q) \/ ReadBack(q) \/ WriteRef(q) \/ WriteRefFails(q)
          PROVE  ViInv'
      BY <2>4, ViStatRef, ViPlan, ViSecure, ViMigLocate, ViMigRead, ViMigCompare, ViKeyringStore, ViStoreFails, ViReadBack,
         ViWriteRef, ViWriteRefFails, Zenon
    <2>5. ASSUME NEW q \in ViProc,
                 \/ Shred(q) \/ Unlink(q) \/ Unmark(q) \/ WriteIdentity(q) \/ Acknowledge(q)
                 \/ RemoveItem(q) \/ RemoveRef(q) \/ RemoveMark(q)
                 \/ RingExists(q) \/ RingDerive(q) \/ RingWrite(q) \/ OpenRing(q) \/ ViCrash(q)
          PROVE  ViInv'
      BY <2>5, ViShred, ViUnlink, ViUnmark, ViWriteIdentity, ViAcknowledge, ViRemoveItem, ViRemoveRef, ViRemoveMark,
         ViRingExists, ViRingDerive, ViRingWrite, ViOpenRing, ViDies, Zenon
    <2> QED BY <2>1, <2>2, <2>3, <2>4, <2>5 DEF ViNext
  <1>3. ViInv => IdentityKept
    BY DEF ViInv, IdentityKept, IdentityNotDestroyed, ViKeptInv, ViLive, ViSettled
  <1> QED BY <1>1, <1>2, <1>3, PTL

-----------------------------------------------------------------------------
\* The versions of one secret

\* One command at a time, no limit of one, and no call that is split by the end
\* of a second.
VvOne ==
    /\ \A p, q \in Procs : p = q
    /\ DefaultMax > 1 /\ 1 \notin Limits
    /\ "split" \notin Faults

\* The list holds the newest versions, without a hole.
VvList(m) ==
    /\ Len(m.versions) <= m.cur
    /\ m.cur > 0 => Len(m.versions) > 0
    /\ \A i \in DOMAIN m.versions : m.versions[i].v = (m.cur - Len(m.versions)) + i

VvMetaInv ==
    /\ VvList(meta) /\ meta.cur <= writes /\ meta.max > 0
    /\ meta.cur > 0 => ~ meta.versions[Len(meta.versions)].destroyed /\ Readable(meta.cur)
    /\ \A i \in DOMAIN meta.versions :
          i > 1 /\ ~ meta.versions[i].destroyed => Readable(meta.versions[i].v) \/ meta.versions[i].v \in tried

VvAckedInv ==
    /\ \A a \in acked : a.v <= meta.cur /\ (ct[a.v] # NoFile => ct[a.v].val = a.val)
    /\ VersionsUnique

VvGoneInv ==
    \A v \in gone : v <= meta.cur /\ \A i \in DOMAIN meta.versions : meta.versions[i].v = v => meta.versions[i].destroyed

VvWriting == {"bind", "ct", "nonce", "side", "evict", "save"}
VvWritten(c) == [id |-> c.id, val |-> c.val, created |-> c.created]
VvNew == [v |-> meta.cur + 1, destroyed |-> FALSE]

\* A call at a step: its copy of the metadata is one version ahead, and the files
\* it has written so far are of its sealing.
VvCallInv(step, c) ==
    /\ step \in VvWriting =>
          /\ c.meta.cur = meta.cur + 1 /\ c.meta.cur <= writes /\ c.meta.max > 0
          /\ c.meta.versions = Append(meta.versions, VvNew)
    /\ step \in VvWriting \cup {"rotate", "emit"} => c.val \in Version
    /\ step \in VvWriting => c.id \in Version /\ c.created \in 1..MaxSec
    /\ step = "bind" => c.created = now
    /\ step \in VvWriting \ {"bind"} => c.bound = c.created
    /\ step \in VvWriting \ {"bind", "ct"} => ct[c.meta.cur] = VvWritten(c)
    /\ step \in {"side", "evict", "save"} => nonce[c.meta.cur] = c.id
    /\ step \in {"evict", "save"} => side[c.meta.cur] = c.created
    /\ step = "evict" => Len(c.meta.versions) > c.meta.max
    /\ step = "undo" => c.meta.cur = meta.cur + 1 /\ c.meta.cur <= writes
    /\ step = "emit" => /\ c.meta.cur = meta.cur /\ meta.cur > 0 /\ ct[meta.cur].val = c.val
                        /\ \A a \in acked : a.v < meta.cur
    /\ step = "read" => c.v \in Version
    /\ step \in {"drop", "mark"} => c.meta = meta /\ c.v \in tried /\ c.v # meta.cur /\ Found(meta, c.v)

VvInv ==
    /\ TypeOK /\ VvMetaInv /\ VvAckedInv /\ VvGoneInv
    /\ \A p \in Procs : VvCallInv(pc[p], call[p])

VvCall ==
    [op : Ops \cup {"rotate"}, v : 0 .. MaxWrites, val : 0 .. MaxWrites, id : 0 .. MaxWrites,
     created : 0 .. MaxSec, bound : 0 .. MaxSec, meta : MetaType]

\* The step and the locals of the one process, and what it leaves alone.
LEMMA VvSteps ==
    ASSUME TypeOK, VvOne, NEW p \in Procs, NEW step \in Steps, NEW c \in VvCall,
           pc' = [pc EXCEPT ![p] = step], call' = [call EXCEPT ![p] = c], VvCallInv(step, c)'
    PROVE  /\ pc' \in [Procs -> Steps] /\ call' \in [Procs -> VvCall]
           /\ \A q \in Procs : VvCallInv(pc[q], call[q])'
  <1>1. pc \in [Procs -> Steps] /\ call \in [Procs -> VvCall]
    BY DEF TypeOK, VvCall
  <1>2. pc' \in [Procs -> Steps] /\ call' \in [Procs -> VvCall] /\ pc'[p] = step /\ call'[p] = c
    BY <1>1
  <1>3. \A q \in Procs : q = p
    BY DEF VvOne
  <1>4. \A q \in Procs : pc'[q] = step /\ call'[q] = c
    BY <1>2, <1>3
  <1>5. \A q \in Procs : VvCallInv(pc[q], call[q])'
    BY <1>4 DEF VvCallInv
  <1> QED BY <1>2, <1>5

\* A call that is over.
LEMMA VvReturns ==
    ASSUME TypeOK, VvOne, NEW p \in Procs, Return(p)
    PROVE  /\ pc' \in [Procs -> Steps] /\ call' \in [Procs -> VvCall]
           /\ \A q \in Procs : VvCallInv(pc[q], call[q])'
  <1>1. <<>> \in Seq([v : Version, destroyed : BOOLEAN])
    OBVIOUS
  <1>2. NewMeta \in MetaType
    BY <1>1, VersionsAssumption DEF NewMeta, MetaType
  <1>3. NoCall \in VvCall
    BY <1>2, VersionsAssumption DEF NoCall, VvCall
  <1>4. VvCallInv("idle", NoCall)'
    BY DEF VvCallInv, VvWriting
  <1>5. pc' = [pc EXCEPT ![p] = "idle"] /\ call' = [call EXCEPT ![p] = NoCall]
    BY DEF Return, Goto
  <1> QED BY <1>3, <1>4, <1>5, VvSteps DEF Steps

\* What the type invariant says of the files and of one call.
LEMMA VvTypes ==
    ASSUME TypeOK
    PROVE  /\ meta \in MetaType /\ meta.cur \in 0..MaxWrites /\ meta.max \in Nat /\ meta.versions \in Seq([v : Version, destroyed : BOOLEAN])
           /\ writes \in 0..MaxWrites /\ now \in 1..MaxSec /\ MaxWrites \in Nat /\ MaxSec \in Nat
           /\ \A p \in Procs : pc[p] \in Steps /\ call[p] \in VvCall
           /\ \A v \in Version : ct[v] \in [id : Version, val : Version, created : 1 .. MaxSec] \cup {NoFile}
  BY VersionsAssumption DEF TypeOK, MetaType, VvCall

\* Metadata with the next version in it.
LEMMA VvExtended ==
    ASSUME TypeOK, NEW limit \in Nat, limit > 0 => limit \in Limits, meta.cur < MaxWrites
    PROVE  /\ Extended(meta, limit) \in MetaType /\ Extended(meta, limit).cur = meta.cur + 1
           /\ meta.max > 0 => Extended(meta, limit).max > 0
           /\ Extended(meta, limit).versions = Append(meta.versions, VvNew)
  <1>1. VvNew \in [v : Version, destroyed : BOOLEAN]
    BY VvTypes DEF VvNew, Version
  <1>2. Append(meta.versions, VvNew) \in Seq([v : Version, destroyed : BOOLEAN])
    BY <1>1, VvTypes
  <1>3. Extended(meta, limit) = [cur |-> meta.cur + 1, max |-> IF limit > 0 THEN limit ELSE meta.max, versions |-> Append(meta.versions, VvNew)]
    BY DEF Extended, NewVersion, VvNew
  <1>4. (IF limit > 0 THEN limit ELSE meta.max) \in {DefaultMax} \cup Limits
    BY DEF TypeOK, MetaType
  <1> QED BY <1>2, <1>3, <1>4, VvTypes DEF MetaType

\* A sealing begins.
LEMMA VvLoads ==
    ASSUME VvInv, VvOne, NEW p \in Procs, NEW op \in Ops \cup {"rotate"}, NEW from \in 0..MaxWrites, NEW value \in Version,
           NEW limit \in Nat, limit > 0 => limit \in Limits, writes < MaxWrites, Load(p, op, from, value, limit)
    PROVE  VvInv'
  <1>1. TypeOK /\ meta.cur <= writes /\ meta.cur < MaxWrites /\ meta.max > 0
    <2>1. TypeOK /\ meta.cur <= writes /\ meta.max > 0
      BY DEF VvInv, VvMetaInv
    <2> QED BY <2>1, VvTypes
  <1>2. /\ Extended(meta, limit) \in MetaType /\ Extended(meta, limit).cur = meta.cur + 1 /\ Extended(meta, limit).max > 0
        /\ Extended(meta, limit).versions = Append(meta.versions, VvNew)
    BY <1>1, VvExtended
  <1>3. PICK c \in VvCall : c = [op |-> op, v |-> from, val |-> value, id |-> writes + 1,
                                created |-> now, bound |-> now, meta |-> Extended(meta, limit)]
    <2>1. value \in 0..MaxWrites /\ writes + 1 \in 0..MaxWrites /\ now \in 0..MaxSec
      BY <1>1, VvTypes DEF Version
    <2> QED BY <1>2, <2>1 DEF VvCall
  <1>4. /\ meta' = meta /\ ct' = ct /\ nonce' = nonce /\ side' = side /\ now' = now /\ writes' = writes + 1
        /\ acked' = acked /\ gone' = gone /\ tried' = tried
        /\ pc' = [pc EXCEPT ![p] = "bind"] /\ call' = [call EXCEPT ![p] = c]
    BY <1>3 DEF Load, Goto, fileVars, histVars
  <1>5. /\ c.meta.cur = meta.cur + 1 /\ c.meta.versions = Append(meta.versions, VvNew) /\ c.meta.max > 0
        /\ c.val = value /\ c.id = writes + 1 /\ c.created = now
    BY <1>2, <1>3
  <1>6. VvCallInv("bind", c)'
    BY <1>1, <1>4, <1>5, VvTypes DEF VvCallInv, VvWriting, Version, VvNew
  <1>7. /\ pc' \in [Procs -> Steps] /\ call' \in [Procs -> VvCall]
        /\ \A q \in Procs : VvCallInv(pc[q], call[q])'
    BY <1>1, <1>4, <1>6, VvSteps DEF Steps
  <1>8. TypeOK'
    <2>1. writes' \in 0..MaxWrites
      BY <1>1, <1>4, VvTypes
    <2> QED BY <1>1, <1>4, <1>7, <2>1 DEF TypeOK, VvCall
  <1>9. VvMetaInv' /\ VvAckedInv' /\ VvGoneInv'
    BY <1>1, <1>4, VvTypes DEF VvInv, VvMetaInv, VvList, Readable, VvAckedInv, VersionsUnique, VvGoneInv
  <1> QED BY <1>7, <1>8, <1>9 DEF VvInv

\* The versions of the list.
LEMMA VvListed ==
    ASSUME VvInv
    PROVE  /\ \A i \in DOMAIN meta.versions :
                 /\ meta.versions[i].v \in Version /\ meta.versions[i].v <= meta.cur
                 /\ i < Len(meta.versions) => meta.versions[i].v < meta.cur
           /\ meta.cur > 0 => /\ Len(meta.versions) \in DOMAIN meta.versions
                              /\ meta.versions[Len(meta.versions)].v = meta.cur
  <1>1. TypeOK /\ VvList(meta)
    BY DEF VvInv, VvMetaInv
  <1>2. meta.versions \in Seq([v : Version, destroyed : BOOLEAN]) /\ meta.cur \in 0..MaxWrites
    BY <1>1, VvTypes
  <1>3. \A i \in DOMAIN meta.versions : meta.versions[i] \in [v : Version, destroyed : BOOLEAN]
    <2> DEFINE E == [v : Version, destroyed : BOOLEAN]
    <2>1. meta.versions \in Seq(E)
      BY <1>2
    <2> HIDE DEF E
    <2>2. \A i \in DOMAIN meta.versions : meta.versions[i] \in E
      BY <2>1
    <2> QED BY <2>2 DEF E
  <1>4. DOMAIN meta.versions = 1..Len(meta.versions) /\ Len(meta.versions) \in Nat
    BY <1>2
  <1>5. \A i \in DOMAIN meta.versions : meta.versions[i].v = (meta.cur - Len(meta.versions)) + i
    BY <1>1 DEF VvList
  <1>6. meta.cur > 0 => Len(meta.versions) > 0
    BY <1>1 DEF VvList
  <1>7. meta.cur \in Nat
    BY <1>2
  <1> HIDE DEF Version
  <1>8. \A i \in DOMAIN meta.versions : meta.versions[i].v \in Version
    BY <1>3
  <1> QED BY <1>4, <1>5, <1>6, <1>7, <1>8

\* What was promised of the versions does not depend on the files of other ones.
LEMMA VvBeyond ==
    ASSUME VvInv, meta' = meta, writes' = writes, acked' = acked, gone' = gone, tried \subseteq tried',
           \A v \in Version : v <= meta.cur => ct'[v] = ct[v] /\ nonce'[v] = nonce[v] /\ side'[v] = side[v]
    PROVE  VvMetaInv' /\ VvAckedInv' /\ VvGoneInv'
  <1>1. TypeOK /\ VvMetaInv /\ VvAckedInv /\ VvGoneInv
    BY DEF VvInv
  <1>2. \A v \in Version : v <= meta.cur => (Readable(v)' <=> Readable(v))
    BY DEF Readable
  <1>3. meta.cur > 0 => meta.cur \in Version
    BY VvListed
  <1>4. meta.cur \in 0..MaxWrites /\ acked \subseteq [v : Version, val : Version]
    BY <1>1, VvTypes DEF TypeOK
  <1>5. VvMetaInv'
    <2>1. VvList(meta)' /\ (meta.cur <= writes)' /\ (meta.max > 0)'
      BY <1>1 DEF VvMetaInv, VvList
    <2>2. (meta.cur > 0 => ~ meta.versions[Len(meta.versions)].destroyed /\ Readable(meta.cur))'
      <3>1. meta.cur > 0 => (Readable(meta.cur)' <=> Readable(meta.cur))
        BY <1>3, <1>4 DEF Readable
      <3> QED BY <1>1, <3>1 DEF VvMetaInv
    <2>3. ASSUME NEW i \in DOMAIN meta.versions, i > 1, ~ meta.versions[i].destroyed
          PROVE  Readable(meta.versions[i].v)' \/ meta.versions[i].v \in tried'
      <3>1. Readable(meta.versions[i].v) \/ meta.versions[i].v \in tried
        BY <1>1, <2>3 DEF VvMetaInv
      <3>2. Readable(meta.versions[i].v)' <=> Readable(meta.versions[i].v)
        BY VvListed DEF Readable
      <3> QED BY <3>1, <3>2
    <2> QED BY <2>1, <2>2, <2>3 DEF VvMetaInv
  <1>6. VvAckedInv'
    BY <1>1, <1>4 DEF VvAckedInv, VersionsUnique
  <1>7. VvGoneInv'
    BY <1>1 DEF VvGoneInv
  <1> QED BY <1>5, <1>6, <1>7

\* Neither does it depend on a ciphertext that may go: of a version whose
\* destruction was begun, of the oldest of several, of one that is not listed.
LEMMA VvRemoves ==
    ASSUME VvInv, NEW v \in Version, Removing(v), v # meta.cur,
           v \in tried \/ v > meta.cur \/ (Len(meta.versions) > 1 /\ v = meta.versions[1].v),
           meta' = meta, writes' = writes, acked' = acked, gone' = gone, tried' = tried, nonce' = nonce, side' = side
    PROVE  /\ VvMetaInv' /\ VvAckedInv' /\ VvGoneInv'
           /\ ct' \in [Version -> [id : Version, val : Version, created : 1 .. MaxSec] \cup {NoFile}]
  <1>1. TypeOK /\ VvMetaInv /\ VvAckedInv /\ VvGoneInv
    BY DEF VvInv
  <1>2. ct' \in [Version -> [id : Version, val : Version, created : 1 .. MaxSec] \cup {NoFile}]
    BY <1>1 DEF TypeOK, Removing
  <1>3. \A w \in Version : ct'[w] = ct[w] \/ ct'[w] = NoFile
    BY <1>1 DEF TypeOK, Removing
  <1>4. \A w \in Version : w # v => ct'[w] = ct[w]
    BY <1>1 DEF TypeOK, Removing
  <1>5. \A w \in Version : w # v => (Readable(w)' <=> Readable(w))
    BY <1>4 DEF Readable
  <1>6. meta.cur \in 0..MaxWrites /\ acked \subseteq [v : Version, val : Version]
    BY <1>1, VvTypes DEF TypeOK
  <1>7. VvMetaInv'
    <2>1. VvList(meta)' /\ (meta.cur <= writes)' /\ (meta.max > 0)'
      BY <1>1 DEF VvMetaInv, VvList
    <2>2. (meta.cur > 0 => ~ meta.versions[Len(meta.versions)].destroyed /\ Readable(meta.cur))'
      <3>1. meta.cur > 0 => meta.cur \in Version
        BY VvListed
      <3>2. meta.cur > 0 => (Readable(meta.cur)' <=> Readable(meta.cur))
        BY <1>4, <3>1 DEF Readable
      <3> QED BY <1>1, <3>2 DEF VvMetaInv
    <2>3. ASSUME NEW i \in DOMAIN meta.versions, i > 1, ~ meta.versions[i].destroyed
          PROVE  Readable(meta.versions[i].v)' \/ meta.versions[i].v \in tried'
      <3>1. Readable(meta.versions[i].v) \/ meta.versions[i].v \in tried
        BY <1>1, <2>3 DEF VvMetaInv
      <3>2. meta.versions[i].v \in Version
        BY VvListed
      <3>3. meta.versions[i].v # v => (Readable(meta.versions[i].v)' <=> Readable(meta.versions[i].v))
        BY <1>4, <3>2 DEF Readable
      <3>4. meta.versions[i].v <= meta.cur
        BY VvListed
      <3>5. meta.versions[i].v = v => v \in tried
        <4>1. 1 \in DOMAIN meta.versions /\ i \in Nat
          BY <1>1, <2>3, VvTypes
        <4>2. meta.versions[1].v # meta.versions[i].v
          <5>1. \A j \in DOMAIN meta.versions : meta.versions[j].v = (meta.cur - Len(meta.versions)) + j
            BY <1>1 DEF VvMetaInv, VvList
          <5>2. meta.cur - Len(meta.versions) \in Int
            BY <1>1, VvTypes
          <5> QED BY <2>3, <4>1, <5>1, <5>2
        <4> QED BY <3>4, <4>2, <1>6 DEF Version
      <3> QED BY <3>1, <3>3, <3>5
    <2> QED BY <2>1, <2>2, <2>3 DEF VvMetaInv
  <1>8. VvAckedInv'
    BY <1>1, <1>3, <1>6 DEF VvAckedInv, VersionsUnique
  <1>9. VvGoneInv'
    BY <1>1 DEF VvGoneInv
  <1> QED BY <1>2, <1>7, <1>8, <1>9

\* The clock and the files of the version that is written.
LEMMA VvBind == ASSUME VvInv, VvOne, NEW p \in Procs, Bind(p) PROVE VvInv'
  <1>1. TypeOK /\ VvCallInv("bind", call[p])
    BY DEF VvInv, Bind
  <1>2. PICK c \in VvCall : c = [call[p] EXCEPT !.bound = now]
    <2>1. now \in 0..MaxSec /\ call[p] \in VvCall
      BY <1>1, VvTypes
    <2> QED BY <2>1 DEF VvCall
  <1>3. /\ meta' = meta /\ ct' = ct /\ nonce' = nonce /\ side' = side /\ now' = now /\ writes' = writes
        /\ acked' = acked /\ gone' = gone /\ tried' = tried
        /\ pc' = [pc EXCEPT ![p] = "ct"] /\ call' = [call EXCEPT ![p] = c]
    BY <1>1, <1>2 DEF Bind, Goto, fileVars, histVars, TypeOK
  <1>4. call[p] \in VvCall
    BY <1>1, VvTypes
  <1>5. c.meta = call[p].meta /\ c.val = call[p].val /\ c.id = call[p].id /\ c.created = call[p].created /\ c.bound = now
    BY <1>2, <1>4 DEF VvCall
  <1>6. VvCallInv("ct", c)'
    BY <1>1, <1>3, <1>5 DEF VvCallInv, VvWriting, VvNew
  <1>7. /\ pc' \in [Procs -> Steps] /\ call' \in [Procs -> VvCall]
        /\ \A q \in Procs : VvCallInv(pc[q], call[q])'
    BY <1>1, <1>3, <1>6, VvSteps DEF Steps
  <1>8. TypeOK'
    BY <1>1, <1>3, <1>7 DEF TypeOK, VvCall
  <1> QED BY <1>3, <1>7, <1>8, VvBeyond DEF VvInv

LEMMA VvWriteCiphertext == ASSUME VvInv, VvOne, NEW p \in Procs, WriteCiphertext(p) PROVE VvInv'
  <1>1. TypeOK /\ VvCallInv("ct", call[p])
    BY DEF VvInv, WriteCiphertext
  <1>2. PICK c \in VvCall : c = call[p]
    BY <1>1, VvTypes
  <1>3. PICK t \in Version : t = c.meta.cur /\ t = meta.cur + 1
    <2>1. c.meta.cur = meta.cur + 1 /\ c.meta.cur <= writes
      BY <1>1, <1>2 DEF VvCallInv, VvWriting
    <2> QED BY <1>1, <2>1, VvTypes DEF Version
  <1>4. PICK f \in [id : Version, val : Version, created : 1 .. MaxSec] : f = VvWritten(c)
    BY <1>1, <1>2 DEF VvCallInv, VvWriting, VvWritten
  <1>5. /\ meta' = meta /\ ct' = [ct EXCEPT ![t] = f] /\ nonce' = nonce /\ side' = side /\ now' = now /\ writes' = writes
        /\ acked' = acked /\ gone' = gone /\ tried' = tried
        /\ pc' = [pc EXCEPT ![p] = "nonce"] /\ call' = [call EXCEPT ![p] = c]
    BY <1>1, <1>2, <1>3, <1>4 DEF WriteCiphertext, Target, VvWritten, Goto, fileVars, histVars, TypeOK
  <1>6. ct' \in [Version -> [id : Version, val : Version, created : 1 .. MaxSec] \cup {NoFile}] /\ ct'[t] = f
    BY <1>1, <1>5 DEF TypeOK
  <1>7. VvCallInv("nonce", c)'
    BY <1>1, <1>2, <1>3, <1>4, <1>5, <1>6 DEF VvCallInv, VvWriting, VvNew, VvWritten
  <1>8. /\ pc' \in [Procs -> Steps] /\ call' \in [Procs -> VvCall]
        /\ \A q \in Procs : VvCallInv(pc[q], call[q])'
    BY <1>1, <1>5, <1>7, VvSteps DEF Steps
  <1>9. TypeOK'
    BY <1>1, <1>5, <1>6, <1>8 DEF TypeOK, VvCall
  <1>10. \A v \in Version : v <= meta.cur => ct'[v] = ct[v]
    <2>1. \A v \in Version : v <= meta.cur => v # t
      BY <1>1, <1>3, VvTypes DEF Version
    <2> QED BY <1>1, <1>5, <2>1 DEF TypeOK
  <1> QED BY <1>5, <1>8, <1>9, <1>10, VvBeyond DEF VvInv

LEMMA VvWriteNonce == ASSUME VvInv, VvOne, NEW p \in Procs, WriteNonce(p) PROVE VvInv'
  <1>1. TypeOK /\ VvCallInv("nonce", call[p])
    BY DEF VvInv, WriteNonce
  <1>2. PICK c \in VvCall : c = call[p]
    BY <1>1, VvTypes
  <1>3. PICK t \in Version : t = c.meta.cur /\ t = meta.cur + 1 /\ c.id \in Version
    <2>1. c.meta.cur = meta.cur + 1 /\ c.meta.cur <= writes /\ c.id \in Version
      BY <1>1, <1>2 DEF VvCallInv, VvWriting
    <2> QED BY <1>1, <2>1, VvTypes DEF Version
  <1>5. /\ meta' = meta /\ ct' = ct /\ nonce' = [nonce EXCEPT ![t] = c.id] /\ side' = side /\ now' = now /\ writes' = writes
        /\ acked' = acked /\ gone' = gone /\ tried' = tried
        /\ pc' = [pc EXCEPT ![p] = "side"] /\ call' = [call EXCEPT ![p] = c]
    BY <1>1, <1>2, <1>3 DEF WriteNonce, Target, Goto, fileVars, histVars, TypeOK
  <1>6. nonce' \in [Version -> Version \cup {None}] /\ nonce'[t] = c.id
    BY <1>1, <1>3, <1>5 DEF TypeOK
  <1>7. VvCallInv("side", c)'
    BY <1>1, <1>2, <1>3, <1>5, <1>6 DEF VvCallInv, VvWriting, VvNew, VvWritten
  <1>8. /\ pc' \in [Procs -> Steps] /\ call' \in [Procs -> VvCall]
        /\ \A q \in Procs : VvCallInv(pc[q], call[q])'
    BY <1>1, <1>5, <1>7, VvSteps DEF Steps
  <1>9. TypeOK'
    BY <1>1, <1>5, <1>6, <1>8 DEF TypeOK, VvCall
  <1>10. \A v \in Version : v <= meta.cur => nonce'[v] = nonce[v]
    <2>1. \A v \in Version : v <= meta.cur => v # t
      BY <1>1, <1>3, VvTypes DEF Version
    <2> QED BY <1>1, <1>5, <2>1 DEF TypeOK
  <1> QED BY <1>5, <1>8, <1>9, <1>10, VvBeyond DEF VvInv

LEMMA VvWriteSidecar == ASSUME VvInv, VvOne, NEW p \in Procs, WriteSidecar(p) PROVE VvInv'
  <1>1. TypeOK /\ VvCallInv("side", call[p])
    BY DEF VvInv, WriteSidecar
  <1>2. PICK c \in VvCall : c = call[p]
    BY <1>1, VvTypes
  <1>3. PICK t \in Version : t = c.meta.cur /\ t = meta.cur + 1 /\ c.bound = c.created /\ c.created \in 1..MaxSec
    <2>1. c.meta.cur = meta.cur + 1 /\ c.meta.cur <= writes /\ c.bound = c.created /\ c.created \in 1..MaxSec
      BY <1>1, <1>2 DEF VvCallInv, VvWriting
    <2> QED BY <1>1, <2>1, VvTypes DEF Version
  <1>4. PICK step \in {"evict", "save"} :
           /\ pc' = [pc EXCEPT ![p] = step] /\ (step = "evict" => Enforced(c.meta) # c.meta.versions)
    BY <1>2 DEF WriteSidecar, Goto
  <1>5. /\ meta' = meta /\ ct' = ct /\ nonce' = nonce /\ side' = [side EXCEPT ![t] = c.created] /\ now' = now /\ writes' = writes
        /\ acked' = acked /\ gone' = gone /\ tried' = tried /\ call' = [call EXCEPT ![p] = c]
    BY <1>1, <1>2, <1>3 DEF WriteSidecar, Target, Goto, fileVars, histVars, TypeOK
  <1>6. side' \in [Version -> (1 .. MaxSec) \cup {None}] /\ side'[t] = c.created
    BY <1>1, <1>3, <1>5 DEF TypeOK
  <1>7. step = "evict" => Len(c.meta.versions) > c.meta.max
    BY <1>4 DEF Enforced
  <1>8. VvCallInv(step, c)'
    BY <1>1, <1>2, <1>3, <1>4, <1>5, <1>6, <1>7 DEF VvCallInv, VvWriting, VvNew, VvWritten
  <1>9. /\ pc' \in [Procs -> Steps] /\ call' \in [Procs -> VvCall]
        /\ \A q \in Procs : VvCallInv(pc[q], call[q])'
    BY <1>1, <1>4, <1>5, <1>8, VvSteps DEF Steps
  <1>10. TypeOK'
    BY <1>1, <1>5, <1>6, <1>9 DEF TypeOK, VvCall
  <1>11. \A v \in Version : v <= meta.cur => side'[v] = side[v]
    <2>1. \A v \in Version : v <= meta.cur => v # t
      BY <1>1, <1>3, VvTypes DEF Version
    <2> QED BY <1>1, <1>5, <2>1 DEF TypeOK
  <1> QED BY <1>5, <1>9, <1>10, <1>11, VvBeyond DEF VvInv

\* No limit is one.
LEMMA VvLimit == ASSUME VvOne, NEW c \in VvCall PROVE c.meta.max \in Nat /\ c.meta.max # 1
  <1>1. PICK m \in {DefaultMax} \cup Limits : m = c.meta.max
    BY DEF VvCall, MetaType
  <1>2. DefaultMax \in Nat /\ DefaultMax # 1
    BY VersionsAssumption DEF VvOne
  <1>3. \A l \in Limits : l \in Nat /\ l # 1
    BY VersionsAssumption DEF VvOne
  <1> QED BY <1>1, <1>2, <1>3

\* The oldest version of a list that is over its limit.
LEMMA VvOldest ==
    ASSUME VvInv, VvOne, NEW c \in VvCall, VvCallInv("evict", c)
    PROVE  /\ Len(meta.versions) > 1 /\ Oldest(c.meta) = meta.versions[1].v
           /\ Oldest(c.meta) \in Version /\ Oldest(c.meta) < meta.cur
  <1>1. c.meta.max > 1
    <2>1. c.meta.max > 0
      BY DEF VvCallInv, VvWriting
    <2> QED BY <2>1, VvLimit
  <1>2. c.meta.versions = Append(meta.versions, VvNew) /\ Len(c.meta.versions) > c.meta.max
    BY DEF VvCallInv, VvWriting
  <1>3. meta.versions \in Seq([v : Version, destroyed : BOOLEAN]) /\ c.meta.max \in Nat
    BY VvTypes, VersionsAssumption DEF VvInv, VvCall, MetaType
  <1>4. Len(meta.versions) > 1 /\ c.meta.versions[1] = meta.versions[1] /\ 1 \in DOMAIN meta.versions
    BY <1>1, <1>2, <1>3
  <1> QED BY <1>4, VvListed DEF Oldest

LEMMA VvEvict == ASSUME VvInv, VvOne, NEW p \in Procs, Evict(p) PROVE VvInv'
  <1>1. TypeOK /\ VvCallInv("evict", call[p])
    BY DEF VvInv, Evict
  <1>2. PICK c \in VvCall : c = call[p]
    BY <1>1, VvTypes
  <1>3. PICK v \in Version : v = Oldest(c.meta) /\ v < meta.cur /\ Len(meta.versions) > 1 /\ v = meta.versions[1].v
    BY <1>1, <1>2, VvOldest
  <1>4. /\ meta' = meta /\ Removing(v) /\ nonce' = nonce /\ side' = side /\ now' = now /\ writes' = writes
        /\ acked' = acked /\ gone' = gone /\ tried' = tried
        /\ pc' = [pc EXCEPT ![p] = "save"] /\ call' = [call EXCEPT ![p] = c]
    BY <1>1, <1>2, <1>3 DEF Evict, Goto, fileVars, histVars, TypeOK
  <1>5. meta.cur \in 0..MaxWrites
    BY <1>1, VvTypes
  <1>6. /\ VvMetaInv' /\ VvAckedInv' /\ VvGoneInv'
        /\ ct' \in [Version -> [id : Version, val : Version, created : 1 .. MaxSec] \cup {NoFile}]
    BY <1>3, <1>4, <1>5, VvRemoves DEF Version
  <1>7. ct'[meta.cur + 1] = ct[meta.cur + 1]
    <2>1. PICK t \in Version : t = meta.cur + 1
      BY <1>1, <1>2, <1>5, VvTypes DEF VvCallInv, VvWriting, Version
    <2>2. t # v
      BY <1>3, <1>5, <2>1 DEF Version
    <2> QED BY <1>1, <1>4, <2>1, <2>2 DEF Removing, TypeOK
  <1>8. VvCallInv("save", c)'
    BY <1>1, <1>2, <1>4, <1>7 DEF VvCallInv, VvWriting, VvNew, VvWritten
  <1>9. /\ pc' \in [Procs -> Steps] /\ call' \in [Procs -> VvCall]
        /\ \A q \in Procs : VvCallInv(pc[q], call[q])'
    BY <1>1, <1>4, <1>8, VvSteps DEF Steps
  <1>10. TypeOK'
    BY <1>1, <1>4, <1>6, <1>9 DEF TypeOK, VvCall
  <1> QED BY <1>6, <1>9, <1>10 DEF VvInv

\* The list a rotation saves: the old one, perhaps without its first version, and
\* the new version.
LEMMA VvSavedList ==
    ASSUME VvInv, VvOne, NEW c \in VvCall, c.meta.versions = Append(meta.versions, VvNew)
    PROVE  /\ Enforced(c.meta) \in Seq([v : Version, destroyed : BOOLEAN])
           /\ Len(Enforced(c.meta)) > 0
           /\ \/ Len(Enforced(c.meta)) = Len(meta.versions) + 1
                 /\ \A i \in DOMAIN Enforced(c.meta) :
                       Enforced(c.meta)[i] = IF i <= Len(meta.versions) THEN meta.versions[i] ELSE VvNew
              \/ /\ Len(Enforced(c.meta)) = Len(meta.versions)
                 /\ Len(meta.versions) > 0
                 /\ \A i \in DOMAIN Enforced(c.meta) :
                       Enforced(c.meta)[i] = IF i < Len(meta.versions) THEN meta.versions[i + 1] ELSE VvNew
           /\ Len(Enforced(c.meta)) <= c.meta.max \/ Len(Enforced(c.meta)) = Len(meta.versions) \/ c.meta.max = 0
  <1> DEFINE E == [v : Version, destroyed : BOOLEAN]
  <1>1. PICK s \in Seq(E) : s = meta.versions
    BY VvTypes DEF VvInv
  <1>2. PICK a \in Seq(E) : a = c.meta.versions
    BY DEF VvCall, MetaType
  <1>3. PICK x \in E : x = VvNew
    <2>1. Len(a) \in DOMAIN a /\ a[Len(a)] = VvNew
      BY <1>1, <1>2
    <2> HIDE DEF E
    <2> QED BY <1>2, <2>1
  <1>4. PICK m \in Nat : m = c.meta.max /\ m # 1
    BY VvLimit
  <1>5. Enforced(c.meta) = IF m > 0 /\ Len(a) > m THEN Tail(a) ELSE a
    BY <1>2, <1>4 DEF Enforced
  <1>6. a = Append(s, x)
    BY <1>1, <1>2, <1>3
  <1> HIDE DEF E
  <1>7. CASE m > 0 /\ Len(a) > m
    <2>1. Len(s) > 0 /\ Tail(a) \in Seq(E) /\ Len(Tail(a)) = Len(s)
      BY <1>4, <1>6, <1>7
    <2>2. \A i \in DOMAIN Tail(a) : Tail(a)[i] = IF i < Len(s) THEN s[i + 1] ELSE x
      BY <1>6, <2>1
    <2> QED BY <1>1, <1>3, <1>5, <1>7, <2>1, <2>2 DEF E
  <1>8. CASE ~ (m > 0 /\ Len(a) > m)
    <2>1. a \in Seq(E) /\ Len(a) = Len(s) + 1
      BY <1>6
    <2>2. \A i \in DOMAIN a : a[i] = IF i <= Len(s) THEN s[i] ELSE x
      BY <1>6
    <2> QED BY <1>1, <1>3, <1>4, <1>5, <1>8, <2>1, <2>2 DEF E
  <1> QED BY <1>7, <1>8

LEMMA VvSaveMeta == ASSUME VvInv, VvOne, NEW p \in Procs, SaveMeta(p) PROVE VvInv'
  <1>1. TypeOK /\ VvMetaInv /\ VvAckedInv /\ VvGoneInv /\ VvCallInv("save", call[p])
    BY DEF VvInv, SaveMeta
  <1>2. PICK c \in VvCall : c = call[p]
    BY <1>1, VvTypes
  <1>3. /\ c.meta.cur = meta.cur + 1 /\ c.meta.cur <= writes /\ c.meta.max > 0 /\ c.meta.versions = Append(meta.versions, VvNew)
        /\ c.val \in Version /\ c.id \in Version /\ c.created \in 1..MaxSec
        /\ ct[c.meta.cur] = VvWritten(c) /\ nonce[c.meta.cur] = c.id /\ side[c.meta.cur] = c.created
    BY <1>1, <1>2 DEF VvCallInv, VvWriting
  <1>4. PICK new \in Seq([v : Version, destroyed : BOOLEAN]) : new = Enforced(c.meta)
    BY <1>3, VvSavedList
  <1>5. /\ meta' \in MetaType /\ meta'.cur = meta.cur + 1 /\ meta'.versions = new /\ meta'.max > 0
        /\ ct' = ct /\ nonce' = nonce /\ side' = side /\ now' = now /\ writes' = writes
        /\ acked' = acked /\ gone' = gone /\ tried' = tried
        /\ pc' = [pc EXCEPT ![p] = "emit"] /\ call' = [call EXCEPT ![p] = c]
    <2>1. meta' = [c.meta EXCEPT !.versions = new] /\ c.meta \in MetaType
      BY <1>2, <1>4 DEF SaveMeta, SavedMeta, VvCall
    <2>2. meta' \in MetaType /\ meta'.cur = meta.cur + 1 /\ meta'.versions = new /\ meta'.max > 0
      BY <1>3, <2>1 DEF MetaType
    <2> QED BY <1>1, <1>2, <2>2 DEF SaveMeta, Goto, histVars, TypeOK
  <1>6. /\ meta.cur \in 0..MaxWrites /\ writes \in 0..MaxWrites /\ meta.cur + 1 \in Version
        /\ Len(meta.versions) \in Nat /\ Len(new) \in Nat /\ DOMAIN new = 1..Len(new)
        /\ DOMAIN meta.versions = 1..Len(meta.versions)
    BY <1>1, <1>3, VvTypes DEF Version
  <1>7. PICK d \in {0, 1} :
          /\ Len(new) = (Len(meta.versions) + 1) - d /\ Len(new) > 0
          /\ \A i \in 1..Len(new) : IF i < Len(new) THEN /\ i + d \in 1..Len(meta.versions)
                                                        /\ new[i] = meta.versions[i + d]
                                   ELSE new[i] = VvNew
    <2>1. CASE /\ Len(new) = Len(meta.versions) + 1
               /\ \A i \in DOMAIN new : new[i] = IF i <= Len(meta.versions) THEN meta.versions[i] ELSE VvNew
      <3>1. \A i \in 1..Len(new) : IF i < Len(new) THEN /\ i + 0 \in 1..Len(meta.versions)
                                                         /\ new[i] = meta.versions[i + 0]
                                   ELSE new[i] = VvNew
        BY <1>6, <2>1
      <3>2. Len(new) = (Len(meta.versions) + 1) - 0 /\ Len(new) > 0
        BY <1>6, <2>1
      <3> QED BY <3>1, <3>2
    <2>2. CASE /\ Len(new) = Len(meta.versions) /\ Len(meta.versions) > 0
               /\ \A i \in DOMAIN new : new[i] = IF i < Len(meta.versions) THEN meta.versions[i + 1] ELSE VvNew
      <3>1. \A i \in 1..Len(new) : IF i < Len(new) THEN /\ i + 1 \in 1..Len(meta.versions)
                                                         /\ new[i] = meta.versions[i + 1]
                                   ELSE new[i] = VvNew
        BY <1>6, <2>2
      <3>2. Len(new) = (Len(meta.versions) + 1) - 1 /\ Len(new) > 0
        BY <1>6, <2>2
      <3> QED BY <3>1, <3>2
    <2> QED BY <1>3, <1>4, <2>1, <2>2, VvSavedList
  <1>8. VvNew.v = meta.cur + 1 /\ VvNew.destroyed = FALSE
    BY DEF VvNew
  <1>9. VvList(meta')
    <2>1. Len(meta.versions) <= meta.cur
          /\ \A i \in 1..Len(meta.versions) : meta.versions[i].v = (meta.cur - Len(meta.versions)) + i
      BY <1>1, <1>6 DEF VvMetaInv, VvList
    <2>2. ASSUME NEW i \in 1..Len(new) PROVE new[i].v = ((meta.cur + 1) - Len(new)) + i
      <3>1. CASE i < Len(new)
        <4>1. i + d \in 1..Len(meta.versions) /\ new[i].v = meta.versions[i + d].v
          BY <1>7, <3>1
        <4>2. meta.versions[i + d].v = (meta.cur - Len(meta.versions)) + (i + d)
          BY <2>1, <4>1
        <4> QED BY <1>6, <1>7, <4>1, <4>2
      <3>2. CASE ~ (i < Len(new))
        <4>1. i = Len(new) /\ new[i].v = meta.cur + 1
          BY <1>6, <1>7, <1>8, <3>2
        <4> QED BY <1>6, <4>1
      <3> QED BY <3>1, <3>2
    <2>3. Len(new) <= meta.cur + 1
      BY <1>6, <1>7, <2>1
    <2> QED BY <1>5, <1>6, <1>7, <2>2, <2>3 DEF VvList
  <1>10. /\ meta'.cur \in Version /\ new[Len(new)] = VvNew
         /\ ct'[meta'.cur] = VvWritten(c) /\ VvWritten(c) # NoFile /\ nonce'[meta'.cur] = c.id /\ side'[meta'.cur] = c.created
    <2>1. VvWritten(c) # NoFile
      <3>1. VvWritten(c).id = c.id /\ NoFile.id = 0 /\ c.id # 0
        BY <1>3, VvTypes, <1>1 DEF VvWritten, NoFile, Version
      <3> QED BY <3>1
    <2> QED BY <1>3, <1>5, <1>6, <1>7, <2>1
  <1>11. Readable(meta.cur)'
    BY <1>10 DEF Readable, Opens, VvWritten
  <1>12. ASSUME NEW i \in 1..Len(new), i > 1, ~ new[i].destroyed
         PROVE  Readable(new[i].v)' \/ new[i].v \in tried'
    <2>1. CASE i < Len(new)
      <3>1. i + d \in 1..Len(meta.versions) /\ new[i] = meta.versions[i + d] /\ i + d > 1
        BY <1>6, <1>7, <1>12, <2>1
      <3>2. Readable(new[i].v) \/ new[i].v \in tried
        BY <1>1, <1>6, <1>12, <3>1 DEF VvMetaInv
      <3> QED BY <1>5, <3>2 DEF Readable
    <2>2. CASE ~ (i < Len(new))
      <3>1. new[i].v = meta'.cur
        BY <1>5, <1>7, <1>8, <2>2
      <3> QED BY <1>11, <3>1 DEF Readable
    <2> QED BY <2>1, <2>2
  <1>13. VvMetaInv'
    <2>1. ~ new[Len(new)].destroyed
      BY <1>8, <1>10
    <2> QED BY <1>3, <1>5, <1>6, <1>9, <1>11, <1>12, <2>1 DEF VvMetaInv, VvList
  <1>14. VvAckedInv'
    BY <1>1, <1>5, <1>6 DEF VvAckedInv, VersionsUnique, TypeOK, Version
  <1>15. VvGoneInv'
    <2>1. ASSUME NEW v \in gone PROVE v <= meta'.cur /\ \A i \in 1..Len(new) : new[i].v = v => new[i].destroyed
      <3>1. v <= meta.cur /\ v \in Version
        BY <1>1 DEF VvGoneInv, TypeOK
      <3>2. \A i \in 1..Len(meta.versions) : meta.versions[i].v = v => meta.versions[i].destroyed
        BY <1>1, <1>6 DEF VvGoneInv
      <3>3. v <= meta'.cur /\ v # meta.cur + 1
        BY <1>5, <1>6, <3>1 DEF Version
      <3>4. ASSUME NEW i \in 1..Len(new), new[i].v = v PROVE new[i].destroyed
        <4>1. i < Len(new)
          BY <1>7, <1>8, <3>3, <3>4
        <4> QED BY <1>7, <3>2, <3>4, <4>1
      <3> QED BY <3>3, <3>4
    <2> QED BY <1>5, <1>6, <2>1 DEF VvGoneInv
  <1>16. VvCallInv("emit", c)'
    <2>1. \A a \in acked : a.v < meta'.cur
      BY <1>1, <1>5, <1>6 DEF VvAckedInv, TypeOK, Version
    <2>2. ct'[meta'.cur].val = c.val
      BY <1>10 DEF VvWritten
    <2> QED BY <1>3, <1>5, <1>6, <2>1, <2>2 DEF VvCallInv, VvWriting
  <1>17. /\ pc' \in [Procs -> Steps] /\ call' \in [Procs -> VvCall]
         /\ \A q \in Procs : VvCallInv(pc[q], call[q])'
    BY <1>1, <1>5, <1>16, VvSteps DEF Steps
  <1>18. TypeOK'
    BY <1>1, <1>5, <1>17 DEF TypeOK, VvCall
  <1> QED BY <1>13, <1>14, <1>15, <1>17, <1>18 DEF VvInv

LEMMA VvEmit == ASSUME VvInv, VvOne, NEW p \in Procs, Emit(p) PROVE VvInv'
  <1>1. TypeOK /\ VvMetaInv /\ VvAckedInv /\ VvGoneInv /\ VvCallInv("emit", call[p]) /\ Return(p)
    BY DEF VvInv, Emit
  <1>2. PICK c \in VvCall : c = call[p]
    BY <1>1, VvTypes
  <1>3. /\ meta' = meta /\ ct' = ct /\ nonce' = nonce /\ side' = side /\ now' = now /\ writes' = writes
        /\ gone' = gone /\ tried' = tried
    BY DEF Emit, fileVars
  <1>4. /\ c.meta.cur = meta.cur /\ meta.cur > 0 /\ ct[meta.cur].val = c.val /\ c.val \in Version
        /\ \A a \in acked : a.v < meta.cur
    BY <1>1, <1>2 DEF VvCallInv
  <1>5. meta.cur \in Version
    BY <1>4, VvListed
  <1>6. acked' = acked \/ acked' = acked \cup {[v |-> meta.cur, val |-> c.val]}
    BY <1>2, <1>4 DEF Emit, Target
  <1>7. acked' \subseteq [v : Version, val : Version]
    BY <1>1, <1>4, <1>5, <1>6 DEF TypeOK
  <1>8. VvAckedInv'
    <2>1. \A a \in acked' : a \in acked \/ (a.v = meta.cur /\ a.val = c.val)
      BY <1>6
    <2>2. \A a \in acked' : a.v <= meta.cur /\ (ct[a.v] # NoFile => ct[a.v].val = a.val)
      BY <1>1, <1>4, <1>5, <2>1 DEF VvAckedInv, Version
    <2>3. ASSUME NEW a \in acked', NEW b \in acked', a.v = b.v PROVE a = b
      <3>1. CASE a \in acked /\ b \in acked
        BY <1>1, <2>3, <3>1 DEF VvAckedInv, VersionsUnique
      <3>2. CASE a \notin acked /\ b \notin acked
        BY <1>6, <3>2
      <3>3. CASE a \in acked /\ b \notin acked
        BY <1>4, <1>5, <2>1, <2>3, <3>3 DEF Version
      <3>4. CASE a \notin acked /\ b \in acked
        BY <1>4, <1>5, <2>1, <2>3, <3>4 DEF Version
      <3> QED BY <3>1, <3>2, <3>3, <3>4
    <2> QED BY <1>3, <2>2, <2>3 DEF VvAckedInv, VersionsUnique
  <1>9. VvMetaInv' /\ VvGoneInv'
    BY <1>1, <1>3 DEF VvMetaInv, VvList, Readable, VvGoneInv
  <1>10. /\ pc' \in [Procs -> Steps] /\ call' \in [Procs -> VvCall]
         /\ \A q \in Procs : VvCallInv(pc[q], call[q])'
    BY <1>1, VvReturns
  <1>11. TypeOK'
    BY <1>1, <1>3, <1>7, <1>10 DEF TypeOK, VvCall
  <1> QED BY <1>8, <1>9, <1>10, <1>11 DEF VvInv

\* A call that is over and has left everything as it was.
LEMMA VvGivesUp ==
    ASSUME VvInv, VvOne, NEW p \in Procs, Return(p), UNCHANGED <<fileVars, now, writes, histVars>>
    PROVE  VvInv'
  <1>1. TypeOK
    BY DEF VvInv
  <1>2. /\ meta' = meta /\ ct' = ct /\ nonce' = nonce /\ side' = side /\ now' = now /\ writes' = writes
        /\ acked' = acked /\ gone' = gone /\ tried' = tried
    BY DEF fileVars, histVars
  <1>3. /\ pc' \in [Procs -> Steps] /\ call' \in [Procs -> VvCall]
        /\ \A q \in Procs : VvCallInv(pc[q], call[q])'
    BY <1>1, VvReturns
  <1>4. TypeOK'
    BY <1>1, <1>2, <1>3 DEF TypeOK, VvCall
  <1> QED BY <1>2, <1>3, <1>4, VvBeyond DEF VvInv

\* A step that moves on with new locals and leaves everything else as it was, but
\* for the versions whose destruction is begun.
LEMMA VvGoesOn ==
    ASSUME VvInv, VvOne, NEW p \in Procs, NEW step \in Steps, NEW c \in VvCall, VvCallInv(step, c)',
           meta' = meta, ct' = ct, nonce' = nonce, side' = side, now' = now, writes' = writes, acked' = acked, gone' = gone,
           tried \subseteq tried', tried' \subseteq Version,
           pc' = [pc EXCEPT ![p] = step], call' = [call EXCEPT ![p] = c]
    PROVE  VvInv'
  <1>1. TypeOK
    BY DEF VvInv
  <1>3. /\ pc' \in [Procs -> Steps] /\ call' \in [Procs -> VvCall]
        /\ \A q \in Procs : VvCallInv(pc[q], call[q])'
    BY <1>1, VvSteps
  <1>4. TypeOK'
    BY <1>1, <1>3 DEF TypeOK, VvCall
  <1> QED BY <1>3, <1>4, VvBeyond DEF VvInv

LEMMA VvWriteFails == ASSUME VvInv, VvOne, NEW p \in Procs, WriteFails(p) PROVE VvInv'
  <1>1. CASE pc[p] \in {"ct", "side", "mark"} /\ Return(p)
    BY <1>1, VvGivesUp DEF WriteFails
  <1>2. CASE pc[p] \in {"nonce", "save"} /\ Goto(p, "undo") /\ UNCHANGED call
    <2>1. TypeOK /\ VvCallInv(pc[p], call[p])
      BY DEF VvInv
    <2>2. PICK c \in VvCall : c = call[p]
      BY <2>1, VvTypes
    <2>3. /\ meta' = meta /\ ct' = ct /\ nonce' = nonce /\ side' = side /\ now' = now /\ writes' = writes
          /\ acked' = acked /\ gone' = gone /\ tried' = tried
          /\ pc' = [pc EXCEPT ![p] = "undo"] /\ call' = [call EXCEPT ![p] = c]
      BY <1>2, <2>1, <2>2 DEF WriteFails, Goto, fileVars, histVars, TypeOK
    <2>4. c.meta.cur = meta.cur + 1 /\ c.meta.cur <= writes
      BY <1>2, <2>1, <2>2 DEF VvCallInv, VvWriting
    <2>5. VvCallInv("undo", c)'
      BY <2>3, <2>4 DEF VvCallInv, VvWriting
    <2> QED BY <2>1, <2>3, <2>5, VvGoesOn DEF Steps, TypeOK
  <1> QED BY <1>1, <1>2 DEF WriteFails

LEMMA VvUndo == ASSUME VvInv, VvOne, NEW p \in Procs, Undo(p) PROVE VvInv'
  <1>1. TypeOK /\ VvCallInv("undo", call[p]) /\ Return(p)
    BY DEF VvInv, Undo
  <1>2. PICK v \in Version : v = Target(p) /\ v = meta.cur + 1
    BY <1>1, VvTypes DEF VvCallInv, Target, Version
  <1>3. /\ meta' = meta /\ Removing(v) /\ nonce' = nonce /\ side' = side /\ now' = now /\ writes' = writes
        /\ acked' = acked /\ gone' = gone /\ tried' = tried
    BY <1>2 DEF Undo, histVars
  <1>4. v # meta.cur /\ v > meta.cur
    BY <1>1, <1>2, VvTypes
  <1>5. /\ VvMetaInv' /\ VvAckedInv' /\ VvGoneInv'
        /\ ct' \in [Version -> [id : Version, val : Version, created : 1 .. MaxSec] \cup {NoFile}]
    BY <1>3, <1>4, VvRemoves
  <1>6. /\ pc' \in [Procs -> Steps] /\ call' \in [Procs -> VvCall]
        /\ \A q \in Procs : VvCallInv(pc[q], call[q])'
    BY <1>1, VvReturns
  <1>7. TypeOK'
    BY <1>1, <1>3, <1>5, <1>6 DEF TypeOK, VvCall
  <1> QED BY <1>5, <1>6, <1>7 DEF VvInv

LEMMA VvRotate == ASSUME VvInv, VvOne, NEW p \in Procs, Rotate(p) PROVE VvInv'
  <1>1. PICK limit \in Limits : Load(p, "rotate", 0, writes + 1, limit)
    BY DEF Rotate
  <1>2. writes < MaxWrites /\ writes + 1 \in Version /\ 0 \in 0..MaxWrites
    BY VvTypes DEF VvInv, Rotate, Version
  <1> QED BY <1>1, <1>2, VvLoads, VersionsAssumption

LEMMA VvNoCall == NoCall \in VvCall
  <1>1. <<>> \in Seq([v : Version, destroyed : BOOLEAN])
    OBVIOUS
  <1>2. NewMeta \in MetaType
    BY <1>1, VersionsAssumption DEF NewMeta, MetaType
  <1> QED BY <1>2, VersionsAssumption DEF NoCall, VvCall

LEMMA VvRollback == ASSUME VvInv, VvOne, NEW p \in Procs, NEW v \in Version, Rollback(p, v) PROVE VvInv'
  <1>1. TypeOK /\ v \in 0..MaxWrites
    BY DEF VvInv, Version
  <1>2. PICK c \in VvCall : c = [NoCall EXCEPT !.op = "rollback", !.v = v]
    BY <1>1, VvNoCall DEF Rollback, VvCall
  <1>3. c.v = v
    BY <1>2, VvNoCall DEF VvCall
  <1>4. /\ meta' = meta /\ ct' = ct /\ nonce' = nonce /\ side' = side /\ now' = now /\ writes' = writes
        /\ acked' = acked /\ gone' = gone /\ tried' = tried
        /\ pc' = [pc EXCEPT ![p] = "read"] /\ call' = [call EXCEPT ![p] = c]
    BY <1>2 DEF Rollback, Goto, fileVars, histVars
  <1>5. VvCallInv("read", c)'
    BY <1>3 DEF VvCallInv, VvWriting
  <1> QED BY <1>1, <1>4, <1>5, VvGoesOn DEF Steps, TypeOK

LEMMA VvReadOld == ASSUME VvInv, VvOne, NEW p \in Procs, ReadOld(p) PROVE VvInv'
  <1>1. TypeOK /\ VvCallInv("read", call[p])
    BY DEF VvInv, ReadOld
  <1>2. call[p] \in VvCall /\ call[p].v \in Version
    BY <1>1, VvTypes DEF VvCallInv
  <1>3. CASE Readable(call[p].v)
    <2>1. ct[call[p].v] # NoFile
      BY <1>3 DEF Readable, Opens
    <2>2. PICK x \in Version : x = ct[call[p].v].val
      BY <1>1, <1>2, <2>1, VvTypes
    <2>3. PICK c \in VvCall : c = [call[p] EXCEPT !.val = x]
      <3>1. x \in 0..MaxWrites
        BY <2>2 DEF Version
      <3> QED BY <1>2, <3>1 DEF VvCall
    <2>4. c.val = x
      BY <1>2, <2>3 DEF VvCall
    <2>5. /\ meta' = meta /\ ct' = ct /\ nonce' = nonce /\ side' = side /\ now' = now /\ writes' = writes
          /\ acked' = acked /\ gone' = gone /\ tried' = tried
          /\ pc' = [pc EXCEPT ![p] = "rotate"] /\ call' = [call EXCEPT ![p] = c]
      BY <1>1, <1>3, <2>2, <2>3 DEF ReadOld, Goto, fileVars, histVars, TypeOK
    <2>6. VvCallInv("rotate", c)'
      BY <2>4 DEF VvCallInv, VvWriting, Version
    <2> QED BY <1>1, <2>5, <2>6, VvGoesOn DEF Steps, TypeOK
  <1>4. CASE ~ Readable(call[p].v)
    BY <1>4, VvGivesUp DEF ReadOld
  <1> QED BY <1>3, <1>4

LEMMA VvRollbackRotates == ASSUME VvInv, VvOne, NEW p \in Procs, RollbackRotates(p) PROVE VvInv'
  <1>1. TypeOK /\ VvCallInv("rotate", call[p])
    BY DEF VvInv, RollbackRotates
  <1>2. CASE "rollback" \in Audited
    <2>1. writes < MaxWrites /\ Load(p, "rollback", call[p].v, call[p].val, 0)
      BY <1>2 DEF RollbackRotates
    <2>2. call[p].val \in Version /\ call[p].v \in 0..MaxWrites
      BY <1>1, VvTypes DEF VvCallInv, VvCall
    <2>3. "rollback" \in Ops
      BY <1>2, VersionsAssumption
    <2> QED BY <2>1, <2>2, <2>3, VvLoads
  <1>3. CASE "rollback" \notin Audited
    BY <1>3, VvGivesUp DEF RollbackRotates
  <1> QED BY <1>2, <1>3

LEMMA VvDestroy == ASSUME VvInv, VvOne, NEW p \in Procs, NEW v \in Version, Destroy(p, v) PROVE VvInv'
  <1>1. TypeOK /\ v \in 0..MaxWrites
    BY DEF VvInv, Version
  <1>2. PICK c \in VvCall : c = [NoCall EXCEPT !.op = "destroy", !.v = v, !.meta = meta]
    BY <1>1, VvNoCall, VvTypes DEF Destroy, VvCall
  <1>3. c.v = v /\ c.meta = meta
    BY <1>2, VvNoCall DEF VvCall
  <1>4. /\ meta' = meta /\ ct' = ct /\ nonce' = nonce /\ side' = side /\ now' = now /\ writes' = writes
        /\ acked' = acked /\ gone' = gone /\ tried' = tried \cup {v}
        /\ pc' = [pc EXCEPT ![p] = "drop"] /\ call' = [call EXCEPT ![p] = c]
    BY <1>2 DEF Destroy, Goto, fileVars
  <1>5. Found(meta, v) /\ v # meta.cur
    BY DEF Destroy, Usable
  <1>6. VvCallInv("drop", c)'
    BY <1>3, <1>4, <1>5 DEF VvCallInv, VvWriting, Found
  <1>7. tried \subseteq tried' /\ tried' \subseteq Version
    BY <1>1, <1>4 DEF TypeOK
  <1> QED BY <1>4, <1>6, <1>7, VvGoesOn DEF Steps

LEMMA VvDrop == ASSUME VvInv, VvOne, NEW p \in Procs, Drop(p) PROVE VvInv'
  <1>1. TypeOK /\ VvCallInv("drop", call[p])
    BY DEF VvInv, Drop
  <1>2. PICK c \in VvCall : c = call[p]
    BY <1>1, VvTypes
  <1>3. PICK v \in Version : v = c.v /\ v \in tried /\ v # meta.cur /\ c.meta = meta /\ Found(meta, v)
    BY <1>1, <1>2 DEF VvCallInv, TypeOK
  <1>4. /\ meta' = meta /\ Removing(v) /\ nonce' = nonce /\ side' = side /\ now' = now /\ writes' = writes
        /\ acked' = acked /\ gone' = gone /\ tried' = tried
        /\ pc' = [pc EXCEPT ![p] = "mark"] /\ call' = [call EXCEPT ![p] = c]
    BY <1>1, <1>2, <1>3 DEF Drop, Goto, histVars, TypeOK
  <1>5. /\ VvMetaInv' /\ VvAckedInv' /\ VvGoneInv'
        /\ ct' \in [Version -> [id : Version, val : Version, created : 1 .. MaxSec] \cup {NoFile}]
    BY <1>3, <1>4, VvRemoves
  <1>6. VvCallInv("mark", c)'
    BY <1>3, <1>4 DEF VvCallInv, VvWriting, Found
  <1>7. /\ pc' \in [Procs -> Steps] /\ call' \in [Procs -> VvCall]
        /\ \A q \in Procs : VvCallInv(pc[q], call[q])'
    BY <1>1, <1>4, <1>6, VvSteps DEF Steps
  <1>8. TypeOK'
    BY <1>1, <1>4, <1>5, <1>7 DEF TypeOK, VvCall
  <1> QED BY <1>5, <1>7, <1>8 DEF VvInv

\* Marking an entry changes nothing else of the list.
LEMMA VvMarked ==
    ASSUME VvInv, NEW v \in Version, Found(meta, v)
    PROVE  /\ Marked(meta, v) \in MetaType /\ Marked(meta, v).cur = meta.cur /\ Marked(meta, v).max = meta.max
           /\ Len(Marked(meta, v).versions) = Len(meta.versions)
           /\ \A i \in 1..Len(meta.versions) :
                 /\ Marked(meta, v).versions[i].v = meta.versions[i].v
                 /\ Marked(meta, v).versions[i].destroyed <=> (meta.versions[i].destroyed \/ meta.versions[i].v = v)
  <1> DEFINE E == [v : Version, destroyed : BOOLEAN]
  <1>1. PICK s \in Seq(E) : s = meta.versions /\ meta \in MetaType
    BY VvTypes DEF VvInv
  <1>2. PICK k \in 1..Len(s) : k = Entry(meta, v) /\ s[k].v = v
    BY <1>1 DEF Found, Entry
  <1>3. \A i \in 1..Len(s) : s[i] \in E
    <2> HIDE DEF E
    <2> QED BY <1>1
  <1>4. \A i \in 1..Len(s) : s[i].v = v => i = k
    <2>1. \A i \in 1..Len(s) : s[i].v = (meta.cur - Len(s)) + i
      BY <1>1 DEF VvInv, VvMetaInv, VvList
    <2>2. meta.cur \in Nat /\ Len(s) \in Nat
      BY <1>1, VvTypes DEF VvInv
    <2> HIDE DEF E
    <2> QED BY <1>2, <2>1, <2>2
  <1>5. PICK x \in E : x = [s[k] EXCEPT !.destroyed = TRUE]
    BY <1>3
  <1>6. x.v = v /\ x.destroyed = TRUE
    BY <1>2, <1>3, <1>5
  <1>7. [s EXCEPT ![k] = x] \in Seq(E) /\ Len([s EXCEPT ![k] = x]) = Len(s)
        /\ \A i \in 1..Len(s) : [s EXCEPT ![k] = x][i] = IF i = k THEN x ELSE s[i]
    <2> HIDE DEF E
    <2> QED BY <1>1, <1>2, <1>5
  <1>8. Marked(meta, v) = [meta EXCEPT !.versions = [s EXCEPT ![k] = x]]
    BY <1>1, <1>2, <1>5 DEF Marked
  <1>9. /\ Marked(meta, v) \in MetaType /\ Marked(meta, v).cur = meta.cur /\ Marked(meta, v).max = meta.max
        /\ Marked(meta, v).versions = [s EXCEPT ![k] = x]
    BY <1>1, <1>7, <1>8 DEF MetaType
  <1>10. \A i \in 1..Len(s) :
           /\ [s EXCEPT ![k] = x][i].v = s[i].v
           /\ [s EXCEPT ![k] = x][i].destroyed <=> (s[i].destroyed \/ s[i].v = v)
    BY <1>2, <1>3, <1>4, <1>6, <1>7
  <1> QED BY <1>1, <1>7, <1>9, <1>10

LEMMA VvMark == ASSUME VvInv, VvOne, NEW p \in Procs, Mark(p) PROVE VvInv'
  <1>1. TypeOK /\ VvMetaInv /\ VvAckedInv /\ VvGoneInv /\ VvCallInv("mark", call[p]) /\ Return(p)
    BY DEF VvInv, Mark
  <1>2. PICK v \in Version : v = call[p].v /\ v \in tried /\ v # meta.cur /\ call[p].meta = meta /\ Found(meta, v)
    BY <1>1 DEF VvCallInv, TypeOK
  <1>3. /\ meta' = Marked(meta, v) /\ ct' = ct /\ nonce' = nonce /\ side' = side /\ now' = now /\ writes' = writes
        /\ acked' = acked /\ gone' = gone \cup {v} /\ tried' = tried
    BY <1>2 DEF Mark
  <1>4. /\ meta' \in MetaType /\ meta'.cur = meta.cur /\ meta'.max = meta.max /\ Len(meta'.versions) = Len(meta.versions)
        /\ \A i \in 1..Len(meta.versions) :
              /\ meta'.versions[i].v = meta.versions[i].v
              /\ meta'.versions[i].destroyed <=> (meta.versions[i].destroyed \/ meta.versions[i].v = v)
    BY <1>2, <1>3, VvMarked
  <1>5. /\ DOMAIN meta.versions = 1..Len(meta.versions) /\ DOMAIN meta'.versions = 1..Len(meta.versions)
        /\ meta.cur \in 0..MaxWrites /\ Len(meta.versions) \in Nat
    BY <1>1, <1>4, VvTypes DEF MetaType
  <1>6. VvMetaInv'
    <2>1. VvList(meta')
      BY <1>1, <1>4, <1>5 DEF VvMetaInv, VvList
    <2>2. ASSUME meta.cur > 0 PROVE ~ meta'.versions[Len(meta.versions)].destroyed /\ Readable(meta.cur)'
      <3>1. Len(meta.versions) \in 1..Len(meta.versions) /\ meta.versions[Len(meta.versions)].v = meta.cur
        BY <1>5, <2>2, VvListed
      <3> QED BY <1>1, <1>2, <1>3, <1>4, <2>2, <3>1 DEF VvMetaInv, Readable
    <2>3. ASSUME NEW i \in 1..Len(meta.versions), i > 1, ~ meta'.versions[i].destroyed
          PROVE  (Readable(meta.versions[i].v) \/ meta.versions[i].v \in tried)'
      <3>1. Readable(meta.versions[i].v) \/ meta.versions[i].v \in tried
        BY <1>1, <1>4, <1>5, <2>3 DEF VvMetaInv
      <3> QED BY <1>3, <1>4, <3>1 DEF Readable
    <2> QED BY <1>1, <1>3, <1>4, <1>5, <2>1, <2>2, <2>3 DEF VvMetaInv, VvList, Readable
  <1>7. VvAckedInv'
    BY <1>1, <1>3, <1>4 DEF VvAckedInv, VersionsUnique
  <1>8. VvGoneInv'
    <2>1. v <= meta.cur
      <3>1. PICK i \in DOMAIN meta.versions : meta.versions[i].v = v
        BY <1>2 DEF Found
      <3> QED BY <3>1, VvListed
    <2> QED BY <1>1, <1>3, <1>4, <1>5, <2>1 DEF VvGoneInv
  <1>9. /\ pc' \in [Procs -> Steps] /\ call' \in [Procs -> VvCall]
        /\ \A q \in Procs : VvCallInv(pc[q], call[q])'
    BY <1>1, VvReturns
  <1>10. TypeOK'
    BY <1>1, <1>2, <1>3, <1>4, <1>9 DEF TypeOK, VvCall
  <1> QED BY <1>6, <1>7, <1>8, <1>9, <1>10 DEF VvInv

LEMMA VvTick == ASSUME VvInv, VvOne, Tick PROVE VvInv'
  <1>1. TypeOK /\ \A p \in Procs : pc[p] # "bind" /\ VvCallInv(pc[p], call[p])
    BY DEF VvInv, VvOne, Tick
  <1>2. /\ meta' = meta /\ ct' = ct /\ nonce' = nonce /\ side' = side /\ now' \in 1..MaxSec /\ writes' = writes
        /\ acked' = acked /\ gone' = gone /\ tried' = tried /\ pc' = pc /\ call' = call
    BY <1>1, VvTypes DEF Tick, fileVars, histVars
  <1>3. \A p \in Procs : VvCallInv(pc[p], call[p])'
    BY <1>1, <1>2 DEF VvCallInv, VvNew, Found
  <1>4. TypeOK'
    BY <1>1, <1>2 DEF TypeOK
  <1> QED BY <1>2, <1>3, <1>4, VvBeyond DEF VvInv

LEMMA VvInit == Init => VvInv
  <1> SUFFICES ASSUME Init PROVE VvInv
    OBVIOUS
  <1>1. NewMeta \in MetaType /\ NewMeta.cur = 0 /\ NewMeta.versions = <<>> /\ NewMeta.max > 0
    <2>1. <<>> \in Seq([v : Version, destroyed : BOOLEAN])
      OBVIOUS
    <2> QED BY <2>1, VersionsAssumption DEF NewMeta, MetaType
  <1>2. pc \in [Procs -> Steps] /\ call \in [Procs -> VvCall]
    BY VvNoCall DEF Init, Steps
  <1>3. TypeOK
    BY <1>1, <1>2, VersionsAssumption DEF Init, TypeOK, VvCall
  <1>4. VvMetaInv
    BY <1>1 DEF Init, VvMetaInv, VvList
  <1>5. VvAckedInv /\ VvGoneInv
    BY DEF Init, VvAckedInv, VersionsUnique, VvGoneInv
  <1>6. \A p \in Procs : VvCallInv(pc[p], call[p])
    BY DEF Init, VvCallInv, VvWriting
  <1> QED BY <1>3, <1>4, <1>5, <1>6 DEF VvInv

LEMMA VvNext == ASSUME VvInv, VvOne, [Next]_vars PROVE VvInv'
  <1>1. ASSUME NEW p \in Procs, Rotate(p) \/ (\E v \in Version : Rollback(p, v) \/ Destroy(p, v))
        PROVE  VvInv'
    BY <1>1, VvRotate, VvRollback, VvDestroy
  <1>2. ASSUME NEW p \in Procs, Step(p)
        PROVE  VvInv'
    BY <1>2, VvBind, VvWriteCiphertext, VvWriteNonce, VvWriteSidecar, VvEvict, VvSaveMeta, VvEmit, VvUndo, VvReadOld,
       VvRollbackRotates, VvDrop, VvMark DEF Step
  <1>3. ASSUME NEW p \in Procs, WriteFails(p)
        PROVE  VvInv'
    BY <1>3, VvWriteFails
  <1>4. ASSUME NEW p \in Procs, Crash(p)
        PROVE  VvInv'
    BY <1>4, VvGivesUp DEF Crash
  <1>5. CASE UNCHANGED vars
    BY <1>5 DEF vars, fileVars, histVars, VvInv, TypeOK, VvMetaInv, VvList, Readable, VvAckedInv, VersionsUnique, VvGoneInv,
       VvCallInv, VvNew, Found
  <1> QED BY <1>1, <1>2, <1>3, <1>4, <1>5, VvTick DEF Next

\* The invariant says what the versions promise.
LEMMA VvPromises ==
    ASSUME VvInv
    PROVE  CurrentIntact /\ ServedAsWritten /\ ListedReadable /\ DestroyedStaysDestroyed /\ VersionsUnique
  <1>1. TypeOK /\ VvMetaInv /\ VvAckedInv /\ VvGoneInv
    BY DEF VvInv
  <1>2. \A v : Found(meta, v) => /\ Entry(meta, v) \in DOMAIN meta.versions /\ meta.versions[Entry(meta, v)].v = v
    BY DEF Found, Entry
  <1>3. CurrentIntact
    <2> SUFFICES ASSUME meta.cur > 0 PROVE Usable(meta, meta.cur) /\ Readable(meta.cur) /\ \A a \in acked : a.v <= meta.cur
      BY DEF CurrentIntact
    <2>1. Len(meta.versions) \in DOMAIN meta.versions /\ meta.versions[Len(meta.versions)].v = meta.cur
      BY VvListed
    <2>2. Found(meta, meta.cur)
      BY <2>1 DEF Found
    <2>3. Entry(meta, meta.cur) = Len(meta.versions)
      <3>1. \A i \in DOMAIN meta.versions : i < Len(meta.versions) => meta.versions[i].v < meta.cur
        BY VvListed
      <3>2. DOMAIN meta.versions = 1..Len(meta.versions) /\ Len(meta.versions) \in Nat /\ meta.cur \in Nat
        BY <1>1, VvTypes
      <3> QED BY <1>2, <2>2, <3>1, <3>2
    <2> QED BY <1>1, <2>2, <2>3 DEF Usable, VvMetaInv, VvAckedInv
  <1>4. ServedAsWritten
    BY <1>1 DEF ServedAsWritten, Served, Readable, Opens, VvAckedInv
  <1>5. ListedReadable
    <2>1. DOMAIN meta.versions = 1..Len(meta.versions) /\ Len(meta.versions) \in Nat
      BY <1>1, VvTypes
    <2> QED BY <1>1, <2>1 DEF ListedReadable, VvMetaInv
  <1>6. DestroyedStaysDestroyed
    BY <1>1, <1>2 DEF DestroyedStaysDestroyed, Served, Usable, VvGoneInv
  <1> QED BY <1>1, <1>3, <1>4, <1>5, <1>6 DEF VvAckedInv

\* What a step does to the counter and the length of the list.
LEMMA VvKeepsList ==
    ASSUME VvInv, VvOne, [Next]_vars
    PROVE  [meta'.cur >= meta.cur]_meta /\ [Len(meta'.versions) <= meta'.max \/ Len(meta'.versions) <= Len(meta.versions)]_meta
  <1>1. TypeOK /\ meta.cur \in Nat /\ Len(meta.versions) \in Nat
    BY VvTypes DEF VvInv
  <1>2. ASSUME NEW p \in Procs, SaveMeta(p)
        PROVE  meta'.cur >= meta.cur /\ (Len(meta'.versions) <= meta'.max \/ Len(meta'.versions) <= Len(meta.versions))
    <2>1. PICK c \in VvCall : c = call[p] /\ VvCallInv("save", c)
      BY <1>1, <1>2, VvTypes DEF VvInv, SaveMeta
    <2>2. c.meta.cur = meta.cur + 1 /\ c.meta.versions = Append(meta.versions, VvNew) /\ c.meta \in MetaType
      BY <2>1 DEF VvCallInv, VvWriting, VvCall
    <2>3. meta' = [c.meta EXCEPT !.versions = Enforced(c.meta)]
      BY <1>2, <2>1 DEF SaveMeta, SavedMeta
    <2>4. meta'.cur = meta.cur + 1 /\ meta'.versions = Enforced(c.meta) /\ meta'.max = c.meta.max
      BY <2>2, <2>3 DEF MetaType
    <2>5. c.meta.max # 0
      BY <2>1 DEF VvCallInv, VvWriting
    <2> QED BY <1>1, <2>2, <2>4, <2>5, VvSavedList
  <1>3. ASSUME NEW p \in Procs, Mark(p)
        PROVE  meta'.cur = meta.cur /\ Len(meta'.versions) = Len(meta.versions)
    <2>1. PICK v \in Version : v = call[p].v /\ call[p].meta = meta /\ Found(meta, v)
      BY <1>1, <1>3 DEF VvInv, VvCallInv, TypeOK, Mark
    <2> QED BY <1>3, <2>1, VvMarked DEF Mark
  <1>4. CASE meta' # meta
    <2>1. \E p \in Procs : SaveMeta(p) \/ Mark(p)
      BY <1>4 DEF Next, vars, fileVars, histVars, Rotate, Load, Rollback, Destroy, Step, Bind, WriteCiphertext, WriteNonce,
         WriteSidecar, Evict, Emit, Undo, ReadOld, RollbackRotates, Drop, WriteFails, Crash, Tick
    <2> QED BY <1>1, <1>2, <1>3, <2>1
  <1> QED BY <1>4

\* One process at a time, with a limit of at least two versions: whatever write
\* fails and wherever the process stops, the current version can be read, a
\* version keeps its value and its number, what was destroyed stays so, the
\* counter never falls and the list keeps its limit.
THEOREM VersionsOfOneSecretHold == ASSUME VvOne PROVE Spec => VersionsHold
  <1>1. Init => VvInv
    BY VvInit
  <1>2. VvInv /\ [Next]_vars => VvInv'
    BY VvNext
  <1>3. VvInv => TypeOK /\ CurrentIntact /\ ServedAsWritten /\ ListedReadable /\ DestroyedStaysDestroyed /\ VersionsUnique
    BY VvPromises DEF VvInv
  <1>4. VvInv /\ [Next]_vars =>
          /\ [meta'.cur >= meta.cur]_meta
          /\ [Len(meta'.versions) <= meta'.max \/ Len(meta'.versions) <= Len(meta.versions)]_meta
    BY VvKeepsList
  <1> QED BY <1>1, <1>2, <1>3, <1>4, PTL DEF Spec, VersionsHold, CounterNeverFalls, ListKeepsLimit
=============================================================================
