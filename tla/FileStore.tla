---------------------------- MODULE FileStore ------------------------------
(***************************************************************************)
(* What is kept in the vault directory besides the versioned layout: the    *)
(* flat layout of the file backend, and the command that re-encrypts every  *)
(* stored version.                                                          *)
(***************************************************************************)
EXTENDS Naturals, FiniteSets

(***************************************************************************)
(* The flat layout of the file backend (backend/file/file.go): value.enc,  *)
(* its nonce and its associated data under a directory per path, and one   *)
(* manifest.json that lists the paths.  A process loads the manifest once  *)
(* and keeps it in memory; fb.mu covers every call, so the process makes   *)
(* one call at a time, but each file is replaced on its own and a write    *)
(* may fail or be the last one before a crash.  A sealing is a number;     *)
(* three files of one number decrypt.                                      *)
(***************************************************************************)

CONSTANTS
  FsPath,        \* credential paths
  FsFaults,      \* among {"write", "crash"}
  FsMaxSeal      \* bound: values sealed

VARIABLES
  fsEnc, fsNonce, fsAad,   \* path -> the sealing each file belongs to (0: no file)
  fsDisk,        \* manifest.json: the paths it lists
  fsMem,         \* the process: manifest loaded, and its entries
  fsCall,        \* the call in progress: next step, path and sealing
  fsSeals,       \* sealings so far
  fsAcked        \* history: path -> what the last call reported (see below)

fsFiles == <<fsEnc, fsNonce, fsAad>>
fsVars == <<fsFiles, fsDisk, fsMem, fsCall, fsSeals, fsAcked>>

FsIdle == [at |-> "idle", path |-> "none", seal |-> 0]

\* fsAcked[p]: n > 0, Set stored sealing n; 0, the path is absent; "open", a
\* call on the path is under way or has failed, and promises nothing
FsInit ==
  /\ fsEnc = [p \in FsPath |-> 0] /\ fsNonce = fsEnc /\ fsAad = fsEnc
  /\ fsDisk = {} /\ fsMem = [loaded |-> FALSE, paths |-> {}]
  /\ fsCall = FsIdle /\ fsSeals = 0
  /\ fsAcked = [p \in FsPath |-> <<"ok", 0>>]

\* Mutant: a manifest that has not been loaded counts as empty.
FsStartsEmpty == [loaded |-> TRUE, paths |-> fsMem.paths]

\* ensureManifestLocked: read manifest.json unless it has been read
FsLoaded == IF fsMem.loaded THEN fsMem ELSE [loaded |-> TRUE, paths |-> fsDisk]

FsAt(s) == fsCall.at = s
FsFails(f) == f \in FsFaults

FsSet(p) ==
  /\ FsAt("idle") /\ fsSeals < FsMaxSeal
  /\ fsMem' = FsLoaded
  /\ fsSeals' = fsSeals + 1
  /\ fsCall' = [at |-> "enc", path |-> p, seal |-> fsSeals + 1]
  /\ fsAcked' = [fsAcked EXCEPT ![p] = <<"open", 0>>]
  /\ UNCHANGED <<fsFiles, fsDisk>>

FsWriteEnc ==
  /\ FsAt("enc")
  /\ \/ /\ fsEnc' = [fsEnc EXCEPT ![fsCall.path] = fsCall.seal]
        /\ fsCall' = [fsCall EXCEPT !.at = "nonce"]
     \/ FsFails("write") /\ fsCall' = FsIdle /\ UNCHANGED fsEnc
  /\ UNCHANGED <<fsNonce, fsAad, fsDisk, fsMem, fsSeals, fsAcked>>

\* a failed nonce takes the ciphertext with it
FsWriteNonce ==
  /\ FsAt("nonce")
  /\ \/ /\ fsNonce' = [fsNonce EXCEPT ![fsCall.path] = fsCall.seal]
        /\ fsCall' = [fsCall EXCEPT !.at = "aad"]
        /\ UNCHANGED fsEnc
     \/ /\ FsFails("write")
        /\ fsEnc' = [fsEnc EXCEPT ![fsCall.path] = 0]
        /\ fsCall' = FsIdle /\ UNCHANGED fsNonce
  /\ UNCHANGED <<fsAad, fsDisk, fsMem, fsSeals, fsAcked>>

\* the manifest in memory is changed before it is saved
FsWriteAad ==
  /\ FsAt("aad")
  /\ \/ /\ fsAad' = [fsAad EXCEPT ![fsCall.path] = fsCall.seal]
        /\ fsMem' = [fsMem EXCEPT !.paths = @ \cup {fsCall.path}]
        /\ fsCall' = [fsCall EXCEPT !.at = "list"]
        /\ UNCHANGED <<fsEnc, fsNonce>>
     \/ /\ FsFails("write")
        /\ fsEnc' = [fsEnc EXCEPT ![fsCall.path] = 0]
        /\ fsNonce' = [fsNonce EXCEPT ![fsCall.path] = 0]
        /\ fsCall' = FsIdle /\ UNCHANGED <<fsAad, fsMem>>
  /\ UNCHANGED <<fsDisk, fsSeals, fsAcked>>

FsSaveManifest ==
  /\ fsCall.at \in {"list", "unlist"}
  /\ \/ /\ fsDisk' = fsMem.paths
        /\ fsAcked' = [fsAcked EXCEPT ![fsCall.path] = <<"ok", fsCall.seal>>]
     \/ FsFails("write") /\ UNCHANGED <<fsDisk, fsAcked>>
  /\ fsCall' = FsIdle
  /\ UNCHANGED <<fsFiles, fsMem, fsSeals>>

\* the files go first, then the entry
FsDelete(p) ==
  /\ FsAt("idle") /\ fsMem' = FsLoaded
  /\ p \in fsMem'.paths
  /\ fsCall' = [at |-> "remove", path |-> p, seal |-> 0]
  /\ fsAcked' = [fsAcked EXCEPT ![p] = <<"open", 0>>]
  /\ UNCHANGED <<fsFiles, fsDisk, fsSeals>>

FsRemoveAll ==
  /\ FsAt("remove")
  /\ LET gone(f) == [f EXCEPT ![fsCall.path] = 0]
     IN  fsEnc' = gone(fsEnc) /\ fsNonce' = gone(fsNonce) /\ fsAad' = gone(fsAad)
  /\ fsMem' = [fsMem EXCEPT !.paths = @ \ {fsCall.path}]
  /\ fsCall' = [fsCall EXCEPT !.at = "unlist"]
  /\ UNCHANGED <<fsDisk, fsSeals, fsAcked>>

\* Get: listed, the three files present, and of one sealing; 0 is an error
FsGet(paths, p) ==
  IF p \in paths /\ fsEnc[p] > 0 /\ fsEnc[p] = fsNonce[p] /\ fsEnc[p] = fsAad[p] THEN fsEnc[p] ELSE 0

FsCrash ==
  /\ FsFails("crash")
  /\ fsMem' = [loaded |-> FALSE, paths |-> {}]
  /\ fsCall' = FsIdle
  /\ UNCHANGED <<fsFiles, fsDisk, fsSeals, fsAcked>>

FsNext ==
  \/ \E p \in FsPath : FsSet(p) \/ FsDelete(p)
  \/ FsWriteEnc \/ FsWriteNonce \/ FsWriteAad \/ FsRemoveAll \/ FsSaveManifest \/ FsCrash

\* What Set or Delete has reported stays true of its path, in this process and
\* after a restart, however calls on other paths fail or stop half-way: a stored
\* secret is listed and decrypts, a deleted one is neither listed nor readable.
FsAckedHolds ==
  \A p \in FsPath : fsAcked[p][1] = "ok" =>
    \A paths \in {fsDisk} \cup (IF fsMem.loaded THEN {fsMem.paths} ELSE {}) :
      /\ FsGet(paths, p) = fsAcked[p][2]
      /\ p \in paths <=> fsAcked[p][2] > 0

-----------------------------------------------------------------------------
(***************************************************************************)
(* keylatch migrate cipher (cli/migrate_cmd.go): every stored version is   *)
(* decrypted into memory, a new term is created, and each version is       *)
(* sealed again under it: ciphertext, nonce and binding are three files.   *)
(* Then every metadata file is rewritten, and last the keyring's           *)
(* algorithm.  A failure restores what has been overwritten.  A file is    *)
(* "old" or "new"; three files of one age decrypt, because the keyring     *)
(* keeps both terms.                                                       *)
(***************************************************************************)

CONSTANTS
  CmItems,       \* number of stored versions
  CmMetas        \* number of metadata files

\* without metadata the command only changes the keyring's algorithm; a vault
\* whose metadata names no stored version is left out
ASSUME CmAssumption == CmItems \in Nat \ {0} /\ CmMetas \in Nat \ {0}

VARIABLES
  cmFile,        \* item -> its three files
  cmMeta,        \* metadata file -> age
  cmKeyring,     \* the keyring: new term created, its algorithm
  cmSaved,       \* items backed up, metadata files backed up
  cmPhase,       \* where the command is
  cmAt,          \* the item or metadata file being written, and the file of it
  cmUnrestored   \* a write of the rollback has failed

cmVars == <<cmFile, cmMeta, cmKeyring, cmSaved, cmPhase, cmAt, cmUnrestored>>

CmPart == {"ct", "nonce", "binding"}
CmOld == [x \in CmPart |-> "old"]

CmInit ==
  /\ cmFile = [i \in 1..CmItems |-> CmOld]
  /\ cmMeta = [m \in 1..CmMetas |-> "old"]
  /\ cmKeyring = [term |-> "old", alg |-> "old"]
  /\ cmSaved = [items |-> 0, metas |-> 0]
  /\ cmPhase = "read" /\ cmAt = <<1, "backup">>
  /\ cmUnrestored = FALSE

\* list the metadata, decrypt every version; an error changes nothing
CmRead ==
  /\ cmPhase = "read"
  /\ cmPhase' \in {"rotate", "failed"}
  /\ UNCHANGED <<cmFile, cmMeta, cmKeyring, cmSaved, cmAt, cmUnrestored>>

\* Mutant: the versions are sealed under a term that is not in the keyring.
CmRotateNot ==
  /\ cmPhase = "rotate" /\ cmPhase' = "items"
  /\ UNCHANGED <<cmFile, cmMeta, cmKeyring, cmSaved, cmAt, cmUnrestored>>

\* RotateTerm, the GCM counter of the new term, the keyring opened again
CmRotate ==
  /\ cmPhase = "rotate"
  /\ \/ cmKeyring' = [cmKeyring EXCEPT !.term = "new"] /\ cmPhase' \in {"items", "failed"}
     \/ cmPhase' = "failed" /\ UNCHANGED cmKeyring
  /\ UNCHANGED <<cmFile, cmMeta, cmSaved, cmAt, cmUnrestored>>

CmFail == cmPhase' = "rollback" /\ cmAt' = <<1, "ct">>

\* the three files of a version before they are overwritten
CmBackup ==
  /\ cmPhase = "items" /\ cmAt[2] = "backup"
  /\ \/ /\ cmSaved' = [cmSaved EXCEPT !.items = cmAt[1]]
        /\ cmAt' = <<cmAt[1], "ct">> /\ UNCHANGED cmPhase
     \/ CmFail /\ UNCHANGED cmSaved
  /\ UNCHANGED <<cmFile, cmMeta, cmKeyring, cmUnrestored>>

CmAfter(part) == CASE part = "ct" -> "nonce" [] part = "nonce" -> "binding" [] OTHER -> "backup"

CmWrite ==
  /\ cmPhase = "items" /\ cmAt[2] \in CmPart
  /\ \/ /\ cmFile' = [cmFile EXCEPT ![cmAt[1]][cmAt[2]] = "new"]
        /\ IF cmAt[2] # "binding" THEN cmAt' = <<cmAt[1], CmAfter(cmAt[2])>> /\ UNCHANGED cmPhase
           ELSE IF cmAt[1] < CmItems THEN cmAt' = <<cmAt[1] + 1, "backup">> /\ UNCHANGED cmPhase
           ELSE cmAt' = <<1, "meta">> /\ cmPhase' = "metas"
     \/ CmFail /\ UNCHANGED cmFile
  /\ UNCHANGED <<cmMeta, cmKeyring, cmSaved, cmUnrestored>>

\* the original joins the backups once the new metadata is on disk
CmWriteMeta ==
  /\ cmPhase = "metas"
  /\ \/ /\ cmMeta' = [cmMeta EXCEPT ![cmAt[1]] = "new"]
        /\ cmSaved' = [cmSaved EXCEPT !.metas = cmAt[1]]
        /\ IF cmAt[1] < CmMetas THEN cmAt' = <<cmAt[1] + 1, "meta">> /\ UNCHANGED cmPhase
           ELSE cmAt' = <<1, "alg">> /\ cmPhase' = "alg"
     \/ CmFail /\ UNCHANGED <<cmMeta, cmSaved>>
  /\ UNCHANGED <<cmFile, cmKeyring, cmUnrestored>>

CmUpdateAlgorithm ==
  /\ cmPhase = "alg"
  /\ \/ cmKeyring' = [cmKeyring EXCEPT !.alg = "new"] /\ cmPhase' = "done" /\ UNCHANGED cmAt
     \/ CmFail /\ UNCHANGED cmKeyring
  /\ UNCHANGED <<cmFile, cmMeta, cmSaved, cmUnrestored>>

\* ciphertext, nonce, binding of every version backed up; the rest of a
\* version is skipped once one of its files cannot be written
CmRestore ==
  /\ cmPhase = "rollback" /\ cmAt[2] \in CmPart
  /\ IF cmAt[1] > cmSaved.items
     THEN cmAt' = <<1, "meta">> /\ UNCHANGED <<cmFile, cmUnrestored>>
     ELSE \/ /\ cmFile' = [cmFile EXCEPT ![cmAt[1]][cmAt[2]] = "old"]
             /\ cmAt' = IF cmAt[2] = "binding" THEN <<cmAt[1] + 1, "ct">> ELSE <<cmAt[1], CmAfter(cmAt[2])>>
             /\ UNCHANGED cmUnrestored
          \/ /\ cmUnrestored' = TRUE /\ UNCHANGED cmFile
             /\ cmAt' = <<cmAt[1] + 1, "ct">>
  /\ UNCHANGED <<cmMeta, cmKeyring, cmSaved, cmPhase>>

CmRestoreMeta ==
  /\ cmPhase = "rollback" /\ cmAt[2] = "meta"
  /\ IF cmAt[1] > cmSaved.metas
     THEN cmPhase' = "failed" /\ UNCHANGED <<cmMeta, cmAt, cmUnrestored>>
     ELSE /\ cmAt' = <<cmAt[1] + 1, "meta">> /\ UNCHANGED cmPhase
          /\ \/ cmMeta' = [cmMeta EXCEPT ![cmAt[1]] = "old"] /\ UNCHANGED cmUnrestored
             \/ cmUnrestored' = TRUE /\ UNCHANGED cmMeta
  /\ UNCHANGED <<cmFile, cmKeyring, cmSaved>>

CmCrash ==
  /\ cmPhase \notin {"done", "failed", "crashed"}
  /\ cmPhase' = "crashed"
  /\ UNCHANGED <<cmFile, cmMeta, cmKeyring, cmSaved, cmAt, cmUnrestored>>

CmNext ==
  \/ CmRead \/ CmRotate \/ CmBackup \/ CmWrite \/ CmWriteMeta \/ CmUpdateAlgorithm
  \/ CmRestore \/ CmRestoreMeta \/ CmCrash

\* A version whose three files decrypt with the keyring as it is.
CmReadable(i) ==
  \/ cmFile[i] = CmOld
  \/ (\A x \in CmPart : cmFile[i][x] = "new") /\ cmKeyring.term = "new"

\* "The migration is atomic: on failure, the vault is left in its original
\* state": when the command reports a failure and could write back what it had
\* overwritten, every file has its old contents; when it reports success, every
\* file is new and the keyring says so.
CmAllOrNothing ==
  /\ cmPhase = "failed" /\ ~cmUnrestored =>
       (\A i \in 1..CmItems : cmFile[i] = CmOld) /\ (\A m \in 1..CmMetas : cmMeta[m] = "old")
         /\ cmKeyring.alg = "old"
  /\ cmPhase = "done" =>
       (\A i \in 1..CmItems : CmReadable(i) /\ cmFile[i] # CmOld)
         /\ (\A m \in 1..CmMetas : cmMeta[m] = "new") /\ cmKeyring.alg = "new"

\* A crash while the versions are being written costs at most the one that was
\* being written; a crash of the rollback, one more.
CmCrashCostsFew ==
  ~cmUnrestored => Cardinality({i \in 1..CmItems : ~CmReadable(i)})
                     <= IF cmPhase \in {"rollback", "crashed"} THEN 2 ELSE 1

\* migrate cipher changes every file or none, and a crash in the middle costs
\* no more than the version that was being written.
\* The parts say what a failing rollback adds.
MigrationHolds == CmAllOrNothing /\ CmCrashCostsFew
=============================================================================
