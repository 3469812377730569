------------------------------ MODULE Keychain ------------------------------
(***************************************************************************)
(* The macOS keychain backend (backend/keychain).  A random password in    *)
(* the login keychain (the unlock item) opens a keychain file that holds   *)
(* the secrets and a manifest item listing them.  Get, Set and Delete take *)
(* a file lock, unlock the keychain, work through the security tool, lock  *)
(* the keychain and release the file lock.  Init creates the keychain and  *)
(* the unlock item and takes no file lock until it writes its canary.      *)
(*                                                                         *)
(* The security tool may not run, which is an error to every caller, or may *)
(* run and exit with a code other than 0, which the runner returns without  *)
(* an error: storing, deleting and saving the manifest do not look at it.   *)
(***************************************************************************)
EXTENDS Naturals, FiniteSets

CONSTANTS
  KcProc,        \* processes
  KcPath,        \* credential paths
  KcValue,       \* secrets
  KcPassword,    \* passwords Init may draw
  KcForce,       \* keychain-init --force is used
  KcNone

ASSUME KcAssumption == /\ KcNone \notin KcProc /\ KcNone \notin KcPath
                       /\ KcNone \notin KcValue /\ KcNone \notin KcPassword

VARIABLES
  kcFlock,       \* holder of keylatch.keychain.lock
  kcOpen,        \* the keychain file is unlocked
  kcDB,          \* the password the keychain file was created with
  kcItem,        \* the unlock item of the login keychain
  kcVal,         \* path -> secret stored in the keychain file
  kcMan,         \* the manifest item
  kcRun,         \* process -> its call
  kcForced,      \* history: an unlock item was replaced with --force
  kcLeftOpen,    \* history: a process died, or its lock command failed, while unlocked
  kcAcked        \* history: path -> what the last call that changed it reported

kcVars == <<kcFlock, kcOpen, kcDB, kcItem, kcVal, kcMan, kcRun, kcForced, kcLeftOpen, kcAcked>>

KcIdle == [at |-> "idle", op |-> "none", path |-> KcNone, val |-> KcNone, man |-> {}, pw |-> KcNone, write |-> FALSE]

KcStart ==
  /\ kcFlock = KcNone /\ kcOpen = FALSE /\ kcDB = KcNone /\ kcItem = KcNone
  /\ kcVal = [p \in KcPath |-> KcNone] /\ kcMan = {}
  /\ kcRun = [q \in KcProc |-> KcIdle]
  /\ kcForced = FALSE /\ kcLeftOpen = FALSE
  /\ kcAcked = [p \in KcPath |-> <<"ok", KcNone>>]

KcAt(q, s) == kcRun[q].at = s
KcTo(q, s) == kcRun' = [kcRun EXCEPT ![q].at = s]
KcQuiet(q) == \A o \in KcProc \ {q} : KcAt(o, "idle")
KcInitRuns == \E q \in KcProc : kcRun[q].op = "init"

(* ---- Get, Set, Delete ---- *)

\* Assumed: nobody reads or writes while Init runs (see the README).
KcBegin(q, op, p, v) ==
  /\ KcAt(q, "idle") /\ ~KcInitRuns
  /\ kcRun' = [kcRun EXCEPT ![q] = [KcIdle EXCEPT !.at = "flock", !.op = op, !.path = p, !.val = v]]
  /\ UNCHANGED <<kcFlock, kcOpen, kcDB, kcItem, kcVal, kcMan, kcForced, kcLeftOpen, kcAcked>>

KcGet(q, p)    == KcBegin(q, "get", p, KcNone)
KcSet(q, p, v) == KcBegin(q, "set", p, v)
KcDelete(q, p) == KcBegin(q, "delete", p, KcNone)

\* Mutant: a process does not wait for the file lock.
KcAcquireStale(q) ==
  /\ KcAt(q, "flock")
  /\ kcFlock' = q /\ KcTo(q, "password")
  /\ UNCHANGED <<kcOpen, kcDB, kcItem, kcVal, kcMan, kcForced, kcLeftOpen, kcAcked>>

KcAcquireFlock(q) ==
  /\ KcAt(q, "flock") /\ kcFlock = KcNone
  /\ kcFlock' = q /\ KcTo(q, "password")
  /\ UNCHANGED <<kcOpen, kcDB, kcItem, kcVal, kcMan, kcForced, kcLeftOpen, kcAcked>>

\* return after the deferred calls: lock the keychain if it was unlocked, then
\* release the file lock; the outcome of the lock command is ignored
KcReturn(q) ==
  /\ kcRun' = [kcRun EXCEPT ![q] = IF @.op = "init" THEN [@ EXCEPT !.at = "repair"] ELSE KcIdle]
  /\ kcFlock' = KcNone

KcReadUnlockPassword(q) ==
  /\ KcAt(q, "password")
  /\ \/ kcItem # KcNone /\ kcRun' = [kcRun EXCEPT ![q].at = "unlock", ![q].pw = kcItem] /\ UNCHANGED kcFlock
     \/ kcRun' = [kcRun EXCEPT ![q] = KcIdle] /\ kcFlock' = KcNone
  /\ UNCHANGED <<kcOpen, kcDB, kcItem, kcVal, kcMan, kcForced, kcLeftOpen, kcAcked>>

KcUnlocks(pw) == kcDB # KcNone /\ kcDB = pw

KcUnlock(q) ==
  /\ KcAt(q, "unlock")
  /\ \/ /\ KcUnlocks(kcRun[q].pw)
        /\ kcOpen' = TRUE /\ KcTo(q, IF kcRun[q].op = "set" \/ kcRun[q].op = "init" THEN "store" ELSE "load")
        /\ UNCHANGED kcFlock
     \/ kcRun' = [kcRun EXCEPT ![q] = KcIdle] /\ kcFlock' = KcNone /\ UNCHANGED kcOpen
  /\ UNCHANGED <<kcDB, kcItem, kcVal, kcMan, kcForced, kcLeftOpen, kcAcked>>

\* What the call of q has done to its path so far, in the history.
KcSays(q, what) ==
  kcAcked' = IF kcRun[q].op = "init" THEN kcAcked ELSE [kcAcked EXCEPT ![kcRun[q].path] = what]

\* Set writes the value first; it goes on whatever the tool's exit code, and ends
\* when the tool cannot be run
KcStore(q) ==
  /\ KcAt(q, "store")
  /\ \/ /\ kcOpen /\ KcTo(q, "load") /\ KcSays(q, <<"open", KcNone>>)
        /\ kcVal' = IF kcRun[q].op = "init" THEN kcVal ELSE [kcVal EXCEPT ![kcRun[q].path] = kcRun[q].val]
     \/ KcTo(q, "load") /\ KcSays(q, <<"unheard", KcNone>>) /\ UNCHANGED kcVal
     \/ KcTo(q, "lock") /\ UNCHANGED <<kcVal, kcAcked>>
  /\ UNCHANGED <<kcFlock, kcOpen, kcDB, kcItem, kcMan, kcForced, kcLeftOpen>>

\* a manifest that is missing is empty; any other failure is an error
KcLoadManifest(q) ==
  /\ KcAt(q, "load")
  /\ \/ /\ kcOpen
        /\ LET listed == kcRun[q].path \in kcMan
           IN  kcRun' = [kcRun EXCEPT ![q].man = kcMan, ![q].at =
                 CASE kcRun[q].op = "get" -> IF listed THEN "value" ELSE "lock"
                   [] kcRun[q].op = "delete" -> IF listed THEN "erase" ELSE "lock"
                   [] OTHER -> "save"]
     \/ KcTo(q, "lock")
  /\ UNCHANGED <<kcFlock, kcOpen, kcDB, kcItem, kcVal, kcMan, kcForced, kcLeftOpen, kcAcked>>

KcGetOneValue(q) ==
  /\ KcAt(q, "value") /\ KcTo(q, "lock")
  /\ UNCHANGED <<kcFlock, kcOpen, kcDB, kcItem, kcVal, kcMan, kcForced, kcLeftOpen, kcAcked>>

\* Delete goes on whatever the tool's exit code
KcErase(q) ==
  /\ KcAt(q, "erase")
  /\ \/ /\ kcOpen /\ kcVal' = [kcVal EXCEPT ![kcRun[q].path] = KcNone] /\ KcTo(q, "save")
        /\ KcSays(q, <<"open", KcNone>>)
     \/ KcTo(q, "save") /\ KcSays(q, <<"unheard", KcNone>>) /\ UNCHANGED kcVal
     \/ KcTo(q, "lock") /\ UNCHANGED <<kcVal, kcAcked>>
  /\ UNCHANGED <<kcFlock, kcOpen, kcDB, kcItem, kcMan, kcForced, kcLeftOpen>>

KcNewManifest(q) ==
  CASE kcRun[q].op = "set" -> kcRun[q].man \cup {kcRun[q].path}
    [] kcRun[q].op = "delete" -> kcRun[q].man \ {kcRun[q].path}
    [] OTHER -> kcRun[q].man

\* The call reports success whatever the tool's exit code; the history remembers
\* whether all its exits were 0.
KcSaveManifest(q) ==
  /\ KcAt(q, "save") /\ KcTo(q, "lock")
  /\ \/ /\ kcOpen /\ kcMan' = KcNewManifest(q)
        /\ KcSays(q, <<IF kcAcked[kcRun[q].path][1] = "open" THEN "ok" ELSE "unheard", kcRun[q].val>>)
     \/ UNCHANGED kcMan /\ KcSays(q, <<"unheard", kcRun[q].val>>)
     \/ UNCHANGED <<kcMan, kcAcked>>
  /\ UNCHANGED <<kcFlock, kcOpen, kcDB, kcItem, kcVal, kcForced, kcLeftOpen>>

KcLock(q) ==
  /\ KcAt(q, "lock") /\ KcReturn(q)
  /\ \/ kcOpen' = FALSE /\ UNCHANGED kcLeftOpen
     \/ kcLeftOpen' = TRUE /\ UNCHANGED kcOpen
  /\ UNCHANGED <<kcDB, kcItem, kcVal, kcMan, kcForced, kcAcked>>

(* ---- Init ---- *)

\* the unlock item as Init sees it: a denied read looks like no item
KcSeenItem == {kcItem, KcNone}

KcInit(q) ==
  /\ KcAt(q, "idle") /\ KcQuiet(q)
  /\ \E seen \in KcSeenItem, fresh \in KcPassword :
       LET go(pw, write) == kcRun' = [kcRun EXCEPT ![q] =
                              [KcIdle EXCEPT !.op = "init", !.at = "create", !.pw = pw, !.write = write]]
           opens == seen # KcNone /\ KcUnlocks(seen)
       IN  \/ /\ seen # KcNone /\ kcDB = KcNone
              /\ go(seen, TRUE) /\ UNCHANGED kcForced
           \/ /\ opens /\ go(seen, FALSE) /\ UNCHANGED kcForced
           \/ /\ seen = KcNone /\ kcDB = KcNone
              /\ go(fresh, TRUE) /\ UNCHANGED kcForced
           \/ /\ kcDB # KcNone /\ ~opens /\ KcForce
              /\ go(fresh, TRUE) /\ kcForced' = TRUE
  /\ UNCHANGED <<kcFlock, kcOpen, kcDB, kcItem, kcVal, kcMan, kcLeftOpen, kcAcked>>

\* create-keychain: an existing file is left as it is (exit code 48)
KcCreate(q) ==
  /\ KcAt(q, "create")
  /\ \/ /\ kcDB' = IF kcDB = KcNone THEN kcRun[q].pw ELSE kcDB
        /\ KcTo(q, IF kcRun[q].write THEN "item" ELSE "flock")
     \/ kcRun' = [kcRun EXCEPT ![q] = KcIdle] /\ UNCHANGED kcDB
  /\ UNCHANGED <<kcFlock, kcOpen, kcItem, kcVal, kcMan, kcForced, kcLeftOpen, kcAcked>>

\* the unlock item, then the canary through Set
KcWriteUnlockItem(q) ==
  /\ KcAt(q, "item")
  /\ \/ kcItem' = kcRun[q].pw /\ KcTo(q, "flock")
     \/ kcRun' = [kcRun EXCEPT ![q] = KcIdle] /\ UNCHANGED kcItem
  /\ UNCHANGED <<kcFlock, kcOpen, kcDB, kcVal, kcMan, kcForced, kcLeftOpen, kcAcked>>

\* RepairItemACLs writes back what it reads; alone, it changes no value
KcRepair(q) ==
  /\ KcAt(q, "repair")
  /\ kcRun' = [kcRun EXCEPT ![q] = KcIdle]
  /\ UNCHANGED <<kcFlock, kcOpen, kcDB, kcItem, kcVal, kcMan, kcForced, kcLeftOpen, kcAcked>>

(* ---- the environment ---- *)

\* the lock of a dead process is released, the keychain stays as it was
KcDies(q) ==
  /\ ~KcAt(q, "idle")
  /\ kcRun' = [kcRun EXCEPT ![q] = KcIdle]
  /\ kcFlock' = IF kcFlock = q THEN KcNone ELSE kcFlock
  /\ kcLeftOpen' = (kcLeftOpen \/ (kcOpen /\ kcFlock = q))
  /\ UNCHANGED <<kcOpen, kcDB, kcItem, kcVal, kcMan, kcForced, kcAcked>>

\* the user deletes the keychain file; the unlock item stays
KcFileRemoved ==
  /\ kcDB # KcNone /\ \A q \in KcProc : KcAt(q, "idle")
  /\ kcDB' = KcNone /\ kcOpen' = FALSE /\ kcMan' = {}
  /\ kcVal' = [p \in KcPath |-> KcNone]
  /\ kcAcked' = [p \in KcPath |-> <<"open", KcNone>>]
  /\ UNCHANGED <<kcFlock, kcItem, kcRun, kcForced, kcLeftOpen>>

KcNext ==
  \/ KcFileRemoved
  \/ \E q \in KcProc :
       \/ \E p \in KcPath : KcGet(q, p) \/ KcDelete(q, p) \/ \E v \in KcValue : KcSet(q, p, v)
       \/ KcAcquireFlock(q) \/ KcReadUnlockPassword(q) \/ KcUnlock(q) \/ KcStore(q)
       \/ KcLoadManifest(q) \/ KcGetOneValue(q) \/ KcErase(q) \/ KcSaveManifest(q) \/ KcLock(q)
       \/ KcInit(q) \/ KcCreate(q) \/ KcWriteUnlockItem(q) \/ KcRepair(q) \/ KcDies(q)

\* The password that opens the stored secrets is never lost: whatever Init does,
\* fails at or dies in, as long as a secret is stored the unlock item opens the
\* keychain, unless --force was given.
KcNeverOrphaned == ~kcForced /\ (\E p \in KcPath : kcVal[p] # KcNone) => KcUnlocks(kcItem)

\* The keychain is unlocked only while a process holds the file lock, unless a
\* process died in its window or its lock command could not be run.
KcOpenOnlyUnderLock == kcOpen /\ ~kcLeftOpen => kcFlock # KcNone

\* What Set or Delete reported holds until a call changes the path again, if every
\* exit code of the security tool was 0: the value and the manifest of two
\* processes that work at once stay in step.  (A call reports success after another
\* exit code too, and then holds nothing.)
KcAckedStored ==
  \A p \in KcPath : kcAcked[p][1] = "ok" =>
    /\ kcVal[p] = kcAcked[p][2]
    /\ p \in kcMan <=> kcAcked[p][2] # KcNone

\* Commands that share the keychain, its password file and its lock: the
\* keychain is never cut off from its password, is open only under the lock, and
\* holds what a Set has reported, if the security tool did all it was asked to.
KeychainHolds == KcNeverOrphaned /\ KcOpenOnlyUnderLock /\ KcAckedStored

=============================================================================
