------------------------------ MODULE Keyring ------------------------------
(***************************************************************************)
(* The keyring of keylatch (src/internal/crypto/keyring): one JSON file    *)
(* that several processes share.  It holds the wrapped data keys (DEKs) of *)
(* numbered terms and, for AES-256-GCM vaults, one nonce counter per term. *)
(*                                                                         *)
(* A process opens the file with a key-encryption key (KEK) and keeps a    *)
(* copy of it in memory, the DEKs it could unwrap, and a lease: a block of *)
(* nonces it may hand out without touching the disk.  A process runs       *)
(* threads (goroutines).  Two locks exist: mu, one per process, and the    *)
(* flock on keyring.json.lock, one for the machine and held per open file  *)
(* description, so that it also excludes threads of one process.           *)
(*                                                                         *)
(* A call is cut where another thread, another process or a crash can get  *)
(* between its effects: taking each lock, the reload, the save, the return.*)
(***************************************************************************)
EXTENDS Integers, FiniteSets

CONSTANTS
    Proc,        \* processes that may have the keyring open
    Thread,      \* goroutines, each of one process
    ProcOf,      \* the process of each thread
    KEK,         \* key-encryption keys
    InitKEK,     \* the KEK the keyring was created with
    MaxTerm,     \* bound: terms are 1..MaxTerm
    MaxDEK,      \* bound: at most this many DEKs are ever generated
    MaxCounter,  \* math.MaxUint64, scaled down; reaching it is part of the model
    LeaseSize,   \* GCMState.LeaseSize; 0 is strict mode
    None         \* no thread, no KEK

ASSUME ThreadAssumption == ProcOf \in [Thread -> Proc]
ASSUME KEKAssumption    == InitKEK \in KEK
ASSUME NoneAssumption   == None \notin Thread /\ None \notin KEK
ASSUME BoundAssumption  == /\ MaxTerm \in Nat \ {0}
                           /\ MaxDEK \in Nat \ {0}
                           /\ MaxCounter \in Nat \ {0}
                           /\ LeaseSize \in Nat

Term   == 1..MaxTerm
DEK    == 1..MaxDEK
NoDEK  == 0
NoCtr  == -1                     \* the term has no entry in PerTerm
Ctr    == 0..MaxCounter
Nonce  == Term \X (0..MaxCounter-1)
Status == {"absent", "active", "retired", "destroyed"}

\* A keyring file.  The list Terms is the function status, "absent" where the
\* list has no record; dek and kek are what WrappedDEK seals and under which KEK.
File == [active : Term,
         status : [Term -> Status],
         dek    : [Term -> DEK \cup {NoDEK}],
         kek    : [Term -> KEK \cup {None}],
         ctr    : [Term -> Ctr \cup {NoCtr}]]

\* A lease of nonces current, current+1, ..., end-1 of one term.
Lease == [valid : BOOLEAN, term : Term, current : Ctr, end : Ctr]
LeaseOf(t, c, e) == [valid |-> TRUE, term |-> t, current |-> c, end |-> e]
NoLease == [valid |-> FALSE, term |-> 1, current |-> 0, end |-> 0]

\* A call in progress: kind, and its arguments or what it has worked out.
Call == [kind : {"none", "seal", "rotate", "rekey", "destroy"},
         term : Term, dek : DEK \cup {NoDEK}, kek : KEK \cup {None},
         start : Ctr, end : Ctr]
NoCall == [kind |-> "none", term |-> 1, dek |-> NoDEK, kek |-> None,
           start |-> 0, end |-> 0]

\* Where a call stands.
PC == {"idle",     \* no call
       "next",     \* sealing: has the active DEK, about to call NextGCMNonce
       "waitFlock",\* NextGCMNonce: holds mu, waits for the flock
       "waitMu",   \* RotateTerm, RotateKEK, DestroyTerm: holds the flock, waits for mu
       "loaded",   \* holds both, has reloaded and changed the copy in memory
       "saved"}    \* the new file is on disk

VARIABLES
    disk,     \* keyring.json
    flock,    \* the thread that holds the flock, or None
    up,       \* up[p]: process p has the keyring open
    mem,      \* mem[p]: Keyring.file
    deks,     \* deks[p][t]: Keyring.deks, NoDEK where there is no entry
    kekOf,    \* kekOf[p]: the KEK process p uses
    lease,    \* lease[p]: Keyring.lease
    mu,       \* mu[p]: the thread that holds Keyring.mu, or None
    pc,       \* pc[th]
    call,     \* call[th]
    dekGen,   \* number of DEKs generated so far
    used,     \* history: used[n] is how often nonce n was returned
    sealed    \* history: sealed[t] are the DEKs that values of term t were sealed with

memVars == <<up, mem, deks, kekOf, lease>>
vars == <<disk, flock, up, mem, deks, kekOf, lease, mu, pc, call, dekGen, used, sealed>>

NoDEKs == [t \in Term |-> NoDEK]

\* New, NewWithSalt: term 1 is active, its DEK wrapped, its counter zero.
NewFile ==
    [active |-> 1,
     status |-> [t \in Term |-> IF t = 1 THEN "active" ELSE "absent"],
     dek    |-> [t \in Term |-> IF t = 1 THEN 1 ELSE NoDEK],
     kek    |-> [t \in Term |-> IF t = 1 THEN InitKEK ELSE None],
     ctr    |-> [t \in Term |-> IF t = 1 THEN 0 ELSE NoCtr]]

Init ==
    /\ disk   = NewFile
    /\ flock  = None
    /\ up     = [p \in Proc |-> FALSE]
    /\ mem    = [p \in Proc |-> NewFile]
    /\ deks   = [p \in Proc |-> NoDEKs]
    /\ kekOf  = [p \in Proc |-> InitKEK]
    /\ lease  = [p \in Proc |-> NoLease]
    /\ mu     = [p \in Proc |-> None]
    /\ pc     = [th \in Thread |-> "idle"]
    /\ call   = [th \in Thread |-> NoCall]
    /\ dekGen = 1
    /\ used   = [n \in Nonce |-> 0]
    /\ sealed = [t \in Term |-> {}]

-----------------------------------------------------------------------------
\* Helpers

Live(f, t) == f.status[t] \in {"active", "retired"}

\* The DEKs Open unwraps from file f with KEK k; failures are skipped.
Unwrap(f, k) == [t \in Term |-> IF Live(f, t) /\ f.kek[t] = k THEN f.dek[t] ELSE NoDEK]

\* mergeGCMCounters: a Go map read of a missing key is zero, so a counter that
\* is zero in memory and missing on disk stays missing.
Merge(prev, onDisk) ==
    [t \in Term |-> IF prev[t] > (IF onDisk[t] = NoCtr THEN 0 ELSE onDisk[t])
                    THEN prev[t] ELSE onDisk[t]]

\* Slip: work on the copy in memory, without reading the file again.
ReloadSkipped(p) == mem[p]

\* The reload under the flock: the file on disk with the merged counters.
Reload(p) == [disk EXCEPT !.ctr = Merge(mem[p].ctr, disk.ctr)]

\* Slips: no clamp at the end of the counter, or none and the sum wraps around.
LeaseEndUnclamped(c) == IF LeaseSize > 0 THEN c + LeaseSize ELSE c + 1
LeaseEndWraps(c) == LeaseEndUnclamped(c) % (MaxCounter + 1)

\* The exclusive end of the lease that starts at counter c.
LeaseEnd(c) ==
    IF LeaseSize > 0
    THEN IF c > MaxCounter - LeaseSize THEN MaxCounter ELSE c + LeaseSize
    ELSE c + 1

Exhausted(l, t) == ~l.valid \/ l.term # t \/ l.current >= l.end

Finish(th) ==
    /\ pc'   = [pc   EXCEPT ![th] = "idle"]
    /\ call' = [call EXCEPT ![th] = NoCall]

\* Slip: the flock stays locked.
ReleaseMuOnly(th) ==
    /\ flock' = flock
    /\ mu'    = [p \in Proc |-> IF mu[p] = th THEN None ELSE mu[p]]
    /\ Finish(th)

\* The deferred unlocks of whatever locks the thread holds, then the return.
Release(th) ==
    /\ flock' = IF flock = th THEN None ELSE flock
    /\ mu'    = [p \in Proc |-> IF mu[p] = th THEN None ELSE mu[p]]
    /\ Finish(th)

-----------------------------------------------------------------------------
\* Opening and ending a process

\* Open: reads the file without a lock; fails if no term unwraps.
Open(p, k) ==
    /\ ~up[p]
    /\ Unwrap(disk, k) # NoDEKs
    /\ up'    = [up    EXCEPT ![p] = TRUE]
    /\ mem'   = [mem   EXCEPT ![p] = disk]
    /\ deks'  = [deks  EXCEPT ![p] = Unwrap(disk, k)]
    /\ kekOf' = [kekOf EXCEPT ![p] = k]
    /\ lease' = [lease EXCEPT ![p] = NoLease]
    /\ UNCHANGED <<disk, flock, mu, pc, call, dekGen, used, sealed>>

\* The process exits (Zero, when it exits in order) or is killed at any point
\* of any call.  The kernel drops its flock, the rest of its lease is lost.
Stop(p) ==
    /\ up[p]
    /\ up'    = [up    EXCEPT ![p] = FALSE]
    /\ mem'   = [mem   EXCEPT ![p] = NewFile]
    /\ deks'  = [deks  EXCEPT ![p] = NoDEKs]
    /\ kekOf' = [kekOf EXCEPT ![p] = InitKEK]
    /\ lease' = [lease EXCEPT ![p] = NoLease]
    /\ mu'    = [mu    EXCEPT ![p] = None]
    /\ flock' = IF flock # None /\ ProcOf[flock] = p THEN None ELSE flock
    /\ pc'    = [th \in Thread |-> IF ProcOf[th] = p THEN "idle" ELSE pc[th]]
    /\ call'  = [th \in Thread |-> IF ProcOf[th] = p THEN NoCall ELSE call[th]]
    /\ UNCHANGED <<disk, dekGen, used, sealed>>

-----------------------------------------------------------------------------
\* Sealing a value: ActiveDEK, then NextGCMNonce for that term

\* ActiveDEK: the term is active in the copy in memory, which may be stale.
ActiveDEK(th) ==
    LET p == ProcOf[th]
        t == mem[p].active
    IN  /\ up[p] /\ pc[th] = "idle" /\ mu[p] = None
        /\ deks[p][t] # NoDEK
        /\ pc'   = [pc EXCEPT ![th] = "next"]
        /\ call' = [call EXCEPT ![th] = [NoCall EXCEPT !.kind = "seal", !.term = t,
                                                      !.dek = deks[p][t]]]
        /\ UNCHANGED <<disk, flock, memVars, mu, dekGen, used, sealed>>

\* The nonce goes to the caller, which seals a value with it and its DEK.
HandOut(th, c) ==
    LET t == call[th].term
    IN  /\ used'   = [used EXCEPT ![<<t, c>>] = @ + 1]
        /\ sealed' = [sealed EXCEPT ![t] = @ \cup {call[th].dek}]

\* The fast path holds mu from start to end and touches no file.
NextFast(th) ==
    LET p == ProcOf[th]
    IN  /\ pc[th] = "next" /\ mu[p] = None
        /\ ~Exhausted(lease[p], call[th].term)
        /\ HandOut(th, lease[p].current)
        /\ lease' = [lease EXCEPT ![p] = LeaseOf(@.term, @.current + 1, @.end)]
        /\ Finish(th)
        /\ UNCHANGED <<disk, flock, up, mem, deks, kekOf, mu, dekGen>>

\* The slow path takes mu first and then the flock.
NextTakeMu(th) ==
    LET p == ProcOf[th]
    IN  /\ pc[th] = "next" /\ mu[p] = None
        /\ Exhausted(lease[p], call[th].term)
        /\ mu' = [mu EXCEPT ![p] = th]
        /\ pc' = [pc EXCEPT ![th] = "waitFlock"]
        /\ UNCHANGED <<disk, flock, memVars, call, dekGen, used, sealed>>

\* The counter is missing (ErrKeyTermNotFound) or at its end (ErrKeyTermExhausted).
NextRefuse(th) ==
    LET p == ProcOf[th]
        f == Reload(p)
    IN  /\ pc[th] = "waitFlock" /\ flock = None
        /\ f.ctr[call[th].term] \in {NoCtr, MaxCounter}
        /\ mem' = [mem EXCEPT ![p] = f]
        /\ Release(th)
        /\ UNCHANGED <<disk, up, deks, kekOf, lease, dekGen, used, sealed>>

\* Reload, merge, and raise the high-watermark in memory.
NextLoad(th) ==
    LET p == ProcOf[th]
        f == Reload(p)
        t == call[th].term
        c == f.ctr[t]
    IN  /\ pc[th] = "waitFlock" /\ flock = None
        /\ c \notin {NoCtr, MaxCounter}
        /\ mem'  = [mem  EXCEPT ![p] = [f EXCEPT !.ctr[t] = LeaseEnd(c)]]
        /\ call' = [call EXCEPT ![th].start = c, ![th].end = LeaseEnd(c)]
        /\ flock' = th
        /\ pc'   = [pc   EXCEPT ![th] = "loaded"]
        /\ UNCHANGED <<disk, up, deks, kekOf, lease, mu, dekGen, used, sealed>>

\* saveFile failed: the counter in memory is rolled back, no nonce is returned.
NextSaveFails(th) ==
    /\ pc[th] = "loaded" /\ call[th].kind = "seal"
    /\ mem' = [mem EXCEPT ![ProcOf[th]].ctr[call[th].term] = call[th].start]
    /\ Release(th)
    /\ UNCHANGED <<disk, up, deks, kekOf, lease, dekGen, used, sealed>>

\* The flushed block becomes the lease, its first nonce is returned.
NextReturn(th) ==
    LET p == ProcOf[th]
    IN  /\ pc[th] = "saved" /\ call[th].kind = "seal"
        /\ lease' = [lease EXCEPT ![p] = LeaseOf(call[th].term, call[th].start + 1, call[th].end)]
        /\ HandOut(th, call[th].start)
        /\ Release(th)
        /\ UNCHANGED <<disk, up, mem, deks, kekOf, dekGen>>

-----------------------------------------------------------------------------
\* The term lifecycle: RotateTerm, RotateKEK, DestroyTerm

\* All three take the flock first and then mu.
Begin(th, kind, t, k) ==
    /\ up[ProcOf[th]] /\ pc[th] = "idle" /\ flock = None
    /\ flock' = th
    /\ pc'    = [pc   EXCEPT ![th] = "waitMu"]
    /\ call'  = [call EXCEPT ![th] = [NoCall EXCEPT !.kind = kind, !.term = t, !.kek = k]]
    /\ UNCHANGED <<disk, memVars, mu, dekGen, used, sealed>>

\* The bounds: a term and a DEK must be left.
RoomToRotate(f) == f.active < MaxTerm /\ dekGen < MaxDEK

BeginRotateTerm(th)     == RoomToRotate(disk) /\ Begin(th, "rotate", 1, kekOf[ProcOf[th]])
BeginRotateKEK(th, k)   == Begin(th, "rekey", 1, k)
BeginDestroyTerm(th, t) == Begin(th, "destroy", t, None)

\* With the flock held, mu is free: the rest runs under both locks.
LifecycleLocked(th, kind) ==
    pc[th] = "waitMu" /\ mu[ProcOf[th]] = None /\ call[th].kind = kind

\* RotateTerm up to the save: a new DEK, the active term retired, a new term.
RotateTermLoad(th) ==
    LET p == ProcOf[th]
        f == Reload(p)
        t == f.active + 1
        d == dekGen + 1
    IN  /\ LifecycleLocked(th, "rotate")
        /\ RoomToRotate(f)
        /\ dekGen' = d
        /\ mem' = [mem EXCEPT ![p] =
              [active |-> t,
               status |-> [u \in Term |-> IF u = t THEN "active"
                                          ELSE IF f.status[u] = "active" THEN "retired"
                                          ELSE f.status[u]],
               dek |-> [f.dek EXCEPT ![t] = d],
               kek |-> [f.kek EXCEPT ![t] = call[th].kek],
               ctr |-> [f.ctr EXCEPT ![t] = 0]]]
        /\ call' = [call EXCEPT ![th].term = t, ![th].dek = d]
        /\ pc'   = [pc EXCEPT ![th] = "loaded"]
        /\ mu'   = [mu EXCEPT ![p] = th]
        /\ UNCHANGED <<disk, flock, up, deks, kekOf, lease, used, sealed>>

\* No randomness or the KEK refuses to wrap: only the reload happened.
RotateTermRefuse(th) ==
    /\ LifecycleLocked(th, "rotate")
    /\ mem' = [mem EXCEPT ![ProcOf[th]] = Reload(ProcOf[th])]
    /\ Release(th)
    /\ UNCHANGED <<disk, up, deks, kekOf, lease, dekGen, used, sealed>>

\* The DEKs that p has in memory, wrapped under KEK k in the records of ts.
Rewrap(f, p, k, ts) ==
    [f EXCEPT !.dek = [t \in Term |-> IF t \in ts THEN deks[p][t] ELSE f.dek[t]],
              !.kek = [t \in Term |-> IF t \in ts THEN k ELSE f.kek[t]]]

\* RotateKEK up to the save: every live term's DEK wrapped under the new KEK.
RotateKEKLoad(th) ==
    LET p == ProcOf[th]
        f == Reload(p)
    IN  /\ LifecycleLocked(th, "rekey")
        /\ \A t \in Term : Live(f, t) => deks[p][t] # NoDEK
        /\ mem' = [mem EXCEPT ![p] = Rewrap(f, p, call[th].kek, {t \in Term : Live(f, t)})]
        /\ pc' = [pc EXCEPT ![th] = "loaded"]
        /\ mu'   = [mu EXCEPT ![p] = th]
        /\ UNCHANGED <<disk, flock, up, deks, kekOf, lease, call, dekGen, used, sealed>>

\* Some live term stops it, because its DEK is not in memory or Wrap fails: the
\* terms before that one are re-wrapped in memory, nothing is saved.
RotateKEKRefuse(th) ==
    LET p == ProcOf[th]
        f == Reload(p)
    IN  \E stop \in Term :
            LET done(t) == t < stop /\ Live(f, t)
            IN  /\ LifecycleLocked(th, "rekey")
                /\ Live(f, stop)
                /\ \A t \in Term : done(t) => deks[p][t] # NoDEK
                /\ mem' = [mem EXCEPT ![p] = Rewrap(f, p, call[th].kek, {t \in Term : done(t)})]
                /\ Release(th)
                /\ UNCHANGED <<disk, up, deks, kekOf, lease, dekGen, used, sealed>>

\* The term must have a live record and not be the active one.
MayDestroy(f, t) == t # f.active /\ Live(f, t)

\* The bytes of p's DEK of term t are zeroed where they are: a thread of p that has
\* them from ActiveDEK goes on with a key of zeros.
Zeroed(p, t) ==
    [o \in Thread |-> IF ProcOf[o] = p /\ call[o].kind = "seal" /\ call[o].term = t
                     THEN [call[o] EXCEPT !.dek = NoDEK] ELSE call[o]]

\* DestroyTerm up to the save: the record loses its DEK, and so does memory.
DestroyTermLoad(th) ==
    LET p == ProcOf[th]
        f == Reload(p)
        t == call[th].term
    IN  /\ LifecycleLocked(th, "destroy")
        /\ MayDestroy(f, t)
        /\ mem'  = [mem EXCEPT ![p] = [f EXCEPT !.status[t] = "destroyed",
                                                !.dek[t] = NoDEK, !.kek[t] = None]]
        /\ deks' = [deks EXCEPT ![p][t] = NoDEK]
        /\ call' = Zeroed(p, t)
        /\ pc'   = [pc EXCEPT ![th] = "loaded"]
        /\ mu'   = [mu EXCEPT ![p] = th]
        /\ UNCHANGED <<disk, flock, up, kekOf, lease, dekGen, used, sealed>>

\* The term is active, already destroyed or unknown: only the reload happened.
DestroyTermRefuse(th) ==
    LET p == ProcOf[th]
        f == Reload(p)
    IN  /\ LifecycleLocked(th, "destroy")
        /\ ~MayDestroy(f, call[th].term)
        /\ mem' = [mem EXCEPT ![p] = f]
        /\ Release(th)
        /\ UNCHANGED <<disk, up, deks, kekOf, lease, dekGen, used, sealed>>

\* The flock or the file cannot be had (acquireFlock, loadFile): every call
\* that waits for its second lock may end here, with nothing changed.
GiveUp(th) ==
    /\ \/ pc[th] = "waitFlock"
       \/ pc[th] = "waitMu" /\ mu[ProcOf[th]] = None
    /\ Release(th)
    /\ UNCHANGED <<disk, memVars, dekGen, used, sealed>>

\* Slip: RotateTerm keeps the new DEK before the save.
LifecycleSaveFailsKeepsDEK(th) ==
    /\ pc[th] = "loaded" /\ call[th].kind \in {"rotate", "rekey", "destroy"}
    /\ deks' = IF call[th].kind = "rotate"
               THEN [deks EXCEPT ![ProcOf[th]][call[th].term] = call[th].dek] ELSE deks
    /\ Release(th)
    /\ UNCHANGED <<disk, up, mem, kekOf, lease, dekGen, used, sealed>>

\* saveFile failed before the rename: the changed copy stays in memory.
LifecycleSaveFails(th) ==
    /\ pc[th] = "loaded" /\ call[th].kind \in {"rotate", "rekey", "destroy"}
    /\ Release(th)
    /\ UNCHANGED <<disk, memVars, dekGen, used, sealed>>

\* After the save: RotateTerm keeps the new DEK.  The caller of RotateKEK goes
\* on with the new KEK.
LifecycleReturn(th) ==
    LET p == ProcOf[th]
    IN  /\ pc[th] = "saved" /\ call[th].kind \in {"rotate", "rekey", "destroy"}
        /\ deks' = IF call[th].kind = "rotate"
                   THEN [deks EXCEPT ![p][call[th].term] = call[th].dek] ELSE deks
        /\ kekOf' = IF call[th].kind = "rekey"
                    THEN [kekOf EXCEPT ![p] = call[th].kek] ELSE kekOf
        /\ Release(th)
        /\ UNCHANGED <<disk, up, mem, lease, dekGen, used, sealed>>

\* saveFile, atomicWrite: the rename replaces the whole file.
Save(th) ==
    /\ pc[th] = "loaded"
    /\ disk' = mem[ProcOf[th]]
    /\ pc'   = [pc EXCEPT ![th] = "saved"]
    /\ UNCHANGED <<flock, memVars, mu, call, dekGen, used, sealed>>

-----------------------------------------------------------------------------
\* The steps that start a call.
Start(th) ==
    \/ ActiveDEK(th)
    \/ BeginRotateTerm(th)
    \/ \E k \in KEK : BeginRotateKEK(th, k)
    \/ \E t \in Term : BeginDestroyTerm(th, t)

\* The steps that bring a call to its end.
Continue(th) ==
    \/ NextFast(th) \/ NextTakeMu(th) \/ NextRefuse(th)
    \/ NextLoad(th) \/ NextSaveFails(th) \/ NextReturn(th)
    \/ RotateTermLoad(th) \/ RotateTermRefuse(th)
    \/ RotateKEKLoad(th) \/ RotateKEKRefuse(th)
    \/ DestroyTermLoad(th) \/ DestroyTermRefuse(th)
    \/ Save(th) \/ LifecycleSaveFails(th) \/ LifecycleReturn(th)

Next ==
    \/ \E p \in Proc, k \in KEK : Open(p, k)
    \/ \E p \in Proc : Stop(p)
    \/ \E th \in Thread : Start(th) \/ Continue(th) \/ GiveUp(th)

Spec == Init /\ [][Next]_vars

\* A call that can go on again and again does go on: the kernel hands the flock
\* to its waiters in turn, and a Go mutex never starves a waiter for long.
Fairness == \A th \in Thread : SF_vars(Continue(th))
FairSpec == Spec /\ Fairness

-----------------------------------------------------------------------------
\* Properties

TypeOK ==
    /\ disk   \in File
    /\ flock  \in Thread \cup {None}
    /\ up     \in [Proc -> BOOLEAN]
    /\ mem    \in [Proc -> File]
    /\ deks   \in [Proc -> [Term -> DEK \cup {NoDEK}]]
    /\ kekOf  \in [Proc -> KEK]
    /\ lease  \in [Proc -> Lease]
    /\ mu     \in [Proc -> Thread \cup {None}]
    /\ pc     \in [Thread -> PC]
    /\ call   \in [Thread -> Call]
    /\ dekGen \in DEK
    /\ used   \in [Nonce -> Nat]
    /\ sealed \in [Term -> SUBSET (DEK \cup {NoDEK})]

\* No nonce of a term is ever returned twice, by any thread of any process,
\* whatever calls overlap, flushes fail and processes die: what NextGCMNonce
\* promises across processes and what AES-GCM stands or falls with.
NonceUnique == \A n \in Nonce : used[n] <= 1

\* No save moves a nonce counter on disk backward: the single lock file and the
\* reload under it keep RotateTerm, RotateKEK and DestroyTerm from writing back
\* a counter older than one just flushed by NextGCMNonce.
CountersNeverBack == [][\A t \in Term : disk'.ctr[t] >= disk.ctr[t]]_vars

\* A destroyed term stays destroyed and its wrapped DEK stays gone: no process
\* with an older copy of the file brings a key back that an operator destroyed.
DestroyedForever ==
    [][\A t \in Term : disk.status[t] = "destroyed"
           => disk'.status[t] = "destroyed" /\ disk'.dek[t] = NoDEK]_vars

\* A value stays readable until its term is destroyed: the DEK on disk for a
\* live term is the DEK every value of that term was sealed with, after any mix
\* of rotations, failed saves and re-wrapping by processes with stale memory, if
\* no goroutine seals while another one of its process destroys a term.
SealedReadable ==
    \A t \in Term : Live(disk, t) => sealed[t] \subseteq {disk.dek[t]}

\* The file always has exactly one active term, the one ActiveTerm names, and
\* it can be unwrapped by some KEK.
OneActiveTerm ==
    /\ {t \in Term : disk.status[t] = "active"} = {disk.active}
    /\ \A t \in Term : Live(disk, t) => disk.dek[t] # NoDEK /\ disk.kek[t] # None

\* The file names one active term at every moment, and what was sealed under a
\* term that was not destroyed can be opened again: rotations, destructions and
\* rewraps of several processes that race, fail to save or crash cost nothing else,
\* in processes of one goroutine.
TermsUsable == OneActiveTerm /\ SealedReadable

\* No two goroutines of one process work with the keyring: with two, a value may be
\* sealed with the zeros that a DestroyTerm left, and after a failed save of that
\* DestroyTerm its term is still live.
OneGoroutine == \A a, b \in Thread : ProcOf[a] = ProcOf[b] => a = b

\* Every call returns, whoever else holds or wants the two locks: the exported
\* methods are safe for concurrent use.
CallsReturn == \A th \in Thread : pc[th] # "idle" ~> pc[th] = "idle"

-----------------------------------------------------------------------------
\* The inductive invariant behind NonceUnique

HoldsFlock(th) == pc[th] \in {"waitMu", "loaded", "saved"}
HoldsMu(th)    == pc[th] \in {"waitFlock", "loaded", "saved"}

\* A thread is past a lock exactly when the lock says so.
LockInv ==
    \A th \in Thread : /\ HoldsFlock(th) <=> flock = th
                       /\ HoldsMu(th) <=> mu[ProcOf[th]] = th

\* Terms are numbered without gaps up to the active one, which has a counter
\* like every earlier term; later terms have none.
FileInv(f) ==
    \A t \in Term : /\ f.status[t] = "absent" <=> t > f.active
                    /\ f.status[t] = "active" <=> t = f.active
                    /\ f.ctr[t] = NoCtr <=> t > f.active

\* A counter in memory is never ahead of the disk, except between a thread's
\* load and its save; a rotation whose save failed leaves a zero behind.
MemInv ==
    \A p \in Proc :
        \/ \E th \in Thread : ProcOf[th] = p /\ pc[th] = "loaded"
        \/ \A t \in Term : mem[p].ctr[t] <= disk.ctr[t] \/ mem[p].ctr[t] <= 0

\* What a thread is about to save.
LoadedInv ==
    \A th \in Thread : pc[th] = "loaded" =>
        LET f == mem[ProcOf[th]]
            c == call[th]
        IN  /\ FileInv(f)
            /\ c.kind = "seal" =>
                 /\ c.start = disk.ctr[c.term] /\ c.start < c.end
                 /\ f.ctr = [disk.ctr EXCEPT ![c.term] = c.end]
            /\ c.kind # "seal" =>
                 \A t \in Term : \/ f.ctr[t] = disk.ctr[t]
                                 \/ f.ctr[t] = 0 /\ disk.ctr[t] = NoCtr

\* The nonces set aside for process p, and for a thread that has just flushed.
Leased(p, t, c)   == /\ lease[p].valid /\ lease[p].term = t
                     /\ lease[p].current <= c /\ c < lease[p].end
Pending(th, t, c) == /\ pc[th] = "saved" /\ call[th].kind = "seal" /\ call[th].term = t
                     /\ call[th].start <= c /\ c < call[th].end

\* Every nonce returned or set aside lies below the counter on disk, ...
WatermarkInv ==
    /\ \A n \in Nonce : used[n] > 0 => n[2] < disk.ctr[n[1]]
    /\ \A p \in Proc : lease[p].valid => lease[p].end <= disk.ctr[lease[p].term]
    /\ \A th \in Thread : pc[th] = "saved" /\ call[th].kind = "seal" =>
          call[th].end <= disk.ctr[call[th].term] /\ call[th].start < call[th].end

\* ... and is set aside for one process only, and not returned yet.
DisjointInv ==
    \A n \in Nonce :
        /\ \A p, q \in Proc : Leased(p, n[1], n[2]) /\ Leased(q, n[1], n[2]) => p = q
        /\ \A p \in Proc : Leased(p, n[1], n[2]) => used[n] = 0
        /\ \A th \in Thread : Pending(th, n[1], n[2]) =>
              used[n] = 0 /\ \A p \in Proc : ~Leased(p, n[1], n[2])

\* A thread inside a call is inside a call of a known kind.
CallInv ==
    \A th \in Thread :
        /\ pc[th] # "idle" => up[ProcOf[th]]
        /\ pc[th] \in {"next", "waitFlock"} => call[th].kind = "seal"
        /\ pc[th] = "waitMu" => call[th].kind \in {"rotate", "rekey", "destroy"}
        /\ pc[th] \in {"loaded", "saved"} => call[th].kind # "none"
        /\ call[th].kind \in {"rotate", "rekey"} => call[th].kek \in KEK

\* The inductive invariant: it implies NonceUnique.
NonceInv ==
    /\ LockInv /\ CallInv /\ FileInv(disk) /\ MemInv /\ LoadedInv
    /\ WatermarkInv /\ DisjointInv /\ NonceUnique
=============================================================================
