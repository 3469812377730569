--------------------------- MODULE KeyringProofs ---------------------------
(* Proofs about Keyring: type correctness, nonce uniqueness, terms that stay *)
(* usable and destroyed terms that stay destroyed, for any processes,        *)
(* threads, terms, lease size and counter width.                            *)
EXTENDS Keyring, TLAPS

\* The reload changes nothing but the counters, and keeps them counters.
LEMMA ReloadFile ==
    ASSUME TypeOK, NEW p \in Proc
    PROVE  /\ Reload(p) \in File
           /\ Reload(p).active = disk.active
           /\ Reload(p).status = disk.status
           /\ Reload(p).dek = disk.dek
           /\ Reload(p).kek = disk.kek
           /\ Reload(p).ctr = Merge(mem[p].ctr, disk.ctr)
  <1>1. Merge(mem[p].ctr, disk.ctr) \in [Term -> Ctr \cup {NoCtr}]
    BY DEF TypeOK, File, Merge
  <1> QED BY <1>1 DEF TypeOK, File, Reload

\* A lease is not empty and ends within the range of the counter.
LEMMA LeaseEndRange ==
    ASSUME NEW c \in Ctr, c # MaxCounter
    PROVE  LeaseEnd(c) \in Ctr /\ c < LeaseEnd(c)
  BY BoundAssumption DEF LeaseEnd, Ctr

\* Counters on disk are numbers.
LEMMA CounterType ==
    ASSUME TypeOK
    PROVE  \A t \in Term : disk.ctr[t] \in Int
  <1>1. disk \in File
    BY DEF TypeOK
  <1> QED BY <1>1 DEF File, Ctr, NoCtr

\* A freshly created keyring is well formed.
LEMMA NewFileType == NewFile \in File /\ FileInv(NewFile)
  BY BoundAssumption, KEKAssumption
  DEF NewFile, File, FileInv, Term, Status, DEK, NoDEK, Ctr, NoCtr

LEMMA InitType == Init => TypeOK
  <1> SUFFICES ASSUME Init PROVE TypeOK OBVIOUS
  <1> QED BY NewFileType, BoundAssumption, KEKAssumption
          DEF Init, TypeOK, Lease, NoLease, Call, NoCall, PC, NoDEKs, DEK, NoDEK, Ctr, Term, Nonce

\* The values for "nothing" have the types of the things they stand for.
LEMMA NullTypes ==
    /\ NoCall \in Call
    /\ NoLease \in Lease
    /\ NoDEKs \in [Term -> DEK \cup {NoDEK}]
  BY BoundAssumption DEF NoCall, Call, NoLease, Lease, NoDEKs, Term, Ctr

\* A call in progress may name any term, DEK and KEK.
LEMMA CallType ==
    ASSUME NEW c \in Call
    PROVE  /\ \A t \in Term, d \in DEK \cup {NoDEK} :
                 /\ [c EXCEPT !.kind = "seal", !.term = t, !.dek = d] \in Call
                 /\ [c EXCEPT !.term = t, !.dek = d] \in Call
           /\ \A kind \in {"rotate", "rekey", "destroy"}, t \in Term, k \in KEK \cup {None} :
                 [c EXCEPT !.kind = kind, !.term = t, !.kek = k] \in Call
           /\ \A x, y \in Ctr : [c EXCEPT !.start = x, !.end = y] \in Call
  BY DEF Call

\* A re-wrapped file is a file.
LEMMA RewrapType ==
    ASSUME TypeOK, NEW f \in File, NEW p \in Proc, NEW k \in KEK \cup {None}, NEW ts
    PROVE  Rewrap(f, p, k, ts) \in File
  <1> DEFINE d == [t \in Term |-> IF t \in ts THEN deks[p][t] ELSE f.dek[t]]
             w == [t \in Term |-> IF t \in ts THEN k ELSE f.kek[t]]
  <1>1. d \in [Term -> DEK \cup {NoDEK}]
    BY DEF TypeOK, File
  <1>2. w \in [Term -> KEK \cup {None}]
    BY DEF File
  <1> HIDE DEF d, w
  <1>3. [f EXCEPT !.dek = d, !.kek = w] \in File
    BY <1>1, <1>2 DEF File
  <1> QED BY <1>3 DEF Rewrap, d, w

\* Ending a call and releasing its locks keeps the types.
LEMMA ReleaseType ==
    ASSUME TypeOK, NEW th \in Thread
    PROVE  /\ Finish(th) => pc' \in [Thread -> PC] /\ call' \in [Thread -> Call]
           /\ Release(th) => /\ pc' \in [Thread -> PC] /\ call' \in [Thread -> Call]
                             /\ flock' \in Thread \cup {None}
                             /\ mu' \in [Proc -> Thread \cup {None}]
  <1>1. "idle" \in PC
    BY DEF PC
  <1> QED BY <1>1, NullTypes DEF Finish, Release, TypeOK

\* Handing out a nonce keeps the types of the histories.
LEMMA HandOutType ==
    ASSUME TypeOK, NEW th \in Thread, NEW c, HandOut(th, c)
    PROVE  used' \in [Nonce -> Nat] /\ sealed' \in [Term -> SUBSET (DEK \cup {NoDEK})]
  <1>1. call[th].dek \in DEK \cup {NoDEK}
    BY DEF TypeOK, Call
  <1>2. sealed' \in [Term -> SUBSET (DEK \cup {NoDEK})]
    BY <1>1 DEF HandOut, TypeOK
  <1>3. used' \in [Nonce -> Nat]
    <2> DEFINE n == <<call[th].term, c>>
    <2>1. used' = [used EXCEPT ![n] = @ + 1]
      BY DEF HandOut
    <2> HIDE DEF n
    <2>2. CASE n \in Nonce
      BY <2>1, <2>2 DEF TypeOK
    <2>3. CASE n \notin Nonce
      BY <2>1, <2>3 DEF TypeOK
    <2> QED BY <2>2, <2>3
  <1> QED BY <1>2, <1>3

\* Zeroing a DEK in the hands of other threads changes nothing else of their calls,
\* and nothing at all where the destroying thread is alone in its process.
LEMMA ZeroedCalls ==
    ASSUME TypeOK, NEW p, NEW t
    PROVE  /\ Zeroed(p, t) \in [Thread -> Call]
           /\ \A o \in Thread :
                /\ Zeroed(p, t)[o].kind = call[o].kind /\ Zeroed(p, t)[o].term = call[o].term
                /\ Zeroed(p, t)[o].kek = call[o].kek
                /\ Zeroed(p, t)[o].start = call[o].start /\ Zeroed(p, t)[o].end = call[o].end
                /\ Zeroed(p, t)[o].dek \in {call[o].dek, NoDEK}
                /\ call[o].kind # "seal" => Zeroed(p, t)[o] = call[o]
                /\ ProcOf[o] # p => Zeroed(p, t)[o] = call[o]
  <1>1. ASSUME NEW o \in Thread, NEW c, c = [call[o] EXCEPT !.dek = NoDEK]
        PROVE  /\ c \in Call /\ c.kind = call[o].kind /\ c.term = call[o].term /\ c.kek = call[o].kek
               /\ c.start = call[o].start /\ c.end = call[o].end /\ c.dek = NoDEK
    BY <1>1 DEF TypeOK, Call
  <1>2. ASSUME NEW o \in Thread
        PROVE  \/ Zeroed(p, t)[o] = call[o] /\ call[o] \in Call
               \/ /\ Zeroed(p, t)[o] = [call[o] EXCEPT !.dek = NoDEK]
                  /\ call[o].kind = "seal" /\ ProcOf[o] = p
    BY DEF TypeOK, Zeroed
  <1>3. Zeroed(p, t) = [o \in Thread |-> Zeroed(p, t)[o]]
    BY DEF Zeroed
  <1>4. \A o \in Thread : Zeroed(p, t)[o] \in Call
    BY <1>1, <1>2
  <1>5. Zeroed(p, t) \in [Thread -> Call]
    BY <1>3, <1>4
  <1> QED BY <1>1, <1>2, <1>5

\* Every step keeps the types.  NextReturn needs the inductive invariant: the
\* block it turns into a lease is not empty.
LEMMA StepType ==
    ASSUME TypeOK, NonceInv, [Next]_vars
    PROVE  TypeOK'
  <1> USE BoundAssumption, KEKAssumption, NoneAssumption, ThreadAssumption
  <1>1. ASSUME NEW p \in Proc, NEW k \in KEK, Open(p, k) PROVE TypeOK'
    <2>1. Unwrap(disk, k) \in [Term -> DEK \cup {NoDEK}]
      BY DEF Unwrap, TypeOK, File
    <2> QED BY <1>1, <2>1, NullTypes DEF Open, TypeOK
  <1>2. ASSUME NEW p \in Proc, Stop(p) PROVE TypeOK'
    <2>1. "idle" \in PC
      BY DEF PC
    <2>2. pc' \in [Thread -> PC] /\ call' \in [Thread -> Call]
      BY <1>2, <2>1, NullTypes DEF Stop, TypeOK
    <2> QED BY <1>2, <2>2, NullTypes, NewFileType DEF Stop, TypeOK
  <1>3. ASSUME NEW th \in Thread, ActiveDEK(th) PROVE TypeOK'
    <2> DEFINE p == ProcOf[th]
               t == mem[p].active
    <2>1. t \in Term /\ deks[p][t] \in DEK \cup {NoDEK}
      BY DEF TypeOK, File
    <2>2. call' \in [Thread -> Call]
      BY <1>3, <2>1, CallType, NullTypes DEF ActiveDEK, TypeOK
    <2> QED BY <1>3, <2>2 DEF ActiveDEK, memVars, TypeOK, PC
  <1>4. ASSUME NEW th \in Thread, NextFast(th) PROVE TypeOK'
    <2> DEFINE p == ProcOf[th]
    <2>1. lease[p].current + 1 \in Ctr
      BY <1>4 DEF NextFast, Exhausted, TypeOK, Lease, Ctr
    <2>2. LeaseOf(lease[p].term, lease[p].current + 1, lease[p].end) \in Lease
      BY <2>1 DEF TypeOK, Lease, LeaseOf
    <2>3. lease' \in [Proc -> Lease]
      BY <1>4, <2>2 DEF NextFast, TypeOK
    <2> QED BY <1>4, <2>3, ReleaseType, HandOutType DEF NextFast, TypeOK
  <1>5. ASSUME NEW th \in Thread, NextTakeMu(th) PROVE TypeOK'
    BY <1>5 DEF NextTakeMu, memVars, TypeOK, PC
  <1>6. ASSUME NEW th \in Thread, NextRefuse(th) PROVE TypeOK'
    BY <1>6, ReleaseType, ReloadFile DEF NextRefuse, TypeOK
  <1>7. ASSUME NEW th \in Thread, NextLoad(th) PROVE TypeOK'
    <2> DEFINE p == ProcOf[th]
               t == call[th].term
               f == Reload(p)
               c == f.ctr[t]
    <2>1. p \in Proc /\ t \in Term /\ f \in File /\ c \in Ctr /\ c # MaxCounter
      BY <1>7, ReloadFile DEF NextLoad, TypeOK, Call, File
    <2>2. LeaseEnd(c) \in Ctr
      BY <2>1, LeaseEndRange
    <2>3. [f EXCEPT !.ctr[t] = LeaseEnd(c)] \in File
      BY <2>1, <2>2 DEF File
    <2>4. mem' \in [Proc -> File]
      BY <1>7, <2>3 DEF NextLoad, TypeOK
    <2>5. [call[th] EXCEPT !.start = c, !.end = LeaseEnd(c)] \in Call
      BY <2>1, <2>2, CallType DEF TypeOK
    <2>6. call' \in [Thread -> Call]
      BY <1>7, <2>5 DEF NextLoad, TypeOK
    <2> QED BY <1>7, <2>4, <2>6 DEF NextLoad, TypeOK, PC
  <1>8. ASSUME NEW th \in Thread, NextSaveFails(th) PROVE TypeOK'
    <2>1. mem' \in [Proc -> File]
      BY <1>8 DEF NextSaveFails, TypeOK, Call, File
    <2> QED BY <1>8, ReleaseType, <2>1 DEF NextSaveFails, TypeOK
  <1>9. ASSUME NEW th \in Thread, NextReturn(th) PROVE TypeOK'
    <2>1. call[th].start + 1 \in Ctr
      BY <1>9 DEF NextReturn, NonceInv, WatermarkInv, TypeOK, Call, Ctr
    <2>2. lease' \in [Proc -> Lease]
      BY <1>9, <2>1 DEF NextReturn, TypeOK, Call, Lease, LeaseOf
    <2> QED BY <1>9, <2>2, ReleaseType, HandOutType DEF NextReturn, TypeOK
  <1>10. ASSUME NEW th \in Thread, NEW kind \in {"rotate", "rekey", "destroy"}, NEW t \in Term,
                NEW k \in KEK \cup {None}, Begin(th, kind, t, k)
         PROVE TypeOK'
    <2>1. call' \in [Thread -> Call]
      BY <1>10, CallType, NullTypes DEF Begin, TypeOK
    <2> QED BY <1>10, <2>1 DEF Begin, memVars, TypeOK, PC
  <1>11. ASSUME NEW th \in Thread, RotateTermLoad(th) PROVE TypeOK'
    <2> DEFINE p == ProcOf[th]
               f == Reload(p)
               t == f.active + 1
    <2>1. p \in Proc /\ f \in File /\ t \in Term /\ dekGen + 1 \in DEK /\ call[th].kek \in KEK
      BY <1>11, ReloadFile DEF RotateTermLoad, RoomToRotate, LifecycleLocked, TypeOK, File, Term, DEK,
         NonceInv, CallInv
    <2>2. mem'[p] \in File
      BY <1>11, <2>1 DEF RotateTermLoad, TypeOK, File, Status, Ctr
    <2>3. mem' \in [Proc -> File]
      BY <1>11, <2>2 DEF RotateTermLoad, TypeOK
    <2>4. [call[th] EXCEPT !.term = t, !.dek = dekGen + 1] \in Call
      BY <2>1, CallType DEF TypeOK
    <2>5. call' \in [Thread -> Call]
      BY <1>11, <2>4 DEF RotateTermLoad, TypeOK
    <2> QED BY <1>11, <2>1, <2>3, <2>5 DEF RotateTermLoad, TypeOK, PC
  <1>12. ASSUME NEW th \in Thread, RotateTermRefuse(th) PROVE TypeOK'
    BY <1>12, ReleaseType, ReloadFile DEF RotateTermRefuse, TypeOK
  <1>14. ASSUME NEW th \in Thread, RotateKEKLoad(th) PROVE TypeOK'
    <2>1. mem' \in [Proc -> File]
      BY <1>14, RewrapType, ReloadFile DEF RotateKEKLoad, TypeOK, Call
    <2> QED BY <1>14, <2>1 DEF RotateKEKLoad, TypeOK, PC
  <1>15. ASSUME NEW th \in Thread, RotateKEKRefuse(th) PROVE TypeOK'
    <2> DEFINE p == ProcOf[th]
    <2>1. PICK ts : mem' = [mem EXCEPT ![p] = Rewrap(Reload(p), p, call[th].kek, ts)]
      BY <1>15 DEF RotateKEKRefuse
    <2>2. call[th].kek \in KEK \cup {None}
      BY DEF TypeOK, Call
    <2>3. mem' \in [Proc -> File]
      BY <2>1, <2>2, RewrapType, ReloadFile DEF TypeOK
    <2> QED BY <1>15, ReleaseType, <2>3 DEF RotateKEKRefuse, TypeOK
  <1>16. ASSUME NEW th \in Thread, DestroyTermLoad(th) PROVE TypeOK'
    <2> DEFINE p == ProcOf[th]
               t == call[th].term
               f == Reload(p)
    <2>1. p \in Proc /\ f \in File /\ t \in Term
      BY <1>16, ReloadFile DEF TypeOK, Call
    <2>2. [f EXCEPT !.status[t] = "destroyed", !.dek[t] = NoDEK, !.kek[t] = None] \in File
      BY <2>1 DEF File, Status
    <2>3. call' \in [Thread -> Call]
      BY <1>16, ZeroedCalls DEF DestroyTermLoad
    <2> QED BY <1>16, <2>1, <2>2, <2>3 DEF DestroyTermLoad, TypeOK, PC
  <1>17. ASSUME NEW th \in Thread, DestroyTermRefuse(th) PROVE TypeOK'
    BY <1>17, ReleaseType, ReloadFile DEF DestroyTermRefuse, TypeOK
  <1>18. ASSUME NEW th \in Thread, GiveUp(th) PROVE TypeOK'
    BY <1>18, ReleaseType DEF GiveUp, memVars, TypeOK
  <1>19. ASSUME NEW th \in Thread, LifecycleSaveFails(th) PROVE TypeOK'
    BY <1>19, ReleaseType DEF LifecycleSaveFails, memVars, TypeOK
  <1>20. ASSUME NEW th \in Thread, LifecycleReturn(th) PROVE TypeOK'
    <2>1. deks' \in [Proc -> [Term -> DEK \cup {NoDEK}]]
      BY <1>20 DEF LifecycleReturn, TypeOK, Call
    <2>2. kekOf' \in [Proc -> KEK]
      BY <1>20 DEF LifecycleReturn, TypeOK, NonceInv, CallInv
    <2> QED BY <1>20, ReleaseType, <2>1, <2>2 DEF LifecycleReturn, TypeOK
  <1>21. ASSUME NEW th \in Thread, Save(th) PROVE TypeOK'
    BY <1>21 DEF Save, memVars, TypeOK, PC
  <1>22. CASE UNCHANGED vars
    BY <1>22 DEF vars, TypeOK
  <1> QED
    <2>1. ASSUME NEW th \in Thread, Start(th) PROVE TypeOK'
      BY <1>3, <1>10, <2>1
      DEF Start, BeginRotateTerm, BeginRotateKEK, BeginDestroyTerm, TypeOK, Term
    <2>2. ASSUME NEW th \in Thread, Continue(th) PROVE TypeOK'
      BY <2>2, <1>4, <1>5, <1>6, <1>7, <1>8, <1>9, <1>11, <1>12, <1>14, <1>15, <1>16, <1>17,
         <1>19, <1>20, <1>21 DEF Continue
    <2> QED BY <1>1, <1>2, <1>18, <1>22, <2>1, <2>2 DEF Next

-----------------------------------------------------------------------------
\* The parts of the inductive invariant, one lemma each

\* The two locks exclude what they should.
LEMMA StepLock ==
    ASSUME TypeOK, NonceInv, [Next]_vars
    PROVE  LockInv'
  <1> USE NoneAssumption, ThreadAssumption
  <1> USE DEF LockInv, HoldsFlock, HoldsMu
  <1>0. LockInv
    BY DEF NonceInv
  <1>1. ASSUME NEW p \in Proc, NEW k \in KEK, Open(p, k) PROVE LockInv'
    BY <1>0, <1>1 DEF Open
  <1>2. ASSUME NEW p \in Proc, Stop(p) PROVE LockInv'
    BY <1>0, <1>2 DEF Stop, TypeOK
  <1>3. ASSUME NEW th \in Thread, ActiveDEK(th) PROVE LockInv'
    BY <1>0, <1>3 DEF ActiveDEK, TypeOK
  <1>4. ASSUME NEW th \in Thread, NextFast(th) PROVE LockInv'
    BY <1>0, <1>4 DEF NextFast, Finish, TypeOK
  <1>5. ASSUME NEW th \in Thread, NextTakeMu(th) PROVE LockInv'
    BY <1>0, <1>5 DEF NextTakeMu, TypeOK
  <1>6. ASSUME NEW th \in Thread, NextLoad(th) PROVE LockInv'
    BY <1>0, <1>6 DEF NextLoad, TypeOK
  <1>7. ASSUME NEW th \in Thread, NEW kind, NEW t, NEW k, Begin(th, kind, t, k) PROVE LockInv'
    BY <1>0, <1>7 DEF Begin, TypeOK
  <1>8. ASSUME NEW th \in Thread, RotateTermLoad(th) \/ RotateKEKLoad(th) \/ DestroyTermLoad(th)
        PROVE LockInv'
    BY <1>0, <1>8 DEF RotateTermLoad, RotateKEKLoad, DestroyTermLoad, LifecycleLocked, TypeOK
  <1>9. ASSUME NEW th \in Thread, Save(th) PROVE LockInv'
    BY <1>0, <1>9 DEF Save, TypeOK
  <1>10. ASSUME NEW th \in Thread, Release(th) PROVE LockInv'
    BY <1>0, <1>10 DEF Release, Finish, TypeOK
  <1>11. CASE UNCHANGED vars
    BY <1>0, <1>11 DEF vars
  <1> QED
    <2>1. ASSUME NEW th \in Thread, Start(th) PROVE LockInv'
      BY <2>1, <1>3, <1>7 DEF Start, BeginRotateTerm, BeginRotateKEK, BeginDestroyTerm
    <2>2. ASSUME NEW th \in Thread, Continue(th) \/ GiveUp(th) PROVE LockInv'
      BY <2>2, <1>4, <1>5, <1>6, <1>8, <1>9, <1>10
      DEF Continue, GiveUp, NextRefuse, NextSaveFails, NextReturn, RotateTermRefuse, RotateKEKRefuse,
          DestroyTermRefuse, LifecycleSaveFails, LifecycleReturn
    <2> QED BY <1>1, <1>2, <1>11, <2>1, <2>2 DEF Next

\* Calls stay of the kind their position says.
LEMMA StepCall ==
    ASSUME TypeOK, NonceInv, [Next]_vars
    PROVE  CallInv'
  <1> USE ThreadAssumption DEF CallInv
  <1>0. CallInv
    BY DEF NonceInv
  <1>1. ASSUME NEW p \in Proc, NEW k \in KEK, Open(p, k) PROVE CallInv'
    BY <1>0, <1>1 DEF Open
  <1>2. ASSUME NEW p \in Proc, Stop(p) PROVE CallInv'
    BY <1>0, <1>2 DEF Stop, TypeOK, NoCall
  <1>3. ASSUME NEW th \in Thread, ActiveDEK(th) PROVE CallInv'
    BY <1>0, <1>3 DEF ActiveDEK, memVars, TypeOK, NoCall
  <1>4. ASSUME NEW th \in Thread, Finish(th), up' = up PROVE CallInv'
    BY <1>0, <1>4 DEF Finish, TypeOK, NoCall
  <1>5. ASSUME NEW th \in Thread, NextTakeMu(th) PROVE CallInv'
    BY <1>0, <1>5 DEF NextTakeMu, memVars, TypeOK
  <1>6. ASSUME NEW th \in Thread, NextLoad(th) PROVE CallInv'
    <2>1. call'[th].kind = call[th].kind /\ call'[th].kek = call[th].kek
      BY <1>6 DEF NextLoad, TypeOK, Call
    <2> QED BY <1>0, <1>6, <2>1 DEF NextLoad, TypeOK
  <1>7. ASSUME NEW th \in Thread, Start(th), ~ActiveDEK(th) PROVE CallInv'
    <2>1. PICK kind \in {"rotate", "rekey", "destroy"}, t \in Term, k \in KEK \cup {None} :
             Begin(th, kind, t, k) /\ (kind = "destroy" \/ k \in KEK)
      BY <1>7, BoundAssumption, ThreadAssumption
      DEF Start, BeginRotateTerm, BeginRotateKEK, BeginDestroyTerm, TypeOK, Term
    <2> QED BY <1>0, <2>1 DEF Begin, memVars, TypeOK, NoCall
  <1>8. ASSUME NEW th \in Thread, RotateTermLoad(th) PROVE CallInv'
    <2>1. call'[th].kind = call[th].kind /\ call'[th].kek = call[th].kek
      BY <1>8 DEF RotateTermLoad, TypeOK, Call
    <2> QED BY <1>0, <1>8, <2>1 DEF RotateTermLoad, LifecycleLocked, TypeOK
  <1>9. ASSUME NEW th \in Thread, RotateKEKLoad(th) \/ DestroyTermLoad(th) \/ Save(th)
        PROVE CallInv'
    <2>1. CASE RotateKEKLoad(th) \/ Save(th)
      BY <1>0, <2>1 DEF RotateKEKLoad, LifecycleLocked, Save, memVars, TypeOK
    <2>2. CASE DestroyTermLoad(th)
      <3>1. \A o \in Thread : call'[o].kind = call[o].kind /\ call'[o].kek = call[o].kek
        BY <2>2, ZeroedCalls DEF DestroyTermLoad
      <3> QED BY <1>0, <2>2, <3>1 DEF DestroyTermLoad, LifecycleLocked, TypeOK
    <2> QED BY <1>9, <2>1, <2>2
  <1>10. CASE UNCHANGED vars
    BY <1>0, <1>10 DEF vars
  <1> QED
    <2>1. ASSUME NEW th \in Thread, Continue(th) \/ GiveUp(th) PROVE CallInv'
      BY <2>1, <1>4, <1>5, <1>6, <1>8, <1>9
      DEF Continue, GiveUp, NextFast, NextRefuse, NextSaveFails, NextReturn, RotateTermRefuse,
          RotateKEKRefuse, DestroyTermRefuse, LifecycleSaveFails, LifecycleReturn, Release, memVars
    <2> QED BY <1>1, <1>2, <1>3, <1>7, <1>10, <2>1 DEF Next


\* Outside a load that is not saved yet, the merge changes nothing: the counters
\* in memory are never ahead of the disk.
LEMMA MergeIsDisk ==
    ASSUME TypeOK, NEW p \in Proc,
           \A t \in Term : mem[p].ctr[t] <= disk.ctr[t] \/ mem[p].ctr[t] <= 0
    PROVE  Merge(mem[p].ctr, disk.ctr) = disk.ctr
  <1>1. /\ mem[p].ctr \in [Term -> Ctr \cup {NoCtr}]
        /\ disk.ctr \in [Term -> Ctr \cup {NoCtr}]
    BY DEF TypeOK, File
  <1> DEFINE a == mem[p].ctr
             b == disk.ctr
  <1> HIDE DEF a, b
  <1>2. \A t \in Term : ~(a[t] > (IF b[t] = NoCtr THEN 0 ELSE b[t]))
    BY <1>1 DEF Ctr, NoCtr, a, b
  <1>3. Merge(a, b) = b
    BY <1>1, <1>2 DEF Merge, a, b
  <1> QED BY <1>3 DEF a, b

\* A thread that gets its second lock reloads exactly what is on disk.
LEMMA ReloadIsDisk ==
    ASSUME TypeOK, NonceInv, NEW th \in Thread,
           pc[th] = "waitFlock" \/ mu[ProcOf[th]] = None
    PROVE  Reload(ProcOf[th]) = disk
  <1> DEFINE p == ProcOf[th]
  <1> USE ThreadAssumption, NoneAssumption
  <1>1. ~ \E u \in Thread : ProcOf[u] = p /\ pc[u] = "loaded"
    BY DEF NonceInv, LockInv, HoldsMu
  <1>2. \A t \in Term : mem[p].ctr[t] <= disk.ctr[t] \/ mem[p].ctr[t] <= 0
    BY <1>1 DEF NonceInv, MemInv
  <1>3. Merge(mem[p].ctr, disk.ctr) = disk.ctr
    BY <1>2, MergeIsDisk
  <1>4. disk = [disk EXCEPT !.ctr = disk.ctr]
    BY DEF TypeOK, File
  <1> QED BY <1>3, <1>4 DEF Reload

\* At most one thread is between its load and its return, and the lock it
\* waits for is not free.
LEMMA OneLoaded ==
    ASSUME NonceInv, NEW th \in Thread, NEW u \in Thread,
           HoldsFlock(th) \/ flock = None, HoldsFlock(u)
    PROVE  th = u
  BY NoneAssumption DEF NonceInv, LockInv

\* The file on disk stays well formed: only Save changes it.
LEMMA StepFile ==
    ASSUME TypeOK, NonceInv, [Next]_vars
    PROVE  FileInv(disk')
  <1>1. ASSUME NEW th \in Thread, Save(th) PROVE FileInv(disk')
    BY <1>1 DEF Save, NonceInv, LoadedInv
  <1>2. CASE disk' = disk
    BY <1>2 DEF NonceInv
  <1> QED
    BY <1>1, <1>2
    DEF Next, vars, Open, Stop, Start, Continue, GiveUp, ActiveDEK, BeginRotateTerm, BeginRotateKEK,
        BeginDestroyTerm, Begin, NextFast, NextTakeMu, NextRefuse, NextLoad, NextSaveFails,
        NextReturn, RotateTermLoad, RotateTermRefuse, RotateKEKLoad, RotateKEKRefuse,
        DestroyTermLoad, DestroyTermRefuse, LifecycleSaveFails, LifecycleReturn

\* A save only raises counters.
LEMMA SaveRaises ==
    ASSUME TypeOK, NonceInv, NEW th \in Thread, Save(th)
    PROVE  \A t \in Term : disk.ctr[t] <= disk'.ctr[t]
  <1> DEFINE f == mem[ProcOf[th]]
             c == call[th]
  <1>1. disk' = f /\ f \in File /\ disk \in File /\ c \in Call
    BY ThreadAssumption DEF Save, TypeOK
  <1>2. CASE c.kind = "seal"
    <2>1. /\ f.ctr = [disk.ctr EXCEPT ![c.term] = c.end]
          /\ c.start = disk.ctr[c.term] /\ c.start < c.end
      BY <1>2 DEF Save, NonceInv, LoadedInv
    <2> QED BY <1>1, <2>1 DEF File, Call, Ctr, NoCtr
  <1>3. CASE c.kind # "seal"
    <2>1. \A t \in Term : f.ctr[t] = disk.ctr[t] \/ (f.ctr[t] = 0 /\ disk.ctr[t] = NoCtr)
      BY <1>3 DEF Save, NonceInv, LoadedInv
    <2> QED BY <1>1, <2>1 DEF File, Ctr, NoCtr
  <1> QED BY <1>2, <1>3


\* What is about to be saved stays what it should be.
LEMMA StepLoaded ==
    ASSUME TypeOK, TypeOK', NonceInv, [Next]_vars
    PROVE  LoadedInv'
  <1> DEFINE Ready(th, f, c, d) ==
               /\ FileInv(f)
               /\ c.kind = "seal" =>
                    /\ c.start = d[c.term] /\ c.start < c.end
                    /\ f.ctr = [d EXCEPT ![c.term] = c.end]
               /\ c.kind # "seal" =>
                    \A t \in Term : f.ctr[t] = d[t] \/ (f.ctr[t] = 0 /\ d[t] = NoCtr)
  <1> SUFFICES ASSUME NEW u \in Thread, pc'[u] = "loaded"
               PROVE  Ready(u, mem'[ProcOf[u]], call'[u], disk'.ctr)
    BY DEF LoadedInv
  <1> USE ThreadAssumption, NoneAssumption
  <1>0. pc[u] = "loaded" => Ready(u, mem[ProcOf[u]], call[u], disk.ctr)
    BY DEF NonceInv, LoadedInv
  <1> HIDE DEF Ready
  <1> DEFINE Same == /\ pc[u] = "loaded" /\ call'[u] = call[u]
                     /\ mem'[ProcOf[u]] = mem[ProcOf[u]] /\ disk' = disk
  <1>1. CASE Same
    BY <1>0, <1>1
  <1>2. ASSUME NEW p \in Proc, NEW k \in KEK, Open(p, k) PROVE Same
    BY <1>2 DEF Open, NonceInv, CallInv, TypeOK
  <1>3. ASSUME NEW p \in Proc, Stop(p) PROVE Same
    BY <1>3 DEF Stop, TypeOK
  <1>4. ASSUME NEW th \in Thread, th # u,
               Start(th) \/ NextTakeMu(th) \/ NextFast(th) \/ GiveUp(th)
        PROVE Same
    BY <1>4 DEF Start, ActiveDEK, BeginRotateTerm, BeginRotateKEK, BeginDestroyTerm, Begin,
                NextTakeMu, NextFast, GiveUp, Release, Finish, memVars, TypeOK
  <1>5. ASSUME NEW th \in Thread, NextLoad(th) PROVE Ready(u, mem'[ProcOf[u]], call'[u], disk'.ctr)
    <2> DEFINE t == call[th].term
               c == disk.ctr[t]
    <2>1. th = u
      BY <1>5, OneLoaded DEF NextLoad, HoldsFlock, TypeOK
    <2>2. Reload(ProcOf[th]) = disk
      BY <1>5, ReloadIsDisk DEF NextLoad
    <2>3. /\ mem'[ProcOf[u]] = [disk EXCEPT !.ctr[t] = LeaseEnd(c)]
          /\ c \notin {NoCtr, MaxCounter}
          /\ call'[u] = [call[u] EXCEPT !.start = c, !.end = LeaseEnd(c)]
          /\ disk' = disk /\ call[u].kind = "seal" /\ call[u] \in Call
      BY <1>5, <2>1, <2>2 DEF NextLoad, TypeOK, NonceInv, CallInv
    <2>4. t \in Term /\ c \in Ctr /\ disk \in File
      BY <2>1, <2>3 DEF TypeOK, File, Call
    <2>5. LeaseEnd(c) \in Ctr /\ c < LeaseEnd(c)
      BY <2>3, <2>4, LeaseEndRange
    <2>6. call'[u].kind = "seal" /\ call'[u].term = t /\ call'[u].start = c /\ call'[u].end = LeaseEnd(c)
      BY <2>1, <2>3 DEF Call
    <2>7. /\ mem'[ProcOf[u]].ctr = [disk.ctr EXCEPT ![t] = LeaseEnd(c)]
          /\ mem'[ProcOf[u]].status = disk.status /\ mem'[ProcOf[u]].active = disk.active
      BY <2>3, <2>4 DEF File
    <2>8. FileInv(mem'[ProcOf[u]])
      BY <2>3, <2>4, <2>5, <2>7 DEF NonceInv, FileInv, File, Ctr, NoCtr
    <2> QED BY <2>3, <2>5, <2>6, <2>7, <2>8 DEF Ready
  <1>6. ASSUME NEW th \in Thread, RotateTermLoad(th) PROVE Ready(u, mem'[ProcOf[u]], call'[u], disk'.ctr)
    <2> DEFINE f == mem'[ProcOf[u]]
               t == disk.active + 1
    <2>1. th = u
      BY <1>6, OneLoaded DEF RotateTermLoad, LifecycleLocked, HoldsFlock, TypeOK
    <2>2. Reload(ProcOf[th]) = disk
      BY <1>6, ReloadIsDisk DEF RotateTermLoad, LifecycleLocked
    <2>3. /\ f.active = t
          /\ f.status = [v \in Term |-> IF v = t THEN "active"
                                         ELSE IF disk.status[v] = "active" THEN "retired"
                                         ELSE disk.status[v]]
          /\ f.ctr = [disk.ctr EXCEPT ![t] = 0]
          /\ call'[u].kind = "rotate" /\ disk' = disk
      BY <1>6, <2>1, <2>2 DEF RotateTermLoad, LifecycleLocked, TypeOK, Call
    <2>4. t \in Term /\ disk \in File /\ f \in File
      BY <1>6, <2>1, <2>2 DEF RotateTermLoad, RoomToRotate, TypeOK, File, Term
    <2>5. disk.ctr[t] = NoCtr
      BY <2>4 DEF NonceInv, FileInv, File, Term
    <2>6. FileInv(f)
      <3> SUFFICES ASSUME NEW v \in Term
                   PROVE  /\ f.status[v] = "absent" <=> v > f.active
                          /\ f.status[v] = "active" <=> v = f.active
                          /\ f.ctr[v] = NoCtr <=> v > f.active
        BY DEF FileInv
      <3>1. /\ disk.status[v] = "absent" <=> v > disk.active
            /\ disk.status[v] = "active" <=> v = disk.active
            /\ disk.ctr[v] = NoCtr <=> v > disk.active
        BY DEF NonceInv, FileInv
      <3>2. disk.active \in Int /\ v \in Int /\ disk.ctr \in [Term -> Ctr \cup {NoCtr}]
        BY <2>4 DEF File, Term
      <3> QED BY <2>3, <2>4, <3>1, <3>2 DEF NoCtr
    <2>7. \A v \in Term : f.ctr[v] = disk.ctr[v] \/ (f.ctr[v] = 0 /\ disk.ctr[v] = NoCtr)
      BY <2>3, <2>4, <2>5 DEF File
    <2> QED BY <2>3, <2>6, <2>7 DEF Ready
  <1>7. ASSUME NEW th \in Thread, RotateKEKLoad(th) \/ DestroyTermLoad(th)
        PROVE Ready(u, mem'[ProcOf[u]], call'[u], disk'.ctr)
    <2> DEFINE f == mem'[ProcOf[u]]
    <2>1. th = u
      BY <1>7, OneLoaded DEF RotateKEKLoad, DestroyTermLoad, LifecycleLocked, HoldsFlock, TypeOK
    <2>2. Reload(ProcOf[th]) = disk /\ disk \in File /\ disk' = disk
      BY <1>7, ReloadIsDisk DEF RotateKEKLoad, DestroyTermLoad, LifecycleLocked, TypeOK
    <2>3. call'[u].kind # "seal"
      BY <1>7, <2>1, ZeroedCalls DEF RotateKEKLoad, DestroyTermLoad, LifecycleLocked
    <2>4. CASE RotateKEKLoad(th)
      <3>1. PICK ts : f = Rewrap(disk, ProcOf[u], call[u].kek, ts)
        BY <2>1, <2>2, <2>4 DEF RotateKEKLoad, TypeOK
      <3>2. f.status = disk.status /\ f.ctr = disk.ctr /\ f.active = disk.active
        BY <2>2, <3>1 DEF Rewrap, File
      <3> QED BY <2>2, <2>3, <3>2 DEF Ready, FileInv, NonceInv
    <2>5. CASE DestroyTermLoad(th)
      <3> DEFINE t == call[th].term
      <3>1. /\ t \in Term /\ t # disk.active /\ Live(disk, t)
            /\ f = [disk EXCEPT !.status[t] = "destroyed", !.dek[t] = NoDEK, !.kek[t] = None]
        BY <2>1, <2>2, <2>5 DEF DestroyTermLoad, MayDestroy, TypeOK, Call
      <3>2. /\ f.status = [disk.status EXCEPT ![t] = "destroyed"]
            /\ f.ctr = disk.ctr /\ f.active = disk.active
        BY <2>2, <3>1 DEF File
      <3>3. FileInv(f)
        BY <2>2, <3>1, <3>2 DEF FileInv, NonceInv, Live, File
      <3> QED BY <2>2, <2>3, <3>2, <3>3 DEF Ready
    <2> QED BY <1>7, <2>4, <2>5
  <1>8. ASSUME NEW th \in Thread, HoldsFlock(th) \/ flock = None, pc'[th] # "loaded",
               \A v \in Thread \ {th} : pc'[v] = pc[v]
        PROVE FALSE
    BY <1>8, OneLoaded DEF HoldsFlock
  <1>9. ASSUME NEW th \in Thread, Save(th) PROVE FALSE
    BY <1>8, <1>9 DEF Save, HoldsFlock, TypeOK
  <1>10. ASSUME NEW th \in Thread,
                NextRefuse(th) \/ NextSaveFails(th) \/ NextReturn(th) \/ RotateTermRefuse(th)
                \/ RotateKEKRefuse(th) \/ DestroyTermRefuse(th) \/ LifecycleSaveFails(th)
                \/ LifecycleReturn(th)
         PROVE FALSE
    <2>1. HoldsFlock(th) \/ flock = None
      BY <1>10 DEF HoldsFlock, NextRefuse, NextSaveFails, NextReturn, RotateTermRefuse,
         RotateKEKRefuse, DestroyTermRefuse, LifecycleSaveFails, LifecycleReturn, LifecycleLocked
    <2>2. Finish(th)
      BY <1>10 DEF Release, NextRefuse, NextSaveFails, NextReturn, RotateTermRefuse,
         RotateKEKRefuse, DestroyTermRefuse, LifecycleSaveFails, LifecycleReturn
    <2> QED BY <1>8, <2>1, <2>2 DEF Finish, TypeOK
  <1>11. CASE UNCHANGED vars
    BY <1>1, <1>11, <1>0 DEF vars
  <1>12. ASSUME Start(u) \/ NextTakeMu(u) \/ NextFast(u) \/ GiveUp(u) PROVE FALSE
    BY <1>12 DEF Start, ActiveDEK, BeginRotateTerm, BeginRotateKEK, BeginDestroyTerm, Begin,
                NextTakeMu, NextFast, GiveUp, Release, Finish, TypeOK
  <1> QED
    BY <1>1, <1>2, <1>3, <1>4, <1>5, <1>6, <1>7, <1>9, <1>10, <1>11, <1>12 DEF Next, Continue


\* No counter in memory gets ahead of the disk.
LEMMA StepMem ==
    ASSUME TypeOK, TypeOK', NonceInv, [Next]_vars
    PROVE  MemInv'
  <1> DEFINE Behind(m, d) == \A t \in Term : m[t] <= d[t] \/ m[t] <= 0
             Goal(q) == \/ \E th \in Thread : ProcOf[th] = q /\ pc'[th] = "loaded"
                        \/ Behind(mem'[q].ctr, disk'.ctr)
  <1> USE ThreadAssumption, NoneAssumption
  <1> SUFFICES ASSUME NEW q \in Proc PROVE Goal(q)
    BY DEF MemInv
  <1>0. \/ \E th \in Thread : ProcOf[th] = q /\ pc[th] = "loaded"
        \/ Behind(mem[q].ctr, disk.ctr)
    BY DEF NonceInv, MemInv
  <1>b. disk \in File /\ disk' \in File /\ mem[q] \in File
    BY DEF TypeOK
  <1>a. /\ disk \in File /\ disk' \in File /\ mem[q] \in File
        /\ Behind(disk.ctr, disk.ctr)
    BY <1>b DEF File, Ctr, NoCtr
  <1> HIDE DEF Behind
  <1>1. ASSUME NEW p \in Proc, NEW k \in KEK, Open(p, k) PROVE Goal(q)
    BY <1>0, <1>1, <1>a DEF Open, TypeOK
  <1>2. ASSUME NEW p \in Proc, Stop(p) PROVE Goal(q)
    <2>1. CASE q = p
      <3>1. mem'[q] = NewFile
        BY <1>2, <2>1 DEF Stop, TypeOK
      <3>2. Behind(NewFile.ctr, disk'.ctr)
        BY DEF NewFile, Behind, NoCtr
      <3> QED BY <3>1, <3>2
    <2>2. CASE q # p
      BY <1>0, <1>2, <2>2 DEF Stop, TypeOK
    <2> QED BY <2>1, <2>2
  <1>3. ASSUME NEW th \in Thread, pc[th] # "loaded",
               \A v \in Thread \ {th} : pc'[v] = pc[v], mem' = mem, disk' = disk
        PROVE Goal(q)
    BY <1>0, <1>3
  <1>4. ASSUME NEW th \in Thread, Start(th) \/ NextTakeMu(th) \/ NextFast(th) \/ GiveUp(th)
                                 \/ NextReturn(th) \/ LifecycleReturn(th)
        PROVE Goal(q)
    BY <1>3, <1>4 DEF Start, ActiveDEK, BeginRotateTerm, BeginRotateKEK, BeginDestroyTerm, Begin,
       NextTakeMu, NextFast, GiveUp, NextReturn, LifecycleReturn, Release, Finish, memVars, TypeOK
  <1>5. ASSUME NEW th \in Thread, NextLoad(th) \/ RotateTermLoad(th) \/ RotateKEKLoad(th)
                                 \/ DestroyTermLoad(th)
        PROVE Goal(q)
    <2>1. CASE ProcOf[th] = q
      BY <1>5, <2>1 DEF NextLoad, RotateTermLoad, RotateKEKLoad, DestroyTermLoad, TypeOK
    <2>2. CASE ProcOf[th] # q
      <3>1. /\ mem'[q] = mem[q] /\ disk' = disk
            /\ \A v \in Thread \ {th} : pc'[v] = pc[v]
        BY <1>5, <2>2 DEF NextLoad, RotateTermLoad, RotateKEKLoad, DestroyTermLoad, TypeOK
      <3> QED BY <1>0, <2>2, <3>1
    <2> QED BY <2>1, <2>2
  <1>6. ASSUME NEW th \in Thread, disk' = disk, \A v \in Thread \ {th} : pc'[v] = pc[v],
               \A r \in Proc \ {ProcOf[th]} : mem'[r] = mem[r],
               Behind(mem'[ProcOf[th]].ctr, disk.ctr)
        PROVE Goal(q)
    BY <1>0, <1>6
  <1>7. ASSUME NEW th \in Thread, NextRefuse(th) \/ RotateTermRefuse(th) \/ RotateKEKRefuse(th)
                                 \/ DestroyTermRefuse(th)
        PROVE Goal(q)
    <2>1. Reload(ProcOf[th]) = disk
      BY <1>7, ReloadIsDisk DEF NextRefuse, RotateTermRefuse, RotateKEKRefuse, DestroyTermRefuse,
         LifecycleLocked
    <2>2. mem'[ProcOf[th]].ctr = disk.ctr
      <3>1. CASE RotateKEKRefuse(th)
        <4>1. PICK ts : mem'[ProcOf[th]] = Rewrap(disk, ProcOf[th], call[th].kek, ts)
          BY <2>1, <3>1 DEF RotateKEKRefuse, TypeOK
        <4> QED BY <1>a, <4>1 DEF Rewrap, File
      <3>2. CASE NextRefuse(th) \/ RotateTermRefuse(th) \/ DestroyTermRefuse(th)
        BY <2>1, <3>2 DEF NextRefuse, RotateTermRefuse, DestroyTermRefuse, TypeOK
      <3> QED BY <1>7, <3>1, <3>2
    <2>3. /\ disk' = disk /\ Finish(th)
          /\ \A r \in Proc \ {ProcOf[th]} : mem'[r] = mem[r]
      BY <1>7 DEF NextRefuse, RotateTermRefuse, RotateKEKRefuse, DestroyTermRefuse, Release, TypeOK
    <2> QED BY <1>6, <1>a, <2>2, <2>3 DEF Finish, TypeOK
  <1>8. ASSUME NEW th \in Thread, NextSaveFails(th) PROVE Goal(q)
    <2> DEFINE c == call[th]
    <2>1. /\ mem[ProcOf[th]].ctr = [disk.ctr EXCEPT ![c.term] = c.end] /\ c.start = disk.ctr[c.term]
          /\ mem[ProcOf[th]] \in File /\ c.term \in Term
      BY <1>8 DEF NextSaveFails, NonceInv, LoadedInv, TypeOK, Call
    <2>2. mem'[ProcOf[th]].ctr = [mem[ProcOf[th]].ctr EXCEPT ![c.term] = c.start]
      BY <1>8, <2>1 DEF NextSaveFails, TypeOK, File
    <2>3. mem'[ProcOf[th]].ctr = disk.ctr
      BY <1>a, <2>1, <2>2 DEF File
    <2> QED BY <1>6, <1>8, <1>a, <2>3 DEF NextSaveFails, Release, Finish, TypeOK
  <1>9. ASSUME NEW th \in Thread, LifecycleSaveFails(th) PROVE Goal(q)
    <2>1. \A t \in Term : mem[ProcOf[th]].ctr[t] = disk.ctr[t] \/ mem[ProcOf[th]].ctr[t] = 0
      BY <1>9 DEF LifecycleSaveFails, NonceInv, LoadedInv
    <2>2. Behind(mem'[ProcOf[th]].ctr, disk.ctr)
      BY <1>9, <1>a, <2>1 DEF LifecycleSaveFails, memVars, Behind
    <2> QED BY <1>6, <1>9, <2>2 DEF LifecycleSaveFails, Release, Finish, memVars, TypeOK
  <1>10. ASSUME NEW th \in Thread, Save(th) PROVE Goal(q)
    <2>1. CASE ProcOf[th] = q
      <3>1. mem'[q] = disk'
        BY <1>10, <2>1 DEF Save, memVars
      <3>2. Behind(disk'.ctr, disk'.ctr)
        BY <1>a DEF Behind, File, Ctr, NoCtr
      <3> QED BY <3>1, <3>2
    <2>2. CASE ProcOf[th] # q
      <3>1. \A v \in Thread : ProcOf[v] = q => pc[v] # "loaded"
        BY <1>10, <2>2, OneLoaded DEF Save, HoldsFlock
      <3>2. Behind(mem[q].ctr, disk.ctr)
        BY <1>0, <3>1
      <3>3. Behind(mem[q].ctr, disk'.ctr)
        BY <1>10, <1>a, <3>2, SaveRaises DEF Behind, File, Ctr, NoCtr
      <3> QED BY <1>10, <3>3 DEF Save, memVars
    <2> QED BY <2>1, <2>2
  <1>11. CASE UNCHANGED vars
    BY <1>0, <1>11 DEF vars
  <1> QED
    BY <1>1, <1>2, <1>4, <1>5, <1>7, <1>8, <1>9, <1>10, <1>11 DEF Next, Continue


\* Steps that return no nonce and save nothing: leases stay or end, threads
\* that have flushed stay or end.
Calm ==
    /\ disk' = disk /\ used' = used
    /\ \A p \in Proc : lease'[p] = lease[p] \/ ~lease'[p].valid
    /\ \A th \in Thread : pc'[th] = "saved" /\ call'[th].kind = "seal" =>
          pc[th] = "saved" /\ call'[th] = call[th]

\* They keep every nonce where it was.
LEMMA CalmNonces ==
    ASSUME NonceInv, Calm
    PROVE  WatermarkInv' /\ DisjointInv' /\ NonceUnique'
  <1>1. WatermarkInv'
    BY DEF Calm, NonceInv, WatermarkInv
  <1>2. DisjointInv'
    <2>1. \A q \in Proc : \A t, c : Leased(q, t, c)' => Leased(q, t, c)
      BY DEF Calm, Leased
    <2>2. \A th \in Thread : \A t, c : Pending(th, t, c)' => Pending(th, t, c)
      BY DEF Calm, Pending
    <2> QED BY <2>1, <2>2 DEF Calm, NonceInv, DisjointInv
  <1>3. NonceUnique'
    BY DEF Calm, NonceInv, NonceUnique
  <1> QED BY <1>1, <1>2, <1>3

\* All steps but three are calm.
LEMMA CalmSteps ==
    ASSUME TypeOK, NonceInv, [Next]_vars,
           \A th \in Thread : ~NextFast(th) /\ ~NextReturn(th) /\ ~Save(th)
    PROVE  Calm
  <1> USE ThreadAssumption DEF Calm
  <1>1. ASSUME NEW p \in Proc, NEW k \in KEK, Open(p, k) PROVE Calm
    BY <1>1 DEF Open, TypeOK, NoLease
  <1>2. ASSUME NEW p \in Proc, Stop(p) PROVE Calm
    BY <1>2 DEF Stop, TypeOK, NoLease
  <1>3. ASSUME NEW th \in Thread, Start(th) \/ NextTakeMu(th) PROVE Calm
    BY <1>3 DEF Start, ActiveDEK, BeginRotateTerm, BeginRotateKEK, BeginDestroyTerm, Begin,
                NextTakeMu, memVars, TypeOK
  <1>4. ASSUME NEW th \in Thread, NextLoad(th) \/ RotateTermLoad(th) \/ RotateKEKLoad(th)
                                 \/ DestroyTermLoad(th)
        PROVE Calm
    <2>1. CASE NextLoad(th) \/ RotateTermLoad(th) \/ RotateKEKLoad(th)
      BY <2>1 DEF NextLoad, RotateTermLoad, RotateKEKLoad, TypeOK
    <2>2. CASE DestroyTermLoad(th)
      <3>1. /\ disk' = disk /\ used' = used /\ lease' = lease /\ HoldsFlock(th) /\ pc'[th] = "loaded"
            /\ \A v \in Thread \ {th} : pc'[v] = pc[v]
        BY <2>2 DEF DestroyTermLoad, LifecycleLocked, HoldsFlock, TypeOK
      <3>2. \A v \in Thread : pc'[v] # "saved"
        BY <3>1, OneLoaded DEF HoldsFlock
      <3> QED BY <3>1, <3>2
    <2> QED BY <1>4, <2>1, <2>2
  <1>5. ASSUME NEW th \in Thread, Finish(th), disk' = disk, used' = used, lease' = lease PROVE Calm
    BY <1>5 DEF Finish, TypeOK
  <1>6. ASSUME NEW th \in Thread,
               NextRefuse(th) \/ NextSaveFails(th) \/ RotateTermRefuse(th) \/ RotateKEKRefuse(th)
               \/ DestroyTermRefuse(th) \/ LifecycleSaveFails(th) \/ LifecycleReturn(th) \/ GiveUp(th)
        PROVE Calm
    <2>1. Finish(th) /\ disk' = disk /\ used' = used /\ lease' = lease
      BY <1>6 DEF NextRefuse, NextSaveFails, RotateTermRefuse, RotateKEKRefuse, DestroyTermRefuse,
         LifecycleSaveFails, LifecycleReturn, GiveUp, Release, memVars
    <2> QED BY <1>5, <2>1
  <1>7. CASE UNCHANGED vars
    BY <1>7 DEF vars
  <1> QED BY <1>1, <1>2, <1>3, <1>4, <1>6, <1>7 DEF Next, Continue

\* The fast path returns the first nonce of the process's own lease.
LEMMA FastNonces ==
    ASSUME TypeOK, NonceInv, NEW th \in Thread, NextFast(th)
    PROVE  WatermarkInv' /\ DisjointInv' /\ NonceUnique'
  <1> DEFINE p == ProcOf[th]
             t == call[th].term
             c == lease[p].current
  <1> USE ThreadAssumption
  <1>a. p \in Proc /\ lease[p] \in Lease
    BY DEF TypeOK
  <1>b. c \in Int /\ lease[p].end \in Int
    BY <1>a DEF Lease, Ctr
  <1>c. lease'[p] = LeaseOf(lease[p].term, c + 1, lease[p].end)
    BY <1>a DEF NextFast, TypeOK
  <1>1. /\ p \in Proc /\ lease[p] \in Lease /\ lease[p].valid /\ lease[p].term = t
        /\ c < lease[p].end /\ disk' = disk
        /\ \A q \in Proc \ {p} : lease'[q] = lease[q]
        /\ used' = [used EXCEPT ![<<t, c>>] = @ + 1]
        /\ Finish(th)
    BY <1>a, <1>b DEF NextFast, Exhausted, HandOut, TypeOK
  <1>2. lease'[p].current = c + 1 /\ lease'[p].end = lease[p].end /\ lease'[p].term = t /\ lease'[p].valid
    BY <1>1, <1>c DEF LeaseOf
  <1>3. c \in Ctr /\ lease[p].end \in Ctr /\ t \in Term /\ <<t, c>> \in Nonce
    BY <1>1, BoundAssumption DEF Lease, Ctr, Nonce
  <1>4. Leased(p, t, c) /\ used[<<t, c>>] = 0
    BY <1>1, <1>3 DEF Leased, Ctr, NonceInv, DisjointInv
  <1>5. /\ used' \in [Nonce -> Nat] /\ used'[<<t, c>>] = 1
        /\ \A n \in Nonce \ {<<t, c>>} : used'[n] = used[n]
    BY <1>1, <1>3, <1>4 DEF TypeOK
  <1>6. \A v \in Thread : pc'[v] = "saved" => pc[v] = "saved" /\ call'[v] = call[v]
    BY <1>1 DEF Finish, TypeOK
  <1>7. WatermarkInv'
    <2>1. lease[p].end <= disk.ctr[t] /\ disk.ctr[t] \in Int
      BY <1>1, <1>3 DEF NonceInv, WatermarkInv, TypeOK, File, Ctr, NoCtr
    <2>2. \A n \in Nonce : used'[n] > 0 => n[2] < disk'.ctr[n[1]]
      <3> SUFFICES ASSUME NEW n \in Nonce, used'[n] > 0 PROVE n[2] < disk.ctr[n[1]]
        BY <1>1
      <3>1. CASE n = <<t, c>>
        BY <1>1, <1>3, <2>1, <3>1 DEF Ctr
      <3>2. CASE n # <<t, c>>
        BY <1>5, <3>2 DEF NonceInv, WatermarkInv
      <3> QED BY <3>1, <3>2
    <2>3. \A q \in Proc : lease'[q].valid => lease'[q].end <= disk'.ctr[lease'[q].term]
      BY <1>1, <1>2, <2>1 DEF NonceInv, WatermarkInv
    <2>4. \A v \in Thread : pc'[v] = "saved" /\ call'[v].kind = "seal" =>
            call'[v].end <= disk'.ctr[call'[v].term] /\ call'[v].start < call'[v].end
      BY <1>1, <1>6 DEF NonceInv, WatermarkInv
    <2> QED BY <2>2, <2>3, <2>4 DEF WatermarkInv
  <1>8. \A q \in Proc, n \in Nonce : Leased(q, n[1], n[2])' => Leased(q, n[1], n[2]) /\ n # <<t, c>>
    <2> SUFFICES ASSUME NEW q \in Proc, NEW n \in Nonce, Leased(q, n[1], n[2])'
                 PROVE Leased(q, n[1], n[2]) /\ n # <<t, c>>
      OBVIOUS
    <2>0. n[2] \in Int
      BY DEF Nonce
    <2>1. CASE q = p
      <3>1. n[1] = t /\ c + 1 <= n[2] /\ n[2] < lease[p].end
        BY <1>2, <2>1 DEF Leased
      <3>2. n[2] # c /\ c <= n[2]
        BY <1>b, <2>0, <3>1
      <3> QED BY <1>1, <2>1, <3>1, <3>2 DEF Leased
    <2>2. CASE q # p
      <3>1. Leased(q, n[1], n[2])
        BY <1>1, <2>2 DEF Leased
      <3> QED BY <1>1, <1>3, <1>4, <2>2, <3>1 DEF NonceInv, DisjointInv
    <2> QED BY <2>1, <2>2
  <1>9. \A v \in Thread, n \in Nonce : Pending(v, n[1], n[2])' => Pending(v, n[1], n[2]) /\ n # <<t, c>>
    <2> SUFFICES ASSUME NEW v \in Thread, NEW n \in Nonce, Pending(v, n[1], n[2])'
                 PROVE Pending(v, n[1], n[2]) /\ n # <<t, c>>
      OBVIOUS
    <2>1. Pending(v, n[1], n[2])
      BY <1>6 DEF Pending
    <2> QED BY <1>1, <1>3, <1>4, <2>1 DEF NonceInv, DisjointInv
  <1>10. DisjointInv'
    BY <1>5, <1>8, <1>9 DEF NonceInv, DisjointInv
  <1>11. NonceUnique'
    BY <1>5 DEF NonceInv, NonceUnique
  <1> QED BY <1>7, <1>10, <1>11


\* The slow path returns the first nonce of the block it flushed, and the rest
\* of the block becomes the lease.
LEMMA ReturnNonces ==
    ASSUME TypeOK, NonceInv, NEW th \in Thread, NextReturn(th)
    PROVE  WatermarkInv' /\ DisjointInv' /\ NonceUnique'
  <1> DEFINE p == ProcOf[th]
             t == call[th].term
             c == call[th].start
             e == call[th].end
  <1> USE ThreadAssumption
  <1>1. /\ p \in Proc /\ pc[th] = "saved" /\ call[th].kind = "seal" /\ disk' = disk
        /\ \A q \in Proc \ {p} : lease'[q] = lease[q]
        /\ lease'[p] = LeaseOf(t, c + 1, e)
        /\ used' = [used EXCEPT ![<<t, c>>] = @ + 1]
        /\ Finish(th)
    BY DEF NextReturn, HandOut, Release, TypeOK
  <1>2. t \in Term /\ c \in Ctr /\ e \in Ctr
    BY DEF TypeOK, Call
  <1>3. c < e /\ e <= disk.ctr[t] /\ disk.ctr[t] \in Int
    BY <1>1, <1>2, CounterType DEF NonceInv, WatermarkInv
  <1>4. <<t, c>> \in Nonce /\ Pending(th, t, c) /\ used[<<t, c>>] = 0
    <2>1. <<t, c>> \in Nonce
      BY <1>2, <1>3, BoundAssumption DEF Nonce, Ctr
    <2>2. Pending(th, t, c)
      BY <1>1, <1>2, <1>3 DEF Pending, Ctr
    <2> QED BY <2>1, <2>2 DEF NonceInv, DisjointInv
  <1>5. /\ used' \in [Nonce -> Nat] /\ used'[<<t, c>>] = 1
        /\ \A n \in Nonce \ {<<t, c>>} : used'[n] = used[n]
    BY <1>1, <1>4 DEF TypeOK
  <1>6. \A v \in Thread : pc'[v] # "saved"
    <2>1. pc'[th] = "idle" /\ \A v \in Thread \ {th} : pc'[v] = pc[v]
      BY <1>1 DEF Finish, TypeOK
    <2> QED BY <1>1, <2>1, OneLoaded DEF HoldsFlock
  <1>7. WatermarkInv'
    <2>2. \A n \in Nonce : used'[n] > 0 => n[2] < disk'.ctr[n[1]]
      <3> SUFFICES ASSUME NEW n \in Nonce, used'[n] > 0 PROVE n[2] < disk.ctr[n[1]]
        BY <1>1
      <3>1. CASE n = <<t, c>>
        BY <1>2, <1>3, <3>1 DEF Ctr
      <3>2. CASE n # <<t, c>>
        BY <1>5, <3>2 DEF NonceInv, WatermarkInv
      <3> QED BY <3>1, <3>2
    <2>3. \A q \in Proc : lease'[q].valid => lease'[q].end <= disk'.ctr[lease'[q].term]
      BY <1>1, <1>3 DEF NonceInv, WatermarkInv, LeaseOf
    <2> QED BY <1>6, <2>2, <2>3 DEF WatermarkInv
  <1>8. \A n \in Nonce : Leased(p, n[1], n[2])' => Pending(th, n[1], n[2]) /\ n # <<t, c>>
    <2> SUFFICES ASSUME NEW n \in Nonce, Leased(p, n[1], n[2])'
                 PROVE Pending(th, n[1], n[2]) /\ n # <<t, c>>
      OBVIOUS
    <2>1. n[2] \in Int
      BY DEF Nonce
    <2>2. n[1] = t /\ c + 1 <= n[2] /\ n[2] < e
      BY <1>1 DEF Leased, LeaseOf
    <2>3. n[2] # c /\ c <= n[2]
      BY <1>2, <2>1, <2>2 DEF Ctr
    <2> QED BY <1>1, <2>2, <2>3 DEF Pending
  <1>9. \A q \in Proc, n \in Nonce : q # p /\ Leased(q, n[1], n[2])' =>
           Leased(q, n[1], n[2]) /\ ~Pending(th, n[1], n[2]) /\ n # <<t, c>>
    <2> SUFFICES ASSUME NEW q \in Proc, NEW n \in Nonce, q # p, Leased(q, n[1], n[2])'
                 PROVE Leased(q, n[1], n[2]) /\ ~Pending(th, n[1], n[2]) /\ n # <<t, c>>
      OBVIOUS
    <2>1. Leased(q, n[1], n[2])
      BY <1>1 DEF Leased
    <2>2. ~Pending(th, n[1], n[2])
      BY <2>1 DEF NonceInv, DisjointInv
    <2> QED BY <1>4, <2>1, <2>2
  <1>10. \A q \in Proc, n \in Nonce : Leased(q, n[1], n[2])' => used'[n] = 0
    <2> SUFFICES ASSUME NEW q \in Proc, NEW n \in Nonce, Leased(q, n[1], n[2])' PROVE used'[n] = 0
      OBVIOUS
    <2>1. CASE q = p
      BY <1>5, <1>8, <2>1 DEF NonceInv, DisjointInv
    <2>2. CASE q # p
      BY <1>5, <1>9, <2>2 DEF NonceInv, DisjointInv
    <2> QED BY <2>1, <2>2
  <1>11. \A q, r \in Proc, n \in Nonce :
            Leased(q, n[1], n[2])' /\ Leased(r, n[1], n[2])' => q = r
    BY <1>8, <1>9 DEF NonceInv, DisjointInv
  <1>12. \A v \in Thread, n \in Nonce : ~Pending(v, n[1], n[2])'
    BY <1>6 DEF Pending
  <1>13. DisjointInv'
    BY <1>10, <1>11, <1>12 DEF DisjointInv
  <1>14. NonceUnique'
    BY <1>5 DEF NonceInv, NonceUnique
  <1> QED BY <1>7, <1>13, <1>14

\* A save sets the block from the old counter to the new one aside.
LEMMA SaveNonces ==
    ASSUME TypeOK, TypeOK', NonceInv, NEW th \in Thread, Save(th)
    PROVE  WatermarkInv' /\ DisjointInv' /\ NonceUnique'
  <1> DEFINE p == ProcOf[th]
             t == call[th].term
  <1> USE ThreadAssumption
  <1>1. /\ disk' = mem[p] /\ pc[th] = "loaded" /\ lease' = lease /\ used' = used /\ call' = call
        /\ disk \in File /\ disk' \in File /\ call[th] \in Call
    BY DEF Save, memVars, TypeOK
  <1>2. \A v \in Thread : pc'[v] = "saved" => v = th
    <2>1. \A v \in Thread \ {th} : pc'[v] = pc[v]
      BY DEF Save, TypeOK
    <2> QED BY <1>1, <2>1, OneLoaded DEF HoldsFlock
  <1>3. \A u \in Term : /\ disk.ctr[u] <= disk'.ctr[u]
                        /\ disk.ctr[u] \in Int /\ disk'.ctr[u] \in Int
    BY <1>1, SaveRaises DEF File, Ctr, NoCtr
  <1>4. call[th].kind = "seal" =>
           /\ call[th].start = disk.ctr[t] /\ call[th].end = disk'.ctr[t]
           /\ call[th].start < call[th].end /\ t \in Term
    BY <1>1 DEF NonceInv, LoadedInv, Call, File
  <1>5. \A n \in Nonce : n[1] \in Term /\ n[2] \in Int
    BY DEF Nonce
  <1>6. \A n \in Nonce : used[n] > 0 => n[2] < disk.ctr[n[1]]
    BY DEF NonceInv, WatermarkInv
  <1>7. \A q \in Proc, n \in Nonce : Leased(q, n[1], n[2]) => n[2] < disk.ctr[n[1]]
    <2> SUFFICES ASSUME NEW q \in Proc, NEW n \in Nonce, Leased(q, n[1], n[2])
                 PROVE n[2] < disk.ctr[n[1]]
      OBVIOUS
    <2>1. n[2] < lease[q].end /\ lease[q].end <= disk.ctr[n[1]] /\ lease[q].end \in Int
      BY DEF Leased, NonceInv, WatermarkInv, TypeOK, Lease, Ctr
    <2> QED BY <1>3, <1>5, <2>1
  <1>8. \A v \in Thread, n \in Nonce : Pending(v, n[1], n[2])' => ~(n[2] < disk.ctr[n[1]])
    BY <1>1, <1>2, <1>3, <1>4, <1>5 DEF Pending
  <1>9. WatermarkInv'
    <2>1. \A n \in Nonce : used'[n] > 0 => n[2] < disk'.ctr[n[1]]
      BY <1>1, <1>3, <1>5, <1>6
    <2>2. \A q \in Proc : lease'[q].valid => lease'[q].end <= disk'.ctr[lease'[q].term]
      <3> SUFFICES ASSUME NEW q \in Proc, lease[q].valid
                   PROVE lease[q].end <= disk'.ctr[lease[q].term]
        BY <1>1
      <3>1. lease[q].end \in Int /\ lease[q].term \in Term /\ lease[q].end <= disk.ctr[lease[q].term]
        BY DEF NonceInv, WatermarkInv, TypeOK, Lease, Ctr
      <3> QED BY <1>3, <3>1
    <2>3. \A v \in Thread : pc'[v] = "saved" /\ call'[v].kind = "seal" =>
            call'[v].end <= disk'.ctr[call'[v].term] /\ call'[v].start < call'[v].end
      BY <1>1, <1>2, <1>3, <1>4
    <2> QED BY <2>1, <2>2, <2>3 DEF WatermarkInv
  <1>10. DisjointInv'
    <2>1. \A q \in Proc, n \in Nonce : Leased(q, n[1], n[2])' <=> Leased(q, n[1], n[2])
      BY <1>1 DEF Leased
    <2>2. \A v \in Thread, n \in Nonce : Pending(v, n[1], n[2])' => used[n] = 0
      <3>1. \A n \in Nonce : used[n] \in Nat
        BY DEF TypeOK
      <3> QED BY <1>6, <1>8, <3>1
    <2> QED BY <1>1, <1>7, <1>8, <2>1, <2>2 DEF NonceInv, DisjointInv
  <1>11. NonceUnique'
    BY <1>1 DEF NonceInv, NonceUnique
  <1> QED BY <1>9, <1>10, <1>11

-----------------------------------------------------------------------------
\* The inductive invariant holds at the start, ...
LEMMA InitNonce == Init => NonceInv
  <1> SUFFICES ASSUME Init PROVE NonceInv OBVIOUS
  <1> USE NoneAssumption, ThreadAssumption
  <1>1. LockInv /\ CallInv /\ LoadedInv
    BY DEF Init, LockInv, HoldsFlock, HoldsMu, CallInv, LoadedInv, NoCall
  <1>2. FileInv(disk)
    BY NewFileType DEF Init
  <1>3. MemInv
    BY DEF Init, MemInv, NewFile, NoCtr
  <1>4. WatermarkInv /\ DisjointInv /\ NonceUnique
    BY DEF Init, WatermarkInv, DisjointInv, NonceUnique, Leased, Pending, NoLease
  <1> QED BY <1>1, <1>2, <1>3, <1>4 DEF NonceInv

\* ... and every step keeps it.
LEMMA StepNonce ==
    ASSUME TypeOK, NonceInv, [Next]_vars
    PROVE  TypeOK' /\ NonceInv'
  <1>1. TypeOK'
    BY StepType
  <1>2. WatermarkInv' /\ DisjointInv' /\ NonceUnique'
    BY <1>1, CalmSteps, CalmNonces, FastNonces, ReturnNonces, SaveNonces
  <1>3. LockInv' /\ CallInv' /\ FileInv(disk') /\ MemInv' /\ LoadedInv'
    BY <1>1, StepLock, StepCall, StepFile, StepMem, StepLoaded
  <1> QED BY <1>1, <1>2, <1>3 DEF NonceInv, FileInv

\* The inductive invariant of the keyring: it holds in every reachable state.
THEOREM KeyringInvariant == Spec => [](TypeOK /\ NonceInv)
  <1>1. Init => TypeOK /\ NonceInv
    BY InitType, InitNonce
  <1>2. TypeOK /\ NonceInv /\ [Next]_vars => (TypeOK /\ NonceInv)'
    BY StepNonce
  <1> QED BY <1>1, <1>2, PTL DEF Spec

\* Every variable keeps its type: no step of the keyring leaves a counter, a
\* lease or a call out of its range.
THEOREM TypeCorrect == Spec => []TypeOK
  BY KeyringInvariant, PTL

\* NextGCMNonce never returns the same nonce of a term twice, whatever the
\* number of processes and threads, the lease size and the counter width, and
\* whatever saves fail and processes die.
THEOREM NonceUniqueness == Spec => []NonceUnique
  <1>1. NonceInv => NonceUnique
    BY DEF NonceInv
  <1> QED BY <1>1, KeyringInvariant, PTL

\* No step writes back a smaller nonce counter.
THEOREM CountersNeverRollBack == Spec => CountersNeverBack
  <1>1. ASSUME TypeOK, NonceInv, [Next]_vars
        PROVE  [\A t \in Term : disk'.ctr[t] >= disk.ctr[t]]_vars
    <2>1. \A t \in Term : disk.ctr[t] \in Int
      BY <1>1, CounterType
    <2>2. disk' \in File
      BY <1>1, StepType DEF TypeOK
    <2>3. \A t \in Term : disk'.ctr[t] \in Int
      BY <2>2 DEF File, Ctr, NoCtr
    <2>4. CASE disk' = disk
      BY <2>1, <2>4
    <2>5. ASSUME NEW th \in Thread, Save(th) PROVE \A t \in Term : disk'.ctr[t] >= disk.ctr[t]
      BY <1>1, <2>1, <2>3, <2>5, SaveRaises
    <2>6. ASSUME NEW th \in Thread, NextFast(th) \/ NextReturn(th) PROVE disk' = disk
      BY <2>6 DEF NextFast, NextReturn
    <2> QED BY <1>1, <2>4, <2>5, <2>6, CalmSteps DEF Calm
  <1>2. TypeOK /\ NonceInv /\ [Next]_vars => [\A t \in Term : disk'.ctr[t] >= disk.ctr[t]]_vars
    BY <1>1
  <1> QED BY <1>2, KeyringInvariant, PTL DEF Spec, CountersNeverBack

-----------------------------------------------------------------------------
(* The inductive invariant behind TermsUsable and DestroyedForever.  A DEK  *)
(* that anyone holds for a term, in memory, in a call or in a sealed value, *)
(* is the DEK on disk as long as the term is live, and a file that is about *)
(* to be saved takes no such DEK away.                                      *)

\* d is no DEK, or the DEK of a term that the file on disk has, as long as that
\* term is live.
Knows(t, d) ==
    d # NoDEK => t <= disk.active /\ (Live(disk, t) => d = disk.dek[t])

\* A live term can be unwrapped by some KEK, a destroyed one by none.
KeysInv(f) ==
    \A t \in Term : /\ Live(f, t) => f.dek[t] # NoDEK /\ f.kek[t] # None
                    /\ f.status[t] = "destroyed" => f.dek[t] = NoDEK

\* File f may replace file g: no term comes back, and no DEK of a live term changes.
Follows(f, g) ==
    /\ KeysInv(f) /\ g.active <= f.active
    /\ \A t \in Term :
          /\ Live(f, t) /\ t <= g.active => Live(g, t) /\ f.dek[t] = g.dek[t]
          /\ g.status[t] = "destroyed" => f.status[t] = "destroyed"

\* Call c has made the active term of file f.
Made(c, f) == c.dek # NoDEK /\ c.term = f.active /\ c.dek = f.dek[f.active]

\* d is a DEK; in a process of several threads it may have become zeros.
Whole(d) == OneGoroutine => d # NoDEK

SealInv ==
    \A th \in Thread : call[th].kind = "seal" => Whole(call[th].dek) /\ Knows(call[th].term, call[th].dek)

SealedInv == \A t \in Term : \A d \in sealed[t] : Whole(d) /\ Knows(t, d)

DeksInv == \A p \in Proc, t \in Term : Knows(t, deks[p][t])

SavingInv ==
    \A th \in Thread :
        /\ pc[th] = "loaded" => Follows(mem[ProcOf[th]], disk)
        /\ pc[th] = "loaded" /\ call[th].kind = "rotate" => Made(call[th], mem[ProcOf[th]])
        /\ pc[th] = "saved" /\ call[th].kind = "rotate" => Made(call[th], disk)

TermInv == KeysInv(disk) /\ DeksInv /\ SealInv /\ SealedInv /\ SavingInv

\* Only Save writes the file.
LEMMA OnlySaveWrites ==
    ASSUME [Next]_vars, \A th \in Thread : ~Save(th)
    PROVE  disk' = disk
  BY Zenon DEF Next, vars, Open, Stop, Start, Continue, GiveUp, ActiveDEK, BeginRotateTerm, BeginRotateKEK,
         BeginDestroyTerm, Begin, NextFast, NextTakeMu, NextRefuse, NextLoad, NextSaveFails,
         NextReturn, RotateTermLoad, RotateTermRefuse, RotateKEKLoad, RotateKEKRefuse,
         DestroyTermLoad, DestroyTermRefuse, LifecycleSaveFails, LifecycleReturn

\* The file on disk may follow itself.
LEMMA FollowsItself ==
    ASSUME TypeOK, KeysInv(disk)
    PROVE  Follows(disk, disk)
  <1>1. disk.active \in Int
    BY DEF TypeOK, File, Term
  <1> QED BY <1>1 DEF Follows

\* Every step leaves a file that may follow the one before it.
LEMMA StepFollows ==
    ASSUME TypeOK, TermInv, [Next]_vars
    PROVE  Follows(disk', disk)
  <1>1. CASE \E th \in Thread : Save(th)
    BY <1>1 DEF Save, TermInv, SavingInv
  <1>2. CASE ~ \E th \in Thread : Save(th)
    <2>1. disk' = disk
      BY <1>2, OnlySaveWrites
    <2> QED BY <2>1, FollowsItself DEF TermInv
  <1> QED BY <1>1, <1>2

\* Knows(t, d) in the state after the step, for a d of either state.
KnowsNext(t, d) ==
    d # NoDEK => t <= disk'.active /\ (Live(disk', t) => d = disk'.dek[t])

\* What was known of the file stays known.
LEMMA KnownStays ==
    ASSUME TypeOK, TypeOK', Follows(disk', disk), NEW t \in Term, NEW d, Knows(t, d)
    PROVE  KnowsNext(t, d)
  <1>1. disk.active \in Int /\ disk'.active \in Int /\ t \in Int
    BY DEF TypeOK, File, Term
  <1> QED BY <1>1 DEF Knows, KnowsNext, Follows

\* A process that opens the file knows only DEKs of the file.
LEMMA OpenKnows ==
    ASSUME TypeOK, FileInv(disk), NEW k, NEW t \in Term
    PROVE  Knows(t, Unwrap(disk, k)[t])
  <1>1. disk.active \in Int /\ t \in Int
    BY DEF TypeOK, File, Term
  <1>2. Live(disk, t) => t <= disk.active
    BY <1>1 DEF FileInv, Live
  <1>3. Unwrap(disk, k)[t] = NoDEK \/ (Live(disk, t) /\ Unwrap(disk, k)[t] = disk.dek[t])
    BY DEF Unwrap
  <1> QED BY <1>2, <1>3 DEF Knows

-----------------------------------------------------------------------------
\* The DEKs in memory: they come from the file, or from a rotation that saved it.
LEMMA StepDeks ==
    ASSUME TypeOK, TypeOK', NonceInv, TermInv, [Next]_vars
    PROVE  DeksInv'
  <1> SUFFICES ASSUME NEW q \in Proc, NEW t \in Term
               PROVE  KnowsNext(t, deks'[q][t])
    BY DEF DeksInv, Knows, KnowsNext, Live
  <1> USE ThreadAssumption
  <1> DEFINE d == deks'[q][t]
  <1>0. Follows(disk', disk)
    BY StepFollows
  <1>a. Knows(t, deks[q][t])
    BY DEF TermInv, DeksInv
  <1>b. Knows(t, NoDEK)
    BY DEF Knows
  <1> HIDE DEF d
  <1> SUFFICES Knows(t, d)
    BY <1>0, KnownStays DEF d
  <1> USE DEF d
  <1>1. ASSUME NEW p \in Proc, NEW k \in KEK, Open(p, k) PROVE Knows(t, d)
    <2>1. deks'[q] = IF q = p THEN Unwrap(disk, k) ELSE deks[q]
      BY <1>1 DEF Open, TypeOK
    <2>2. Knows(t, Unwrap(disk, k)[t])
      BY OpenKnows DEF NonceInv
    <2> QED BY <1>a, <2>1, <2>2
  <1>2. ASSUME NEW p \in Proc, Stop(p) PROVE Knows(t, d)
    <2>1. deks'[q] = IF q = p THEN NoDEKs ELSE deks[q]
      BY <1>2 DEF Stop, TypeOK
    <2> QED BY <1>a, <1>b, <2>1 DEF NoDEKs
  <1>3. ASSUME NEW th \in Thread, DestroyTermLoad(th) PROVE Knows(t, d)
    <2>1. deks'[q][t] = NoDEK \/ deks'[q][t] = deks[q][t]
      BY <1>3 DEF DestroyTermLoad, TypeOK
    <2> QED BY <1>a, <1>b, <2>1
  <1>4. ASSUME NEW th \in Thread, LifecycleReturn(th) PROVE Knows(t, d)
    <2> DEFINE c == call[th]
    <2>1. CASE c.kind = "rotate"
      <3>1. Made(c, disk)
        BY <1>4, <2>1 DEF LifecycleReturn, TermInv, SavingInv
      <3>2. disk.active \in Int
        BY DEF TypeOK, File, Term
      <3>3. Knows(c.term, c.dek)
        BY <3>1, <3>2 DEF Made, Knows
      <3>4. deks' = [deks EXCEPT ![ProcOf[th]][c.term] = c.dek]
        BY <1>4, <2>1 DEF LifecycleReturn
      <3>5. deks'[q][t] = deks[q][t] \/ (t = c.term /\ deks'[q][t] = c.dek)
        BY <3>4 DEF TypeOK
      <3> QED BY <1>a, <3>3, <3>5
    <2>2. CASE c.kind # "rotate"
      BY <1>4, <1>a, <2>2 DEF LifecycleReturn
    <2> QED BY <2>1, <2>2
  <1>5. CASE deks' = deks
    BY <1>5, <1>a
  <1>6. ASSUME NEW th \in Thread,
               Start(th) \/ GiveUp(th) \/ NextFast(th) \/ NextTakeMu(th) \/ NextRefuse(th)
               \/ NextLoad(th) \/ NextSaveFails(th) \/ NextReturn(th) \/ RotateTermLoad(th)
               \/ RotateTermRefuse(th) \/ RotateKEKLoad(th) \/ RotateKEKRefuse(th)
               \/ DestroyTermRefuse(th) \/ Save(th) \/ LifecycleSaveFails(th)
        PROVE deks' = deks
    BY <1>6, Zenon DEF memVars, Start, GiveUp, ActiveDEK, BeginRotateTerm, BeginRotateKEK, BeginDestroyTerm,
       Begin, NextFast, NextTakeMu, NextRefuse, NextLoad, NextSaveFails, NextReturn, RotateTermLoad,
       RotateTermRefuse, RotateKEKLoad, RotateKEKRefuse, DestroyTermRefuse, Save, LifecycleSaveFails
  <1>7. CASE UNCHANGED vars
    BY <1>7, <1>a DEF vars
  <1> QED BY <1>1, <1>2, <1>3, <1>4, <1>5, <1>6, <1>7 DEF Next, Continue

\* A call that seals keeps the DEK it took from memory, which may be stale but is
\* never another one than the file's.
LEMMA StepSeal ==
    ASSUME TypeOK, TypeOK', NonceInv, TermInv, [Next]_vars
    PROVE  SealInv'
  <1> SUFFICES ASSUME NEW u \in Thread, call'[u].kind = "seal"
               PROVE  Whole(call'[u].dek) /\ KnowsNext(call'[u].term, call'[u].dek)
    BY DEF SealInv, Knows, KnowsNext, Live
  <1> USE ThreadAssumption
  <1> DEFINE c == call'[u]
  <1>0. Follows(disk', disk)
    BY StepFollows
  <1>a. c.term \in Term
    BY DEF TypeOK, Call
  <1> SUFFICES Whole(c.dek) /\ Knows(c.term, c.dek)
    BY <1>0, <1>a, KnownStays
  <1> DEFINE Kept == call[u].kind = "seal" /\ c.term = call[u].term /\ c.dek = call[u].dek
  <1>1. CASE Kept
    BY <1>1 DEF TermInv, SealInv
  <1>2. ASSUME NEW p \in Proc, NEW k \in KEK, Open(p, k) PROVE Kept
    BY <1>2 DEF Open
  <1>3. ASSUME NEW p \in Proc, Stop(p) PROVE Kept
    BY <1>3 DEF Stop, TypeOK, NoCall
  <1>4. ASSUME NEW th \in Thread, ActiveDEK(th) PROVE Whole(c.dek) /\ Knows(c.term, c.dek)
    <2> DEFINE p == ProcOf[th]
               t == mem[p].active
    <2>1. p \in Proc /\ t \in Term
      BY DEF TypeOK, File
    <2>2. CASE th = u
      <3>1. c = [NoCall EXCEPT !.kind = "seal", !.term = t, !.dek = deks[p][t]]
        BY <1>4, <2>2 DEF ActiveDEK, TypeOK
      <3>2. c.term = t /\ c.dek = deks[p][t]
        BY <3>1 DEF NoCall
      <3>3. deks[p][t] # NoDEK /\ Knows(t, deks[p][t])
        BY <1>4, <2>1 DEF ActiveDEK, TermInv, DeksInv
      <3> QED BY <3>2, <3>3 DEF Whole
    <2>3. CASE th # u
      <3>1. Kept
        BY <1>4, <2>3 DEF ActiveDEK, TypeOK
      <3> QED BY <1>1, <3>1
    <2> QED BY <2>2, <2>3
  <1>5. ASSUME NEW th \in Thread, NextLoad(th) PROVE Kept
    <2>1. CASE th = u
      <3> DEFINE x == Reload(ProcOf[th]).ctr[call[th].term]
      <3>1. c = [call[th] EXCEPT !.start = x, !.end = LeaseEnd(x)] /\ call[th] \in Call
        BY <1>5, <2>1 DEF NextLoad, TypeOK
      <3> HIDE DEF x
      <3> QED BY <2>1, <3>1 DEF Call
    <2>2. CASE th # u
      BY <1>5, <2>2 DEF NextLoad, TypeOK
    <2> QED BY <2>1, <2>2
  <1>6. ASSUME NEW th \in Thread, NEW kind \in {"rotate", "rekey", "destroy"}, NEW t, NEW k,
               Begin(th, kind, t, k)
        PROVE Kept
    BY <1>6 DEF Begin, TypeOK, NoCall
  <1>7. ASSUME NEW th \in Thread, RotateTermLoad(th) PROVE Kept
    BY <1>7 DEF RotateTermLoad, LifecycleLocked, TypeOK, Call
  <1>8. ASSUME NEW th \in Thread, Finish(th) PROVE Kept
    BY <1>8 DEF Finish, TypeOK, NoCall
  <1>9. CASE call' = call
    BY <1>1, <1>9
  <1>10. ASSUME NEW th \in Thread, DestroyTermLoad(th) PROVE Whole(c.dek) /\ Knows(c.term, c.dek)
    <2>1. /\ c.kind = call[u].kind /\ c.term = call[u].term /\ c.dek \in {call[u].dek, NoDEK}
          /\ ProcOf[u] # ProcOf[th] => c = call[u]
      BY <1>10, ZeroedCalls DEF DestroyTermLoad
    <2>2. Whole(call[u].dek) /\ Knows(call[u].term, call[u].dek)
      BY <2>1 DEF TermInv, SealInv
    <2>3. Knows(c.term, c.dek)
      BY <2>1, <2>2 DEF Knows
    <2>4. u # th
      BY <1>10, <2>1 DEF DestroyTermLoad, LifecycleLocked
    <2>5. Whole(c.dek)
      BY <2>1, <2>2, <2>4 DEF Whole, OneGoroutine
    <2> QED BY <2>3, <2>5
  <1> QED
    <2>1. ASSUME NEW th \in Thread, Start(th) PROVE Whole(c.dek) /\ Knows(c.term, c.dek)
      BY <2>1, <1>1, <1>4, <1>6 DEF Start, BeginRotateTerm, BeginRotateKEK, BeginDestroyTerm
    <2>2. ASSUME NEW th \in Thread,
                 NextTakeMu(th) \/ RotateKEKLoad(th) \/ Save(th)
          PROVE call' = call
      BY <2>2 DEF NextTakeMu, RotateKEKLoad, Save
    <2>3. ASSUME NEW th \in Thread,
                 NextFast(th) \/ NextRefuse(th) \/ NextSaveFails(th) \/ NextReturn(th)
                 \/ RotateTermRefuse(th) \/ RotateKEKRefuse(th) \/ DestroyTermRefuse(th)
                 \/ LifecycleSaveFails(th) \/ LifecycleReturn(th) \/ GiveUp(th)
          PROVE Finish(th)
      BY <2>3 DEF NextFast, NextRefuse, NextSaveFails, NextReturn, RotateTermRefuse, RotateKEKRefuse,
         DestroyTermRefuse, LifecycleSaveFails, LifecycleReturn, GiveUp, Release
    <2>4. CASE UNCHANGED vars
      BY <2>4, <1>9 DEF vars
    <2> QED BY <1>1, <1>2, <1>3, <1>5, <1>7, <1>8, <1>9, <1>10, <2>1, <2>2, <2>3, <2>4 DEF Next, Continue

\* A value is sealed only with a DEK that the file has for its term.
LEMMA StepSealed ==
    ASSUME TypeOK, TypeOK', NonceInv, TermInv, [Next]_vars
    PROVE  SealedInv'
  <1> SUFFICES ASSUME NEW t \in Term, NEW d \in sealed'[t]
               PROVE  Whole(d) /\ KnowsNext(t, d)
    BY DEF SealedInv, Knows, KnowsNext, Live
  <1> USE ThreadAssumption
  <1>0. Follows(disk', disk)
    BY StepFollows
  <1> SUFFICES Whole(d) /\ Knows(t, d)
    BY <1>0, KnownStays
  <1>1. CASE d \in sealed[t]
    BY <1>1 DEF TermInv, SealedInv
  <1>2. ASSUME NEW th \in Thread, NEW c, HandOut(th, c), call[th].kind = "seal"
        PROVE  Whole(d) /\ Knows(t, d)
    <2>1. d \in sealed[t] \/ (t = call[th].term /\ d = call[th].dek)
      BY <1>2 DEF HandOut, TypeOK
    <2>2. Whole(call[th].dek) /\ Knows(call[th].term, call[th].dek)
      BY <1>2 DEF TermInv, SealInv
    <2> QED BY <1>1, <2>1, <2>2
  <1>3. ASSUME NEW th \in Thread, NextFast(th) PROVE Whole(d) /\ Knows(t, d)
    BY <1>2, <1>3 DEF NextFast, NonceInv, CallInv
  <1>4. ASSUME NEW th \in Thread, NextReturn(th) PROVE Whole(d) /\ Knows(t, d)
    BY <1>2, <1>4 DEF NextReturn
  <1>5. CASE sealed' = sealed
    BY <1>1, <1>5
  <1> QED
    BY <1>3, <1>4, <1>5, Zenon
    DEF Next, vars, Open, Stop, Start, Continue, GiveUp, ActiveDEK, BeginRotateTerm, BeginRotateKEK,
        BeginDestroyTerm, Begin, NextTakeMu, NextRefuse, NextLoad, NextSaveFails,
        RotateTermLoad, RotateTermRefuse, RotateKEKLoad, RotateKEKRefuse,
        DestroyTermLoad, DestroyTermRefuse, LifecycleSaveFails, LifecycleReturn, Save

\* A file with the keys of the file on disk may follow it.
LEMMA SameKeysFollow ==
    ASSUME TypeOK, TermInv, NEW f,
           f.active = disk.active, f.status = disk.status, f.dek = disk.dek, f.kek = disk.kek
    PROVE  Follows(f, disk)
  <1>1. Follows(disk, disk)
    BY FollowsItself DEF TermInv
  <1> QED BY <1>1 DEF Follows, KeysInv, Live

\* A rotation adds a term with a new DEK and keeps those of the others.
LEMMA RotateFollows ==
    ASSUME TypeOK, TypeOK', NonceInv, TermInv, NEW th \in Thread, RotateTermLoad(th)
    PROVE  Follows(mem'[ProcOf[th]], disk) /\ Made(call'[th], mem'[ProcOf[th]])
  <1> DEFINE f == mem'[ProcOf[th]]
             t == disk.active + 1
             d == dekGen + 1
  <1> USE ThreadAssumption, NoneAssumption
  <1>1. Reload(ProcOf[th]) = disk
    BY ReloadIsDisk DEF RotateTermLoad, LifecycleLocked
  <1>2. /\ f.active = t
        /\ f.status = [v \in Term |-> IF v = t THEN "active"
                                       ELSE IF disk.status[v] = "active" THEN "retired"
                                       ELSE disk.status[v]]
        /\ f.dek = [disk.dek EXCEPT ![t] = d]
        /\ f.kek = [disk.kek EXCEPT ![t] = call[th].kek]
    BY <1>1 DEF RotateTermLoad, TypeOK
  <1>3. call'[th] = [call[th] EXCEPT !.term = t, !.dek = d] /\ call[th] \in Call
    BY <1>1 DEF RotateTermLoad, TypeOK
  <1>4. call'[th].term = t /\ call'[th].dek = d
    BY <1>3 DEF Call
  <1>5. t \in Term /\ disk.active \in Nat /\ disk \in File
    BY <1>1 DEF RotateTermLoad, RoomToRotate, TypeOK, File, Term
  <1>6. d # NoDEK
    BY DEF TypeOK, DEK, NoDEK
  <1>7. call[th].kek # None
    BY DEF RotateTermLoad, LifecycleLocked, NonceInv, CallInv
  <1>8. disk.dek \in [Term -> DEK \cup {NoDEK}] /\ disk.kek \in [Term -> KEK \cup {None}]
    BY <1>5 DEF File
  <1>9. \A v \in Term : /\ disk.status[v] = "absent" <=> v > disk.active
                        /\ disk.status[v] = "active" <=> v = disk.active
    BY DEF NonceInv, FileInv
  <1> HIDE DEF f, t, d
  <1>10. \A v \in Term \ {t} : f.dek[v] = disk.dek[v] /\ f.kek[v] = disk.kek[v]
    BY <1>2, <1>8
  <1>11. f.status[t] = "active" /\ f.dek[t] = d /\ f.kek[t] = call[th].kek
    BY <1>2, <1>5, <1>8
  <1>12. \A v \in Term \ {t} : f.status[v] = IF disk.status[v] = "active" THEN "retired"
                                              ELSE disk.status[v]
    BY <1>2
  <1>13. disk.status[t] # "destroyed" /\ ~(t <= disk.active)
    BY <1>5, <1>9 DEF t
  <1>14. KeysInv(f)
    <2> SUFFICES ASSUME NEW v \in Term
                 PROVE  /\ Live(f, v) => f.dek[v] # NoDEK /\ f.kek[v] # None
                        /\ f.status[v] = "destroyed" => f.dek[v] = NoDEK
      BY DEF KeysInv
    <2>1. CASE v = t
      BY <1>6, <1>7, <1>11, <2>1
    <2>2. CASE v # t
      <3>1. Live(f, v) => Live(disk, v)
        BY <1>12, <2>2 DEF Live
      <3>2. f.status[v] = "destroyed" => disk.status[v] = "destroyed"
        BY <1>12, <2>2
      <3> QED BY <1>10, <2>2, <3>1, <3>2 DEF TermInv, KeysInv
    <2> QED BY <2>1, <2>2
  <1>15. ASSUME NEW v \in Term
         PROVE  /\ Live(f, v) /\ v <= disk.active => Live(disk, v) /\ f.dek[v] = disk.dek[v]
                /\ disk.status[v] = "destroyed" => f.status[v] = "destroyed"
    <2>1. CASE v = t
      BY <1>13, <2>1
    <2>2. CASE v # t
      <3>1. Live(f, v) => Live(disk, v)
        BY <1>12, <2>2 DEF Live
      <3>2. disk.status[v] = "destroyed" => f.status[v] = "destroyed"
        BY <1>12, <2>2
      <3> QED BY <1>10, <2>2, <3>1, <3>2
    <2> QED BY <2>1, <2>2
  <1>16. disk.active <= f.active
    BY <1>2, <1>5 DEF t
  <1>17. Follows(f, disk)
    BY <1>14, <1>15, <1>16 DEF Follows
  <1>18. Made(call'[th], f)
    BY <1>2, <1>4, <1>6, <1>11 DEF Made
  <1> QED BY <1>17, <1>18 DEF f

\* Re-wrapping changes no DEK: what the process has in memory for a live term is
\* what the file has.
LEMMA RekeyFollows ==
    ASSUME TypeOK, NonceInv, TermInv, NEW th \in Thread, RotateKEKLoad(th)
    PROVE  Follows(mem'[ProcOf[th]], disk)
  <1> DEFINE p == ProcOf[th]
             f == mem'[p]
             ts == {t \in Term : Live(disk, t)}
  <1> USE ThreadAssumption, NoneAssumption
  <1>1. Reload(p) = disk
    BY ReloadIsDisk DEF RotateKEKLoad, LifecycleLocked
  <1>2. f = Rewrap(disk, p, call[th].kek, ts) /\ \A t \in Term : Live(disk, t) => deks[p][t] # NoDEK
    BY <1>1 DEF RotateKEKLoad, TypeOK
  <1>3. /\ f.active = disk.active /\ f.status = disk.status
        /\ f.dek = [t \in Term |-> IF t \in ts THEN deks[p][t] ELSE disk.dek[t]]
        /\ f.kek = [t \in Term |-> IF t \in ts THEN call[th].kek ELSE disk.kek[t]]
    BY <1>2 DEF Rewrap, TypeOK, File
  <1>4. \A t \in ts : deks[p][t] = disk.dek[t]
    BY <1>2 DEF TermInv, DeksInv, Knows
  <1>5. \A t \in Term : f.dek[t] = disk.dek[t]
    BY <1>3, <1>4
  <1>6. call[th].kek # None
    BY DEF RotateKEKLoad, LifecycleLocked, NonceInv, CallInv
  <1>7. \A t \in Term : Live(f, t) <=> Live(disk, t)
    BY <1>3 DEF Live
  <1>8. KeysInv(f)
    BY <1>3, <1>5, <1>6, <1>7 DEF KeysInv, TermInv
  <1>9. Follows(disk, disk)
    BY FollowsItself DEF TermInv
  <1> QED BY <1>3, <1>5, <1>7, <1>8, <1>9 DEF Follows

\* Destroying a term takes away its DEK and no other.
LEMMA DestroyFollows ==
    ASSUME TypeOK, NonceInv, TermInv, NEW th \in Thread, DestroyTermLoad(th)
    PROVE  Follows(mem'[ProcOf[th]], disk)
  <1> DEFINE f == mem'[ProcOf[th]]
             t == call[th].term
  <1> USE ThreadAssumption, NoneAssumption
  <1>1. Reload(ProcOf[th]) = disk /\ disk \in File /\ t \in Term
    BY ReloadIsDisk DEF DestroyTermLoad, LifecycleLocked, TypeOK, Call
  <1>2. f = [disk EXCEPT !.status[t] = "destroyed", !.dek[t] = NoDEK, !.kek[t] = None]
    BY <1>1 DEF DestroyTermLoad, TypeOK
  <1>3. /\ f.status = [disk.status EXCEPT ![t] = "destroyed"] /\ f.dek = [disk.dek EXCEPT ![t] = NoDEK]
        /\ f.kek = [disk.kek EXCEPT ![t] = None] /\ f.active = disk.active
    BY <1>1, <1>2 DEF File
  <1>4. f.status[t] = "destroyed" /\ f.dek[t] = NoDEK
    BY <1>1, <1>3 DEF File
  <1>5. \A v \in Term \ {t} : f.status[v] = disk.status[v] /\ f.dek[v] = disk.dek[v]
                              /\ f.kek[v] = disk.kek[v]
    BY <1>1, <1>3 DEF File
  <1>6. KeysInv(f)
    BY <1>4, <1>5 DEF KeysInv, TermInv, Live
  <1>7. Follows(disk, disk)
    BY FollowsItself DEF TermInv
  <1>8. \A v \in Term : /\ Live(f, v) /\ v <= disk.active => Live(disk, v) /\ f.dek[v] = disk.dek[v]
                        /\ disk.status[v] = "destroyed" => f.status[v] = "destroyed"
    BY <1>4, <1>5 DEF Live
  <1> QED BY <1>3, <1>6, <1>7, <1>8 DEF Follows

\* What a thread has loaded may follow the file on disk until it is saved: the
\* two locks keep every other writer out.
LEMMA StepSaving ==
    ASSUME TypeOK, TypeOK', NonceInv, TermInv, [Next]_vars
    PROVE  SavingInv'
  <1> DEFINE Loaded(u) == /\ Follows(mem'[ProcOf[u]], disk')
                          /\ call'[u].kind = "rotate" => Made(call'[u], mem'[ProcOf[u]])
             Saved(u)  == call'[u].kind = "rotate" => Made(call'[u], disk')
             Good(u)   == (pc'[u] = "loaded" => Loaded(u)) /\ (pc'[u] = "saved" => Saved(u))
  <1> SUFFICES ASSUME NEW u \in Thread PROVE Good(u)
    BY DEF SavingInv
  <1> USE ThreadAssumption, NoneAssumption
  <1> DEFINE Same == /\ pc'[u] = pc[u] /\ call'[u] = call[u] /\ disk' = disk
                     /\ pc[u] = "loaded" => mem'[ProcOf[u]] = mem[ProcOf[u]]
             Out  == pc'[u] \notin {"loaded", "saved"}
  <1>1. CASE Same
    BY <1>1 DEF TermInv, SavingInv
  <1>2. CASE Out
    BY <1>2
  <1>3. ASSUME NEW p \in Proc, NEW k \in KEK, Open(p, k) PROVE Same
    BY <1>3 DEF Open, NonceInv, CallInv, TypeOK
  <1>4. ASSUME NEW p \in Proc, Stop(p) PROVE Same \/ Out
    BY <1>4 DEF Stop, TypeOK
  <1>5. ASSUME NEW th \in Thread, Start(th) \/ NextTakeMu(th) PROVE Same \/ Out
    BY <1>5, Zenon DEF Start, ActiveDEK, BeginRotateTerm, BeginRotateKEK, BeginDestroyTerm, Begin,
                NextTakeMu, memVars, TypeOK
  <1>6. ASSUME NEW th \in Thread, Finish(th), disk' = disk,
               \A q \in Proc \ {ProcOf[th]} : mem'[q] = mem[q],
               mem' = mem \/ HoldsFlock(th) \/ flock = None
        PROVE Same \/ Out
    <2>1. CASE th = u
      BY <1>6, <2>1 DEF Finish, TypeOK
    <2>2. CASE th # u
      <3>1. pc'[u] = pc[u] /\ call'[u] = call[u]
        BY <1>6, <2>2 DEF Finish, TypeOK
      <3>2. pc[u] = "loaded" => mem' = mem
        BY <1>6, <2>2, OneLoaded DEF HoldsFlock
      <3> QED BY <1>6, <3>1, <3>2
    <2> QED BY <2>1, <2>2
  <1>7. ASSUME NEW th \in Thread, NextFast(th) \/ NextReturn(th) \/ GiveUp(th)
                                 \/ LifecycleSaveFails(th) \/ LifecycleReturn(th)
        PROVE Same \/ Out
    <2>1. Finish(th) /\ disk' = disk /\ mem' = mem
      BY <1>7, Zenon DEF NextFast, NextReturn, GiveUp, LifecycleSaveFails, LifecycleReturn, Release, memVars
    <2> QED BY <1>6, <2>1
  <1>8. ASSUME NEW th \in Thread, NextRefuse(th) \/ NextSaveFails(th) \/ RotateTermRefuse(th)
                                 \/ RotateKEKRefuse(th) \/ DestroyTermRefuse(th)
        PROVE Same \/ Out
    <2>1. Finish(th) /\ disk' = disk
      BY <1>8 DEF NextRefuse, NextSaveFails, RotateTermRefuse, RotateKEKRefuse, DestroyTermRefuse, Release
    <2>2. \A q \in Proc \ {ProcOf[th]} : mem'[q] = mem[q]
      BY <1>8 DEF NextRefuse, NextSaveFails, RotateTermRefuse, RotateKEKRefuse, DestroyTermRefuse, TypeOK
    <2>3. HoldsFlock(th) \/ flock = None
      BY <1>8 DEF NextRefuse, NextSaveFails, RotateTermRefuse, RotateKEKRefuse, DestroyTermRefuse,
         LifecycleLocked, HoldsFlock
    <2> QED BY <1>6, <2>1, <2>2, <2>3
  <1>9. ASSUME NEW th \in Thread, pc'[th] = "loaded", HoldsFlock(th) \/ flock = None, disk' = disk,
               call'[th].kind = call[th].kind,
               \A v \in Thread \ {th} : pc'[v] = pc[v],
               Follows(mem'[ProcOf[th]], disk),
               call[th].kind = "rotate" => Made(call'[th], mem'[ProcOf[th]])
        PROVE Good(u)
    <2>1. CASE th = u
      BY <1>9, <2>1
    <2>2. CASE th # u
      BY <1>9, <2>2, OneLoaded DEF HoldsFlock
    <2> QED BY <2>1, <2>2
  <1>10. ASSUME NEW th \in Thread, NextLoad(th) PROVE Good(u)
    <2> DEFINE t == call[th].term
               e == LeaseEnd(disk.ctr[t])
    <2>1. Reload(ProcOf[th]) = disk /\ disk \in File
      BY <1>10, ReloadIsDisk DEF NextLoad, TypeOK
    <2>2. mem'[ProcOf[th]] = [disk EXCEPT !.ctr[t] = e]
      BY <1>10, <2>1 DEF NextLoad, TypeOK
    <2>3. Follows(mem'[ProcOf[th]], disk)
      BY <2>1, <2>2, SameKeysFollow DEF File
    <2>4. call[th].kind = "seal" /\ call[th] \in Call
      BY <1>10 DEF NextLoad, NonceInv, CallInv, TypeOK
    <2>5. call'[th].kind = call[th].kind
      BY <1>10, <2>4 DEF NextLoad, TypeOK, Call
    <2>6. /\ pc'[th] = "loaded" /\ flock = None /\ disk' = disk
          /\ \A v \in Thread \ {th} : pc'[v] = pc[v]
      BY <1>10 DEF NextLoad, TypeOK
    <2> QED BY <1>9, <2>3, <2>4, <2>5, <2>6
  <1>11. ASSUME NEW th \in Thread, RotateTermLoad(th) \/ RotateKEKLoad(th) \/ DestroyTermLoad(th)
         PROVE Good(u)
    <2>1. /\ pc'[th] = "loaded" /\ HoldsFlock(th) /\ disk' = disk
          /\ \A v \in Thread \ {th} : pc'[v] = pc[v]
      BY <1>11 DEF RotateTermLoad, RotateKEKLoad, DestroyTermLoad, LifecycleLocked, HoldsFlock, TypeOK
    <2>2. call'[th].kind = call[th].kind
      BY <1>11, ZeroedCalls DEF RotateTermLoad, RotateKEKLoad, DestroyTermLoad, TypeOK, Call
    <2>3. CASE RotateTermLoad(th)
      BY <1>9, <2>1, <2>2, <2>3, RotateFollows
    <2>4. CASE RotateKEKLoad(th) \/ DestroyTermLoad(th)
      <3>1. call[th].kind # "rotate"
        BY <2>4 DEF RotateKEKLoad, DestroyTermLoad, LifecycleLocked
      <3>2. Follows(mem'[ProcOf[th]], disk)
        BY <2>4, RekeyFollows, DestroyFollows
      <3> QED BY <1>9, <2>1, <2>2, <3>1, <3>2
    <2> QED BY <1>11, <2>3, <2>4
  <1>12. ASSUME NEW th \in Thread, Save(th) PROVE Good(u)
    <2>1. CASE th = u
      <3>1. pc'[u] = "saved" /\ call'[u] = call[u] /\ disk' = mem[ProcOf[u]] /\ pc[u] = "loaded"
        BY <1>12, <2>1 DEF Save, TypeOK
      <3> QED BY <3>1 DEF TermInv, SavingInv
    <2>2. CASE th # u
      <3>1. HoldsFlock(th) /\ pc'[u] = pc[u]
        BY <1>12, <2>2 DEF Save, HoldsFlock, TypeOK
      <3> QED BY <2>2, <3>1, OneLoaded DEF HoldsFlock
    <2> QED BY <2>1, <2>2
  <1>13. CASE UNCHANGED vars
    BY <1>1, <1>13 DEF vars
  <1> HIDE DEF Same, Out, Good
  <1> QED
    BY <1>1, <1>2, <1>3, <1>4, <1>5, <1>7, <1>8, <1>10, <1>11, <1>12, <1>13 DEF Next, Continue

-----------------------------------------------------------------------------
\* The invariant of the terms holds at the start, ...
LEMMA InitTerms == Init => TermInv
  <1> SUFFICES ASSUME Init PROVE TermInv OBVIOUS
  <1> USE KEKAssumption, NoneAssumption
  <1>1. KeysInv(disk)
    BY DEF Init, KeysInv, NewFile, Live, NoDEK
  <1>2. DeksInv
    BY DEF Init, DeksInv, Knows, NoDEKs
  <1>3. SealInv /\ SavingInv
    BY DEF Init, SealInv, SavingInv, NoCall
  <1>4. SealedInv
    BY DEF Init, SealedInv
  <1> QED BY <1>1, <1>2, <1>3, <1>4 DEF TermInv

\* ... and every step keeps it.
LEMMA StepTerms ==
    ASSUME TypeOK, TypeOK', NonceInv, TermInv, [Next]_vars
    PROVE  TermInv'
  <1>1. KeysInv(disk')
    BY StepFollows DEF Follows
  <1>2. KeysInv(disk)'
    BY <1>1 DEF KeysInv, Live
  <1> QED BY <1>2, StepDeks, StepSeal, StepSealed, StepSaving DEF TermInv

\* The invariant of the terms: a DEK in memory, in a call or in a sealed value is
\* the file's own as long as its term is live, and what a process is about to
\* save under both locks takes none away.
THEOREM TermInvariant == Spec => [](TypeOK /\ NonceInv /\ TermInv)
  <1>1. Init => TypeOK /\ NonceInv /\ TermInv
    BY InitType, InitNonce, InitTerms
  <1>2. TypeOK /\ NonceInv /\ TermInv /\ [Next]_vars => (TypeOK /\ NonceInv /\ TermInv)'
    BY StepNonce, StepTerms
  <1> QED BY <1>1, <1>2, PTL DEF Spec

\* The file names exactly one active term in every state, and a live term can be
\* unwrapped, whatever rotations, re-wraps and destructions of goroutines and
\* processes with stale memory overlap, fail to save or die.
THEOREM OneTermActive == Spec => []OneActiveTerm
  <1>1. TypeOK /\ NonceInv /\ TermInv => OneActiveTerm
    <2> SUFFICES ASSUME TypeOK, NonceInv, TermInv PROVE OneActiveTerm
      OBVIOUS
    <2>1. disk.active \in Term
      BY DEF TypeOK, File
    <2>2. \A t \in Term : disk.status[t] = "active" <=> t = disk.active
      BY DEF NonceInv, FileInv
    <2> QED BY <2>1, <2>2 DEF OneActiveTerm, TermInv, KeysInv
  <1> QED BY <1>1, TermInvariant, PTL

\* Where no process has two goroutines at the keyring, the DEK of a live term is
\* moreover the one every value of the term was sealed with: no sealed value is
\* lost that was not destroyed.  With two, DestroyTerm zeroes the DEK that the other
\* one has in hand.
THEOREM TermsStayUsable == ASSUME OneGoroutine PROVE Spec => []TermsUsable
  <1>1. TypeOK /\ NonceInv /\ TermInv => SealedReadable
    BY DEF SealedReadable, TermInv, SealedInv, Knows, Whole
  <1>2. OneActiveTerm /\ SealedReadable => TermsUsable
    BY DEF TermsUsable
  <1> QED BY <1>1, <1>2, OneTermActive, TermInvariant, PTL

\* A destroyed term is destroyed for ever: no process writes its record or its
\* DEK back, however old the copy of the file it has in memory.
THEOREM DestroyedStaysDestroyed == Spec => DestroyedForever
  <1> DEFINE Gone == \A t \in Term : disk.status[t] = "destroyed"
                        => disk'.status[t] = "destroyed" /\ disk'.dek[t] = NoDEK
  <1>1. TypeOK /\ NonceInv /\ TermInv /\ [Next]_vars => Gone
    <2> SUFFICES ASSUME TypeOK, TermInv, [Next]_vars PROVE Gone
      OBVIOUS
    <2>1. Follows(disk', disk)
      BY StepFollows
    <2> QED BY <2>1 DEF Follows, KeysInv
  <1>2. TypeOK /\ NonceInv /\ TermInv /\ [Next]_vars => [Gone]_vars
    BY <1>1
  <1> QED BY <1>2, TermInvariant, PTL DEF Spec, DestroyedForever

=============================================================================
