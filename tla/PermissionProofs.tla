-------------------------- MODULE PermissionProofs --------------------------
(***************************************************************************)
(* Proofs about what permits a request, for every number of processes,     *)
(* threads, tokens and grants: the gateway tokens, the grants and the      *)
(* broker with its cache of provider tokens.  For gateway tokens and       *)
(* grants the use limit needs no lock on the file: UseInv holds even where *)
(* the flock on tokens.json fails.  That a revocation holds needs that     *)
(* lock for tokens, and for grants, which have none, a single process that *)
(* issues and revokes them.  The broker's results hold for every number of *)
(* goroutines, keys and tokens and every size of its cache.                *)
(***************************************************************************)
EXTENDS GatewayToken, Grants, Broker, FiniteSetTheorems, TLAPS

-----------------------------------------------------------------------------
\* Gateway tokens

USE DEF PC, File, NoFile, Limited

TypeInv == TypeOK /\ CallInv

\* The types hold initially.
LEMMA InitType == Init => TypeInv
  BY DEF Init, TypeInv, TypeOK, CallInv

\* Every step keeps the types.
LEMMA NextType == TypeInv /\ [Next]_vars => TypeInv'
  <1> SUFFICES ASSUME TypeInv, [Next]_vars PROVE TypeInv'
    OBVIOUS
  <1> USE ThreadAssumption, TokenAssumption, NoneAssumption
  <1> USE DEF Start, Goto, Finish, Return, TakeMu, StoreLocked, Covers, Unlock
  <1>1. ASSUME NEW th \in Thread, NEW t \in Token, BeginMint(th, t) PROVE TypeInv'
    BY <1>1 DEF TypeInv, TypeOK, CallInv, BeginMint, logVars
  <1>2. ASSUME NEW th \in Thread, NEW t \in Token, BeginRevoke(th, t) PROVE TypeInv'
    BY <1>2 DEF TypeInv, TypeOK, CallInv, BeginRevoke, logVars
  <1>3. ASSUME NEW th \in Thread, MintLoad(th) PROVE TypeInv'
    BY <1>3 DEF TypeInv, TypeOK, CallInv, MintLoad, logVars
  <1>4. ASSUME NEW th \in Thread, RevokeLoad(th) PROVE TypeInv'
    BY <1>4 DEF TypeInv, TypeOK, CallInv, RevokeLoad, logVars
  <1>5. ASSUME NEW th \in Thread, StoreFails(th) PROVE TypeInv'
    BY <1>5 DEF TypeInv, TypeOK, CallInv, StoreFails, logVars
  <1>6. ASSUME NEW th \in Thread, WriteTmp(th) PROVE TypeInv'
    BY <1>6 DEF TypeInv, TypeOK, CallInv, WriteTmp, logVars
  <1>7. ASSUME NEW th \in Thread, Rename(th) PROVE TypeInv'
    BY <1>7 DEF TypeInv, TypeOK, CallInv, Rename, logVars
  <1>8. ASSUME NEW th \in Thread, RenameFails(th) PROVE TypeInv'
    BY <1>8 DEF TypeInv, TypeOK, CallInv, RenameFails, logVars
  <1>9. ASSUME NEW th \in Thread, NEW t \in Token, NEW n \in Nonce, Verify(th, t, n) PROVE TypeInv'
    BY <1>9 DEF TypeInv, TypeOK, CallInv, Verify, logVars, storeVars
  <1>10. ASSUME NEW th \in Thread, ConsumeLock(th) PROVE TypeInv'
    BY <1>10 DEF TypeInv, TypeOK, CallInv, ConsumeLock, logVars, storeVars
  <1>11. ASSUME NEW th \in Thread, ConsumeRefuse(th) PROVE TypeInv'
    BY <1>11 DEF TypeInv, TypeOK, CallInv, ConsumeRefuse, logVars, storeVars
  <1>12. ASSUME NEW th \in Thread, AppendUse(th) PROVE TypeInv'
    BY <1>12 DEF TypeInv, TypeOK, CallInv, AppendUse, logVars, storeVars
  <1>13. ASSUME NEW th \in Thread, AppendFails(th) PROVE TypeInv'
    BY <1>13 DEF TypeInv, TypeOK, CallInv, AppendFails, logVars, storeVars
  <1>14. ASSUME NEW th \in Thread, Sync(th) PROVE TypeInv'
    BY <1>14 DEF TypeInv, TypeOK, CallInv, Sync, logVars, storeVars
  <1>15. ASSUME NEW th \in Thread, SyncFails(th) PROVE TypeInv'
    BY <1>15 DEF TypeInv, TypeOK, CallInv, SyncFails, logVars, storeVars
  <1>16. ASSUME NEW th \in Thread, Done(th) PROVE TypeInv'
    BY <1>16 DEF TypeInv, TypeOK, CallInv, Done, logVars, storeVars
  <1>17. ASSUME NEW t \in Token, Expire(t) PROVE TypeInv'
    BY <1>17 DEF TypeInv, TypeOK, CallInv, Expire, logVars, storeVars, callVars
  <1>18. ASSUME NEW p \in Proc, Crash(p) PROVE TypeInv'
    <2>1. /\ pc' \in [Thread -> PC] /\ tok' \in [Thread -> Token \cup {None}]
          /\ op' \in [Thread -> {"none", "mint", "revoke", "verify"}]
          /\ late' \in [Thread -> BOOLEAN] /\ copy' \in [Thread -> File]
      BY <1>18 DEF TypeInv, TypeOK, Crash
    <2>2. storeMu' \in [Proc -> Thread \cup {None}]
      BY <1>18 DEF TypeInv, TypeOK, Crash
    <2>3. flock' \in Thread \cup {None} /\ logLock' \in [Token -> Thread \cup {None}]
      BY <1>18 DEF TypeInv, TypeOK, Crash
    <2>4. torn' \in [Token -> BOOLEAN]
      BY <1>18 DEF TypeInv, TypeOK, Crash
    <2>5. CallInv'
      BY <1>18 DEF TypeInv, TypeOK, CallInv, Crash
    <2>6. UNCHANGED <<store, tmp, lines, expired, ids, issued, acked, uses>>
      BY <1>18 DEF Crash
    <2> QED BY <2>1, <2>2, <2>3, <2>4, <2>5, <2>6 DEF TypeInv, TypeOK
  <1>19. CASE UNCHANGED vars
    BY <1>19 DEF TypeInv, TypeOK, CallInv, vars, storeVars, logVars, callVars
  <1> QED
    BY <1>1, <1>2, <1>3, <1>4, <1>5, <1>6, <1>7, <1>8, <1>9, <1>10, <1>11, <1>12, <1>13,
       <1>14, <1>15, <1>16, <1>17, <1>18, <1>19 DEF Next

\* Type correctness of tokens.json, the use logs and every call in progress.
THEOREM TypeCorrect == Spec => []TypeOK
  <1>1. Spec => []TypeInv
    BY InitType, NextType, PTL DEF Spec
  <1> QED BY <1>1, PTL DEF TypeInv

-----------------------------------------------------------------------------
\* The use limit

\* A step that leaves the use logs and their users alone keeps UseInv; the
\* threads it moves end up outside the use logs.
UseCalm ==
    /\ UNCHANGED <<logVars, uses>>
    /\ \A th \in Thread : \/ pc'[th] = pc[th] /\ tok'[th] = tok[th]
                          \/ ~HoldsLog(th) /\ pc'[th] \notin {"consume", "append", "sync"}

LEMMA UseFrame ==
    ASSUME UseInv, UseCalm
    PROVE  UseInv'
  BY DEF UseInv, UseCalm, HoldsLog, UsesLeft, Count, logVars

\* Every step keeps UseInv.
LEMMA NextUse == TypeInv /\ UseInv /\ [Next]_vars => UseInv'
  <1> SUFFICES ASSUME TypeInv, UseInv, [Next]_vars PROVE UseInv'
    OBVIOUS
  <1> USE ThreadAssumption, TokenAssumption, NoneAssumption
  <1>a. TypeOK /\ CallInv
    BY DEF TypeInv
  <1>1. ASSUME NEW th \in Thread, NEW t \in Token, BeginMint(th, t) PROVE UseCalm
    BY <1>1, <1>a DEF TypeOK, BeginMint, TakeMu, Start, Goto, UseCalm, HoldsLog
  <1>2. ASSUME NEW th \in Thread, NEW t \in Token, BeginRevoke(th, t) PROVE UseCalm
    BY <1>2, <1>a DEF TypeOK, BeginRevoke, TakeMu, Start, Goto, UseCalm, HoldsLog
  <1>3. ASSUME NEW th \in Thread, MintLoad(th) PROVE UseCalm
    BY <1>3, <1>a DEF TypeOK, MintLoad, Goto, UseCalm, HoldsLog
  <1>4. ASSUME NEW th \in Thread, RevokeLoad(th) PROVE UseCalm
    BY <1>4, <1>a DEF TypeOK, RevokeLoad, Goto, UseCalm, HoldsLog
  <1>5. ASSUME NEW th \in Thread, StoreFails(th) PROVE UseCalm
    BY <1>5, <1>a DEF TypeOK, StoreFails, Return, Finish, Start, Goto, UseCalm, HoldsLog
  <1>6. ASSUME NEW th \in Thread, WriteTmp(th) PROVE UseCalm
    BY <1>6, <1>a DEF TypeOK, WriteTmp, Goto, UseCalm, HoldsLog
  <1>7. ASSUME NEW th \in Thread, Rename(th) PROVE UseCalm
    BY <1>7, <1>a DEF TypeOK, Rename, Return, Finish, Start, Goto, UseCalm, HoldsLog
  <1>8. ASSUME NEW th \in Thread, RenameFails(th) PROVE UseCalm
    BY <1>8, <1>a DEF TypeOK, RenameFails, Return, Finish, Start, Goto, UseCalm, HoldsLog
  <1>9. ASSUME NEW th \in Thread, NEW t \in Token, NEW n \in Nonce, Verify(th, t, n) PROVE UseInv'
    BY <1>9, <1>a DEF TypeOK, Verify, Start, Goto, UseInv, HoldsLog, UsesLeft, Count, logVars
  <1>10. ASSUME NEW th \in Thread, ConsumeLock(th) PROVE UseInv'
    BY <1>10, <1>a DEF TypeOK, CallInv, ConsumeLock, Goto, UseInv, HoldsLog, UsesLeft, Count
  <1>11. ASSUME NEW th \in Thread, ConsumeRefuse(th) PROVE UseCalm
    BY <1>11, <1>a DEF TypeOK, ConsumeRefuse, Finish, Start, Goto, UseCalm, HoldsLog
  <1>12. ASSUME NEW th \in Thread, AppendUse(th) PROVE UseInv'
    BY <1>12, <1>a DEF TypeOK, CallInv, AppendUse, Goto, UseInv, HoldsLog, UsesLeft, Count
  <1>13. ASSUME NEW th \in Thread, AppendFails(th) PROVE UseInv'
    BY <1>13, <1>a DEF TypeOK, CallInv, AppendFails, Unlock, Finish, Start, Goto, UseInv, HoldsLog,
                       UsesLeft, Count
  <1>14. ASSUME NEW th \in Thread, Sync(th) PROVE UseInv'
    BY <1>14, <1>a DEF TypeOK, CallInv, Sync, Unlock, Goto, UseInv, HoldsLog, UsesLeft, Count
  <1>15. ASSUME NEW th \in Thread, SyncFails(th) PROVE UseInv'
    BY <1>15, <1>a DEF TypeOK, CallInv, SyncFails, Unlock, Finish, Start, Goto, UseInv, HoldsLog,
                       UsesLeft, Count
  <1>16. ASSUME NEW th \in Thread, Done(th) PROVE UseCalm
    BY <1>16, <1>a DEF TypeOK, Done, Finish, Start, Goto, UseCalm, HoldsLog
  <1>17. ASSUME NEW t \in Token, Expire(t) PROVE UseCalm
    BY <1>17 DEF Expire, UseCalm, callVars
  <1>18. ASSUME NEW p \in Proc, Crash(p) PROVE UseInv'
    <2>1. /\ UNCHANGED <<lines, uses>>
          /\ \A th \in Thread : \/ ProcOf[th] = p /\ pc'[th] = "idle"
                                \/ ProcOf[th] # p /\ pc'[th] = pc[th] /\ tok'[th] = tok[th]
      BY <1>18, <1>a DEF Crash, TypeOK
    <2>2. \A t \in Token : logLock[t] \in Thread /\ ProcOf[logLock[t]] # p
                              => logLock'[t] = logLock[t]
      BY <1>18, <1>a DEF Crash, TypeOK
    <2>3. ASSUME NEW th \in Thread, pc'[th] \in {"append", "sync"}
          PROVE  logLock'[tok'[th]] = th
      BY <2>1, <2>2, <2>3, <1>a DEF UseInv, HoldsLog, CallInv, TypeOK
    <2>4. ASSUME NEW th \in Thread, pc'[th] = "append" PROVE UsesLeft(tok[th])'
      <3>1. ProcOf[th] # p /\ pc[th] = "append" /\ tok'[th] = tok[th] /\ tok[th] \in Token
        BY <2>1, <2>4, <1>a DEF CallInv
      <3>2. \A x \in Thread : ProcOf[x] = p /\ pc[x] = "append" => tok[x] # tok[th]
        BY <3>1 DEF UseInv, HoldsLog
      <3>3. torn'[tok[th]] = torn[tok[th]]
        BY <3>1, <3>2, <1>18, <1>a DEF Crash, TypeOK
      <3> QED BY <3>1, <3>3, <2>1 DEF UseInv, UsesLeft, Count
    <2> QED BY <2>1, <2>3, <2>4 DEF UseInv, HoldsLog
  <1>19. CASE UNCHANGED vars
    BY <1>19, UseFrame DEF vars, UseCalm, callVars
  <1> QED
    BY <1>1, <1>2, <1>3, <1>4, <1>5, <1>6, <1>7, <1>8, <1>9, <1>10, <1>11, <1>12, <1>13,
       <1>14, <1>15, <1>16, <1>17, <1>18, <1>19, UseFrame DEF Next

\* The use logs keep their invariant in every reachable state.
LEMMA UseInvariant == Spec => [](TypeInv /\ UseInv)
  <1>1. Init => UseInv
    BY TokenAssumption DEF Init, UseInv, HoldsLog
  <1> QED BY <1>1, InitType, NextType, NextUse, PTL DEF Spec

\* No limited token is accepted more often than MaxUses, whatever overlaps,
\* fails or crashes, and whether or not the lock on tokens.json works.
THEOREM UseLimit == Spec => []UsesBounded
  <1>1. TypeInv /\ UseInv => UsesBounded
    BY TokenAssumption DEF TypeInv, TypeOK, UseInv, UsesBounded
  <1> QED BY <1>1, UseInvariant, PTL

-----------------------------------------------------------------------------
\* The file, when its lock works

\* A step that leaves the file, its lock and its writers alone keeps StoreInv.
StoreCalm ==
    /\ UNCHANGED <<store, tmp, issued, acked>>
    /\ \A th \in Thread :
          \/ pc'[th] = pc[th] /\ op'[th] = op[th] /\ tok'[th] = tok[th] /\ copy'[th] = copy[th]
             /\ (flock = th => flock' = th)
          \/ ~Changing(th)'
    /\ \A th \in Thread : late'[th] = FALSE

LEMMA StoreFrame ==
    ASSUME StoreInv, StoreCalm
    PROVE  StoreInv'
  BY DEF StoreInv, StoreCalm, Changing

\* A step that is not one of the three that write keeps the file calm.
LEMMA NextStoreCalm ==
    ASSUME TypeInv, StoreInv, LockMayFail = FALSE, [Next]_vars
    PROVE  \/ StoreCalm
           \/ \E th \in Thread : \/ MintLoad(th) \/ RevokeLoad(th)
                                 \/ WriteTmp(th) \/ Rename(th) \/ RenameFails(th)
  <1> USE ThreadAssumption, TokenAssumption, NoneAssumption
  <1>a. TypeOK /\ CallInv
    BY DEF TypeInv
  <1> USE DEF StoreCalm, Changing, StoreInv, Start, Goto
  <1>1. ASSUME NEW th \in Thread, NEW t \in Token, BeginMint(th, t) PROVE StoreCalm
    BY <1>1, <1>a DEF TypeOK, BeginMint, TakeMu
  <1>2. ASSUME NEW th \in Thread, NEW t \in Token, BeginRevoke(th, t) PROVE StoreCalm
    BY <1>2, <1>a DEF TypeOK, BeginRevoke, TakeMu
  <1>5. ASSUME NEW th \in Thread, StoreFails(th) PROVE StoreCalm
    BY <1>5, <1>a DEF TypeOK, StoreFails, Return, Finish
  <1>9. ASSUME NEW th \in Thread, NEW t \in Token, NEW n \in Nonce, Verify(th, t, n) PROVE StoreCalm
    BY <1>9, <1>a DEF TypeOK, Verify, Good, storeVars
  <1>10. ASSUME NEW th \in Thread, ConsumeLock(th) PROVE StoreCalm
    BY <1>10, <1>a DEF TypeOK, ConsumeLock, storeVars
  <1>11. ASSUME NEW th \in Thread, ConsumeRefuse(th) PROVE StoreCalm
    BY <1>11, <1>a DEF TypeOK, ConsumeRefuse, Finish, storeVars
  <1>12. ASSUME NEW th \in Thread, AppendUse(th) PROVE StoreCalm
    BY <1>12, <1>a DEF TypeOK, AppendUse, storeVars
  <1>13. ASSUME NEW th \in Thread, AppendFails(th) PROVE StoreCalm
    BY <1>13, <1>a DEF TypeOK, AppendFails, Finish, storeVars
  <1>14. ASSUME NEW th \in Thread, Sync(th) PROVE StoreCalm
    BY <1>14, <1>a DEF TypeOK, Sync, storeVars
  <1>15. ASSUME NEW th \in Thread, SyncFails(th) PROVE StoreCalm
    BY <1>15, <1>a DEF TypeOK, SyncFails, Finish, storeVars
  <1>16. ASSUME NEW th \in Thread, Done(th) PROVE StoreCalm
    BY <1>16, <1>a DEF TypeOK, Done, Finish, storeVars
  <1>17. ASSUME NEW t \in Token, Expire(t) PROVE StoreCalm
    BY <1>17 DEF Expire, callVars, storeVars
  <1>18. ASSUME NEW p \in Proc, Crash(p) PROVE StoreCalm
    BY <1>18, <1>a DEF TypeOK, Crash
  <1>19. CASE UNCHANGED vars
    BY <1>19 DEF vars, callVars, storeVars
  <1> QED
    BY <1>1, <1>2, <1>5, <1>9, <1>10, <1>11, <1>12, <1>13,
       <1>14, <1>15, <1>16, <1>17, <1>18, <1>19 DEF Next

\* Every step keeps StoreInv and loses nothing from the file.
LEMMA NextStore ==
    ASSUME TypeInv, StoreInv, LockMayFail = FALSE, [Next]_vars
    PROVE  /\ StoreInv'
           /\ store.known \subseteq store'.known /\ store.revoked \subseteq store'.revoked
  <1> USE ThreadAssumption, TokenAssumption, NoneAssumption
  <1>a. TypeOK /\ CallInv
    BY DEF TypeInv
  <1> DEFINE Goal == /\ StoreInv'
                     /\ store.known \subseteq store'.known /\ store.revoked \subseteq store'.revoked
  <1>1. ASSUME StoreCalm PROVE Goal
    BY <1>1, StoreFrame DEF StoreCalm
  <1>b. ASSUME NEW th \in Thread, StoreLocked(th) PROVE \A x \in Thread : ~Changing(x)
    BY <1>b, <1>a DEF StoreInv, StoreLocked
  <1>2. ASSUME NEW th \in Thread, MintLoad(th) PROVE Goal
    <2>1. \A x \in Thread : ~Changing(x)
      BY <1>b, <1>2 DEF MintLoad
    <2>2. flock' = th
      BY <1>2 DEF MintLoad, StoreLocked
    <2> QED BY <1>2, <1>a, <2>1, <2>2 DEF MintLoad, Goto, StoreInv, Changing, TypeOK, CallInv
  <1>3. ASSUME NEW th \in Thread, RevokeLoad(th) PROVE Goal
    <2>1. \A x \in Thread : ~Changing(x)
      BY <1>b, <1>3 DEF RevokeLoad
    <2>2. flock' = th
      BY <1>3 DEF RevokeLoad, StoreLocked
    <2> QED BY <1>3, <1>a, <2>1, <2>2
          DEF RevokeLoad, Goto, StoreInv, Changing, TypeOK, CallInv, Covers
  <1>4. ASSUME NEW th \in Thread, WriteTmp(th) PROVE Goal
    BY <1>4, <1>a DEF WriteTmp, Goto, StoreInv, Changing, TypeOK
  <1>5. ASSUME NEW th \in Thread, Rename(th) PROVE Goal
    <2>1. /\ store' = copy[th] /\ \A x \in Thread : x # th => ~Changing(x)
      BY <1>5 DEF Rename, StoreInv, Changing
    <2>2. \A x \in Thread : ~Changing(x)'
      BY <1>5, <1>a, <2>1 DEF Rename, Return, Finish, Goto, Changing, TypeOK
    <2>3. \A x \in Thread : late'[x] = FALSE
      BY <1>5, <1>a DEF Rename, Return, Finish, Start, StoreInv, TypeOK
    <2>4. issued' \subseteq store'.known /\ acked' \subseteq store'.revoked
      BY <1>5, <1>a, <2>1 DEF Rename, StoreInv, Changing, CallInv
    <2>5. store.known \subseteq store'.known /\ store.revoked \subseteq store'.revoked
      BY <1>5, <2>1 DEF Rename, StoreInv, Changing
    <2> QED BY <2>2, <2>3, <2>4, <2>5 DEF StoreInv, Changing
  <1>6. ASSUME NEW th \in Thread, RenameFails(th) PROVE Goal
    <2>1. \A x \in Thread : ~Changing(x)'
      BY <1>6, <1>a DEF RenameFails, Return, Finish, Goto, Changing, TypeOK, StoreInv
    <2>2. \A x \in Thread : late'[x] = FALSE
      BY <1>6, <1>a DEF RenameFails, Return, Finish, Start, StoreInv, TypeOK
    <2> QED BY <1>6, <2>1, <2>2 DEF RenameFails, StoreInv, Changing
  <1> QED BY <1>1, <1>2, <1>3, <1>4, <1>5, <1>6, NextStoreCalm

\* The file keeps its invariant in every reachable state.
LEMMA StoreInvariant ==
    ASSUME LockMayFail = FALSE
    PROVE  Spec => [](TypeInv /\ StoreInv)
  <1>1. Init => StoreInv
    BY DEF Init, StoreInv, Changing
  <1>2. TypeInv /\ StoreInv /\ [Next]_vars => StoreInv'
    BY NextStore
  <1> QED BY <1>1, <1>2, InitType, NextType, PTL DEF Spec

\* A Verify that begins after a Revoke of the token or its parent returned never
\* accepts it, as long as the flock on tokens.json can be had.
THEOREM RevocationHolds ==
    ASSUME LockMayFail = FALSE
    PROVE  Spec => []NoLateAccept
  <1>1. StoreInv => NoLateAccept
    BY DEF StoreInv, NoLateAccept
  <1> QED BY <1>1, StoreInvariant, PTL

\* Every JWT handed out has a record, as long as the flock can be had.
THEOREM IssuedTokensKnown ==
    ASSUME LockMayFail = FALSE
    PROVE  Spec => []IssuedKnown
  <1>1. StoreInv => IssuedKnown
    BY DEF StoreInv, IssuedKnown
  <1> QED BY <1>1, StoreInvariant, PTL

\* No step loses a record or undoes a revocation, as long as the flock can be had.
THEOREM UpdatesSurvive ==
    ASSUME LockMayFail = FALSE
    PROVE  Spec => NothingLost
  <1>1. TypeInv /\ StoreInv /\ [Next]_vars
           => [store.known \subseteq store'.known /\ store.revoked \subseteq store'.revoked]_vars
    BY NextStore
  <1> QED BY <1>1, StoreInvariant, PTL DEF Spec, NothingLost

\* tokens.json says what was reported, as long as the flock can be had: no late
\* acceptance of a revoked token, no token without its record.
THEOREM TokenFileTrue ==
    ASSUME LockMayFail = FALSE
    PROVE  Spec => []FileTrue
  <1>1. StoreInv => FileTrue
    BY DEF StoreInv, FileTrue, NoLateAccept, IssuedKnown
  <1> QED BY <1>1, StoreInvariant, PTL

-----------------------------------------------------------------------------
\* Grants

USE DEF GrPC, GrFile, GrNoFile, GrLimited, grStoreVars, grLogVars, grCallVars

\* The types hold initially.
LEMMA GrInitType == GrInit => GrTypeOK
  BY DEF GrInit, GrTypeOK

\* Every step keeps the types.
LEMMA GrNextType == GrTypeOK /\ [GrNext]_grVars => GrTypeOK'
  <1> SUFFICES ASSUME GrTypeOK, [GrNext]_grVars PROVE GrTypeOK'
    OBVIOUS
  <1> USE GrantProcAssumption, GrantAssumption, NoGrantAssumption
  <1>1. ASSUME NEW p \in GrantProc, NEW g \in Grant, CreateLoad(p, g) PROVE GrTypeOK'
    BY <1>1 DEF GrTypeOK, CreateLoad, Change
  <1>2. ASSUME NEW p \in GrantProc, NEW g \in Grant, GrRevokeLoad(p, g) PROVE GrTypeOK'
    BY <1>2 DEF GrTypeOK, GrRevokeLoad, Change
  <1>3. ASSUME NEW p \in GrantProc, GrWriteTmp(p) PROVE GrTypeOK'
    BY <1>3 DEF GrTypeOK, GrWriteTmp
  <1>4. ASSUME NEW p \in GrantProc, GrRename(p) PROVE GrTypeOK'
    <2>1. gAcked' \subseteq Grant /\ gStore' \in GrFile /\ gTmp' \in GrFile
      BY <1>4 DEF GrTypeOK, GrRename
    <2> QED BY <1>4, <2>1 DEF GrTypeOK, GrRename, GrReturn
  <1>5. ASSUME NEW p \in GrantProc, WriteFails(p) PROVE GrTypeOK'
    BY <1>5 DEF GrTypeOK, WriteFails, GrReturn
  <1>6. ASSUME NEW p \in GrantProc, NEW a \in Ask, FindRead(p, a) PROVE GrTypeOK'
    BY <1>6 DEF GrTypeOK, FindRead
  <1>7. ASSUME NEW p \in GrantProc, FindNone(p) PROVE GrTypeOK'
    BY <1>7 DEF GrTypeOK, FindNone, GrReturn
  <1>8. ASSUME NEW p \in GrantProc, NEW g \in Grant, FindUnlimited(p, g) PROVE GrTypeOK'
    BY <1>8 DEF GrTypeOK, FindUnlimited, Found
  <1>9. ASSUME NEW p \in GrantProc, NEW g \in Grant, GrConsumeLock(p, g) PROVE GrTypeOK'
    BY <1>9 DEF GrTypeOK, GrConsumeLock
  <1>10. ASSUME NEW p \in GrantProc, NEW g \in Grant, ConsumeExhausted(p, g) PROVE GrTypeOK'
    BY <1>10 DEF GrTypeOK, ConsumeExhausted, Skip
  <1>11. ASSUME NEW p \in GrantProc, NEW g \in Grant, ConsumeFails(p, g) PROVE GrTypeOK'
    BY <1>11 DEF GrTypeOK, ConsumeFails, Skip
  <1>12. ASSUME NEW p \in GrantProc, GrAppend(p) PROVE GrTypeOK'
    <2>1. gLines' \in [Grant -> Nat] /\ gTorn' \in [Grant -> BOOLEAN]
      BY <1>12 DEF GrTypeOK, GrAppend
    <2>2. gPc' \in [GrantProc -> GrPC]
      BY <1>12 DEF GrTypeOK, GrAppend
    <2> QED BY <1>12, <2>1, <2>2 DEF GrTypeOK, GrAppend
  <1>13. ASSUME NEW p \in GrantProc, GrAppendFails(p) PROVE GrTypeOK'
    BY <1>13 DEF GrTypeOK, GrAppendFails, Skip, GrUnlock
  <1>14. ASSUME NEW p \in GrantProc, GrSync(p) PROVE GrTypeOK'
    BY <1>14 DEF GrTypeOK, GrSync, Found, GrUnlock
  <1>15. ASSUME NEW p \in GrantProc, GrSyncFails(p) PROVE GrTypeOK'
    BY <1>15 DEF GrTypeOK, GrSyncFails, Skip, GrUnlock
  <1>16. ASSUME NEW p \in GrantProc, GrDone(p) PROVE GrTypeOK'
    BY <1>16 DEF GrTypeOK, GrDone, GrReturn
  <1>17. ASSUME NEW p \in GrantProc, GrCrash(p) PROVE GrTypeOK'
    BY <1>17 DEF GrTypeOK, GrCrash, GrReturn
  <1>18. ASSUME NEW g \in Grant, GrExpire(g) PROVE GrTypeOK'
    BY <1>18 DEF GrTypeOK, GrExpire
  <1>19. CASE UNCHANGED grVars
    BY <1>19 DEF GrTypeOK, grVars
  <1> QED
    BY <1>1, <1>2, <1>3, <1>4, <1>5, <1>6, <1>7, <1>8, <1>9, <1>10, <1>11, <1>12,
       <1>13, <1>14, <1>15, <1>16, <1>17, <1>18, <1>19 DEF GrNext

\* Type correctness of grants.json, the use logs and every call in progress.
THEOREM GrTypeCorrect == GrSpec => []GrTypeOK
  BY GrInitType, GrNextType, PTL DEF GrSpec

-----------------------------------------------------------------------------
\* The use limit

\* A step that leaves the use logs and their users alone keeps GrUseInv.
GrUseCalm ==
    /\ UNCHANGED <<gLines, gTorn, gUses>>
    /\ \A q \in GrantProc : \/ gPc'[q] = gPc[q] /\ gr'[q] = gr[q] /\ gLogLock' = gLogLock
                       \/ gPc'[q] \notin {"append", "sync"}

LEMMA GrUseFrame ==
    ASSUME GrUseInv, GrUseCalm
    PROVE  GrUseInv'
  BY DEF GrUseInv, GrUseCalm, GrUsesLeft, GrCount

\* Every step keeps GrUseInv.
LEMMA GrNextUse == GrTypeOK /\ GrUseInv /\ [GrNext]_grVars => GrUseInv'
  <1> SUFFICES ASSUME GrTypeOK, GrUseInv, [GrNext]_grVars PROVE GrUseInv'
    OBVIOUS
  <1> USE GrantProcAssumption, GrantAssumption, NoGrantAssumption
  <1>1. ASSUME NEW p \in GrantProc, NEW g \in Grant, CreateLoad(p, g) PROVE GrUseCalm
    BY <1>1 DEF GrTypeOK, GrUseCalm, CreateLoad, Change
  <1>2. ASSUME NEW p \in GrantProc, NEW g \in Grant, GrRevokeLoad(p, g) PROVE GrUseCalm
    BY <1>2 DEF GrTypeOK, GrUseCalm, GrRevokeLoad, Change
  <1>3. ASSUME NEW p \in GrantProc, GrWriteTmp(p) PROVE GrUseCalm
    BY <1>3 DEF GrTypeOK, GrUseCalm, GrWriteTmp
  <1>4. ASSUME NEW p \in GrantProc, GrRename(p) PROVE GrUseCalm
    BY <1>4 DEF GrTypeOK, GrUseCalm, GrRename, GrReturn
  <1>5. ASSUME NEW p \in GrantProc, WriteFails(p) PROVE GrUseCalm
    BY <1>5 DEF GrTypeOK, GrUseCalm, WriteFails, GrReturn
  <1>6. ASSUME NEW p \in GrantProc, NEW a \in Ask, FindRead(p, a) PROVE GrUseCalm
    BY <1>6 DEF GrTypeOK, GrUseCalm, FindRead
  <1>7. ASSUME NEW p \in GrantProc, FindNone(p) PROVE GrUseCalm
    BY <1>7 DEF GrTypeOK, GrUseCalm, FindNone, GrReturn
  <1>8. ASSUME NEW p \in GrantProc, NEW g \in Grant, FindUnlimited(p, g) PROVE GrUseInv'
    BY <1>8 DEF GrTypeOK, GrUseInv, GrUsesLeft, GrCount, FindUnlimited, Found
  <1>9. ASSUME NEW p \in GrantProc, NEW g \in Grant, GrConsumeLock(p, g) PROVE GrUseInv'
    BY <1>9 DEF GrTypeOK, GrUseInv, GrUsesLeft, GrCount, GrConsumeLock
  <1>10. ASSUME NEW p \in GrantProc, NEW g \in Grant, ConsumeExhausted(p, g) PROVE GrUseCalm
    BY <1>10 DEF GrTypeOK, GrUseCalm, ConsumeExhausted, Skip
  <1>11. ASSUME NEW p \in GrantProc, NEW g \in Grant, ConsumeFails(p, g) PROVE GrUseCalm
    BY <1>11 DEF GrTypeOK, GrUseCalm, ConsumeFails, Skip
  <1>12. ASSUME NEW p \in GrantProc, GrAppend(p) PROVE GrUseInv'
    BY <1>12 DEF GrTypeOK, GrUseInv, GrUsesLeft, GrCount, GrAppend
  <1>13. ASSUME NEW p \in GrantProc, GrAppendFails(p) PROVE GrUseInv'
    BY <1>13 DEF GrTypeOK, GrUseInv, GrUsesLeft, GrCount, GrAppendFails, Skip, GrUnlock
  <1>14. ASSUME NEW p \in GrantProc, GrSync(p) PROVE GrUseInv'
    BY <1>14 DEF GrTypeOK, GrUseInv, GrUsesLeft, GrCount, GrSync, Found, GrUnlock
  <1>15. ASSUME NEW p \in GrantProc, GrSyncFails(p) PROVE GrUseInv'
    BY <1>15 DEF GrTypeOK, GrUseInv, GrUsesLeft, GrCount, GrSyncFails, Skip, GrUnlock
  <1>16. ASSUME NEW p \in GrantProc, GrDone(p) PROVE GrUseCalm
    BY <1>16 DEF GrTypeOK, GrUseCalm, GrDone, GrReturn
  <1>17. ASSUME NEW p \in GrantProc, GrCrash(p) PROVE GrUseInv'
    BY <1>17 DEF GrTypeOK, GrUseInv, GrUsesLeft, GrCount, GrCrash, GrReturn
  <1>18. ASSUME NEW g \in Grant, GrExpire(g) PROVE GrUseCalm
    BY <1>18 DEF GrTypeOK, GrUseCalm, GrExpire
  <1>19. CASE UNCHANGED grVars
    BY <1>19, GrUseFrame DEF GrUseCalm, grVars
  <1> QED
    BY <1>1, <1>2, <1>3, <1>4, <1>5, <1>6, <1>7, <1>8, <1>9, <1>10, <1>11, <1>12,
       <1>13, <1>14, <1>15, <1>16, <1>17, <1>18, <1>19, GrUseFrame DEF GrNext

\* No limited grant is returned more often than MaxUses, whatever overlaps,
\* fails or crashes.
THEOREM GrUseLimit == GrSpec => []GrUsesBounded
  <1>1. GrInit => GrUseInv
    BY GrantAssumption DEF GrInit, GrUseInv
  <1>2. GrTypeOK /\ GrUseInv => GrUsesBounded
    BY GrantAssumption DEF GrTypeOK, GrUseInv, GrUsesBounded
  <1> QED BY <1>1, <1>2, GrInitType, GrNextType, GrNextUse, PTL DEF GrSpec

-----------------------------------------------------------------------------
\* Revocation, with one writer

OneWriter == \A p, q \in Writer : p = q

\* Every step keeps GrStoreInv when only one process writes the file.
LEMMA GrNextStore ==
    ASSUME OneWriter, GrTypeOK, GrStoreInv, [GrNext]_grVars
    PROVE  GrStoreInv'
  <1> USE GrantProcAssumption, GrantAssumption, NoGrantAssumption
  <1>1. ASSUME NEW p \in GrantProc, NEW g \in Grant, CreateLoad(p, g) PROVE GrStoreInv'
    BY <1>1 DEF GrTypeOK, GrStoreInv, CreateLoad, Change
  <1>2. ASSUME NEW p \in GrantProc, NEW g \in Grant, GrRevokeLoad(p, g) PROVE GrStoreInv'
    BY <1>2 DEF GrTypeOK, GrStoreInv, GrRevokeLoad, Change
  <1>3. ASSUME NEW p \in GrantProc, GrWriteTmp(p) PROVE GrStoreInv'
    <2>1. \A q \in GrantProc \ {p} : gPc[q] \notin {"change", "written"}
      BY <1>3 DEF GrWriteTmp, GrStoreInv, OneWriter
    <2> QED BY <1>3, <2>1 DEF GrTypeOK, GrStoreInv, GrWriteTmp
  <1>4. ASSUME NEW p \in GrantProc, GrRename(p) PROVE GrStoreInv'
    <2>1. gStore' = gCopy[p] /\ \A q \in GrantProc \ {p} : gPc[q] \notin {"change", "written"}
      BY <1>4 DEF GrRename, GrStoreInv, OneWriter
    <2>2. \A q \in GrantProc : gPc'[q] \notin {"change", "written"}
      BY <1>4, <2>1 DEF GrTypeOK, GrRename, GrReturn
    <2>3. gAcked' \subseteq gStore'.revoked
      BY <1>4, <2>1 DEF GrRename, GrStoreInv, GrTypeOK
    <2> QED BY <1>4, <2>2, <2>3 DEF GrTypeOK, GrStoreInv, GrRename, GrReturn
  <1>5. ASSUME NEW p \in GrantProc, WriteFails(p) PROVE GrStoreInv'
    <2>1. \A q \in GrantProc \ {p} : gPc[q] \notin {"change", "written"}
      BY <1>5 DEF WriteFails, GrStoreInv, OneWriter
    <2> QED BY <1>5, <2>1 DEF GrTypeOK, GrStoreInv, WriteFails, GrReturn
  <1>6. ASSUME NEW p \in GrantProc, NEW a \in Ask, FindRead(p, a) PROVE GrStoreInv'
    BY <1>6 DEF GrTypeOK, GrStoreInv, Usable, FindRead
  <1>7. ASSUME NEW p \in GrantProc, FindNone(p) PROVE GrStoreInv'
    BY <1>7 DEF GrTypeOK, GrStoreInv, FindNone, GrReturn
  <1>8. ASSUME NEW p \in GrantProc, NEW g \in Grant, FindUnlimited(p, g) PROVE GrStoreInv'
    BY <1>8 DEF GrTypeOK, GrStoreInv, FindUnlimited, Found
  <1>9. ASSUME NEW p \in GrantProc, NEW g \in Grant, GrConsumeLock(p, g) PROVE GrStoreInv'
    BY <1>9 DEF GrTypeOK, GrStoreInv, GrConsumeLock
  <1>10. ASSUME NEW p \in GrantProc, NEW g \in Grant, ConsumeExhausted(p, g) PROVE GrStoreInv'
    BY <1>10 DEF GrTypeOK, GrStoreInv, ConsumeExhausted, Skip
  <1>11. ASSUME NEW p \in GrantProc, NEW g \in Grant, ConsumeFails(p, g) PROVE GrStoreInv'
    BY <1>11 DEF GrTypeOK, GrStoreInv, ConsumeFails, Skip
  <1>12. ASSUME NEW p \in GrantProc, GrAppend(p) PROVE GrStoreInv'
    BY <1>12 DEF GrTypeOK, GrStoreInv, GrAppend
  <1>13. ASSUME NEW p \in GrantProc, GrAppendFails(p) PROVE GrStoreInv'
    BY <1>13 DEF GrTypeOK, GrStoreInv, GrAppendFails, Skip, GrUnlock
  <1>14. ASSUME NEW p \in GrantProc, GrSync(p) PROVE GrStoreInv'
    BY <1>14 DEF GrTypeOK, GrStoreInv, GrSync, Found, GrUnlock
  <1>15. ASSUME NEW p \in GrantProc, GrSyncFails(p) PROVE GrStoreInv'
    BY <1>15 DEF GrTypeOK, GrStoreInv, GrSyncFails, Skip, GrUnlock
  <1>16. ASSUME NEW p \in GrantProc, GrDone(p) PROVE GrStoreInv'
    BY <1>16 DEF GrTypeOK, GrStoreInv, GrDone, GrReturn
  <1>17. ASSUME NEW p \in GrantProc, GrCrash(p) PROVE GrStoreInv'
    BY <1>17 DEF GrTypeOK, GrStoreInv, GrCrash, GrReturn
  <1>18. ASSUME NEW g \in Grant, GrExpire(g) PROVE GrStoreInv'
    BY <1>18 DEF GrTypeOK, GrStoreInv, GrExpire
  <1>19. CASE UNCHANGED grVars
    BY <1>19 DEF GrStoreInv, grVars
  <1> QED
    BY <1>1, <1>2, <1>3, <1>4, <1>5, <1>6, <1>7, <1>8, <1>9, <1>10, <1>11, <1>12,
       <1>13, <1>14, <1>15, <1>16, <1>17, <1>18, <1>19 DEF GrNext

\* If one process issues and revokes grants, a Find that begins after a Revoke
\* has returned never returns the revoked grant.
THEOREM GrRevocationHolds ==
    ASSUME OneWriter
    PROVE  GrSpec => []NoLateFind
  <1>1. GrInit => GrStoreInv
    BY DEF GrInit, GrStoreInv
  <1>2. GrTypeOK /\ GrStoreInv => NoLateFind
    BY DEF GrTypeOK, GrStoreInv, NoLateFind
  <1>3. GrTypeOK /\ GrStoreInv /\ [GrNext]_grVars => GrStoreInv'
    BY GrNextStore
  <1> QED BY <1>1, <1>2, <1>3, GrInitType, GrNextType, PTL DEF GrSpec

\* With one process that issues and revokes, a grant is found no more often than
\* it allows and never after its revocation was reported.
THEOREM GrantsSafe ==
    ASSUME OneWriter
    PROVE  GrSpec => []GrantsHold
  <1>1. GrUsesBounded /\ NoLateFind => GrantsHold
    BY DEF GrantsHold
  <1> QED BY <1>1, GrUseLimit, GrRevocationHolds, PTL

-----------------------------------------------------------------------------
\* The broker

USE DEF BkPC, bkCallVars

\* No entry and no result.
LEMMA NoEntryType == NoEntry \in Entry /\ NoResult \in Result
  BY BoundAssumption DEF Entry, NoEntry, Result, NoResult

\* What an entry holds, and what a change of its sharers makes of it.
LEMMA EntryType ==
    ASSUME NEW e \in Entry
    PROVE  /\ e.tok \in 0..MaxToken /\ e.at \in 0..MaxToken /\ e.zeroed \in BOOLEAN
           /\ e.shared \in SUBSET Caller
           /\ \A ts \in SUBSET Caller : [e EXCEPT !.shared = ts] \in Entry
           /\ \A ts \in SUBSET Caller : [e EXCEPT !.zeroed = TRUE, !.shared = ts] \in Entry
  BY DEF Entry

\* What a result holds.
LEMMA ResultType ==
    ASSUME NEW r \in Result
    PROVE  r.tok \in 0..MaxToken /\ r.zeroed \in BOOLEAN /\ [r EXCEPT !.zeroed = TRUE] \in Result
  BY DEF Result

\* The part of BkTypeOK about the cache and the results.
CacheOK ==
    /\ cache \in [Key -> Entry]
    /\ \A k \in Key : cache[k].tok = 0 <=> cache[k].at = 0
    /\ got \in [Caller -> Result]

\* Zeroing entries leaves results.
LEMMA ZeroEntriesType ==
    ASSUME CacheOK, NEW ks \in SUBSET Key, ZeroEntries(ks)
    PROVE  got' \in [Caller -> Result] /\ \A t \in Caller : got'[t].tok = got[t].tok
  <1>1. \A r \in Result : [r EXCEPT !.zeroed = TRUE].tok = r.tok
    BY DEF Result
  <1> QED BY <1>1, ResultType DEF CacheOK, ZeroEntries

\* Removing entries leaves a cache.
LEMMA DropType ==
    ASSUME CacheOK, NEW ks \in SUBSET Key, Drop(ks)
    PROVE  CacheOK' /\ \A t \in Caller : got'[t].tok = got[t].tok
  <1>1. got' \in [Caller -> Result] /\ \A t \in Caller : got'[t].tok = got[t].tok
    BY ZeroEntriesType DEF Drop
  <1>2. NoEntry.tok = 0 /\ NoEntry.at = 0
    BY DEF NoEntry
  <1>3. cache' \in [Key -> Entry] /\ \A k \in Key : cache'[k] \in {NoEntry, cache[k]}
    BY NoEntryType DEF Drop, CacheOK
  <1>4. \A k \in Key : cache'[k].tok = 0 <=> cache'[k].at = 0
    BY <1>2, <1>3 DEF CacheOK
  <1> QED BY <1>1, <1>3, <1>4 DEF Drop, CacheOK

\* Zeroing a result leaves a cache.
LEMMA ZeroResultType ==
    ASSUME CacheOK, NEW t \in Caller, ZeroResult(t)
    PROVE  /\ cache' \in [Key -> Entry]
           /\ \A k \in Key : cache'[k].tok = cache[k].tok /\ cache'[k].at = cache[k].at
  <1>1. \A k \in Key : cache[k] \in Entry /\ cache[k].shared \ {t} \in SUBSET Caller
    BY EntryType DEF CacheOK
  <1>2. \A k \in Key : [cache[k] EXCEPT !.zeroed = TRUE, !.shared = @ \ {t}] \in Entry
    BY <1>1, EntryType
  <1>3. cache' \in [Key -> Entry]
    BY <1>1, <1>2 DEF ZeroResult
  <1>4. ASSUME NEW k \in Key
        PROVE  cache'[k].tok = cache[k].tok /\ cache'[k].at = cache[k].at
    BY <1>1 DEF ZeroResult, Entry
  <1> QED BY <1>3, <1>4

\* What a revocation rules out is a set of tokens.
LEMMA RevokedType ==
    ASSUME BkTypeOK, NEW ks \in SUBSET Key, Revoked(ks)
    PROVE  cut' \in [Key -> SUBSET BkToken]
  BY BoundAssumption DEF BkTypeOK, Revoked, BkToken

\* The types hold initially.
LEMMA BkInitType == BkInit => BkTypeOK
  BY NoEntryType, BoundAssumption DEF BkInit, BkTypeOK, NoEntry

\* Every step keeps the types.
LEMMA BkNextType == BkTypeOK /\ [BkNext]_bkVars => BkTypeOK'
  <1> SUFFICES ASSUME BkTypeOK, [BkNext]_bkVars PROVE BkTypeOK'
    OBVIOUS
  <1> USE KeyAssumption, BoundAssumption, NoKeyAssumption
  <1>a. CacheOK /\ Cached \subseteq Key
    BY DEF BkTypeOK, CacheOK, Cached
  <1>b. \A t \in Caller : key[t] \in Key \cup {NoKey}
    BY DEF BkTypeOK
  <1>1. ASSUME NEW t \in Caller, NEW k \in Key, Begin(t, k) PROVE BkTypeOK'
    BY <1>1 DEF BkTypeOK, Begin, BkGoto
  <1>2. ASSUME NEW t \in Caller, Hit(t) PROVE BkTypeOK'
    <2>1. key[t] \in Key /\ cache[key[t]] \in Entry
      BY <1>2 DEF Hit, Live, Cached, BkTypeOK
    <2>2. [tok |-> cache[key[t]].tok, zeroed |-> cache[key[t]].zeroed] \in Result
      BY <2>1, EntryType DEF Result
    <2>3. cache[key[t]].shared \cup SharedOnGet(t) \in SUBSET Caller
      BY <2>1, EntryType DEF SharedOnGet
    <2>4. [cache[key[t]] EXCEPT !.shared = @ \cup SharedOnGet(t)] \in Entry
      BY <2>1, <2>3, EntryType
    <2> DEFINE e == [cache[key[t]] EXCEPT !.shared = @ \cup SharedOnGet(t)]
    <2>5. cache' = [cache EXCEPT ![key[t]] = e]
      BY <1>2 DEF Hit
    <2>6. cache' \in [Key -> Entry]
      <3> HIDE DEF e
      <3>1. e \in Entry
        BY <2>4 DEF e
      <3> QED BY <2>1, <3>1, <2>5 DEF BkTypeOK
    <2>7. \A j \in Key : cache'[j].tok = cache[j].tok /\ cache'[j].at = cache[j].at
      BY <2>1, <2>5 DEF BkTypeOK, Entry
    <2>8. \A j \in Key : cache'[j].tok = 0 <=> cache'[j].at = 0
      BY <2>7 DEF BkTypeOK
    <2>9. got' \in [Caller -> Result]
      BY <1>2, <2>2 DEF Hit, BkTypeOK
    <2> QED BY <1>2, <2>6, <2>8, <2>9 DEF BkTypeOK, Hit, BkGoto
  <1>3. ASSUME NEW t \in Caller, HitExpired(t) PROVE BkTypeOK'
    BY <1>3 DEF BkTypeOK, HitExpired, BkGoto
  <1>4. ASSUME NEW t \in Caller, DeleteStale(t) PROVE BkTypeOK'
    <2>1. CacheOK' /\ \A x \in Caller : got'[x].tok = got[x].tok
      BY <1>4, <1>a, DropType DEF DeleteStale
    <2> QED BY <1>4, <2>1 DEF BkTypeOK, CacheOK, DeleteStale, BkGoto
  <1>5. ASSUME NEW t \in Caller, Miss(t) PROVE BkTypeOK'
    BY <1>5 DEF BkTypeOK, Miss, BkGoto
  <1>6. ASSUME NEW t \in Caller, Issue(t) PROVE BkTypeOK'
    <2>1. [tok |-> minted + 1, zeroed |-> FALSE] \in Result
      BY <1>6 DEF Issue, BkTypeOK, Result
    <2> QED BY <1>6, <2>1 DEF BkTypeOK, Issue, BkGoto
  <1>7. ASSUME NEW t \in Caller, Set(t) PROVE BkTypeOK'
    <2> DEFINE new == [tok |-> got[t].tok, at |-> Stamp(t), zeroed |-> got[t].zeroed,
                       shared |-> SharedOnSet(t)]
    <2>r. got[t].tok \in 0..MaxToken /\ got[t].zeroed \in BOOLEAN
      BY ResultType DEF BkTypeOK
    <2>1. new \in Entry /\ new.tok = got[t].tok /\ new.at = got[t].tok
      BY <2>r DEF BkTypeOK, Entry, Stamp, SharedOnSet
    <2>2. got[t].tok # 0
      BY <1>7 DEF Set, BkTypeOK
    <2> HIDE DEF new
    <2>3. PICK out \in SUBSET Key :
             /\ cache' = [j \in Key |-> IF j = key[t] THEN new ELSE IF j \in out THEN NoEntry ELSE cache[j]]
             /\ ZeroEntries(out)
      BY <1>7, <1>a DEF Set, Oldest, new
    <2>4. cache' \in [Key -> Entry] /\ \A j \in Key : cache'[j] \in {new, NoEntry, cache[j]}
      BY <2>1, <2>3, NoEntryType DEF BkTypeOK
    <2>5. NoEntry.tok = 0 /\ NoEntry.at = 0
      BY DEF NoEntry
    <2>6. \A j \in Key : cache'[j].tok = 0 <=> cache'[j].at = 0
      BY <2>1, <2>2, <2>4, <2>5 DEF BkTypeOK
    <2>7. got' \in [Caller -> Result] /\ \A x \in Caller : got'[x].tok = got[x].tok
      BY <2>3, <1>a, ZeroEntriesType
    <2>8. /\ bkPc' = [bkPc EXCEPT ![t] = "emit"]
          /\ UNCHANGED <<vault, minted, bkExpired, key, todo, cut, since>>
      BY <1>7 DEF Set, BkGoto
    <2> QED BY <2>4, <2>6, <2>7, <2>8 DEF BkTypeOK
  <1>8. ASSUME NEW t \in Caller, Emit(t) PROVE BkTypeOK'
    BY <1>8 DEF BkTypeOK, Emit, BkGoto
  <1>9. ASSUME NEW t \in Caller, Fail(t) PROVE BkTypeOK'
    <2>1. /\ cache' \in [Key -> Entry]
          /\ \A j \in Key : cache'[j].tok = cache[j].tok /\ cache'[j].at = cache[j].at
      BY <1>9, <1>a, ZeroResultType DEF Fail
    <2>2. \A j \in Key : cache'[j].tok = 0 <=> cache'[j].at = 0
      BY <2>1 DEF BkTypeOK
    <2> QED BY <1>9, <2>1, <2>2, NoEntryType DEF BkTypeOK, Fail, BkReturn, BkGoto
  <1>10. ASSUME NEW t \in Caller, BkDone(t) PROVE BkTypeOK'
    <2>1. /\ cache' \in [Key -> Entry]
          /\ \A j \in Key : cache'[j].tok = cache[j].tok /\ cache'[j].at = cache[j].at
      BY <1>10, <1>a, ZeroResultType DEF BkDone
    <2>2. \A j \in Key : cache'[j].tok = 0 <=> cache'[j].at = 0
      BY <2>1 DEF BkTypeOK
    <2> QED BY <1>10, <2>1, <2>2, NoEntryType DEF BkTypeOK, BkDone, BkReturn, BkGoto
  <1>11. ASSUME NEW t \in Caller, NEW a \in Actors, RevokeAll(t, a) PROVE BkTypeOK'
    BY <1>11 DEF BkTypeOK, RevokeAll, BkGoto
  <1>12. ASSUME NEW t \in Caller, NEW k \in Key, RevokeNext(t, k) PROVE BkTypeOK'
    <2>1. CASE Live(k)
      <3>1. Drop({k})
        BY <1>12, <2>1 DEF RevokeNext
      <3>2. CacheOK' /\ \A x \in Caller : got'[x].tok = got[x].tok
        BY <3>1, <1>a, DropType
      <3>3. /\ todo' = [todo EXCEPT ![t] = @ \ {k}] /\ Revoked({k})
            /\ UNCHANGED <<vault, minted, bkExpired, bkPc, key, since>>
        BY <1>12, <2>1 DEF RevokeNext
      <3>4. cut' \in [Key -> SUBSET BkToken]
        BY <3>3, RevokedType
      <3> QED BY <3>2, <3>3, <3>4 DEF BkTypeOK, CacheOK
    <2>2. CASE ~Live(k)
      BY <1>12, <2>2 DEF BkTypeOK, RevokeNext
    <2> QED BY <2>1, <2>2
  <1>13. ASSUME NEW t \in Caller, RevokeAllReturn(t) PROVE BkTypeOK'
    BY <1>13 DEF BkTypeOK, RevokeAllReturn, BkGoto
  <1>14. ASSUME NEW s \in Sessions, Revoke(s) PROVE BkTypeOK'
    <2>1. CacheOK' /\ \A x \in Caller : got'[x].tok = got[x].tok
      <3>1. Drop(s \cap Cached) /\ (s \cap Cached) \in SUBSET Key
        BY <1>14, <1>a DEF Revoke
      <3> QED BY <3>1, <1>a, DropType
    <2>2. cut' \in [Key -> SUBSET BkToken]
      BY <1>14, RevokedType DEF Revoke
    <2> QED BY <1>14, <2>1, <2>2 DEF BkTypeOK, CacheOK, Revoke
  <1>15. ASSUME NEW k \in Key, RevokeToken(k) PROVE BkTypeOK'
    <2>1. CacheOK' /\ \A x \in Caller : got'[x].tok = got[x].tok
      <3>1. Drop({k}) /\ ({k}) \in SUBSET Key
        BY <1>15, <1>a DEF RevokeToken
      <3> QED BY <3>1, <1>a, DropType
    <2>2. cut' \in [Key -> SUBSET BkToken]
      BY <1>15, RevokedType DEF RevokeToken
    <2> QED BY <1>15, <2>1, <2>2 DEF BkTypeOK, CacheOK, RevokeToken
  <1>16. ASSUME LockFlag PROVE BkTypeOK'
    BY <1>16 DEF BkTypeOK, LockFlag
  <1>17. ASSUME Flush PROVE BkTypeOK'
    <2>1. CacheOK' /\ \A x \in Caller : got'[x].tok = got[x].tok
      <3>1. Drop(Cached) /\ (Cached) \in SUBSET Key
        BY <1>17, <1>a DEF Flush
      <3> QED BY <3>1, <1>a, DropType
    <2>2. cut' \in [Key -> SUBSET BkToken]
      BY <1>17, RevokedType DEF Flush
    <2> QED BY <1>17, <2>1, <2>2 DEF BkTypeOK, CacheOK, Flush
  <1>18. ASSUME BkUnlock PROVE BkTypeOK'
    BY <1>18 DEF BkTypeOK, BkUnlock
  <1>19. ASSUME NEW n \in BkToken, BkExpire(n) PROVE BkTypeOK'
    BY <1>19 DEF BkTypeOK, BkExpire
  <1>20. ASSUME EvictExpired PROVE BkTypeOK'
    <2>1. CacheOK' /\ \A x \in Caller : got'[x].tok = got[x].tok
      <3>1. Drop({j \in Cached : ~Live(j)}) /\ ({j \in Cached : ~Live(j)}) \in SUBSET Key
        BY <1>20, <1>a DEF EvictExpired
      <3> QED BY <3>1, <1>a, DropType
    <2> QED BY <1>20, <2>1 DEF BkTypeOK, CacheOK, EvictExpired
  <1>21. CASE UNCHANGED bkVars
    BY <1>21 DEF BkTypeOK, bkVars
  <1> QED
    BY <1>1, <1>2, <1>3, <1>4, <1>5, <1>6, <1>7, <1>8, <1>9, <1>10, <1>11, <1>12,
       <1>13, <1>14, <1>15, <1>16, <1>17, <1>18, <1>19, <1>20, <1>21 DEF BkNext

\* Type correctness of the cache and of every call in progress.
THEOREM BrokerTypeCorrect == BkSpec => []BkTypeOK
  BY BkInitType, BkNextType, PTL DEF BkSpec

-----------------------------------------------------------------------------
\* Bytes in the hands of callers

\* Nobody shares an entry, so that zeroing entries zeroes no result.
LEMMA ZeroEntriesIntact ==
    ASSUME BkTypeOK, IntactInv, NEW ks \in SUBSET Key, ZeroEntries(ks)
    PROVE  \A t \in Caller : ~got'[t].zeroed
  BY DEF BkTypeOK, IntactInv, ZeroEntries

\* Removing entries keeps IntactInv.
LEMMA DropIntact ==
    ASSUME BkTypeOK, IntactInv, NEW ks \in SUBSET Key, Drop(ks)
    PROVE  IntactInv'
  <1>1. \A t \in Caller : ~got'[t].zeroed
    BY ZeroEntriesIntact DEF Drop
  <1>2. \A k \in Key : cache'[k].shared = {} /\ ~cache'[k].zeroed
    BY DEF Drop, IntactInv, NoEntry
  <1> QED BY <1>1, <1>2 DEF IntactInv

\* Every step keeps the bytes of entries and results apart.
LEMMA NextIntact == BkTypeOK /\ IntactInv /\ [BkNext]_bkVars => IntactInv'
  <1> SUFFICES ASSUME BkTypeOK, IntactInv, [BkNext]_bkVars PROVE IntactInv'
    OBVIOUS
  <1> USE KeyAssumption
  <1>a. Cached \subseteq Key
    BY DEF Cached
  <1>1. ASSUME NEW t \in Caller, NEW k \in Key, Begin(t, k) PROVE IntactInv'
    BY <1>1 DEF BkTypeOK, IntactInv, Begin, BkGoto
  <1>2. ASSUME NEW t \in Caller, Hit(t) PROVE IntactInv'
    <2>1. key[t] \in Key /\ cache[key[t]] \in Entry
      BY <1>2 DEF Hit, Live, Cached, BkTypeOK
    <2>2. \A j \in Key : cache'[j].shared = cache[j].shared /\ cache'[j].zeroed = cache[j].zeroed
      BY <1>2, <2>1 DEF Hit, SharedOnGet, BkTypeOK, Entry, IntactInv
    <2>3. \A x \in Caller : ~got'[x].zeroed
      BY <1>2, <2>1 DEF Hit, BkTypeOK, IntactInv
    <2> QED BY <2>2, <2>3 DEF IntactInv
  <1>3. ASSUME NEW t \in Caller, HitExpired(t) PROVE IntactInv'
    BY <1>3 DEF BkTypeOK, IntactInv, HitExpired, BkGoto
  <1>4. ASSUME NEW t \in Caller, DeleteStale(t) PROVE IntactInv'
    <2>1. Drop({key[t]} \cap Cached) /\ ({key[t]} \cap Cached) \in SUBSET Key
      BY <1>4, <1>a DEF DeleteStale
    <2> QED BY <2>1, DropIntact
  <1>5. ASSUME NEW t \in Caller, Miss(t) PROVE IntactInv'
    BY <1>5 DEF BkTypeOK, IntactInv, Miss, BkGoto
  <1>6. ASSUME NEW t \in Caller, Issue(t) PROVE IntactInv'
    BY <1>6 DEF BkTypeOK, IntactInv, Issue, BkGoto
  <1>7. ASSUME NEW t \in Caller, Set(t) PROVE IntactInv'
    <2> DEFINE new == [tok |-> got[t].tok, at |-> Stamp(t), zeroed |-> got[t].zeroed,
                       shared |-> SharedOnSet(t)]
    <2>1. new.shared = {} /\ ~new.zeroed
      BY DEF SharedOnSet, IntactInv
    <2> HIDE DEF new
    <2>2. PICK out \in SUBSET Key :
             /\ cache' = [j \in Key |-> IF j = key[t] THEN new ELSE IF j \in out THEN NoEntry ELSE cache[j]]
             /\ ZeroEntries(out)
      BY <1>7, <1>a DEF Set, Oldest, new
    <2>3. \A j \in Key : cache'[j].shared = {} /\ ~cache'[j].zeroed
      BY <2>1, <2>2 DEF IntactInv, NoEntry
    <2>4. \A x \in Caller : ~got'[x].zeroed
      BY <2>2, ZeroEntriesIntact
    <2> QED BY <2>3, <2>4 DEF IntactInv
  <1>8. ASSUME NEW t \in Caller, Emit(t) PROVE IntactInv'
    BY <1>8 DEF BkTypeOK, IntactInv, Emit, BkGoto
  <1>9. ASSUME NEW t \in Caller, Fail(t) PROVE IntactInv'
    BY <1>9 DEF BkTypeOK, IntactInv, NoResult, Fail, BkGoto, ZeroResult, BkReturn
  <1>10. ASSUME NEW t \in Caller, BkDone(t) PROVE IntactInv'
    BY <1>10 DEF BkTypeOK, IntactInv, NoResult, BkDone, BkGoto, ZeroResult, BkReturn
  <1>11. ASSUME NEW t \in Caller, NEW a \in Actors, RevokeAll(t, a) PROVE IntactInv'
    BY <1>11 DEF BkTypeOK, IntactInv, RevokeAll, BkGoto
  <1>12. ASSUME NEW t \in Caller, NEW k \in Key, RevokeNext(t, k) PROVE IntactInv'
    <2>1. CASE Live(k)
      <3>1. Drop({k})
        BY <1>12, <2>1 DEF RevokeNext
      <3> QED BY <3>1, DropIntact
    <2>2. CASE ~Live(k)
      BY <1>12, <2>2 DEF IntactInv, RevokeNext
    <2> QED BY <2>1, <2>2
  <1>13. ASSUME NEW t \in Caller, RevokeAllReturn(t) PROVE IntactInv'
    BY <1>13 DEF BkTypeOK, IntactInv, RevokeAllReturn, BkGoto
  <1>14. ASSUME NEW s \in Sessions, Revoke(s) PROVE IntactInv'
    <2>1. Drop(s \cap Cached) /\ (s \cap Cached) \in SUBSET Key
      BY <1>14, <1>a DEF Revoke
    <2> QED BY <2>1, DropIntact
  <1>15. ASSUME NEW k \in Key, RevokeToken(k) PROVE IntactInv'
    <2>1. Drop({k}) /\ ({k}) \in SUBSET Key
      BY <1>15, <1>a DEF RevokeToken
    <2> QED BY <2>1, DropIntact
  <1>16. ASSUME LockFlag PROVE IntactInv'
    BY <1>16 DEF BkTypeOK, IntactInv, LockFlag
  <1>17. ASSUME Flush PROVE IntactInv'
    <2>1. Drop(Cached) /\ (Cached) \in SUBSET Key
      BY <1>17, <1>a DEF Flush
    <2> QED BY <2>1, DropIntact
  <1>18. ASSUME BkUnlock PROVE IntactInv'
    BY <1>18 DEF BkTypeOK, IntactInv, BkUnlock
  <1>19. ASSUME NEW n \in BkToken, BkExpire(n) PROVE IntactInv'
    BY <1>19 DEF BkTypeOK, IntactInv, BkExpire
  <1>20. ASSUME EvictExpired PROVE IntactInv'
    <2>1. Drop({j \in Cached : ~Live(j)}) /\ ({j \in Cached : ~Live(j)}) \in SUBSET Key
      BY <1>20, <1>a DEF EvictExpired
    <2> QED BY <2>1, DropIntact
  <1>21. CASE UNCHANGED bkVars
    BY <1>21 DEF IntactInv, bkVars
  <1> QED
    BY <1>1, <1>2, <1>3, <1>4, <1>5, <1>6, <1>7, <1>8, <1>9, <1>10, <1>11, <1>12,
       <1>13, <1>14, <1>15, <1>16, <1>17, <1>18, <1>19, <1>20, <1>21 DEF BkNext

\* No caller's token is zeroed under it: get and set copy the bytes.
THEOREM ResultsStayIntact == BkSpec => []ServedIntact
  <1>1. BkInit => IntactInv
    BY DEF BkInit, IntactInv, NoEntry, NoResult
  <1>2. IntactInv => ServedIntact
    BY DEF IntactInv, ServedIntact
  <1> QED BY <1>1, <1>2, BkInitType, BkNextType, NextIntact, PTL DEF BkSpec

-----------------------------------------------------------------------------
\* Revocation

\* A step that neither revokes nor hands a token on keeps FreshInv.
LEMMA QuietFresh ==
    ASSUME BkTypeOK, FreshInv,
           \A k \in Key : cache'[k].tok \in {0, cache[k].tok},
           \A t \in Caller : got'[t].tok = got[t].tok,
           UNCHANGED <<minted, bkPc, key, cut, since>>
    PROVE  FreshInv'
  <1>1. \A k \in Key : 0 \notin cut[k]
    BY DEF FreshInv, BkTypeOK
  <1> QED BY <1>1 DEF FreshInv

\* Removing entries only empties them, and hands nothing on.
LEMMA DropTokens ==
    ASSUME BkTypeOK, NEW ks \in SUBSET Key, Drop(ks)
    PROVE  /\ \A k \in Key : cache'[k].tok \in {0, cache[k].tok} /\ (k \in ks => cache'[k].tok = 0)
           /\ \A t \in Caller : got'[t].tok = got[t].tok
  <1>1. CacheOK
    BY DEF BkTypeOK, CacheOK
  <1>2. \A t \in Caller : got'[t].tok = got[t].tok
    BY <1>1, DropType
  <1>3. \A k \in Key : cache'[k] = IF k \in ks THEN NoEntry ELSE cache[k]
    BY DEF Drop
  <1> QED BY <1>2, <1>3 DEF NoEntry

\* A revocation of ks that empties the entries of ks keeps FreshInv: what was
\* ruled out before stays ruled out, because it is not on its way any more.
LEMMA RevokedFresh ==
    ASSUME BkTypeOK, FreshInv, NEW ks \in SUBSET Key, Revoked(ks),
           \A k \in Key : cache'[k].tok \in {0, cache[k].tok} /\ (k \in ks => cache'[k].tok = 0),
           \A t \in Caller : got'[t].tok = got[t].tok,
           UNCHANGED <<minted, bkPc, key, since>>
    PROVE  FreshInv'
  <1>0. minted \in Nat
    BY BoundAssumption DEF BkTypeOK
  <1>1. \A k \in Key : cut'[k] = IF k \in ks THEN 1..minted \ OnTheWay(k) ELSE cut[k]
    BY DEF Revoked
  <1>2. \A k \in Key : cut[k] \cap OnTheWay(k) = {}
    BY DEF OnTheWay, FreshInv
  <1>3. ASSUME NEW k \in Key
        PROVE  /\ cut[k] \subseteq cut'[k]
               /\ cut'[k] \subseteq 1..minted /\ cache'[k].tok \notin cut'[k]
    <2>1. cut[k] \subseteq 1..minted /\ cache[k].tok \notin cut[k] /\ 0 \notin 1..minted
      BY <1>0 DEF FreshInv
    <2>2. CASE k \in ks
      <3>1. cut'[k] = 1..minted \ OnTheWay(k) /\ cache'[k].tok = 0
        BY <1>1, <2>2
      <3> QED BY <3>1, <2>1, <1>2, Zenon
    <2>3. CASE k \notin ks
      <3>1. cut'[k] = cut[k]
        BY <1>1, <2>3
      <3>2. 0 \notin cut[k]
        BY <2>1
      <3> QED BY <3>1, <3>2, <2>1
    <2> QED BY <2>2, <2>3
  <1>4. \A k \in Key : cut'[k] \subseteq 1..minted' /\ cache'[k].tok \notin cut'[k]
    BY <1>3
  <1>5. ASSUME NEW t \in Caller, bkPc[t] = "set" PROVE got[t].tok \notin cut'[key[t]]
    <2>1. key[t] \in Key /\ got[t].tok \in OnTheWay(key[t]) /\ got[t].tok \notin cut[key[t]]
      BY <1>5 DEF OnTheWay, FreshInv
    <2> QED BY <2>1, <1>1
  <1>6. ASSUME NEW t \in Caller, bkPc[t] \notin {"idle", "revoke"}
        PROVE  key[t] \in Key /\ since[t] \subseteq cut'[key[t]]
    BY <1>6, <1>3 DEF FreshInv
  <1> QED BY <1>4, <1>5, <1>6 DEF FreshInv

\* Every step keeps FreshInv.
LEMMA NextFresh == BkTypeOK /\ FreshInv /\ [BkNext]_bkVars => FreshInv'
  <1> SUFFICES ASSUME BkTypeOK, FreshInv, [BkNext]_bkVars PROVE FreshInv'
    OBVIOUS
  <1> USE KeyAssumption, BoundAssumption
  <1>a. Cached \subseteq Key /\ CacheOK /\ minted \in Nat
    BY DEF Cached, BkTypeOK, CacheOK
  <1>b. bkPc \in [Caller -> BkPC] /\ key \in [Caller -> Key \cup {NoKey}]
        /\ since \in [Caller -> SUBSET BkToken] /\ got \in [Caller -> Result]
    BY DEF BkTypeOK
  <1>c. \A k \in Key : 0 \notin cut[k]
    BY <1>a DEF FreshInv
  <1>1. ASSUME NEW t \in Caller, NEW k \in Key, Begin(t, k) PROVE FreshInv'
    BY <1>1, <1>b DEF FreshInv, Begin, BkGoto
  <1>2. ASSUME NEW t \in Caller, Hit(t) PROVE FreshInv'
    <2>1. key[t] \in Key /\ cache[key[t]].tok \notin since[t]
      BY <1>2 DEF Hit, FreshInv
    <2>2. \A j \in Key : cache'[j].tok = cache[j].tok
      BY <1>2, <2>1 DEF Hit, BkTypeOK, Entry
    <2>3. got'[t].tok = cache[key[t]].tok /\ \A x \in Caller \ {t} : got'[x] = got[x]
      BY <1>2, <1>b DEF Hit
    <2>4. bkPc' = [bkPc EXCEPT ![t] = "emit"] /\ UNCHANGED <<minted, key, cut, since>>
      BY <1>2 DEF Hit, BkGoto
    <2> QED BY <2>1, <2>2, <2>3, <2>4, <1>b, <1>2 DEF FreshInv, Hit
  <1>3. ASSUME NEW t \in Caller, HitExpired(t) PROVE FreshInv'
    BY <1>3, <1>b DEF FreshInv, HitExpired, BkGoto
  <1>4. ASSUME NEW t \in Caller, DeleteStale(t) PROVE FreshInv'
    <2>1. /\ \A k \in Key : cache'[k].tok \in {0, cache[k].tok}
          /\ \A x \in Caller : got'[x].tok = got[x].tok
      BY <1>4, <1>a, DropTokens DEF DeleteStale
    <2>2. bkPc' = [bkPc EXCEPT ![t] = "exchange"] /\ bkPc[t] = "stale" /\ UNCHANGED <<minted, key, cut, since>>
      BY <1>4 DEF DeleteStale, BkGoto
    <2> QED BY <2>1, <2>2, <1>b, <1>c DEF FreshInv
  <1>5. ASSUME NEW t \in Caller, Miss(t) PROVE FreshInv'
    BY <1>5, <1>b DEF FreshInv, Miss, BkGoto
  <1>6. ASSUME NEW t \in Caller, Issue(t) PROVE FreshInv'
    <2>1. /\ got'[t].tok = minted + 1 /\ \A x \in Caller \ {t} : got'[x] = got[x]
          /\ minted' = minted + 1 /\ bkPc' = [bkPc EXCEPT ![t] = "set"] /\ bkPc[t] = "exchange"
          /\ UNCHANGED <<cache, key, cut, since>>
      BY <1>6, <1>b DEF Issue, BkGoto
    <2>2. \A k \in Key : minted + 1 \notin cut[k] /\ cut[k] \subseteq 1..(minted + 1)
      BY <1>a DEF FreshInv
    <2> QED BY <2>1, <2>2, <1>b DEF FreshInv
  <1>7. ASSUME NEW t \in Caller, Set(t) PROVE FreshInv'
    <2>1. key[t] \in Key /\ got[t].tok \notin cut[key[t]] /\ since[t] \subseteq cut[key[t]]
      BY <1>7 DEF Set, FreshInv
    <2>2. PICK out \in SUBSET Key :
             /\ cache' = [j \in Key |-> IF j = key[t]
                             THEN [tok |-> got[t].tok, at |-> Stamp(t), zeroed |-> got[t].zeroed,
                                   shared |-> SharedOnSet(t)]
                             ELSE IF j \in out THEN NoEntry ELSE cache[j]]
             /\ ZeroEntries(out)
      BY <1>7, <1>a DEF Set, Oldest
    <2>3. \A x \in Caller : got'[x].tok = got[x].tok
      BY <2>2, <1>a, ZeroEntriesType
    <2>4. \A j \in Key : cache'[j].tok \notin cut[j]
      BY <2>1, <2>2, <1>c DEF FreshInv, NoEntry
    <2>5. bkPc' = [bkPc EXCEPT ![t] = "emit"] /\ UNCHANGED <<minted, key, cut, since>> /\ bkPc[t] = "set"
      BY <1>7 DEF Set, BkGoto
    <2> QED BY <2>1, <2>3, <2>4, <2>5, <1>b DEF FreshInv
  <1>8. ASSUME NEW t \in Caller, Emit(t) PROVE FreshInv'
    BY <1>8, <1>b DEF FreshInv, Emit, BkGoto
  <1>9. ASSUME NEW t \in Caller, BkReturn(t), ZeroResult(t), UNCHANGED <<minted, cut>> PROVE FreshInv'
    <2>1. \A k \in Key : cache'[k].tok = cache[k].tok
      BY <1>9, <1>a, ZeroResultType
    <2>2. \A x \in Caller \ {t} : got'[x] = got[x] /\ key'[x] = key[x] /\ since'[x] = since[x] /\ bkPc'[x] = bkPc[x]
      BY <1>9, <1>b DEF BkReturn, BkGoto
    <2>3. bkPc'[t] = "idle"
      BY <1>9, <1>b DEF BkReturn, BkGoto
    <2> QED BY <1>9, <2>1, <2>2, <2>3 DEF FreshInv
  <1>10. ASSUME NEW t \in Caller, Fail(t) \/ BkDone(t) PROVE FreshInv'
    BY <1>9, <1>10 DEF Fail, BkDone
  <1>11. ASSUME NEW t \in Caller, NEW a \in Actors, RevokeAll(t, a) PROVE FreshInv'
    BY <1>11, <1>b DEF FreshInv, RevokeAll, BkGoto
  <1>12. ASSUME NEW t \in Caller, NEW k \in Key, RevokeNext(t, k) PROVE FreshInv'
    <2>1. CASE Live(k)
      <3>1. Drop({k}) /\ Revoked({k}) /\ UNCHANGED <<minted, bkPc, key, since>>
        BY <1>12, <2>1 DEF RevokeNext
      <3> QED BY <3>1, DropTokens, RevokedFresh
    <2>2. CASE ~Live(k)
      BY <1>12, <2>2 DEF FreshInv, RevokeNext
    <2> QED BY <2>1, <2>2
  <1>13. ASSUME NEW t \in Caller, RevokeAllReturn(t) PROVE FreshInv'
    BY <1>13, <1>b DEF FreshInv, RevokeAllReturn, BkGoto
  <1>14. ASSUME NEW ks \in SUBSET Key, Drop(ks \cap Cached), Revoked(ks),
                UNCHANGED <<minted, bkPc, key, since>>
         PROVE  FreshInv'
    <2>1. /\ \A k \in Key : /\ cache'[k].tok \in {0, cache[k].tok}
                            /\ k \in ks \cap Cached => cache'[k].tok = 0
          /\ \A t \in Caller : got'[t].tok = got[t].tok
      BY <1>14, <1>a, DropTokens
    <2>2. \A k \in Key : k \in ks => cache'[k].tok = 0
      BY <2>1 DEF Cached
    <2> QED BY <1>14, <2>1, <2>2, RevokedFresh
  <1>15. ASSUME NEW s \in Sessions, Revoke(s) PROVE FreshInv'
    BY <1>14, <1>15 DEF Revoke
  <1>16. ASSUME NEW k \in Key, RevokeToken(k) PROVE FreshInv'
    <2>1. {k} \cap Cached = {k}
      BY <1>16 DEF RevokeToken, Live
    <2> QED BY <1>14, <1>16, <2>1 DEF RevokeToken
  <1>17. ASSUME Flush PROVE FreshInv'
    <2>1. Key \cap Cached = Cached
      BY <1>a
    <2> QED BY <1>14, <1>17, <2>1 DEF Flush
  <1>18. ASSUME LockFlag \/ BkUnlock \/ \E n \in BkToken : BkExpire(n) PROVE FreshInv'
    BY <1>18 DEF FreshInv, LockFlag, BkUnlock, BkExpire
  <1>19. ASSUME EvictExpired PROVE FreshInv'
    <2>1. {j \in Cached : ~Live(j)} \in SUBSET Key /\ Drop({j \in Cached : ~Live(j)})
      BY <1>19, <1>a DEF EvictExpired
    <2>2. /\ \A k \in Key : cache'[k].tok \in {0, cache[k].tok}
          /\ \A t \in Caller : got'[t].tok = got[t].tok
      BY <2>1, DropTokens
    <2> QED BY <1>19, <2>2, QuietFresh DEF EvictExpired
  <1>20. CASE UNCHANGED bkVars
    BY <1>20 DEF FreshInv, bkVars
  <1> QED
    BY <1>1, <1>2, <1>3, <1>4, <1>5, <1>6, <1>7, <1>8, <1>10, <1>11, <1>12, <1>13,
       <1>15, <1>16, <1>17, <1>18, <1>19, <1>20 DEF BkNext

\* No Exchange that begins after a revocation or a lock is served a token that
\* was cached before it.
THEOREM BrokerRevocationHolds == BkSpec => []FreshAfterRevoke
  <1>1. BkInit => FreshInv
    BY DEF BkInit, FreshInv, NoEntry
  <1>2. FreshInv => FreshAfterRevoke
    BY DEF FreshInv, FreshAfterRevoke
  <1> QED BY <1>1, <1>2, BkInitType, BkNextType, NextFresh, PTL DEF BkSpec

-----------------------------------------------------------------------------
\* The size of the cache

BoundInv == IsFiniteSet(Cached) /\ CacheBounded

\* A step that inserts no key keeps the bound.
LEMMA ShrinkBound ==
    ASSUME BoundInv, Cached' \subseteq Cached
    PROVE  BoundInv'
  <1>1. /\ IsFiniteSet(Cached') /\ Cardinality(Cached') <= Cardinality(Cached)
        /\ Cardinality(Cached) \in Nat /\ Cardinality(Cached') \in Nat
    BY FS_Subset, FS_CardinalityType DEF BoundInv
  <1> QED BY <1>1, BoundAssumption DEF BoundInv, CacheBounded

\* Removing entries inserts no key.
LEMMA DropShrinks ==
    ASSUME NEW ks, Drop(ks)
    PROVE  Cached' \subseteq Cached
  BY DEF Drop, Cached, NoEntry

\* Every step keeps the bound; the interesting one is Set.
LEMMA NextBound == BkTypeOK /\ BoundInv /\ [BkNext]_bkVars => BoundInv'
  <1> SUFFICES ASSUME BkTypeOK, BoundInv, [BkNext]_bkVars PROVE BoundInv'
    OBVIOUS
  <1>a. CacheOK
    BY DEF BkTypeOK, CacheOK
  <1>1. ASSUME NEW t \in Caller, NEW k \in Key, Begin(t, k) PROVE Cached' \subseteq Cached
    BY <1>1 DEF Cached, Begin
  <1>2. ASSUME NEW t \in Caller, Hit(t) PROVE Cached' \subseteq Cached
    BY <1>2 DEF Hit, Cached, BkTypeOK, Entry
  <1>3. ASSUME NEW t \in Caller, HitExpired(t) PROVE Cached' \subseteq Cached
    BY <1>3 DEF Cached, HitExpired
  <1>4. ASSUME NEW t \in Caller, DeleteStale(t) PROVE Cached' \subseteq Cached
    BY <1>4, DropShrinks DEF DeleteStale
  <1>5. ASSUME NEW t \in Caller, Miss(t) PROVE Cached' \subseteq Cached
    BY <1>5 DEF Cached, Miss
  <1>6. ASSUME NEW t \in Caller, Issue(t) PROVE Cached' \subseteq Cached
    BY <1>6 DEF Cached, Issue
  <1>7. ASSUME NEW t \in Caller, Set(t) PROVE BoundInv'
    <2> DEFINE c == key[t]
    <2> DEFINE New(out) == /\ Cached' \subseteq (Cached \ out) \cup {c}
    <2>a. \A out : (cache' = [j \in Key |-> IF j = c THEN [tok |-> got[t].tok, at |-> Stamp(t),
                                    zeroed |-> got[t].zeroed, shared |-> SharedOnSet(t)]
                                 ELSE IF j \in out THEN NoEntry ELSE cache[j]]) => New(out)
      BY DEF Cached, NoEntry
    <2>b. /\ IsFiniteSet(Cached) /\ Cardinality(Cached) \in Nat /\ Cardinality(Cached) <= MaxEntries
      BY FS_CardinalityType DEF BoundInv, CacheBounded
    <2>1. CASE c \in Cached
      <3>1. New({c})
        BY <1>7, <2>1, <2>a DEF Set
      <3>2. Cached' \subseteq Cached
        BY <3>1, <2>1
      <3> QED BY <3>2, ShrinkBound
    <2>2. CASE c \notin Cached /\ Full
      <3>1. PICK x \in Oldest : New({x})
        BY <1>7, <2>2, <2>a DEF Set
      <3>2. x \in Cached
        BY DEF Oldest
      <3> DEFINE R == Cached \ {x}
      <3>3. IsFiniteSet(R) /\ Cardinality(R) = Cardinality(Cached) - 1 /\ c \notin R
        BY <2>b, <2>2, <3>2, FS_RemoveElement
      <3>4. IsFiniteSet(R \cup {c}) /\ Cardinality(R \cup {c}) = Cardinality(R) + 1
        <4> HIDE DEF R
        <4> QED BY <3>3, FS_AddElement
      <3>5. IsFiniteSet(Cached') /\ Cardinality(Cached') <= Cardinality(R \cup {c})
        BY <3>1, <3>4, FS_Subset
      <3>6. Cardinality(Cached') \in Nat
        BY <3>5, FS_CardinalityType
      <3> QED BY <2>b, <3>3, <3>4, <3>5, <3>6, BoundAssumption DEF BoundInv, CacheBounded
    <2>3. CASE c \notin Cached /\ ~Full
      <3>1. New({})
        BY <1>7, <2>3, <2>a DEF Set
      <3>2. IsFiniteSet(Cached \cup {c}) /\ Cardinality(Cached \cup {c}) = Cardinality(Cached) + 1
        BY <2>b, <2>3, FS_AddElement
      <3>3. IsFiniteSet(Cached') /\ Cardinality(Cached') <= Cardinality(Cached \cup {c})
        BY <3>1, <3>2, FS_Subset
      <3>4. Cardinality(Cached') \in Nat
        BY <3>3, FS_CardinalityType
      <3> QED BY <2>b, <2>3, <3>2, <3>3, <3>4, BoundAssumption DEF BoundInv, CacheBounded, Full
    <2> QED BY <2>1, <2>2, <2>3
  <1>8. ASSUME NEW t \in Caller, Emit(t) PROVE Cached' \subseteq Cached
    BY <1>8 DEF Cached, Emit
  <1>9. ASSUME NEW t \in Caller, Fail(t) PROVE Cached' \subseteq Cached
    BY <1>9, <1>a, ZeroResultType DEF Fail, Cached
  <1>10. ASSUME NEW t \in Caller, BkDone(t) PROVE Cached' \subseteq Cached
    BY <1>10, <1>a, ZeroResultType DEF BkDone, Cached
  <1>11. ASSUME NEW t \in Caller, NEW a \in Actors, RevokeAll(t, a) PROVE Cached' \subseteq Cached
    BY <1>11 DEF Cached, RevokeAll
  <1>12. ASSUME NEW t \in Caller, NEW k \in Key, RevokeNext(t, k) PROVE Cached' \subseteq Cached
    BY <1>12, DropShrinks DEF RevokeNext, Cached
  <1>13. ASSUME NEW t \in Caller, RevokeAllReturn(t) PROVE Cached' \subseteq Cached
    BY <1>13 DEF Cached, RevokeAllReturn
  <1>14. ASSUME NEW s \in Sessions, Revoke(s) PROVE Cached' \subseteq Cached
    BY <1>14, DropShrinks DEF Revoke
  <1>15. ASSUME NEW k \in Key, RevokeToken(k) PROVE Cached' \subseteq Cached
    BY <1>15, DropShrinks DEF RevokeToken
  <1>16. ASSUME LockFlag PROVE Cached' \subseteq Cached
    BY <1>16 DEF Cached, LockFlag
  <1>17. ASSUME Flush PROVE Cached' \subseteq Cached
    BY <1>17, DropShrinks DEF Flush
  <1>18. ASSUME BkUnlock PROVE Cached' \subseteq Cached
    BY <1>18 DEF Cached, BkUnlock
  <1>19. ASSUME NEW n \in BkToken, BkExpire(n) PROVE Cached' \subseteq Cached
    BY <1>19 DEF Cached, BkExpire
  <1>20. ASSUME EvictExpired PROVE Cached' \subseteq Cached
    BY <1>20, DropShrinks DEF EvictExpired
  <1>21. CASE UNCHANGED bkVars
    BY <1>21, ShrinkBound DEF bkVars, Cached
  <1> QED
    BY <1>1, <1>2, <1>3, <1>4, <1>5, <1>6, <1>7, <1>8, <1>9, <1>10, <1>11, <1>12,
       <1>13, <1>14, <1>15, <1>16, <1>17, <1>18, <1>19, <1>20, <1>21, ShrinkBound DEF BkNext

\* The cache keeps its bound, whatever exchanges overlap with evictions,
\* revocations and flushes.
THEOREM CacheKeepsBound == BkSpec => []CacheBounded
  <1>1. BkInit => BoundInv
    <2>1. BkInit => Cached = {}
      BY DEF BkInit, Cached, NoEntry
    <2> QED BY <2>1, FS_EmptySet, BoundAssumption DEF BoundInv, CacheBounded
  <1>2. BoundInv => CacheBounded
    BY DEF BoundInv
  <1> QED BY <1>1, <1>2, BkInitType, BkNextType, NextBound, PTL DEF BkSpec

\* The cache keeps its bound, hands out bytes nobody else zeroes, and serves
\* nothing older than a revocation or a lock of the vault.
THEOREM BrokerSafe == BkSpec => []BrokerHolds
  <1>1. CacheBounded /\ ServedIntact /\ FreshAfterRevoke => BrokerHolds
    BY DEF BrokerHolds
  <1> QED BY <1>1, CacheKeepsBound, ResultsStayIntact, BrokerRevocationHolds, PTL
=============================================================================
