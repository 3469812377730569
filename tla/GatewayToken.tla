---------------------------- MODULE GatewayToken ----------------------------
(***************************************************************************)
(* The gateway tokens of keylatch (src/internal/gateway/token): the file   *)
(* tokens.json, which CLI commands, runners and the gateway share, and one *)
(* append-only use log per token with a limited number of uses.            *)
(*                                                                         *)
(* Mint and Revoke read, change and replace tokens.json under storeMu (one *)
(* per process) and an flock.  Verify reads the file without a lock and    *)
(* then, for a limited token, counts and appends under the flock of the    *)
(* token's use log.  If the flock on tokens.json cannot be had, the code   *)
(* runs without it; LockMayFail says whether that can happen.              *)
(***************************************************************************)
EXTENDS Integers, FiniteSets

CONSTANTS
    Proc,         \* processes
    Thread,       \* goroutines, each of one process
    ProcOf,       \* the process of each thread
    Token,        \* token ids (UUIDs)
    ParentOf,     \* Token.Parent, or None
    MaxUses,      \* Token.MaxUses; 0 is unlimited
    NonceOf,      \* the nonce behind Token.FDNonceHash, or None
    Nonce,        \* nonces that a request may present
    LockMayFail,  \* mkdir, open or flock of tokens.json.lock may fail
    None          \* no thread, no parent, no nonce

ASSUME ThreadAssumption == ProcOf \in [Thread -> Proc]
ASSUME TokenAssumption  == /\ ParentOf \in [Token -> Token \cup {None}]
                           /\ MaxUses \in [Token -> Nat]
                           /\ NonceOf \in [Token -> Nonce \cup {None}]
ASSUME NoneAssumption   == None \notin Thread /\ None \notin Token
ASSUME LockAssumption   == LockMayFail \in BOOLEAN

\* tokens.json: the records in it, and those with Revoked set.  The other
\* fields of a record never change.
File   == [known : SUBSET Token, revoked : SUBSET Token]
NoFile == [known |-> {}, revoked |-> {}]

PC == {"idle",
       "locking",         \* Mint, Revoke: holds storeMu, waits for the flock
       "change",          \* has read the file and changed its copy
       "written",         \* has written tokens.json.tmp
       "consume",         \* Verify: the record is good, waits for the use log
       "append",          \* holds the use log's flock, has counted
       "sync",            \* has appended a line
       "accepted"}        \* Verify returned the token

VARIABLES
    store,     \* tokens.json
    tmp,       \* tokens.json.tmp, with exists
    storeMu,   \* storeMu[p]: the thread that holds storeMu, or None
    flock,     \* the thread that holds the flock on tokens.json.lock, or None
    pc,        \* pc[th]
    op,        \* op[th]: which call th is in
    tok,       \* tok[th]: the token that th's call is about, or None
    copy,      \* copy[th]: the tokens th read, and changed
    lines,     \* lines[t]: complete lines in t's use log
    torn,      \* torn[t]: t's use log ends with a piece of a line
    logLock,   \* logLock[t]: the thread that holds the flock of t's use log, or None
    expired,   \* tokens whose ExpiresAt has passed
    ids,       \* UUIDs drawn so far
    issued,    \* tokens whose JWT Mint returned
    acked,     \* history: tokens that a Revoke which returned has covered
    late,      \* history: late[th]: th's Verify began when its token was in acked
    uses       \* history: how often Verify accepted a limited token

storeVars == <<store, tmp, storeMu, flock, copy>>
logVars   == <<lines, torn, logLock>>
callVars  == <<pc, op, tok, late>>
vars == <<storeVars, logVars, callVars, expired, ids, issued, acked, uses>>

Limited == {t \in Token : MaxUses[t] > 0}

Init ==
    /\ store   = NoFile
    /\ tmp     = [exists |-> FALSE, file |-> NoFile]
    /\ storeMu = [p \in Proc |-> None]
    /\ flock   = None
    /\ pc      = [th \in Thread |-> "idle"]
    /\ op      = [th \in Thread |-> "none"]
    /\ tok     = [th \in Thread |-> None]
    /\ copy    = [th \in Thread |-> NoFile]
    /\ lines   = [t \in Token |-> 0]
    /\ torn    = [t \in Token |-> FALSE]
    /\ logLock = [t \in Token |-> None]
    /\ expired = {} /\ ids = {} /\ issued = {} /\ acked = {}
    /\ late    = [th \in Thread |-> FALSE]
    /\ uses    = [t \in Token |-> 0]

-----------------------------------------------------------------------------
\* Where a call begins, goes on and ends

Start(th, o, t, l) ==
    /\ op'   = [op   EXCEPT ![th] = o]
    /\ tok'  = [tok  EXCEPT ![th] = t]
    /\ late' = [late EXCEPT ![th] = l]

Goto(th, l) == pc' = [pc EXCEPT ![th] = l]

Finish(th) == Goto(th, "idle") /\ Start(th, "none", None, FALSE)

-----------------------------------------------------------------------------
\* Changing tokens.json: Mint and Revoke

\* storeMu.Lock()
TakeMu(th) ==
    /\ pc[th] = "idle" /\ storeMu[ProcOf[th]] = None
    /\ storeMu' = [storeMu EXCEPT ![ProcOf[th]] = th]
    /\ Goto(th, "locking")

\* Mint up to persistToken: a fresh UUID.
BeginMint(th, t) ==
    /\ t \notin ids
    /\ TakeMu(th) /\ Start(th, "mint", t, FALSE)
    /\ ids' = ids \cup {t}
    /\ UNCHANGED <<store, tmp, flock, copy, logVars, expired, issued, acked, uses>>

BeginRevoke(th, t) ==
    /\ TakeMu(th) /\ Start(th, "revoke", t, FALSE)
    /\ UNCHANGED <<store, tmp, flock, copy, logVars, expired, ids, issued, acked, uses>>

\* withStoreLock: the flock, or, when it cannot be had, no lock.
StoreLocked(th) ==
    \/ flock = None /\ flock' = th
    \/ LockMayFail /\ flock' = flock

\* Slips: the children of a revoked token are forgotten, or the cascade runs the
\* wrong way, to the parent.
CoversOnlyItself(f, t) == {t}

\* What Revoke of t covers: t and the direct children that are in the file.
Covers(f, t) == {t} \cup {c \in f.known : ParentOf[c] = t}

\* Slip: the records are written back without their Revoked field.
MintLoadDropsFlags(th) ==
    /\ pc[th] = "locking" /\ op[th] = "mint" /\ StoreLocked(th)
    /\ copy' = [copy EXCEPT ![th] = [known |-> store.known \cup {tok[th]}, revoked |-> {}]]
    /\ Goto(th, "change")
    /\ UNCHANGED <<store, tmp, storeMu, logVars, op, tok, late, expired, ids, issued, acked, uses>>

\* persistToken: read the file and append the record.
MintLoad(th) ==
    /\ pc[th] = "locking" /\ op[th] = "mint" /\ StoreLocked(th)
    /\ copy' = [copy EXCEPT ![th] = [known   |-> store.known \cup {tok[th]},
                                     revoked |-> store.revoked]]
    /\ Goto(th, "change")
    /\ UNCHANGED <<store, tmp, storeMu, logVars, op, tok, late, expired, ids, issued, acked, uses>>

\* Revoke: read the file, mark the token and its children.
RevokeLoad(th) ==
    /\ pc[th] = "locking" /\ op[th] = "revoke" /\ StoreLocked(th)
    /\ tok[th] \in store.known
    /\ copy' = [copy EXCEPT ![th] = [known   |-> store.known,
                                     revoked |-> store.revoked \cup Covers(store, tok[th])]]
    /\ Goto(th, "change")
    /\ UNCHANGED <<store, tmp, storeMu, logVars, op, tok, late, expired, ids, issued, acked, uses>>

\* The call returns; the deferred unlocks run.
Return(th) ==
    /\ storeMu' = [storeMu EXCEPT ![ProcOf[th]] = None]
    /\ flock'   = IF flock = th THEN None ELSE flock
    /\ copy'    = [copy EXCEPT ![th] = NoFile]
    /\ Finish(th)

\* ErrTokenNotFound, or the file cannot be read or written: nothing has changed.
StoreFails(th) ==
    /\ \/ pc[th] = "locking" /\ (flock = None \/ LockMayFail)
       \/ pc[th] = "change"
    /\ Return(th)
    /\ UNCHANGED <<store, tmp, logVars, expired, ids, issued, acked, uses>>

\* writeTokens: the temporary file, one name for everybody.
WriteTmp(th) ==
    /\ pc[th] = "change"
    /\ tmp' = [exists |-> TRUE, file |-> copy[th]]
    /\ Goto(th, "written")
    /\ UNCHANGED <<store, storeMu, flock, copy, logVars, op, tok, late,
                   expired, ids, issued, acked, uses>>

\* writeTokens: the rename puts the new file in place.  Mint returns the JWT,
\* Revoke has covered its token and the children that it saw.
Rename(th) ==
    /\ pc[th] = "written" /\ tmp.exists
    /\ store' = tmp.file
    /\ tmp'   = [exists |-> FALSE, file |-> NoFile]
    /\ issued' = IF op[th] = "mint" THEN issued \cup {tok[th]} ELSE issued
    /\ acked'  = IF op[th] = "mint" THEN acked
                 ELSE acked \cup {tok[th]} \cup {c \in copy[th].known : ParentOf[c] = tok[th]}
    /\ Return(th)
    /\ UNCHANGED <<logVars, expired, ids, uses>>

\* The rename failed: the temporary file is removed, the call returns an error.
RenameFails(th) ==
    /\ pc[th] = "written"
    /\ tmp' = [exists |-> FALSE, file |-> NoFile]
    /\ Return(th)
    /\ UNCHANGED <<store, logVars, expired, ids, issued, acked, uses>>

-----------------------------------------------------------------------------
\* Verify

\* In the file, not revoked and not expired (the JWT's exp is ExpiresAt too).
Good(t) == t \in store.known \ store.revoked /\ t \notin expired

\* Verify up to the use log: signature, expiry, the record, the nonce.
Verify(th, t, n) ==
    /\ pc[th] = "idle"
    /\ t \in issued
    /\ Good(t)
    /\ NonceOf[t] \in {None, n}
    /\ Goto(th, IF t \in Limited THEN "consume" ELSE "accepted")
    /\ Start(th, "verify", t, t \in acked)
    /\ UNCHANGED <<storeVars, logVars, expired, ids, issued, acked, uses>>

\* countTokenLogLines: a torn last line counts.
Count(t) == lines[t] + (IF torn[t] THEN 1 ELSE 0)

\* Slip: one use too many.
UsesLeftOffByOne(t) == Count(t) <= MaxUses[t]

UsesLeft(t) == Count(t) < MaxUses[t]

Unlock(th) == logLock' = [logLock EXCEPT ![tok[th]] = None]

\* consumeTokenUseLog: lock the use log, count, go on if a use is left ...
ConsumeLock(th) ==
    /\ pc[th] = "consume" /\ logLock[tok[th]] = None
    /\ UsesLeft(tok[th])
    /\ logLock' = [logLock EXCEPT ![tok[th]] = th]
    /\ Goto(th, "append")
    /\ UNCHANGED <<storeVars, lines, torn, op, tok, late, expired, ids, issued, acked, uses>>

\* ... or return false: no use is left, or the log cannot be locked or read.
ConsumeRefuse(th) ==
    /\ pc[th] = "consume"
    /\ Finish(th)
    /\ UNCHANGED <<storeVars, logVars, expired, ids, issued, acked, uses>>

\* The line is appended; behind a torn line it completes that line.
AppendUse(th) ==
    /\ pc[th] = "append"
    /\ lines' = [lines EXCEPT ![tok[th]] = @ + 1]
    /\ torn'  = [torn  EXCEPT ![tok[th]] = FALSE]
    /\ Goto(th, "sync")
    /\ UNCHANGED <<storeVars, logLock, op, tok, late, expired, ids, issued, acked, uses>>

\* The write failed, perhaps after some bytes.
AppendFails(th) ==
    /\ pc[th] = "append"
    /\ \E b \in BOOLEAN : torn' = [torn EXCEPT ![tok[th]] = @ \/ b]
    /\ Unlock(th) /\ Finish(th)
    /\ UNCHANGED <<storeVars, lines, expired, ids, issued, acked, uses>>

\* fsync succeeded: the use is recorded, Verify returns the token.
Sync(th) ==
    /\ pc[th] = "sync"
    /\ uses' = [uses EXCEPT ![tok[th]] = @ + 1]
    /\ Unlock(th) /\ Goto(th, "accepted")
    /\ UNCHANGED <<storeVars, lines, torn, op, tok, late, expired, ids, issued, acked>>

\* fsync failed: the line stays, the caller is refused.
SyncFails(th) ==
    /\ pc[th] = "sync"
    /\ Unlock(th) /\ Finish(th)
    /\ UNCHANGED <<storeVars, lines, torn, expired, ids, issued, acked, uses>>

\* The caller is done with the accepted token.
Done(th) ==
    /\ pc[th] = "accepted"
    /\ Finish(th)
    /\ UNCHANGED <<storeVars, logVars, expired, ids, issued, acked, uses>>

-----------------------------------------------------------------------------
\* Time and crashes

Expire(t) ==
    /\ t \in ids \ expired
    /\ expired' = expired \cup {t}
    /\ UNCHANGED <<storeVars, logVars, callVars, ids, issued, acked, uses>>

\* The process dies: the kernel drops its flocks, its files stay as they are.
\* A line it was writing may be torn.
Crash(p) ==
    LET mine(th) == ProcOf[th] = p
        mineOrNone(th) == IF th # None /\ mine(th) THEN None ELSE th
    IN  /\ pc'   = [th \in Thread |-> IF mine(th) THEN "idle" ELSE pc[th]]
        /\ op'   = [th \in Thread |-> IF mine(th) THEN "none" ELSE op[th]]
        /\ tok'  = [th \in Thread |-> IF mine(th) THEN None ELSE tok[th]]
        /\ late' = [th \in Thread |-> IF mine(th) THEN FALSE ELSE late[th]]
        /\ copy' = [th \in Thread |-> IF mine(th) THEN NoFile ELSE copy[th]]
        /\ storeMu' = [storeMu EXCEPT ![p] = None]
        /\ flock'   = mineOrNone(flock)
        /\ logLock' = [t \in Token |-> mineOrNone(logLock[t])]
        /\ \E cut \in SUBSET {tok[th] : th \in {x \in Thread : mine(x) /\ pc[x] = "append"}} :
              torn' = [t \in Token |-> t \in cut \/ torn[t]]
        /\ UNCHANGED <<store, tmp, lines, expired, ids, issued, acked, uses>>

Next ==
    \/ \E th \in Thread :
          \/ \E t \in Token : BeginMint(th, t) \/ BeginRevoke(th, t)
          \/ MintLoad(th) \/ RevokeLoad(th) \/ StoreFails(th)
          \/ WriteTmp(th) \/ Rename(th) \/ RenameFails(th)
          \/ \E t \in Token, n \in Nonce : Verify(th, t, n)
          \/ ConsumeLock(th) \/ ConsumeRefuse(th)
          \/ AppendUse(th) \/ AppendFails(th) \/ Sync(th) \/ SyncFails(th) \/ Done(th)
    \/ \E t \in Token : Expire(t)
    \/ \E p \in Proc : Crash(p)

Spec == Init /\ [][Next]_vars

-----------------------------------------------------------------------------
\* Properties

TypeOK ==
    /\ store   \in File
    /\ tmp     \in [exists : BOOLEAN, file : File]
    /\ storeMu \in [Proc -> Thread \cup {None}]
    /\ flock   \in Thread \cup {None}
    /\ pc      \in [Thread -> PC]
    /\ op      \in [Thread -> {"none", "mint", "revoke", "verify"}]
    /\ tok     \in [Thread -> Token \cup {None}]
    /\ copy    \in [Thread -> File]
    /\ lines   \in [Token -> Nat]
    /\ torn    \in [Token -> BOOLEAN]
    /\ logLock \in [Token -> Thread \cup {None}]
    /\ expired \subseteq Token /\ ids \subseteq Token
    /\ issued \subseteq Token /\ acked \subseteq Token
    /\ late    \in [Thread -> BOOLEAN]
    /\ uses    \in [Token -> Nat]

\* A token with MaxUses > 0 is accepted at most MaxUses times, counted over all
\* goroutines and processes, with torn lines, failed fsyncs and crashes.
UsesBounded == \A t \in Limited : uses[t] <= MaxUses[t]

\* A Verify that begins after the Revoke of its token, or of its token's parent,
\* has returned never accepts the token.
NoLateAccept == \A th \in Thread : pc[th] = "accepted" => ~late[th]

\* No revocation is ever undone and no token of the file ever lost: concurrent
\* calls of Mint and Revoke do not overwrite each other's changes.
NothingLost ==
    [][store.known \subseteq store'.known /\ store.revoked \subseteq store'.revoked]_vars

\* A JWT that Mint returned has a record, so that it can be found and revoked.
IssuedKnown == issued \subseteq store.known

\* What tokens.json says is what was reported, although several processes load,
\* change and rename it: a revocation holds for every later Verify, down the
\* chain of parents, and a token that Mint handed out is in the file.
FileTrue == NoLateAccept /\ IssuedKnown

-----------------------------------------------------------------------------
\* The inductive invariants behind these properties

\* A thread inside a call knows its token and its operation.
CallInv ==
    \A th \in Thread :
        /\ pc[th] # "idle" => tok[th] \in Token
        /\ pc[th] \in {"locking", "change", "written"} => op[th] \in {"mint", "revoke"}

\* The use log.  Its flock is held by the one thread that has counted; a use is
\* recorded before it counts as accepted; the log never grows past MaxUses.
HoldsLog(th) == pc[th] \in {"append", "sync"}

UseInv ==
    /\ \A th \in Thread : pc[th] \in {"consume", "append", "sync"} => tok[th] \in Limited
    /\ \A th \in Thread : HoldsLog(th) => logLock[tok[th]] = th
    /\ \A t \in Limited :
          /\ uses[t] <= lines[t]
          /\ lines[t] <= MaxUses[t]
    /\ \A th \in Thread : pc[th] = "append" => UsesLeft(tok[th])
    /\ \A th \in Thread : pc[th] = "sync" => uses[tok[th]] < lines[tok[th]]

\* The file, as long as the flock works.  Whoever is changing the file holds it
\* and has a copy that the file has not overtaken; what was promised to callers
\* is in the file.
Changing(th) == pc[th] \in {"change", "written"}

StoreInv ==
    /\ \A th \in Thread : Changing(th) =>
          /\ flock = th
          /\ store.known \subseteq copy[th].known
          /\ store.revoked \subseteq copy[th].revoked
          /\ op[th] = "mint" => tok[th] \in copy[th].known
          /\ op[th] = "revoke" =>
                tok[th] \in copy[th].revoked
                /\ {c \in copy[th].known : ParentOf[c] = tok[th]} \subseteq copy[th].revoked
    /\ \A th \in Thread : pc[th] = "written" => tmp = [exists |-> TRUE, file |-> copy[th]]
    /\ issued \subseteq store.known
    /\ acked \subseteq store.revoked
    /\ \A th \in Thread : late[th] = FALSE
=============================================================================
