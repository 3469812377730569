------------------------------- MODULE Grants -------------------------------
(***************************************************************************)
(* Capability grants (src/internal/grant).  A human issues and revokes     *)
(* grants with CLI commands; a run that the policy denies looks for one    *)
(* with Find and spends a use of it.                                       *)
(*                                                                         *)
(* Create and Revoke read grants.json, change the copy and replace the     *)
(* file through one temporary name; they take no lock.  The uses of a      *)
(* limited grant are lines of an append-only log of its own, counted and   *)
(* appended under a flock.  Create never sets a parent, so the cascade of  *)
(* Revoke finds no children.                                               *)
(***************************************************************************)
EXTENDS Integers, FiniteSets

CONSTANTS
    GrantProc,     \* processes, each busy with one call at a time
    Writer,   \* the processes in which grants are issued and revoked
    Grant,    \* grants
    GrantUses,  \* GrantUses[g]: allowed uses, 0 for no limit
    FromLLM,  \* grants issued from an agent session
    Ask,      \* what a run asks for: actor, connection, capability, command, cwd
    Fits,     \* Fits[a]: the grants whose fields match a
    NoGrant      \* no grant, no process

ASSUME GrantProcAssumption  == Writer \subseteq GrantProc /\ FromLLM \subseteq Grant
ASSUME GrantAssumption == GrantUses \in [Grant -> Nat] /\ Fits \in [Ask -> SUBSET Grant]
ASSUME NoGrantAssumption  == NoGrant \notin Grant \cup GrantProc

GrLimited == {g \in Grant : GrantUses[g] > 0}

\* grants.json: the grants in it, and those marked as revoked.
GrFile   == [known : SUBSET Grant, revoked : SUBSET Grant]
GrNoFile == [known |-> {}, revoked |-> {}]

GrPC == {"idle",
       "change",    \* Create, Revoke: has read the file and changed its copy
       "written",   \*    has written grants.json.tmp
       "next",      \* Find: between two grants
       "append",    \*    has locked a use log and found a use left
       "sync",      \*    has appended its line
       "found"}     \*    has found a grant

VARIABLES
    gStore,    \* grants.json
    gTmp,      \* grants.json.tmp, GrNoFile where there is none
    gLines,    \* gLines[g]: complete lines of g's use log
    gTorn,     \* gTorn[g]: g's use log ends with a piece of a line
    gLogLock,  \* gLogLock[g]: who holds the flock on g's use log, or NoGrant
    gExpired,  \* grants whose time is up
    gPc,       \* gPc[p]
    gOp,       \* gOp[p]: "create", "revoke", "find" or "none"
    gr,       \* gr[p]: the grant p creates, revokes, tries or has found, or NoGrant
    gCopy,     \* gCopy[p]: p's copy of the file
    gCand,     \* gCand[p]: grants that Find has still to try
    gIds,      \* history: grants ever created; ids are random
    gAcked,    \* history: grants whose Revoke has returned
    gLate,     \* history: gLate[p]: acked when p's Find began
    gUses      \* history: gUses[g]: how often Find returned the limited grant g

grStoreVars == <<gStore, gTmp>>
grLogVars   == <<gLines, gTorn, gLogLock>>
grCallVars  == <<gPc, gOp, gr, gCopy, gCand, gLate>>
grVars == <<grStoreVars, grLogVars, gExpired, grCallVars, gIds, gAcked, gUses>>

GrInit ==
    /\ gStore = GrNoFile /\ gTmp = GrNoFile
    /\ gLines = [g \in Grant |-> 0] /\ gTorn = [g \in Grant |-> FALSE]
    /\ gLogLock = [g \in Grant |-> NoGrant] /\ gExpired = {}
    /\ gPc = [p \in GrantProc |-> "idle"] /\ gOp = [p \in GrantProc |-> "none"]
    /\ gr = [p \in GrantProc |-> NoGrant] /\ gCopy = [p \in GrantProc |-> GrNoFile]
    /\ gCand = [p \in GrantProc |-> {}] /\ gLate = [p \in GrantProc |-> {}]
    /\ gIds = {} /\ gAcked = {} /\ gUses = [g \in Grant |-> 0]

\* The call of p ends.
GrReturn(p) ==
    /\ gPc'     = [gPc     EXCEPT ![p] = "idle"]
    /\ gOp'     = [gOp     EXCEPT ![p] = "none"]
    /\ gr'     = [gr     EXCEPT ![p] = NoGrant]
    /\ gCopy'   = [gCopy   EXCEPT ![p] = GrNoFile]
    /\ gCand'   = [gCand   EXCEPT ![p] = {}]
    /\ gLate'   = [gLate   EXCEPT ![p] = {}]

-----------------------------------------------------------------------------
\* Create and Revoke

\* p has read the file and is about to write c.
Change(p, o, g, c) ==
    /\ gPc'   = [gPc   EXCEPT ![p] = "change"]
    /\ gOp'   = [gOp   EXCEPT ![p] = o]
    /\ gr'   = [gr   EXCEPT ![p] = g]
    /\ gCopy' = [gCopy EXCEPT ![p] = c]
    /\ UNCHANGED <<grStoreVars, grLogVars, gExpired, gCand, gLate, gAcked, gUses>>

\* Create up to the write: a fresh id, appended to what the file holds.
CreateLoad(p, g) ==
    /\ p \in Writer /\ gPc[p] = "idle" /\ g \notin gIds
    /\ gIds' = gIds \cup {g}
    /\ Change(p, "create", g, [gStore EXCEPT !.known = @ \cup {g}])

\* Revoke up to the write; an unknown id is an error and changes nothing.
GrRevokeLoad(p, g) ==
    /\ p \in Writer /\ gPc[p] = "idle" /\ g \in gStore.known
    /\ Change(p, "revoke", g, [gStore EXCEPT !.revoked = @ \cup {g}])
    /\ UNCHANGED gIds

\* writeGrants: first the temporary file ...
GrWriteTmp(p) ==
    /\ gPc[p] = "change"
    /\ gTmp' = gCopy[p]
    /\ gPc'  = [gPc EXCEPT ![p] = "written"]
    /\ UNCHANGED <<gStore, grLogVars, gExpired, gOp, gr, gCopy, gCand, gLate, gIds, gAcked, gUses>>

\* ... then the rename, of whatever the temporary name now holds.
GrRename(p) ==
    /\ gPc[p] = "written" /\ gTmp # GrNoFile
    /\ gStore' = gTmp
    /\ gTmp'   = GrNoFile
    /\ gAcked' = IF gOp[p] = "revoke" THEN gAcked \cup {gr[p]} ELSE gAcked
    /\ GrReturn(p)
    /\ UNCHANGED <<grLogVars, gExpired, gIds, gUses>>

\* The write or the rename fails; a failed rename removes the temporary file.
WriteFails(p) ==
    /\ gPc[p] \in {"change", "written"}
    /\ gTmp' = IF gPc[p] = "written" THEN GrNoFile ELSE gTmp
    /\ GrReturn(p)
    /\ UNCHANGED <<gStore, grLogVars, gExpired, gIds, gAcked, gUses>>

-----------------------------------------------------------------------------
\* Find

\* Slip: the revoked flag is not looked at.
UsableRevokedToo(g, a) ==
    g \in gStore.known /\ g \notin gExpired \cup FromLLM /\ g \in Fits[a]

\* A grant of the file that Find does not skip.
Usable(g, a) ==
    /\ g \in gStore.known \ gStore.revoked
    /\ g \notin gExpired \cup FromLLM
    /\ g \in Fits[a]

\* Find reads the file and the clock once.
FindRead(p, a) ==
    /\ gPc[p] = "idle"
    /\ gPc'   = [gPc   EXCEPT ![p] = "next"]
    /\ gOp'   = [gOp   EXCEPT ![p] = "find"]
    /\ gCand' = [gCand EXCEPT ![p] = {g \in Grant : Usable(g, a)}]
    /\ gLate' = [gLate EXCEPT ![p] = gAcked]
    /\ UNCHANGED <<grStoreVars, grLogVars, gExpired, gr, gCopy, gIds, gAcked, gUses>>

\* p goes on with the rest of its candidates.
Skip(p, g) ==
    /\ gPc'   = [gPc   EXCEPT ![p] = "next"]
    /\ gr'   = [gr   EXCEPT ![p] = NoGrant]
    /\ gCand' = [gCand EXCEPT ![p] = @ \ {g}]

\* Find returns g.
Found(p, g) ==
    /\ gPc'   = [gPc   EXCEPT ![p] = "found"]
    /\ gr'   = [gr   EXCEPT ![p] = g]
    /\ gUses' = IF g \in GrLimited THEN [gUses EXCEPT ![g] = @ + 1] ELSE gUses

\* The candidates are tried one by one, here in any order; none is left.
FindNone(p) ==
    /\ gPc[p] = "next" /\ gCand[p] = {}
    /\ GrReturn(p)
    /\ UNCHANGED <<grStoreVars, grLogVars, gExpired, gIds, gAcked, gUses>>

\* A grant without a limit is returned at once.
FindUnlimited(p, g) ==
    /\ gPc[p] = "next" /\ g \in gCand[p] \ GrLimited
    /\ Found(p, g)
    /\ UNCHANGED <<grStoreVars, grLogVars, gExpired, gOp, gCopy, gCand, gLate, gIds, gAcked>>

\* countLines: a torn last line counts.
GrCount(g) == gLines[g] + (IF gTorn[g] THEN 1 ELSE 0)

\* consumeUseLog: a use is left.
GrUsesLeft(g) == GrCount(g) < GrantUses[g]

\* consumeUseLog locks the log and finds a use left ...
GrConsumeLock(p, g) ==
    /\ gPc[p] = "next" /\ g \in gCand[p] \cap GrLimited
    /\ gLogLock[g] = NoGrant /\ GrUsesLeft(g)
    /\ gLogLock' = [gLogLock EXCEPT ![g] = p]
    /\ gPc' = [gPc EXCEPT ![p] = "append"]
    /\ gr' = [gr EXCEPT ![p] = g]
    /\ UNCHANGED <<grStoreVars, gLines, gTorn, gExpired, gOp, gCopy, gCand, gLate, gIds, gAcked, gUses>>

\* ... or none, and unlocks it again: Find goes on.
ConsumeExhausted(p, g) ==
    /\ gPc[p] = "next" /\ g \in gCand[p] \cap GrLimited
    /\ gLogLock[g] = NoGrant /\ ~GrUsesLeft(g)
    /\ Skip(p, g)
    /\ UNCHANGED <<grStoreVars, grLogVars, gExpired, gOp, gCopy, gLate, gIds, gAcked, gUses>>

\* The directory, the lock file or the log cannot be opened: Find goes on.
ConsumeFails(p, g) ==
    /\ gPc[p] = "next" /\ g \in gCand[p] \cap GrLimited
    /\ Skip(p, g)
    /\ UNCHANGED <<grStoreVars, grLogVars, gExpired, gOp, gCopy, gLate, gIds, gAcked, gUses>>

GrUnlock(p) == gLogLock' = [gLogLock EXCEPT ![gr[p]] = NoGrant]

\* The line is appended; behind a torn line it completes that line.
GrAppend(p) ==
    /\ gPc[p] = "append"
    /\ gLines' = [gLines EXCEPT ![gr[p]] = @ + 1]
    /\ gTorn'  = [gTorn  EXCEPT ![gr[p]] = FALSE]
    /\ gPc'    = [gPc    EXCEPT ![p] = "sync"]
    /\ UNCHANGED <<grStoreVars, gLogLock, gExpired, gOp, gr, gCopy, gCand, gLate, gIds, gAcked, gUses>>

\* The append fails, possibly after a part of the line: Find goes on.
GrAppendFails(p) ==
    /\ gPc[p] = "append"
    /\ \E b \in BOOLEAN : gTorn' = [gTorn EXCEPT ![gr[p]] = @ \/ b]
    /\ GrUnlock(p) /\ Skip(p, gr[p])
    /\ UNCHANGED <<grStoreVars, gLines, gExpired, gOp, gCopy, gLate, gIds, gAcked, gUses>>

\* The line is on the disk: Find returns the grant.
GrSync(p) ==
    /\ gPc[p] = "sync"
    /\ GrUnlock(p) /\ Found(p, gr[p])
    /\ UNCHANGED <<grStoreVars, gLines, gTorn, gExpired, gOp, gCopy, gCand, gLate, gIds, gAcked>>

\* fsync fails: the line stays, the use is lost, Find goes on.
GrSyncFails(p) ==
    /\ gPc[p] = "sync"
    /\ GrUnlock(p) /\ Skip(p, gr[p])
    /\ UNCHANGED <<grStoreVars, gLines, gTorn, gExpired, gOp, gCopy, gLate, gIds, gAcked, gUses>>

\* CheckPolicy takes the answer.
GrDone(p) ==
    /\ gPc[p] = "found"
    /\ GrReturn(p)
    /\ UNCHANGED <<grStoreVars, grLogVars, gExpired, gIds, gAcked, gUses>>

-----------------------------------------------------------------------------
\* The environment

GrExpire(g) ==
    /\ g \in gIds \ gExpired
    /\ gExpired' = gExpired \cup {g}
    /\ UNCHANGED <<grStoreVars, grLogVars, grCallVars, gIds, gAcked, gUses>>

\* The process dies; the kernel drops its flock.  A line it was writing may be
\* torn, and its temporary file stays.
GrCrash(p) ==
    /\ gPc[p] # "idle"
    /\ gLogLock' = [g \in Grant |-> IF gLogLock[g] = p THEN NoGrant ELSE gLogLock[g]]
    /\ \E b \in BOOLEAN :
          gTorn' = [g \in Grant |-> gTorn[g] \/ (b /\ gPc[p] = "append" /\ g = gr[p])]
    /\ GrReturn(p)
    /\ UNCHANGED <<grStoreVars, gLines, gExpired, gIds, gAcked, gUses>>

GrNext ==
    \/ \E p \in GrantProc, g \in Grant :
          \/ CreateLoad(p, g) \/ GrRevokeLoad(p, g)
          \/ FindUnlimited(p, g)
          \/ GrConsumeLock(p, g) \/ ConsumeExhausted(p, g) \/ ConsumeFails(p, g)
    \/ \E p \in GrantProc :
          \/ GrWriteTmp(p) \/ GrRename(p) \/ WriteFails(p)
          \/ \E a \in Ask : FindRead(p, a)
          \/ FindNone(p)
          \/ GrAppend(p) \/ GrAppendFails(p) \/ GrSync(p) \/ GrSyncFails(p)
          \/ GrDone(p) \/ GrCrash(p)
    \/ \E g \in Grant : GrExpire(g)

GrSpec == GrInit /\ [][GrNext]_grVars

-----------------------------------------------------------------------------
\* Properties

GrTypeOK ==
    /\ gStore \in GrFile /\ gTmp \in GrFile
    /\ gLines \in [Grant -> Nat] /\ gTorn \in [Grant -> BOOLEAN]
    /\ gLogLock \in [Grant -> GrantProc \cup {NoGrant}] /\ gExpired \subseteq Grant
    /\ gPc \in [GrantProc -> GrPC] /\ gOp \in [GrantProc -> {"none", "create", "revoke", "find"}]
    /\ gr \in [GrantProc -> Grant \cup {NoGrant}]
    /\ \A p \in GrantProc : gPc[p] \notin {"idle", "next"} => gr[p] \in Grant
    /\ gCopy \in [GrantProc -> GrFile]
    /\ gCand \in [GrantProc -> SUBSET Grant] /\ gLate \in [GrantProc -> SUBSET Grant]
    /\ gIds \subseteq Grant /\ gAcked \subseteq Grant /\ gUses \in [Grant -> Nat]

\* A limited grant is returned at most MaxUses times, over all processes, with
\* torn lines, failed fsyncs and crashes.
GrUsesBounded == \A g \in GrLimited : gUses[g] <= GrantUses[g]

\* A Find that begins after the Revoke of a grant has returned never returns
\* that grant.
NoLateFind == \A p \in GrantProc : gPc[p] = "found" => gr[p] \notin gLate[p]

\* A grant is found no more often than it allows, and never again once its
\* revocation was reported, in whichever process the search runs.
GrantsHold == GrUsesBounded /\ NoLateFind

-----------------------------------------------------------------------------
\* Inductive invariants

\* The use logs.  Whoever counts and appends holds the lock of the log it found
\* a use in, and a line is written for every use before it is given out.
GrUseInv ==
    /\ \A p \in GrantProc : gPc[p] \in {"append", "sync"} => gr[p] \in GrLimited /\ gLogLock[gr[p]] = p
    /\ \A g \in GrLimited : gUses[g] <= gLines[g] /\ gLines[g] <= GrantUses[g]
    /\ \A p \in GrantProc : gPc[p] = "append" => GrUsesLeft(gr[p])
    /\ \A p \in GrantProc : gPc[p] = "sync" => gUses[gr[p]] < gLines[gr[p]]

\* The file, as long as one process writes it: the copy it is about to write
\* has all that the file has, every revocation a caller was told of is in the
\* file, and no Find tries a grant that was revoked when it began.
GrStoreInv ==
    /\ \A p \in GrantProc : gPc[p] \in {"change", "written"} =>
          /\ p \in Writer
          /\ gStore.revoked \subseteq gCopy[p].revoked
          /\ gOp[p] = "revoke" => gr[p] \in gCopy[p].revoked
          /\ gPc[p] = "written" => gTmp = gCopy[p]
    /\ gAcked \subseteq gStore.revoked
    /\ \A p \in GrantProc : gCand[p] \cap gLate[p] = {}
    /\ \A p \in GrantProc : gPc[p] \in {"append", "sync", "found"} => gr[p] \in gCand[p]
=============================================================================
