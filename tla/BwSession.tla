----------------------------- MODULE BwSession -----------------------------
(***************************************************************************)
(* The cached session of the Bitwarden CLI (src/internal/backend/bw).      *)
(* `bw unlock` saves a session token and, in a second file, its expiry;    *)
(* every command that opens the backend without BW_SESSION loads them;     *)
(* `bw lock`, and a command whose cached session bw rejects, clear them.   *)
(* The commands are processes: no lock is taken, each file operation is a  *)
(* step, and a command may die between two of them.                        *)
(***************************************************************************)
EXTENDS Integers

CONSTANTS
  BsProc,       \* commands that may run at once
  BsTerminal,   \* the one of them a human has unlock in
  BsTTL,        \* values of unlock --ttl
  BsMaxUnlock,  \* bound: sessions bw hands out
  BsMaxTime     \* bound: the clock

\* SaveSession takes no ttl below the clock's unit: it puts the default in its place.
ASSUME BsAssumption == BsTTL \subseteq Nat \ {0} /\ BsMaxUnlock \in Nat

VARIABLES
  bsToken,  \* bw.session: NoFile, Zeros, or the number of a session
  bsMeta,   \* bw.session.meta.json: NoFile or ExpiresAt
  bsNow,    \* the clock
  bsCall,   \* the command of each process
  bsCount,  \* sessions saved so far
  bsEnd,    \* history: the last moment of each session whose unlock returned
  bsGone    \* history: sessions 1..bsGone were saved before a clear that returned

bsVars == <<bsToken, bsMeta, bsNow, bsCall, bsCount, bsEnd, bsGone>>

NoFile == -1
Zeros  == 0

BsIdle == [step |-> "idle", ttl |-> 0, exp |-> NoFile, got |-> NoFile, at |-> 0, avoid |-> 0,
         done |-> {}, since |-> 0, failed |-> FALSE]

Returned == {t \in 1..BsMaxUnlock : bsEnd[t] # NoFile}

BsInit ==
  /\ bsToken = NoFile /\ bsMeta = NoFile /\ bsNow = 0 /\ bsCount = 0 /\ bsGone = 0
  /\ bsCall = [p \in BsProc |-> BsIdle]
  /\ bsEnd = [t \in 1..BsMaxUnlock |-> NoFile]

In(p, s)  == bsCall[p].step = s
BsGoto(p, s) == bsCall' = [bsCall EXCEPT ![p].step = s]
Stop(p)   == bsCall' = [bsCall EXCEPT ![p] = BsIdle]

BsTick == bsNow < BsMaxTime /\ bsNow' = bsNow + 1
          /\ UNCHANGED <<bsToken, bsMeta, bsCall, bsCount, bsEnd, bsGone>>

\* A command dies, or an operation whose error it reports fails, between two steps.
Dies(p) == ~In(p, "idle") /\ Stop(p)
           /\ UNCHANGED <<bsToken, bsMeta, bsNow, bsCount, bsEnd, bsGone>>

(* ---- bw unlock ---- *)

\* It reads the master password from the terminal: one runs at a time.  A
\* rejection by bw, and an empty token, end the command before SaveSession.
Unlock(p, ttl) ==
  /\ In(p, "idle") /\ p = BsTerminal /\ bsCount < BsMaxUnlock
  /\ bsCall' = [bsCall EXCEPT ![p] = [BsIdle EXCEPT !.step = "token", !.ttl = ttl]]
  /\ UNCHANGED <<bsToken, bsMeta, bsNow, bsCount, bsEnd, bsGone>>

\* writeFileAtomic: a temporary file, then its rename
SaveToken(p) ==
  /\ In(p, "token") /\ BsGoto(p, "meta")
  /\ bsCount' = bsCount + 1 /\ bsToken' = bsCount'
  /\ UNCHANGED <<bsMeta, bsNow, bsEnd, bsGone>>

SaveMeta(p) ==
  /\ In(p, "meta") /\ Stop(p)
  /\ bsMeta' = bsNow + bsCall[p].ttl
  /\ bsEnd' = [bsEnd EXCEPT ![bsCount] = bsMeta']
  /\ UNCHANGED <<bsToken, bsNow, bsCount, bsGone>>

(* ---- Open: LoadSession, and the command that uses the session ---- *)

ReadMeta(p) ==
  /\ In(p, "idle")
  /\ IF bsMeta = NoFile THEN UNCHANGED bsCall
     ELSE bsCall' = [bsCall EXCEPT ![p] = [BsIdle EXCEPT !.step = "stat", !.exp = bsMeta,
                                              !.avoid = bsGone, !.done = Returned]]
  /\ UNCHANGED <<bsToken, bsMeta, bsNow, bsCount, bsEnd, bsGone>>

\* Mutant: the session is used until the next lock.
NeverExpired(exp) == FALSE

\* StatSession
BsExpired(exp) == bsNow > exp

StatToken(p) ==
  /\ In(p, "stat")
  /\ IF bsToken = NoFile \/ BsExpired(bsCall[p].exp) THEN Stop(p)
     ELSE bsCall' = [bsCall EXCEPT ![p].step = "read", ![p].at = bsNow]
  /\ UNCHANGED <<bsToken, bsMeta, bsNow, bsCount, bsEnd, bsGone>>

ReadToken(p) ==
  /\ In(p, "read")
  /\ IF bsToken = NoFile THEN Stop(p)
     ELSE bsCall' = [bsCall EXCEPT ![p].step = "use", ![p].got = bsToken]
  /\ UNCHANGED <<bsToken, bsMeta, bsNow, bsCount, bsEnd, bsGone>>

\* bw accepts the session, or answers "locked" and lockedGuidance clears it;
\* zeros are never a session.
UseSession(p) ==
  /\ In(p, "use")
  /\ \/ bsCall[p].got # Zeros /\ Stop(p)
     \/ bsCall' = [bsCall EXCEPT ![p] = [BsIdle EXCEPT !.step = "look", !.since = bsCount]]
  /\ UNCHANGED <<bsToken, bsMeta, bsNow, bsCount, bsEnd, bsGone>>

(* ---- bw lock: ClearSession ---- *)

Lock(p) ==
  /\ In(p, "idle")
  /\ bsCall' = [bsCall EXCEPT ![p] = [BsIdle EXCEPT !.step = "look", !.since = bsCount]]
  /\ UNCHANGED <<bsToken, bsMeta, bsNow, bsCount, bsEnd, bsGone>>

LookToken(p) ==
  /\ In(p, "look") /\ BsGoto(p, IF bsToken = NoFile THEN "remove" ELSE "zero")
  /\ UNCHANGED <<bsToken, bsMeta, bsNow, bsCount, bsEnd, bsGone>>

\* os.WriteFile in place, or anew when the file has gone meanwhile; its error is ignored
ZeroToken(p) ==
  /\ In(p, "zero") /\ BsGoto(p, "remove")
  /\ bsToken' \in {Zeros, bsToken}
  /\ UNCHANGED <<bsMeta, bsNow, bsCount, bsEnd, bsGone>>

\* an error is kept for the end, and the expiry removed nevertheless
RemoveToken(p) ==
  /\ In(p, "remove")
  /\ \/ bsToken' = NoFile /\ BsGoto(p, "unmeta")
     \/ bsToken' = bsToken /\ bsCall' = [bsCall EXCEPT ![p].step = "unmeta", ![p].failed = TRUE]
  /\ UNCHANGED <<bsMeta, bsNow, bsCount, bsEnd, bsGone>>

RemoveMeta(p) ==
  /\ In(p, "unmeta") /\ Stop(p)
  /\ bsMeta' = NoFile
  /\ bsGone' = IF bsCall[p].failed \/ bsCall[p].since < bsGone THEN bsGone ELSE bsCall[p].since
  /\ UNCHANGED <<bsToken, bsNow, bsCount, bsEnd>>

BsNext ==
  \/ BsTick
  \/ \E p \in BsProc :
       \/ \E ttl \in BsTTL : Unlock(p, ttl)
       \/ SaveToken(p) \/ SaveMeta(p) \/ ReadMeta(p) \/ StatToken(p) \/ ReadToken(p) \/ UseSession(p)
       \/ Lock(p) \/ LookToken(p) \/ ZeroToken(p) \/ RemoveToken(p) \/ RemoveMeta(p) \/ Dies(p)

BsSpec == BsInit /\ [][BsNext]_bsVars

(* ---- properties ---- *)

\* Once a lock, or the clearing of a rejected session, has returned, no command
\* that opens the backend later is given a session saved before it began:
\* whatever else runs, dies or fails in between, a half-done unlock included.
Forgotten == \A p \in BsProc : In(p, "use") /\ bsCall[p].got > Zeros => bsCall[p].got > bsCall[p].avoid

\* A command that starts after an unlock has returned is not given its session
\* beyond the ttl it was saved with: token and expiry are two files, and later
\* unlocks and locks that die between the two put no younger expiry beside an
\* old token.
WithinTTL ==
  \A p \in BsProc : In(p, "use") /\ bsCall[p].got \in bsCall[p].done
    => bsCall[p].at <= bsEnd[bsCall[p].got]

\* The cached Bitwarden session, kept as two files that unlocks and locks of
\* several processes write one after the other: it is not used after a lock, nor
\* beyond its time.
SessionCacheHolds == Forgotten /\ WithinTTL
=============================================================================
