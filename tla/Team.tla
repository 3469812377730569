------------------------------- MODULE Team --------------------------------
(***************************************************************************)
(* Two parts of the team's tooling that share no state: the roster and its  *)
(* invites, and the counter that limits break-glass access.                 *)
(***************************************************************************)
EXTENDS Naturals, FiniteSets

(***************************************************************************)
(* The team file and the operations on it (internal/team: ops.go,            *)
(* membership.go, rbac.go; internal/team/scim): every operation loads the     *)
(* roster, changes its copy and replaces the file, with no lock; the SCIM     *)
(* server works on a copy loaded when it starts.  All writers go through one  *)
(* temporary file, team.json.tmp, which each truncates, fills and renames.    *)
(* An actor is a member identity handed to the library; the command line of   *)
(* this build has none to hand over and refuses every membership change.      *)
(* Nobody calls AddMember, which adds any member in any role.                 *)
(***************************************************************************)

CONSTANTS TmMember,   \* members of the team
          TmOwner,    \* the owner the team starts with
          TmRosters,  \* the rosters it may start with
          TmCaller,   \* processes that change the team
          TmMaxOps    \* bound: operations begun

TmRole  == {"owner", "admin", "developer"}
TmEntry == [role : TmRole \cup {"none"}, status : {"active", "suspended", "removed", "absent"}]

ASSUME TmAssumption ==
    /\ TmOwner \in TmMember /\ TmMaxOps \in Nat
    /\ \A r \in TmRosters : /\ r \in [TmMember -> TmEntry]
                            /\ r[TmOwner] = [role |-> "owner", status |-> "active"]
                            /\ \A m \in TmMember \ {TmOwner} : r[m].role # "owner"

VARIABLES tmFile,   \* team.json: its content, the roster and the invite public key
          tmTmp,    \* team.json.tmp: its content
          tmOpen,   \* caller -> what the file it has open for writing is now called
          tmOverlap,\* two writes of the team have overlapped
          tmKeyFile,\* invite-signing.key: 0 none, 1 created and not yet written, n + 1 the key n
          tmKeys,   \* keys generated
          tmCall,   \* caller -> the operation in progress
          tmScim,   \* the SCIM server's copy of the team, {} when it is not running
          tmOps,    \* operations begun
          tmInvites \* keys that signed an invite handed out

tmVars == <<tmFile, tmTmp, tmOpen, tmOverlap, tmKeyFile, tmKeys, tmCall, tmScim, tmOps, tmInvites>>

tmWriting == <<tmTmp, tmOpen, tmOverlap>>

\* RoleLevel: an unknown role ranks below every other.
RoleLevel(r) == CASE r = "owner" -> 4 [] r = "admin" -> 3 [] r = "developer" -> 2 [] OTHER -> 0

Absent    == [role |-> "none", status |-> "absent"]
TmIdle    == [at |-> "idle"]

\* The content of a file: a whole team, or something Load cannot parse.
Whole(t) == [is |-> "whole", team |-> t]
NoTeam   == [roster |-> [m \in TmMember |-> Absent], pub |-> 0]
Broken(how) == [is |-> how, team |-> NoTeam]

TmInit == /\ \E r \in TmRosters : tmFile = Whole([roster |-> r, pub |-> 0])
          /\ tmTmp = Broken("none") /\ tmOpen = [c \in TmCaller |-> "none"] /\ tmOverlap = FALSE
          /\ tmKeyFile = 0 /\ tmKeys = 0 /\ tmScim = {}
          /\ tmCall = [c \in TmCaller |-> TmIdle] /\ tmOps = 0 /\ tmInvites = {}

Listed(t)  == {m \in TmMember : t.roster[m].status # "absent"}
Owners(t)  == {m \in Listed(t) : t.roster[m].role = "owner"}
-----------------------------------------------------------------------------
(***************************************************************************)
(* What an actor may do, judged on the caller's copy of the roster.          *)
(***************************************************************************)
ActiveAdmin(t, a) == t.roster[a].status = "active" /\ RoleLevel(t.roster[a].role) >= 3

Outranks(t, a, m) == /\ t.roster[m].role # "owner"
                     /\ RoleLevel(t.roster[m].role) < RoleLevel(t.roster[a].role)

AuthorizeRoleChange(t, a, m, r) ==
    /\ r # "owner" /\ ActiveAdmin(t, a)
    /\ Outranks(t, a, m) /\ RoleLevel(r) < RoleLevel(t.roster[a].role)

AuthorizeRemoval(t, a, m) == ActiveAdmin(t, a) /\ Outranks(t, a, m)

AuthorizeInvite(t, a, r) == r # "owner" /\ ActiveAdmin(t, a) /\ RoleLevel(r) < RoleLevel(t.roster[a].role)

AuthorizeTransfer(t, a, m) ==
    /\ t.roster[a] = [role |-> "owner", status |-> "active"]
    /\ m # a /\ t.roster[m].status = "active"
-----------------------------------------------------------------------------
\* The operations, as what they do to a copy of the team.
ChangeRole(t, a, m, r) ==
    IF m \in Listed(t) /\ a \in Listed(t) /\ AuthorizeRoleChange(t, a, m, r)
    THEN {[t EXCEPT !.roster[m].role = r]} ELSE {}
RemoveMember(t, m) == IF m \in Listed(t) THEN {[t EXCEPT !.roster[m].status = "removed"]} ELSE {}
Transfer(t, a, m) ==
    IF {a, m} \subseteq Listed(t) /\ AuthorizeTransfer(t, a, m)
    THEN {[t EXCEPT !.roster[a].role = "admin", !.roster[m].role = "owner"]} ELSE {}

CallAt(c, call) == tmCall' = [tmCall EXCEPT ![c] = call]

\* writeTeam(u), called by CreateInvite when invite holds.
Write(u, invite) == [at |-> "write", team |-> u, invite |-> invite]

\* An operation loads its copy, checks it and computes the team it will write.
TmBegin(c) ==
    LET t == tmFile.team
    IN  /\ tmFile.is = "whole"
        /\ tmCall[c].at = "idle" /\ tmOps < TmMaxOps /\ tmOps' = tmOps + 1
        /\ \E a, m \in TmMember, r \in TmRole :
             \/ \E u \in ChangeRole(t, a, m, r) \cup Transfer(t, a, m) : CallAt(c, Write(u, FALSE))
             \/ /\ a \in Listed(t) /\ m \in Listed(t) /\ AuthorizeRemoval(t, a, m)
                /\ \E u \in RemoveMember(t, m) : CallAt(c, Write(u, FALSE))
             \/ /\ a \in Listed(t) /\ AuthorizeInvite(t, a, r)
                /\ CallAt(c, [at |-> "key", team |-> t, hadKey |-> t.pub # 0])
        /\ UNCHANGED <<tmFile, tmWriting, tmKeyFile, tmKeys, tmScim, tmInvites>>

(***************************************************************************)
(* writeTeam: create or truncate the temporary file, fill it, rename it.     *)
(* Whoever has the file open keeps it through a rename by somebody else.     *)
(***************************************************************************)
InWrite(c) == tmCall[c].at \in {"filltmp", "rename", "remove"}

OpenTmp(c) ==
    /\ tmCall[c].at = "write"
    /\ tmTmp' = Broken("empty") /\ tmOpen' = [tmOpen EXCEPT ![c] = "tmp"]
    /\ tmOverlap' = (tmOverlap \/ \E d \in TmCaller \ {c} : InWrite(d))
    /\ CallAt(c, [tmCall[c] EXCEPT !.at = "filltmp"])
    /\ UNCHANGED <<tmFile, tmKeyFile, tmKeys, tmScim, tmOps, tmInvites>>

\* What a write makes of a file: over the longer text of another writer, rubbish.
Over(old, t) == {Whole(t)} \cup (IF old.is = "empty" THEN {} ELSE {Broken("torn")})

FillTmp(c) ==
    /\ tmCall[c].at = "filltmp"
    /\ tmTmp' \in (IF tmOpen[c] = "tmp" THEN Over(tmTmp, tmCall[c].team) ELSE {tmTmp})
    /\ tmFile' \in (IF tmOpen[c] = "file" THEN Over(tmFile, tmCall[c].team) ELSE {tmFile})
    /\ tmOpen' = [tmOpen EXCEPT ![c] = "none"]
    /\ CallAt(c, [tmCall[c] EXCEPT !.at = "rename"])
    /\ UNCHANGED <<tmOverlap, tmKeyFile, tmKeys, tmScim, tmOps, tmInvites>>

\* Rename puts in place whatever is in the temporary file.
WriteTeam(c) ==
    /\ tmCall[c].at = "rename" /\ tmTmp.is # "none"
    /\ tmFile' = tmTmp /\ tmTmp' = Broken("none")
    /\ tmOpen' = [d \in TmCaller |-> CASE tmOpen[d] = "tmp" -> "file"
                                       [] tmOpen[d] = "file" -> "gone"
                                       [] OTHER -> tmOpen[d]]
    /\ tmInvites' = tmInvites \cup (IF tmCall[c].invite THEN {tmCall[c].team.pub} ELSE {})
    /\ CallAt(c, TmIdle)
    /\ UNCHANGED <<tmOverlap, tmKeyFile, tmKeys, tmScim, tmOps>>

\* The rename fails, because the file is gone or for a reason of its own; the
\* temporary file is removed, whose ever it is by then.
RenameFails(c) ==
    /\ tmCall[c].at = "rename"
    /\ CallAt(c, [tmCall[c] EXCEPT !.at = "remove"])
    /\ UNCHANGED <<tmFile, tmWriting, tmKeyFile, tmKeys, tmScim, tmOps, tmInvites>>

RemoveTmp(c) ==
    /\ tmCall[c].at = "remove"
    /\ tmTmp' = Broken("none")
    /\ tmOpen' = [d \in TmCaller |-> IF tmOpen[d] = "tmp" THEN "gone" ELSE tmOpen[d]]
    /\ CallAt(c, TmIdle)
    /\ UNCHANGED <<tmFile, tmOverlap, tmKeyFile, tmKeys, tmScim, tmOps, tmInvites>>

\* A process dies or a file operation fails; a write may stop in the middle.
TmFails(c) ==
    /\ tmCall[c].at # "idle"
    /\ tmTmp' \in {tmTmp} \cup (IF tmOpen[c] = "tmp" THEN {Broken("torn")} ELSE {})
    /\ tmFile' \in {tmFile} \cup (IF tmOpen[c] = "file" THEN {Broken("torn")} ELSE {})
    /\ tmOpen' = [tmOpen EXCEPT ![c] = "none"]
    /\ CallAt(c, TmIdle) /\ UNCHANGED <<tmOverlap, tmKeyFile, tmKeys, tmScim, tmOps, tmInvites>>
-----------------------------------------------------------------------------
(***************************************************************************)
(* CreateInvite: load the signing key or create it, record its public half    *)
(* in the team file the first time, sign.                                    *)
(***************************************************************************)
\* The copy that will be signed for, with key k in it.
WithKey(call, at, k) == [call EXCEPT !.at = at, !.team.pub = k]

\* LoadKeyFile: a key is used when the team names no other; a file without a key
\* is malformed; no file means a new key, unless the team names one.
LoadInviteKey(c) ==
    LET k == tmKeyFile
    IN  /\ tmCall[c].at = "key"
        /\ CASE k > 1 /\ tmCall[c].team.pub \in {0, k} ->
                  CallAt(c, WithKey(tmCall[c], "sign", k)) /\ UNCHANGED tmKeys
             [] k = 0 /\ tmCall[c].team.pub = 0 ->
                  CallAt(c, WithKey(tmCall[c], "create", tmKeys + 2)) /\ tmKeys' = tmKeys + 1
             [] OTHER -> CallAt(c, TmIdle) /\ UNCHANGED tmKeys
        /\ UNCHANGED <<tmFile, tmWriting, tmKeyFile, tmScim, tmOps, tmInvites>>

\* CreateKeyFile: exclusive creation, then the write.
CreateKeyFileTrunc(c) ==
    /\ tmCall[c].at = "create"
    /\ tmKeyFile' = 1 /\ CallAt(c, [tmCall[c] EXCEPT !.at = "fill"])
    /\ UNCHANGED <<tmFile, tmWriting, tmKeys, tmScim, tmOps, tmInvites>>
CreateKeyFile(c) ==
    /\ tmCall[c].at = "create"
    /\ IF tmKeyFile = 0 THEN tmKeyFile' = 1 /\ CallAt(c, [tmCall[c] EXCEPT !.at = "fill"])
       ELSE CallAt(c, TmIdle) /\ UNCHANGED tmKeyFile
    /\ UNCHANGED <<tmFile, tmWriting, tmKeys, tmScim, tmOps, tmInvites>>

\* The write completes, or fails and the file is removed.
FillKeyFile(c) ==
    /\ tmCall[c].at = "fill"
    /\ \/ tmKeyFile' = tmCall[c].team.pub /\ CallAt(c, [tmCall[c] EXCEPT !.at = "sign"])
       \/ tmKeyFile' = 0 /\ CallAt(c, TmIdle)
    /\ UNCHANGED <<tmFile, tmWriting, tmKeys, tmScim, tmOps, tmInvites>>

\* The first invite writes the caller's copy of the team with the public key before
\* it is signed.
SignInvite(c) ==
    /\ tmCall[c].at = "sign"
    /\ IF tmCall[c].hadKey
       THEN tmInvites' = tmInvites \cup {tmCall[c].team.pub} /\ CallAt(c, TmIdle)
       ELSE UNCHANGED tmInvites /\ CallAt(c, Write(tmCall[c].team, TRUE))
    /\ UNCHANGED <<tmFile, tmWriting, tmKeyFile, tmKeys, tmScim, tmOps>>
-----------------------------------------------------------------------------
(***************************************************************************)
(* The SCIM server.                                                         *)
(***************************************************************************)
NewServer ==
    /\ tmScim = {} /\ tmFile.is = "whole" /\ tmScim' = {tmFile.team}
    /\ UNCHANGED <<tmFile, tmWriting, tmKeyFile, tmKeys, tmCall, tmOps, tmInvites>>

\* createUser adds a developer to the copy and leaves the file alone.
CreateUser(m) ==
    /\ tmOps < TmMaxOps /\ tmOps' = tmOps + 1
    /\ \E t \in tmScim, s \in {"active", "suspended"} :
         m \notin Listed(t) /\ tmScim' = {[t EXCEPT !.roster[m] = [role |-> "developer", status |-> s]]}
    /\ UNCHANGED <<tmFile, tmWriting, tmKeyFile, tmKeys, tmCall, tmInvites>>

\* deleteUser is authorised by the bearer token alone; its goroutine writes the copy.
DeleteUser(c, m) ==
    /\ tmCall[c].at = "idle" /\ tmOps < TmMaxOps /\ tmOps' = tmOps + 1
    /\ \E t \in tmScim : \E u \in RemoveMember(t, m) : tmScim' = {u} /\ CallAt(c, Write(u, FALSE))
    /\ UNCHANGED <<tmFile, tmWriting, tmKeyFile, tmKeys, tmInvites>>

TmNext == \/ \E c \in TmCaller : \/ TmBegin(c) \/ TmFails(c) \/ LoadInviteKey(c)
                                 \/ OpenTmp(c) \/ FillTmp(c) \/ WriteTeam(c) \/ RenameFails(c) \/ RemoveTmp(c)
                                 \/ CreateKeyFile(c) \/ FillKeyFile(c) \/ SignInvite(c)
                                 \/ \E m \in TmMember : DeleteUser(c, m)
          \/ NewServer \/ \E m \in TmMember : CreateUser(m)
-----------------------------------------------------------------------------
\* A crash or a failing operation of one writer never costs the team file: it holds
\* no whole team only after two writers had the one temporary file between them.
FileWhole == tmFile.is # "whole" => tmOverlap

\* Whenever the team file can be read it lists exactly one owner, however the
\* unlocked load-change-write sequences of callers, the SCIM server's old copy and
\* the shared temporary file overtake each other (ownership moves only by Transfer).
OneOwner == tmFile.is = "whole" => Cardinality(Owners(tmFile.team)) = 1

\* Every invite that was handed out verifies under one key, the one the team file
\* names if it names any: a lost team file write, a crash between the key file and
\* the team file or a second creator never leads to a second key.
OneInviteKey == \A j \in tmInvites : \A k \in tmInvites \cup ({tmFile.team.pub} \ {0}) : j = k

-----------------------------------------------------------------------------
(***************************************************************************)
(* Break-glass access (internal/team/breakglass): a counter file per member   *)
(* limits how often access is opened in a day and refuses it within an hour   *)
(* of a close.  Commands in several processes change the file under an        *)
(* advisory lock.  A command takes milliseconds, so the clock, which counts   *)
(* hours here, stands still while one is running.                             *)
(***************************************************************************)

CONSTANTS BgCaller,  \* processes
          BgLimit,   \* opens allowed in a day (3 in the code)
          BgDay,     \* hours in the rate window (24 in the code)
          BgMaxTime  \* bound on the clock

ASSUME BgAssumption == BgLimit \in Nat \ {0} /\ BgDay \in Nat \ {0, 1} /\ BgMaxTime \in Nat

VARIABLES bgNow,     \* the clock, in hours
          bgFile,    \* the counter file
          bgLock,    \* the holders of the flock
          bgCall,    \* caller -> the command in progress
          bgGranted, \* the times at which access was opened, numbered
          bgClosedAt,\* the time of the latest close
          bgHurried  \* access was opened within an hour of a close

bgVars == <<bgNow, bgFile, bgLock, bgCall, bgGranted, bgClosedAt, bgHurried>>

BgNever == BgMaxTime + 1   \* no close yet
BgIdle  == [at |-> "idle"]

BgInit == /\ bgNow = 0 /\ bgFile = [opens |-> {}, lastClose |-> BgNever]
          /\ bgLock = {} /\ bgCall = [c \in BgCaller |-> BgIdle]
          /\ bgGranted = {} /\ bgClosedAt = BgNever /\ bgHurried = FALSE

BgTo(c, call) == bgCall' = [bgCall EXCEPT ![c] = call]

\* Times after the cutoff of 24 hours before now.
Recent(s, now) == {o \in s : o.at + BgDay > now}
-----------------------------------------------------------------------------
\* flockAcquire waits for the lock; the Windows build takes none.
FlockAcquire(c) == bgLock = {} /\ bgLock' = {c}

\* withCounterLock: the lock, then the file.  An agent session never gets here.
BgBegin(c) ==
    /\ bgCall[c].at = "idle"
    /\ \E what \in {"open", "close", "check"} :
         /\ what = "close" => bgGranted # {}
         /\ BgTo(c, [at |-> what])
    /\ UNCHANGED <<bgNow, bgFile, bgLock, bgGranted, bgClosedAt, bgHurried>>

BgLoad(c) ==
    /\ bgCall[c].at \in {"open", "close", "check"}
    /\ FlockAcquire(c)
    /\ BgTo(c, [at |-> "loaded", what |-> bgCall[c].at, copy |-> bgFile])
    /\ UNCHANGED <<bgNow, bgFile, bgGranted, bgClosedAt, bgHurried>>

\* Open prunes the opens of the day before, then refuses or appends.
OpenAllowed(f) ==
    /\ Cardinality(Recent(f.opens, bgNow)) < BgLimit
    /\ f.lastClose # BgNever => bgNow - f.lastClose >= 1

NewOpen    == [nr |-> Cardinality(bgGranted) + 1, at |-> bgNow]
Opened(f)  == [f EXCEPT !.opens = Recent(f.opens, bgNow) \cup {NewOpen}]
Closed(f)  == [f EXCEPT !.lastClose = bgNow]

\* The command decides and replaces the file, or leaves it: refused, or a check.
BgStore(c) ==
    LET f == bgCall[c].copy  what == IF bgCall[c].at = "loaded" THEN bgCall[c].what ELSE "none"
    IN  /\ \/ /\ what = "open" /\ OpenAllowed(f)
              /\ bgFile' = Opened(f) /\ bgGranted' = bgGranted \cup {NewOpen}
              /\ bgHurried' = (bgHurried \/ (bgClosedAt # BgNever /\ bgNow - bgClosedAt < 1))
              /\ UNCHANGED bgClosedAt
           \/ /\ what = "close" /\ bgFile' = Closed(f) /\ bgClosedAt' = bgNow
              /\ UNCHANGED <<bgGranted, bgHurried>>
           \/ /\ what = "check" \/ (what = "open" /\ ~OpenAllowed(f))
              /\ bgFile' = (IF what = "check" THEN f ELSE bgFile)
              /\ UNCHANGED <<bgGranted, bgClosedAt, bgHurried>>
        /\ bgLock' = bgLock \ {c} /\ BgTo(c, BgIdle)
        /\ UNCHANGED bgNow

\* A process that is killed, or whose write fails, leaves the old file; the kernel
\* releases its lock.
BgKilled(c) ==
    /\ bgCall[c].at # "idle"
    /\ bgLock' = bgLock \ {c} /\ BgTo(c, BgIdle)
    /\ UNCHANGED <<bgNow, bgFile, bgGranted, bgClosedAt, bgHurried>>

BgTick ==
    /\ bgNow < BgMaxTime /\ \A c \in BgCaller : bgCall[c].at = "idle"
    /\ bgNow' = bgNow + 1
    /\ UNCHANGED <<bgFile, bgLock, bgCall, bgGranted, bgClosedAt, bgHurried>>

BgNext == BgTick \/ \E c \in BgCaller : BgBegin(c) \/ BgLoad(c) \/ BgStore(c) \/ BgKilled(c)
-----------------------------------------------------------------------------
\* No member opens break-glass access more than the limit in any day, whichever
\* processes the commands run in.
BgRate ==
    \A t \in 0 .. BgMaxTime : Cardinality({g \in bgGranted : g.at <= t /\ g.at + BgDay > t}) <= BgLimit

\* Access is never opened within an hour of a close that was recorded before.
BgCooling == ~bgHurried

\* The team's files under commands of several processes: one writer at a time
\* leaves a whole team file, which names one owner and one invite key, and there
\* is no more break-glass access than the limits allow.
TeamHolds == FileWhole /\ OneOwner /\ OneInviteKey /\ BgRate /\ BgCooling
=============================================================================
