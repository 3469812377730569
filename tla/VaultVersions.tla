------------------------------ MODULE VaultVersions ------------------------------
(***************************************************************************)
(* The versions of one secret: vault.RotateValue, Rollback, DestroyVersion *)
(* and GetVersion (internal/vault/versions.go) over the version files of   *)
(* the file backend (internal/backend/file).                               *)
(*                                                                         *)
(* A version n is three files: the ciphertext values/<path>/n, its nonce   *)
(* and a sidecar with the associated data.  The metadata file lists the    *)
(* versions and names the current one.  Every file is replaced by an       *)
(* atomic rename, no lock covers two of them, and each command runs in a   *)
(* process of its own.                                                     *)
(***************************************************************************)
EXTENDS Naturals, Sequences, FiniteSets

CONSTANTS
    Procs,        \* processes that run vault commands on this path
    Ops,          \* commands they run, among "rotate", "rollback", "destroy"
    Audited,      \* commands whose context carries an audit emitter
    Faults,       \* what may go wrong, among AllFaults
    DefaultMax,   \* DefaultMaxVersions
    Limits,       \* values of the max-versions flag (0: not given)
    MaxWrites,    \* bound on values sealed
    MaxDestroys,  \* bound on versions whose destruction is begun
    MaxSec        \* bound on the clock, in seconds

\* write: a temporary file or its rename fails; remove: a file is not removed;
\* emit: the audit event is not written; crash: a process stops in mid-call;
\* split: a second ends between the two clock readings of SetVersioned.
AllFaults == {"write", "remove", "emit", "crash", "split"}

ASSUME VersionsAssumption ==
    /\ Ops \subseteq {"rotate", "rollback", "destroy"}
    /\ Audited \subseteq Ops
    /\ Faults \subseteq AllFaults
    /\ DefaultMax \in Nat \ {0}
    /\ Limits \subseteq Nat
    /\ MaxWrites \in Nat /\ MaxDestroys \in Nat
    /\ MaxSec \in Nat \ {0}

VARIABLES
    meta,      \* the metadata file
    ct,        \* version -> ciphertext file
    nonce,     \* version -> nonce file (the sealing it belongs to)
    side,      \* version -> sidecar file (the second it states)
    now,       \* the clock
    writes,    \* sealings so far
    pc,        \* process -> next step
    call,      \* process -> arguments and locals of its call
    acked,     \* history: versions whose writing was reported as done
    gone,      \* history: versions whose destruction was reported as done
    tried      \* history: versions whose destruction was begun

fileVars == <<meta, ct, nonce, side>>
histVars == <<acked, gone, tried>>
vars == <<fileVars, now, writes, pc, call, histVars>>

Version == 1 .. MaxWrites

\* A nonce or sidecar file that does not exist; so sealings and seconds start at 1.
None == 0

\* A ciphertext file that does not exist.
NoFile == [id |-> 0, val |-> 0, created |-> 0]

\* vmeta.Meta: the counter, the limit and the listed versions, oldest first.
\* DeletedAt is left out: RotateValue sets it on an entry it drops from the
\* list before the list is saved.  NewMeta is also what a missing file stands for:
\* RotateValue starts from it, and no other operation gets past it.
NewMeta == [cur |-> 0, max |-> DefaultMax, versions |-> <<>>]

Entry(m, v) == CHOOSE i \in DOMAIN m.versions : m.versions[i].v = v

\* findVersion
Found(m, v) == \E i \in DOMAIN m.versions : m.versions[i].v = v

Usable(m, v) == Found(m, v) /\ ~ m.versions[Entry(m, v)].destroyed

\* Decryption needs the nonce of the sealing and its associated data, which states
\* the second of the sealing.
Opens(file, n, second) == file # NoFile /\ n = file.id /\ second = file.created

\* GetVersioned gives the value of v back.
Readable(v) == Opens(ct[v], nonce[v], side[v])

\* GetVersion returns a value for v.
Served(v) == Usable(meta, v) /\ Readable(v)

NoCall == [op |-> "rotate", v |-> 0, val |-> 0, id |-> 0, created |-> 0, bound |-> 0,
           meta |-> NewMeta]

Init ==
    /\ meta = NewMeta
    /\ ct = [v \in Version |-> NoFile]
    /\ nonce = [v \in Version |-> None]
    /\ side = [v \in Version |-> None]
    /\ now = 1
    /\ writes = 0
    /\ pc = [p \in Procs |-> "idle"]
    /\ call = [p \in Procs |-> NoCall]
    /\ acked = {}
    /\ gone = {}
    /\ tried = {}

-----------------------------------------------------------------------------
\* Steps every call is made of

Goto(p, step) == pc' = [pc EXCEPT ![p] = step]

\* The call is over; its locals are forgotten.
Return(p) ==
    /\ Goto(p, "idle")
    /\ call' = [call EXCEPT ![p] = NoCall]

\* os.Remove of a ciphertext, its error ignored: Removing(v) is one outcome.
Removing(v) ==
    \/ ct' = [ct EXCEPT ![v] = NoFile]
    \/ "remove" \in Faults /\ ct' = ct

-----------------------------------------------------------------------------
\* RotateValue

\* Step 2: the version a rotation writes.
NewVersion(m) == m.cur + 1

\* Step 11: the oldest entry goes when the list is over its limit.
Enforced(m) ==
    IF m.max > 0 /\ Len(m.versions) > m.max THEN Tail(m.versions) ELSE m.versions

\* Steps 5-10: the metadata with the new version, before step 11.
Extended(m, limit) ==
    [cur      |-> NewVersion(m),
     max      |-> IF limit > 0 THEN limit ELSE m.max,
     versions |-> Append(m.versions, [v |-> NewVersion(m), destroyed |-> FALSE])]

\* Step 1: the metadata is read, and the clock for CreatedAt.
\* The value is the number of the sealing that brought it in.
Load(p, op, from, value, limit) ==
    /\ call' = [call EXCEPT ![p] =
                    [op |-> op, v |-> from, val |-> value, id |-> writes + 1,
                     created |-> now, bound |-> now, meta |-> Extended(meta, limit)]]
    /\ writes' = writes + 1
    /\ Goto(p, "bind")
    /\ UNCHANGED <<fileVars, now, histVars>>

\* keylatch set: a new value.  Without an emitter nothing is attempted.
Rotate(p) ==
    /\ pc[p] = "idle"
    /\ "rotate" \in Ops \cap Audited
    /\ writes < MaxWrites
    /\ \E limit \in Limits : Load(p, "rotate", 0, writes + 1, limit)

\* SetVersioned: the associated data is given the time, and the value is sealed.
\* The second reading of the clock is what the sidecar will state.
Bind(p) ==
    /\ pc[p] = "bind"
    /\ call' = [call EXCEPT ![p].bound = now]
    /\ Goto(p, "ct")
    /\ UNCHANGED <<fileVars, now, writes, histVars>>

Target(p) == call[p].meta.cur

WriteCiphertext(p) ==
    /\ pc[p] = "ct"
    /\ ct' = [ct EXCEPT ![Target(p)] =
                 [id |-> call[p].id, val |-> call[p].val, created |-> call[p].created]]
    /\ Goto(p, "nonce")
    /\ UNCHANGED <<meta, nonce, side, now, writes, call, histVars>>

WriteNonce(p) ==
    /\ pc[p] = "nonce"
    /\ nonce' = [nonce EXCEPT ![Target(p)] = call[p].id]
    /\ Goto(p, "side")
    /\ UNCHANGED <<meta, ct, side, now, writes, call, histVars>>

\* writeVersionMeta, and whether step 11 has something to evict.
WriteSidecar(p) ==
    /\ pc[p] = "side"
    /\ side' = [side EXCEPT ![Target(p)] = call[p].bound]
    /\ Goto(p, IF Enforced(call[p].meta) # call[p].meta.versions THEN "evict" ELSE "save")
    /\ UNCHANGED <<meta, ct, nonce, now, writes, call, histVars>>

\* Slip: the list is shortened first and the oldest is looked up afterwards.
NextOldest(m) == Enforced(m)[1].v

\* The version whose ciphertext step 11 deletes.
Oldest(m) == m.versions[1].v

Evict(p) ==
    /\ pc[p] = "evict"
    /\ Removing(Oldest(call[p].meta))
    /\ Goto(p, "save")
    /\ UNCHANGED <<meta, nonce, side, now, writes, call, histVars>>

\* The metadata step 12 saves.
SavedMeta(p) == [call[p].meta EXCEPT !.versions = Enforced(call[p].meta)]

\* Step 12
SaveMeta(p) ==
    /\ pc[p] = "save"
    /\ meta' = SavedMeta(p)
    /\ Goto(p, "emit")
    /\ UNCHANGED <<ct, nonce, side, now, writes, call, histVars>>

\* The audit event; when it fails the caller gets ErrAuditFailed, although the
\* value is stored.
Emit(p) ==
    /\ pc[p] = "emit"
    /\ \/ acked' = acked \cup {[v |-> Target(p), val |-> call[p].val]}
       \/ "emit" \in Faults /\ UNCHANGED acked
    /\ Return(p)
    /\ UNCHANGED <<fileVars, now, writes, gone, tried>>

\* A write that fails changes no file.  After the ciphertext or the sidecar the
\* call just returns; after the nonce or the metadata the ciphertext is removed.
WriteFails(p) ==
    /\ "write" \in Faults
    /\ \/ pc[p] \in {"ct", "side", "mark"} /\ Return(p)
       \/ pc[p] \in {"nonce", "save"} /\ Goto(p, "undo") /\ UNCHANGED call
    /\ UNCHANGED <<fileVars, now, writes, histVars>>

Undo(p) ==
    /\ pc[p] = "undo"
    /\ Removing(Target(p))
    /\ Return(p)
    /\ UNCHANGED <<meta, nonce, side, now, writes, histVars>>

-----------------------------------------------------------------------------
\* Rollback: read the metadata, read the old value, RotateValue with it

Rollback(p, v) ==
    /\ pc[p] = "idle"
    /\ "rollback" \in Ops
    /\ writes < MaxWrites
    /\ Usable(meta, v)
    /\ call' = [call EXCEPT ![p] = [NoCall EXCEPT !.op = "rollback", !.v = v]]
    /\ Goto(p, "read")
    /\ UNCHANGED <<fileVars, now, writes, histVars>>

ReadOld(p) ==
    /\ pc[p] = "read"
    /\ IF Readable(call[p].v)
       THEN /\ call' = [call EXCEPT ![p].val = ct[call[p].v].val]
            /\ Goto(p, "rotate")
       ELSE Return(p)
    /\ UNCHANGED <<fileVars, now, writes, histVars>>

\* auditReady, then RotateValue without a limit of its own.
RollbackRotates(p) ==
    /\ pc[p] = "rotate"
    /\ IF "rollback" \in Audited
       THEN writes < MaxWrites /\ Load(p, "rollback", call[p].v, call[p].val, 0)
       ELSE Return(p) /\ UNCHANGED <<fileVars, now, writes, histVars>>

-----------------------------------------------------------------------------
\* DestroyVersion

\* The metadata is read; the current version is protected.
Destroy(p, v) ==
    /\ pc[p] = "idle"
    /\ "destroy" \in Ops
    /\ Usable(meta, v)
    /\ v # meta.cur
    /\ Cardinality(tried \cup {v}) <= MaxDestroys
    /\ call' = [call EXCEPT ![p] = [NoCall EXCEPT !.op = "destroy", !.v = v, !.meta = meta]]
    /\ tried' = tried \cup {v}
    /\ Goto(p, "drop")
    /\ UNCHANGED <<fileVars, now, writes, acked, gone>>

\* Best-effort physical delete.
Drop(p) ==
    /\ pc[p] = "drop"
    /\ Removing(call[p].v)
    /\ Goto(p, "mark")
    /\ UNCHANGED <<meta, nonce, side, now, writes, call, histVars>>

\* DestroyedAt is set whether or not the ciphertext went.
Marked(m, v) == [m EXCEPT !.versions[Entry(m, v)].destroyed = TRUE]

Mark(p) ==
    /\ pc[p] = "mark"
    /\ meta' = Marked(call[p].meta, call[p].v)
    /\ gone' = gone \cup {call[p].v}
    /\ Return(p)
    /\ UNCHANGED <<ct, nonce, side, now, writes, acked, tried>>

-----------------------------------------------------------------------------
\* The environment

Crash(p) ==
    /\ "crash" \in Faults
    /\ pc[p] # "idle"
    /\ Return(p)
    /\ UNCHANGED <<fileVars, now, writes, histVars>>

Tick ==
    /\ now < MaxSec
    /\ "split" \in Faults \/ \A p \in Procs : pc[p] # "bind"
    /\ now' = now + 1
    /\ UNCHANGED <<fileVars, writes, pc, call, histVars>>

Step(p) ==
    \/ Bind(p) \/ WriteCiphertext(p) \/ WriteNonce(p) \/ WriteSidecar(p)
    \/ Evict(p) \/ SaveMeta(p) \/ Emit(p) \/ Undo(p)
    \/ ReadOld(p) \/ RollbackRotates(p)
    \/ Drop(p) \/ Mark(p)

Next ==
    \/ \E p \in Procs :
          \/ Rotate(p)
          \/ \E v \in Version : Rollback(p, v) \/ Destroy(p, v)
          \/ Step(p)
          \/ WriteFails(p)
          \/ Crash(p)
    \/ Tick

Spec == Init /\ [][Next]_vars

-----------------------------------------------------------------------------
\* Properties

Steps == {"idle", "bind", "ct", "nonce", "side", "evict", "save", "emit", "undo",
          "read", "rotate", "drop", "mark"}

MetaType ==
    [cur : 0 .. MaxWrites, max : {DefaultMax} \cup Limits,
     versions : Seq([v : Version, destroyed : BOOLEAN])]

\* Type correctness of the files, the calls and the histories.
TypeOK ==
    /\ meta \in MetaType
    /\ ct \in [Version -> [id : Version, val : Version, created : 1 .. MaxSec] \cup {NoFile}]
    /\ nonce \in [Version -> Version \cup {None}]
    /\ side \in [Version -> (1 .. MaxSec) \cup {None}]
    /\ now \in 1 .. MaxSec
    /\ writes \in 0 .. MaxWrites
    /\ pc \in [Procs -> Steps]
    /\ call \in [Procs -> [op : Ops \cup {"rotate"}, v : 0 .. MaxWrites,
                           val : 0 .. MaxWrites, id : 0 .. MaxWrites,
                           created : 0 .. MaxSec, bound : 0 .. MaxSec, meta : MetaType]]
    /\ acked \subseteq [v : Version, val : Version]
    /\ gone \subseteq tried
    /\ tried \subseteq Version

\* Whatever failed or crashed, the current version is listed and can be read, and
\* no version that RotateValue reported is newer.
CurrentIntact ==
    meta.cur > 0 =>
        /\ Usable(meta, meta.cur) /\ Readable(meta.cur)
        /\ \A a \in acked : a.v <= meta.cur

\* GetVersion never returns another value for a version than the one that
\* RotateValue or Rollback reported to have stored there, although a later call
\* writes over the files that a failed one has left.
ServedAsWritten == \A a \in acked : Served(a.v) => ct[a.v].val = a.val

\* A listed version that is not marked as destroyed has lost its value only if
\* its destruction was begun or it is the next one to be evicted: a rotation
\* that dies half-way costs no other version.
ListedReadable ==
    meta.cur > 0 =>
        \A i \in DOMAIN meta.versions :
            LET e == meta.versions[i]
            IN  ~ e.destroyed => Readable(e.v) \/ e.v \in tried \/ i = 1

\* A version whose destruction DestroyVersion reported is never served again,
\* even if its file could not be removed.
DestroyedStaysDestroyed == \A v \in gone : ~ Served(v)

\* RotateValue never reports the same version number to two writes.
VersionsUnique == \A a, b \in acked : a.v = b.v => a = b

\* A rotation or a rollback moves the version counter up, nothing moves it down.
CounterNeverFalls == [][meta'.cur >= meta.cur]_meta

\* Once the list is longer than its limit (a lower limit was given) no save makes
\* it longer still, and a list within its limit stays within it.
ListKeepsLimit ==
    [][\/ Len(meta'.versions) <= meta'.max
       \/ Len(meta'.versions) <= Len(meta.versions)]_meta

\* The versions of a secret when any write of a rotation, a rollback or a
\* destruction fails or is the last before a crash: the current value is
\* readable, a version keeps its value and its number, what was destroyed stays
\* so, the counter never falls and the list keeps its limit.
VersionsHold ==
    /\ [](/\ TypeOK /\ CurrentIntact /\ ServedAsWritten /\ ListedReadable
          /\ DestroyedStaysDestroyed /\ VersionsUnique)
    /\ CounterNeverFalls
    /\ ListKeepsLimit
=============================================================================
