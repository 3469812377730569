------------------------------ MODULE AuditLog ------------------------------
(***************************************************************************)
(* The audit log (src/internal/audit): lines chained by sequence number    *)
(* and HMAC, one Logger per process.  A Logger's mutex is held through     *)
(* Log, Rotate and Prune, so that each process is one actor, but nothing   *)
(* keeps the Loggers of two processes apart.  Every system call that       *)
(* another process can see is a step of its own.                           *)
(***************************************************************************)
EXTENDS Integers, Sequences, FiniteSets

CONSTANTS
    Proc,     \* processes
    Ops,      \* which of "rotate", "prune", "sweep" happen
    Faults,   \* which of "crash", "write", "sync", "rename", "open" happen
    Retain,   \* retainFiles
    MaxSize,  \* maxSize, in lines
    MaxLine,  \* bound: lines ever written
    MaxFile,  \* bound: files ever created
    MaxFault  \* bound: faults

ASSUME OpsAssumption    == Ops \subseteq {"rotate", "prune", "sweep"}
ASSUME FaultsAssumption == Faults \subseteq {"crash", "write", "sync", "rename", "open"}
ASSUME SizeAssumption   == /\ Retain \in Nat \ {0} /\ MaxSize \in Nat
                           /\ MaxLine \in Nat /\ MaxFile \in Nat /\ MaxFault \in Nat

\* A line: its id, which stands for its HMAC; the header's seq, 0 if it cannot
\* be parsed, and prev_hmac, 0 for the zeros of a first line; prev_file_hmac of
\* a "continued" sentinel.  A "torn" line has no newline; what is appended next
\* makes it a "glued" one, with the id of what it swallowed.  Neither can be
\* decoded.
Kind == {"event", "rotated", "continued", "torn", "glued"}
Line == [id : 1..MaxLine, seq : Nat, prev : 0..MaxLine, from : 0..MaxLine, kind : Kind]

Inode == 1..MaxFile

PC == {"down",      \* no Logger
       "idle",
       "sync",      \* Log: line written, not synced
       "mark",      \* rotate: about to write the rotation sentinel
       "marksync",
       "shift",     \*    renames path.g to path.(g+1), path.0 is the log itself
       "open",      \*    the log is renamed away
       "keep",      \* keepCurrent
       "cont",      \*    about to write the rotation-continued sentinel
       "contsync",
       "swap",      \* Prune: temporary file written, not renamed
       "reopen",    \*    renamed, not opened
       "broken"}    \*    l.file is closed but not nil: every call fails

VARIABLES
    file,   \* file[i]: the lines of inode i
    files,  \* how many inodes were ever created
    lines,  \* how many lines were ever written
    dir,    \* dir[0]: the inode of the log; dir[g]: of generation g; 0 if absent
    pc,     \* pc[p]
    fd,     \* fd[p]: the inode of l.file, 0 for nil
    seq,    \* seq[p], prev[p]: the chain state
    prev,
    held,   \* held[p]: nextRotate is in the future
    own,    \* own[p]: id of the line p wrote last
    pend,   \* pend[p]: id of the event being logged, 0 in Rotate
    at,     \* at[p]: the next generation to shift
    link,   \* link[p]: prevHMACForNewFile
    tmp,    \* tmp[p]: the inode of Prune's temporary file
    acked,  \* history: events for which Log returned nil
    aged,   \* history: lines removed by retention: pruned, or of the oldest file
    marred, \* history: inodes with a failed write or fsync, and Prune's copies
    faults  \* how many faults there were

fileVars == <<file, files, lines, dir>>
procVars == <<pc, fd, seq, prev, held, own, pend, at, link, tmp>>
vars == <<fileVars, procVars, acked, aged, marred, faults>>

Init ==
    /\ file = [i \in Inode |-> <<>>] /\ files = 0 /\ lines = 0
    /\ dir = [g \in 0..Retain |-> 0]
    /\ pc = [p \in Proc |-> "down"] /\ fd = [p \in Proc |-> 0]
    /\ seq = [p \in Proc |-> 0] /\ prev = [p \in Proc |-> 0]
    /\ held = [p \in Proc |-> FALSE] /\ pend = [p \in Proc |-> 0]
    /\ own = [p \in Proc |-> 0]
    /\ at = [p \in Proc |-> 0] /\ link = [p \in Proc |-> 0] /\ tmp = [p \in Proc |-> 0]
    /\ acked = {} /\ aged = {} /\ marred = {} /\ faults = 0

Goto(p, l) == pc' = [pc EXCEPT ![p] = l]

Ids(i) == {file[i][n].id : n \in DOMAIN file[i]}
Torn(f) == f # <<>> /\ f[Len(f)].kind = "torn"

\* One Write to p's file; O_APPEND puts it at the end.
WriteLine(p, kind, from) ==
    LET f   == file[fd[p]]
        new == [id |-> lines + 1, seq |-> seq[p] + 1, prev |-> prev[p], from |-> from, kind |-> kind]
    IN  /\ lines < MaxLine
        /\ lines' = lines + 1
        /\ own' = [own EXCEPT ![p] = lines + 1]
        /\ file' = [file EXCEPT ![fd[p]] =
              IF Torn(f) THEN [f EXCEPT ![Len(f)] = [@ EXCEPT !.id = new.id, !.kind = "glued"]]
              ELSE Append(f, new)]
        /\ UNCHANGED <<files, dir>>

Fault(f) == f \in Faults /\ faults < MaxFault /\ faults' = faults + 1

Mar(i) == marred' = marred \cup {i}

\* A Write that fails, after some bytes: the header's seq may be among them.
ShortWrite(p) ==
    LET f == file[fd[p]]
    IN  /\ Fault("write") /\ lines < MaxLine
        /\ lines' = lines + 1
        /\ \E s \in {0, seq[p] + 1} :
              file' = [file EXCEPT ![fd[p]] =
                 IF Torn(f) THEN [f EXCEPT ![Len(f)] = [@ EXCEPT !.id = lines + 1]]
                 ELSE Append(f, [id |-> lines + 1, seq |-> s, prev |-> prev[p], from |-> 0, kind |-> "torn"])]
        /\ Mar(fd[p])
        /\ UNCHANGED <<files, dir>>

\* p's line is synced: the chain state advances to it.
Advance(p) ==
    /\ seq' = [seq EXCEPT ![p] = @ + 1]
    /\ prev' = [prev EXCEPT ![p] = own[p]]

\* openFile: opens the log for p, or creates it.
OpenFile(p) ==
    IF dir[0] # 0
    THEN fd' = [fd EXCEPT ![p] = dir[0]] /\ UNCHANGED <<files, dir>>
    ELSE /\ files < MaxFile
         /\ files' = files + 1
         /\ dir' = [dir EXCEPT ![0] = files + 1]
         /\ fd' = [fd EXCEPT ![p] = files + 1]

LastSeq(f) == IF f = <<>> THEN 0 ELSE f[Len(f)].seq

\* seedChainState, from the last line of f if its header can be parsed.
Seed(p, f) ==
    /\ seq'  = [seq  EXCEPT ![p] = LastSeq(f)]
    /\ prev' = [prev EXCEPT ![p] = IF LastSeq(f) = 0 THEN 0 ELSE f[Len(f)].id]

LogLines == IF dir[0] = 0 THEN <<>> ELSE file[dir[0]]

\* A log whose last line cannot be parsed is refused.
OpenAndSeed(p) ==
    /\ LogLines = <<>> \/ LastSeq(LogLines) # 0
    /\ OpenFile(p) /\ Seed(p, LogLines)
    /\ UNCHANGED <<file, lines>>

-----------------------------------------------------------------------------
\* Opening, closing, process death

Open(p) ==
    /\ pc[p] = "down"
    /\ OpenAndSeed(p)
    /\ Goto(p, "idle")
    /\ UNCHANGED <<own, held, pend, at, link, tmp, acked, aged, marred, faults>>

\* ensureFile: a Logger whose last rotation left it without a file.
Reopen(p) ==
    /\ pc[p] = "idle" /\ fd[p] = 0
    /\ OpenAndSeed(p)
    /\ UNCHANGED <<own, pc, held, pend, at, link, tmp, acked, aged, marred, faults>>

\* Close between two calls, or process death at any point.
Stop(p) ==
    /\ pc[p] # "down"
    /\ IF pc[p] \in {"idle", "broken"} THEN UNCHANGED faults ELSE Fault("crash")
    /\ Goto(p, "down")
    /\ fd' = [fd EXCEPT ![p] = 0]     /\ seq' = [seq EXCEPT ![p] = 0]
    /\ prev' = [prev EXCEPT ![p] = 0] /\ held' = [held EXCEPT ![p] = FALSE]
    /\ pend' = [pend EXCEPT ![p] = 0] /\ at' = [at EXCEPT ![p] = 0]
    /\ own' = [own EXCEPT ![p] = 0]
    /\ link' = [link EXCEPT ![p] = 0] /\ tmp' = [tmp EXCEPT ![p] = 0]
    /\ UNCHANGED <<fileVars, acked, aged, marred>>

RetryDue(p) ==
    /\ held[p]
    /\ held' = [held EXCEPT ![p] = FALSE]
    /\ UNCHANGED <<own, fileVars, pc, fd, seq, prev, pend, at, link, tmp, acked, aged, marred, faults>>

-----------------------------------------------------------------------------
\* Log

\* Log or Rotate returns; Log with nil if ok.
Return(p, ok) ==
    /\ Goto(p, "idle")
    /\ pend' = [pend EXCEPT ![p] = 0]
    /\ at' = [at EXCEPT ![p] = 0] /\ link' = [link EXCEPT ![p] = 0]
    /\ acked' = IF ok THEN acked \cup ({pend[p]} \ {0}) ELSE acked

\* rotate failed; appendEvent goes on if there is still a file.
RotateFailed(p, ok) ==
    /\ Return(p, ok)
    /\ held' = [held EXCEPT ![p] = @ \/ pend[p] # 0]

Log(p) ==
    /\ pc[p] = "idle" /\ fd[p] # 0
    /\ WriteLine(p, "event", 0)
    /\ pend' = [pend EXCEPT ![p] = lines + 1]
    /\ Goto(p, "sync")
    /\ UNCHANGED <<fd, seq, prev, held, at, link, tmp, acked, aged, marred, faults>>

LogShortWrite(p) ==
    /\ pc[p] = "idle" /\ fd[p] # 0
    /\ ShortWrite(p)
    /\ UNCHANGED <<procVars, acked, aged>>

RotateDue(p) == Len(file[fd[p]]) > MaxSize /\ ~held[p]

LogSynced(p) ==
    /\ pc[p] = "sync"
    /\ Advance(p)
    /\ IF RotateDue(p) THEN Goto(p, "mark") /\ UNCHANGED <<pend, at, link, acked>>
       ELSE Return(p, TRUE)
    /\ UNCHANGED <<own, fileVars, fd, held, tmp, aged, marred, faults>>

\* The chain state stays where it was, the line stays in the file.
LogSyncFails(p) ==
    /\ pc[p] = "sync" /\ Fault("sync")
    /\ Mar(fd[p])
    /\ Return(p, FALSE)
    /\ UNCHANGED <<own, fileVars, fd, seq, prev, held, tmp, aged>>

-----------------------------------------------------------------------------
\* rotate

HasFile(p) == fd[p] # 0

Rotate(p) ==
    /\ pc[p] = "idle" /\ HasFile(p) /\ "rotate" \in Ops
    /\ Goto(p, "mark")
    /\ UNCHANGED <<own, fileVars, fd, seq, prev, held, pend, at, link, tmp, acked, aged, marred, faults>>

Mark(p) ==
    /\ pc[p] = "mark"
    /\ WriteLine(p, "rotated", 0)
    /\ Goto(p, "marksync")
    /\ UNCHANGED <<fd, seq, prev, held, pend, at, link, tmp, acked, aged, marred, faults>>

\* Slip: the HMAC is taken before the sentinel is written.
LinkToBefore(p) == prev[p]

\* The line to which the new file will link: the sentinel.
LinkTo(p) == own[p]

\* Slip: no shift before the log is renamed.
ShiftFromLog == 0

\* The generation that is shifted, or removed, first.
ShiftFrom == Retain

\* The sentinel is synced, its HMAC remembered and the file closed.
MarkSynced(p) ==
    /\ pc[p] = "marksync"
    /\ Advance(p)
    /\ link' = [link EXCEPT ![p] = LinkTo(p)]
    /\ fd' = [fd EXCEPT ![p] = 0]
    /\ at' = [at EXCEPT ![p] = ShiftFrom]
    /\ Goto(p, "shift")
    /\ UNCHANGED <<own, fileVars, held, pend, tmp, acked, aged, marred, faults>>

\* shiftGenerations, one system call at a time: the oldest is removed ...
RemoveOldest(p) ==
    /\ pc[p] = "shift" /\ at[p] = Retain
    /\ dir' = [dir EXCEPT ![Retain] = 0]
    /\ aged' = IF dir[Retain] = 0 THEN aged ELSE aged \cup Ids(dir[Retain])
    /\ at' = [at EXCEPT ![p] = Retain - 1]
    /\ UNCHANGED <<own, file, files, lines, pc, fd, seq, prev, held, pend, link, tmp, acked, marred, faults>>

\* ... and the others move up, from the highest.
Shift(p) ==
    LET g == at[p]
    IN  /\ pc[p] = "shift" /\ g \in 1..Retain - 1
        /\ dir' = IF dir[g] = 0 THEN dir ELSE [dir EXCEPT ![g + 1] = dir[g], ![g] = 0]
        /\ at' = [at EXCEPT ![p] = g - 1]
        /\ UNCHANGED <<own, file, files, lines, pc, fd, seq, prev, held, pend, link, tmp, acked, aged, marred, faults>>

\* The generation the log becomes.
Newest == 1

RenameLog(p) ==
    /\ pc[p] = "shift" /\ at[p] = 0 /\ dir[0] # 0
    /\ dir' = [dir EXCEPT ![Newest] = dir[0], ![0] = 0]
    /\ Goto(p, "open")
    /\ UNCHANGED <<own, file, files, lines, fd, seq, prev, held, pend, at, link, tmp, acked, aged, marred, faults>>

RenameFails(p) ==
    /\ pc[p] = "shift"
    /\ Fault("rename") \/ (at[p] = 0 /\ dir[0] = 0 /\ UNCHANGED faults)
    /\ Goto(p, "keep")
    /\ UNCHANGED <<own, fileVars, fd, seq, prev, held, pend, at, link, tmp, acked, aged, marred>>

\* A new file begins a new chain.
StartChain(p) == seq' = [seq EXCEPT ![p] = 0] /\ prev' = [prev EXCEPT ![p] = 0]

OpenNew(p) ==
    /\ pc[p] = "open"
    /\ OpenFile(p)
    /\ StartChain(p)
    /\ Goto(p, "cont")
    /\ UNCHANGED <<own, file, lines, held, pend, at, link, tmp, acked, aged, marred, faults>>

\* The generation becomes the log again.
Restore == dir[Newest] # 0 /\ dir' = [dir EXCEPT ![0] = dir[Newest], ![Newest] = 0]

\* The new file cannot be opened: the full one is put back.
OpenNewFails(p) ==
    /\ pc[p] = "open" /\ Fault("open")
    /\ Restore
    /\ Goto(p, "keep")
    /\ UNCHANGED <<own, file, files, lines, fd, seq, prev, held, pend, at, link, tmp, acked, aged, marred>>

\* Not even that: the Logger has no file.
RestoreFails(p) ==
    /\ pc[p] = "open" /\ Fault("open")
    /\ "rename" \in Faults \/ dir[Newest] = 0
    /\ RotateFailed(p, FALSE)
    /\ UNCHANGED <<own, fileVars, fd, seq, prev, tmp, aged, marred>>

\* keepCurrent reopens the log and keeps the chain state.
KeepCurrent(p) ==
    /\ pc[p] = "keep"
    /\ OpenFile(p)
    /\ RotateFailed(p, TRUE)
    /\ UNCHANGED <<own, file, lines, seq, prev, tmp, aged, marred, faults>>

KeepCurrentFails(p) ==
    /\ pc[p] = "keep" /\ Fault("open")
    /\ RotateFailed(p, FALSE)
    /\ UNCHANGED <<own, fileVars, fd, seq, prev, tmp, aged, marred>>

Continue(p) ==
    /\ pc[p] = "cont"
    /\ WriteLine(p, "continued", link[p])
    /\ Goto(p, "contsync")
    /\ UNCHANGED <<fd, seq, prev, held, pend, at, link, tmp, acked, aged, marred, faults>>

ContinueSynced(p) ==
    /\ pc[p] = "contsync"
    /\ Advance(p)
    /\ Return(p, TRUE)
    /\ UNCHANGED <<own, fileVars, fd, held, tmp, aged, marred, faults>>

\* A sentinel cannot be written ...
SentinelShortWrite(p) ==
    /\ pc[p] \in {"mark", "cont"}
    /\ ShortWrite(p)
    /\ RotateFailed(p, TRUE)
    /\ UNCHANGED <<own, fd, seq, prev, tmp, aged>>

\* ... or not synced.
SentinelSyncFails(p) ==
    /\ pc[p] \in {"marksync", "contsync"} /\ Fault("sync")
    /\ Mar(fd[p])
    /\ RotateFailed(p, TRUE)
    /\ UNCHANGED <<own, fileVars, fd, seq, prev, tmp, aged>>

-----------------------------------------------------------------------------
\* Prune and the retention sweep

Decodable(l) == l.kind \in {"event", "rotated", "continued"}

\* A line as Prune writes it: with a newline.
Ended(l) == IF l.kind = "torn" THEN [l EXCEPT !.kind = "glued"] ELSE l

\* The lines that are kept when the first n are older than the cutoff: the
\* others, and those that cannot be decoded.
Kept(f, n) ==
    LET keep[m \in 0..Len(f)] ==
          IF m = 0 THEN <<>>
          ELSE IF m <= n /\ Decodable(f[m]) THEN keep[m - 1]
          ELSE Append(keep[m - 1], Ended(f[m]))
    IN  keep[Len(f)]

\* Prune writes the lines it keeps to a temporary file ...
PruneCopy(p) ==
    LET f == file[fd[p]]
    IN  /\ pc[p] = "idle" /\ fd[p] # 0 /\ "prune" \in Ops /\ files < MaxFile
        /\ \E n \in 1..Len(f) :
              /\ Len(Kept(f, n)) < Len(f)
              /\ file' = [file EXCEPT ![files + 1] = Kept(f, n)]
        /\ files' = files + 1
        /\ tmp' = [tmp EXCEPT ![p] = files + 1]
        /\ Mar(files + 1)
        /\ Goto(p, "swap")
        /\ UNCHANGED <<own, lines, dir, fd, seq, prev, held, pend, at, link, acked, aged, faults>>

\* ... renames it over the log ...
PruneRename(p) ==
    /\ pc[p] = "swap"
    /\ dir' = [dir EXCEPT ![0] = tmp[p]]
    /\ aged' = aged \cup (Ids(fd[p]) \ Ids(tmp[p]))
    /\ fd' = [fd EXCEPT ![p] = 0]
    /\ tmp' = [tmp EXCEPT ![p] = 0]
    /\ Goto(p, "reopen")
    /\ UNCHANGED <<own, file, files, lines, seq, prev, held, pend, at, link, acked, marred, faults>>

\* ... and opens the log, even one whose last line cannot be parsed.
PruneReopen(p) ==
    /\ pc[p] = "reopen"
    /\ OpenFile(p) /\ Seed(p, LogLines)
    /\ Goto(p, "idle")
    /\ UNCHANGED <<own, file, lines, held, pend, at, link, tmp, acked, aged, marred, faults>>

\* The rename fails: the log is opened, the chain state unchanged.
PruneRenameFails(p) ==
    /\ pc[p] = "swap" /\ Fault("rename")
    /\ OpenFile(p)
    /\ tmp' = [tmp EXCEPT ![p] = 0]
    /\ Goto(p, "idle")
    /\ UNCHANGED <<own, file, lines, seq, prev, held, pend, at, link, acked, aged, marred>>

\* The log cannot be opened again.
PruneReopenFails(p) ==
    /\ pc[p] = "reopen" /\ Fault("open")
    /\ Goto(p, "broken")
    /\ UNCHANGED <<own, fileVars, fd, seq, prev, held, pend, at, link, tmp, acked, aged, marred>>

\* RunAuditRetentionSweep: the generations from g on are old enough; an older
\* generation was written earlier.
Sweep(g) ==
    /\ "sweep" \in Ops /\ dir[g] # 0
    /\ dir' = [h \in 0..Retain |-> IF h >= g THEN 0 ELSE dir[h]]
    /\ aged' = aged \cup UNION {Ids(dir[h]) : h \in {h \in g..Retain : dir[h] # 0}}
    /\ UNCHANGED <<file, files, lines, procVars, acked, marred, faults>>

-----------------------------------------------------------------------------
Next ==
    \/ \E p \in Proc :
          \/ Open(p) \/ Reopen(p) \/ Stop(p) \/ RetryDue(p)
          \/ Log(p) \/ LogShortWrite(p) \/ LogSynced(p) \/ LogSyncFails(p)
          \/ Rotate(p) \/ Mark(p) \/ MarkSynced(p)
          \/ RemoveOldest(p) \/ Shift(p) \/ RenameLog(p) \/ RenameFails(p)
          \/ OpenNew(p) \/ OpenNewFails(p) \/ RestoreFails(p)
          \/ KeepCurrent(p) \/ KeepCurrentFails(p)
          \/ Continue(p) \/ ContinueSynced(p)
          \/ SentinelShortWrite(p) \/ SentinelSyncFails(p)
          \/ PruneCopy(p) \/ PruneRename(p) \/ PruneReopen(p)
          \/ PruneRenameFails(p) \/ PruneReopenFails(p)
    \/ \E g \in 1..Retain : Sweep(g)

Spec == Init /\ [][Next]_vars

-----------------------------------------------------------------------------
\* Properties

Present == {dir[g] : g \in 0..Retain} \ {0}

TypeOK ==
    /\ file \in [Inode -> Seq(Line)] /\ files \in 0..MaxFile /\ lines \in 0..MaxLine
    /\ dir \in [0..Retain -> 0..files]
    /\ pc \in [Proc -> PC] /\ fd \in [Proc -> 0..files] /\ tmp \in [Proc -> 0..files]
    /\ seq \in [Proc -> Nat] /\ prev \in [Proc -> 0..lines] /\ held \in [Proc -> BOOLEAN]
    /\ own \in [Proc -> 0..lines] /\ pend \in [Proc -> 0..lines]
    /\ at \in [Proc -> 0..Retain] /\ link \in [Proc -> 0..lines]
    /\ acked \subseteq 1..lines /\ aged \subseteq 1..lines /\ marred \subseteq 1..files
    /\ faults \in 0..MaxFault
    /\ \A p \in Proc : pc[p] \in {"sync", "mark", "marksync", "cont", "contsync", "swap"} => fd[p] # 0

\* An event for which Log returned nil is in one of the files until retention
\* removes it, and it can be decoded unless a write to its file failed.
AckedOnDisk ==
    \A e \in acked \ aged :
        \E i \in Present : \E n \in DOMAIN file[i] :
            file[i][n].id = e /\ (Decodable(file[i][n]) \/ i \in marred)

\* VerifyChain finds no bad line: seq counts from 1 and prev_hmac is the HMAC
\* of the line before.
VerifyChain(f) ==
    \A n \in DOMAIN f :
        /\ f[n].seq = n /\ Decodable(f[n])
        /\ f[n].prev = IF n = 1 THEN 0 ELSE f[n - 1].id

\* Every file passes verification at any moment, also in the middle of a rotation
\* and after a crash, except one in which a write or an fsync failed and one that
\* Prune has rewritten.  No failure spreads to another file.
ChainVerifies == \A i \in Present \ marred : VerifyChain(file[i])

\* A rotation-continued sentinel at the head of a file names the last line of the
\* file before it, the rotation sentinel, so that the chain can be followed across
\* files although rotations fail half-way and generations are shifted and removed.
LinksHold ==
    \A g \in 0..Retain - 1 :
        dir[g] # 0 /\ dir[g + 1] # 0 /\ file[dir[g]] # <<>> /\ file[dir[g]][1].kind = "continued" =>
            \/ {dir[g], dir[g + 1]} \cap marred # {}
            \/ LET old == file[dir[g + 1]]
               IN  /\ old # <<>> /\ old[Len(old)].kind = "rotated"
                   /\ file[dir[g]][1].from = old[Len(old)].id

\* The hash chain holds inside every file and across the files of a rotation,
\* whatever write, fsync, rename or open failed and wherever the logger died.
\* The parts name the exceptions.  With it the types, on which the chain rests.
ChainHolds == TypeOK /\ ChainVerifies /\ LinksHold
=============================================================================
