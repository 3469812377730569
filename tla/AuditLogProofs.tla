--------------------------- MODULE AuditLogProofs ---------------------------
(***************************************************************************)
(* Proofs about the audit log, for every number of generations, files,     *)
(* lines and faults and every size of the log.  The types need no          *)
(* assumption; that events stay on disk and that the chain verifies needs  *)
(* a single process, because the Loggers of two processes do not exclude   *)
(* each other.                                                             *)
(***************************************************************************)
EXTENDS AuditLog, WellFoundedInduction, TLAPS

-----------------------------------------------------------------------------
\* Lines

WrittenKind == {"event", "rotated", "continued"}

\* The fields of a line.
LEMMA LineType ==
    ASSUME NEW l \in Line
    PROVE  l.id \in Nat /\ l.id # 0 /\ l.id <= MaxLine /\ l.seq \in Nat /\ l.kind \in Kind
  BY SizeAssumption DEF Line

\* The lines of a file.
LEMMA LinesType ==
    ASSUME NEW f \in Seq(Line)
    PROVE  /\ \A n \in DOMAIN f : f[n] \in Line /\ f[n].id \in Nat /\ f[n].id # 0 /\ f[n].seq \in Nat
           /\ DOMAIN f = 1..Len(f) /\ Len(f) \in Nat
           /\ f # <<>> => Len(f) \in DOMAIN f
  <1>1. \A n \in DOMAIN f : f[n] \in Line
    OBVIOUS
  <1>2. \A n \in DOMAIN f : f[n].id \in Nat /\ f[n].id # 0 /\ f[n].seq \in Nat
    BY <1>1, LineType
  <1> QED BY <1>1, <1>2

\* What Prune writes for a line: the line, ended if it was torn.
LEMMA EndedType ==
    ASSUME NEW l \in Line
    PROVE  Ended(l) \in Line /\ Ended(l).id = l.id /\ Ended(l).kind # "torn"
  BY DEF Line, Kind, Ended

-----------------------------------------------------------------------------
\* Prune's copy.  Kept is a recursive function; what it computes is shown by
\* the least counterexample.

\* A nonempty set of natural numbers has a least element.
LEMMA LeastNatural ==
    ASSUME NEW T \in SUBSET Nat, T # {}
    PROVE  \E n \in T : \A m \in T : n <= m
  <1> DEFINE R == {ss \in Nat \X Nat : ss[1] < ss[2]}
  <1>1. OpToRel(<, Nat) = R
    BY Zenon DEF OpToRel
  <1>2. IsWellFoundedOn(R, Nat)
    BY <1>1, NatLessThanWellFounded, Zenon
  <1>3. PICK n \in T : \A m \in T : ~(<<m, n>> \in R)
    BY <1>2, WFMin, Zenon
  <1>4. ASSUME NEW m \in T PROVE n <= m
    <2>1. <<m, n>> \in Nat \X Nat /\ <<m, n>>[1] = m /\ <<m, n>>[2] = n
      OBVIOUS
    <2>2. ~(m < n)
      BY <1>3, <2>1, Zenon
    <2> QED BY <2>2
  <1> QED BY <1>4

\* The lines Prune keeps are lines of the file, none of them torn.
LEMMA KeptType ==
    ASSUME NEW f \in Seq(Line), NEW n \in Nat, NEW top \in Nat,
           \A m \in DOMAIN f : f[m].id <= top
    PROVE  /\ Kept(f, n) \in Seq(Line)
           /\ \A m \in DOMAIN Kept(f, n) : Kept(f, n)[m].id <= top /\ Kept(f, n)[m].kind # "torn"
  <1> DEFINE Body(F, m) == IF m = 0 THEN <<>>
                           ELSE IF m <= n /\ Decodable(f[m]) THEN F[m - 1]
                           ELSE Append(F[m - 1], Ended(f[m]))
             Is(F, k) == F = [m \in 0..k |-> Body(F, m)]
             G == CHOOSE F : Is(F, Len(f))
             Has(k) == \E F : Is(F, k)
             None == {k \in 0..Len(f) : ~Has(k)}
  <1>1. Kept(f, n) = G[Len(f)]
    BY DEF Kept
  <1>2. Has(0)
    <2>1. Is([m \in 0..0 |-> <<>>], 0)
      OBVIOUS
    <2> QED BY <2>1
  <1>3. ASSUME NEW k \in 0..Len(f) - 1, NEW F, Is(F, k) PROVE Has(k + 1)
    <2> DEFINE H == [m \in 0..k + 1 |-> IF m <= k THEN F[m] ELSE Body(F, m)]
    <2>1. ASSUME NEW m \in 0..k + 1 PROVE H[m] = Body(H, m)
      <3>1. m # 0 => H[m - 1] = F[m - 1]
        OBVIOUS
      <3>2. Body(H, m) = Body(F, m)
        BY <3>1
      <3>3. m \in 0..k => F[m] = Body(F, m)
        BY <1>3, Zenon
      <3> HIDE DEF Body
      <3> QED BY <3>2, <3>3
    <2>2. H = [m \in 0..k + 1 |-> Body(H, m)]
      BY <2>1
    <2>3. Is(H, k + 1)
      BY <2>2
    <2> QED BY <2>3
  <1>4. \A k \in 0..Len(f) - 1 : Has(k) => Has(k + 1)
    BY <1>3, Zenon
  <1> HIDE DEF Is, Has
  <1>5. None = {}
    <2> SUFFICES ASSUME None # {} PROVE FALSE
      OBVIOUS
    <2>1. None \in SUBSET Nat
      OBVIOUS
    <2>2. PICK k \in None : \A j \in None : k <= j
      BY <2>1, LeastNatural
    <2>3. k \in 0..Len(f) /\ ~Has(k)
      OBVIOUS
    <2>4. k # 0
      BY <2>3, <1>2, Zenon
    <2>5. k - 1 \in 0..Len(f) - 1 /\ k - 1 \in 0..Len(f) /\ k - 1 \notin None /\ (k - 1) + 1 = k
      BY <2>2, <2>3, <2>4
    <2>6. Has(k - 1)
      BY <2>5
    <2>7. Has((k - 1) + 1)
      BY <2>5, <2>6, <1>4, Zenon
    <2> QED BY <2>3, <2>5, <2>7, Zenon
  <1>6. Is(G, Len(f))
    <2>1. Len(f) \in 0..Len(f)
      OBVIOUS
    <2>2. Has(Len(f))
      BY <2>1, <1>5
    <2> QED BY <2>2, Zenon DEF Has
  <1> HIDE DEF G
  <1>7. \A m \in 0..Len(f) : G[m] = Body(G, m)
    BY <1>6 DEF Is
  <1> DEFINE Good(s) == s \in Seq(Line) /\ \A m \in DOMAIN s : s[m].id <= top /\ s[m].kind # "torn"
             Bad == {k \in 0..Len(f) : ~Good(G[k])}
  <1>8. \A s : \A l \in Line : Good(s) /\ l.id <= top /\ l.kind # "torn" => Good(Append(s, l))
    OBVIOUS
  <1>9. Good(<<>>)
    OBVIOUS
  <1> HIDE DEF Good
  <1>10. Bad = {}
    <2> SUFFICES ASSUME Bad # {} PROVE FALSE
      OBVIOUS
    <2>1. Bad \in SUBSET Nat
      OBVIOUS
    <2>2. PICK k \in Bad : \A j \in Bad : k <= j
      BY <2>1, LeastNatural
    <2>3. k \in 0..Len(f) /\ ~Good(G[k])
      OBVIOUS
    <2>4. G[k] = Body(G, k)
      BY <1>7
    <2>5. k # 0
      BY <2>3, <2>4, <1>9
    <2>6. k - 1 \in 0..Len(f) /\ k - 1 \notin Bad
      BY <2>2, <2>3, <2>5
    <2>7. Good(G[k - 1])
      BY <2>6
    <2>8. Ended(f[k]) \in Line /\ Ended(f[k]).id <= top /\ Ended(f[k]).kind # "torn"
      BY <2>3, <2>5, EndedType
    <2>9. G[k] \in {G[k - 1], Append(G[k - 1], Ended(f[k]))}
      BY <2>4, <2>5
    <2> QED BY <2>3, <2>7, <2>8, <2>9, <1>8
  <1> QED BY <1>1, <1>10 DEF Good

-----------------------------------------------------------------------------
\* Types

\* What is on disk beside the types: ids are those of lines written so far, and
\* an inode that was not created is empty.
FilesInv ==
    /\ \A i \in Inode : \A n \in DOMAIN file[i] : file[i][n].id <= lines
    /\ \A i \in Inode : i > files => file[i] = <<>>

Typed == TypeOK /\ FilesInv

\* The values of one process, of one file and of the directory.
LEMMA ProcType ==
    ASSUME Typed, NEW p \in Proc
    PROVE  /\ pc[p] \in PC /\ fd[p] \in 0..files /\ tmp[p] \in 0..files
           /\ seq[p] \in Nat /\ prev[p] \in 0..lines /\ held[p] \in BOOLEAN
           /\ own[p] \in 0..lines /\ pend[p] \in 0..lines
           /\ at[p] \in 0..Retain /\ link[p] \in 0..lines
           /\ pc[p] \in {"sync", "mark", "marksync", "cont", "contsync", "swap"} => fd[p] # 0
  BY DEF Typed, TypeOK

\* The files, and the inodes a process or a name can refer to.
LEMMA FileType ==
    ASSUME Typed
    PROVE  /\ files \in 0..MaxFile /\ lines \in 0..MaxLine /\ files \in Nat /\ lines \in Nat
           /\ \A i \in 0..files : i # 0 => i \in Inode
           /\ \A i \in Inode : /\ file[i] \in Seq(Line)
                               /\ \A n \in DOMAIN file[i] : file[i][n].id <= lines
           /\ file \in [Inode -> Seq(Line)]
  BY SizeAssumption DEF Typed, TypeOK, FilesInv, Inode

\* A line at the end of a file.
LEMMA AppendLine ==
    ASSUME NEW f \in Seq(Line), NEW top \in Nat, \A n \in DOMAIN f : f[n].id <= top,
           NEW l \in Line, l.id = top + 1
    PROVE  Append(f, l) \in Seq(Line) /\ \A n \in DOMAIN Append(f, l) : Append(f, l)[n].id <= top + 1
  <1>1. \A n \in DOMAIN f : f[n] \in Line /\ f[n].id \in Nat
    BY LinesType
  <1> QED BY <1>1

\* Another line in place of the last.
LEMMA ReplaceLast ==
    ASSUME NEW f \in Seq(Line), f # <<>>, NEW top \in Nat, \A n \in DOMAIN f : f[n].id <= top,
           NEW l \in Line, l.id = top + 1
    PROVE  /\ [f EXCEPT ![Len(f)] = l] \in Seq(Line)
           /\ \A n \in DOMAIN [f EXCEPT ![Len(f)] = l] : [f EXCEPT ![Len(f)] = l][n].id <= top + 1
  <1>1. \A n \in DOMAIN f : f[n] \in Line /\ f[n].id \in Nat
    BY LinesType
  <1>2. Len(f) \in DOMAIN f
    OBVIOUS
  <1> QED BY <1>1, <1>2

\* A file replaced by one with ids up to the next line.
LEMMA ReplaceFile ==
    ASSUME Typed, NEW i \in Inode, i <= files, NEW g \in Seq(Line),
           \A n \in DOMAIN g : g[n].id <= lines + 1,
           file' = [file EXCEPT ![i] = g], lines' = lines + 1, files' = files
    PROVE  file' \in [Inode -> Seq(Line)] /\ FilesInv'
  <1>1. \A j \in Inode : file'[j] = IF j = i THEN g ELSE file[j]
    BY FileType
  <1>2. \A j \in Inode : \A n \in DOMAIN file[j] : file[j][n].id <= lines + 1
    <2>1. \A j \in Inode : \A n \in DOMAIN file[j] : file[j][n].id \in Nat /\ file[j][n].id <= lines
      BY FileType, LinesType
    <2> QED BY <2>1, FileType
  <1>3. \A j \in Inode : \A n \in DOMAIN file'[j] : file'[j][n].id <= lines'
    BY <1>1, <1>2
  <1>4. \A j \in Inode : j > files => file'[j] = <<>>
    BY <1>1, FileType DEF Typed, FilesInv, Inode
  <1> QED BY <1>3, <1>4, FileType DEF FilesInv

\* A write leaves files of lines.
LEMMA WriteLineType ==
    ASSUME Typed, NEW p \in Proc, fd[p] # 0, NEW kind \in WrittenKind, NEW from \in 0..lines,
           WriteLine(p, kind, from)
    PROVE  /\ file' \in [Inode -> Seq(Line)] /\ lines' = lines + 1 /\ lines' \in 0..MaxLine
           /\ FilesInv' /\ own' = [own EXCEPT ![p] = lines + 1] /\ files' = files /\ dir' = dir
  <1> DEFINE f == file[fd[p]]
             new == [id |-> lines + 1, seq |-> seq[p] + 1, prev |-> prev[p], from |-> from, kind |-> kind]
             l == [f[Len(f)] EXCEPT !.id = new.id, !.kind = "glued"]
             g == IF Torn(f) THEN [f EXCEPT ![Len(f)] = l] ELSE Append(f, new)
  <1>1. lines' = lines + 1 /\ lines < MaxLine /\ own' = [own EXCEPT ![p] = lines + 1] /\ files' = files /\ dir' = dir
        /\ file' = [file EXCEPT ![fd[p]] = g]
    BY DEF WriteLine
  <1>2. fd[p] \in Inode /\ fd[p] <= files /\ f \in Seq(Line) /\ lines + 1 \in 1..MaxLine
        /\ \A n \in DOMAIN f : f[n].id <= lines
    BY <1>1, FileType, ProcType, SizeAssumption, SMTT(30)
  <1>3. new \in Line /\ new.id = lines + 1
    <2>1. seq[p] + 1 \in Nat /\ prev[p] \in 0..MaxLine /\ from \in 0..MaxLine /\ kind \in Kind
      BY FileType, ProcType, SizeAssumption DEF Kind, WrittenKind
    <2> QED BY <1>2, <2>1 DEF Line
  <1>4. CASE Torn(f)
    <2>1. f[Len(f)] \in Line /\ f # <<>>
      BY <1>2, <1>4 DEF Torn
    <2>2. l \in Line /\ l.id = lines + 1
      BY <2>1, <1>2 DEF Line, Kind
    <2>3. g = [f EXCEPT ![Len(f)] = l]
      BY <1>4
    <2> HIDE DEF l, f, g
    <2>4. g \in Seq(Line) /\ \A n \in DOMAIN g : g[n].id <= lines + 1
      BY <1>2, <2>1, <2>2, <2>3, FileType, ReplaceLast
    <2>5. file' \in [Inode -> Seq(Line)] /\ FilesInv'
      BY <1>1, <1>2, <2>4, ReplaceFile, Zenon
    <2> QED BY <1>1, <1>2, <2>5
  <1>5. CASE ~Torn(f)
    <2>1. g = Append(f, new)
      BY <1>5
    <2> HIDE DEF new, f, g
    <2>2. g \in Seq(Line) /\ \A n \in DOMAIN g : g[n].id <= lines + 1
      BY <1>2, <1>3, <2>1, FileType, AppendLine
    <2>3. file' \in [Inode -> Seq(Line)] /\ FilesInv'
      BY <1>1, <1>2, <2>2, ReplaceFile, Zenon
    <2> QED BY <1>1, <1>2, <2>3
  <1> QED BY <1>4, <1>5

\* So does a short write.
LEMMA ShortWriteType ==
    ASSUME Typed, NEW p \in Proc, fd[p] # 0, ShortWrite(p)
    PROVE  /\ file' \in [Inode -> Seq(Line)] /\ lines' = lines + 1 /\ lines' \in 0..MaxLine
           /\ FilesInv' /\ files' = files /\ dir' = dir
           /\ faults' \in 0..MaxFault /\ marred' = marred \cup {fd[p]} /\ marred' \subseteq 1..files
  <1> DEFINE f == file[fd[p]]
             new(s) == [id |-> lines + 1, seq |-> s, prev |-> prev[p], from |-> 0, kind |-> "torn"]
             l == [f[Len(f)] EXCEPT !.id = lines + 1]
             g(s) == IF Torn(f) THEN [f EXCEPT ![Len(f)] = l] ELSE Append(f, new(s))
  <1>1. lines' = lines + 1 /\ lines < MaxLine /\ files' = files /\ dir' = dir
        /\ \E s \in {0, seq[p] + 1} : file' = [file EXCEPT ![fd[p]] = g(s)]
    BY DEF ShortWrite
  <1>2. fd[p] \in Inode /\ fd[p] <= files /\ f \in Seq(Line) /\ lines + 1 \in 1..MaxLine
        /\ \A n \in DOMAIN f : f[n].id <= lines
    BY <1>1, FileType, ProcType, SizeAssumption
  <1>3. PICK s \in {0, seq[p] + 1} : file' = [file EXCEPT ![fd[p]] = g(s)]
    BY <1>1
  <1>4. new(s) \in Line /\ new(s).id = lines + 1
    <2>1. s \in Nat /\ prev[p] \in 0..MaxLine /\ 0 \in 0..MaxLine /\ "torn" \in Kind
      BY FileType, ProcType, SizeAssumption DEF Kind
    <2> QED BY <1>2, <2>1 DEF Line
  <1>5. g(s) \in Seq(Line) /\ \A n \in DOMAIN g(s) : g(s)[n].id <= lines + 1
    <2>1. CASE Torn(f)
      <3>1. f[Len(f)] \in Line /\ f # <<>>
        BY <1>2, <2>1 DEF Torn
      <3>2. l \in Line /\ l.id = lines + 1
        BY <3>1, <1>2 DEF Line, Kind
      <3>3. g(s) = [f EXCEPT ![Len(f)] = l]
        BY <2>1
      <3> HIDE DEF l, f, g
      <3>4. /\ [f EXCEPT ![Len(f)] = l] \in Seq(Line)
            /\ \A n \in DOMAIN [f EXCEPT ![Len(f)] = l] : [f EXCEPT ![Len(f)] = l][n].id <= lines + 1
        BY <1>2, <3>1, <3>2, FileType, ReplaceLast, Zenon
      <3> QED BY <3>3, <3>4, Zenon
    <2>2. CASE ~Torn(f)
      <3>1. g(s) = Append(f, new(s))
        BY <2>2
      <3> HIDE DEF new, f, g
      <3> QED BY <1>2, <1>4, <3>1, FileType, AppendLine
    <2> QED BY <2>1, <2>2
  <1>6. file' \in [Inode -> Seq(Line)] /\ FilesInv'
    <2> HIDE DEF g
    <2> QED BY <1>1, <1>2, <1>3, <1>5, ReplaceFile
  <1>7. faults' \in 0..MaxFault /\ marred' = marred \cup {fd[p]} /\ marred' \subseteq 1..files
    <2>1. faults \in 0..MaxFault /\ marred \subseteq 1..files /\ fd[p] \in 1..files
      BY <1>2 DEF Typed, TypeOK, Inode
    <2>2. faults < MaxFault /\ faults' = faults + 1 /\ marred' = marred \cup {fd[p]}
      BY DEF ShortWrite, Fault, Mar
    <2>3. faults' \in 0..MaxFault
      BY <2>1, <2>2, SizeAssumption
    <2> QED BY <2>1, <2>2, <2>3
  <1> QED BY <1>1, <1>2, <1>6, <1>7, SizeAssumption

\* openFile gives p a file, which may be a new one.
LEMMA OpenFileType ==
    ASSUME TypeOK, NEW p \in Proc, OpenFile(p)
    PROVE  /\ files' \in files..MaxFile /\ dir' \in [0..Retain -> 0..files']
           /\ fd' \in [Proc -> 0..files'] /\ fd'[p] # 0 /\ fd'[p] = dir'[0]
           /\ \A q \in Proc \ {p} : fd'[q] = fd[q]
  <1>1. 0 \in 0..Retain /\ files \in 0..MaxFile /\ files' \in {files, files + 1}
        /\ dir \in [0..Retain -> 0..files] /\ fd \in [Proc -> 0..files]
    BY SizeAssumption, SMTT(30) DEF TypeOK, OpenFile
  <1>2. CASE dir[0] # 0
    <2>1. fd' = [fd EXCEPT ![p] = dir[0]] /\ files' = files /\ dir' = dir
      BY <1>2 DEF OpenFile
    <2> QED BY <1>1, <1>2, <2>1, SizeAssumption
  <1>3. CASE dir[0] = 0
    BY <1>1, <1>3, SizeAssumption, SMTT(30) DEF OpenFile
  <1> QED BY <1>2, <1>3

\* The chain state read from a file.
LEMMA SeedType ==
    ASSUME Typed, NEW p \in Proc, Seed(p, LogLines)
    PROVE  seq' \in [Proc -> Nat] /\ prev' \in [Proc -> 0..lines]
  <1>1. LogLines \in Seq(Line) /\ \A n \in DOMAIN LogLines : LogLines[n].id <= lines
    <2>1. dir[0] \in 0..files
      <3>1. 0 \in 0..Retain
        BY SizeAssumption
      <3> QED BY <3>1 DEF Typed, TypeOK
    <2>2. CASE dir[0] = 0
      BY <2>2 DEF LogLines
    <2>3. CASE dir[0] # 0
      BY <2>1, <2>3, FileType DEF LogLines
    <2> QED BY <2>2, <2>3
  <1>2. LastSeq(LogLines) \in Nat
    BY <1>1, LinesType DEF LastSeq
  <1>3. LastSeq(LogLines) # 0 => LogLines[Len(LogLines)].id \in 0..lines
    BY <1>1, LinesType, FileType DEF LastSeq
  <1>4. 0 \in 0..lines /\ seq \in [Proc -> Nat] /\ prev \in [Proc -> 0..lines]
    BY FileType DEF Typed, TypeOK
  <1> QED BY <1>2, <1>3, <1>4 DEF Seed

\* Ids are those of lines written so far.
LEMMA IdsType ==
    ASSUME Typed, NEW i \in Inode
    PROVE  Ids(i) \subseteq 1..lines
  BY LinesType, FileType DEF Ids

\* The types hold initially.
LEMMA InitType == Init => Typed
  <1> SUFFICES ASSUME Init PROVE Typed
    OBVIOUS
  <1>1. 0 \in 0..0 /\ 0 \in 0..Retain /\ 0 \in 0..MaxFile /\ 0 \in 0..MaxLine /\ 0 \in 0..MaxFault
    BY SizeAssumption
  <1> QED BY <1>1 DEF Init, Typed, TypeOK, FilesInv, PC

\* A step that leaves the files alone keeps what is known of them.
LEMMA SameFiles ==
    ASSUME Typed, UNCHANGED <<file, lines>>, files' \in files..MaxFile
    PROVE  FilesInv' /\ file' \in [Inode -> Seq(Line)] /\ lines' \in 0..MaxLine /\ files' \in 0..MaxFile
  BY FileType, SizeAssumption DEF Typed, FilesInv, Inode

\* A step in which no process and no history variable leaves its range.
LEMMA ProcStep ==
    ASSUME Typed, files' \in files..MaxFile, lines' \in lines..MaxLine,
           file' \in [Inode -> Seq(Line)], FilesInv',
           dir' \in [0..Retain -> 0..files'], pc' \in [Proc -> PC],
           fd' \in [Proc -> 0..files'] \/ fd' = fd, tmp' \in [Proc -> 0..files'] \/ tmp' = tmp,
           seq' \in [Proc -> Nat], prev' \in [Proc -> 0..lines'] \/ prev' = prev, held' \in [Proc -> BOOLEAN],
           own' \in [Proc -> 0..lines'] \/ own' = own, pend' \in [Proc -> 0..lines'] \/ pend' = pend,
           at' \in [Proc -> 0..Retain], link' \in [Proc -> 0..lines'] \/ link' = link,
           acked' \subseteq 1..lines', aged' \subseteq 1..lines', marred' \subseteq 1..files',
           faults' \in 0..MaxFault,
           \A p \in Proc : pc'[p] \in {"sync", "mark", "marksync", "cont", "contsync", "swap"} => fd'[p] # 0
    PROVE  Typed'
  <1>1. files' \in 0..MaxFile /\ lines' \in 0..MaxLine
    BY FileType, SizeAssumption
  <1>2. 0..files \subseteq 0..files' /\ 0..lines \subseteq 0..lines'
    BY FileType, SizeAssumption
  <1>3. fd' \in [Proc -> 0..files'] /\ tmp' \in [Proc -> 0..files']
    BY <1>2 DEF Typed, TypeOK
  <1>4. prev' \in [Proc -> 0..lines'] /\ own' \in [Proc -> 0..lines'] /\ pend' \in [Proc -> 0..lines']
        /\ link' \in [Proc -> 0..lines']
    BY <1>2 DEF Typed, TypeOK
  <1> QED BY <1>1, <1>3, <1>4 DEF Typed, TypeOK

-----------------------------------------------------------------------------
\* The types, in the parts that a step keeps one by one.

StoreOK ==
    /\ file \in [Inode -> Seq(Line)] /\ files \in 0..MaxFile /\ lines \in 0..MaxLine
    /\ dir \in [0..Retain -> 0..files]
    /\ acked \subseteq 1..lines /\ aged \subseteq 1..lines /\ marred \subseteq 1..files
    /\ faults \in 0..MaxFault

FdPC == {"sync", "mark", "marksync", "cont", "contsync", "swap"}

PcOK ==
    /\ pc \in [Proc -> PC] /\ fd \in [Proc -> 0..files]
    /\ \A p \in Proc : pc[p] \in FdPC => fd[p] # 0

CallOK == tmp \in [Proc -> 0..files] /\ held \in [Proc -> BOOLEAN] /\ at \in [Proc -> 0..Retain]

NumOK ==
    /\ seq \in [Proc -> Nat] /\ prev \in [Proc -> 0..lines] /\ own \in [Proc -> 0..lines]
    /\ pend \in [Proc -> 0..lines] /\ link \in [Proc -> 0..lines]

\* The parts make up the types ...
LEMMA TypeParts == TypeOK <=> StoreOK /\ PcOK /\ CallOK /\ NumOK
  BY DEF TypeOK, StoreOK, PcOK, CallOK, NumOK, FdPC

\* ... also after a step.
LEMMA TypePartsNext == StoreOK' /\ PcOK' /\ CallOK' /\ NumOK' => TypeOK'
  BY DEF TypeOK, StoreOK, PcOK, CallOK, NumOK, FdPC

\* The temporary file of Prune.
LEMMA CopyType ==
    ASSUME Typed, NEW p \in Proc, PruneCopy(p)
    PROVE  file' \in [Inode -> Seq(Line)] /\ FilesInv'
  <1>1. fd[p] \in Inode /\ file[fd[p]] \in Seq(Line) /\ files + 1 \in Inode /\ lines \in Nat
        /\ \A m \in DOMAIN file[fd[p]] : file[fd[p]][m].id <= lines
    <2>1. fd[p] # 0 /\ files < MaxFile
      BY DEF PruneCopy
    <2>2. fd[p] \in Inode /\ files + 1 \in Inode
      BY <2>1, FileType, ProcType, SizeAssumption DEF Inode
    <2> QED BY <2>2, FileType
  <1>2. PICK n \in 1..Len(file[fd[p]]) : file' = [file EXCEPT ![files + 1] = Kept(file[fd[p]], n)]
    BY DEF PruneCopy
  <1> DEFINE k == Kept(file[fd[p]], n)
  <1>3. k \in Seq(Line) /\ \A m \in DOMAIN k : k[m].id <= lines
    <2>1. n \in Nat
      BY <1>1, LinesType
    <2> QED BY <1>1, <2>1, KeptType
  <1> HIDE DEF k
  <1>4. file' = [file EXCEPT ![files + 1] = k] /\ lines' = lines /\ files' = files + 1
    BY <1>2 DEF k, PruneCopy
  <1>5. \A j \in Inode : file'[j] = IF j = files + 1 THEN k ELSE file[j]
    BY <1>1, <1>4, FileType
  <1>6. file' \in [Inode -> Seq(Line)]
    BY <1>3, <1>4, FileType
  <1>7. \A j \in Inode : \A m \in DOMAIN file'[j] : file'[j][m].id <= lines
    BY <1>3, <1>5, FileType
  <1>8. \A j \in Inode : j > files + 1 => file'[j] = <<>>
    BY <1>5, FileType DEF Typed, FilesInv, Inode
  <1> QED BY <1>4, <1>6, <1>7, <1>8 DEF FilesInv

\* Every step keeps the types.
LEMMA NextType == Typed /\ [Next]_vars => Typed'
  <1> SUFFICES ASSUME Typed, [Next]_vars PROVE Typed'
    OBVIOUS
  <1>0. /\ StoreOK /\ PcOK /\ CallOK /\ NumOK /\ files \in Nat /\ lines \in Nat
        /\ 0 \in 0..files /\ 0 \in 0..lines /\ 0 \in 0..Retain /\ 1 \in 0..Retain /\ Retain \in 0..Retain
    BY TypeParts, FileType, SizeAssumption DEF Typed
  <1>1. ASSUME NEW p \in Proc, Open(p) PROVE Typed'
    <2>1. /\ pc' = [pc EXCEPT ![p] = "idle"]
          /\ UNCHANGED <<file, lines, held, own, pend, at, link, tmp, acked, aged, marred, faults>>
      BY <1>1 DEF Open, OpenAndSeed, Goto
    <2>2. /\ files' \in files..MaxFile /\ dir' \in [0..Retain -> 0..files']
          /\ fd' \in [Proc -> 0..files'] /\ fd'[p] # 0 /\ \A q \in Proc \ {p} : fd'[q] = fd[q]
      BY <1>1, OpenFileType DEF Typed, Open, OpenAndSeed, Goto
    <2>3. seq' \in [Proc -> Nat] /\ prev' \in [Proc -> 0..lines]
      BY <1>1, SeedType DEF Open, OpenAndSeed, Goto
    <2>4. files' \in Nat /\ 0..files \subseteq 0..files' /\ 1..files \subseteq 1..files'
      BY <1>0, <2>1, <2>2, <2>3, SizeAssumption
    <2>5. FilesInv'
      BY <2>1, <2>2, <2>3, <2>4, SameFiles, FileType, SizeAssumption
    <2>6. StoreOK'
      BY <1>0, <2>1, <2>2, <2>3, <2>4, SizeAssumption, SMTT(30) DEF StoreOK
    <2>7. PcOK'
      BY <1>0, <2>1, <2>2, <2>3, <2>4, SizeAssumption DEF StoreOK, PcOK, PC, FdPC
    <2>8. CallOK'
      BY <1>0, <2>1, <2>2, <2>3, <2>4, SizeAssumption DEF StoreOK, CallOK
    <2>9. NumOK'
      BY <1>0, <2>1, <2>2, <2>3, <2>4, SizeAssumption DEF StoreOK, NumOK
    <2> QED BY <2>1, <2>2, <2>3, <2>4, <2>5, <2>6, <2>7, <2>8, <2>9, TypePartsNext DEF Typed
  <1>2. ASSUME NEW p \in Proc, Reopen(p) PROVE Typed'
    <2>1. /\ pc[p] = "idle"
          /\ UNCHANGED <<file, lines, pc, held, own, pend, at, link, tmp, acked, aged, marred, faults>>
      BY <1>2 DEF Reopen, OpenAndSeed
    <2>2. /\ files' \in files..MaxFile /\ dir' \in [0..Retain -> 0..files']
          /\ fd' \in [Proc -> 0..files'] /\ fd'[p] # 0 /\ \A q \in Proc \ {p} : fd'[q] = fd[q]
      BY <1>2, OpenFileType DEF Typed, Reopen, OpenAndSeed
    <2>3. seq' \in [Proc -> Nat] /\ prev' \in [Proc -> 0..lines]
      BY <1>2, SeedType DEF Reopen, OpenAndSeed
    <2>4. files' \in Nat /\ 0..files \subseteq 0..files' /\ 1..files \subseteq 1..files'
      BY <1>0, <2>1, <2>2, <2>3, SizeAssumption
    <2>5. FilesInv'
      BY <2>1, <2>2, <2>3, <2>4, SameFiles, FileType, SizeAssumption
    <2>6. StoreOK'
      BY <1>0, <2>1, <2>2, <2>3, <2>4, SizeAssumption, SMTT(30) DEF StoreOK
    <2>7. PcOK'
      BY <1>0, <2>1, <2>2, <2>3, <2>4, SizeAssumption DEF StoreOK, PcOK, PC, FdPC
    <2>8. CallOK'
      BY <1>0, <2>1, <2>2, <2>3, <2>4, SizeAssumption DEF StoreOK, CallOK
    <2>9. NumOK'
      BY <1>0, <2>1, <2>2, <2>3, <2>4, SizeAssumption DEF StoreOK, NumOK
    <2> QED BY <2>1, <2>2, <2>3, <2>4, <2>5, <2>6, <2>7, <2>8, <2>9, TypePartsNext DEF Typed
  <1>3. ASSUME NEW p \in Proc, Stop(p) PROVE Typed'
    <2>1. /\ pc' = [pc EXCEPT ![p] = "down"] /\ fd' = [fd EXCEPT ![p] = 0] /\ seq' = [seq EXCEPT ![p] = 0]
          /\ prev' = [prev EXCEPT ![p] = 0] /\ held' = [held EXCEPT ![p] = FALSE]
          /\ pend' = [pend EXCEPT ![p] = 0] /\ at' = [at EXCEPT ![p] = 0] /\ own' = [own EXCEPT ![p] = 0]
          /\ link' = [link EXCEPT ![p] = 0] /\ tmp' = [tmp EXCEPT ![p] = 0]
          /\ faults' = faults \/ (faults < MaxFault /\ faults' = faults + 1)
          /\ UNCHANGED <<file, files, lines, dir, acked, aged, marred>>
      BY <1>3 DEF Stop, Goto, Fault, fileVars
    <2>2. FilesInv'
      BY <2>1, SameFiles, FileType, SizeAssumption
    <2>3. StoreOK'
      BY <1>0, <2>1, SizeAssumption DEF StoreOK
    <2>4. PcOK'
      BY <1>0, <2>1, SizeAssumption DEF StoreOK, PcOK, PC, FdPC
    <2>5. CallOK'
      BY <1>0, <2>1, SizeAssumption DEF StoreOK, CallOK
    <2>6. NumOK'
      BY <1>0, <2>1, SizeAssumption DEF StoreOK, NumOK
    <2> QED BY <2>1, <2>2, <2>3, <2>4, <2>5, <2>6, TypePartsNext DEF Typed
  <1>4. ASSUME NEW p \in Proc, RetryDue(p) PROVE Typed'
    <2>1. /\ held' = [held EXCEPT ![p] = FALSE]
          /\ UNCHANGED <<file, files, lines, dir, pc, fd, seq, prev, own, pend, at, link, tmp, acked, aged, marred, faults>>
      BY <1>4 DEF RetryDue, fileVars
    <2>2. FilesInv'
      BY <2>1, SameFiles, FileType, SizeAssumption
    <2>3. StoreOK'
      BY <1>0, <2>1, SizeAssumption DEF StoreOK
    <2>4. PcOK'
      BY <1>0, <2>1, SizeAssumption DEF StoreOK, PcOK, PC, FdPC
    <2>5. CallOK'
      BY <1>0, <2>1, SizeAssumption DEF StoreOK, CallOK
    <2>6. NumOK'
      BY <1>0, <2>1, SizeAssumption DEF StoreOK, NumOK
    <2> QED BY <2>1, <2>2, <2>3, <2>4, <2>5, <2>6, TypePartsNext DEF Typed
  <1>5. ASSUME NEW p \in Proc, Log(p) PROVE Typed'
    <2>1. /\ pc' = [pc EXCEPT ![p] = "sync"] /\ fd[p] # 0 /\ pend' = [pend EXCEPT ![p] = lines + 1]
          /\ UNCHANGED <<fd, seq, prev, held, at, link, tmp, acked, aged, marred, faults>>
      BY <1>5 DEF Log, Goto
    <2>2. WriteLine(p, "event", 0) /\ fd[p] # 0 /\ "event" \in WrittenKind /\ 0 \in 0..lines
      BY <1>5, ProcType, FileType DEF Log, Goto, WrittenKind
    <2>3. /\ file' \in [Inode -> Seq(Line)] /\ lines' = lines + 1 /\ lines' \in 0..MaxLine /\ FilesInv'
          /\ own' = [own EXCEPT ![p] = lines + 1] /\ files' = files /\ dir' = dir
      BY <2>2, WriteLineType
    <2>4. lines' \in Nat /\ 0..lines \subseteq 0..lines' /\ 1..lines \subseteq 1..lines' /\ lines + 1 \in 0..lines'
      BY <1>0, <2>1, <2>2, <2>3
    <2>5. StoreOK'
      BY <1>0, <2>1, <2>2, <2>3, <2>4, SizeAssumption DEF StoreOK
    <2>6. PcOK'
      BY <1>0, <2>1, <2>2, <2>3, <2>4, SizeAssumption DEF StoreOK, PcOK, PC, FdPC
    <2>7. CallOK'
      BY <1>0, <2>1, <2>2, <2>3, <2>4, SizeAssumption DEF StoreOK, CallOK
    <2>8. NumOK'
      BY <1>0, <2>1, <2>2, <2>3, <2>4, SizeAssumption DEF StoreOK, NumOK
    <2> QED BY <2>1, <2>2, <2>3, <2>4, <2>5, <2>6, <2>7, <2>8, TypePartsNext DEF Typed
  <1>6. ASSUME NEW p \in Proc, LogShortWrite(p) PROVE Typed'
    <2>1. /\ UNCHANGED <<pc, fd, seq, prev, held, own, pend, at, link, tmp, acked, aged>>
      BY <1>6 DEF LogShortWrite, procVars
    <2>2. ShortWrite(p) /\ fd[p] # 0
      BY <1>6, ProcType DEF LogShortWrite, procVars
    <2>3. /\ file' \in [Inode -> Seq(Line)] /\ lines' = lines + 1 /\ lines' \in 0..MaxLine /\ FilesInv'
          /\ files' = files /\ dir' = dir /\ faults' \in 0..MaxFault /\ marred' \subseteq 1..files
      BY <2>2, ShortWriteType
    <2>4. lines' \in Nat /\ 0..lines \subseteq 0..lines' /\ 1..lines \subseteq 1..lines' /\ lines + 1 \in 0..lines'
      BY <1>0, <2>1, <2>2, <2>3
    <2>5. StoreOK'
      BY <1>0, <2>1, <2>2, <2>3, <2>4, SizeAssumption DEF StoreOK
    <2>6. PcOK'
      BY <1>0, <2>1, <2>2, <2>3, <2>4, SizeAssumption DEF StoreOK, PcOK, PC, FdPC
    <2>7. CallOK'
      BY <1>0, <2>1, <2>2, <2>3, <2>4, SizeAssumption DEF StoreOK, CallOK
    <2>8. NumOK'
      BY <1>0, <2>1, <2>2, <2>3, <2>4, SizeAssumption DEF StoreOK, NumOK
    <2> QED BY <2>1, <2>2, <2>3, <2>4, <2>5, <2>6, <2>7, <2>8, TypePartsNext DEF Typed
  <1>7. ASSUME NEW p \in Proc, LogSynced(p) PROVE Typed'
    <2>1. /\ pc[p] = "sync"
          /\ pc' = [pc EXCEPT ![p] = "mark"] \/ pc' = [pc EXCEPT ![p] = "idle"]
          /\ seq' = [seq EXCEPT ![p] = @ + 1] /\ prev' = [prev EXCEPT ![p] = own[p]]
          /\ pend' = pend \/ pend' = [pend EXCEPT ![p] = 0]
          /\ at' = at \/ at' = [at EXCEPT ![p] = 0]
          /\ link' = link \/ link' = [link EXCEPT ![p] = 0]
          /\ acked' = acked \/ acked' = acked \cup ({pend[p]} \ {0})
          /\ UNCHANGED <<file, files, lines, dir, fd, held, own, tmp, aged, marred, faults>>
      BY <1>7 DEF LogSynced, Advance, Goto, Return, fileVars
    <2>2. {pend[p]} \ {0} \subseteq 1..lines
      BY <1>0, ProcType
    <2>3. FilesInv'
      BY <2>1, <2>2, SameFiles, FileType, SizeAssumption
    <2>4. StoreOK'
      BY <1>0, <2>1, <2>2, SizeAssumption DEF StoreOK
    <2>5. PcOK'
      BY <1>0, <2>1, <2>2, SizeAssumption DEF StoreOK, PcOK, PC, FdPC
    <2>6. CallOK'
      BY <1>0, <2>1, <2>2, SizeAssumption DEF StoreOK, CallOK
    <2>7. NumOK'
      <3>1. seq' \in [Proc -> Nat]
        BY <1>0, <2>1, <2>2, SizeAssumption DEF StoreOK, NumOK
      <3>2. prev' \in [Proc -> 0..lines]
        BY <1>0, <2>1, <2>2, SizeAssumption DEF StoreOK, NumOK
      <3>3. pend' \in [Proc -> 0..lines]
        BY <1>0, <2>1, <2>2, SizeAssumption DEF StoreOK, NumOK
      <3>4. link' \in [Proc -> 0..lines]
        BY <1>0, <2>1, <2>2, SizeAssumption DEF StoreOK, NumOK
      <3> QED BY <1>0, <2>1, <3>1, <3>2, <3>3, <3>4 DEF NumOK
    <2> QED BY <2>1, <2>2, <2>3, <2>4, <2>5, <2>6, <2>7, TypePartsNext DEF Typed
  <1>8. ASSUME NEW p \in Proc, LogSyncFails(p) PROVE Typed'
    <2>1. /\ pc[p] = "sync" /\ pc' = [pc EXCEPT ![p] = "idle"] /\ faults < MaxFault /\ faults' = faults + 1
          /\ marred' = marred \cup {fd[p]} /\ pend' = [pend EXCEPT ![p] = 0] /\ at' = [at EXCEPT ![p] = 0]
          /\ link' = [link EXCEPT ![p] = 0]
          /\ UNCHANGED <<file, files, lines, dir, fd, seq, prev, held, own, tmp, acked, aged>>
      BY <1>8 DEF LogSyncFails, Fault, Mar, Goto, Return, fileVars
    <2>2. fd[p] \in 1..files
      BY <1>0, <2>1, ProcType
    <2>3. FilesInv'
      BY <2>1, <2>2, SameFiles, FileType, SizeAssumption
    <2>4. StoreOK'
      <3>1. faults' \in 0..MaxFault
        BY <1>0, <2>1, <2>2, SizeAssumption DEF StoreOK
      <3>2. marred' \subseteq 1..files
        BY <1>0, <2>1, <2>2, SizeAssumption DEF StoreOK
      <3> QED BY <1>0, <2>1, <3>1, <3>2 DEF StoreOK
    <2>5. PcOK'
      BY <1>0, <2>1, <2>2, SizeAssumption DEF StoreOK, PcOK, PC, FdPC
    <2>6. CallOK'
      BY <1>0, <2>1, <2>2, SizeAssumption DEF StoreOK, CallOK
    <2>7. NumOK'
      BY <1>0, <2>1, <2>2, SizeAssumption DEF StoreOK, NumOK
    <2> QED BY <2>1, <2>2, <2>3, <2>4, <2>5, <2>6, <2>7, TypePartsNext DEF Typed
  <1>9. ASSUME NEW p \in Proc, Rotate(p) PROVE Typed'
    <2>1. /\ fd[p] # 0 /\ pc' = [pc EXCEPT ![p] = "mark"]
          /\ UNCHANGED <<file, files, lines, dir, fd, seq, prev, held, own, pend, at, link, tmp, acked, aged, marred, faults>>
      BY <1>9 DEF Rotate, HasFile, Goto, fileVars
    <2>2. FilesInv'
      BY <2>1, SameFiles, FileType, SizeAssumption
    <2>3. StoreOK'
      BY <1>0, <2>1, SizeAssumption DEF StoreOK
    <2>4. PcOK'
      BY <1>0, <2>1, SizeAssumption DEF StoreOK, PcOK, PC, FdPC
    <2>5. CallOK'
      BY <1>0, <2>1, SizeAssumption DEF StoreOK, CallOK
    <2>6. NumOK'
      BY <1>0, <2>1, SizeAssumption DEF StoreOK, NumOK
    <2> QED BY <2>1, <2>2, <2>3, <2>4, <2>5, <2>6, TypePartsNext DEF Typed
  <1>10. ASSUME NEW p \in Proc, Mark(p) PROVE Typed'
    <2>1. /\ pc[p] = "mark" /\ pc' = [pc EXCEPT ![p] = "marksync"]
          /\ UNCHANGED <<fd, seq, prev, held, pend, at, link, tmp, acked, aged, marred, faults>>
      BY <1>10 DEF Mark, Goto
    <2>2. WriteLine(p, "rotated", 0) /\ fd[p] # 0 /\ "rotated" \in WrittenKind /\ 0 \in 0..lines
      BY <1>10, ProcType, FileType DEF Mark, Goto, WrittenKind
    <2>3. /\ file' \in [Inode -> Seq(Line)] /\ lines' = lines + 1 /\ lines' \in 0..MaxLine /\ FilesInv'
          /\ own' = [own EXCEPT ![p] = lines + 1] /\ files' = files /\ dir' = dir
      BY <2>2, WriteLineType
    <2>4. lines' \in Nat /\ 0..lines \subseteq 0..lines' /\ 1..lines \subseteq 1..lines' /\ lines + 1 \in 0..lines'
      BY <1>0, <2>1, <2>2, <2>3
    <2>5. StoreOK'
      BY <1>0, <2>1, <2>2, <2>3, <2>4, SizeAssumption DEF StoreOK
    <2>6. PcOK'
      BY <1>0, <2>1, <2>2, <2>3, <2>4, SizeAssumption DEF StoreOK, PcOK, PC, FdPC
    <2>7. CallOK'
      BY <1>0, <2>1, <2>2, <2>3, <2>4, SizeAssumption DEF StoreOK, CallOK
    <2>8. NumOK'
      BY <1>0, <2>1, <2>2, <2>3, <2>4, SizeAssumption DEF StoreOK, NumOK
    <2> QED BY <2>1, <2>2, <2>3, <2>4, <2>5, <2>6, <2>7, <2>8, TypePartsNext DEF Typed
  <1>11. ASSUME NEW p \in Proc, MarkSynced(p) PROVE Typed'
    <2>1. /\ pc' = [pc EXCEPT ![p] = "shift"] /\ fd' = [fd EXCEPT ![p] = 0]
          /\ at' = [at EXCEPT ![p] = Retain] /\ link' = [link EXCEPT ![p] = own[p]]
          /\ seq' = [seq EXCEPT ![p] = @ + 1] /\ prev' = [prev EXCEPT ![p] = own[p]]
          /\ UNCHANGED <<file, files, lines, dir, held, own, pend, tmp, acked, aged, marred, faults>>
      BY <1>11 DEF MarkSynced, Advance, LinkTo, ShiftFrom, Goto, fileVars
    <2>2. FilesInv'
      BY <2>1, SameFiles, FileType, SizeAssumption
    <2>3. StoreOK'
      BY <1>0, <2>1, SizeAssumption DEF StoreOK
    <2>4. PcOK'
      BY <1>0, <2>1, SizeAssumption DEF StoreOK, PcOK, PC, FdPC
    <2>5. CallOK'
      BY <1>0, <2>1, SizeAssumption DEF StoreOK, CallOK
    <2>6. NumOK'
      BY <1>0, <2>1, SizeAssumption DEF StoreOK, NumOK
    <2> QED BY <2>1, <2>2, <2>3, <2>4, <2>5, <2>6, TypePartsNext DEF Typed
  <1>12. ASSUME NEW p \in Proc, RemoveOldest(p) PROVE Typed'
    <2>1. /\ dir' = [dir EXCEPT ![Retain] = 0]
          /\ aged' = IF dir[Retain] = 0 THEN aged ELSE aged \cup Ids(dir[Retain])
          /\ at' = [at EXCEPT ![p] = Retain - 1]
          /\ UNCHANGED <<file, files, lines, pc, fd, seq, prev, held, own, pend, link, tmp, acked, marred, faults>>
      BY <1>12 DEF RemoveOldest
    <2>2. FilesInv'
      BY <2>1, SameFiles, FileType, SizeAssumption
    <2>3. StoreOK'
      BY <1>0, <2>1, SizeAssumption, IdsType, FileType DEF StoreOK
    <2>4. PcOK'
      BY <1>0, <2>1, SizeAssumption DEF StoreOK, PcOK, PC, FdPC
    <2>5. CallOK'
      BY <1>0, <2>1, SizeAssumption DEF StoreOK, CallOK
    <2>6. NumOK'
      BY <1>0, <2>1, SizeAssumption DEF StoreOK, NumOK
    <2> QED BY <2>1, <2>2, <2>3, <2>4, <2>5, <2>6, TypePartsNext DEF Typed
  <1>13. ASSUME NEW p \in Proc, Shift(p) PROVE Typed'
    <2>1. /\ at[p] \in 1..Retain - 1
          /\ dir' = IF dir[at[p]] = 0 THEN dir ELSE [dir EXCEPT ![at[p] + 1] = dir[at[p]], ![at[p]] = 0]
          /\ at' = [at EXCEPT ![p] = at[p] - 1]
          /\ UNCHANGED <<file, files, lines, pc, fd, seq, prev, held, own, pend, link, tmp, acked, aged, marred, faults>>
      BY <1>13 DEF Shift
    <2>2. FilesInv'
      BY <2>1, SameFiles, FileType, SizeAssumption
    <2>3. StoreOK'
      <3>1. at[p] \in 0..Retain /\ at[p] + 1 \in 0..Retain
        BY <2>1, SizeAssumption
      <3>2. dir' \in [0..Retain -> 0..files]
        BY <1>0, <2>1, <3>1, SizeAssumption DEF StoreOK
      <3> QED BY <1>0, <2>1, <3>1, <3>2 DEF StoreOK
    <2>4. PcOK'
      BY <1>0, <2>1, SizeAssumption DEF StoreOK, PcOK, PC, FdPC
    <2>5. CallOK'
      BY <1>0, <2>1, SizeAssumption, SMTT(30) DEF StoreOK, CallOK
    <2>6. NumOK'
      BY <1>0, <2>1, SizeAssumption DEF StoreOK, NumOK
    <2> QED BY <2>1, <2>2, <2>3, <2>4, <2>5, <2>6, TypePartsNext DEF Typed
  <1>14. ASSUME NEW p \in Proc, RenameLog(p) PROVE Typed'
    <2>1. /\ pc' = [pc EXCEPT ![p] = "open"] /\ dir' = [dir EXCEPT ![1] = dir[0], ![0] = 0]
          /\ UNCHANGED <<file, files, lines, fd, seq, prev, held, own, pend, at, link, tmp, acked, aged, marred, faults>>
      BY <1>14 DEF RenameLog, Newest, Goto
    <2>2. FilesInv'
      BY <2>1, SameFiles, FileType, SizeAssumption
    <2>3. StoreOK'
      BY <1>0, <2>1, SizeAssumption DEF StoreOK
    <2>4. PcOK'
      BY <1>0, <2>1, SizeAssumption DEF StoreOK, PcOK, PC, FdPC
    <2>5. CallOK'
      BY <1>0, <2>1, SizeAssumption DEF StoreOK, CallOK
    <2>6. NumOK'
      BY <1>0, <2>1, SizeAssumption DEF StoreOK, NumOK
    <2> QED BY <2>1, <2>2, <2>3, <2>4, <2>5, <2>6, TypePartsNext DEF Typed
  <1>15. ASSUME NEW p \in Proc, RenameFails(p) PROVE Typed'
    <2>1. /\ pc' = [pc EXCEPT ![p] = "keep"]
          /\ faults' = faults \/ (faults < MaxFault /\ faults' = faults + 1)
          /\ UNCHANGED <<file, files, lines, dir, fd, seq, prev, held, own, pend, at, link, tmp, acked, aged, marred>>
      BY <1>15 DEF RenameFails, Fault, Goto, fileVars
    <2>2. FilesInv'
      BY <2>1, SameFiles, FileType, SizeAssumption
    <2>3. StoreOK'
      BY <1>0, <2>1, SizeAssumption DEF StoreOK
    <2>4. PcOK'
      BY <1>0, <2>1, SizeAssumption DEF StoreOK, PcOK, PC, FdPC
    <2>5. CallOK'
      BY <1>0, <2>1, SizeAssumption DEF StoreOK, CallOK
    <2>6. NumOK'
      BY <1>0, <2>1, SizeAssumption DEF StoreOK, NumOK
    <2> QED BY <2>1, <2>2, <2>3, <2>4, <2>5, <2>6, TypePartsNext DEF Typed
  <1>16. ASSUME NEW p \in Proc, OpenNew(p) PROVE Typed'
    <2>1. /\ pc' = [pc EXCEPT ![p] = "cont"] /\ seq' = [seq EXCEPT ![p] = 0]
          /\ prev' = [prev EXCEPT ![p] = 0]
          /\ UNCHANGED <<file, lines, held, own, pend, at, link, tmp, acked, aged, marred, faults>>
      BY <1>16 DEF OpenNew, StartChain, Goto
    <2>2. /\ files' \in files..MaxFile /\ dir' \in [0..Retain -> 0..files']
          /\ fd' \in [Proc -> 0..files'] /\ fd'[p] # 0 /\ \A q \in Proc \ {p} : fd'[q] = fd[q]
      BY <1>16, OpenFileType DEF Typed, OpenNew, StartChain, Goto
    <2>3. files' \in Nat /\ 0..files \subseteq 0..files' /\ 1..files \subseteq 1..files'
      BY <1>0, <2>1, <2>2, SizeAssumption
    <2>4. FilesInv'
      BY <2>1, <2>2, <2>3, SameFiles, FileType, SizeAssumption
    <2>5. StoreOK'
      BY <1>0, <2>1, <2>2, <2>3, SizeAssumption DEF StoreOK
    <2>6. PcOK'
      BY <1>0, <2>1, <2>2, <2>3, SizeAssumption DEF StoreOK, PcOK, PC, FdPC
    <2>7. CallOK'
      BY <1>0, <2>1, <2>2, <2>3, SizeAssumption DEF StoreOK, CallOK
    <2>8. NumOK'
      BY <1>0, <2>1, <2>2, <2>3, SizeAssumption DEF StoreOK, NumOK
    <2> QED BY <2>1, <2>2, <2>3, <2>4, <2>5, <2>6, <2>7, <2>8, TypePartsNext DEF Typed
  <1>17. ASSUME NEW p \in Proc, OpenNewFails(p) PROVE Typed'
    <2>1. /\ pc' = [pc EXCEPT ![p] = "keep"] /\ dir' = [dir EXCEPT ![0] = dir[1], ![1] = 0]
          /\ faults < MaxFault /\ faults' = faults + 1
          /\ UNCHANGED <<file, files, lines, fd, seq, prev, held, own, pend, at, link, tmp, acked, aged, marred>>
      BY <1>17 DEF OpenNewFails, Restore, Newest, Fault, Goto
    <2>2. FilesInv'
      BY <2>1, SameFiles, FileType, SizeAssumption
    <2>3. StoreOK'
      BY <1>0, <2>1, SizeAssumption DEF StoreOK
    <2>4. PcOK'
      BY <1>0, <2>1, SizeAssumption DEF StoreOK, PcOK, PC, FdPC
    <2>5. CallOK'
      BY <1>0, <2>1, SizeAssumption DEF StoreOK, CallOK
    <2>6. NumOK'
      BY <1>0, <2>1, SizeAssumption DEF StoreOK, NumOK
    <2> QED BY <2>1, <2>2, <2>3, <2>4, <2>5, <2>6, TypePartsNext DEF Typed
  <1>18. ASSUME NEW p \in Proc, RestoreFails(p) PROVE Typed'
    <2>1. /\ pc' = [pc EXCEPT ![p] = "idle"]
          /\ held' = [held EXCEPT ![p] = @ \/ pend[p] # 0]
          /\ pend' = [pend EXCEPT ![p] = 0] /\ at' = [at EXCEPT ![p] = 0] /\ link' = [link EXCEPT ![p] = 0]
          /\ faults < MaxFault /\ faults' = faults + 1 /\ acked' = acked
          /\ UNCHANGED <<file, files, lines, dir, fd, seq, prev, own, tmp, aged, marred>>
      BY <1>18 DEF RestoreFails, Fault, RotateFailed, Return, Goto, fileVars
    <2>2. FilesInv'
      BY <2>1, SameFiles, FileType, SizeAssumption
    <2>3. StoreOK'
      BY <1>0, <2>1, SizeAssumption DEF StoreOK
    <2>4. PcOK'
      BY <1>0, <2>1, SizeAssumption DEF StoreOK, PcOK, PC, FdPC
    <2>5. CallOK'
      BY <1>0, <2>1, SizeAssumption DEF StoreOK, CallOK
    <2>6. NumOK'
      BY <1>0, <2>1, SizeAssumption DEF StoreOK, NumOK
    <2> QED BY <2>1, <2>2, <2>3, <2>4, <2>5, <2>6, TypePartsNext DEF Typed
  <1>19. ASSUME NEW p \in Proc, KeepCurrent(p) PROVE Typed'
    <2>1. /\ pc' = [pc EXCEPT ![p] = "idle"]
          /\ held' = [held EXCEPT ![p] = @ \/ pend[p] # 0]
          /\ pend' = [pend EXCEPT ![p] = 0] /\ at' = [at EXCEPT ![p] = 0] /\ link' = [link EXCEPT ![p] = 0]
          /\ acked' = acked \cup ({pend[p]} \ {0})
          /\ UNCHANGED <<file, lines, seq, prev, own, tmp, aged, marred, faults>>
      BY <1>19 DEF KeepCurrent, RotateFailed, Return, Goto
    <2>2. /\ files' \in files..MaxFile /\ dir' \in [0..Retain -> 0..files']
          /\ fd' \in [Proc -> 0..files'] /\ fd'[p] # 0 /\ \A q \in Proc \ {p} : fd'[q] = fd[q]
      BY <1>19, OpenFileType DEF Typed, KeepCurrent, RotateFailed, Return, Goto
    <2>3. files' \in Nat /\ 0..files \subseteq 0..files' /\ 1..files \subseteq 1..files'
      BY <1>0, <2>1, <2>2, SizeAssumption
    <2>4. {pend[p]} \ {0} \subseteq 1..lines
      BY <1>0, ProcType
    <2>5. FilesInv'
      BY <2>1, <2>2, <2>3, <2>4, SameFiles, FileType, SizeAssumption
    <2>6. StoreOK'
      <3>1. acked' \subseteq 1..lines
        BY <1>0, <2>1, <2>2, <2>3, <2>4, SizeAssumption DEF StoreOK
      <3>2. marred' \subseteq 1..files'
        BY <1>0, <2>1, <2>2, <2>3, <2>4, SizeAssumption DEF StoreOK
      <3>3. files' \in 0..MaxFile
        BY <1>0, <2>1, <2>2, <2>3, <2>4, SizeAssumption DEF StoreOK
      <3> QED BY <1>0, <2>1, <3>1, <3>2, <3>3, <2>2 DEF StoreOK
    <2>7. PcOK'
      BY <1>0, <2>1, <2>2, <2>3, <2>4, SizeAssumption DEF StoreOK, PcOK, PC, FdPC
    <2>8. CallOK'
      BY <1>0, <2>1, <2>2, <2>3, <2>4, SizeAssumption DEF StoreOK, CallOK
    <2>9. NumOK'
      BY <1>0, <2>1, <2>2, <2>3, <2>4, SizeAssumption DEF StoreOK, NumOK
    <2> QED BY <2>1, <2>2, <2>3, <2>4, <2>5, <2>6, <2>7, <2>8, <2>9, TypePartsNext DEF Typed
  <1>20. ASSUME NEW p \in Proc, KeepCurrentFails(p) PROVE Typed'
    <2>1. /\ pc' = [pc EXCEPT ![p] = "idle"]
          /\ held' = [held EXCEPT ![p] = @ \/ pend[p] # 0]
          /\ pend' = [pend EXCEPT ![p] = 0] /\ at' = [at EXCEPT ![p] = 0] /\ link' = [link EXCEPT ![p] = 0]
          /\ faults < MaxFault /\ faults' = faults + 1 /\ acked' = acked
          /\ UNCHANGED <<file, files, lines, dir, fd, seq, prev, own, tmp, aged, marred>>
      BY <1>20 DEF KeepCurrentFails, Fault, RotateFailed, Return, Goto, fileVars
    <2>2. FilesInv'
      BY <2>1, SameFiles, FileType, SizeAssumption
    <2>3. StoreOK'
      BY <1>0, <2>1, SizeAssumption DEF StoreOK
    <2>4. PcOK'
      BY <1>0, <2>1, SizeAssumption DEF StoreOK, PcOK, PC, FdPC
    <2>5. CallOK'
      BY <1>0, <2>1, SizeAssumption DEF StoreOK, CallOK
    <2>6. NumOK'
      BY <1>0, <2>1, SizeAssumption DEF StoreOK, NumOK
    <2> QED BY <2>1, <2>2, <2>3, <2>4, <2>5, <2>6, TypePartsNext DEF Typed
  <1>21. ASSUME NEW p \in Proc, Continue(p) PROVE Typed'
    <2>1. /\ pc[p] = "cont" /\ pc' = [pc EXCEPT ![p] = "contsync"]
          /\ UNCHANGED <<fd, seq, prev, held, pend, at, link, tmp, acked, aged, marred, faults>>
      BY <1>21 DEF Continue, Goto
    <2>2. WriteLine(p, "continued", link[p]) /\ fd[p] # 0 /\ "continued" \in WrittenKind /\ link[p] \in 0..lines
      BY <1>21, ProcType, FileType DEF Continue, Goto, WrittenKind
    <2>3. /\ file' \in [Inode -> Seq(Line)] /\ lines' = lines + 1 /\ lines' \in 0..MaxLine /\ FilesInv'
          /\ own' = [own EXCEPT ![p] = lines + 1] /\ files' = files /\ dir' = dir
      BY <2>2, WriteLineType
    <2>4. lines' \in Nat /\ 0..lines \subseteq 0..lines' /\ 1..lines \subseteq 1..lines' /\ lines + 1 \in 0..lines'
      BY <1>0, <2>1, <2>2, <2>3
    <2>5. StoreOK'
      BY <1>0, <2>1, <2>2, <2>3, <2>4, SizeAssumption DEF StoreOK
    <2>6. PcOK'
      BY <1>0, <2>1, <2>2, <2>3, <2>4, SizeAssumption DEF StoreOK, PcOK, PC, FdPC
    <2>7. CallOK'
      BY <1>0, <2>1, <2>2, <2>3, <2>4, SizeAssumption DEF StoreOK, CallOK
    <2>8. NumOK'
      BY <1>0, <2>1, <2>2, <2>3, <2>4, SizeAssumption DEF StoreOK, NumOK
    <2> QED BY <2>1, <2>2, <2>3, <2>4, <2>5, <2>6, <2>7, <2>8, TypePartsNext DEF Typed
  <1>22. ASSUME NEW p \in Proc, ContinueSynced(p) PROVE Typed'
    <2>1. /\ pc' = [pc EXCEPT ![p] = "idle"] /\ pend' = [pend EXCEPT ![p] = 0] /\ at' = [at EXCEPT ![p] = 0]
          /\ link' = [link EXCEPT ![p] = 0] /\ acked' = acked \cup ({pend[p]} \ {0})
          /\ seq' = [seq EXCEPT ![p] = @ + 1] /\ prev' = [prev EXCEPT ![p] = own[p]]
          /\ UNCHANGED <<file, files, lines, dir, fd, held, own, tmp, aged, marred, faults>>
      BY <1>22 DEF ContinueSynced, Advance, Return, Goto, fileVars
    <2>2. {pend[p]} \ {0} \subseteq 1..lines
      BY <1>0, ProcType
    <2>3. FilesInv'
      BY <2>1, <2>2, SameFiles, FileType, SizeAssumption
    <2>4. StoreOK'
      BY <1>0, <2>1, <2>2, SizeAssumption DEF StoreOK
    <2>5. PcOK'
      BY <1>0, <2>1, <2>2, SizeAssumption DEF StoreOK, PcOK, PC, FdPC
    <2>6. CallOK'
      BY <1>0, <2>1, <2>2, SizeAssumption DEF StoreOK, CallOK
    <2>7. NumOK'
      BY <1>0, <2>1, <2>2, SizeAssumption DEF StoreOK, NumOK
    <2> QED BY <2>1, <2>2, <2>3, <2>4, <2>5, <2>6, <2>7, TypePartsNext DEF Typed
  <1>23. ASSUME NEW p \in Proc, SentinelShortWrite(p) PROVE Typed'
    <2>1. /\ pc[p] \in {"mark", "cont"} /\ pc' = [pc EXCEPT ![p] = "idle"]
          /\ held' = [held EXCEPT ![p] = @ \/ pend[p] # 0]
          /\ pend' = [pend EXCEPT ![p] = 0] /\ at' = [at EXCEPT ![p] = 0] /\ link' = [link EXCEPT ![p] = 0]
          /\ acked' = acked \cup ({pend[p]} \ {0})
          /\ UNCHANGED <<fd, seq, prev, own, tmp, aged>>
      BY <1>23 DEF SentinelShortWrite, RotateFailed, Return, Goto
    <2>2. ShortWrite(p) /\ fd[p] # 0
      BY <1>23, ProcType DEF SentinelShortWrite, RotateFailed, Return, Goto
    <2>3. /\ file' \in [Inode -> Seq(Line)] /\ lines' = lines + 1 /\ lines' \in 0..MaxLine /\ FilesInv'
          /\ files' = files /\ dir' = dir /\ faults' \in 0..MaxFault /\ marred' \subseteq 1..files
      BY <2>2, ShortWriteType
    <2>4. lines' \in Nat /\ 0..lines \subseteq 0..lines' /\ 1..lines \subseteq 1..lines' /\ lines + 1 \in 0..lines'
      BY <1>0, <2>1, <2>2, <2>3
    <2>5. {pend[p]} \ {0} \subseteq 1..lines
      BY <1>0, ProcType
    <2>6. StoreOK'
      BY <1>0, <2>1, <2>2, <2>3, <2>4, <2>5, SizeAssumption DEF StoreOK
    <2>7. PcOK'
      BY <1>0, <2>1, <2>2, <2>3, <2>4, <2>5, SizeAssumption DEF StoreOK, PcOK, PC, FdPC
    <2>8. CallOK'
      BY <1>0, <2>1, <2>2, <2>3, <2>4, <2>5, SizeAssumption DEF StoreOK, CallOK
    <2>9. NumOK'
      BY <1>0, <2>1, <2>2, <2>3, <2>4, <2>5, SizeAssumption DEF StoreOK, NumOK
    <2> QED BY <2>1, <2>2, <2>3, <2>4, <2>5, <2>6, <2>7, <2>8, <2>9, TypePartsNext DEF Typed
  <1>24. ASSUME NEW p \in Proc, SentinelSyncFails(p) PROVE Typed'
    <2>1. /\ pc[p] \in {"marksync", "contsync"} /\ pc' = [pc EXCEPT ![p] = "idle"]
          /\ held' = [held EXCEPT ![p] = @ \/ pend[p] # 0]
          /\ pend' = [pend EXCEPT ![p] = 0] /\ at' = [at EXCEPT ![p] = 0] /\ link' = [link EXCEPT ![p] = 0]
          /\ acked' = acked \cup ({pend[p]} \ {0}) /\ marred' = marred \cup {fd[p]} /\ faults < MaxFault
          /\ faults' = faults + 1
          /\ UNCHANGED <<file, files, lines, dir, fd, seq, prev, own, tmp, aged>>
      BY <1>24 DEF SentinelSyncFails, Fault, Mar, RotateFailed, Return, Goto, fileVars
    <2>2. {pend[p]} \ {0} \subseteq 1..lines
      BY <1>0, ProcType
    <2>3. fd[p] \in 1..files
      BY <1>0, <2>1, ProcType
    <2>4. FilesInv'
      BY <2>1, <2>2, <2>3, SameFiles, FileType, SizeAssumption
    <2>5. StoreOK'
      <3>1. faults' \in 0..MaxFault
        BY <1>0, <2>1, <2>2, <2>3, SizeAssumption DEF StoreOK
      <3>2. marred' \subseteq 1..files
        BY <1>0, <2>1, <2>2, <2>3, SizeAssumption DEF StoreOK
      <3>3. acked' \subseteq 1..lines
        BY <1>0, <2>1, <2>2, <2>3, SizeAssumption DEF StoreOK
      <3> QED BY <1>0, <2>1, <3>1, <3>2, <3>3 DEF StoreOK
    <2>6. PcOK'
      BY <1>0, <2>1, <2>2, <2>3, SizeAssumption DEF StoreOK, PcOK, PC, FdPC
    <2>7. CallOK'
      BY <1>0, <2>1, <2>2, <2>3, SizeAssumption DEF StoreOK, CallOK
    <2>8. NumOK'
      BY <1>0, <2>1, <2>2, <2>3, SizeAssumption DEF StoreOK, NumOK
    <2> QED BY <2>1, <2>2, <2>3, <2>4, <2>5, <2>6, <2>7, <2>8, TypePartsNext DEF Typed
  <1>25. ASSUME NEW p \in Proc, PruneCopy(p) PROVE Typed'
    <2>1. /\ UNCHANGED <<lines, dir, fd, seq, prev, held, own, pend, at, link, acked, aged, faults>>
      BY <1>25 DEF PruneCopy, Mar, Goto
    <2>2. fd[p] # 0 /\ files < MaxFile /\ files' = files + 1 /\ tmp' = [tmp EXCEPT ![p] = files + 1]
          /\ marred' = marred \cup {files + 1} /\ pc' = [pc EXCEPT ![p] = "swap"]
      BY <1>25 DEF PruneCopy, Mar, Goto
    <2>3. file' \in [Inode -> Seq(Line)] /\ FilesInv'
      BY <1>25, CopyType DEF PruneCopy, Mar, Goto
    <2>4. StoreOK'
      BY <1>0, <2>1, <2>2, <2>3, SizeAssumption DEF StoreOK
    <2>5. PcOK'
      BY <1>0, <2>1, <2>2, <2>3, SizeAssumption DEF StoreOK, PcOK, PC, FdPC
    <2>6. CallOK'
      BY <1>0, <2>1, <2>2, <2>3, SizeAssumption DEF StoreOK, CallOK
    <2>7. NumOK'
      BY <1>0, <2>1, <2>2, <2>3, SizeAssumption DEF StoreOK, NumOK
    <2> QED BY <2>1, <2>2, <2>3, <2>4, <2>5, <2>6, <2>7, TypePartsNext DEF Typed
  <1>26. ASSUME NEW p \in Proc, PruneRename(p) PROVE Typed'
    <2>1. /\ pc[p] = "swap" /\ pc' = [pc EXCEPT ![p] = "reopen"] /\ dir' = [dir EXCEPT ![0] = tmp[p]]
          /\ aged' = aged \cup (Ids(fd[p]) \ Ids(tmp[p])) /\ fd' = [fd EXCEPT ![p] = 0]
          /\ tmp' = [tmp EXCEPT ![p] = 0]
          /\ UNCHANGED <<file, files, lines, seq, prev, held, own, pend, at, link, acked, marred, faults>>
      BY <1>26 DEF PruneRename, Goto
    <2>2. FilesInv'
      BY <2>1, SameFiles, FileType, SizeAssumption
    <2>3. StoreOK'
      BY <1>0, <2>1, SizeAssumption, IdsType, FileType, ProcType DEF StoreOK
    <2>4. PcOK'
      BY <1>0, <2>1, SizeAssumption DEF StoreOK, PcOK, PC, FdPC
    <2>5. CallOK'
      BY <1>0, <2>1, SizeAssumption DEF StoreOK, CallOK
    <2>6. NumOK'
      BY <1>0, <2>1, SizeAssumption DEF StoreOK, NumOK
    <2> QED BY <2>1, <2>2, <2>3, <2>4, <2>5, <2>6, TypePartsNext DEF Typed
  <1>27. ASSUME NEW p \in Proc, PruneReopen(p) PROVE Typed'
    <2>1. /\ pc' = [pc EXCEPT ![p] = "idle"]
          /\ UNCHANGED <<file, lines, held, own, pend, at, link, tmp, acked, aged, marred, faults>>
      BY <1>27 DEF PruneReopen, Goto
    <2>2. /\ files' \in files..MaxFile /\ dir' \in [0..Retain -> 0..files']
          /\ fd' \in [Proc -> 0..files'] /\ fd'[p] # 0 /\ \A q \in Proc \ {p} : fd'[q] = fd[q]
      BY <1>27, OpenFileType DEF Typed, PruneReopen, Goto
    <2>3. seq' \in [Proc -> Nat] /\ prev' \in [Proc -> 0..lines]
      BY <1>27, SeedType DEF PruneReopen, Goto
    <2>4. files' \in Nat /\ 0..files \subseteq 0..files' /\ 1..files \subseteq 1..files'
      BY <1>0, <2>1, <2>2, <2>3, SizeAssumption
    <2>5. FilesInv'
      BY <2>1, <2>2, <2>3, <2>4, SameFiles, FileType, SizeAssumption
    <2>6. StoreOK'
      BY <1>0, <2>1, <2>2, <2>3, <2>4, SizeAssumption DEF StoreOK
    <2>7. PcOK'
      BY <1>0, <2>1, <2>2, <2>3, <2>4, SizeAssumption DEF StoreOK, PcOK, PC, FdPC
    <2>8. CallOK'
      BY <1>0, <2>1, <2>2, <2>3, <2>4, SizeAssumption DEF StoreOK, CallOK
    <2>9. NumOK'
      BY <1>0, <2>1, <2>2, <2>3, <2>4, SizeAssumption DEF StoreOK, NumOK
    <2> QED BY <2>1, <2>2, <2>3, <2>4, <2>5, <2>6, <2>7, <2>8, <2>9, TypePartsNext DEF Typed
  <1>28. ASSUME NEW p \in Proc, PruneRenameFails(p) PROVE Typed'
    <2>1. /\ pc' = [pc EXCEPT ![p] = "idle"] /\ tmp' = [tmp EXCEPT ![p] = 0] /\ faults < MaxFault
          /\ faults' = faults + 1
          /\ UNCHANGED <<file, lines, seq, prev, held, own, pend, at, link, acked, aged, marred>>
      BY <1>28 DEF PruneRenameFails, Fault, Goto
    <2>2. /\ files' \in files..MaxFile /\ dir' \in [0..Retain -> 0..files']
          /\ fd' \in [Proc -> 0..files'] /\ fd'[p] # 0 /\ \A q \in Proc \ {p} : fd'[q] = fd[q]
      BY <1>28, OpenFileType DEF Typed, PruneRenameFails, Fault, Goto
    <2>3. files' \in Nat /\ 0..files \subseteq 0..files' /\ 1..files \subseteq 1..files'
      BY <1>0, <2>1, <2>2, SizeAssumption
    <2>4. FilesInv'
      BY <2>1, <2>2, <2>3, SameFiles, FileType, SizeAssumption
    <2>5. StoreOK'
      BY <1>0, <2>1, <2>2, <2>3, SizeAssumption DEF StoreOK
    <2>6. PcOK'
      BY <1>0, <2>1, <2>2, <2>3, SizeAssumption DEF StoreOK, PcOK, PC, FdPC
    <2>7. CallOK'
      BY <1>0, <2>1, <2>2, <2>3, SizeAssumption DEF StoreOK, CallOK
    <2>8. NumOK'
      BY <1>0, <2>1, <2>2, <2>3, SizeAssumption DEF StoreOK, NumOK
    <2> QED BY <2>1, <2>2, <2>3, <2>4, <2>5, <2>6, <2>7, <2>8, TypePartsNext DEF Typed
  <1>29. ASSUME NEW p \in Proc, PruneReopenFails(p) PROVE Typed'
    <2>1. /\ pc' = [pc EXCEPT ![p] = "broken"] /\ faults < MaxFault /\ faults' = faults + 1
          /\ UNCHANGED <<file, files, lines, dir, fd, seq, prev, held, own, pend, at, link, tmp, acked, aged, marred>>
      BY <1>29 DEF PruneReopenFails, Fault, Goto, fileVars
    <2>2. FilesInv'
      BY <2>1, SameFiles, FileType, SizeAssumption
    <2>3. StoreOK'
      BY <1>0, <2>1, SizeAssumption DEF StoreOK
    <2>4. PcOK'
      BY <1>0, <2>1, SizeAssumption DEF StoreOK, PcOK, PC, FdPC
    <2>5. CallOK'
      BY <1>0, <2>1, SizeAssumption DEF StoreOK, CallOK
    <2>6. NumOK'
      BY <1>0, <2>1, SizeAssumption DEF StoreOK, NumOK
    <2> QED BY <2>1, <2>2, <2>3, <2>4, <2>5, <2>6, TypePartsNext DEF Typed
  <1>30. ASSUME NEW g \in 1..Retain, Sweep(g) PROVE Typed'
    <2>1. /\ dir' = [h \in 0..Retain |-> IF h >= g THEN 0 ELSE dir[h]]
          /\ aged' = aged \cup UNION {Ids(dir[h]) : h \in {h \in g..Retain : dir[h] # 0}}
          /\ UNCHANGED <<file, files, lines, pc, fd, seq, prev, held, own, pend, at, link, tmp, acked, marred, faults>>
      BY <1>30 DEF Sweep, procVars
    <2>2. FilesInv'
      BY <2>1, SameFiles, FileType, SizeAssumption
    <2>3. \A h \in g..Retain : dir[h] # 0 => Ids(dir[h]) \subseteq 1..lines
      BY <1>0, IdsType, FileType, SizeAssumption DEF StoreOK
    <2>4. aged' \subseteq 1..lines
      BY <1>0, <2>1, <2>3 DEF StoreOK
    <2>5. StoreOK'
      BY <1>0, <2>1, <2>4 DEF StoreOK
    <2>6. PcOK' /\ CallOK' /\ NumOK'
      BY <1>0, <2>1 DEF PcOK, CallOK, NumOK
    <2> QED BY <2>2, <2>5, <2>6, TypePartsNext DEF Typed
  <1>31. CASE UNCHANGED vars
    BY <1>31 DEF Typed, TypeOK, FilesInv, vars, fileVars, procVars, Inode
  <1> QED
    BY <1>1, <1>2, <1>3, <1>4, <1>5, <1>6, <1>7, <1>8, <1>9, <1>10, <1>11, <1>12, <1>13, <1>14, <1>15, <1>16, <1>17, <1>18, <1>19, <1>20, <1>21, <1>22, <1>23, <1>24, <1>25, <1>26, <1>27, <1>28, <1>29, <1>30, <1>31 DEF Next

\* The types hold for any number of processes.
THEOREM AuditLogTypes == Spec => []TypeOK
  <1>1. Init => Typed
    BY InitType
  <1>2. Typed /\ [Next]_vars => Typed'
    BY NextType
  <1>3. Typed => TypeOK
    BY DEF Typed
  <1> QED BY <1>1, <1>2, <1>3, PTL DEF Spec

-----------------------------------------------------------------------------
\* One process

Single == \A p, q \in Proc : p = q

\* No inode has two names; the process writes to the log, which has its name
\* except between the two renames of a rotation; Prune's temporary file has none;
\* the generation above the one to be shifted next is free.
Distinct == \A g, h \in 0..Retain : dir[g] # 0 /\ dir[g] = dir[h] => g = h

DirOK(p) ==
    /\ fd[p] # 0 => fd[p] = dir[0]
    /\ pc[p] \in {"down", "shift", "open", "keep", "reopen", "broken"} => fd[p] = 0
    /\ pc[p] \in {"shift", "keep"} => dir[0] # 0
    /\ pc[p] = "open" => dir[0] = 0
    /\ pc[p] = "reopen" => dir[0] # 0 /\ dir[0] \in marred
    /\ pc[p] = "swap" => tmp[p] # 0 /\ tmp[p] \in marred /\ \A g \in 0..Retain : dir[g] # tmp[p]
    /\ pc[p] = "shift" /\ at[p] < Retain => dir[at[p] + 1] = 0

DirInv == Distinct /\ \A p \in Proc : DirOK(p)

\* The numbers that occur.
LEMMA Numbers ==
    ASSUME Typed
    PROVE  /\ Retain \in Nat /\ Retain # 0 /\ 0 \in 0..Retain /\ 1 \in 0..Retain /\ Retain \in 0..Retain
           /\ files \in Nat /\ lines \in Nat /\ files <= MaxFile /\ lines <= MaxLine
           /\ \A g \in 0..Retain : dir[g] \in Nat /\ dir[g] <= files
           /\ \A p \in Proc : at[p] \in Nat /\ at[p] <= Retain
           /\ DOMAIN dir = 0..Retain
  BY SizeAssumption DEF Typed, TypeOK

\* openFile, pointwise.
LEMMA OpenFileEffect ==
    ASSUME Typed, NEW p \in Proc, OpenFile(p)
    PROVE  /\ fd'[p] = dir'[0] /\ dir'[0] # 0
           /\ \A g \in 0..Retain : g # 0 => dir'[g] = dir[g]
           /\ dir[0] # 0 => dir' = dir /\ files' = files
           /\ dir[0] = 0 => dir'[0] = files + 1 /\ files' = files + 1 /\ files < MaxFile
  <1>1. fd \in [Proc -> 0..files] /\ dir \in [0..Retain -> 0..files]
    BY DEF Typed, TypeOK
  <1> QED BY <1>1, Numbers DEF OpenFile

\* One rename of shiftGenerations, pointwise.
LEMMA ShiftEffect ==
    ASSUME Typed, NEW p \in Proc, Shift(p)
    PROVE  /\ at[p] # 0 /\ at[p] < Retain /\ at[p] + 1 \in 0..Retain /\ at'[p] = at[p] - 1
           /\ \A g \in 0..Retain : dir'[g] = IF dir[at[p]] # 0 /\ g = at[p] + 1 THEN dir[at[p]]
                                           ELSE IF g = at[p] THEN 0 ELSE dir[g]
  <1>1. at[p] \in 1..Retain - 1 /\ at' = [at EXCEPT ![p] = at[p] - 1]
        /\ dir' = IF dir[at[p]] = 0 THEN dir ELSE [dir EXCEPT ![at[p] + 1] = dir[at[p]], ![at[p]] = 0]
    BY DEF Shift
  <1>2. at \in [Proc -> 0..Retain] /\ dir \in [0..Retain -> 0..files]
    BY DEF Typed, TypeOK
  <1>3. at[p] # 0 /\ at[p] < Retain /\ at[p] + 1 \in 0..Retain /\ at'[p] = at[p] - 1 /\ at[p] # at[p] + 1
    BY <1>1, <1>2, SizeAssumption
  <1> QED BY <1>1, <1>2, <1>3

\* The names are right initially.
LEMMA InitDir == Init => DirInv
  BY SizeAssumption DEF Init, DirInv, Distinct, DirOK

\* Every step of a single process keeps the names right.
LEMMA NextDir == ASSUME Single, Typed, DirInv, [Next]_vars PROVE DirInv'
  <1>0. /\ pc \in [Proc -> PC] /\ fd \in [Proc -> 0..files] /\ tmp \in [Proc -> 0..files] /\ at \in [Proc -> 0..Retain]
        /\ dir \in [0..Retain -> 0..files] /\ marred \subseteq 1..files
    BY DEF Typed, TypeOK
  <1>1. ASSUME NEW p \in Proc, Open(p) PROVE DirInv'
    <2>1. /\ pc[p] = "down" /\ pc'[p] = "idle" /\ UNCHANGED <<at, tmp, marred>>
      BY <1>0, <1>1, Numbers DEF Open, OpenAndSeed, Goto
    <2>2. /\ fd'[p] = dir'[0] /\ dir'[0] # 0 /\ \A g \in 0..Retain : g # 0 => dir'[g] = dir[g]
          /\ dir[0] # 0 => dir' = dir
          /\ dir[0] = 0 => dir'[0] = files + 1
      BY <1>1, OpenFileEffect DEF Open, OpenAndSeed, Goto
    <2>3. Distinct'
      BY <2>1, <2>2, Numbers DEF DirInv, Distinct, DirOK
    <2>4. DirOK(p)'
      BY <2>1, <2>2, Numbers DEF DirInv, DirOK, Distinct
    <2> QED BY <2>3, <2>4 DEF Single, DirInv
  <1>2. ASSUME NEW p \in Proc, Reopen(p) PROVE DirInv'
    <2>1. /\ pc[p] = "idle" /\ fd[p] = 0 /\ UNCHANGED <<pc, at, tmp, marred>>
      BY <1>0, <1>2, Numbers DEF Reopen, OpenAndSeed
    <2>2. /\ fd'[p] = dir'[0] /\ dir'[0] # 0 /\ \A g \in 0..Retain : g # 0 => dir'[g] = dir[g]
          /\ dir[0] # 0 => dir' = dir
          /\ dir[0] = 0 => dir'[0] = files + 1
      BY <1>2, OpenFileEffect DEF Reopen, OpenAndSeed
    <2>3. Distinct'
      BY <2>1, <2>2, Numbers DEF DirInv, Distinct, DirOK
    <2>4. DirOK(p)'
      BY <2>1, <2>2, Numbers DEF DirInv, DirOK, Distinct
    <2> QED BY <2>3, <2>4 DEF Single, DirInv
  <1>3. ASSUME NEW p \in Proc, Stop(p) PROVE DirInv'
    <2>1. /\ pc'[p] = "down" /\ fd'[p] = 0 /\ at'[p] = 0 /\ tmp'[p] = 0 /\ UNCHANGED <<dir, marred>>
      BY <1>0, <1>3, Numbers DEF Stop, Goto, fileVars
    <2>2. Distinct'
      BY <2>1, Numbers DEF DirInv, Distinct
    <2>3. DirOK(p)'
      BY <2>1, Numbers DEF DirInv, DirOK
    <2> QED BY <2>2, <2>3 DEF Single, DirInv
  <1>4. ASSUME NEW p \in Proc, RetryDue(p) PROVE DirInv'
    <2>1. /\ UNCHANGED <<dir, pc, fd, at, tmp, marred>>
      BY <1>0, <1>4, Numbers DEF RetryDue, fileVars
    <2>2. Distinct'
      BY <2>1, Numbers DEF DirInv, Distinct
    <2>3. DirOK(p)'
      BY <2>1, Numbers DEF DirInv, DirOK
    <2> QED BY <2>2, <2>3 DEF Single, DirInv
  <1>5. ASSUME NEW p \in Proc, Log(p) PROVE DirInv'
    <2>1. /\ pc[p] = "idle" /\ fd[p] # 0 /\ pc'[p] = "sync" /\ UNCHANGED <<fd, at, tmp, marred>>
      BY <1>0, <1>5, Numbers DEF Log, Goto
    <2>2. dir' = dir
      BY <1>5 DEF Log, Goto, WriteLine
    <2>3. Distinct'
      BY <2>1, <2>2, Numbers DEF DirInv, Distinct
    <2>4. DirOK(p)'
      BY <2>1, <2>2, Numbers DEF DirInv, DirOK
    <2> QED BY <2>3, <2>4 DEF Single, DirInv
  <1>6. ASSUME NEW p \in Proc, LogShortWrite(p) PROVE DirInv'
    <2>1. /\ pc[p] = "idle" /\ fd[p] # 0 /\ UNCHANGED <<pc, fd, at, tmp>>
      BY <1>0, <1>6, Numbers DEF LogShortWrite, procVars
    <2>2. dir' = dir /\ marred' = marred \cup {fd[p]}
      BY <1>6 DEF LogShortWrite, procVars, ShortWrite, Mar
    <2>3. Distinct'
      BY <2>1, <2>2, Numbers DEF DirInv, Distinct
    <2>4. DirOK(p)'
      BY <2>1, <2>2, Numbers DEF DirInv, DirOK
    <2> QED BY <2>3, <2>4 DEF Single, DirInv
  <1>7. ASSUME NEW p \in Proc, LogSynced(p) PROVE DirInv'
    <2>1. /\ pc[p] = "sync" /\ pc'[p] \in {"mark", "idle"} /\ UNCHANGED <<dir, fd, tmp, marred>>
      BY <1>0, <1>7, Numbers DEF LogSynced, Advance, Goto, Return, fileVars
    <2>2. Distinct'
      BY <2>1, Numbers DEF DirInv, Distinct
    <2>3. DirOK(p)'
      BY <2>1, Numbers DEF DirInv, DirOK
    <2> QED BY <2>2, <2>3 DEF Single, DirInv
  <1>8. ASSUME NEW p \in Proc, LogSyncFails(p) PROVE DirInv'
    <2>1. /\ pc[p] = "sync" /\ pc'[p] = "idle" /\ at'[p] = 0 /\ marred' = marred \cup {fd[p]}
          /\ UNCHANGED <<dir, fd, tmp>>
      BY <1>0, <1>8, Numbers DEF LogSyncFails, Mar, Goto, Return, fileVars
    <2>2. Distinct'
      BY <2>1, Numbers DEF DirInv, Distinct
    <2>3. DirOK(p)'
      BY <2>1, Numbers DEF DirInv, DirOK
    <2> QED BY <2>2, <2>3 DEF Single, DirInv
  <1>9. ASSUME NEW p \in Proc, Rotate(p) PROVE DirInv'
    <2>1. /\ pc[p] = "idle" /\ fd[p] # 0 /\ pc'[p] = "mark" /\ UNCHANGED <<dir, fd, at, tmp, marred>>
      BY <1>0, <1>9, Numbers DEF Rotate, HasFile, Goto, fileVars
    <2>2. Distinct'
      BY <2>1, Numbers DEF DirInv, Distinct
    <2>3. DirOK(p)'
      BY <2>1, Numbers DEF DirInv, DirOK
    <2> QED BY <2>2, <2>3 DEF Single, DirInv
  <1>10. ASSUME NEW p \in Proc, Mark(p) PROVE DirInv'
    <2>1. /\ pc[p] = "mark" /\ pc'[p] = "marksync" /\ UNCHANGED <<fd, at, tmp, marred>>
      BY <1>0, <1>10, Numbers DEF Mark, Goto
    <2>2. dir' = dir
      BY <1>10 DEF Mark, Goto, WriteLine
    <2>3. Distinct'
      BY <2>1, <2>2, Numbers DEF DirInv, Distinct
    <2>4. DirOK(p)'
      BY <2>1, <2>2, Numbers DEF DirInv, DirOK
    <2> QED BY <2>3, <2>4 DEF Single, DirInv
  <1>11. ASSUME NEW p \in Proc, MarkSynced(p) PROVE DirInv'
    <2>1. /\ pc[p] = "marksync" /\ pc'[p] = "shift" /\ fd'[p] = 0 /\ at'[p] = Retain
          /\ UNCHANGED <<dir, tmp, marred>>
      BY <1>0, <1>11, Numbers DEF MarkSynced, Advance, LinkTo, ShiftFrom, Goto, fileVars
    <2>2. Distinct'
      BY <2>1, Numbers DEF DirInv, Distinct
    <2>3. DirOK(p)'
      BY <2>1, Numbers, ProcType DEF DirInv, DirOK
    <2> QED BY <2>2, <2>3 DEF Single, DirInv
  <1>12. ASSUME NEW p \in Proc, RemoveOldest(p) PROVE DirInv'
    <2>1. /\ pc[p] = "shift" /\ at[p] = Retain
          /\ \A g \in 0..Retain : dir'[g] = IF g = Retain THEN 0 ELSE dir[g]
          /\ at'[p] = Retain - 1 /\ UNCHANGED <<pc, fd, tmp, marred>>
      BY <1>0, <1>12, Numbers DEF RemoveOldest
    <2>2. Distinct'
      BY <2>1, Numbers DEF DirInv, Distinct, DirOK
    <2>3. DirOK(p)'
      BY <2>1, Numbers DEF DirInv, DirOK, Distinct
    <2> QED BY <2>2, <2>3 DEF Single, DirInv
  <1>13. ASSUME NEW p \in Proc, Shift(p) PROVE DirInv'
    <2>1. /\ pc[p] = "shift" /\ at[p] # 0 /\ at[p] < Retain
          /\ \A g \in 0..Retain : dir'[g] = IF dir[at[p]] # 0 /\ g = at[p] + 1 THEN dir[at[p]] ELSE IF g = at[p] THEN 0 ELSE dir[g]
          /\ at'[p] = at[p] - 1 /\ UNCHANGED <<pc, fd, tmp, marred>>
      BY <1>0, <1>13, Numbers, ShiftEffect DEF Shift
    <2>2. Distinct'
      <3>1. dir[at[p] + 1] = 0 /\ at[p] \in 0..Retain /\ at[p] + 1 \in 0..Retain /\ at[p] # at[p] + 1
        BY <2>1, Numbers, SMTT(30) DEF DirInv, DirOK
      <3>2. /\ dir'[at[p]] = 0 /\ dir'[at[p] + 1] = dir[at[p]]
            /\ \A g \in 0..Retain : g # at[p] /\ g # at[p] + 1 => dir'[g] = dir[g]
        BY <2>1, <3>1
      <3> QED BY <3>1, <3>2 DEF DirInv, Distinct
    <2>3. DirOK(p)'
      BY <2>1, Numbers, SMTT(30) DEF DirInv, DirOK, Distinct
    <2> QED BY <2>2, <2>3 DEF Single, DirInv
  <1>14. ASSUME NEW p \in Proc, RenameLog(p) PROVE DirInv'
    <2>1. /\ pc[p] = "shift" /\ at[p] = 0 /\ dir[0] # 0
          /\ \A g \in 0..Retain : dir'[g] = IF g = 1 THEN dir[0] ELSE IF g = 0 THEN 0 ELSE dir[g]
          /\ pc'[p] = "open" /\ UNCHANGED <<fd, at, tmp, marred>>
      BY <1>0, <1>14, Numbers DEF RenameLog, Newest, Goto
    <2>2. Distinct'
      BY <2>1, Numbers DEF DirInv, Distinct, DirOK
    <2>3. DirOK(p)'
      BY <2>1, Numbers DEF DirInv, DirOK, Distinct
    <2> QED BY <2>2, <2>3 DEF Single, DirInv
  <1>15. ASSUME NEW p \in Proc, RenameFails(p) PROVE DirInv'
    <2>1. /\ pc[p] = "shift" /\ pc'[p] = "keep" /\ UNCHANGED <<dir, fd, at, tmp, marred>>
      BY <1>0, <1>15, Numbers DEF RenameFails, Goto, fileVars
    <2>2. Distinct'
      BY <2>1, Numbers DEF DirInv, Distinct
    <2>3. DirOK(p)'
      BY <2>1, Numbers DEF DirInv, DirOK
    <2> QED BY <2>2, <2>3 DEF Single, DirInv
  <1>16. ASSUME NEW p \in Proc, OpenNew(p) PROVE DirInv'
    <2>1. /\ pc[p] = "open" /\ pc'[p] = "cont" /\ UNCHANGED <<at, tmp, marred>>
      BY <1>0, <1>16, Numbers DEF OpenNew, StartChain, Goto
    <2>2. /\ fd'[p] = dir'[0] /\ dir'[0] # 0 /\ \A g \in 0..Retain : g # 0 => dir'[g] = dir[g]
          /\ dir[0] # 0 => dir' = dir
          /\ dir[0] = 0 => dir'[0] = files + 1
      BY <1>16, OpenFileEffect DEF OpenNew, StartChain, Goto
    <2>3. Distinct'
      BY <2>1, <2>2, Numbers DEF DirInv, Distinct, DirOK
    <2>4. DirOK(p)'
      BY <2>1, <2>2, Numbers DEF DirInv, DirOK, Distinct
    <2> QED BY <2>3, <2>4 DEF Single, DirInv
  <1>17. ASSUME NEW p \in Proc, OpenNewFails(p) PROVE DirInv'
    <2>1. /\ pc[p] = "open" /\ dir[1] # 0
          /\ \A g \in 0..Retain : dir'[g] = IF g = 0 THEN dir[1] ELSE IF g = 1 THEN 0 ELSE dir[g]
          /\ pc'[p] = "keep" /\ UNCHANGED <<fd, at, tmp, marred>>
      BY <1>0, <1>17, Numbers DEF OpenNewFails, Restore, Newest, Goto
    <2>2. Distinct'
      BY <2>1, Numbers DEF DirInv, Distinct, DirOK
    <2>3. DirOK(p)'
      BY <2>1, Numbers DEF DirInv, DirOK, Distinct
    <2> QED BY <2>2, <2>3 DEF Single, DirInv
  <1>18. ASSUME NEW p \in Proc, RestoreFails(p) PROVE DirInv'
    <2>1. /\ pc[p] = "open" /\ pc'[p] = "idle" /\ at'[p] = 0 /\ UNCHANGED <<dir, fd, tmp, marred>>
      BY <1>0, <1>18, Numbers DEF RestoreFails, RotateFailed, Return, Goto, fileVars
    <2>2. Distinct'
      BY <2>1, Numbers DEF DirInv, Distinct
    <2>3. DirOK(p)'
      BY <2>1, Numbers DEF DirInv, DirOK
    <2> QED BY <2>2, <2>3 DEF Single, DirInv
  <1>19. ASSUME NEW p \in Proc, KeepCurrent(p) PROVE DirInv'
    <2>1. /\ pc[p] = "keep" /\ pc'[p] = "idle" /\ at'[p] = 0 /\ UNCHANGED <<tmp, marred>>
      BY <1>0, <1>19, Numbers DEF KeepCurrent, RotateFailed, Return, Goto
    <2>2. /\ fd'[p] = dir'[0] /\ dir'[0] # 0 /\ \A g \in 0..Retain : g # 0 => dir'[g] = dir[g]
          /\ dir[0] # 0 => dir' = dir
          /\ dir[0] = 0 => dir'[0] = files + 1
      BY <1>19, OpenFileEffect DEF KeepCurrent, RotateFailed, Return, Goto
    <2>3. Distinct'
      BY <2>1, <2>2, Numbers DEF DirInv, Distinct, DirOK
    <2>4. DirOK(p)'
      BY <2>1, <2>2, Numbers DEF DirInv, DirOK, Distinct
    <2> QED BY <2>3, <2>4 DEF Single, DirInv
  <1>20. ASSUME NEW p \in Proc, KeepCurrentFails(p) PROVE DirInv'
    <2>1. /\ pc[p] = "keep" /\ pc'[p] = "idle" /\ at'[p] = 0 /\ UNCHANGED <<dir, fd, tmp, marred>>
      BY <1>0, <1>20, Numbers DEF KeepCurrentFails, RotateFailed, Return, Goto, fileVars
    <2>2. Distinct'
      BY <2>1, Numbers DEF DirInv, Distinct
    <2>3. DirOK(p)'
      BY <2>1, Numbers DEF DirInv, DirOK
    <2> QED BY <2>2, <2>3 DEF Single, DirInv
  <1>21. ASSUME NEW p \in Proc, Continue(p) PROVE DirInv'
    <2>1. /\ pc[p] = "cont" /\ pc'[p] = "contsync" /\ UNCHANGED <<fd, at, tmp, marred>>
      BY <1>0, <1>21, Numbers DEF Continue, Goto
    <2>2. dir' = dir
      BY <1>21 DEF Continue, Goto, WriteLine
    <2>3. Distinct'
      BY <2>1, <2>2, Numbers DEF DirInv, Distinct
    <2>4. DirOK(p)'
      BY <2>1, <2>2, Numbers DEF DirInv, DirOK
    <2> QED BY <2>3, <2>4 DEF Single, DirInv
  <1>22. ASSUME NEW p \in Proc, ContinueSynced(p) PROVE DirInv'
    <2>1. /\ pc[p] = "contsync" /\ pc'[p] = "idle" /\ at'[p] = 0 /\ UNCHANGED <<dir, fd, tmp, marred>>
      BY <1>0, <1>22, Numbers DEF ContinueSynced, Advance, Return, Goto, fileVars
    <2>2. Distinct'
      BY <2>1, Numbers DEF DirInv, Distinct
    <2>3. DirOK(p)'
      BY <2>1, Numbers DEF DirInv, DirOK
    <2> QED BY <2>2, <2>3 DEF Single, DirInv
  <1>23. ASSUME NEW p \in Proc, SentinelShortWrite(p) PROVE DirInv'
    <2>1. /\ pc[p] \in {"mark", "cont"} /\ pc'[p] = "idle" /\ at'[p] = 0 /\ UNCHANGED <<fd, tmp>>
      BY <1>0, <1>23, Numbers DEF SentinelShortWrite, RotateFailed, Return, Goto
    <2>2. dir' = dir /\ marred' = marred \cup {fd[p]}
      BY <1>23 DEF SentinelShortWrite, RotateFailed, Return, Goto, ShortWrite, Mar
    <2>3. Distinct'
      BY <2>1, <2>2, Numbers DEF DirInv, Distinct
    <2>4. DirOK(p)'
      BY <2>1, <2>2, Numbers DEF DirInv, DirOK
    <2> QED BY <2>3, <2>4 DEF Single, DirInv
  <1>24. ASSUME NEW p \in Proc, SentinelSyncFails(p) PROVE DirInv'
    <2>1. /\ pc[p] \in {"marksync", "contsync"} /\ pc'[p] = "idle" /\ at'[p] = 0
          /\ marred' = marred \cup {fd[p]} /\ UNCHANGED <<dir, fd, tmp>>
      BY <1>0, <1>24, Numbers DEF SentinelSyncFails, Mar, RotateFailed, Return, Goto, fileVars
    <2>2. Distinct'
      BY <2>1, Numbers DEF DirInv, Distinct
    <2>3. DirOK(p)'
      BY <2>1, Numbers DEF DirInv, DirOK
    <2> QED BY <2>2, <2>3 DEF Single, DirInv
  <1>25. ASSUME NEW p \in Proc, PruneCopy(p) PROVE DirInv'
    <2>1. /\ pc[p] = "idle" /\ fd[p] # 0 /\ pc'[p] = "swap" /\ tmp'[p] = files + 1
          /\ marred' = marred \cup {files + 1} /\ UNCHANGED <<dir, fd, at>>
      BY <1>0, <1>25, Numbers DEF PruneCopy, Mar, Goto
    <2>2. Distinct'
      BY <2>1, Numbers DEF DirInv, Distinct
    <2>3. DirOK(p)'
      BY <2>1, Numbers DEF DirInv, DirOK
    <2> QED BY <2>2, <2>3 DEF Single, DirInv
  <1>26. ASSUME NEW p \in Proc, PruneRename(p) PROVE DirInv'
    <2>1. /\ pc[p] = "swap"
          /\ \A g \in 0..Retain : dir'[g] = IF g = 0 THEN tmp[p] ELSE dir[g]
          /\ pc'[p] = "reopen" /\ fd'[p] = 0 /\ tmp'[p] = 0 /\ UNCHANGED <<at, marred>>
      BY <1>0, <1>26, Numbers DEF PruneRename, Goto
    <2>2. Distinct'
      BY <2>1, Numbers DEF DirInv, Distinct, DirOK
    <2>3. DirOK(p)'
      BY <2>1, Numbers DEF DirInv, DirOK, Distinct
    <2> QED BY <2>2, <2>3 DEF Single, DirInv
  <1>27. ASSUME NEW p \in Proc, PruneReopen(p) PROVE DirInv'
    <2>1. /\ pc[p] = "reopen" /\ pc'[p] = "idle" /\ UNCHANGED <<at, tmp, marred>>
      BY <1>0, <1>27, Numbers DEF PruneReopen, Goto
    <2>2. /\ fd'[p] = dir'[0] /\ dir'[0] # 0 /\ \A g \in 0..Retain : g # 0 => dir'[g] = dir[g]
          /\ dir[0] # 0 => dir' = dir
          /\ dir[0] = 0 => dir'[0] = files + 1
      BY <1>27, OpenFileEffect DEF PruneReopen, Goto
    <2>3. Distinct'
      BY <2>1, <2>2, Numbers DEF DirInv, Distinct, DirOK
    <2>4. DirOK(p)'
      BY <2>1, <2>2, Numbers DEF DirInv, DirOK, Distinct
    <2> QED BY <2>3, <2>4 DEF Single, DirInv
  <1>28. ASSUME NEW p \in Proc, PruneRenameFails(p) PROVE DirInv'
    <2>1. /\ pc[p] = "swap" /\ pc'[p] = "idle" /\ tmp'[p] = 0 /\ UNCHANGED <<at, marred>>
      BY <1>0, <1>28, Numbers DEF PruneRenameFails, Goto
    <2>2. /\ fd'[p] = dir'[0] /\ dir'[0] # 0 /\ \A g \in 0..Retain : g # 0 => dir'[g] = dir[g]
          /\ dir[0] # 0 => dir' = dir
          /\ dir[0] = 0 => dir'[0] = files + 1
      BY <1>28, OpenFileEffect DEF PruneRenameFails, Goto
    <2>3. Distinct'
      BY <2>1, <2>2, Numbers DEF DirInv, Distinct, DirOK
    <2>4. DirOK(p)'
      BY <2>1, <2>2, Numbers DEF DirInv, DirOK, Distinct
    <2> QED BY <2>3, <2>4 DEF Single, DirInv
  <1>29. ASSUME NEW p \in Proc, PruneReopenFails(p) PROVE DirInv'
    <2>1. /\ pc[p] = "reopen" /\ pc'[p] = "broken" /\ UNCHANGED <<dir, fd, at, tmp, marred>>
      BY <1>0, <1>29, Numbers DEF PruneReopenFails, Goto, fileVars
    <2>2. Distinct'
      BY <2>1, Numbers DEF DirInv, Distinct
    <2>3. DirOK(p)'
      BY <2>1, Numbers DEF DirInv, DirOK
    <2> QED BY <2>2, <2>3 DEF Single, DirInv
  <1>30. ASSUME NEW g \in 1..Retain, Sweep(g) PROVE DirInv'
    <2>1. /\ \A h \in 0..Retain : dir'[h] = IF h >= g THEN 0 ELSE dir[h]
          /\ UNCHANGED <<pc, fd, tmp, at, marred>>
      BY <1>0, <1>30 DEF Sweep, procVars
    <2>2. Distinct'
      BY <2>1, Numbers DEF DirInv, Distinct
    <2>3. ASSUME NEW p \in Proc PROVE DirOK(p)'
      <3>1. \A h \in 0..Retain : dir[h] = 0 => dir'[h] = 0
        BY <2>1
      <3>2. dir'[0] = dir[0]
        BY <2>1, Numbers
      <3>3. \A h \in 0..Retain : dir'[h] \in {dir[h], 0}
        BY <2>1
      <3>4. at[p] < Retain => at[p] + 1 \in 0..Retain
        BY Numbers
      <3> QED BY <2>1, <3>1, <3>2, <3>3, <3>4 DEF DirInv, DirOK
    <2> QED BY <2>2, <2>3 DEF DirInv
  <1>31. CASE UNCHANGED vars
    BY <1>31 DEF DirInv, Distinct, DirOK, vars, fileVars, procVars
  <1> QED
    BY <1>1, <1>2, <1>3, <1>4, <1>5, <1>6, <1>7, <1>8, <1>9, <1>10, <1>11, <1>12, <1>13, <1>14, <1>15, <1>16, <1>17, <1>18, <1>19, <1>20, <1>21, <1>22, <1>23, <1>24, <1>25, <1>26, <1>27, <1>28, <1>29, <1>30, <1>31 DEF Next

-----------------------------------------------------------------------------
\* The chain

\* The id of the last line of f, which the next line names as prev_hmac.
Tip(f) == IF f = <<>> THEN 0 ELSE f[Len(f)].id

\* Every file verifies that no fault has marred and Prune has not rewritten, also
\* one that has no name.
ChainInv == \A i \in Inode \ marred : VerifyChain(file[i])

\* The chain state is that of the last line of inode i, or of the one before it
\* while p has not synced the last.
Synced(p, i)   == i \in marred \/ (seq[p] = Len(file[i]) /\ prev[p] = Tip(file[i]))
Unsynced(p, i) == i \in marred \/ (seq[p] + 1 = Len(file[i]) /\ own[p] = Tip(file[i]))

StateOK(p) ==
    /\ pc[p] \in {"idle", "mark", "cont", "swap"} /\ fd[p] # 0 => Synced(p, fd[p])
    /\ pc[p] \in {"sync", "marksync", "contsync"} => Unsynced(p, fd[p])
    /\ pc[p] \in {"shift", "keep"} => Synced(p, dir[0])
    /\ pc[p] = "open" /\ dir[1] # 0 => Synced(p, dir[1])

StateInv == \A p \in Proc : StateOK(p)

\* A line that continues the chain of a file.
LEMMA ChainAppend ==
    ASSUME NEW f \in Seq(Line), VerifyChain(f), NEW l \in Line,
           l.seq = Len(f) + 1, Decodable(l), l.prev = Tip(f)
    PROVE  VerifyChain(Append(f, l)) /\ Len(Append(f, l)) = Len(f) + 1 /\ Tip(Append(f, l)) = l.id
  <1> DEFINE h == Append(f, l)
  <1>1. Len(h) = Len(f) + 1 /\ DOMAIN h = 1..Len(f) + 1 /\ h[Len(f) + 1] = l /\ Len(f) \in Nat
        /\ \A n \in 1..Len(f) : h[n] = f[n]
    OBVIOUS
  <1>2. \A n \in 1..Len(f) : f[n].seq = n /\ Decodable(f[n]) /\ f[n].prev = IF n = 1 THEN 0 ELSE f[n - 1].id
    BY DEF VerifyChain
  <1>3. Tip(f) = IF Len(f) + 1 = 1 THEN 0 ELSE f[Len(f)].id
    BY DEF Tip
  <1> HIDE DEF h
  <1>4. ASSUME NEW n \in 1..Len(f) + 1
        PROVE  h[n].seq = n /\ Decodable(h[n]) /\ h[n].prev = IF n = 1 THEN 0 ELSE h[n - 1].id
    <2>1. CASE n \in 1..Len(f)
      <3>1. n # 1 => n - 1 \in 1..Len(f)
        BY <1>1, <2>1
      <3> QED BY <1>1, <1>2, <2>1, <3>1
    <2>2. CASE n = Len(f) + 1
      <3>1. n # 1 => Len(f) \in 1..Len(f) /\ n - 1 = Len(f)
        BY <1>1, <2>2
      <3> QED BY <1>1, <1>3, <2>2, <3>1
    <2> QED BY <1>1, <2>1, <2>2
  <1>5. VerifyChain(h)
    BY <1>1, <1>4 DEF VerifyChain
  <1>6. h # <<>>
    BY <1>1
  <1> QED BY <1>1, <1>5, <1>6 DEF Tip, h

\* A file that verifies has no torn line, and the chain state read from it is that
\* of its last line.
LEMMA ChainLast ==
    ASSUME NEW f \in Seq(Line), VerifyChain(f)
    PROVE  /\ ~Torn(f) /\ LastSeq(f) = Len(f)
           /\ Tip(f) = IF LastSeq(f) = 0 THEN 0 ELSE f[Len(f)].id
           /\ \A n \in DOMAIN f : f[n].kind # "torn" /\ f[n].kind # "glued"
  <1>1. f # <<>> => Len(f) \in DOMAIN f /\ Len(f) # 0
    OBVIOUS
  <1>2. f = <<>> => Len(f) = 0
    OBVIOUS
  <1>3. \A n \in DOMAIN f : f[n].seq = n /\ f[n].kind # "torn" /\ f[n].kind # "glued"
    BY DEF VerifyChain, Decodable
  <1>4. LastSeq(f) = Len(f)
    BY <1>1, <1>2, <1>3 DEF LastSeq
  <1> QED BY <1>1, <1>2, <1>3, <1>4 DEF Torn, Tip

\* A write to a file whose last line is not torn: its effect on the files.
LEMMA WriteEffect ==
    ASSUME Typed, NEW p \in Proc, fd[p] # 0, NEW kind \in WrittenKind, NEW from \in 0..lines,
           WriteLine(p, kind, from)
    PROVE  LET new == [id |-> lines + 1, seq |-> seq[p] + 1, prev |-> prev[p], from |-> from, kind |-> kind]
           IN  /\ new \in Line /\ Decodable(new)
               /\ ~Torn(file[fd[p]]) => file'[fd[p]] = Append(file[fd[p]], new)
               /\ Torn(file[fd[p]]) =>
                     file'[fd[p]] = [file[fd[p]] EXCEPT ![Len(file[fd[p]])] = [@ EXCEPT !.id = lines + 1, !.kind = "glued"]]
               /\ \A j \in Inode : j # fd[p] => file'[j] = file[j]
               /\ own'[p] = lines + 1 /\ lines' = lines + 1 /\ files' = files /\ dir' = dir /\ fd[p] \in Inode
  <1> DEFINE new == [id |-> lines + 1, seq |-> seq[p] + 1, prev |-> prev[p], from |-> from, kind |-> kind]
  <1>1. /\ lines < MaxLine /\ lines' = lines + 1 /\ own' = [own EXCEPT ![p] = lines + 1] /\ files' = files /\ dir' = dir
        /\ file' = [file EXCEPT ![fd[p]] =
              IF Torn(file[fd[p]]) THEN [file[fd[p]] EXCEPT ![Len(file[fd[p]])] = [@ EXCEPT !.id = lines + 1, !.kind = "glued"]]
              ELSE Append(file[fd[p]], new)]
    BY DEF WriteLine
  <1>2. fd[p] \in Inode /\ own \in [Proc -> 0..lines] /\ file \in [Inode -> Seq(Line)]
    BY FileType, ProcType DEF Typed, TypeOK
  <1>3. new \in Line /\ Decodable(new)
    <2>1. lines + 1 \in 1..MaxLine
      BY <1>1, FileType, SizeAssumption
    <2>2. seq[p] + 1 \in Nat /\ prev[p] \in 0..MaxLine /\ from \in 0..MaxLine /\ kind \in Kind
      BY FileType, ProcType, SizeAssumption DEF Kind, WrittenKind
    <2> QED BY <2>1, <2>2 DEF Line, Decodable, WrittenKind
  <1>4. own'[p] = lines + 1
    BY <1>1, <1>2
  <1> HIDE DEF new
  <1>5. /\ ~Torn(file[fd[p]]) => file'[fd[p]] = Append(file[fd[p]], new)
        /\ Torn(file[fd[p]]) =>
              file'[fd[p]] = [file[fd[p]] EXCEPT ![Len(file[fd[p]])] = [@ EXCEPT !.id = lines + 1, !.kind = "glued"]]
        /\ \A j \in Inode : j # fd[p] => file'[j] = file[j]
    BY <1>1, <1>2
  <1> QED BY <1>1, <1>2, <1>3, <1>4, <1>5 DEF new

\* A short write: its effect on the other files.
LEMMA ShortEffect ==
    ASSUME Typed, NEW p \in Proc, fd[p] # 0, ShortWrite(p)
    PROVE  /\ \A j \in Inode : j # fd[p] => file'[j] = file[j]
           /\ marred' = marred \cup {fd[p]} /\ lines' = lines + 1 /\ files' = files /\ dir' = dir /\ fd[p] \in Inode
           /\ \E s : file'[fd[p]] = IF Torn(file[fd[p]])
                 THEN [file[fd[p]] EXCEPT ![Len(file[fd[p]])] = [@ EXCEPT !.id = lines + 1]]
                 ELSE Append(file[fd[p]], [id |-> lines + 1, seq |-> s, prev |-> prev[p], from |-> 0, kind |-> "torn"])
  <1>1. fd[p] \in Inode /\ file \in [Inode -> Seq(Line)]
    BY FileType, ProcType
  <1>2. PICK s \in {0, seq[p] + 1} :
          file' = [file EXCEPT ![fd[p]] = IF Torn(file[fd[p]])
                 THEN [file[fd[p]] EXCEPT ![Len(file[fd[p]])] = [@ EXCEPT !.id = lines + 1]]
                 ELSE Append(file[fd[p]], [id |-> lines + 1, seq |-> s, prev |-> prev[p], from |-> 0, kind |-> "torn"])]
    BY DEF ShortWrite
  <1>3. \A j \in Inode : j # fd[p] => file'[j] = file[j]
    BY <1>1, <1>2
  <1>4. file'[fd[p]] = IF Torn(file[fd[p]])
                 THEN [file[fd[p]] EXCEPT ![Len(file[fd[p]])] = [@ EXCEPT !.id = lines + 1]]
                 ELSE Append(file[fd[p]], [id |-> lines + 1, seq |-> s, prev |-> prev[p], from |-> 0, kind |-> "torn"])
    BY <1>1, <1>2
  <1> QED BY <1>1, <1>3, <1>4 DEF ShortWrite, Mar

\* openFile gives p a file that holds what seedChainState has read.
LEMMA OpenFileLines ==
    ASSUME Typed, NEW p \in Proc, OpenFile(p), file' = file
    PROVE  dir'[0] \in Inode /\ file'[dir'[0]] = LogLines
  <1>1. CASE dir[0] # 0
    <2>1. dir'[0] = dir[0]
      BY <1>1, OpenFileEffect
    <2> QED BY <1>1, <2>1, FileType, Numbers DEF LogLines
  <1>2. CASE dir[0] = 0
    <2>1. dir'[0] = files + 1 /\ files < MaxFile
      BY <1>2, OpenFileEffect
    <2>2. files + 1 \in Inode
      BY <2>1, Numbers, SizeAssumption DEF Inode
    <2>3. file[files + 1] = <<>>
      BY <2>2, Numbers DEF Typed, FilesInv
    <2> QED BY <1>2, <2>1, <2>2, <2>3 DEF LogLines
  <1> QED BY <1>1, <1>2

\* The files that are not marred stay as they are.
LEMMA ChainSame ==
    ASSUME ChainInv, marred \subseteq marred', \A i \in Inode \ marred' : file'[i] = file[i]
    PROVE  ChainInv'
  BY DEF ChainInv, Inode

\* A line is written to the file whose chain state p has.
LEMMA ChainWrite ==
    ASSUME Typed, ChainInv, NEW p \in Proc, fd[p] # 0, Synced(p, fd[p]),
           NEW kind \in WrittenKind, NEW from \in 0..lines, WriteLine(p, kind, from),
           UNCHANGED <<marred, seq, prev, fd>>
    PROVE  ChainInv' /\ Unsynced(p, fd[p])'
  <1> DEFINE f == file[fd[p]]
             new == [id |-> lines + 1, seq |-> seq[p] + 1, prev |-> prev[p], from |-> from, kind |-> kind]
  <1>1. /\ new \in Line /\ Decodable(new) /\ (~Torn(f) => file'[fd[p]] = Append(f, new))
        /\ \A j \in Inode : j # fd[p] => file'[j] = file[j]
        /\ own'[p] = lines + 1 /\ fd[p] \in Inode
    BY WriteEffect
  <1>2. CASE fd[p] \in marred
    <2>1. ChainInv'
      BY <1>1, <1>2, ChainSame
    <2> QED BY <1>2, <2>1 DEF Unsynced
  <1>3. CASE fd[p] \notin marred
    <2>1. VerifyChain(f) /\ f \in Seq(Line) /\ seq[p] = Len(f) /\ prev[p] = Tip(f)
      BY <1>1, <1>3, FileType DEF ChainInv, Synced
    <2>2. new.seq = Len(f) + 1 /\ new.prev = Tip(f) /\ new.id = lines + 1
      BY <2>1
    <2> HIDE DEF new, f
    <2>3. ~Torn(f)
      BY <2>1, ChainLast
    <2>4. VerifyChain(Append(f, new)) /\ Len(Append(f, new)) = Len(f) + 1 /\ Tip(Append(f, new)) = new.id
      BY <1>1, <2>1, <2>2, ChainAppend
    <2>5. file'[fd[p]] = Append(f, new)
      BY <1>1, <2>3
    <2>6. ChainInv'
      BY <1>1, <2>4, <2>5 DEF ChainInv, Inode
    <2>7. seq'[p] + 1 = Len(file'[fd'[p]]) /\ own'[p] = Tip(file'[fd'[p]])
      BY <1>1, <2>1, <2>2, <2>4, <2>5
    <2> QED BY <2>6, <2>7 DEF Unsynced
  <1> QED BY <1>2, <1>3

\* The chain state agrees with the files initially.
LEMMA InitChain == Init => ChainInv /\ StateInv
  BY SizeAssumption DEF Init, ChainInv, StateInv, StateOK, VerifyChain

\* Every step of a single process keeps the chain state in step with the files.
LEMMA NextChain == ASSUME Single, Typed, DirInv, ChainInv, StateInv, [Next]_vars PROVE ChainInv' /\ StateInv'
  <1>0. /\ pc \in [Proc -> PC] /\ fd \in [Proc -> 0..files] /\ seq \in [Proc -> Nat] /\ prev \in [Proc -> 0..lines]
        /\ own \in [Proc -> 0..lines] /\ dir \in [0..Retain -> 0..files]
    BY DEF Typed, TypeOK
  <1>1. ASSUME NEW p \in Proc, Open(p) PROVE ChainInv' /\ StateInv'
    <2>1. /\ pc[p] = "down" /\ pc'[p] = "idle" /\ UNCHANGED <<file, own, marred>>
      BY <1>0, <1>1, Numbers DEF Open, OpenAndSeed, Goto
    <2>2. /\ fd'[p] = dir'[0] /\ dir'[0] # 0 /\ dir'[1] = dir[1] /\ file'[dir'[0]] = LogLines
          /\ dir[0] # 0 => dir' = dir
      BY <1>1, <2>1, OpenFileEffect, OpenFileLines, Numbers DEF Open, OpenAndSeed, Goto
    <2>3. Synced(p, fd[p])'
      <3>1. seq'[p] = LastSeq(LogLines) /\ prev'[p] = IF LastSeq(LogLines) = 0 THEN 0 ELSE LogLines[Len(LogLines)].id
        BY <1>0, <1>1 DEF Open, OpenAndSeed, Goto, Seed
      <3>2. dir'[0] \notin marred => LogLines \in Seq(Line) /\ VerifyChain(LogLines)
        BY <1>1, <2>1, <2>2, OpenFileLines, FileType DEF ChainInv, Open, OpenAndSeed, Goto
      <3>3. dir'[0] \notin marred => seq'[p] = Len(LogLines) /\ prev'[p] = Tip(LogLines)
        BY <3>1, <3>2, ChainLast
      <3> QED BY <2>1, <2>2, <3>3 DEF Synced
    <2>4. ChainInv'
      BY <2>1, <2>2, <2>3, ChainSame
    <2>5. StateOK(p)'
      BY <2>1, <2>2, <2>3, Numbers DEF DirInv, DirOK, StateInv, StateOK, Synced, Unsynced
    <2> QED BY <2>4, <2>5 DEF Single, StateInv
  <1>2. ASSUME NEW p \in Proc, Reopen(p) PROVE ChainInv' /\ StateInv'
    <2>1. /\ pc[p] = "idle" /\ fd[p] = 0 /\ UNCHANGED <<file, pc, own, marred>>
      BY <1>0, <1>2, Numbers DEF Reopen, OpenAndSeed
    <2>2. /\ fd'[p] = dir'[0] /\ dir'[0] # 0 /\ dir'[1] = dir[1] /\ file'[dir'[0]] = LogLines
          /\ dir[0] # 0 => dir' = dir
      BY <1>2, <2>1, OpenFileEffect, OpenFileLines, Numbers DEF Reopen, OpenAndSeed
    <2>3. Synced(p, fd[p])'
      <3>1. seq'[p] = LastSeq(LogLines) /\ prev'[p] = IF LastSeq(LogLines) = 0 THEN 0 ELSE LogLines[Len(LogLines)].id
        BY <1>0, <1>2 DEF Reopen, OpenAndSeed, Seed
      <3>2. dir'[0] \notin marred => LogLines \in Seq(Line) /\ VerifyChain(LogLines)
        BY <1>2, <2>1, <2>2, OpenFileLines, FileType DEF ChainInv, Reopen, OpenAndSeed
      <3>3. dir'[0] \notin marred => seq'[p] = Len(LogLines) /\ prev'[p] = Tip(LogLines)
        BY <3>1, <3>2, ChainLast
      <3> QED BY <2>1, <2>2, <3>3 DEF Synced
    <2>4. ChainInv'
      BY <2>1, <2>2, <2>3, ChainSame
    <2>5. StateOK(p)'
      BY <2>1, <2>2, <2>3, Numbers DEF DirInv, DirOK, StateInv, StateOK, Synced, Unsynced
    <2> QED BY <2>4, <2>5 DEF Single, StateInv
  <1>3. ASSUME NEW p \in Proc, Stop(p) PROVE ChainInv' /\ StateInv'
    <2>1. /\ pc'[p] = "down" /\ fd'[p] = 0 /\ seq'[p] = 0 /\ prev'[p] = 0 /\ own'[p] = 0
          /\ UNCHANGED <<file, dir, marred>>
      BY <1>0, <1>3, Numbers DEF Stop, Goto, fileVars
    <2>2. ChainInv'
      BY <2>1, ChainSame
    <2>3. StateOK(p)'
      BY <2>1, Numbers DEF DirInv, DirOK, StateInv, StateOK, Synced, Unsynced
    <2> QED BY <2>2, <2>3 DEF Single, StateInv
  <1>4. ASSUME NEW p \in Proc, RetryDue(p) PROVE ChainInv' /\ StateInv'
    <2>1. /\ UNCHANGED <<file, dir, pc, fd, seq, prev, own, marred>>
      BY <1>0, <1>4, Numbers DEF RetryDue, fileVars
    <2>2. ChainInv'
      BY <2>1, ChainSame
    <2>3. StateOK(p)'
      BY <2>1, Numbers DEF DirInv, DirOK, StateInv, StateOK, Synced, Unsynced
    <2> QED BY <2>2, <2>3 DEF Single, StateInv
  <1>5. ASSUME NEW p \in Proc, Log(p) PROVE ChainInv' /\ StateInv'
    <2>1. /\ pc[p] = "idle" /\ fd[p] # 0 /\ pc'[p] = "sync" /\ UNCHANGED <<fd, seq, prev, marred>>
      BY <1>0, <1>5, Numbers DEF Log, Goto
    <2>2. /\ WriteLine(p, "event", 0) /\ fd[p] # 0 /\ "event" \in WrittenKind /\ 0 \in 0..lines
          /\ UNCHANGED <<marred, seq, prev, fd>> /\ Synced(p, fd[p])
      BY <1>5, <2>1, ProcType, Numbers DEF Log, Goto, WrittenKind, StateInv, StateOK
    <2>3. ChainInv' /\ Unsynced(p, fd[p])'
      BY <2>2, ChainWrite
    <2>4. StateOK(p)'
      BY <2>1, <2>3, Numbers DEF DirInv, DirOK, StateInv, StateOK, Synced, Unsynced
    <2> QED BY <2>3, <2>4 DEF Single, StateInv
  <1>6. ASSUME NEW p \in Proc, LogShortWrite(p) PROVE ChainInv' /\ StateInv'
    <2>1. /\ pc[p] = "idle" /\ fd[p] # 0 /\ UNCHANGED <<pc, fd, seq, prev, own>>
      BY <1>0, <1>6, Numbers DEF LogShortWrite, procVars
    <2>2. marred' = marred \cup {fd[p]} /\ \A j \in Inode : j # fd[p] => file'[j] = file[j]
      BY <1>6, <2>1, ShortEffect, ProcType DEF LogShortWrite, procVars
    <2>3. ChainInv'
      BY <2>1, <2>2, ChainSame
    <2>4. StateOK(p)'
      BY <2>1, <2>2, Numbers DEF DirInv, DirOK, StateInv, StateOK, Synced, Unsynced
    <2> QED BY <2>3, <2>4 DEF Single, StateInv
  <1>7. ASSUME NEW p \in Proc, LogSynced(p) PROVE ChainInv' /\ StateInv'
    <2>1. /\ pc[p] = "sync" /\ pc'[p] \in {"mark", "idle"} /\ seq'[p] = seq[p] + 1 /\ prev'[p] = own[p]
          /\ UNCHANGED <<file, dir, fd, own, marred>>
      BY <1>0, <1>7, Numbers DEF LogSynced, Advance, Goto, Return, fileVars
    <2>2. ChainInv'
      BY <2>1, ChainSame
    <2>3. StateOK(p)'
      BY <2>1, Numbers DEF DirInv, DirOK, StateInv, StateOK, Synced, Unsynced
    <2> QED BY <2>2, <2>3 DEF Single, StateInv
  <1>8. ASSUME NEW p \in Proc, LogSyncFails(p) PROVE ChainInv' /\ StateInv'
    <2>1. /\ pc[p] = "sync" /\ pc'[p] = "idle" /\ marred' = marred \cup {fd[p]}
          /\ UNCHANGED <<file, dir, fd, seq, prev, own>>
      BY <1>0, <1>8, Numbers DEF LogSyncFails, Mar, Goto, Return, fileVars
    <2>2. ChainInv'
      BY <2>1, ChainSame
    <2>3. StateOK(p)'
      BY <2>1, Numbers DEF DirInv, DirOK, StateInv, StateOK, Synced, Unsynced
    <2> QED BY <2>2, <2>3 DEF Single, StateInv
  <1>9. ASSUME NEW p \in Proc, Rotate(p) PROVE ChainInv' /\ StateInv'
    <2>1. /\ pc[p] = "idle" /\ fd[p] # 0 /\ pc'[p] = "mark"
          /\ UNCHANGED <<file, dir, fd, seq, prev, own, marred>>
      BY <1>0, <1>9, Numbers DEF Rotate, HasFile, Goto, fileVars
    <2>2. ChainInv'
      BY <2>1, ChainSame
    <2>3. StateOK(p)'
      BY <2>1, Numbers DEF DirInv, DirOK, StateInv, StateOK, Synced, Unsynced
    <2> QED BY <2>2, <2>3 DEF Single, StateInv
  <1>10. ASSUME NEW p \in Proc, Mark(p) PROVE ChainInv' /\ StateInv'
    <2>1. /\ pc[p] = "mark" /\ pc'[p] = "marksync" /\ UNCHANGED <<fd, seq, prev, marred>>
      BY <1>0, <1>10, Numbers DEF Mark, Goto
    <2>2. /\ WriteLine(p, "rotated", 0) /\ fd[p] # 0 /\ "rotated" \in WrittenKind /\ 0 \in 0..lines
          /\ UNCHANGED <<marred, seq, prev, fd>> /\ Synced(p, fd[p])
      BY <1>10, <2>1, ProcType, Numbers DEF Mark, Goto, WrittenKind, StateInv, StateOK
    <2>3. ChainInv' /\ Unsynced(p, fd[p])'
      BY <2>2, ChainWrite
    <2>4. StateOK(p)'
      BY <2>1, <2>3, Numbers DEF DirInv, DirOK, StateInv, StateOK, Synced, Unsynced
    <2> QED BY <2>3, <2>4 DEF Single, StateInv
  <1>11. ASSUME NEW p \in Proc, MarkSynced(p) PROVE ChainInv' /\ StateInv'
    <2>1. /\ pc[p] = "marksync" /\ pc'[p] = "shift" /\ fd'[p] = 0 /\ seq'[p] = seq[p] + 1
          /\ prev'[p] = own[p] /\ UNCHANGED <<file, dir, own, marred>>
      BY <1>0, <1>11, Numbers DEF MarkSynced, Advance, LinkTo, ShiftFrom, Goto, fileVars
    <2>2. ChainInv'
      BY <2>1, ChainSame
    <2>3. StateOK(p)'
      BY <2>1, Numbers, ProcType DEF DirInv, DirOK, StateInv, StateOK, Synced, Unsynced
    <2> QED BY <2>2, <2>3 DEF Single, StateInv
  <1>12. ASSUME NEW p \in Proc, RemoveOldest(p) PROVE ChainInv' /\ StateInv'
    <2>1. /\ pc[p] = "shift" /\ at[p] = Retain /\ dir'[0] = dir[0] /\ dir'[1] \in {dir[1], 0}
          /\ UNCHANGED <<file, pc, fd, seq, prev, own, marred>>
      BY <1>0, <1>12, Numbers DEF RemoveOldest
    <2>2. ChainInv'
      BY <2>1, ChainSame
    <2>3. StateOK(p)'
      BY <2>1, Numbers DEF DirInv, DirOK, StateInv, StateOK, Synced, Unsynced
    <2> QED BY <2>2, <2>3 DEF Single, StateInv
  <1>13. ASSUME NEW p \in Proc, Shift(p) PROVE ChainInv' /\ StateInv'
    <2>1. /\ pc[p] = "shift" /\ at[p] # 0 /\ at[p] < Retain /\ dir'[0] = dir[0]
          /\ UNCHANGED <<file, pc, fd, seq, prev, own, marred>>
      BY <1>0, <1>13, Numbers, ShiftEffect, SMTT(30) DEF Shift
    <2>2. ChainInv'
      BY <2>1, ChainSame
    <2>3. StateOK(p)'
      BY <2>1, Numbers DEF DirInv, DirOK, StateInv, StateOK, Synced, Unsynced
    <2> QED BY <2>2, <2>3 DEF Single, StateInv
  <1>14. ASSUME NEW p \in Proc, RenameLog(p) PROVE ChainInv' /\ StateInv'
    <2>1. /\ pc[p] = "shift" /\ at[p] = 0 /\ dir[0] # 0
          /\ \A g \in 0..Retain : dir'[g] = IF g = 1 THEN dir[0] ELSE IF g = 0 THEN 0 ELSE dir[g]
          /\ pc'[p] = "open" /\ UNCHANGED <<file, fd, seq, prev, own, marred>>
      BY <1>0, <1>14, Numbers DEF RenameLog, Newest, Goto
    <2>2. ChainInv'
      BY <2>1, ChainSame
    <2>3. StateOK(p)'
      BY <2>1, Numbers DEF DirInv, DirOK, StateInv, StateOK, Synced, Unsynced
    <2> QED BY <2>2, <2>3 DEF Single, StateInv
  <1>15. ASSUME NEW p \in Proc, RenameFails(p) PROVE ChainInv' /\ StateInv'
    <2>1. /\ pc[p] = "shift" /\ pc'[p] = "keep" /\ UNCHANGED <<file, dir, fd, seq, prev, own, marred>>
      BY <1>0, <1>15, Numbers DEF RenameFails, Goto, fileVars
    <2>2. ChainInv'
      BY <2>1, ChainSame
    <2>3. StateOK(p)'
      BY <2>1, Numbers DEF DirInv, DirOK, StateInv, StateOK, Synced, Unsynced
    <2> QED BY <2>2, <2>3 DEF Single, StateInv
  <1>16. ASSUME NEW p \in Proc, OpenNew(p) PROVE ChainInv' /\ StateInv'
    <2>1. /\ pc[p] = "open" /\ pc'[p] = "cont" /\ seq'[p] = 0 /\ prev'[p] = 0
          /\ UNCHANGED <<file, own, marred>>
      BY <1>0, <1>16, Numbers DEF OpenNew, StartChain, Goto
    <2>2. /\ fd'[p] = dir'[0] /\ dir'[0] # 0 /\ dir'[1] = dir[1] /\ file'[dir'[0]] = LogLines
          /\ dir[0] # 0 => dir' = dir
      BY <1>16, <2>1, OpenFileEffect, OpenFileLines, Numbers DEF OpenNew, StartChain, Goto
    <2>3. ChainInv'
      BY <2>1, <2>2, ChainSame
    <2>4. StateOK(p)'
      BY <2>1, <2>2, Numbers DEF DirInv, DirOK, StateInv, StateOK, Synced, Unsynced, LogLines, Tip
    <2> QED BY <2>3, <2>4 DEF Single, StateInv
  <1>17. ASSUME NEW p \in Proc, OpenNewFails(p) PROVE ChainInv' /\ StateInv'
    <2>1. /\ pc[p] = "open" /\ dir[1] # 0
          /\ \A g \in 0..Retain : dir'[g] = IF g = 0 THEN dir[1] ELSE IF g = 1 THEN 0 ELSE dir[g]
          /\ pc'[p] = "keep" /\ UNCHANGED <<file, fd, seq, prev, own, marred>>
      BY <1>0, <1>17, Numbers DEF OpenNewFails, Restore, Newest, Goto
    <2>2. ChainInv'
      BY <2>1, ChainSame
    <2>3. StateOK(p)'
      BY <2>1, Numbers DEF DirInv, DirOK, StateInv, StateOK, Synced, Unsynced
    <2> QED BY <2>2, <2>3 DEF Single, StateInv
  <1>18. ASSUME NEW p \in Proc, RestoreFails(p) PROVE ChainInv' /\ StateInv'
    <2>1. /\ pc[p] = "open" /\ pc'[p] = "idle" /\ UNCHANGED <<file, dir, fd, seq, prev, own, marred>>
      BY <1>0, <1>18, Numbers DEF RestoreFails, RotateFailed, Return, Goto, fileVars
    <2>2. ChainInv'
      BY <2>1, ChainSame
    <2>3. StateOK(p)'
      BY <2>1, Numbers DEF DirInv, DirOK, StateInv, StateOK, Synced, Unsynced
    <2> QED BY <2>2, <2>3 DEF Single, StateInv
  <1>19. ASSUME NEW p \in Proc, KeepCurrent(p) PROVE ChainInv' /\ StateInv'
    <2>1. /\ pc[p] = "keep" /\ pc'[p] = "idle" /\ UNCHANGED <<file, seq, prev, own, marred>>
      BY <1>0, <1>19, Numbers DEF KeepCurrent, RotateFailed, Return, Goto
    <2>2. /\ fd'[p] = dir'[0] /\ dir'[0] # 0 /\ dir'[1] = dir[1] /\ file'[dir'[0]] = LogLines
          /\ dir[0] # 0 => dir' = dir
      BY <1>19, <2>1, OpenFileEffect, OpenFileLines, Numbers DEF KeepCurrent, RotateFailed, Return, Goto
    <2>3. ChainInv'
      BY <2>1, <2>2, ChainSame
    <2>4. StateOK(p)'
      BY <2>1, <2>2, Numbers DEF DirInv, DirOK, StateInv, StateOK, Synced, Unsynced
    <2> QED BY <2>3, <2>4 DEF Single, StateInv
  <1>20. ASSUME NEW p \in Proc, KeepCurrentFails(p) PROVE ChainInv' /\ StateInv'
    <2>1. /\ pc[p] = "keep" /\ pc'[p] = "idle" /\ UNCHANGED <<file, dir, fd, seq, prev, own, marred>>
      BY <1>0, <1>20, Numbers DEF KeepCurrentFails, RotateFailed, Return, Goto, fileVars
    <2>2. ChainInv'
      BY <2>1, ChainSame
    <2>3. StateOK(p)'
      BY <2>1, Numbers DEF DirInv, DirOK, StateInv, StateOK, Synced, Unsynced
    <2> QED BY <2>2, <2>3 DEF Single, StateInv
  <1>21. ASSUME NEW p \in Proc, Continue(p) PROVE ChainInv' /\ StateInv'
    <2>1. /\ pc[p] = "cont" /\ pc'[p] = "contsync" /\ UNCHANGED <<fd, seq, prev, marred>>
      BY <1>0, <1>21, Numbers DEF Continue, Goto
    <2>2. /\ WriteLine(p, "continued", link[p]) /\ fd[p] # 0 /\ "continued" \in WrittenKind /\ link[p] \in 0..lines
          /\ UNCHANGED <<marred, seq, prev, fd>> /\ Synced(p, fd[p])
      BY <1>21, <2>1, ProcType, Numbers DEF Continue, Goto, WrittenKind, StateInv, StateOK
    <2>3. ChainInv' /\ Unsynced(p, fd[p])'
      BY <2>2, ChainWrite
    <2>4. StateOK(p)'
      BY <2>1, <2>3, Numbers DEF DirInv, DirOK, StateInv, StateOK, Synced, Unsynced
    <2> QED BY <2>3, <2>4 DEF Single, StateInv
  <1>22. ASSUME NEW p \in Proc, ContinueSynced(p) PROVE ChainInv' /\ StateInv'
    <2>1. /\ pc[p] = "contsync" /\ pc'[p] = "idle" /\ seq'[p] = seq[p] + 1 /\ prev'[p] = own[p]
          /\ UNCHANGED <<file, dir, fd, own, marred>>
      BY <1>0, <1>22, Numbers DEF ContinueSynced, Advance, Return, Goto, fileVars
    <2>2. ChainInv'
      BY <2>1, ChainSame
    <2>3. StateOK(p)'
      BY <2>1, Numbers DEF DirInv, DirOK, StateInv, StateOK, Synced, Unsynced
    <2> QED BY <2>2, <2>3 DEF Single, StateInv
  <1>23. ASSUME NEW p \in Proc, SentinelShortWrite(p) PROVE ChainInv' /\ StateInv'
    <2>1. /\ pc[p] \in {"mark", "cont"} /\ pc'[p] = "idle" /\ UNCHANGED <<fd, seq, prev, own>>
      BY <1>0, <1>23, Numbers DEF SentinelShortWrite, RotateFailed, Return, Goto
    <2>2. marred' = marred \cup {fd[p]} /\ \A j \in Inode : j # fd[p] => file'[j] = file[j]
      BY <1>23, <2>1, ShortEffect, ProcType DEF SentinelShortWrite, RotateFailed, Return, Goto
    <2>3. ChainInv'
      BY <2>1, <2>2, ChainSame
    <2>4. StateOK(p)'
      BY <2>1, <2>2, Numbers DEF DirInv, DirOK, StateInv, StateOK, Synced, Unsynced
    <2> QED BY <2>3, <2>4 DEF Single, StateInv
  <1>24. ASSUME NEW p \in Proc, SentinelSyncFails(p) PROVE ChainInv' /\ StateInv'
    <2>1. /\ pc[p] \in {"marksync", "contsync"} /\ pc'[p] = "idle" /\ marred' = marred \cup {fd[p]}
          /\ UNCHANGED <<file, dir, fd, seq, prev, own>>
      BY <1>0, <1>24, Numbers DEF SentinelSyncFails, Mar, RotateFailed, Return, Goto, fileVars
    <2>2. ChainInv'
      BY <2>1, ChainSame
    <2>3. StateOK(p)'
      BY <2>1, Numbers DEF DirInv, DirOK, StateInv, StateOK, Synced, Unsynced
    <2> QED BY <2>2, <2>3 DEF Single, StateInv
  <1>25. ASSUME NEW p \in Proc, PruneCopy(p) PROVE ChainInv' /\ StateInv'
    <2>1. /\ pc[p] = "idle" /\ fd[p] # 0 /\ pc'[p] = "swap" /\ marred' = marred \cup {files + 1}
          /\ UNCHANGED <<dir, fd, seq, prev, own>>
      BY <1>0, <1>25, Numbers DEF PruneCopy, Mar, Goto
    <2>2. \A j \in Inode : j # files + 1 => file'[j] = file[j]
      BY <1>25, FileType DEF PruneCopy, Mar, Goto
    <2>3. ChainInv'
      BY <2>1, <2>2, ChainSame
    <2>4. StateOK(p)'
      BY <2>1, <2>2, Numbers, ProcType, FileType DEF DirInv, DirOK, StateInv, StateOK, Synced, Unsynced
    <2> QED BY <2>3, <2>4 DEF Single, StateInv
  <1>26. ASSUME NEW p \in Proc, PruneRename(p) PROVE ChainInv' /\ StateInv'
    <2>1. /\ pc[p] = "swap"
          /\ \A g \in 0..Retain : dir'[g] = IF g = 0 THEN tmp[p] ELSE dir[g]
          /\ pc'[p] = "reopen" /\ fd'[p] = 0 /\ UNCHANGED <<file, seq, prev, own, marred>>
      BY <1>0, <1>26, Numbers DEF PruneRename, Goto
    <2>2. ChainInv'
      BY <2>1, ChainSame
    <2>3. StateOK(p)'
      BY <2>1, Numbers DEF DirInv, DirOK, StateInv, StateOK, Synced, Unsynced
    <2> QED BY <2>2, <2>3 DEF Single, StateInv
  <1>27. ASSUME NEW p \in Proc, PruneReopen(p) PROVE ChainInv' /\ StateInv'
    <2>1. /\ pc[p] = "reopen" /\ pc'[p] = "idle" /\ UNCHANGED <<file, own, marred>>
      BY <1>0, <1>27, Numbers DEF PruneReopen, Goto
    <2>2. /\ fd'[p] = dir'[0] /\ dir'[0] # 0 /\ dir'[1] = dir[1] /\ file'[dir'[0]] = LogLines
          /\ dir[0] # 0 => dir' = dir
      BY <1>27, <2>1, OpenFileEffect, OpenFileLines, Numbers DEF PruneReopen, Goto
    <2>3. Synced(p, fd[p])'
      BY <2>1, <2>2 DEF DirInv, DirOK, Synced
    <2>4. ChainInv'
      BY <2>1, <2>2, <2>3, ChainSame
    <2>5. StateOK(p)'
      BY <2>1, <2>2, <2>3, Numbers DEF DirInv, DirOK, StateInv, StateOK, Synced, Unsynced
    <2> QED BY <2>4, <2>5 DEF Single, StateInv
  <1>28. ASSUME NEW p \in Proc, PruneRenameFails(p) PROVE ChainInv' /\ StateInv'
    <2>1. /\ pc[p] = "swap" /\ pc'[p] = "idle" /\ UNCHANGED <<file, seq, prev, own, marred>>
      BY <1>0, <1>28, Numbers DEF PruneRenameFails, Goto
    <2>2. /\ fd'[p] = dir'[0] /\ dir'[0] # 0 /\ dir'[1] = dir[1] /\ file'[dir'[0]] = LogLines
          /\ dir[0] # 0 => dir' = dir
      BY <1>28, <2>1, OpenFileEffect, OpenFileLines, Numbers DEF PruneRenameFails, Goto
    <2>3. ChainInv'
      BY <2>1, <2>2, ChainSame
    <2>4. StateOK(p)'
      BY <2>1, <2>2, Numbers, ProcType DEF DirInv, DirOK, StateInv, StateOK, Synced, Unsynced
    <2> QED BY <2>3, <2>4 DEF Single, StateInv
  <1>29. ASSUME NEW p \in Proc, PruneReopenFails(p) PROVE ChainInv' /\ StateInv'
    <2>1. /\ pc[p] = "reopen" /\ pc'[p] = "broken" /\ UNCHANGED <<file, dir, fd, seq, prev, own, marred>>
      BY <1>0, <1>29, Numbers DEF PruneReopenFails, Goto, fileVars
    <2>2. ChainInv'
      BY <2>1, ChainSame
    <2>3. StateOK(p)'
      BY <2>1, Numbers DEF DirInv, DirOK, StateInv, StateOK, Synced, Unsynced
    <2> QED BY <2>2, <2>3 DEF Single, StateInv
  <1>30. ASSUME NEW g \in 1..Retain, Sweep(g) PROVE ChainInv' /\ StateInv'
    <2>1. /\ \A h \in 0..Retain : dir'[h] = IF h >= g THEN 0 ELSE dir[h]
          /\ UNCHANGED <<file, pc, fd, marred, seq, prev, own>>
      BY <1>0, <1>30 DEF Sweep, procVars
    <2>2. dir'[0] = dir[0] /\ dir'[1] \in {dir[1], 0}
      BY <2>1, Numbers
    <2>3. ChainInv'
      BY <2>1, ChainSame
    <2>4. ASSUME NEW p \in Proc PROVE StateOK(p)'
      BY <2>1, <2>2 DEF StateInv, StateOK, Synced, Unsynced
    <2> QED BY <2>3, <2>4 DEF StateInv
  <1>31. CASE UNCHANGED vars
    BY <1>31, ChainSame DEF StateInv, StateOK, Synced, Unsynced, vars, fileVars, procVars
  <1> QED
    BY <1>1, <1>2, <1>3, <1>4, <1>5, <1>6, <1>7, <1>8, <1>9, <1>10, <1>11, <1>12, <1>13, <1>14, <1>15, <1>16, <1>17, <1>18, <1>19, <1>20, <1>21, <1>22, <1>23, <1>24, <1>25, <1>26, <1>27, <1>28, <1>29, <1>30, <1>31 DEF Next

-----------------------------------------------------------------------------
\* Events on disk

\* The events for which Log has returned nil or may still do so.
Due == acked \cup ({pend[p] : p \in Proc} \ {0})

Holds(i, e) == \E n \in DOMAIN file[i] : file[i][n].id = e /\ (Decodable(file[i][n]) \/ i \in marred)
OnDisk(e) == \E g \in 0..Retain : dir[g] # 0 /\ Holds(dir[g], e)

\* They are on disk until retention removes them, and none is a torn line, which
\* the next write would swallow.
DiskInv == \A e \in Due \ aged : OnDisk(e)
TornInv == \A i \in Inode : \A n \in DOMAIN file[i] : file[i][n].kind = "torn" => file[i][n].id \notin Due

\* What is due covers what AckedOnDisk asks for.
LEMMA DiskInvAcked == DiskInv => AckedOnDisk
  <1> SUFFICES ASSUME DiskInv, NEW e \in acked \ aged
               PROVE  \E i \in Present : \E n \in DOMAIN file[i] :
                          file[i][n].id = e /\ (Decodable(file[i][n]) \/ i \in marred)
    BY DEF AckedOnDisk
  <1>1. PICK g \in 0..Retain : dir[g] # 0 /\ Holds(dir[g], e)
    BY DEF DiskInv, OnDisk, Due
  <1>2. dir[g] \in Present
    BY <1>1 DEF Present
  <1> QED BY <1>1, <1>2 DEF Holds

\* What is due was written.
LEMMA DueType == Typed => Due \subseteq 1..lines
  <1> SUFFICES ASSUME Typed, NEW e \in Due PROVE e \in 1..lines
    OBVIOUS
  <1>1. CASE e \in acked
    BY <1>1 DEF Typed, TypeOK
  <1>2. CASE \E p \in Proc : e = pend[p] /\ e # 0
    BY <1>2, ProcType, Numbers
  <1> QED BY <1>1, <1>2 DEF Due

\* A call that returns, or goes on, adds nothing to what is due.
LEMMA DueStep ==
    ASSUME Single, NEW p \in Proc, acked' \subseteq acked \cup ({pend[p]} \ {0}), pend'[p] \in {pend[p], 0}
    PROVE  Due' \subseteq Due
  <1> SUFFICES ASSUME NEW e \in Due' PROVE e \in Due
    OBVIOUS
  <1>1. CASE e \in acked'
    BY <1>1 DEF Due
  <1>2. CASE \E q \in Proc : e = pend'[q] /\ e # 0
    BY <1>2 DEF Single, Due
  <1> QED BY <1>1, <1>2 DEF Due

\* The files stay as they are and keep a name, or lose it to retention.
LEMMA DiskSame ==
    ASSUME Typed, DiskInv, TornInv, file' = file, Due' \subseteq Due, marred \subseteq marred', aged \subseteq aged',
           \A g \in 0..Retain : dir[g] # 0 => (\E h \in 0..Retain : dir'[h] = dir[g]) \/ Ids(dir[g]) \subseteq aged'
    PROVE  DiskInv' /\ TornInv'
  <1>1. TornInv'
    BY DEF TornInv, Inode
  <1>2. ASSUME NEW e \in Due' \ aged' PROVE OnDisk(e)'
    <2>1. PICK g \in 0..Retain : dir[g] # 0 /\ Holds(dir[g], e)
      BY <1>2 DEF DiskInv, OnDisk
    <2>2. e \in Ids(dir[g])
      BY <2>1 DEF Holds, Ids
    <2>3. PICK h \in 0..Retain : dir'[h] = dir[g]
      BY <1>2, <2>1, <2>2
    <2> QED BY <2>1, <2>3 DEF OnDisk, Holds
  <1> QED BY <1>1, <1>2 DEF DiskInv

\* An event that is due stays in its file when a line is written after it ...
LEMMA WriteHolds ==
    ASSUME Typed, ChainInv, TornInv, NEW p \in Proc, fd[p] # 0, NEW kind \in WrittenKind, NEW from \in 0..lines,
           WriteLine(p, kind, from), marred' = marred
    PROVE  /\ \A e \in Due : \A i \in Inode : Holds(i, e) => Holds(i, e)'
           /\ \E n \in DOMAIN file'[fd[p]] : file'[fd[p]][n].id = lines + 1 /\ (Decodable(file'[fd[p]][n]) \/ fd[p] \in marred)
           /\ \A i \in Inode : \A n \in DOMAIN file'[i] : file'[i][n].kind = "torn" => file'[i][n].id \notin Due \cup {lines + 1}
  <1> DEFINE f == file[fd[p]]
             new == [id |-> lines + 1, seq |-> seq[p] + 1, prev |-> prev[p], from |-> from, kind |-> kind]
             l == [f[Len(f)] EXCEPT !.id = lines + 1, !.kind = "glued"]
             h == file'[fd[p]]
  <1>1. /\ new \in Line /\ Decodable(new) /\ (~Torn(f) => h = Append(f, new))
        /\ Torn(f) => h = [f EXCEPT ![Len(f)] = l]
        /\ \A j \in Inode : j # fd[p] => file'[j] = file[j]
        /\ fd[p] \in Inode
    BY WriteEffect
  <1>2. f \in Seq(Line) /\ lines \in Nat /\ \A i \in Inode : \A n \in DOMAIN file[i] : file[i][n].id \in Nat /\ file[i][n].id <= lines
    BY <1>1, FileType, LinesType
  <1>3. Torn(f) => fd[p] \in marred
    BY <1>1, <1>2, ChainLast DEF ChainInv
  <1>4. new.id = lines + 1 /\ new.kind # "torn"
    BY <1>1 DEF Decodable
  <1> HIDE DEF new
  <1>5. CASE ~Torn(f)
    <2>1. DOMAIN h = 1..Len(f) + 1 /\ h[Len(f) + 1] = new /\ \A n \in 1..Len(f) : h[n] = f[n]
      BY <1>1, <1>2, <1>5
    <2>2. DOMAIN f = 1..Len(f) /\ Len(f) \in Nat
      BY <1>2
    <2> HIDE DEF h, f
    <2>3. \A n \in DOMAIN f : n \in DOMAIN h /\ h[n] = f[n]
      BY <2>1, <2>2
    <2>4. Len(f) + 1 \in DOMAIN h
      BY <2>1, <2>2
    <2>5. \A n \in DOMAIN h : n \in DOMAIN f \/ n = Len(f) + 1
      BY <2>1, <2>2
    <2>6. ASSUME NEW e \in Due, NEW i \in Inode, Holds(i, e) PROVE Holds(i, e)'
      BY <1>1, <2>3, <2>6 DEF Holds, h, f
    <2>7. \E n \in DOMAIN file'[fd[p]] : file'[fd[p]][n].id = lines + 1 /\ (Decodable(file'[fd[p]][n]) \/ fd[p] \in marred)
      <3>1. h[Len(f) + 1].id = lines + 1 /\ Decodable(h[Len(f) + 1])
        BY <1>1, <1>4, <2>1
      <3> QED BY <2>4, <3>1 DEF h
    <2>8. ASSUME NEW i \in Inode, NEW n \in DOMAIN file'[i], file'[i][n].kind = "torn" PROVE file'[i][n].id \notin Due \cup {lines + 1}
      <3>1. CASE i # fd[p]
        BY <1>1, <1>2, <2>8, <3>1 DEF TornInv
      <3>2. CASE i = fd[p]
        <4>1. n \in DOMAIN f /\ h[n] = f[n]
          BY <1>4, <2>1, <2>3, <2>5, <2>8, <3>2 DEF h
        <4> QED BY <1>1, <1>2, <2>8, <3>2, <4>1 DEF TornInv, h, f
      <3> QED BY <3>1, <3>2
    <2> QED BY <2>6, <2>7, <2>8
  <1>6. CASE Torn(f)
    <2>1. f # <<>> /\ f[Len(f)].kind = "torn" /\ f[Len(f)] \in Line /\ Len(f) \in DOMAIN f
      BY <1>2, <1>6 DEF Torn
    <2>2. l.id = lines + 1 /\ l.kind = "glued"
      BY <2>1 DEF Line
    <2> HIDE DEF l
    <2>3. DOMAIN h = DOMAIN f /\ h[Len(f)] = l /\ \A n \in DOMAIN f : n # Len(f) => h[n] = f[n]
      BY <1>1, <1>2, <1>6, <2>1
    <2> HIDE DEF h, f
    <2>4. f[Len(f)].id \notin Due
      BY <1>1, <2>1 DEF TornInv, f
    <2>5. ASSUME NEW e \in Due, NEW i \in Inode, Holds(i, e) PROVE Holds(i, e)'
      <3>1. CASE i # fd[p]
        BY <1>1, <2>5, <3>1 DEF Holds
      <3>2. CASE i = fd[p]
        <4>1. PICK n \in DOMAIN f : f[n].id = e /\ (Decodable(f[n]) \/ i \in marred)
          BY <2>5, <3>2 DEF Holds, f
        <4>2. n # Len(f)
          BY <2>4, <2>5, <4>1
        <4>3. n \in DOMAIN h /\ h[n] = f[n]
          BY <2>3, <4>2
        <4> QED BY <3>2, <4>1, <4>3 DEF Holds, h
      <3> QED BY <3>1, <3>2
    <2>6. \E n \in DOMAIN file'[fd[p]] : file'[fd[p]][n].id = lines + 1 /\ (Decodable(file'[fd[p]][n]) \/ fd[p] \in marred)
      BY <1>3, <1>6, <2>1, <2>2, <2>3 DEF h
    <2>7. ASSUME NEW i \in Inode, NEW n \in DOMAIN file'[i], file'[i][n].kind = "torn" PROVE file'[i][n].id \notin Due \cup {lines + 1}
      <3>1. CASE i # fd[p]
        BY <1>1, <1>2, <2>7, <3>1 DEF TornInv
      <3>2. CASE i = fd[p]
        <4>1. n \in DOMAIN f /\ h[n] = f[n]
          BY <2>2, <2>3, <2>7, <3>2 DEF h
        <4> QED BY <1>1, <1>2, <2>7, <3>2, <4>1 DEF TornInv, h, f
      <3> QED BY <3>1, <3>2
    <2> QED BY <2>5, <2>6, <2>7
  <1> QED BY <1>5, <1>6

\* ... and when a write fails.
LEMMA ShortHolds ==
    ASSUME Typed, TornInv, NEW p \in Proc, fd[p] # 0, ShortWrite(p)
    PROVE  /\ \A e \in Due : \A i \in Inode : Holds(i, e) => Holds(i, e)'
           /\ \A i \in Inode : \A n \in DOMAIN file'[i] : file'[i][n].kind = "torn" => file'[i][n].id \notin Due
  <1> DEFINE f == file[fd[p]]
             new(s) == [id |-> lines + 1, seq |-> s, prev |-> prev[p], from |-> 0, kind |-> "torn"]
             l == [f[Len(f)] EXCEPT !.id = lines + 1]
             h == file'[fd[p]]
  <1>1. /\ \A j \in Inode : j # fd[p] => file'[j] = file[j]
        /\ marred' = marred \cup {fd[p]} /\ fd[p] \in Inode
        /\ \E s : h = IF Torn(f) THEN [f EXCEPT ![Len(f)] = l] ELSE Append(f, new(s))
    BY ShortEffect
  <1>2. f \in Seq(Line) /\ lines \in Nat /\ lines + 1 \notin Due
    BY <1>1, FileType, DueType
  <1>3. \A n \in DOMAIN f : f[n].id \in Due => n \in DOMAIN h /\ h[n] = f[n]
    <2>1. CASE Torn(f)
      <3>1. f[Len(f)].id \notin Due /\ h = [f EXCEPT ![Len(f)] = l]
        BY <1>1, <1>2, <2>1 DEF TornInv, Torn
      <3> HIDE DEF l
      <3> QED BY <1>2, <3>1
    <2>2. CASE ~Torn(f)
      <3>1. PICK s : h = Append(f, new(s))
        BY <1>1, <2>2
      <3> HIDE DEF new
      <3> QED BY <1>2, <3>1
    <2> QED BY <2>1, <2>2
  <1>4. \A n \in DOMAIN h : h[n].id = lines + 1 \/ (n \in DOMAIN f /\ h[n] = f[n])
    <2>1. CASE Torn(f)
      <3>1. h = [f EXCEPT ![Len(f)] = l] /\ f[Len(f)] \in Line
        BY <1>1, <1>2, <2>1 DEF Torn
      <3>2. l.id = lines + 1
        BY <3>1 DEF Line
      <3> HIDE DEF l
      <3> QED BY <1>2, <3>1, <3>2
    <2>2. CASE ~Torn(f)
      <3>1. PICK s : h = Append(f, new(s))
        BY <1>1, <2>2
      <3>2. new(s).id = lines + 1
        OBVIOUS
      <3> HIDE DEF new
      <3> QED BY <1>2, <3>1, <3>2
    <2> QED BY <2>1, <2>2
  <1> HIDE DEF h, f
  <1>5. ASSUME NEW e \in Due, NEW i \in Inode, Holds(i, e) PROVE Holds(i, e)'
    <2>1. CASE i # fd[p]
      BY <1>1, <1>5, <2>1 DEF Holds
    <2>2. CASE i = fd[p]
      <3>1. PICK n \in DOMAIN f : f[n].id = e
        BY <1>5, <2>2 DEF Holds, f
      <3>2. n \in DOMAIN h /\ h[n].id = e
        BY <1>3, <1>5, <3>1
      <3> QED BY <1>1, <2>2, <3>2 DEF Holds, h
    <2> QED BY <2>1, <2>2
  <1>6. ASSUME NEW i \in Inode, NEW n \in DOMAIN file'[i], file'[i][n].kind = "torn" PROVE file'[i][n].id \notin Due
    <2>1. CASE i # fd[p]
      BY <1>1, <1>6, <2>1 DEF TornInv
    <2>2. CASE i = fd[p]
      BY <1>1, <1>2, <1>4, <1>6, <2>2 DEF TornInv, h, f
    <2> QED BY <2>1, <2>2
  <1> QED BY <1>5, <1>6

\* Nothing lost from the files: what is due stays on disk.
LEMMA DiskGrows ==
    ASSUME Typed, DiskInv, dir' = dir, aged' = aged, \A e \in Due' \ Due : OnDisk(e)',
           \A e \in Due : \A i \in Inode : Holds(i, e) => Holds(i, e)'
    PROVE  DiskInv'
  <1> SUFFICES ASSUME NEW e \in Due' \ aged' PROVE OnDisk(e)'
    BY DEF DiskInv
  <1>1. CASE e \notin Due
    BY <1>1
  <1>2. CASE e \in Due
    <2>1. PICK g \in 0..Retain : dir[g] # 0 /\ Holds(dir[g], e)
      BY <1>2 DEF DiskInv, OnDisk
    <2>2. dir[g] \in Inode
      BY <2>1, FileType, Numbers
    <2> QED BY <1>2, <2>1, <2>2 DEF OnDisk
  <1> QED BY <1>1, <1>2

\* Nothing is due initially.
LEMMA InitDisk == Init => DiskInv /\ TornInv
  BY DEF Init, DiskInv, TornInv, Due

\* Every step of a single process keeps what is due on disk.
LEMMA NextDisk ==
    ASSUME Single, Typed, DirInv, ChainInv, DiskInv, TornInv, [Next]_vars
    PROVE  DiskInv' /\ TornInv'
  <1>0. /\ pc \in [Proc -> PC] /\ pend \in [Proc -> 0..lines] /\ dir \in [0..Retain -> 0..files] /\ tmp \in [Proc -> 0..files] /\ at \in [Proc -> 0..Retain]
        /\ fd \in [Proc -> 0..files]
    BY DEF Typed, TypeOK
  <1>1. ASSUME NEW p \in Proc, Open(p) PROVE DiskInv' /\ TornInv'
    <2>1. /\ pc[p] = "down" /\ UNCHANGED <<file, pend, acked, aged, marred>>
      BY <1>0, <1>1, Numbers DEF Open, OpenAndSeed, Goto
    <2>2. Due' \subseteq Due
      BY <1>0, <2>1, DueStep
    <2>3. \A g \in 0..Retain : dir[g] # 0 => dir'[g] = dir[g]
      BY <1>1, OpenFileEffect DEF Open, OpenAndSeed, Goto
    <2> QED BY <2>1, <2>2, <2>3, DiskSame
  <1>2. ASSUME NEW p \in Proc, Reopen(p) PROVE DiskInv' /\ TornInv'
    <2>1. /\ pc[p] = "idle" /\ fd[p] = 0 /\ UNCHANGED <<file, pend, acked, aged, marred>>
      BY <1>0, <1>2, Numbers DEF Reopen, OpenAndSeed
    <2>2. Due' \subseteq Due
      BY <1>0, <2>1, DueStep
    <2>3. \A g \in 0..Retain : dir[g] # 0 => dir'[g] = dir[g]
      BY <1>2, OpenFileEffect DEF Reopen, OpenAndSeed
    <2> QED BY <2>1, <2>2, <2>3, DiskSame
  <1>3. ASSUME NEW p \in Proc, Stop(p) PROVE DiskInv' /\ TornInv'
    <2>1. /\ pend'[p] = 0 /\ UNCHANGED <<file, dir, acked, aged, marred>>
      BY <1>0, <1>3, Numbers DEF Stop, Goto, fileVars
    <2>2. Due' \subseteq Due
      BY <1>0, <2>1, DueStep
    <2> QED BY <2>1, <2>2, DiskSame
  <1>4. ASSUME NEW p \in Proc, RetryDue(p) PROVE DiskInv' /\ TornInv'
    <2>1. /\ UNCHANGED <<file, dir, pend, acked, aged, marred>>
      BY <1>0, <1>4, Numbers DEF RetryDue, fileVars
    <2>2. Due' \subseteq Due
      BY <1>0, <2>1, DueStep
    <2> QED BY <2>1, <2>2, DiskSame
  <1>5. ASSUME NEW p \in Proc, Log(p) PROVE DiskInv' /\ TornInv'
    <2>1. /\ pc[p] = "idle" /\ fd[p] # 0 /\ pend'[p] = lines + 1 /\ UNCHANGED <<acked, aged, marred>>
      BY <1>0, <1>5, Numbers DEF Log, Goto
    <2>3. WriteLine(p, "event", 0) /\ fd[p] # 0 /\ "event" \in WrittenKind /\ 0 \in 0..lines
      BY <1>5, <2>1, ProcType, Numbers DEF Log, Goto, WrittenKind
    <2>4. dir' = dir /\ fd[p] \in Inode
      BY <2>3, WriteEffect
    <2>5. /\ \A e \in Due : \A i \in Inode : Holds(i, e) => Holds(i, e)'
          /\ \E n \in DOMAIN file'[fd[p]] : file'[fd[p]][n].id = lines + 1 /\ (Decodable(file'[fd[p]][n]) \/ fd[p] \in marred)
          /\ \A i \in Inode : \A n \in DOMAIN file'[i] : file'[i][n].kind = "torn" => file'[i][n].id \notin Due \cup {lines + 1}
      BY <2>1, <2>3, WriteHolds
    <2>6. Due' \subseteq Due \cup {lines + 1}
      BY <1>0, <2>1 DEF Single, Due
    <2>7. \A e \in {lines + 1} : OnDisk(e)'
      <3>1. fd[p] = dir'[0] /\ 0 \in 0..Retain
        BY <2>3, <2>4, Numbers DEF DirInv, DirOK
      <3> QED BY <2>1, <2>3, <2>5, <3>1 DEF OnDisk, Holds
    <2>8. DiskInv'
      BY <2>1, <2>4, <2>5, <2>6, <2>7, DiskGrows
    <2>9. TornInv'
      BY <2>5, <2>6 DEF TornInv, Inode
    <2> QED BY <2>8, <2>9
  <1>6. ASSUME NEW p \in Proc, LogShortWrite(p) PROVE DiskInv' /\ TornInv'
    <2>1. /\ pc[p] = "idle" /\ fd[p] # 0 /\ UNCHANGED <<pend, acked, aged>>
      BY <1>0, <1>6, Numbers DEF LogShortWrite, procVars
    <2>2. Due' \subseteq Due
      BY <1>0, <2>1, DueStep
    <2>3. ShortWrite(p) /\ fd[p] # 0
      BY <1>6, <2>1, ProcType DEF LogShortWrite, procVars
    <2>4. /\ dir' = dir /\ \A e \in Due : \A i \in Inode : Holds(i, e) => Holds(i, e)'
          /\ \A i \in Inode : \A n \in DOMAIN file'[i] : file'[i][n].kind = "torn" => file'[i][n].id \notin Due
      BY <2>3, ShortHolds, ShortEffect
    <2>5. DiskInv'
      BY <2>1, <2>2, <2>4, DiskGrows
    <2>6. TornInv'
      BY <2>2, <2>4 DEF TornInv, Inode
    <2> QED BY <2>5, <2>6
  <1>7. ASSUME NEW p \in Proc, LogSynced(p) PROVE DiskInv' /\ TornInv'
    <2>1. /\ pc[p] = "sync" /\ pend'[p] \in {pend[p], 0} /\ acked' \in {acked, acked \cup ({pend[p]} \ {0})}
          /\ UNCHANGED <<file, dir, aged, marred>>
      BY <1>0, <1>7, Numbers DEF LogSynced, Advance, Goto, Return, fileVars
    <2>2. Due' \subseteq Due
      BY <1>0, <2>1, DueStep
    <2> QED BY <2>1, <2>2, DiskSame
  <1>8. ASSUME NEW p \in Proc, LogSyncFails(p) PROVE DiskInv' /\ TornInv'
    <2>1. /\ pc[p] = "sync" /\ pend'[p] = 0 /\ marred' = marred \cup {fd[p]}
          /\ UNCHANGED <<file, dir, acked, aged>>
      BY <1>0, <1>8, Numbers DEF LogSyncFails, Mar, Goto, Return, fileVars
    <2>2. Due' \subseteq Due
      BY <1>0, <2>1, DueStep
    <2> QED BY <2>1, <2>2, DiskSame
  <1>9. ASSUME NEW p \in Proc, Rotate(p) PROVE DiskInv' /\ TornInv'
    <2>1. /\ pc[p] = "idle" /\ fd[p] # 0 /\ UNCHANGED <<file, dir, pend, acked, aged, marred>>
      BY <1>0, <1>9, Numbers DEF Rotate, HasFile, Goto, fileVars
    <2>2. Due' \subseteq Due
      BY <1>0, <2>1, DueStep
    <2> QED BY <2>1, <2>2, DiskSame
  <1>10. ASSUME NEW p \in Proc, Mark(p) PROVE DiskInv' /\ TornInv'
    <2>1. /\ pc[p] = "mark" /\ UNCHANGED <<pend, acked, aged, marred>>
      BY <1>0, <1>10, Numbers DEF Mark, Goto
    <2>2. Due' \subseteq Due
      BY <1>0, <2>1, DueStep
    <2>3. WriteLine(p, "rotated", 0) /\ fd[p] # 0 /\ "rotated" \in WrittenKind /\ 0 \in 0..lines
      BY <1>10, <2>1, ProcType, Numbers DEF Mark, Goto, WrittenKind
    <2>4. dir' = dir /\ fd[p] \in Inode
      BY <2>3, WriteEffect
    <2>5. /\ \A e \in Due : \A i \in Inode : Holds(i, e) => Holds(i, e)'
          /\ \E n \in DOMAIN file'[fd[p]] : file'[fd[p]][n].id = lines + 1 /\ (Decodable(file'[fd[p]][n]) \/ fd[p] \in marred)
          /\ \A i \in Inode : \A n \in DOMAIN file'[i] : file'[i][n].kind = "torn" => file'[i][n].id \notin Due \cup {lines + 1}
      BY <2>1, <2>3, WriteHolds
    <2>6. DiskInv'
      BY <2>1, <2>2, <2>4, <2>5, DiskGrows
    <2>7. TornInv'
      BY <2>2, <2>5 DEF TornInv, Inode
    <2> QED BY <2>6, <2>7
  <1>11. ASSUME NEW p \in Proc, MarkSynced(p) PROVE DiskInv' /\ TornInv'
    <2>1. /\ pc[p] = "marksync" /\ UNCHANGED <<file, dir, pend, acked, aged, marred>>
      BY <1>0, <1>11, Numbers DEF MarkSynced, Advance, LinkTo, ShiftFrom, Goto, fileVars
    <2>2. Due' \subseteq Due
      BY <1>0, <2>1, DueStep
    <2> QED BY <2>1, <2>2, DiskSame
  <1>12. ASSUME NEW p \in Proc, RemoveOldest(p) PROVE DiskInv' /\ TornInv'
    <2>1. /\ pc[p] = "shift" /\ at[p] = Retain
          /\ \A g \in 0..Retain : dir'[g] = IF g = Retain THEN 0 ELSE dir[g]
          /\ aged' = IF dir[Retain] = 0 THEN aged ELSE aged \cup Ids(dir[Retain])
          /\ UNCHANGED <<file, pend, acked, marred>>
      BY <1>0, <1>12, Numbers DEF RemoveOldest
    <2>2. Due' \subseteq Due
      BY <1>0, <2>1, DueStep
    <2>3. \A g \in 0..Retain : dir[g] # 0 => dir'[g] = dir[g] \/ Ids(dir[g]) \subseteq aged'
      BY <2>1
    <2> QED BY <2>1, <2>2, <2>3, DiskSame
  <1>13. ASSUME NEW p \in Proc, Shift(p) PROVE DiskInv' /\ TornInv'
    <2>1. /\ pc[p] = "shift" /\ at[p] # 0 /\ at[p] < Retain
          /\ \A g \in 0..Retain : dir'[g] = IF dir[at[p]] # 0 /\ g = at[p] + 1 THEN dir[at[p]] ELSE IF g = at[p] THEN 0 ELSE dir[g]
          /\ UNCHANGED <<file, pend, acked, aged, marred>>
      BY <1>0, <1>13, Numbers, ShiftEffect DEF Shift
    <2>2. Due' \subseteq Due
      BY <1>0, <2>1, DueStep
    <2>3. \A g \in 0..Retain : dir[g] # 0 => \E h \in 0..Retain : dir'[h] = dir[g]
      <3>1. dir[at[p] + 1] = 0 /\ at[p] + 1 \in 0..Retain
        BY <2>1, Numbers DEF DirInv, DirOK
      <3>2. \A g \in 0..Retain : dir[g] # 0 => dir'[IF g = at[p] THEN at[p] + 1 ELSE g] = dir[g]
        BY <2>1, <3>1, Numbers
      <3> QED BY <3>1, <3>2
    <2> QED BY <2>1, <2>2, <2>3, DiskSame
  <1>14. ASSUME NEW p \in Proc, RenameLog(p) PROVE DiskInv' /\ TornInv'
    <2>1. /\ pc[p] = "shift" /\ at[p] = 0 /\ dir[0] # 0
          /\ \A g \in 0..Retain : dir'[g] = IF g = 1 THEN dir[0] ELSE IF g = 0 THEN 0 ELSE dir[g]
          /\ UNCHANGED <<file, pend, acked, aged, marred>>
      BY <1>0, <1>14, Numbers DEF RenameLog, Newest, Goto
    <2>2. Due' \subseteq Due
      BY <1>0, <2>1, DueStep
    <2>3. \A g \in 0..Retain : dir[g] # 0 => \E h \in 0..Retain : dir'[h] = dir[g]
      <3>1. dir[1] = 0 /\ 1 \in 0..Retain
        BY <2>1, Numbers DEF DirInv, DirOK
      <3>2. \A g \in 0..Retain : dir[g] # 0 => dir'[IF g = 0 THEN 1 ELSE g] = dir[g]
        BY <2>1, <3>1, Numbers
      <3> QED BY <3>1, <3>2
    <2> QED BY <2>1, <2>2, <2>3, DiskSame
  <1>15. ASSUME NEW p \in Proc, RenameFails(p) PROVE DiskInv' /\ TornInv'
    <2>1. /\ pc[p] = "shift" /\ UNCHANGED <<file, dir, pend, acked, aged, marred>>
      BY <1>0, <1>15, Numbers DEF RenameFails, Goto, fileVars
    <2>2. Due' \subseteq Due
      BY <1>0, <2>1, DueStep
    <2> QED BY <2>1, <2>2, DiskSame
  <1>16. ASSUME NEW p \in Proc, OpenNew(p) PROVE DiskInv' /\ TornInv'
    <2>1. /\ pc[p] = "open" /\ UNCHANGED <<file, pend, acked, aged, marred>>
      BY <1>0, <1>16, Numbers DEF OpenNew, StartChain, Goto
    <2>2. Due' \subseteq Due
      BY <1>0, <2>1, DueStep
    <2>3. \A g \in 0..Retain : dir[g] # 0 => dir'[g] = dir[g]
      BY <1>16, OpenFileEffect DEF OpenNew, StartChain, Goto
    <2> QED BY <2>1, <2>2, <2>3, DiskSame
  <1>17. ASSUME NEW p \in Proc, OpenNewFails(p) PROVE DiskInv' /\ TornInv'
    <2>1. /\ pc[p] = "open" /\ dir[1] # 0
          /\ \A g \in 0..Retain : dir'[g] = IF g = 0 THEN dir[1] ELSE IF g = 1 THEN 0 ELSE dir[g]
          /\ UNCHANGED <<file, pend, acked, aged, marred>>
      BY <1>0, <1>17, Numbers DEF OpenNewFails, Restore, Newest, Goto
    <2>2. Due' \subseteq Due
      BY <1>0, <2>1, DueStep
    <2>3. \A g \in 0..Retain : dir[g] # 0 => \E h \in 0..Retain : dir'[h] = dir[g]
      <3>1. dir[0] = 0 /\ 0 \in 0..Retain
        BY <2>1, Numbers DEF DirInv, DirOK
      <3>2. \A g \in 0..Retain : dir[g] # 0 => dir'[IF g = 1 THEN 0 ELSE g] = dir[g]
        BY <2>1, <3>1, Numbers
      <3> QED BY <3>1, <3>2
    <2> QED BY <2>1, <2>2, <2>3, DiskSame
  <1>18. ASSUME NEW p \in Proc, RestoreFails(p) PROVE DiskInv' /\ TornInv'
    <2>1. /\ pc[p] = "open" /\ pend'[p] = 0 /\ acked' = acked /\ UNCHANGED <<file, dir, aged, marred>>
      BY <1>0, <1>18, Numbers DEF RestoreFails, RotateFailed, Return, Goto, fileVars
    <2>2. Due' \subseteq Due
      BY <1>0, <2>1, DueStep
    <2> QED BY <2>1, <2>2, DiskSame
  <1>19. ASSUME NEW p \in Proc, KeepCurrent(p) PROVE DiskInv' /\ TornInv'
    <2>1. /\ pc[p] = "keep" /\ pend'[p] = 0 /\ acked' = acked \cup ({pend[p]} \ {0})
          /\ UNCHANGED <<file, aged, marred>>
      BY <1>0, <1>19, Numbers DEF KeepCurrent, RotateFailed, Return, Goto
    <2>2. Due' \subseteq Due
      BY <1>0, <2>1, DueStep
    <2>3. \A g \in 0..Retain : dir[g] # 0 => dir'[g] = dir[g]
      BY <1>19, OpenFileEffect DEF KeepCurrent, RotateFailed, Return, Goto
    <2> QED BY <2>1, <2>2, <2>3, DiskSame
  <1>20. ASSUME NEW p \in Proc, KeepCurrentFails(p) PROVE DiskInv' /\ TornInv'
    <2>1. /\ pc[p] = "keep" /\ pend'[p] = 0 /\ acked' = acked /\ UNCHANGED <<file, dir, aged, marred>>
      BY <1>0, <1>20, Numbers DEF KeepCurrentFails, RotateFailed, Return, Goto, fileVars
    <2>2. Due' \subseteq Due
      BY <1>0, <2>1, DueStep
    <2> QED BY <2>1, <2>2, DiskSame
  <1>21. ASSUME NEW p \in Proc, Continue(p) PROVE DiskInv' /\ TornInv'
    <2>1. /\ pc[p] = "cont" /\ UNCHANGED <<pend, acked, aged, marred>>
      BY <1>0, <1>21, Numbers DEF Continue, Goto
    <2>2. Due' \subseteq Due
      BY <1>0, <2>1, DueStep
    <2>3. WriteLine(p, "continued", link[p]) /\ fd[p] # 0 /\ "continued" \in WrittenKind /\ link[p] \in 0..lines
      BY <1>21, <2>1, ProcType, Numbers DEF Continue, Goto, WrittenKind
    <2>4. dir' = dir /\ fd[p] \in Inode
      BY <2>3, WriteEffect
    <2>5. /\ \A e \in Due : \A i \in Inode : Holds(i, e) => Holds(i, e)'
          /\ \E n \in DOMAIN file'[fd[p]] : file'[fd[p]][n].id = lines + 1 /\ (Decodable(file'[fd[p]][n]) \/ fd[p] \in marred)
          /\ \A i \in Inode : \A n \in DOMAIN file'[i] : file'[i][n].kind = "torn" => file'[i][n].id \notin Due \cup {lines + 1}
      BY <2>1, <2>3, WriteHolds
    <2>6. DiskInv'
      BY <2>1, <2>2, <2>4, <2>5, DiskGrows
    <2>7. TornInv'
      BY <2>2, <2>5 DEF TornInv, Inode
    <2> QED BY <2>6, <2>7
  <1>22. ASSUME NEW p \in Proc, ContinueSynced(p) PROVE DiskInv' /\ TornInv'
    <2>1. /\ pc[p] = "contsync" /\ pend'[p] = 0 /\ acked' = acked \cup ({pend[p]} \ {0})
          /\ UNCHANGED <<file, dir, aged, marred>>
      BY <1>0, <1>22, Numbers DEF ContinueSynced, Advance, Return, Goto, fileVars
    <2>2. Due' \subseteq Due
      BY <1>0, <2>1, DueStep
    <2> QED BY <2>1, <2>2, DiskSame
  <1>23. ASSUME NEW p \in Proc, SentinelShortWrite(p) PROVE DiskInv' /\ TornInv'
    <2>1. /\ pc[p] \in {"mark", "cont"} /\ pend'[p] = 0 /\ acked' = acked \cup ({pend[p]} \ {0})
          /\ UNCHANGED <<aged>>
      BY <1>0, <1>23, Numbers DEF SentinelShortWrite, RotateFailed, Return, Goto
    <2>2. Due' \subseteq Due
      BY <1>0, <2>1, DueStep
    <2>3. ShortWrite(p) /\ fd[p] # 0
      BY <1>23, <2>1, ProcType DEF SentinelShortWrite, RotateFailed, Return, Goto
    <2>4. /\ dir' = dir /\ \A e \in Due : \A i \in Inode : Holds(i, e) => Holds(i, e)'
          /\ \A i \in Inode : \A n \in DOMAIN file'[i] : file'[i][n].kind = "torn" => file'[i][n].id \notin Due
      BY <2>3, ShortHolds, ShortEffect
    <2>5. DiskInv'
      BY <2>1, <2>2, <2>4, DiskGrows
    <2>6. TornInv'
      BY <2>2, <2>4 DEF TornInv, Inode
    <2> QED BY <2>5, <2>6
  <1>24. ASSUME NEW p \in Proc, SentinelSyncFails(p) PROVE DiskInv' /\ TornInv'
    <2>1. /\ pc[p] \in {"marksync", "contsync"} /\ pend'[p] = 0 /\ acked' = acked \cup ({pend[p]} \ {0})
          /\ marred' = marred \cup {fd[p]} /\ UNCHANGED <<file, dir, aged>>
      BY <1>0, <1>24, Numbers DEF SentinelSyncFails, Mar, RotateFailed, Return, Goto, fileVars
    <2>2. Due' \subseteq Due
      BY <1>0, <2>1, DueStep
    <2> QED BY <2>1, <2>2, DiskSame
  <1>25. ASSUME NEW p \in Proc, PruneCopy(p) PROVE DiskInv' /\ TornInv'
    <2>1. /\ pc[p] = "idle" /\ fd[p] # 0 /\ marred' = marred \cup {files + 1}
          /\ UNCHANGED <<dir, pend, acked, aged>>
      BY <1>0, <1>25, Numbers DEF PruneCopy, Mar, Goto
    <2>2. Due' \subseteq Due
      BY <1>0, <2>1, DueStep
    <2>3. files + 1 \in Inode /\ files \in Nat
      BY <1>25, Numbers, SizeAssumption DEF PruneCopy, Inode
    <2>4. fd[p] \in Inode /\ file[fd[p]] \in Seq(Line) /\ \A m \in DOMAIN file[fd[p]] : file[fd[p]][m].id <= lines
      BY <2>1, ProcType, FileType
    <2>5. PICK n \in 1..Len(file[fd[p]]) : file' = [file EXCEPT ![files + 1] = Kept(file[fd[p]], n)]
      BY <1>25 DEF PruneCopy
    <2>6. \A m \in DOMAIN Kept(file[fd[p]], n) : Kept(file[fd[p]], n)[m].kind # "torn"
      <3>1. n \in Nat /\ lines \in Nat
        BY <2>4, Numbers, LinesType
      <3> QED BY <2>4, <3>1, KeptType
    <2>7. file'[files + 1] = Kept(file[fd[p]], n) /\ \A j \in Inode : j # files + 1 => file'[j] = file[j]
      BY <2>3, <2>5, FileType
    <2>8. TornInv'
      BY <2>2, <2>6, <2>7 DEF TornInv, Inode
    <2>9. ASSUME NEW e \in Due' \ aged' PROVE OnDisk(e)'
      <3>1. PICK g \in 0..Retain : dir[g] # 0 /\ Holds(dir[g], e)
        BY <2>1, <2>2, <2>9 DEF DiskInv, OnDisk
      <3>2. dir[g] \in Inode /\ dir[g] # files + 1
        BY <3>1, FileType, Numbers
      <3> QED BY <2>1, <2>7, <3>1, <3>2 DEF OnDisk, Holds
    <2> QED BY <2>8, <2>9 DEF DiskInv
  <1>26. ASSUME NEW p \in Proc, PruneRename(p) PROVE DiskInv' /\ TornInv'
    <2>1. /\ pc[p] = "swap"
          /\ \A g \in 0..Retain : dir'[g] = IF g = 0 THEN tmp[p] ELSE dir[g]
          /\ aged' = aged \cup (Ids(fd[p]) \ Ids(tmp[p])) /\ UNCHANGED <<file, pend, acked, marred>>
      BY <1>0, <1>26, Numbers DEF PruneRename, Goto
    <2>2. Due' \subseteq Due
      BY <1>0, <2>1, DueStep
    <2>3. TornInv'
      BY <2>1, <2>2 DEF TornInv, Inode
    <2>4. tmp[p] # 0 /\ tmp[p] \in marred /\ fd[p] = dir[0] /\ dir'[0] = tmp[p]
      BY <2>1, ProcType, Numbers DEF DirInv, DirOK
    <2>5. ASSUME NEW e \in Due' \ aged' PROVE OnDisk(e)'
      <3>1. PICK g \in 0..Retain : dir[g] # 0 /\ Holds(dir[g], e)
        BY <2>1, <2>2, <2>5 DEF DiskInv, OnDisk
      <3>2. CASE g # 0
        BY <2>1, <3>1, <3>2 DEF OnDisk, Holds
      <3>3. CASE g = 0
        <4>1. e \in Ids(fd[p])
          BY <2>4, <3>1, <3>3 DEF Holds, Ids
        <4>2. e \in Ids(tmp[p])
          BY <2>1, <2>5, <4>1
        <4>3. Holds(tmp[p], e)
          BY <2>4, <4>2 DEF Holds, Ids
        <4> QED BY <2>1, <2>4, <4>3, Numbers DEF OnDisk, Holds
      <3> QED BY <3>2, <3>3
    <2> QED BY <2>3, <2>5 DEF DiskInv
  <1>27. ASSUME NEW p \in Proc, PruneReopen(p) PROVE DiskInv' /\ TornInv'
    <2>1. /\ pc[p] = "reopen" /\ UNCHANGED <<file, pend, acked, aged, marred>>
      BY <1>0, <1>27, Numbers DEF PruneReopen, Goto
    <2>2. Due' \subseteq Due
      BY <1>0, <2>1, DueStep
    <2>3. \A g \in 0..Retain : dir[g] # 0 => dir'[g] = dir[g]
      BY <1>27, OpenFileEffect DEF PruneReopen, Goto
    <2> QED BY <2>1, <2>2, <2>3, DiskSame
  <1>28. ASSUME NEW p \in Proc, PruneRenameFails(p) PROVE DiskInv' /\ TornInv'
    <2>1. /\ pc[p] = "swap" /\ UNCHANGED <<file, pend, acked, aged, marred>>
      BY <1>0, <1>28, Numbers DEF PruneRenameFails, Goto
    <2>2. Due' \subseteq Due
      BY <1>0, <2>1, DueStep
    <2>3. \A g \in 0..Retain : dir[g] # 0 => dir'[g] = dir[g]
      BY <1>28, OpenFileEffect DEF PruneRenameFails, Goto
    <2> QED BY <2>1, <2>2, <2>3, DiskSame
  <1>29. ASSUME NEW p \in Proc, PruneReopenFails(p) PROVE DiskInv' /\ TornInv'
    <2>1. /\ pc[p] = "reopen" /\ UNCHANGED <<file, dir, pend, acked, aged, marred>>
      BY <1>0, <1>29, Numbers DEF PruneReopenFails, Goto, fileVars
    <2>2. Due' \subseteq Due
      BY <1>0, <2>1, DueStep
    <2> QED BY <2>1, <2>2, DiskSame
  <1>30. ASSUME NEW g \in 1..Retain, Sweep(g) PROVE DiskInv' /\ TornInv'
    <2>1. /\ \A h \in 0..Retain : dir'[h] = IF h >= g THEN 0 ELSE dir[h]
          /\ aged' = aged \cup UNION {Ids(dir[h]) : h \in {h \in g..Retain : dir[h] # 0}}
          /\ UNCHANGED <<file, pend, acked, marred>>
      BY <1>0, <1>30 DEF Sweep, procVars
    <2>2. Due' = Due
      BY <2>1 DEF Due
    <2>3. \A h \in 0..Retain : dir[h] # 0 => dir'[h] = dir[h] \/ Ids(dir[h]) \subseteq aged'
      <3> SUFFICES ASSUME NEW h \in 0..Retain, dir[h] # 0 PROVE dir'[h] = dir[h] \/ Ids(dir[h]) \subseteq aged'
        OBVIOUS
      <3>1. CASE h >= g
        <4>1. h \in {k \in g..Retain : dir[k] # 0}
          BY <3>1
        <4> QED BY <2>1, <4>1
      <3>2. CASE ~(h >= g)
        BY <2>1, <3>2
      <3> QED BY <3>1, <3>2
    <2> QED BY <2>1, <2>2, <2>3, DiskSame
  <1>31. CASE UNCHANGED vars
    <2>1. Due' = Due /\ UNCHANGED <<file, dir, marred, aged>>
      BY <1>31 DEF Due, vars, fileVars, procVars
    <2> QED BY <2>1, DiskSame
  <1> QED
    BY <1>1, <1>2, <1>3, <1>4, <1>5, <1>6, <1>7, <1>8, <1>9, <1>10, <1>11, <1>12, <1>13, <1>14, <1>15, <1>16, <1>17, <1>18, <1>19, <1>20, <1>21, <1>22, <1>23, <1>24, <1>25, <1>26, <1>27, <1>28, <1>29, <1>30, <1>31 DEF Next

-----------------------------------------------------------------------------
\* The links between files

Continued(f) == f # <<>> /\ f[1].kind = "continued"
Closed(f, id) == f # <<>> /\ f[Len(f)].kind = "rotated" /\ f[Len(f)].id = id

\* What LinksHold says of the files i and j.
Linked(i, j) == Continued(file[i]) => i \in marred \/ j \in marred \/ Closed(file[j], file[i][1].from)
Links == \A g \in 0..Retain - 1 : dir[g] # 0 /\ dir[g + 1] # 0 => Linked(dir[g], dir[g + 1])

\* File j ends with the sentinel to which p will link the new file.
Sealed(p, j) == j \in marred \/ Closed(file[j], link[p])

\* While generations are shifted the files on both sides of the free one are linked.
LinkOK(p) ==
    /\ pc[p] = "marksync" => fd[p] \in marred \/ Closed(file[fd[p]], own[p])
    /\ pc[p] = "shift" => Sealed(p, dir[0])
    /\ pc[p] = "open" /\ dir[1] # 0 => Sealed(p, dir[1])
    /\ pc[p] = "cont" => file[fd[p]] = <<>> /\ (dir[1] # 0 => Sealed(p, dir[1]))
    /\ pc[p] = "shift" /\ at[p] + 2 <= Retain /\ dir[at[p]] # 0 /\ dir[at[p] + 2] # 0 =>
          Linked(dir[at[p]], dir[at[p] + 2])

LinkInv == Links /\ \A p \in Proc : LinkOK(p)

\* Links is what LinksHold says.
LEMMA LinksAll == Typed /\ Links => LinksHold
  <1> SUFFICES ASSUME Typed, Links, NEW g \in 0..Retain - 1,
                      dir[g] # 0, dir[g + 1] # 0, Continued(file[dir[g]]), dir[g] \notin marred, dir[g + 1] \notin marred
               PROVE  Closed(file[dir[g + 1]], file[dir[g]][1].from)
    BY DEF LinksHold, Continued, Closed
  <1> QED BY DEF Links, Linked

\* Files that do not change stay linked.
LEMMA LinkedSame ==
    ASSUME NEW i, NEW j, Linked(i, j), file'[i] = file[i], file'[j] = file[j], marred \subseteq marred'
    PROVE  Linked(i, j)'
  BY DEF Linked

\* A line is written to the log: the first line of another file, or of the log if
\* it had one, stays.
LEMMA LinksWrite ==
    ASSUME Typed, DirInv, ChainInv, Links, NEW p \in Proc, fd[p] # 0, NEW kind \in WrittenKind, NEW from \in 0..lines,
           WriteLine(p, kind, from), marred' = marred,
           kind = "continued" /\ file[fd[p]] = <<>> /\ dir[1] # 0 => dir[1] \in marred \/ Closed(file[dir[1]], from),
           kind # "continued" \/ file[fd[p]] = <<>>
    PROVE  /\ Links' /\ (fd[p] \in marred \/ (file'[fd[p]] # <<>> /\ file'[fd[p]][Len(file'[fd[p]])].id = own'[p]
                                              /\ file'[fd[p]][Len(file'[fd[p]])].kind = kind))
           /\ \A j \in Inode : j # fd[p] => file'[j] = file[j]
  <1> DEFINE f == file[fd[p]]
             new == [id |-> lines + 1, seq |-> seq[p] + 1, prev |-> prev[p], from |-> from, kind |-> kind]
             h == file'[fd[p]]
  <1>1. /\ new \in Line /\ Decodable(new) /\ (~Torn(f) => h = Append(f, new))
        /\ \A j \in Inode : j # fd[p] => file'[j] = file[j]
        /\ own'[p] = lines + 1 /\ fd[p] \in Inode /\ dir' = dir
    BY WriteEffect
  <1>2. fd[p] = dir[0] /\ f \in Seq(Line)
    BY <1>1, FileType DEF DirInv, DirOK
  <1>3. Torn(f) => fd[p] \in marred
    BY <1>1, <1>2, ChainLast DEF ChainInv
  <1>4. new.id = lines + 1 /\ new.kind = kind /\ new.from = from
    OBVIOUS
  <1> HIDE DEF new
  <1>5. ASSUME ~Torn(f)
        PROVE  /\ h # <<>> /\ h[Len(h)] = new
               /\ h[1] = IF f = <<>> THEN new ELSE f[1]
    BY <1>1, <1>2, <1>5, SMTT(30)
  <1> HIDE DEF h, f
  <1>6. ASSUME NEW g \in 0..Retain - 1, dir[g] # 0, dir[g + 1] # 0 PROVE Linked(dir[g], dir[g + 1])'
    <2>1. Linked(dir[g], dir[g + 1]) /\ g \in 0..Retain /\ g + 1 \in 0..Retain /\ g + 1 # 0
      BY <1>6, Numbers DEF Links
    <2>2. dir[g] \in Inode /\ dir[g + 1] \in Inode /\ dir[g + 1] # fd[p] /\ (g # 0 => dir[g] # fd[p])
      BY <1>2, <1>6, <2>1, FileType, Numbers DEF DirInv, Distinct
    <2>3. file'[dir[g + 1]] = file[dir[g + 1]]
      BY <1>1, <2>2
    <2>4. CASE g # 0
      <3>1. file'[dir[g]] = file[dir[g]]
        BY <1>1, <2>2, <2>4
      <3> QED BY <1>1, <2>1, <2>3, <3>1 DEF Linked
    <2>5. CASE g = 0 /\ fd[p] \in marred
      BY <1>1, <1>2, <2>5 DEF Linked
    <2>6. CASE g = 0 /\ fd[p] \notin marred
      <3>1. dir[0] # 0 /\ dir[1] # 0 /\ Linked(dir[0], dir[1]) /\ file'[dir[1]] = file[dir[1]]
        BY <1>6, <2>1, <2>3, <2>6
      <3>2. h # <<>> /\ h[1] = IF f = <<>> THEN new ELSE f[1]
        BY <1>3, <1>5, <2>6
      <3>3. CASE f = <<>>
        <4>1. h[1].kind = "continued" => dir[1] \in marred \/ Closed(file[dir[1]], h[1].from)
          BY <1>4, <3>1, <3>2, <3>3 DEF f
        <4> QED BY <1>1, <1>2, <2>6, <3>1, <4>1 DEF Linked, Continued, h
      <3>4. CASE f # <<>>
        <4>1. Continued(h) => Continued(f) /\ h[1].from = f[1].from
          BY <3>2, <3>4 DEF Continued
        <4> QED BY <1>1, <1>2, <2>6, <3>1, <4>1 DEF Linked, h, f
      <3> QED BY <3>3, <3>4
    <2> QED BY <2>4, <2>5, <2>6
  <1>7. Links'
    BY <1>1, <1>6 DEF Links
  <1> QED BY <1>1, <1>3, <1>4, <1>5, <1>7 DEF h

\* There are no files to link initially.
LEMMA InitLink == Init => LinkInv
  BY SizeAssumption DEF Init, LinkInv, Links, LinkOK

\* Every step of a single process keeps the files linked.
LEMMA NextLink ==
    ASSUME Single, Typed, DirInv, ChainInv, LinkInv, [Next]_vars
    PROVE  LinkInv'
  <1>0. /\ pc \in [Proc -> PC] /\ dir \in [0..Retain -> 0..files] /\ at \in [Proc -> 0..Retain]
        /\ fd \in [Proc -> 0..files] /\ own \in [Proc -> 0..lines] /\ link \in [Proc -> 0..lines]
    BY DEF Typed, TypeOK
  <1>1. ASSUME NEW p \in Proc, Open(p) PROVE LinkInv'
    <2>1. /\ pc[p] = "down" /\ pc'[p] = "idle" /\ UNCHANGED <<file, own, at, link, marred>>
      BY <1>0, <1>1, Numbers DEF Open, OpenAndSeed, Goto
    <2>2. /\ fd'[p] = dir'[0] /\ dir'[0] # 0 /\ \A g \in 0..Retain : g # 0 => dir'[g] = dir[g]
          /\ dir[0] # 0 => dir' = dir
          /\ file'[dir'[0]] = LogLines
      BY <1>1, <2>1, OpenFileEffect, OpenFileLines DEF Open, OpenAndSeed, Goto
    <2>3. Links'
      <3>1. CASE dir[0] # 0
        BY <2>1, <2>2, <3>1 DEF LinkInv, Links, Linked
      <3>2. CASE dir[0] = 0
        <4>1. file'[dir'[0]] = <<>>
          BY <2>2, <3>2 DEF LogLines
        <4>2. ASSUME NEW g \in 0..Retain - 1, dir'[g] # 0, dir'[g + 1] # 0 PROVE Linked(dir[g], dir[g + 1])'
          <5>1. CASE g = 0
            BY <4>1, <5>1 DEF Linked, Continued
          <5>2. CASE g # 0
            <6>1. dir'[g] = dir[g] /\ dir'[g + 1] = dir[g + 1]
              BY <2>2, <5>2, Numbers
            <6> QED BY <2>1, <4>2, <6>1 DEF LinkInv, Links, Linked
          <5> QED BY <5>1, <5>2
        <4> QED BY <4>2 DEF Links
      <3> QED BY <3>1, <3>2
    <2>4. LinkOK(p)'
      BY <2>1, <2>2, Numbers DEF LinkInv, LinkOK, Sealed, DirInv, DirOK, LogLines
    <2> QED BY <2>3, <2>4 DEF Single, LinkInv
  <1>2. ASSUME NEW p \in Proc, Reopen(p) PROVE LinkInv'
    <2>1. /\ pc[p] = "idle" /\ fd[p] = 0 /\ UNCHANGED <<file, pc, own, at, link, marred>>
      BY <1>0, <1>2, Numbers DEF Reopen, OpenAndSeed
    <2>2. /\ fd'[p] = dir'[0] /\ dir'[0] # 0 /\ \A g \in 0..Retain : g # 0 => dir'[g] = dir[g]
          /\ dir[0] # 0 => dir' = dir
          /\ file'[dir'[0]] = LogLines
      BY <1>2, <2>1, OpenFileEffect, OpenFileLines DEF Reopen, OpenAndSeed
    <2>3. Links'
      <3>1. CASE dir[0] # 0
        BY <2>1, <2>2, <3>1 DEF LinkInv, Links, Linked
      <3>2. CASE dir[0] = 0
        <4>1. file'[dir'[0]] = <<>>
          BY <2>2, <3>2 DEF LogLines
        <4>2. ASSUME NEW g \in 0..Retain - 1, dir'[g] # 0, dir'[g + 1] # 0 PROVE Linked(dir[g], dir[g + 1])'
          <5>1. CASE g = 0
            BY <4>1, <5>1 DEF Linked, Continued
          <5>2. CASE g # 0
            <6>1. dir'[g] = dir[g] /\ dir'[g + 1] = dir[g + 1]
              BY <2>2, <5>2, Numbers
            <6> QED BY <2>1, <4>2, <6>1 DEF LinkInv, Links, Linked
          <5> QED BY <5>1, <5>2
        <4> QED BY <4>2 DEF Links
      <3> QED BY <3>1, <3>2
    <2>4. LinkOK(p)'
      BY <2>1, <2>2, Numbers DEF LinkInv, LinkOK, Sealed, DirInv, DirOK, LogLines
    <2> QED BY <2>3, <2>4 DEF Single, LinkInv
  <1>3. ASSUME NEW p \in Proc, Stop(p) PROVE LinkInv'
    <2>1. /\ pc'[p] = "down" /\ fd'[p] = 0 /\ own'[p] = 0 /\ at'[p] = 0 /\ link'[p] = 0
          /\ UNCHANGED <<file, dir, marred>>
      BY <1>0, <1>3, Numbers DEF Stop, Goto, fileVars
    <2>2. Links'
      BY <2>1 DEF LinkInv, Links, Linked
    <2>3. LinkOK(p)'
      BY <2>1 DEF LinkInv, LinkOK, Sealed
    <2> QED BY <2>2, <2>3 DEF Single, LinkInv
  <1>4. ASSUME NEW p \in Proc, RetryDue(p) PROVE LinkInv'
    <2>1. /\ UNCHANGED <<file, dir, pc, fd, own, at, link, marred>>
      BY <1>0, <1>4, Numbers DEF RetryDue, fileVars
    <2>2. Links'
      BY <2>1 DEF LinkInv, Links, Linked
    <2>3. LinkOK(p)'
      BY <2>1 DEF LinkInv, LinkOK, Sealed, Linked
    <2> QED BY <2>2, <2>3 DEF Single, LinkInv
  <1>5. ASSUME NEW p \in Proc, Log(p) PROVE LinkInv'
    <2>1. /\ pc[p] = "idle" /\ fd[p] # 0 /\ pc'[p] = "sync" /\ UNCHANGED <<fd, at, link, marred>>
      BY <1>0, <1>5, Numbers DEF Log, Goto
    <2>2. WriteLine(p, "event", 0) /\ fd[p] # 0 /\ "event" \in WrittenKind /\ 0 \in 0..lines
      BY <1>5, <2>1, ProcType, Numbers DEF Log, Goto, WrittenKind
    <2>3. /\ Links' /\ (fd[p] \in marred \/ (file'[fd[p]] # <<>> /\ file'[fd[p]][Len(file'[fd[p]])].id = own'[p]
                                               /\ file'[fd[p]][Len(file'[fd[p]])].kind = "event"))
      BY <2>1, <2>2, LinksWrite DEF LinkInv
    <2>4. LinkOK(p)'
      BY <2>1, <2>3 DEF LinkOK, Closed
    <2> QED BY <2>3, <2>4 DEF Single, LinkInv
  <1>6. ASSUME NEW p \in Proc, LogShortWrite(p) PROVE LinkInv'
    <2>1. /\ pc[p] = "idle" /\ fd[p] # 0 /\ UNCHANGED <<pc, fd, own, at, link>>
      BY <1>0, <1>6, Numbers DEF LogShortWrite, procVars
    <2>2. /\ \A j \in Inode : j # fd[p] => file'[j] = file[j]
          /\ dir' = dir /\ marred' = marred \cup {fd[p]}
      BY <1>6, <2>1, ShortEffect, ProcType DEF LogShortWrite, procVars
    <2>3. Links'
      <3>1. ASSUME NEW g \in 0..Retain, dir[g] # 0 PROVE dir[g] \in marred' \/ file'[dir[g]] = file[dir[g]]
        BY <2>2, <3>1, FileType, Numbers
      <3>2. \A g \in 0..Retain - 1 : g \in 0..Retain /\ g + 1 \in 0..Retain
        BY Numbers
      <3> QED BY <2>2, <3>1, <3>2 DEF LinkInv, Links, Linked
    <2>4. LinkOK(p)'
      BY <2>1, <2>2 DEF LinkOK
    <2> QED BY <2>3, <2>4 DEF Single, LinkInv
  <1>7. ASSUME NEW p \in Proc, LogSynced(p) PROVE LinkInv'
    <2>1. /\ pc[p] = "sync" /\ pc'[p] \in {"mark", "idle"} /\ UNCHANGED <<file, dir, fd, own, marred>>
      BY <1>0, <1>7, Numbers DEF LogSynced, Advance, Goto, Return, fileVars
    <2>2. Links'
      BY <2>1 DEF LinkInv, Links, Linked
    <2>3. LinkOK(p)'
      BY <2>1 DEF LinkInv, LinkOK, Sealed
    <2> QED BY <2>2, <2>3 DEF Single, LinkInv
  <1>8. ASSUME NEW p \in Proc, LogSyncFails(p) PROVE LinkInv'
    <2>1. /\ pc[p] = "sync" /\ pc'[p] = "idle" /\ at'[p] = 0 /\ link'[p] = 0
          /\ marred' = marred \cup {fd[p]} /\ UNCHANGED <<file, dir, fd, own>>
      BY <1>0, <1>8, Numbers DEF LogSyncFails, Mar, Goto, Return, fileVars
    <2>2. Links'
      BY <2>1 DEF LinkInv, Links, Linked
    <2>3. LinkOK(p)'
      BY <2>1 DEF LinkInv, LinkOK, Sealed
    <2> QED BY <2>2, <2>3 DEF Single, LinkInv
  <1>9. ASSUME NEW p \in Proc, Rotate(p) PROVE LinkInv'
    <2>1. /\ pc[p] = "idle" /\ fd[p] # 0 /\ pc'[p] = "mark"
          /\ UNCHANGED <<file, dir, fd, own, at, link, marred>>
      BY <1>0, <1>9, Numbers DEF Rotate, HasFile, Goto, fileVars
    <2>2. Links'
      BY <2>1 DEF LinkInv, Links, Linked
    <2>3. LinkOK(p)'
      BY <2>1 DEF LinkInv, LinkOK, Sealed
    <2> QED BY <2>2, <2>3 DEF Single, LinkInv
  <1>10. ASSUME NEW p \in Proc, Mark(p) PROVE LinkInv'
    <2>1. /\ pc[p] = "mark" /\ pc'[p] = "marksync" /\ UNCHANGED <<fd, at, link, marred>>
      BY <1>0, <1>10, Numbers DEF Mark, Goto
    <2>2. WriteLine(p, "rotated", 0) /\ fd[p] # 0 /\ "rotated" \in WrittenKind /\ 0 \in 0..lines
      BY <1>10, <2>1, ProcType, Numbers DEF Mark, Goto, WrittenKind
    <2>3. /\ Links' /\ (fd[p] \in marred \/ (file'[fd[p]] # <<>> /\ file'[fd[p]][Len(file'[fd[p]])].id = own'[p]
                                               /\ file'[fd[p]][Len(file'[fd[p]])].kind = "rotated"))
      BY <2>1, <2>2, LinksWrite DEF LinkInv
    <2>4. LinkOK(p)'
      BY <2>1, <2>3 DEF LinkOK, Closed
    <2> QED BY <2>3, <2>4 DEF Single, LinkInv
  <1>11. ASSUME NEW p \in Proc, MarkSynced(p) PROVE LinkInv'
    <2>1. /\ pc[p] = "marksync" /\ pc'[p] = "shift" /\ fd'[p] = 0 /\ at'[p] = Retain /\ link'[p] = own[p]
          /\ UNCHANGED <<file, dir, own, marred>>
      BY <1>0, <1>11, Numbers DEF MarkSynced, Advance, LinkTo, ShiftFrom, Goto, fileVars
    <2>2. Links'
      BY <2>1 DEF LinkInv, Links, Linked
    <2>3. LinkOK(p)'
      BY <2>1, Numbers, ProcType DEF LinkInv, LinkOK, Sealed, DirInv, DirOK
    <2> QED BY <2>2, <2>3 DEF Single, LinkInv
  <1>12. ASSUME NEW p \in Proc, RemoveOldest(p) PROVE LinkInv'
    <2>1. /\ pc[p] = "shift" /\ at[p] = Retain
          /\ \A g \in 0..Retain : dir'[g] = IF g = Retain THEN 0 ELSE dir[g]
          /\ at'[p] = Retain - 1 /\ UNCHANGED <<file, pc, fd, own, link, marred>>
      BY <1>0, <1>12, Numbers DEF RemoveOldest
    <2>2. \A i, j : Linked(i, j) => Linked(i, j)'
      BY <2>1, LinkedSame
    <2>3. Links'
      BY <2>1, <2>2, Numbers DEF LinkInv, Links, LinkOK, DirInv, DirOK
    <2>4. LinkOK(p)'
      BY <2>1, <2>2, Numbers DEF LinkInv, Links, LinkOK, Sealed, DirInv, DirOK
    <2> QED BY <2>3, <2>4 DEF Single, LinkInv
  <1>13. ASSUME NEW p \in Proc, Shift(p) PROVE LinkInv'
    <2>1. /\ pc[p] = "shift" /\ at[p] # 0 /\ at[p] < Retain
          /\ \A g \in 0..Retain : dir'[g] = IF dir[at[p]] # 0 /\ g = at[p] + 1 THEN dir[at[p]] ELSE IF g = at[p] THEN 0 ELSE dir[g]
          /\ at'[p] = at[p] - 1 /\ UNCHANGED <<file, pc, fd, own, link, marred>>
      BY <1>0, <1>13, Numbers, ShiftEffect DEF Shift
    <2>2. \A i, j : Linked(i, j) => Linked(i, j)'
      BY <2>1, LinkedSame
    <2>3. at[p] \in Nat /\ at[p] \in 0..Retain /\ at[p] + 1 \in 0..Retain /\ at[p] # at[p] + 1 /\ dir[at[p] + 1] = 0
      BY <2>1, Numbers, SMTT(30) DEF DirInv, DirOK
    <2>3a. /\ dir'[at[p]] = 0 /\ dir'[at[p] + 1] = dir[at[p]]
          /\ \A h \in 0..Retain : h # at[p] /\ h # at[p] + 1 => dir'[h] = dir[h]
      BY <2>1, <2>3
    <2>4. ASSUME NEW g \in 0..Retain - 1, dir'[g] # 0, dir'[g + 1] # 0 PROVE Linked(dir[g], dir[g + 1])'
      <3>1. g # at[p] /\ g + 1 # at[p] /\ g \in 0..Retain /\ g + 1 \in 0..Retain
        <4>1. g \in 0..Retain /\ g + 1 \in 0..Retain
          BY Numbers
        <4> QED BY <2>4, <2>3a, <4>1
      <3>2. CASE g = at[p] + 1
        <4>1. dir[at[p]] # 0 /\ dir'[g] = dir[at[p]] /\ dir'[g + 1] = dir[at[p] + 2] /\ at[p] + 2 <= Retain
          <5>1. g + 1 = at[p] + 2 /\ g + 1 # at[p] /\ g + 1 # at[p] + 1
            BY <2>3, <3>2
          <5>2. at[p] + 2 <= Retain
            BY <3>1, <5>1
          <5> QED BY <2>4, <2>3a, <3>1, <3>2, <5>1, <5>2
        <4>2. Linked(dir[at[p]], dir[at[p] + 2])
          BY <2>1, <2>4, <4>1 DEF LinkInv, LinkOK
        <4> QED BY <2>2, <4>1, <4>2
      <3>3. CASE g # at[p] + 1
        <4>1. dir'[g] = dir[g] /\ dir'[g + 1] = dir[g + 1]
          <5>1. g + 1 # at[p] + 1
            BY <2>3, <3>1
          <5> QED BY <2>3a, <3>1, <3>3, <5>1
        <4>2. Linked(dir[g], dir[g + 1])
          BY <2>4, <4>1 DEF LinkInv, Links
        <4> QED BY <2>2, <4>1, <4>2
      <3> QED BY <3>2, <3>3
    <2>5. Links'
      BY <2>4 DEF Links
    <2>6. dir'[0] = dir[0]
      BY <2>1, <2>3, Numbers
    <2>7. ASSUME dir'[at'[p]] # 0, dir'[at'[p] + 2] # 0 PROVE Linked(dir[at[p]], dir[at[p] + 2])'
      <3>1. at'[p] = at[p] - 1 /\ at'[p] + 2 = at[p] + 1 /\ at[p] - 1 \in 0..Retain - 1 /\ at[p] - 1 \in 0..Retain
        BY <2>1, <2>3, Numbers, SMTT(30)
      <3>2. dir'[at'[p]] = dir[at[p] - 1] /\ dir'[at'[p] + 2] = dir[at[p]] /\ dir[at[p]] # 0
        <4>1. at[p] - 1 # at[p] /\ at[p] - 1 # at[p] + 1
          BY <2>3
        <4> QED BY <2>7, <2>3a, <3>1, <4>1
      <3>3. (at[p] - 1) + 1 = at[p]
        BY <2>3
      <3>4. Linked(dir[at[p] - 1], dir[at[p]])
        BY <2>7, <3>1, <3>2, <3>3 DEF LinkInv, Links
      <3> QED BY <2>2, <3>2, <3>4
    <2>8. LinkOK(p)'
      BY <2>1, <2>6, <2>7 DEF LinkInv, LinkOK, Sealed
    <2> QED BY <2>5, <2>8 DEF Single, LinkInv
  <1>14. ASSUME NEW p \in Proc, RenameLog(p) PROVE LinkInv'
    <2>1. /\ pc[p] = "shift" /\ at[p] = 0 /\ dir[0] # 0
          /\ \A g \in 0..Retain : dir'[g] = IF g = 1 THEN dir[0] ELSE IF g = 0 THEN 0 ELSE dir[g]
          /\ pc'[p] = "open" /\ UNCHANGED <<file, fd, own, at, link, marred>>
      BY <1>0, <1>14, Numbers DEF RenameLog, Newest, Goto
    <2>2. \A i, j : Linked(i, j) => Linked(i, j)'
      BY <2>1, LinkedSame
    <2>3. ASSUME NEW g \in 0..Retain - 1, dir'[g] # 0, dir'[g + 1] # 0 PROVE Linked(dir[g], dir[g + 1])'
      <3>1. g # 0 /\ g \in 0..Retain /\ g + 1 \in 0..Retain
        BY <2>1, <2>3, Numbers
      <3>2. CASE g = 1
        <4>1. dir'[1] = dir[0] /\ dir'[2] = dir[2] /\ 2 <= Retain
          BY <2>1, <3>1, <3>2, Numbers
        <4>2. Linked(dir[0], dir[2])
          BY <2>1, <2>3, <3>2, <4>1 DEF LinkInv, LinkOK
        <4> QED BY <2>2, <3>2, <4>1, <4>2
      <3>3. CASE g # 1
        <4>1. dir'[g] = dir[g] /\ dir'[g + 1] = dir[g + 1]
          BY <2>1, <3>1, <3>3, Numbers
        <4>2. Linked(dir[g], dir[g + 1])
          BY <2>3, <4>1 DEF LinkInv, Links
        <4> QED BY <2>2, <4>1, <4>2
      <3> QED BY <3>2, <3>3
    <2>4. Links'
      BY <2>3 DEF Links
    <2>5. LinkOK(p)'
      BY <2>1, Numbers DEF LinkInv, LinkOK, Sealed
    <2> QED BY <2>4, <2>5 DEF Single, LinkInv
  <1>15. ASSUME NEW p \in Proc, RenameFails(p) PROVE LinkInv'
    <2>1. /\ pc[p] = "shift" /\ pc'[p] = "keep" /\ UNCHANGED <<file, dir, fd, own, at, link, marred>>
      BY <1>0, <1>15, Numbers DEF RenameFails, Goto, fileVars
    <2>2. Links'
      BY <2>1 DEF LinkInv, Links, Linked
    <2>3. LinkOK(p)'
      BY <2>1 DEF LinkInv, LinkOK, Sealed
    <2> QED BY <2>2, <2>3 DEF Single, LinkInv
  <1>16. ASSUME NEW p \in Proc, OpenNew(p) PROVE LinkInv'
    <2>1. /\ pc[p] = "open" /\ pc'[p] = "cont" /\ UNCHANGED <<file, own, at, link, marred>>
      BY <1>0, <1>16, Numbers DEF OpenNew, StartChain, Goto
    <2>2. /\ fd'[p] = dir'[0] /\ dir'[0] # 0 /\ \A g \in 0..Retain : g # 0 => dir'[g] = dir[g]
          /\ dir[0] # 0 => dir' = dir
          /\ file'[dir'[0]] = LogLines
      BY <1>16, <2>1, OpenFileEffect, OpenFileLines DEF OpenNew, StartChain, Goto
    <2>3. Links'
      <3>1. CASE dir[0] # 0
        BY <2>1, <2>2, <3>1 DEF LinkInv, Links, Linked
      <3>2. CASE dir[0] = 0
        <4>1. file'[dir'[0]] = <<>>
          BY <2>2, <3>2 DEF LogLines
        <4>2. ASSUME NEW g \in 0..Retain - 1, dir'[g] # 0, dir'[g + 1] # 0 PROVE Linked(dir[g], dir[g + 1])'
          <5>1. CASE g = 0
            BY <4>1, <5>1 DEF Linked, Continued
          <5>2. CASE g # 0
            <6>1. dir'[g] = dir[g] /\ dir'[g + 1] = dir[g + 1]
              BY <2>2, <5>2, Numbers
            <6> QED BY <2>1, <4>2, <6>1 DEF LinkInv, Links, Linked
          <5> QED BY <5>1, <5>2
        <4> QED BY <4>2 DEF Links
      <3> QED BY <3>1, <3>2
    <2>4. LinkOK(p)'
      BY <2>1, <2>2, Numbers DEF LinkInv, LinkOK, Sealed, DirInv, DirOK, LogLines
    <2> QED BY <2>3, <2>4 DEF Single, LinkInv
  <1>17. ASSUME NEW p \in Proc, OpenNewFails(p) PROVE LinkInv'
    <2>1. /\ pc[p] = "open" /\ dir[1] # 0
          /\ \A g \in 0..Retain : dir'[g] = IF g = 0 THEN dir[1] ELSE IF g = 1 THEN 0 ELSE dir[g]
          /\ pc'[p] = "keep" /\ UNCHANGED <<file, fd, own, at, link, marred>>
      BY <1>0, <1>17, Numbers DEF OpenNewFails, Restore, Newest, Goto
    <2>2. \A i, j : Linked(i, j) => Linked(i, j)'
      BY <2>1, LinkedSame
    <2>3. Links'
      BY <2>1, <2>2, Numbers DEF LinkInv, Links, LinkOK, DirInv, DirOK
    <2>4. LinkOK(p)'
      BY <2>1, <2>2, Numbers DEF LinkInv, Links, LinkOK, Sealed, DirInv, DirOK
    <2> QED BY <2>3, <2>4 DEF Single, LinkInv
  <1>18. ASSUME NEW p \in Proc, RestoreFails(p) PROVE LinkInv'
    <2>1. /\ pc[p] = "open" /\ pc'[p] = "idle" /\ at'[p] = 0 /\ link'[p] = 0
          /\ UNCHANGED <<file, dir, fd, own, marred>>
      BY <1>0, <1>18, Numbers DEF RestoreFails, RotateFailed, Return, Goto, fileVars
    <2>2. Links'
      BY <2>1 DEF LinkInv, Links, Linked
    <2>3. LinkOK(p)'
      BY <2>1 DEF LinkInv, LinkOK, Sealed
    <2> QED BY <2>2, <2>3 DEF Single, LinkInv
  <1>19. ASSUME NEW p \in Proc, KeepCurrent(p) PROVE LinkInv'
    <2>1. /\ pc[p] = "keep" /\ pc'[p] = "idle" /\ at'[p] = 0 /\ link'[p] = 0
          /\ UNCHANGED <<file, own, marred>>
      BY <1>0, <1>19, Numbers DEF KeepCurrent, RotateFailed, Return, Goto
    <2>2. /\ fd'[p] = dir'[0] /\ dir'[0] # 0 /\ \A g \in 0..Retain : g # 0 => dir'[g] = dir[g]
          /\ dir[0] # 0 => dir' = dir
          /\ file'[dir'[0]] = LogLines
      BY <1>19, <2>1, OpenFileEffect, OpenFileLines DEF KeepCurrent, RotateFailed, Return, Goto
    <2>3. Links'
      <3>1. CASE dir[0] # 0
        BY <2>1, <2>2, <3>1 DEF LinkInv, Links, Linked
      <3>2. CASE dir[0] = 0
        <4>1. file'[dir'[0]] = <<>>
          BY <2>2, <3>2 DEF LogLines
        <4>2. ASSUME NEW g \in 0..Retain - 1, dir'[g] # 0, dir'[g + 1] # 0 PROVE Linked(dir[g], dir[g + 1])'
          <5>1. CASE g = 0
            BY <4>1, <5>1 DEF Linked, Continued
          <5>2. CASE g # 0
            <6>1. dir'[g] = dir[g] /\ dir'[g + 1] = dir[g + 1]
              BY <2>2, <5>2, Numbers
            <6> QED BY <2>1, <4>2, <6>1 DEF LinkInv, Links, Linked
          <5> QED BY <5>1, <5>2
        <4> QED BY <4>2 DEF Links
      <3> QED BY <3>1, <3>2
    <2>4. LinkOK(p)'
      BY <2>1, <2>2, Numbers DEF LinkInv, LinkOK, Sealed, DirInv, DirOK, LogLines
    <2> QED BY <2>3, <2>4 DEF Single, LinkInv
  <1>20. ASSUME NEW p \in Proc, KeepCurrentFails(p) PROVE LinkInv'
    <2>1. /\ pc[p] = "keep" /\ pc'[p] = "idle" /\ at'[p] = 0 /\ link'[p] = 0
          /\ UNCHANGED <<file, dir, fd, own, marred>>
      BY <1>0, <1>20, Numbers DEF KeepCurrentFails, RotateFailed, Return, Goto, fileVars
    <2>2. Links'
      BY <2>1 DEF LinkInv, Links, Linked
    <2>3. LinkOK(p)'
      BY <2>1 DEF LinkInv, LinkOK, Sealed
    <2> QED BY <2>2, <2>3 DEF Single, LinkInv
  <1>21. ASSUME NEW p \in Proc, Continue(p) PROVE LinkInv'
    <2>1. /\ pc[p] = "cont" /\ pc'[p] = "contsync" /\ UNCHANGED <<fd, at, link, marred>>
      BY <1>0, <1>21, Numbers DEF Continue, Goto
    <2>2. WriteLine(p, "continued", link[p]) /\ fd[p] # 0 /\ "continued" \in WrittenKind /\ link[p] \in 0..lines
      BY <1>21, <2>1, ProcType, Numbers DEF Continue, Goto, WrittenKind
    <2>3. file[fd[p]] = <<>> /\ (dir[1] # 0 => dir[1] \in marred \/ Closed(file[dir[1]], link[p]))
      BY <2>1 DEF LinkInv, LinkOK, Sealed
    <2>4. /\ Links' /\ (fd[p] \in marred \/ (file'[fd[p]] # <<>> /\ file'[fd[p]][Len(file'[fd[p]])].id = own'[p]
                                               /\ file'[fd[p]][Len(file'[fd[p]])].kind = "continued"))
      BY <2>1, <2>2, <2>3, LinksWrite DEF LinkInv
    <2>5. LinkOK(p)'
      BY <2>1, <2>4 DEF LinkOK, Closed
    <2> QED BY <2>4, <2>5 DEF Single, LinkInv
  <1>22. ASSUME NEW p \in Proc, ContinueSynced(p) PROVE LinkInv'
    <2>1. /\ pc[p] = "contsync" /\ pc'[p] = "idle" /\ at'[p] = 0 /\ link'[p] = 0
          /\ UNCHANGED <<file, dir, fd, own, marred>>
      BY <1>0, <1>22, Numbers DEF ContinueSynced, Advance, Return, Goto, fileVars
    <2>2. Links'
      BY <2>1 DEF LinkInv, Links, Linked
    <2>3. LinkOK(p)'
      BY <2>1 DEF LinkInv, LinkOK, Sealed
    <2> QED BY <2>2, <2>3 DEF Single, LinkInv
  <1>23. ASSUME NEW p \in Proc, SentinelShortWrite(p) PROVE LinkInv'
    <2>1. /\ pc[p] \in {"mark", "cont"} /\ pc'[p] = "idle" /\ at'[p] = 0 /\ link'[p] = 0
          /\ UNCHANGED <<fd, own>>
      BY <1>0, <1>23, Numbers DEF SentinelShortWrite, RotateFailed, Return, Goto
    <2>2. /\ \A j \in Inode : j # fd[p] => file'[j] = file[j]
          /\ dir' = dir /\ marred' = marred \cup {fd[p]}
      BY <1>23, <2>1, ShortEffect, ProcType DEF SentinelShortWrite, RotateFailed, Return, Goto
    <2>3. Links'
      <3>1. ASSUME NEW g \in 0..Retain, dir[g] # 0 PROVE dir[g] \in marred' \/ file'[dir[g]] = file[dir[g]]
        BY <2>2, <3>1, FileType, Numbers
      <3>2. \A g \in 0..Retain - 1 : g \in 0..Retain /\ g + 1 \in 0..Retain
        BY Numbers
      <3> QED BY <2>2, <3>1, <3>2 DEF LinkInv, Links, Linked
    <2>4. LinkOK(p)'
      BY <2>1, <2>2 DEF LinkOK
    <2> QED BY <2>3, <2>4 DEF Single, LinkInv
  <1>24. ASSUME NEW p \in Proc, SentinelSyncFails(p) PROVE LinkInv'
    <2>1. /\ pc[p] \in {"marksync", "contsync"} /\ pc'[p] = "idle" /\ at'[p] = 0 /\ link'[p] = 0
          /\ marred' = marred \cup {fd[p]} /\ UNCHANGED <<file, dir, fd, own>>
      BY <1>0, <1>24, Numbers DEF SentinelSyncFails, Mar, RotateFailed, Return, Goto, fileVars
    <2>2. Links'
      BY <2>1 DEF LinkInv, Links, Linked
    <2>3. LinkOK(p)'
      BY <2>1 DEF LinkInv, LinkOK, Sealed
    <2> QED BY <2>2, <2>3 DEF Single, LinkInv
  <1>25. ASSUME NEW p \in Proc, PruneCopy(p) PROVE LinkInv'
    <2>1. /\ pc[p] = "idle" /\ fd[p] # 0 /\ pc'[p] = "swap" /\ marred' = marred \cup {files + 1}
          /\ UNCHANGED <<dir, fd, own, at, link>>
      BY <1>0, <1>25, Numbers DEF PruneCopy, Mar, Goto
    <2>2. \A j \in Inode : j # files + 1 => file'[j] = file[j]
      BY <1>25, FileType DEF PruneCopy, Mar, Goto
    <2>3. \A g \in 0..Retain : dir[g] # 0 => file'[dir[g]] = file[dir[g]]
      BY <2>2, FileType, Numbers
    <2>4. \A g \in 0..Retain - 1 : g \in 0..Retain /\ g + 1 \in 0..Retain
      BY Numbers
    <2>5. Links'
      BY <2>1, <2>3, <2>4 DEF LinkInv, Links, Linked
    <2>6. LinkOK(p)'
      BY <2>1 DEF LinkOK
    <2> QED BY <2>5, <2>6 DEF Single, LinkInv
  <1>26. ASSUME NEW p \in Proc, PruneRename(p) PROVE LinkInv'
    <2>1. /\ pc[p] = "swap"
          /\ \A g \in 0..Retain : dir'[g] = IF g = 0 THEN tmp[p] ELSE dir[g]
          /\ pc'[p] = "reopen" /\ fd'[p] = 0 /\ UNCHANGED <<file, own, at, link, marred>>
      BY <1>0, <1>26, Numbers DEF PruneRename, Goto
    <2>2. tmp[p] \in marred
      BY <2>1 DEF DirInv, DirOK
    <2>3. ASSUME NEW g \in 0..Retain - 1, dir'[g] # 0, dir'[g + 1] # 0 PROVE Linked(dir[g], dir[g + 1])'
      <3>1. CASE g = 0
        BY <2>1, <2>2, <3>1, Numbers DEF Linked
      <3>2. CASE g # 0
        <4>1. dir'[g] = dir[g] /\ dir'[g + 1] = dir[g + 1]
          BY <2>1, <3>2, Numbers
        <4> QED BY <2>1, <2>3, <4>1 DEF LinkInv, Links, Linked
      <3> QED BY <3>1, <3>2
    <2>4. Links'
      BY <2>3 DEF Links
    <2>5. LinkOK(p)'
      BY <2>1 DEF LinkOK
    <2> QED BY <2>4, <2>5 DEF Single, LinkInv
  <1>27. ASSUME NEW p \in Proc, PruneReopen(p) PROVE LinkInv'
    <2>1. /\ pc[p] = "reopen" /\ pc'[p] = "idle" /\ UNCHANGED <<file, own, at, link, marred>>
      BY <1>0, <1>27, Numbers DEF PruneReopen, Goto
    <2>2. /\ fd'[p] = dir'[0] /\ dir'[0] # 0 /\ \A g \in 0..Retain : g # 0 => dir'[g] = dir[g]
          /\ dir[0] # 0 => dir' = dir
          /\ file'[dir'[0]] = LogLines
      BY <1>27, <2>1, OpenFileEffect, OpenFileLines DEF PruneReopen, Goto
    <2>3. Links'
      <3>1. CASE dir[0] # 0
        BY <2>1, <2>2, <3>1 DEF LinkInv, Links, Linked
      <3>2. CASE dir[0] = 0
        <4>1. file'[dir'[0]] = <<>>
          BY <2>2, <3>2 DEF LogLines
        <4>2. ASSUME NEW g \in 0..Retain - 1, dir'[g] # 0, dir'[g + 1] # 0 PROVE Linked(dir[g], dir[g + 1])'
          <5>1. CASE g = 0
            BY <4>1, <5>1 DEF Linked, Continued
          <5>2. CASE g # 0
            <6>1. dir'[g] = dir[g] /\ dir'[g + 1] = dir[g + 1]
              BY <2>2, <5>2, Numbers
            <6> QED BY <2>1, <4>2, <6>1 DEF LinkInv, Links, Linked
          <5> QED BY <5>1, <5>2
        <4> QED BY <4>2 DEF Links
      <3> QED BY <3>1, <3>2
    <2>4. LinkOK(p)'
      BY <2>1, <2>2, Numbers DEF LinkInv, LinkOK, Sealed, DirInv, DirOK, LogLines
    <2> QED BY <2>3, <2>4 DEF Single, LinkInv
  <1>28. ASSUME NEW p \in Proc, PruneRenameFails(p) PROVE LinkInv'
    <2>1. /\ pc[p] = "swap" /\ pc'[p] = "idle" /\ UNCHANGED <<file, own, at, link, marred>>
      BY <1>0, <1>28, Numbers DEF PruneRenameFails, Goto
    <2>2. /\ fd'[p] = dir'[0] /\ dir'[0] # 0 /\ \A g \in 0..Retain : g # 0 => dir'[g] = dir[g]
          /\ dir[0] # 0 => dir' = dir
          /\ file'[dir'[0]] = LogLines
      BY <1>28, <2>1, OpenFileEffect, OpenFileLines DEF PruneRenameFails, Goto
    <2>3. Links'
      <3>1. CASE dir[0] # 0
        BY <2>1, <2>2, <3>1 DEF LinkInv, Links, Linked
      <3>2. CASE dir[0] = 0
        <4>1. file'[dir'[0]] = <<>>
          BY <2>2, <3>2 DEF LogLines
        <4>2. ASSUME NEW g \in 0..Retain - 1, dir'[g] # 0, dir'[g + 1] # 0 PROVE Linked(dir[g], dir[g + 1])'
          <5>1. CASE g = 0
            BY <4>1, <5>1 DEF Linked, Continued
          <5>2. CASE g # 0
            <6>1. dir'[g] = dir[g] /\ dir'[g + 1] = dir[g + 1]
              BY <2>2, <5>2, Numbers
            <6> QED BY <2>1, <4>2, <6>1 DEF LinkInv, Links, Linked
          <5> QED BY <5>1, <5>2
        <4> QED BY <4>2 DEF Links
      <3> QED BY <3>1, <3>2
    <2>4. LinkOK(p)'
      BY <2>1, <2>2, Numbers DEF LinkInv, LinkOK, Sealed, DirInv, DirOK, LogLines
    <2> QED BY <2>3, <2>4 DEF Single, LinkInv
  <1>29. ASSUME NEW p \in Proc, PruneReopenFails(p) PROVE LinkInv'
    <2>1. /\ pc[p] = "reopen" /\ pc'[p] = "broken" /\ UNCHANGED <<file, dir, fd, own, at, link, marred>>
      BY <1>0, <1>29, Numbers DEF PruneReopenFails, Goto, fileVars
    <2>2. Links'
      BY <2>1 DEF LinkInv, Links, Linked
    <2>3. LinkOK(p)'
      BY <2>1 DEF LinkInv, LinkOK, Sealed
    <2> QED BY <2>2, <2>3 DEF Single, LinkInv
  <1>30. ASSUME NEW g \in 1..Retain, Sweep(g) PROVE LinkInv'
    <2>1. /\ \A h \in 0..Retain : dir'[h] = IF h >= g THEN 0 ELSE dir[h]
          /\ UNCHANGED <<file, pc, fd, own, link, at, marred>>
      BY <1>0, <1>30 DEF Sweep, procVars
    <2>2. \A h \in 0..Retain : dir'[h] \in {dir[h], 0}
      BY <2>1
    <2>3. dir'[0] = dir[0]
      BY <2>1, Numbers
    <2>4. Links'
      <3>1. \A h \in 0..Retain - 1 : h \in 0..Retain /\ h + 1 \in 0..Retain
        BY Numbers
      <3> QED BY <2>1, <2>2, <3>1 DEF LinkInv, Links, Linked
    <2>5. ASSUME NEW p \in Proc PROVE LinkOK(p)'
      <3>1. at[p] + 2 <= Retain => at[p] \in 0..Retain /\ at[p] + 2 \in 0..Retain
        BY Numbers
      <3> QED BY <2>1, <2>2, <2>3, <3>1, Numbers DEF LinkInv, LinkOK, Sealed, Linked
    <2> QED BY <2>4, <2>5 DEF LinkInv
  <1>31. CASE UNCHANGED vars
    BY <1>31 DEF LinkInv, Links, LinkOK, Linked, Sealed, vars, fileVars, procVars
  <1> QED
    BY <1>1, <1>2, <1>3, <1>4, <1>5, <1>6, <1>7, <1>8, <1>9, <1>10, <1>11, <1>12, <1>13, <1>14, <1>15, <1>16, <1>17, <1>18, <1>19, <1>20, <1>21, <1>22, <1>23, <1>24, <1>25, <1>26, <1>27, <1>28, <1>29, <1>30, <1>31 DEF Next

-----------------------------------------------------------------------------
\* Theorems about one process

SingleInv == Typed /\ DirInv /\ ChainInv /\ StateInv /\ DiskInv /\ TornInv /\ LinkInv

\* The inductive invariant of a log with one process.
LEMMA SingleInvHolds == ASSUME Single PROVE Spec => []SingleInv
  <1>1. Init => SingleInv
    BY InitType, InitDir, InitChain, InitDisk, InitLink DEF SingleInv
  <1>2. ASSUME SingleInv, [Next]_vars PROVE SingleInv'
    <2>1. Typed /\ DirInv /\ ChainInv /\ StateInv /\ DiskInv /\ TornInv /\ LinkInv
      BY <1>2 DEF SingleInv
    <2>2. Typed'
      BY <1>2, <2>1, NextType
    <2>3. DirInv'
      BY <1>2, <2>1, NextDir
    <2>4. ChainInv' /\ StateInv'
      BY <1>2, <2>1, NextChain
    <2>5. DiskInv' /\ TornInv'
      BY <1>2, <2>1, NextDisk
    <2>6. LinkInv'
      BY <1>2, <2>1, NextLink
    <2> QED BY <2>2, <2>3, <2>4, <2>5, <2>6 DEF SingleInv
  <1> QED BY <1>1, <1>2, PTL DEF Spec

\* With one process: an event for which Log returned nil is on disk until retention
\* removes it, whatever write, fsync, rename or open failed and wherever the
\* process died.
THEOREM AuditLogAcked == ASSUME Single PROVE Spec => []AckedOnDisk
  <1>1. Spec => []SingleInv
    BY SingleInvHolds
  <1>2. SingleInv => AckedOnDisk
    BY DiskInvAcked DEF SingleInv
  <1> QED BY <1>1, <1>2, PTL

\* With one process: every file that no fault has marred verifies, and the links
\* between the files of a rotation hold, at any moment of any rotation or sweep.
THEOREM AuditLogChain == ASSUME Single PROVE Spec => []ChainHolds
  <1>1. Spec => []SingleInv
    BY SingleInvHolds
  <1>2. SingleInv => ChainHolds
    <2> SUFFICES ASSUME SingleInv PROVE ChainHolds
      OBVIOUS
    <2>1. TypeOK
      BY DEF SingleInv, Typed
    <2>2. LinksHold
      BY LinksAll DEF SingleInv, LinkInv
    <2>3. ASSUME NEW i \in Present PROVE i \in Inode
      <3>1. PICK g \in 0..Retain : i = dir[g] /\ i # 0
        BY DEF Present
      <3> QED BY <3>1, FileType, Numbers DEF SingleInv
    <2>4. ChainVerifies
      BY <2>3 DEF SingleInv, ChainInv, ChainVerifies
    <2> QED BY <2>1, <2>2, <2>4 DEF ChainHolds
  <1> QED BY <1>1, <1>2, PTL

=============================================================================
