-------------------------- MODULE InterfaceProofs --------------------------
(***************************************************************************)
(* Proofs about the program's edges: the MCP server, the buffers between    *)
(* what publishes events and what reads them, the guard it installs in an   *)
(* agent's settings, the doctor that examines the machine, and the          *)
(* connections to providers, for every number of connections, calls,        *)
(* senders, subscribers, buffer sizes, commands, faults and templates.      *)
(***************************************************************************)
EXTENDS McpServer, EventBuffers, GuardInstall, Doctor, Connections, FiniteSetTheorems, WellFoundedInduction, TLAPS

-----------------------------------------------------------------------------
\* Sets of numbers

\* A nonempty set of natural numbers has a least element.
LEMMA LeastNatural ==
    ASSUME NEW T \in SUBSET Nat, T # {}
    PROVE  \E n \in T : \A m \in T : n <= m
  <1> DEFINE R == {ss \in Nat \X Nat : ss[1] < ss[2]}
  <1>1. OpToRel(<, Nat) = R
    BY Zenon DEF OpToRel
  <1>2. IsWellFoundedOn(R, Nat)
    BY <1>1, NatLessThanWellFounded, Zenon
  <1>3. PICK n \in T : \A m \in T : ~(<<m, n>> \in R)
    BY <1>2, WFMin, Zenon
  <1>4. ASSUME NEW m \in T PROVE n <= m
    <2>1. <<m, n>> \in Nat \X Nat /\ <<m, n>>[1] = m /\ <<m, n>>[2] = n
      OBVIOUS
    <2>2. ~(m < n)
      BY <1>3, <2>1, Zenon
    <2> QED BY <2>2
  <1> QED BY <1>4

\* A nonempty set of positions of a sequence has a last one.
LEMMA LastPosition ==
    ASSUME NEW k \in Nat, NEW T \in SUBSET (1 .. k), T # {}
    PROVE  \E n \in T : \A m \in T : n >= m
  <1> DEFINE U == {k - m : m \in T}
  <1>0. \A m \in T : k - m \in Nat
    OBVIOUS
  <1>1. U \in SUBSET Nat /\ U # {}
    BY <1>0
  <1>2. PICK u \in U : \A v \in U : u <= v
    BY <1>1, LeastNatural
  <1>3. PICK n \in T : u = k - n
    BY <1>2
  <1>4. ASSUME NEW m \in T PROVE n >= m
    <2>1. k - n <= k - m
      BY <1>2, <1>3
    <2> QED BY <2>1
  <1> QED BY <1>4

-----------------------------------------------------------------------------
\* Words of a command line

\* A line without outer spaces.
Trimmed(L) == L \in Seq(Letters) /\ Len(L) > 0 /\ L[1] # Space /\ L[Len(L)] # Space

\* TrimSpace leaves such a line or nothing.
LEMMA TrimLeavesNone ==
    ASSUME NEW raw \in Seq(Letters)
    PROVE  TrimSpace(raw) = <<>> \/ Trimmed(TrimSpace(raw))
  <1> DEFINE at == {i \in 1 .. Len(raw) : raw[i] # Space}
             a == CHOOSE i \in at : \A j \in at : i <= j
             b == CHOOSE i \in at : \A j \in at : i >= j
  <1>1. CASE at = {}
    BY <1>1 DEF TrimSpace
  <1>2. CASE at # {}
    <2>1. at \in SUBSET Nat /\ at \in SUBSET (1 .. Len(raw)) /\ Len(raw) \in Nat
      OBVIOUS
    <2>2. a \in at /\ \A j \in at : a <= j
      <3>1. \E i \in at : \A j \in at : i <= j
        BY <1>2, <2>1, LeastNatural
      <3> HIDE DEF at
      <3> QED BY <3>1
    <2>3. b \in at /\ \A j \in at : b >= j
      <3>1. \E i \in at : \A j \in at : i >= j
        BY <1>2, <2>1, LastPosition
      <3> HIDE DEF at
      <3> QED BY <3>1
    <2>4. TrimSpace(raw) = SubSeq(raw, a, b)
      BY <1>2 DEF TrimSpace
    <2>5. a \in 1 .. Len(raw) /\ b \in 1 .. Len(raw) /\ a <= b /\ raw[a] # Space /\ raw[b] # Space
      BY <2>2, <2>3
    <2> HIDE DEF a, b
    <2>6. SubSeq(raw, a, b) \in Seq(Letters) /\ Len(SubSeq(raw, a, b)) = b - a + 1
      BY <2>5
    <2>7. SubSeq(raw, a, b)[1] = raw[a] /\ SubSeq(raw, a, b)[b - a + 1] = raw[b]
      BY <2>5
    <2>8. b - a + 1 > 0
      BY <2>5
    <2> HIDE DEF at
    <2> QED BY <2>4, <2>5, <2>6, <2>7, <2>8 DEF Trimmed
  <1> QED BY <1>1, <1>2

\* A word reaches from its start to the space after it or the end of the line.
LEMMA WordEnds ==
    ASSUME NEW L \in Seq(Letters), NEW i \in WordStarts(L)
    PROVE  /\ i \in 1 .. Len(L) /\ WordEnd(L, i) \in i .. Len(L)
           /\ \A m \in i .. WordEnd(L, i) : L[m] # Space
           /\ WordEnd(L, i) = Len(L) \/ L[WordEnd(L, i) + 1] = Space
  <1>1. i \in 1 .. Len(L) /\ L[i] # Space /\ Len(L) \in Nat
    BY DEF WordStarts, WordStart
  <1> DEFINE Ends(j) == (\A m \in i .. j : L[m] # Space) /\ (j = Len(L) \/ L[j + 1] = Space)
             gaps == {m \in i .. Len(L) : L[m] = Space}
  <1>2. \E j \in i .. Len(L) : Ends(j)
    <2>1. CASE gaps = {}
      BY <1>1, <2>1
    <2>2. CASE gaps # {}
      <3>1. gaps \in SUBSET Nat
        BY <1>1
      <3>2. PICK k \in gaps : \A m \in gaps : k <= m
        BY <2>2, <3>1, LeastNatural
      <3>3. k \in i .. Len(L) /\ L[k] = Space /\ k # i
        BY <1>1, <3>2
      <3>4. k - 1 \in i .. Len(L) /\ (k - 1) + 1 = k
        BY <1>1, <3>3
      <3>5. ASSUME NEW m \in i .. k - 1 PROVE L[m] # Space
        <4>1. m \in i .. Len(L) /\ ~(k <= m)
          BY <1>1, <3>3
        <4> QED BY <3>2, <4>1
      <3> QED BY <3>3, <3>4, <3>5
    <2> QED BY <2>1, <2>2
  <1>3. WordEnd(L, i) = CHOOSE j \in i .. Len(L) : Ends(j)
    BY DEF WordEnd
  <1> DEFINE e == WordEnd(L, i)
  <1>4. e \in i .. Len(L) /\ Ends(e)
    <2> HIDE DEF Ends
    <2> QED BY <1>2, <1>3
  <1> QED BY <1>1, <1>4

\* After a word that is not the last comes the next, with nothing but spaces between
\* them.
LEMMA NextWord ==
    ASSUME NEW L, Trimmed(L), NEW i \in WordStarts(L), WordEnd(L, i) < Len(L)
    PROVE  \E s \in WordStarts(L) :
              /\ s > WordEnd(L, i) + 1 /\ \A m \in WordEnd(L, i) + 1 .. s - 1 : L[m] = Space
              /\ \A t \in WordStarts(L) : t <= i \/ t >= s
  <1> DEFINE e == WordEnd(L, i)
             later == {m \in e + 1 .. Len(L) : L[m] # Space}
  <1>1. L \in Seq(Letters) /\ Len(L) \in Nat /\ L[Len(L)] # Space
    BY DEF Trimmed
  <1>2. i \in 1 .. Len(L) /\ e \in i .. Len(L) /\ e < Len(L) /\ L[e + 1] = Space /\ \A m \in i .. e : L[m] # Space
    <2>1. i \in 1 .. Len(L) /\ e \in i .. Len(L) /\ (\A m \in i .. e : L[m] # Space) /\ (e = Len(L) \/ L[e + 1] = Space)
      BY <1>1, WordEnds
    <2> HIDE DEF e
    <2>2. e < Len(L)
      BY DEF e
    <2> QED BY <1>1, <2>1, <2>2
  <1> HIDE DEF e
  <1>3. later \in SUBSET Nat /\ Len(L) \in later
    BY <1>1, <1>2
  <1>4. PICK s \in later : \A m \in later : s <= m
    BY <1>3, LeastNatural
  <1>5. s \in e + 1 .. Len(L) /\ L[s] # Space /\ s > e + 1 /\ s - 1 \in e + 1 .. s - 1
    BY <1>2, <1>4
  <1>6. ASSUME NEW m \in e + 1 .. s - 1 PROVE L[m] = Space
    <2>1. m \in e + 1 .. Len(L) /\ ~(s <= m)
      BY <1>1, <1>2, <1>5
    <2> QED BY <1>4, <2>1
  <1>7. L[s - 1] = Space /\ s \in 1 .. Len(L)
    BY <1>2, <1>5, <1>6
  <1>8. s \in WordStarts(L)
    BY <1>5, <1>7 DEF WordStarts, WordStart
  <1>9. ASSUME NEW t \in WordStarts(L), ~(t <= i), ~(t >= s) PROVE FALSE
    <2>1. t \in 1 .. Len(L) /\ L[t] # Space /\ (t = 1 \/ L[t - 1] = Space)
      BY DEF WordStarts, WordStart
    <2>2. CASE t <= e
      <3>1. t - 1 \in i .. e /\ t # 1
        BY <1>2, <1>9, <2>1, <2>2
      <3> QED BY <1>2, <2>1, <3>1
    <2>3. CASE ~(t <= e)
      <3>1. t \in e + 1 .. s - 1
        BY <1>2, <1>5, <1>9, <2>1, <2>3
      <3> QED BY <1>6, <2>1, <3>1
    <2> QED BY <2>2, <2>3
  <1> QED BY <1>5, <1>6, <1>8, <1>9 DEF e

\* The words of a line are numbered in the order of their starts.
LEMMA Ranks ==
    ASSUME NEW L, Trimmed(L)
    PROVE  /\ 1 \in WordStarts(L) /\ Rank(L, 1) = 1 /\ Cardinality(WordStarts(L)) \in Nat \ {0}
           /\ \A i \in WordStarts(L) : /\ NthStart(L, Rank(L, i)) = i
                                       /\ Rank(L, i) \in 1 .. Cardinality(WordStarts(L))
  <1> DEFINE S == WordStarts(L)
             B(i) == {j \in S : j <= i}
  <1>1. L \in Seq(Letters) /\ Len(L) \in Nat \ {0} /\ L[1] # Space /\ 1 \in 1 .. Len(L)
    BY DEF Trimmed
  <1>2. S \in SUBSET (1 .. Len(L)) /\ 1 \in S
    BY <1>1 DEF WordStarts, WordStart
  <1>3. IsFiniteSet(S) /\ Cardinality(S) \in Nat
    <2>1. IsFiniteSet(1 .. Len(L))
      BY <1>1, FS_Interval
    <2> HIDE DEF S
    <2>2. IsFiniteSet(S)
      BY <1>2, <2>1, FS_Subset
    <2> QED BY <2>2, FS_CardinalityType
  <1> HIDE DEF S
  <1>4. ASSUME NEW i \in S PROVE IsFiniteSet(B(i)) /\ Cardinality(B(i)) \in Nat /\ Cardinality(B(i)) <= Cardinality(S)
    <2>1. B(i) \in SUBSET S
      OBVIOUS
    <2> HIDE DEF B
    <2>2. IsFiniteSet(B(i)) /\ Cardinality(B(i)) <= Cardinality(S)
      BY <1>3, <2>1, FS_Subset
    <2> QED BY <2>2, FS_CardinalityType
  <1>5. B(1) = {1}
    <2>1. \A j \in S : j <= 1 <=> j = 1
      BY <1>1, <1>2
    <2> QED BY <1>2, <2>1
  <1>6. Cardinality(B(1)) = 1
    BY <1>5, FS_Singleton
  <1>7. ASSUME NEW i \in S PROVE Cardinality(B(i)) >= 1
    <2>1. {1} \in SUBSET B(i)
      BY <1>2
    <2> HIDE DEF B
    <2>2. Cardinality({1}) <= Cardinality(B(i))
      BY <1>4, <2>1, FS_Subset
    <2> QED BY <1>4, <2>2, FS_Singleton
  <1>8. ASSUME NEW i \in S, NEW j \in S, i < j PROVE Cardinality(B(i)) # Cardinality(B(j))
    <2>0. \A t \in S : t \in Int
      BY <1>1, <1>2
    <2>1. B(i) \in SUBSET B(j) /\ j \in B(j) /\ j \notin B(i)
      BY <1>8, <2>0
    <2> HIDE DEF B
    <2>2. Cardinality(B(i)) = Cardinality(B(j)) => B(i) = B(j)
      BY <1>4, <2>1, FS_Subset
    <2> QED BY <2>1, <2>2
  <1>9. ASSUME NEW i \in S PROVE NthStart(L, Rank(L, i)) = i
    <2> DEFINE c == NthStart(L, Rank(L, i))
    <2>1. c \in S /\ Rank(L, c) = Rank(L, i)
      BY DEF NthStart, S
    <2>2. Cardinality(B(c)) = Cardinality(B(i))
      BY <2>1 DEF Rank, S
    <2> HIDE DEF B, c
    <2>3. ~(c < i) /\ ~(i < c)
      BY <1>8, <2>1, <2>2
    <2>4. c \in Nat /\ i \in Nat
      BY <1>1, <1>2, <2>1
    <2> QED BY <2>3, <2>4 DEF c
  <1>10. \A i \in S : Rank(L, i) = Cardinality(B(i))
    BY DEF Rank, S
  <1>11. ASSUME NEW i \in S PROVE Rank(L, i) \in 1 .. Cardinality(S)
    <2> HIDE DEF B
    <2> QED BY <1>3, <1>4, <1>7, <1>10
  <1>12. Cardinality(S) # 0
    <2> HIDE DEF B
    <2> QED BY <1>2, <1>3, <1>11
  <1> QED BY <1>2, <1>3, <1>6, <1>9, <1>10, <1>11, <1>12 DEF S

\* The number after a word's is the next word's, and there is one unless the word is the
\* last.
LEMMA NextRank ==
    ASSUME NEW L, Trimmed(L), NEW i \in WordStarts(L)
    PROVE  /\ WordEnd(L, i) = Len(L) => Rank(L, i) = Cardinality(WordStarts(L))
           /\ \A s \in WordStarts(L) : s > i /\ (\A t \in WordStarts(L) : t <= i \/ t >= s)
                 => Rank(L, s) = Rank(L, i) + 1
  <1> DEFINE S == WordStarts(L)
             B(j) == {t \in S : t <= j}
  <1>1. L \in Seq(Letters) /\ Len(L) \in Nat
    BY DEF Trimmed
  <1>2. S \in SUBSET (1 .. Len(L))
    BY DEF WordStarts
  <1>3. IsFiniteSet(B(i))
    <2>1. IsFiniteSet(1 .. Len(L)) /\ B(i) \in SUBSET (1 .. Len(L))
      BY <1>1, <1>2, FS_Interval
    <2> HIDE DEF B
    <2> QED BY <2>1, FS_Subset
  <1>4. ASSUME WordEnd(L, i) = Len(L) PROVE B(i) = S
    <2>1. \A m \in i .. Len(L) : L[m] # Space
      BY <1>1, <1>4, WordEnds
    <2>2. ASSUME NEW t \in S, ~(t <= i) PROVE FALSE
      <3>1. t \in 1 .. Len(L) /\ (t = 1 \/ L[t - 1] = Space)
        BY DEF WordStarts, WordStart
      <3>2. i \in 1 .. Len(L)
        BY <1>2
      <3>3. t - 1 \in i .. Len(L) /\ t # 1
        BY <1>1, <2>2, <3>1, <3>2
      <3> QED BY <2>1, <3>1, <3>3
    <2> QED BY <2>2
  <1>5. ASSUME NEW s \in S, s > i, \A t \in S : t <= i \/ t >= s PROVE Rank(L, s) = Rank(L, i) + 1
    <2>1. B(s) = B(i) \cup {s} /\ s \notin B(i)
      <3>1. ASSUME NEW t \in S PROVE (t <= s) <=> (t <= i \/ t = s)
        <4>1. t \in Int /\ s \in Int /\ i \in Int /\ (t <= i \/ t >= s)
          BY <1>1, <1>2, <1>5
        <4> QED BY <1>5, <4>1
      <3>2. ~(s <= i)
        BY <1>1, <1>2, <1>5
      <3> QED BY <3>1, <3>2
    <2>2. Rank(L, s) = Cardinality(B(s)) /\ Rank(L, i) = Cardinality(B(i))
      BY DEF Rank
    <2> HIDE DEF B, S
    <2>3. Cardinality(B(i) \cup {s}) = Cardinality(B(i)) + 1
      BY <1>3, <2>1, FS_AddElement
    <2> QED BY <2>1, <2>2, <2>3
  <1> QED BY <1>4, <1>5 DEF Rank

\* Join puts the words one after the other with a space between them.
LEMMA Joining ==
    ASSUME NEW words, Len(words) \in Nat
    PROVE  \E J : /\ JoinWords(words) = J[Len(words)]
                  /\ Len(words) > 0 => J[1] = words[1]
                  /\ \A n \in 2 .. Len(words) : J[n] = J[n - 1] \o <<Space>> \o words[n]
  <1> DEFINE Body(F, n) == IF n = 0 THEN <<>>
                           ELSE IF n = 1 THEN words[1]
                           ELSE F[n - 1] \o <<Space>> \o words[n]
             Is(F, k) == F = [n \in 0 .. k |-> Body(F, n)]
             G == CHOOSE F : Is(F, Len(words))
             Has(k) == \E F : Is(F, k)
             missing == {k \in 0 .. Len(words) : ~Has(k)}
  <1>1. JoinWords(words) = G[Len(words)]
    BY DEF JoinWords
  <1>2. Has(0)
    <2>1. Is([n \in 0 .. 0 |-> <<>>], 0)
      OBVIOUS
    <2> QED BY <2>1
  <1>3. ASSUME NEW k \in 0 .. Len(words) - 1, NEW F, Is(F, k) PROVE Has(k + 1)
    <2> DEFINE H == [n \in 0 .. k + 1 |-> IF n <= k THEN F[n] ELSE Body(F, n)]
    <2>1. ASSUME NEW n \in 0 .. k + 1 PROVE H[n] = Body(H, n)
      <3>1. n # 0 => H[n - 1] = F[n - 1]
        OBVIOUS
      <3>2. Body(H, n) = Body(F, n)
        BY <3>1
      <3>3. n \in 0 .. k => F[n] = Body(F, n)
        BY <1>3, Zenon
      <3> HIDE DEF Body
      <3> QED BY <3>2, <3>3
    <2>2. H = [n \in 0 .. k + 1 |-> Body(H, n)]
      BY <2>1
    <2>3. Is(H, k + 1)
      BY <2>2
    <2> QED BY <2>3
  <1>4. \A k \in 0 .. Len(words) - 1 : Has(k) => Has(k + 1)
    BY <1>3, Zenon
  <1> HIDE DEF Is, Has
  <1>5. missing = {}
    <2> SUFFICES ASSUME missing # {} PROVE FALSE
      OBVIOUS
    <2>1. missing \in SUBSET Nat
      OBVIOUS
    <2>2. PICK k \in missing : \A j \in missing : k <= j
      BY <2>1, LeastNatural
    <2>3. k \in 0 .. Len(words) /\ ~Has(k)
      OBVIOUS
    <2>4. k # 0
      BY <2>3, <1>2, Zenon
    <2>5. k - 1 \in 0 .. Len(words) - 1 /\ k - 1 \in 0 .. Len(words) /\ k - 1 \notin missing /\ (k - 1) + 1 = k
      BY <2>2, <2>3, <2>4
    <2>6. Has(k - 1)
      BY <2>5
    <2>7. Has((k - 1) + 1)
      BY <2>5, <2>6, <1>4, Zenon
    <2> QED BY <2>3, <2>5, <2>7, Zenon
  <1>6. Is(G, Len(words))
    <2>1. Len(words) \in 0 .. Len(words)
      OBVIOUS
    <2>2. Has(Len(words))
      BY <2>1, <1>5
    <2> QED BY <2>2, Zenon DEF Has
  <1> HIDE DEF G
  <1>7. \A n \in 0 .. Len(words) : G[n] = Body(G, n)
    BY <1>6 DEF Is
  <1>8. Len(words) > 0 => G[1] = words[1]
    BY <1>7
  <1>9. ASSUME NEW n \in 2 .. Len(words) PROVE G[n] = G[n - 1] \o <<Space>> \o words[n]
    <2>1. n \in 0 .. Len(words) /\ n # 0 /\ n # 1
      OBVIOUS
    <2>2. Body(G, n) = G[n - 1] \o <<Space>> \o words[n]
      BY <2>1
    <2> HIDE DEF Body
    <2>3. G[n] = Body(G, n)
      BY <1>7, <2>1
    <2> QED BY <2>2, <2>3
  <1> QED BY <1>1, <1>8, <1>9

\* What lies under a prefix: s agrees with it letter by letter.
LEMMA PrefixLetters ==
    ASSUME NEW S, NEW s \in Seq(S), NEW p \in Seq(S)
    PROVE  HasPrefix(s, p) <=> Len(p) <= Len(s) /\ \A m \in 1 .. Len(p) : s[m] = p[m]
  <1>1. Len(s) \in Nat /\ Len(p) \in Nat
    OBVIOUS
  <1>2. ASSUME Len(p) <= Len(s)
        PROVE  /\ SubSeq(s, 1, Len(p)) \in Seq(S) /\ Len(SubSeq(s, 1, Len(p))) = Len(p)
               /\ \A m \in 1 .. Len(p) : SubSeq(s, 1, Len(p))[m] = s[m]
    <2>1. \A i \in 1 .. Len(p) : i \in 1 .. Len(s)
      BY <1>1, <1>2
    <2>2. SubSeq(s, 1, Len(p)) \in Seq(S)
      BY <1>1, <2>1
    <2>3. Len(SubSeq(s, 1, Len(p))) = Len(p)
      BY <1>1, <2>1
    <2>4. \A m \in 1 .. Len(p) : SubSeq(s, 1, Len(p))[m] = s[m]
      BY <1>1, <2>1
    <2> QED BY <2>2, <2>3, <2>4
  <1>3. ASSUME NEW q \in Seq(S), Len(q) = Len(p), \A m \in 1 .. Len(p) : q[m] = p[m] PROVE q = p
    BY <1>3
  <1> DEFINE q == SubSeq(s, 1, Len(p))
  <1>4. ASSUME HasPrefix(s, p) PROVE Len(p) <= Len(s) /\ \A m \in 1 .. Len(p) : s[m] = p[m]
    BY <1>2, <1>4 DEF HasPrefix
  <1>5. ASSUME Len(p) <= Len(s), \A m \in 1 .. Len(p) : s[m] = p[m] PROVE HasPrefix(s, p)
    <2>1. q \in Seq(S) /\ Len(q) = Len(p) /\ \A m \in 1 .. Len(p) : q[m] = p[m]
      BY <1>2, <1>5
    <2> HIDE DEF q
    <2>2. q = p
      BY <1>3, <2>1
    <2> QED BY <1>5, <2>2 DEF HasPrefix, q
  <1> QED BY <1>4, <1>5

\* The letters of two pieces with one between them.
LEMMA Between ==
    ASSUME NEW S, NEW x \in Seq(S), NEW y \in Seq(S), NEW c \in S
    PROVE  /\ x \o <<c>> \o y \in Seq(S) /\ Len(x \o <<c>> \o y) = Len(x) + 1 + Len(y)
           /\ \A m \in 1 .. Len(x) : (x \o <<c>> \o y)[m] = x[m]
           /\ (x \o <<c>> \o y)[Len(x) + 1] = c
           /\ \A m \in 1 .. Len(y) : (x \o <<c>> \o y)[Len(x) + 1 + m] = y[m]
  <1> DEFINE u == x \o <<c>>
  <1>1. Len(x) \in Nat /\ Len(y) \in Nat /\ <<c>> \in Seq(S) /\ Len(<<c>>) = 1 /\ <<c>>[1] = c
    OBVIOUS
  <1>2. /\ u \in Seq(S) /\ Len(u) = Len(x) + 1 /\ u[Len(x) + 1] = c
        /\ \A m \in 1 .. Len(x) : u[m] = x[m]
    BY <1>1
  <1> HIDE DEF u
  <1>3. u \o y \in Seq(S) /\ Len(u \o y) = Len(u) + Len(y)
    BY <1>2
  <1>4. \A m \in 1 .. Len(u) : (u \o y)[m] = u[m]
    BY <1>2
  <1>5. \A m \in 1 .. Len(y) : (u \o y)[Len(u) + m] = y[m]
    BY <1>1, <1>2
  <1>6. \A m \in 1 .. Len(x) : (u \o y)[m] = x[m]
    BY <1>1, <1>2, <1>4
  <1>7. (u \o y)[Len(x) + 1] = c
    BY <1>1, <1>2, <1>4
  <1> QED BY <1>1, <1>2, <1>3, <1>5, <1>6, <1>7 DEF u

\* A trimmed line and the line its words make, with one space between them, have the
\* same prefixes of those that nowhere have two spaces in a row.
LEMMA WordsKeepPrefix ==
    ASSUME NEW L, Trimmed(L), NEW p \in Seq(Letters), HasPrefix(L, p),
           \A i \in 1 .. Len(p) - 1 : ~(p[i] = Space /\ p[i + 1] = Space)
    PROVE  HasPrefix(JoinWords(Fields(L)), p)
  <1> DEFINE S == WordStarts(L)
             K == Cardinality(S)
             W == Fields(L)
             n == Len(p)
             Chars == Letters \cup {Space}
             e(i) == WordEnd(L, i)
  <1>1. /\ L \in Seq(Letters) /\ Len(L) \in Nat \ {0} /\ L[1] # Space /\ L[Len(L)] # Space
        /\ n \in Nat /\ p \in Seq(Chars) /\ K \in Nat \ {0}
    BY Ranks DEF Trimmed
  <1>2. n <= Len(L) /\ \A m \in 1 .. n : L[m] = p[m]
    BY <1>1, PrefixLetters
  <1>3. ASSUME NEW i \in S
        PROVE  /\ i \in 1 .. Len(L) /\ e(i) \in i .. Len(L) /\ Rank(L, i) \in 1 .. K /\ W[Rank(L, i)] \in Seq(Chars)
               /\ Len(W[Rank(L, i)]) = e(i) - i + 1
               /\ \A m \in 1 .. e(i) - i + 1 : W[Rank(L, i)][m] = L[i + m - 1]
    <2>1. i \in 1 .. Len(L) /\ e(i) \in i .. Len(L)
      BY <1>1, WordEnds
    <2>2. Rank(L, i) \in 1 .. K /\ NthStart(L, Rank(L, i)) = i
      BY Ranks
    <2>3. W[Rank(L, i)] = SubSeq(L, i, e(i))
      BY <2>2 DEF Fields
    <2> HIDE DEF e, W, S, K
    <2>4. \A m \in i .. e(i) : m \in 1 .. Len(L)
      BY <1>1, <2>1
    <2>5. SubSeq(L, i, e(i)) \in Seq(Letters)
      BY <1>1, <2>1, <2>4
    <2>6. Len(SubSeq(L, i, e(i))) = e(i) - i + 1
      BY <1>1, <2>1, <2>4
    <2>7. \A m \in 1 .. e(i) - i + 1 : SubSeq(L, i, e(i))[m] = L[i + m - 1]
      BY <1>1, <2>1, <2>4
    <2>8. SubSeq(L, i, e(i)) \in Seq(Chars)
      BY <2>5
    <2> QED BY <2>1, <2>2, <2>3, <2>6, <2>7, <2>8
  <1>4. Len(W) = K
    <2> HIDE DEF K
    <2>1. W = [w \in 1 .. K |-> SubSeq(L, NthStart(L, w), WordEnd(L, NthStart(L, w)))]
      BY DEF Fields, K
    <2> HIDE DEF W
    <2> QED BY <1>1, <2>1
  <1>5. PICK J : /\ JoinWords(W) = J[K] /\ J[1] = W[1]
                 /\ \A w \in 2 .. K : J[w] = J[w - 1] \o <<Space>> \o W[w]
    <2> HIDE DEF W, K
    <2>1. Len(W) \in Nat /\ Len(W) > 0
      BY <1>1, <1>4
    <2>2. \E J : /\ JoinWords(W) = J[Len(W)] /\ (Len(W) > 0 => J[1] = W[1])
                 /\ \A w \in 2 .. Len(W) : J[w] = J[w - 1] \o <<Space>> \o W[w]
      BY <2>1, Joining
    <2> QED BY <1>4, <2>1, <2>2
  \* The words before the prefix ends make the line up to the last of them.
  <1> DEFINE Agrees(s, i) == Len(s) = e(i) /\ e(i) < n /\ \A m \in 1 .. e(i) : s[m] = L[m]
             Good(w) == \E i \in S : Rank(L, i) = w /\ J[w] \in Seq(Chars) /\ (HasPrefix(J[w], p) \/ Agrees(J[w], i))
             bad == {w \in 1 .. K : ~Good(w)}
  \* A piece that agrees with the line as far as it goes.
  <1>6. ASSUME NEW s \in Seq(Chars), NEW i \in S, Len(s) = e(i), \A m \in 1 .. e(i) : s[m] = L[m]
        PROVE  HasPrefix(s, p) \/ Agrees(s, i)
    <2>1. e(i) \in Nat
      BY <1>1, <1>3
    <2>2. CASE e(i) < n
      BY <1>6, <2>2
    <2>3. CASE ~(e(i) < n)
      <3>1. n <= Len(s) /\ \A m \in 1 .. n : s[m] = p[m]
        BY <1>1, <1>2, <1>6, <2>1, <2>3
      <3> QED BY <1>1, <3>1, PrefixLetters
    <2> QED BY <2>2, <2>3
  <1>7. Good(1)
    <2>1. 1 \in S /\ Rank(L, 1) = 1
      BY Ranks
    <2> HIDE DEF S, W, e
    <2>2. /\ W[1] \in Seq(Chars) /\ Len(W[1]) = e(1) - 1 + 1 /\ e(1) \in 1 .. Len(L)
          /\ \A m \in 1 .. e(1) - 1 + 1 : W[1][m] = L[1 + m - 1]
      BY <1>3, <2>1
    <2>3. Len(W[1]) = e(1) /\ \A m \in 1 .. e(1) : W[1][m] = L[m]
      <3>1. e(1) \in Nat /\ e(1) - 1 + 1 = e(1)
        BY <1>1, <2>2
      <3>2. \A m \in 1 .. e(1) : 1 + m - 1 = m
        BY <3>1
      <3> QED BY <2>2, <3>1, <3>2
    <2>4. HasPrefix(W[1], p) \/ Agrees(W[1], 1)
      BY <1>6, <2>1, <2>2, <2>3
    <2> HIDE DEF Agrees
    <2> QED BY <1>5, <2>1, <2>2, <2>4
  <1>8. ASSUME NEW w \in 1 .. K - 1, Good(w) PROVE Good(w + 1)
    <2> HIDE DEF W, K, n, Agrees
    <2>1. PICK i \in S : Rank(L, i) = w /\ J[w] \in Seq(Chars) /\ (HasPrefix(J[w], p) \/ Agrees(J[w], i))
      BY <1>8
    <2>2. e(i) \in 1 .. Len(L) /\ e(i) < Len(L) /\ L[e(i) + 1] = Space
      <3>1. i \in 1 .. Len(L) /\ e(i) \in i .. Len(L) /\ (e(i) = Len(L) \/ L[e(i) + 1] = Space)
        BY <1>1, WordEnds
      <3>2. e(i) = Len(L) => Rank(L, i) = K
        BY NextRank DEF K
      <3> HIDE DEF e, S
      <3> QED BY <1>1, <2>1, <3>1, <3>2
    <2>3. PICK s \in S : /\ s > e(i) + 1 /\ \A m \in e(i) + 1 .. s - 1 : L[m] = Space
                         /\ \A t \in S : t <= i \/ t >= s
      BY <2>2, NextWord
    <2>4. s > i /\ s \in 1 .. Len(L) /\ e(s) \in s .. Len(L)
      <3>1. i \in 1 .. Len(L) /\ e(i) \in i .. Len(L) /\ s \in 1 .. Len(L) /\ e(s) \in s .. Len(L)
        BY <1>3
      <3> HIDE DEF e, S
      <3> QED BY <1>1, <2>3, <3>1
    <2>5. Rank(L, s) = w + 1
      BY <2>1, <2>3, <2>4, NextRank
    <2> DEFINE y == W[w + 1]
               z == J[w] \o <<Space>> \o y
    <2>6. /\ y \in Seq(Chars) /\ Len(y) = e(s) - s + 1
          /\ \A m \in 1 .. e(s) - s + 1 : y[m] = L[s + m - 1]
      BY <1>3, <2>5
    <2>7. J[w + 1] = z
      <3>1. w + 1 \in 2 .. K /\ (w + 1) - 1 = w
        BY <1>1
      <3> QED BY <1>5, <3>1
    <2> HIDE DEF e, S, y, z
    <2>8. /\ z \in Seq(Chars) /\ Len(z) = Len(J[w]) + 1 + Len(y)
          /\ \A m \in 1 .. Len(J[w]) : z[m] = J[w][m]
          /\ z[Len(J[w]) + 1] = Space
          /\ \A m \in 1 .. Len(y) : z[Len(J[w]) + 1 + m] = y[m]
      <3>1. Space \in Chars
        OBVIOUS
      <3>2. J[w] \in Seq(Chars) /\ y \in Seq(Chars)
        BY <2>1, <2>6
      <3> DEFINE x == J[w]
      <3> HIDE DEF Chars, x
      <3>3. x \in Seq(Chars)
        BY <3>2 DEF x
      <3>4. /\ x \o <<Space>> \o y \in Seq(Chars) /\ Len(x \o <<Space>> \o y) = Len(x) + 1 + Len(y)
            /\ \A m \in 1 .. Len(x) : (x \o <<Space>> \o y)[m] = x[m]
            /\ (x \o <<Space>> \o y)[Len(x) + 1] = Space
            /\ \A m \in 1 .. Len(y) : (x \o <<Space>> \o y)[Len(x) + 1 + m] = y[m]
        BY <3>1, <3>2, <3>3, Between
      <3> QED BY <3>4 DEF x, z
    <2>9. HasPrefix(z, p) \/ Agrees(z, s)
      <3>1. CASE HasPrefix(J[w], p)
        <4>1. n <= Len(J[w]) /\ \A m \in 1 .. n : J[w][m] = p[m]
          BY <1>1, <2>1, <3>1, PrefixLetters DEF n
        <4>2. Len(J[w]) \in Nat /\ Len(y) \in Nat
          BY <2>1, <2>6
        <4>3. n <= Len(z) /\ \A m \in 1 .. n : z[m] = p[m]
          BY <1>1, <2>8, <4>1, <4>2
        <4> QED BY <1>1, <2>8, <4>3, PrefixLetters DEF n
      <3>2. CASE Agrees(J[w], i)
        <4>1. Len(J[w]) = e(i) /\ e(i) < n /\ \A m \in 1 .. e(i) : J[w][m] = L[m]
          BY <3>2 DEF Agrees
        <4>2. \A m \in 1 .. e(i) + 1 : z[m] = L[m]
          <5>1. \A m \in 1 .. e(i) : z[m] = L[m]
            BY <2>8, <4>1
          <5>2. z[e(i) + 1] = L[e(i) + 1]
            BY <2>2, <2>8, <4>1
          <5>3. e(i) \in Nat
            BY <2>2
          <5>4. \A m \in 1 .. e(i) + 1 : m \in 1 .. e(i) \/ m = e(i) + 1
            BY <5>3
          <5> QED BY <5>1, <5>2, <5>4
        <4>3. CASE e(i) + 1 = n
          <5>1. Len(y) \in Nat
            BY <2>6
          <5>2. n <= Len(z) /\ \A m \in 1 .. n : z[m] = p[m]
            BY <1>1, <1>2, <2>2, <2>8, <4>1, <4>2, <4>3, <5>1
          <5> QED BY <1>1, <2>8, <5>2, PrefixLetters DEF n
        <4>4. CASE e(i) + 1 # n
          <5>1. e(i) + 1 \in 1 .. n - 1 /\ e(i) + 1 \in 1 .. n /\ (e(i) + 1) + 1 \in 1 .. n
            BY <1>1, <2>2, <4>1, <4>4
          <5>2. p[e(i) + 1] = Space /\ p[(e(i) + 1) + 1] = L[(e(i) + 1) + 1]
            BY <1>2, <2>2, <5>1
          <5>3. L[(e(i) + 1) + 1] # Space
            BY <5>1, <5>2 DEF n
          <5>4. s = e(i) + 2
            <6>1. (e(i) + 1) + 1 \notin e(i) + 1 .. s - 1
              BY <2>3, <5>3
            <6> QED BY <1>1, <2>2, <2>3, <2>4, <6>1
          <5>5. e(i) \in Nat /\ e(s) \in Nat /\ s \in Nat /\ Len(L) \in Nat
            BY <1>1, <2>2, <2>4
          <5>6. ASSUME NEW m \in e(i) + 2 .. e(s) PROVE z[m] = L[m]
            <6>1. m - e(i) - 1 \in 1 .. e(s) - s + 1 /\ s + (m - e(i) - 1) - 1 = m /\ e(i) + 1 + (m - e(i) - 1) = m
              <7>1. m \in Nat /\ m >= e(i) + 2 /\ m <= e(s)
                BY <5>5
              <7>2. \A a, b, c \in Nat : c >= a + 2 /\ c <= b =>
                       c - a - 1 \in 1 .. b - (a + 2) + 1 /\ (a + 2) + (c - a - 1) - 1 = c /\ a + 1 + (c - a - 1) = c
                OBVIOUS
              <7> QED BY <5>4, <5>5, <7>1, <7>2
            <6>2. z[Len(J[w]) + 1 + (m - e(i) - 1)] = y[m - e(i) - 1]
              BY <2>6, <2>8, <6>1
            <6>3. y[m - e(i) - 1] = L[s + (m - e(i) - 1) - 1]
              BY <2>6, <6>1
            <6> QED BY <4>1, <6>1, <6>2, <6>3
          <5>7. \A m \in 1 .. e(s) : m \in 1 .. e(i) + 1 \/ m \in e(i) + 2 .. e(s)
            BY <1>1, <2>2, <2>4
          <5>8. \A m \in 1 .. e(s) : z[m] = L[m]
            BY <4>2, <5>6, <5>7
          <5>9. Len(z) = e(s)
            <6>1. \A a, b \in Nat : a + 1 + (b - (a + 2) + 1) = b
              OBVIOUS
            <6>2. Len(z) = e(i) + 1 + (e(s) - s + 1)
              BY <2>6, <2>8, <4>1
            <6> QED BY <5>4, <5>5, <6>1, <6>2
          <5> QED BY <1>6, <2>8, <5>8, <5>9
        <4> QED BY <4>3, <4>4
      <3> QED BY <2>1, <3>1, <3>2
    <2> QED BY <2>5, <2>7, <2>8, <2>9
  <1> HIDE DEF Good, K, S, W
  <1>9. bad = {}
    <2> SUFFICES ASSUME bad # {} PROVE FALSE
      OBVIOUS
    <2>1. bad \in SUBSET Nat
      OBVIOUS
    <2>2. PICK w \in bad : \A v \in bad : w <= v
      BY <2>1, LeastNatural
    <2>3. w \in 1 .. K /\ ~Good(w)
      OBVIOUS
    <2>4. w # 1
      BY <1>7, <2>3, Zenon
    <2>5. w - 1 \in 1 .. K - 1 /\ w - 1 \in 1 .. K /\ w - 1 \notin bad /\ (w - 1) + 1 = w
      BY <1>1, <2>2, <2>3, <2>4
    <2>6. Good(w - 1)
      BY <2>5
    <2>7. Good((w - 1) + 1)
      BY <1>8, <2>5, <2>6
    <2> QED BY <2>3, <2>5, <2>7
  <1>10. Good(K)
    <2>1. K \in 1 .. K
      BY <1>1
    <2> QED BY <1>9, <2>1
  <1>11. PICK i \in S : Rank(L, i) = K /\ J[K] \in Seq(Chars) /\ (HasPrefix(J[K], p) \/ Agrees(J[K], i))
    BY <1>10 DEF Good
  <1>12. ~Agrees(J[K], i)
    <2> SUFFICES ASSUME Agrees(J[K], i) PROVE FALSE
      OBVIOUS
    <2>1. e(i) < n /\ e(i) \in 1 .. Len(L)
      <3>1. e(i) < n
        OBVIOUS
      <3>2. i \in 1 .. Len(L) /\ e(i) \in i .. Len(L)
        BY <1>3
      <3> HIDE DEF e
      <3> QED BY <1>1, <3>1, <3>2
    <2> HIDE DEF Agrees, n
    <2>2. e(i) < Len(L)
      BY <1>1, <1>2, <2>1
    <2>3. PICK s \in S : /\ s > e(i) + 1 /\ \A t \in S : t <= i \/ t >= s
      BY <2>2, NextWord DEF S
    <2>4. s > i /\ Rank(L, s) \in 1 .. K
      <3>1. i \in 1 .. Len(L) /\ e(i) \in i .. Len(L) /\ s \in 1 .. Len(L) /\ Rank(L, s) \in 1 .. K
        BY <1>3
      <3> HIDE DEF e
      <3> QED BY <1>1, <2>3, <3>1
    <2>5. Rank(L, s) = K + 1
      BY <1>11, <2>3, <2>4, NextRank DEF S
    <2> QED BY <1>1, <2>4, <2>5
  <1> QED BY <1>5, <1>11, <1>12 DEF W

-----------------------------------------------------------------------------
\* The MCP server

\* What can be admitted: a connection by its key, and when.
McTest == [conn : {RateLimitKey(GetString(p), GetString(a), GetString(n)) :
                       p \in McProviders, a \in McAccounts, n \in McAccounts}, at : Nat]

\* The admitted tests are the ones the limiter remembers, none later than now.
McSpaced ==
    /\ mcNow \in Nat
    /\ \A k \in DOMAIN mcCalls : mcCalls[k] \in Nat /\ mcCalls[k] <= mcNow
    /\ mcAdmitted \in Seq(McTest)
    /\ \A i \in 1 .. Len(mcAdmitted) :
          mcAdmitted[i].conn \in DOMAIN mcCalls /\ mcAdmitted[i].at \in Nat /\ mcAdmitted[i].at <= mcCalls[mcAdmitted[i].conn]
    /\ TestsSpaced

\* A connection; one that was not accepted yet has whatever nonce it was made with.
McConnection == [st : {"none", "open", "closed"}, uid : PeerUIDs, nonce : McNonce \cup {CHOOSE n \in McNonce : TRUE}]

\* A nonce of an open connection is registered to it; nothing is open before the
\* server is up.
McBound ==
    /\ mcNonces \in [McNonce -> McConn \cup {0}] /\ mcConns \in [McConn -> McConnection]
    /\ \A c \in McConn : mcConns[c].st = "open" => mcSrv # "down" /\ mcConns[c].nonce \in McNonce
    /\ NonceBinds

\* The session was last touched at its last accepted use.
McKept ==
    /\ mcSess.issued # Never =>
          /\ mcSess.issued \in Nat /\ mcUse.at \in Nat /\ mcUse.before \in Nat
          /\ mcSess.last = mcUse.at /\ mcSess.expires = mcSess.issued + McTTL
    /\ SessionWindow

\* The four parts of what the server promises, each with what makes it inductive.
McInv == McSpaced /\ McBound /\ McKept /\ RunsAllowedLines

\* A test the limiter admits is a window after every earlier one of its connection.
LEMMA McTests ==
    ASSUME McSpaced, NEW k, NEW p \in McProviders, NEW a \in McAccounts, NEW n \in McAccounts,
           CallTest(k, p, a, n)
    PROVE  McSpaced'
  <1> DEFINE key == RateLimitKey(GetString(p), GetString(a), GetString(n))
             new == [conn |-> key, at |-> mcNow]
  <1>1. mcNow' = mcNow /\ mcNow \in Nat
    BY DEF CallTest, McSpaced
  <1>2. /\ Allow(key)
        /\ mcCalls' = [x \in DOMAIN mcCalls \cup {key} |-> IF x = key THEN mcNow ELSE mcCalls[x]]
        /\ mcAdmitted' = Append(mcAdmitted, new)
    BY DEF CallTest, Tested, RateLimitKey
  <1>5. mcAdmitted \in Seq(McTest) /\ new \in McTest
    BY <1>1 DEF McSpaced, McTest
  <1> HIDE DEF key
  <1>3. DOMAIN mcCalls' = DOMAIN mcCalls \cup {key}
    BY <1>2
  <1>4. \A x \in DOMAIN mcCalls' : mcCalls'[x] \in Nat /\ mcCalls'[x] <= mcNow
    BY <1>1, <1>2 DEF McSpaced
  <1>6. /\ Len(mcAdmitted) \in Nat /\ Len(mcAdmitted') = Len(mcAdmitted) + 1
        /\ mcAdmitted'[Len(mcAdmitted) + 1] = new
        /\ \A i \in 1 .. Len(mcAdmitted) : mcAdmitted'[i] = mcAdmitted[i]
    BY <1>2, <1>5
  <1>7. ASSUME NEW i \in 1 .. Len(mcAdmitted)
        PROVE  /\ mcAdmitted[i].conn \in DOMAIN mcCalls' /\ mcAdmitted[i].at \in Nat
               /\ mcAdmitted[i].at <= mcCalls'[mcAdmitted[i].conn]
               /\ mcAdmitted[i].conn = key => mcNow - mcAdmitted[i].at >= McWindow
    <2>1. /\ mcAdmitted[i].conn \in DOMAIN mcCalls /\ mcAdmitted[i].at \in Nat
          /\ mcAdmitted[i].at <= mcCalls[mcAdmitted[i].conn]
          /\ mcCalls[mcAdmitted[i].conn] \in Nat /\ mcCalls[mcAdmitted[i].conn] <= mcNow
      BY DEF McSpaced
    <2>2. CASE mcAdmitted[i].conn = key
      <3>1. mcNow - mcCalls[key] >= McWindow
        BY <1>2, <2>1, <2>2 DEF Allow, LastTest, Never
      <3> QED BY <1>1, <1>2, <2>1, <2>2, <3>1, McAssumption
    <2>3. CASE mcAdmitted[i].conn # key
      BY <1>2, <2>1, <2>3
    <2> QED BY <2>2, <2>3
  <1>8. \A i \in 1 .. Len(mcAdmitted') :
           mcAdmitted'[i].conn \in DOMAIN mcCalls' /\ mcAdmitted'[i].at \in Nat
           /\ mcAdmitted'[i].at <= mcCalls'[mcAdmitted'[i].conn]
    <2>1. key \in DOMAIN mcCalls' /\ mcCalls'[key] = mcNow
      BY <1>2
    <2>2. mcAdmitted'[Len(mcAdmitted) + 1].conn = key /\ mcAdmitted'[Len(mcAdmitted) + 1].at = mcNow
      BY <1>6
    <2>3. 1 .. Len(mcAdmitted') = 1 .. Len(mcAdmitted) \cup {Len(mcAdmitted) + 1}
      BY <1>6
    <2>4. ASSUME NEW i \in 1 .. Len(mcAdmitted)
          PROVE  mcAdmitted'[i].conn \in DOMAIN mcCalls' /\ mcAdmitted'[i].at \in Nat
                 /\ mcAdmitted'[i].at <= mcCalls'[mcAdmitted'[i].conn]
      BY <1>6, <1>7
    <2> QED BY <1>1, <2>1, <2>2, <2>3, <2>4
  <1>9. TestsSpaced'
    <2> SUFFICES ASSUME NEW i \in 1 .. Len(mcAdmitted'), NEW j \in 1 .. Len(mcAdmitted'), i < j,
                        mcAdmitted'[i].conn = mcAdmitted'[j].conn
                 PROVE  mcAdmitted'[j].at - mcAdmitted'[i].at >= McWindow
      BY DEF TestsSpaced
    <2>1. i \in 1 .. Len(mcAdmitted) /\ mcAdmitted'[i] = mcAdmitted[i]
      BY <1>6
    <2>2. CASE j \in 1 .. Len(mcAdmitted)
      BY <1>6, <2>1, <2>2 DEF McSpaced, TestsSpaced
    <2>3. CASE j = Len(mcAdmitted) + 1
      BY <1>6, <1>7, <2>1, <2>3
    <2> QED BY <1>6, <2>2, <2>3
  <1>10. mcAdmitted' \in Seq(McTest)
    BY <1>2, <1>5
  <1> QED BY <1>1, <1>4, <1>8, <1>9, <1>10 DEF McSpaced

\* Time passes, or none of the limiter's state is touched.
LEMMA McQuiet ==
    ASSUME McSpaced, UNCHANGED <<mcCalls, mcAdmitted>>, mcNow' \in Nat, mcNow' >= mcNow
    PROVE  McSpaced'
  <1>1. \A k \in DOMAIN mcCalls : mcCalls'[k] \in Nat /\ mcCalls'[k] <= mcNow'
    BY DEF McSpaced
  <1>2. TestsSpaced'
    BY DEF McSpaced, TestsSpaced
  <1> QED BY <1>1, <1>2 DEF McSpaced

\* A connection that is accepted owns its nonce, or is closed.
LEMMA McAccepts ==
    ASSUME McBound, NEW c \in McConn, NEW uid \in PeerUIDs, NEW n \in McNonce, AcceptUnix(c, uid, n)
    PROVE  McBound'
  <1>1. /\ mcSrv = "unix" /\ mcSrv' # "down" /\ mcSrv' \in {"unix", "ended"}
        /\ mcConns' = [mcConns EXCEPT ![c] =
                 [st |-> IF uid = "server" /\ Register(n, c)[n] = c THEN "open" ELSE "closed", uid |-> uid, nonce |-> n]]
        /\ mcNonces' = mcNonces \/ mcNonces' = Register(n, c)
        /\ uid = "server" => mcNonces' = Register(n, c)
    BY DEF AcceptUnix, ValidatePeerUID, Registered
  <1>6. mcConns' \in [McConn -> McConnection]
    BY <1>1 DEF McBound, McConnection
  <1>2. Register(n, c) \in [McNonce -> McConn \cup {0}]
    BY DEF Register, McBound
  <1>3. \A m \in McNonce : Register(n, c)[m] = mcNonces[m] \/ mcNonces[m] = 0
    BY DEF Register, McBound, NonceInUse
  <1>4. \A d \in McConn : mcConns'[d].st = "open" =>
           \/ d # c /\ mcConns'[d] = mcConns[d]
           \/ d = c /\ mcConns'[d].uid = "server" /\ mcConns'[d].nonce = n /\ mcNonces'[n] = c
    BY <1>1 DEF McBound
  <1>5. NonceBinds'
    <2> SUFFICES ASSUME NEW d \in McConn, mcConns'[d].st = "open"
                 PROVE  mcConns'[d].uid = "server" /\ mcNonces'[mcConns'[d].nonce] = d
      BY DEF NonceBinds
    <2>1. CASE d = c
      BY <1>4, <2>1
    <2>2. CASE d # c
      <3>1. mcConns'[d] = mcConns[d] /\ mcConns[d].nonce \in McNonce /\ mcNonces[mcConns[d].nonce] = d
            /\ mcConns[d].uid = "server"
        BY <1>1, <1>4, <2>2 DEF McBound, NonceBinds
      <3> QED BY <1>1, <1>3, <3>1, McAssumption
    <2> QED BY <2>1, <2>2
  <1> QED BY <1>1, <1>2, <1>4, <1>5, <1>6 DEF McBound

\* The registry is not touched, nothing opens, and a server that comes up has
\* nothing open.
LEMMA McNoneOpens ==
    ASSUME McBound, UNCHANGED mcNonces, mcConns' \in [McConn -> McConnection],
           \A c \in McConn : mcConns'[c].st = "open" => mcConns'[c] = mcConns[c],
           mcSrv' = mcSrv \/ mcSrv = "down" \/ mcSrv' = "ended"
    PROVE  McBound'
  <1>1. \A c \in McConn : mcConns'[c].st = "open" => mcSrv # "down" /\ mcSrv' # "down" /\ mcConns'[c].nonce \in McNonce
    BY DEF McBound
  <1>2. NonceBinds'
    BY <1>1 DEF McBound, NonceBinds
  <1> QED BY <1>1, <1>2 DEF McBound

\* A session is touched only by what it accepts.
LEMMA McTouches ==
    ASSUME McKept, McSpaced, NEW m \in BOOLEAN, CheckAndTouch(m)
    PROVE  McKept'
  <1>1. CASE SessionAccepts(m)
    <2>1. mcSess' = [mcSess EXCEPT !.last = mcNow] /\ mcUse' = [at |-> mcNow, before |-> mcUse.at]
          /\ mcSess.issued # Never /\ mcNow <= mcSess.expires /\ mcNow - mcSess.last <= McIdle
      BY <1>1 DEF CheckAndTouch, TouchedAt, SessionAccepts
    <2>2. mcSess'.issued = mcSess.issued /\ mcSess'.expires = mcSess.expires /\ mcSess'.last = mcNow
      BY <2>1
    <2> QED BY <2>1, <2>2 DEF McKept, McSpaced, SessionWindow
  <1>2. CASE ~SessionAccepts(m)
    <2>1. mcSess' = [mcSess EXCEPT !.last = mcSess.last] /\ mcUse' = mcUse
      BY <1>2 DEF CheckAndTouch, TouchedAt
    <2>2. mcSess'.issued = mcSess.issued /\ mcSess'.expires = mcSess.expires /\ mcSess'.last = mcSess.last
      BY <2>1
    <2> QED BY <2>1, <2>2 DEF McKept, SessionWindow
  <1> QED BY <1>1, <1>2

\* A new session replaces the one there was and is its own first use (NewBearerSession).
LEMMA McIssues ==
    ASSUME McSpaced, NewBearerSession
    PROVE  McKept'
  <1>1. mcSess' = [issued |-> mcNow, expires |-> mcNow + McTTL, last |-> mcNow]
        /\ mcUse' = [at |-> mcNow, before |-> mcNow] /\ mcNow \in Nat
    BY DEF NewBearerSession, McSpaced
  <1> QED BY <1>1, McAssumption DEF McKept, SessionWindow, Never

\* What keylatch_run is let run starts with an allowed prefix: an array as it is, a
\* string because its fields, one space apart, begin as it does.
LEMMA McRuns ==
    ASSUME RunsAllowedLines, NEW kind \in {"string", "array"}, NEW raw, NEW words, NEW t \in McTemplates,
           kind = "string" => raw \in McLines, CallRun(kind, raw, words, t)
    PROVE  RunsAllowedLines'
  <1> DEFINE command == IF kind = "string" THEN Fields(TrimSpace(raw)) ELSE words
  <1>1. CommandMatchesAllowlist(JoinWords(command), t)
    <2>1. CASE kind = "string"
      <3> DEFINE L == TrimSpace(raw)
      <3>1. raw \in Seq(Letters)
        BY <2>1, McAssumption
      <3>2. command = Fields(L) /\ command # <<>> /\ CommandMatchesAllowlist(L, t)
        BY <2>1 DEF CallRun, RunAllowed
      <3>3. L # <<>>
        <4> SUFFICES ASSUME L = <<>> PROVE FALSE
          OBVIOUS
        <4>1. WordStarts(<<>>) = {}
          BY DEF WordStarts
        <4>2. Cardinality(WordStarts(<<>>)) = 0
          BY <4>1, FS_EmptySet
        <4>3. Fields(<<>>) = <<>>
          BY <4>2 DEF Fields
        <4> QED BY <3>2, <4>3
      <3> HIDE DEF L
      <3>4. Trimmed(L)
        BY <3>1, <3>3, TrimLeavesNone DEF L
      <3>5. PICK p \in t : HasPrefix(L, p)
        BY <3>2 DEF CommandMatchesAllowlist
      <3>6. p \in Seq(Letters) /\ \A i \in 1 .. Len(p) - 1 : ~(p[i] = Space /\ p[i + 1] = Space)
        BY McAssumption
      <3>7. HasPrefix(JoinWords(Fields(L)), p)
        BY <3>4, <3>5, <3>6, WordsKeepPrefix
      <3> QED BY <3>2, <3>7 DEF CommandMatchesAllowlist
    <2>2. CASE kind # "string"
      BY <2>2 DEF CallRun, RunAllowed
    <2> QED BY <2>1, <2>2
  <1> DEFINE run == [argv |-> command, allowed |-> t]
  <1>2. mcRan' = mcRan \cup {run}
    BY DEF CallRun
  <1>3. CommandMatchesAllowlist(JoinWords(run.argv), run.allowed)
    <2> HIDE DEF command
    <2> QED BY <1>1
  <1> HIDE DEF run
  <1>4. ASSUME NEW r \in mcRan' PROVE CommandMatchesAllowlist(JoinWords(r.argv), r.allowed)
    <2>1. CASE r \in mcRan
      BY <2>1 DEF RunsAllowedLines
    <2>2. CASE r = run
      BY <1>3, <2>2
    <2> QED BY <1>2, <2>1, <2>2
  <1> QED BY <1>4 DEF RunsAllowedLines

\* Whatever the server or its clients do next, the invariant holds after it.
LEMMA McNextInv == McInv /\ [McNext]_mcVars => McInv'
  <1> SUFFICES ASSUME McInv, [McNext]_mcVars PROVE McInv'
    OBVIOUS
  <1> USE DEF McInv
  <1>0. ASSUME mcRan' = mcRan PROVE RunsAllowedLines'
    BY <1>0 DEF RunsAllowedLines
  <1>1. mcNow \in Nat /\ mcNow >= mcNow
    BY DEF McSpaced
  <1>2. CASE UNCHANGED mcVars
    <2>1. McSpaced'
      BY <1>1, <1>2, McQuiet DEF mcVars
    <2>2. McBound'
      BY <1>2, McNoneOpens DEF mcVars, McBound
    <2> QED BY <1>0, <1>2, <2>1, <2>2 DEF mcVars, McKept, SessionWindow
  <1>3. ASSUME NEW t, NEW b, NEW tok, NEW a, NEW l, NEW os,
               StartServer(t, b, tok, a, l, os) \/ StartRefused(t, b, tok, a, l, os)
        PROVE  McInv'
    <2>0. mcSrv = "down" /\ UNCHANGED <<mcRan, mcConns, mcNonces, mcCalls, mcAdmitted, mcSess, mcUse, mcNow>>
      BY <1>3 DEF StartServer, StartRefused
    <2>1. McSpaced'
      BY <1>1, <2>0, McQuiet
    <2>2. McBound'
      BY <2>0, McNoneOpens DEF McBound
    <2> QED BY <1>0, <2>0, <2>1, <2>2 DEF McKept, SessionWindow
  <1>4. ASSUME NEW c \in McConn, NEW n \in McNonce, NEW uid \in PeerUIDs, AcceptUnix(c, uid, n) PROVE McInv'
    <2>0. UNCHANGED <<mcRan, mcCalls, mcAdmitted, mcSess, mcUse, mcNow>>
      BY <1>4 DEF AcceptUnix
    <2>1. McSpaced'
      BY <1>1, <2>0, McQuiet
    <2>2. McBound'
      BY <1>4, McAccepts
    <2> QED BY <1>0, <2>0, <2>1, <2>2 DEF McKept, SessionWindow
  <1>5. ASSUME NEW c \in McConn, NEW n \in McNonce, AcceptBearer(c, n) PROVE McInv'
    <2>0. UNCHANGED <<mcRan, mcCalls, mcAdmitted, mcSess, mcUse, mcNow>>
      BY <1>5 DEF AcceptBearer
    <2>1. McSpaced'
      BY <1>1, <2>0, McQuiet
    <2>2. McBound'
      BY <1>5 DEF AcceptBearer, McBound, NonceBinds, McConnection, PeerUIDs
    <2> QED BY <1>0, <2>0, <2>1, <2>2 DEF McKept, SessionWindow
  <1>6. ASSUME NEW c \in McConn, CloseConn(c) PROVE McInv'
    <2>0. UNCHANGED <<mcRan, mcCalls, mcAdmitted, mcSess, mcUse, mcNow>>
      BY <1>6 DEF CloseConn
    <2>1. McSpaced'
      BY <1>1, <2>0, McQuiet
    <2>2. McBound'
      BY <1>6, McNoneOpens DEF CloseConn, McBound, McConnection
    <2> QED BY <1>0, <2>0, <2>1, <2>2 DEF McKept, SessionWindow
  <1>7. CASE Cancel \/ ServeReturns \/ McTick
    <2>0. UNCHANGED <<mcRan, mcCalls, mcAdmitted, mcSess, mcUse>> /\ mcNow' \in Nat /\ mcNow' >= mcNow
      BY <1>1, <1>7 DEF Cancel, ServeReturns, McTick
    <2>1. McSpaced'
      BY <1>1, <2>0, McQuiet
    <2>2. McBound'
      <3>1. UNCHANGED mcNonces /\ mcConns' \in [McConn -> McConnection] /\ (mcSrv' = mcSrv \/ mcSrv' = "ended")
        BY <1>7 DEF Cancel, ServeReturns, McTick, McBound, McConnection
      <3>2. ASSUME NEW c \in McConn, mcConns'[c].st = "open" PROVE mcConns'[c] = mcConns[c]
        BY <1>7, <3>2 DEF Cancel, ServeReturns, McTick, McBound, McConnection
      <3> QED BY <3>1, <3>2, McNoneOpens
    <2> QED BY <1>0, <2>0, <2>1, <2>2 DEF McKept, SessionWindow
  <1>8. CASE NewBearerSession
    <2>0. UNCHANGED <<mcRan, mcSrv, mcConns, mcNonces, mcCalls, mcAdmitted, mcNow>>
      BY <1>8 DEF NewBearerSession
    <2>1. McSpaced'
      BY <1>1, <2>0, McQuiet
    <2>2. McBound'
      BY <2>0, McNoneOpens DEF McBound
    <2> QED BY <1>0, <1>8, <2>0, <2>1, <2>2, McIssues
  <1>9. ASSUME NEW m \in BOOLEAN, CheckAndTouch(m) PROVE McInv'
    <2>0. UNCHANGED <<mcRan, mcSrv, mcConns, mcNonces, mcCalls, mcAdmitted, mcNow>>
      BY <1>9 DEF CheckAndTouch
    <2>1. McSpaced'
      BY <1>1, <2>0, McQuiet
    <2>2. McBound'
      BY <2>0, McNoneOpens DEF McBound
    <2> QED BY <1>0, <1>9, <2>0, <2>1, <2>2, McTouches
  <1>10. ASSUME NEW k, NEW p \in McProviders, NEW a \in McAccounts, NEW n \in McAccounts, CallTest(k, p, a, n)
         PROVE  McInv'
    <2>0. UNCHANGED <<mcRan, mcSrv, mcConns, mcNonces, mcSess, mcUse, mcNow>>
      BY <1>10 DEF CallTest
    <2>1. McSpaced'
      BY <1>10, McTests
    <2>2. McBound'
      BY <2>0, McNoneOpens DEF McBound
    <2> QED BY <1>0, <2>0, <2>1, <2>2 DEF McKept, SessionWindow
  <1>11. ASSUME NEW k, TestAnswers(k) PROVE McInv'
    <2>0. UNCHANGED <<mcRan, mcSrv, mcConns, mcNonces, mcCalls, mcAdmitted, mcSess, mcUse, mcNow>>
      BY <1>11 DEF TestAnswers
    <2>1. McSpaced'
      BY <1>1, <2>0, McQuiet
    <2>2. McBound'
      BY <2>0, McNoneOpens DEF McBound
    <2> QED BY <1>0, <2>0, <2>1, <2>2 DEF McKept, SessionWindow
  <1>12. ASSUME NEW kind \in {"string", "array"}, NEW l, NEW w, NEW t \in McTemplates,
                kind = "string" => l \in McLines, CallRun(kind, l, w, t)
         PROVE  McInv'
    <2>0. UNCHANGED <<mcSrv, mcConns, mcNonces, mcCalls, mcAdmitted, mcSess, mcUse, mcNow>>
      BY <1>12 DEF CallRun
    <2>1. McSpaced'
      BY <1>1, <2>0, McQuiet
    <2>2. McBound'
      BY <2>0, McNoneOpens DEF McBound
    <2>3. RunsAllowedLines'
      BY <1>12, McRuns
    <2> QED BY <2>0, <2>1, <2>2, <2>3 DEF McKept, SessionWindow
  <1> QED BY <1>2, <1>3, <1>4, <1>5, <1>6, <1>7, <1>8, <1>9, <1>10, <1>11, <1>12 DEF McNext, TestStep, RunStep

\* For any connections, nonces, calls, times, command lines and allowed prefixes: tests
\* of one connection are a window apart however its name is spelt, a nonce belongs to one
\* connection for ever, what keylatch_run executes is a line its provider's template
\* allows, and a session is used within its life and its idle limit (tools.go:52 and
\* 266, transport_tcp.go:87 and 59).
THEOREM McpServerHolds == McSpec => []McpHolds
  <1>1. McInit => McInv
    <2> SUFFICES ASSUME McInit PROVE McInv
      OBVIOUS
    <2>1. McSpaced
      BY DEF McInit, McSpaced, TestsSpaced
    <2>2. McBound
      BY DEF McInit, McBound, NonceBinds, McConnection, PeerUIDs
    <2>3. McKept
      BY DEF McInit, McKept, SessionWindow
    <2>4. RunsAllowedLines
      BY DEF McInit, RunsAllowedLines
    <2> QED BY <2>1, <2>2, <2>3, <2>4 DEF McInv
  <1>2. McInv => McpHolds
    BY DEF McInv, McSpaced, McBound, McKept, McpHolds
  <1> QED BY <1>1, <1>2, McNextInv, PTL DEF McSpec

-----------------------------------------------------------------------------
\* Sequences

\* The element that moves from the front of one sequence to the end of another
\* leaves their concatenation as it was.
LEMMA MoveHead ==
    ASSUME NEW S, NEW g \in Seq(S), NEW c \in Seq(S), c # <<>>
    PROVE  /\ Append(g, Head(c)) \o Tail(c) = g \o c
           /\ Append(g, Head(c)) \in Seq(S) /\ Tail(c) \in Seq(S) /\ Len(Tail(c)) = Len(c) - 1
  <1>1. /\ Head(c) \in S /\ Tail(c) \in Seq(S) /\ Append(g, Head(c)) \in Seq(S)
        /\ Len(c) \in Nat /\ Len(c) >= 1 /\ Len(Tail(c)) = Len(c) - 1 /\ Len(g) \in Nat
        /\ Len(Append(g, Head(c))) = Len(g) + 1
    OBVIOUS
  <1> DEFINE x == Append(g, Head(c)) \o Tail(c)
             y == g \o c
  <1>2. x \in Seq(S) /\ y \in Seq(S) /\ Len(x) = Len(g) + Len(c) /\ Len(y) = Len(g) + Len(c)
    BY <1>1
  <1>3. ASSUME NEW i \in 1 .. Len(g) + Len(c) PROVE x[i] = y[i]
    <2>1. CASE i <= Len(g)
      BY <1>1, <2>1
    <2>2. CASE i = Len(g) + 1
      BY <1>1, <2>2
    <2>3. CASE i > Len(g) + 1
      <3>1. i - (Len(g) + 1) \in 1 .. Len(Tail(c)) /\ x[i] = Tail(c)[i - (Len(g) + 1)]
        BY <1>1, <2>3
      <3>2. Tail(c)[i - (Len(g) + 1)] = c[i - Len(g)]
        BY <1>1, <3>1
      <3>3. y[i] = c[i - Len(g)]
        BY <1>1, <2>3
      <3> QED BY <3>1, <3>2, <3>3
    <2> QED BY <1>1, <2>1, <2>2, <2>3
  <1>4. x = y
    BY <1>2, <1>3
  <1> QED BY <1>1, <1>4

\* The range of a sequence that grows by an element it has not.
LEMMA RangeGrows ==
    ASSUME NEW S, NEW s \in Seq(S), NEW e \in S, e \notin Range(s),
           IsFiniteSet(Range(s)), Cardinality(Range(s)) = Len(s)
    PROVE  /\ Range(s \o <<e>>) = Range(s) \cup {e}
           /\ IsFiniteSet(Range(s \o <<e>>)) /\ Cardinality(Range(s \o <<e>>)) = Len(s \o <<e>>)
  <1>1. Range(s \o <<e>>) = Range(s) \cup {e}
    <2>1. Len(s) \in Nat /\ DOMAIN s = 1 .. Len(s) /\ DOMAIN (s \o <<e>>) = 1 .. Len(s) + 1
          /\ (s \o <<e>>)[Len(s) + 1] = e /\ \A i \in 1 .. Len(s) : (s \o <<e>>)[i] = s[i]
      OBVIOUS
    <2>2. 1 .. Len(s) + 1 = 1 .. Len(s) \cup {Len(s) + 1} /\ Len(s) + 1 \in 1 .. Len(s) + 1
      BY <2>1
    <2>3. \A x : x \in Range(s \o <<e>>) <=> \E i \in 1 .. Len(s) + 1 : (s \o <<e>>)[i] = x
      BY <2>1 DEF Range
    <2>4. \A x : x \in Range(s) <=> \E i \in 1 .. Len(s) : s[i] = x
      BY <2>1 DEF Range
    <2>5. \A x : x \in Range(s \o <<e>>) <=> x \in Range(s) \/ x = e
      BY <2>1, <2>2, <2>3, <2>4
    <2> QED BY <2>5
  <1>2. Len(s \o <<e>>) = Len(s) + 1
    OBVIOUS
  <1>3. IsFiniteSet(Range(s) \cup {e}) /\ Cardinality(Range(s) \cup {e}) = Cardinality(Range(s)) + 1
    BY FS_AddElement
  <1> QED BY <1>1, <1>2, <1>3

-----------------------------------------------------------------------------
\* The exporter of audit events

\* The senders between taking an event and knowing what became of it.
SxBusy == {s \in SxSender : sxSending[s] # <<>>}
\* No event is in two places, or twice in one.
SxApart ==
    /\ \A i, j \in DOMAIN sxBuf : sxBuf[i] = sxBuf[j] => i = j
    /\ \A i \in DOMAIN sxBuf : sxBuf[i] \in sxExported /\ sxBuf[i] \notin Range(sxTried)
    /\ \A s \in SxBusy : /\ \E e \in sxExported : sxSending[s] = <<e>>
                         /\ sxSending[s][1] \notin Range(sxTried)
                         /\ \A i \in DOMAIN sxBuf : sxBuf[i] # sxSending[s][1]
                         /\ \A r \in SxBusy : sxSending[r] = sxSending[s] => r = s
SxInv ==
    /\ sxBuf \in Seq(SxEvent) /\ sxTried \in Seq(SxEvent) /\ sxDropped \in Nat
    /\ sxExported \subseteq SxEvent /\ IsFiniteSet(sxExported)
    /\ sxSending \in [SxSender -> Seq(SxEvent)]
    /\ IsFiniteSet(sxUp) /\ SxBusy \subseteq sxUp
    /\ SxApart /\ Range(sxTried) \subseteq sxExported
    /\ IsFiniteSet(Range(sxTried)) /\ Cardinality(Range(sxTried)) = Len(sxTried)
    /\ Len(sxBuf) + Cardinality(SxBusy) + Len(sxTried) + sxDropped = Cardinality(sxExported)

\* The senders at work are finitely many.
LEMMA SxBusyCount == ASSUME SxInv PROVE IsFiniteSet(SxBusy) /\ Cardinality(SxBusy) \in Nat
  BY FS_Subset, FS_CardinalityType DEF SxInv

\* An event that is exported is a new one: it is queued, or dropped and counted (Export).
LEMMA SxExports ==
    ASSUME SxInv, NEW e \in SxEvent, Export(e)
    PROVE  SxInv'
  <1>1. e \notin sxExported /\ sxExported' = sxExported \cup {e} /\ UNCHANGED <<sxSending, sxTried, sxUp, SxBusy>>
    BY DEF Export, SxBusy
  <1>2. IsFiniteSet(sxExported') /\ Cardinality(sxExported') = Cardinality(sxExported) + 1
        /\ Cardinality(sxExported) \in Nat /\ sxExported' \subseteq SxEvent
    BY <1>1, FS_AddElement, FS_CardinalityType DEF SxInv
  <1>3. Cardinality(SxBusy) \in Nat /\ Len(sxBuf) \in Nat /\ Len(sxTried) \in Nat /\ sxDropped \in Nat
    BY SxBusyCount DEF SxInv
  <1>4. CASE sxBuf' = sxBuf /\ sxDropped' = sxDropped + 1
    <2>1. SxApart'
      BY <1>1, <1>4 DEF SxInv, SxApart
    <2> QED BY <1>1, <1>2, <1>3, <1>4, <2>1 DEF SxInv
  <1>5. CASE sxBuf' = Append(sxBuf, e) /\ sxDropped' = sxDropped
    <2>1. /\ sxBuf' \in Seq(SxEvent) /\ Len(sxBuf') = Len(sxBuf) + 1
          /\ DOMAIN sxBuf = 1 .. Len(sxBuf) /\ DOMAIN sxBuf' = 1 .. Len(sxBuf) + 1
          /\ sxBuf'[Len(sxBuf) + 1] = e /\ \A i \in DOMAIN sxBuf : sxBuf'[i] = sxBuf[i]
      BY <1>5 DEF SxInv
    <2>2. ASSUME NEW i \in DOMAIN sxBuf' PROVE i \in DOMAIN sxBuf \/ (sxBuf'[i] = e /\ i = Len(sxBuf) + 1)
      <3>1. i \in 1 .. Len(sxBuf) + 1
        BY <2>1
      <3>2. i \in 1 .. Len(sxBuf) \/ i = Len(sxBuf) + 1
        BY <1>3, <3>1
      <3> QED BY <2>1, <3>2
    <2>3. e \notin Range(sxTried) /\ \A i \in DOMAIN sxBuf : sxBuf[i] # e
      BY <1>1 DEF SxInv, SxApart
    <2>4. \A s \in SxBusy : sxSending[s][1] # e
      BY <1>1 DEF SxInv, SxApart
    <2>5. \A i, j \in DOMAIN sxBuf' : sxBuf'[i] = sxBuf'[j] => i = j
      BY <2>1, <2>2, <2>3 DEF SxInv, SxApart
    <2>6. \A i \in DOMAIN sxBuf' : sxBuf'[i] \in sxExported' /\ sxBuf'[i] \notin Range(sxTried)
      BY <1>1, <2>1, <2>2, <2>3 DEF SxInv, SxApart
    <2>7. \A s \in SxBusy : \A i \in DOMAIN sxBuf' : sxBuf'[i] # sxSending[s][1]
      <3>1. \A s \in SxBusy : \A i \in DOMAIN sxBuf : sxBuf[i] # sxSending[s][1]
        BY DEF SxInv, SxApart
      <3> QED BY <2>1, <2>2, <2>4, <3>1
    <2>8. SxApart'
      BY <1>1, <2>5, <2>6, <2>7 DEF SxInv, SxApart
    <2> QED BY <1>1, <1>2, <1>3, <1>5, <2>1, <2>8 DEF SxInv
  <1> QED BY <1>4, <1>5 DEF Export

\* A sender takes the oldest event of the queue: it is in no other place (worker).
LEMMA SxTakes ==
    ASSUME SxInv, NEW s \in SxSender, Take(s)
    PROVE  SxInv'
  <1>0. /\ s \in sxUp /\ sxSending[s] = <<>> /\ sxBuf # <<>> /\ sxBuf' = Tail(sxBuf)
        /\ sxSending' = [sxSending EXCEPT ![s] = <<Head(sxBuf)>>]
        /\ UNCHANGED <<sxExported, sxDropped, sxTried, sxUp>>
    BY DEF Take
  <1> DEFINE e == Head(sxBuf)
  <1>1. /\ e \in SxEvent /\ e = sxBuf[1] /\ 1 \in DOMAIN sxBuf /\ sxBuf' \in Seq(SxEvent)
        /\ Len(sxBuf) \in Nat /\ Len(sxBuf') = Len(sxBuf) - 1
        /\ \A i \in DOMAIN sxBuf' : i + 1 \in DOMAIN sxBuf /\ i \in Nat /\ i # 0 /\ sxBuf'[i] = sxBuf[i + 1]
    BY <1>0 DEF SxInv
  <1>2. <<e>> # <<>> /\ <<e>>[1] = e
    OBVIOUS
  <1> HIDE DEF e
  <1>3. sxSending' \in [SxSender -> Seq(SxEvent)] /\ SxBusy' = SxBusy \cup {s} /\ s \notin SxBusy
        /\ sxSending'[s] = <<e>> /\ \A r \in SxBusy : sxSending'[r] = sxSending[r]
    BY <1>0, <1>1, <1>2 DEF SxInv, SxBusy, e
  <1>4. Cardinality(SxBusy') = Cardinality(SxBusy) + 1 /\ Cardinality(SxBusy) \in Nat
    BY <1>3, SxBusyCount, FS_AddElement
  <1>5. e \in sxExported /\ e \notin Range(sxTried) /\ (\A i \in DOMAIN sxBuf' : sxBuf'[i] # e)
        /\ \A r \in SxBusy : sxSending[r][1] # e
    <2>1. \A i \in DOMAIN sxBuf' : i + 1 # 1
      BY <1>1
    <2> QED BY <1>1, <2>1 DEF SxInv, SxApart
  <1>6. SxApart'
    <2>1. \A i, j \in DOMAIN sxBuf' : sxBuf'[i] = sxBuf'[j] => i = j
      <3> TAKE i, j \in DOMAIN sxBuf'
      <3>1. sxBuf[i + 1] = sxBuf[j + 1] => i + 1 = j + 1
        BY <1>1 DEF SxInv, SxApart
      <3> QED BY <1>1, <3>1
    <2>2. \A i \in DOMAIN sxBuf' : sxBuf'[i] \in sxExported /\ sxBuf'[i] \notin Range(sxTried)
      BY <1>1 DEF SxInv, SxApart
    <2>3. \A r \in SxBusy : /\ \E x \in sxExported : sxSending[r] = <<x>>
                            /\ sxSending[r][1] \notin Range(sxTried)
                            /\ \A i \in DOMAIN sxBuf' : sxBuf'[i] # sxSending[r][1]
                            /\ sxSending[r] # <<e>>
                            /\ \A q \in SxBusy : sxSending[q] = sxSending[r] => q = r
      BY <1>1, <1>2, <1>5 DEF SxInv, SxApart
    <2> QED BY <1>0, <1>2, <1>3, <1>5, <2>1, <2>2, <2>3 DEF SxApart
  <1> QED BY <1>0, <1>1, <1>3, <1>4, <1>6 DEF SxInv

\* The event a sender holds is sent, or counted as failed.
LEMMA SxSends ==
    ASSUME SxInv, NEW s \in SxSender, Send(s)
    PROVE  SxInv'
  <1>0. /\ s \in SxBusy /\ sxTried' = sxTried \o sxSending[s] /\ sxSending' = [sxSending EXCEPT ![s] = <<>>]
        /\ UNCHANGED <<sxBuf, sxExported, sxDropped, sxUp>>
    BY DEF Send, SxBusy
  <1>1. PICK e \in sxExported : sxSending[s] = <<e>>
    BY <1>0 DEF SxInv, SxApart
  <1>2. <<e>>[1] = e /\ e \in SxEvent
    BY <1>1 DEF SxInv
  <1>3. e \notin Range(sxTried) /\ (\A i \in DOMAIN sxBuf : sxBuf[i] # e)
        /\ \A r \in SxBusy \ {s} : sxSending[r][1] # e
    <2>1. ASSUME NEW r \in SxBusy \ {s} PROVE sxSending[r][1] # e
      <3>1. PICK x \in sxExported : sxSending[r] = <<x>>
        BY DEF SxInv, SxApart
      <3>2. sxSending[r] # sxSending[s]
        BY <1>0 DEF SxInv, SxApart
      <3> QED BY <1>1, <3>1, <3>2
    <2> QED BY <1>0, <1>1, <1>2, <2>1 DEF SxInv, SxApart
  <1>4. Range(sxTried') = Range(sxTried) \cup {e} /\ IsFiniteSet(Range(sxTried'))
        /\ Cardinality(Range(sxTried')) = Len(sxTried')
    BY <1>0, <1>1, <1>2, <1>3, RangeGrows DEF SxInv
  <1>5. sxTried' \in Seq(SxEvent) /\ Len(sxTried') = Len(sxTried) + 1 /\ Len(sxTried) \in Nat /\ Len(sxBuf) \in Nat
    BY <1>0, <1>1, <1>2 DEF SxInv
  <1>6. /\ sxSending' \in [SxSender -> Seq(SxEvent)] /\ SxBusy' = SxBusy \ {s}
        /\ \A r \in SxBusy' : sxSending'[r] = sxSending[r]
    BY <1>0 DEF SxInv, SxBusy
  <1>7. Cardinality(SxBusy') = Cardinality(SxBusy) - 1 /\ Cardinality(SxBusy) \in Nat
    BY <1>0, <1>6, SxBusyCount, FS_RemoveElement
  <1>8. SxApart'
    <2>1. \A i \in DOMAIN sxBuf : sxBuf[i] \in sxExported /\ sxBuf[i] \notin Range(sxTried')
      BY <1>3, <1>4 DEF SxInv, SxApart
    <2>2. \A r \in SxBusy \ {s} : /\ \E x \in sxExported : sxSending[r] = <<x>>
                                  /\ sxSending[r][1] \notin Range(sxTried')
                                  /\ \A i \in DOMAIN sxBuf : sxBuf[i] # sxSending[r][1]
                                  /\ \A q \in SxBusy : sxSending[q] = sxSending[r] => q = r
      BY <1>3, <1>4 DEF SxInv, SxApart
    <2>3. \A i, j \in DOMAIN sxBuf' : sxBuf'[i] = sxBuf'[j] => i = j
      BY <1>0 DEF SxInv, SxApart
    <2>4. \A r \in SxBusy' : /\ \E x \in sxExported' : sxSending'[r] = <<x>>
                             /\ sxSending'[r][1] \notin Range(sxTried')
                             /\ \A i \in DOMAIN sxBuf' : sxBuf'[i] # sxSending'[r][1]
                             /\ \A q \in SxBusy' : sxSending'[q] = sxSending'[r] => q = r
      BY <1>0, <1>6, <2>2
    <2> QED BY <1>0, <2>1, <2>3, <2>4 DEF SxApart
  <1>9. Len(sxBuf') + Cardinality(SxBusy') + Len(sxTried') + sxDropped' = Cardinality(sxExported')
    <2>1. Len(sxBuf) + Cardinality(SxBusy) + Len(sxTried) + sxDropped = Cardinality(sxExported) /\ sxDropped \in Nat
      BY DEF SxInv
    <2> QED BY <1>0, <1>5, <1>7, <2>1
  <1>10. SxBusy' \subseteq sxUp' /\ Range(sxTried') \subseteq sxExported'
    BY <1>0, <1>4, <1>6 DEF SxInv
  <1>11. /\ sxBuf' \in Seq(SxEvent) /\ sxDropped' \in Nat /\ sxExported' \subseteq SxEvent
         /\ IsFiniteSet(sxExported') /\ IsFiniteSet(sxUp')
    BY <1>0 DEF SxInv
  <1> QED BY <1>4, <1>5, <1>6, <1>8, <1>9, <1>10, <1>11 DEF SxInv

\* Every step of the exporter and its senders keeps each event in one place.
LEMMA SxNextInv == SxInv /\ [SxNext]_sxVars => SxInv'
  <1> SUFFICES ASSUME SxInv, [SxNext]_sxVars PROVE SxInv'
    OBVIOUS
  <1>1. CASE UNCHANGED sxVars
    BY <1>1 DEF SxInv, SxApart, SxBusy, sxVars
  <1>2. ASSUME NEW s \in SxSender, SenderStart(s) \/ SenderEnds(s) PROVE SxInv'
    <2>1. UNCHANGED <<sxBuf, sxExported, sxDropped, sxSending, sxTried, SxBusy>>
      BY <1>2 DEF SenderStart, SenderEnds, SxBusy
    <2>2. IsFiniteSet(sxUp') /\ SxBusy \subseteq sxUp'
      <3>1. CASE SenderStart(s)
        BY <3>1, FS_AddElement DEF SenderStart, SxInv
      <3>2. CASE SenderEnds(s)
        BY <3>2, FS_RemoveElement DEF SenderEnds, SxInv, SxBusy
      <3> QED BY <1>2, <3>1, <3>2
    <2> QED BY <2>1, <2>2 DEF SxInv, SxApart
  <1> QED BY <1>1, <1>2, SxExports, SxTakes, SxSends DEF SxNext

\* Nothing is queued, held, sent or dropped at first.
LEMMA SxStart == SxInit => SxInv
  <1> SUFFICES ASSUME SxInit PROVE SxInv
    OBVIOUS
  <1>1. SxBusy = {} /\ Range(sxTried) = {}
    BY DEF SxInit, SxBusy, Range
  <1>2. IsFiniteSet({}) /\ Cardinality({}) = 0
    BY FS_EmptySet
  <1>3. SxApart
    BY <1>1 DEF SxInit, SxApart
  <1>4. /\ sxBuf \in Seq(SxEvent) /\ Len(sxBuf) = 0 /\ sxTried \in Seq(SxEvent) /\ Len(sxTried) = 0
        /\ sxSending \in [SxSender -> Seq(SxEvent)] /\ sxDropped = 0 /\ sxExported = {} /\ sxUp = {}
    BY DEF SxInit
  <1> QED BY <1>1, <1>2, <1>3, <1>4 DEF SxInv

-----------------------------------------------------------------------------
\* The receipts ring and its streams

\* What a subscriber was given and what waits for it.
EsAll(s) == esGot[s] \o esChan[s]
\* One subscriber: its receipts are numbered upwards from its first, the first of
\* them without a gap, and as many as were pushed unless its buffer was full.
EsStream(s) ==
    /\ esFrom[s] \in Nat \ {0} /\ esFrom[s] <= esNext
    /\ Len(EsAll(s)) <= esNext - esFrom[s]
    /\ \A i \in 1 .. Len(EsAll(s)) : EsAll(s)[i] < esNext
    /\ \A i \in 1 .. Len(EsAll(s)) - 1 : EsAll(s)[i] < EsAll(s)[i + 1]
    /\ \A i \in 1 .. EsBuf : i <= esNext - esFrom[s] => i <= Len(EsAll(s)) /\ EsAll(s)[i] = esFrom[s] + i - 1
    /\ ~esLost[s] => Len(EsAll(s)) = esNext - esFrom[s]
\* The ring holds the newest receipts, and every stream a run of them without a gap.
EsInv ==
    /\ esNext \in Nat \ {0} /\ esIn \subseteq EsSub
    /\ esRing \in Seq(Nat) /\ Len(esRing) = (IF esNext - 1 < EsCap THEN esNext - 1 ELSE EsCap)
    /\ \A i \in 1 .. Len(esRing) : esRing[i] = esNext - 1 - Len(esRing) + i
    /\ esChan \in [EsSub -> Seq(Nat)] /\ esGot \in [EsSub -> Seq(Nat)]
    /\ DOMAIN esFrom = EsSub /\ esLost \in [EsSub -> BOOLEAN]
    /\ \A s \in EsSub : Len(esChan[s]) <= EsBuf
    /\ \A s \in esIn : EsStream(s)

\* A receipt that is pushed, for one subscriber.
LEMMA EsOffered ==
    ASSUME EsInv, Push, NEW s \in esIn
    PROVE  /\ esChan'[s] \in Seq(Nat) /\ Len(esChan'[s]) <= EsBuf /\ EsStream(s)'
  <1>0. /\ EsAll(s) \in Seq(Nat) /\ Len(EsAll(s)) \in Nat /\ Len(EsAll(s)) = Len(esGot[s]) + Len(esChan[s])
        /\ Len(esGot[s]) \in Nat /\ Len(esChan[s]) \in Nat
        /\ Len(esGot[s] \o Append(esChan[s], esNext)) = Len(EsAll(s)) + 1
        /\ (esGot[s] \o Append(esChan[s], esNext))[Len(EsAll(s)) + 1] = esNext
        /\ \A i \in 1 .. Len(EsAll(s)) : (esGot[s] \o Append(esChan[s], esNext))[i] = EsAll(s)[i]
    <2>1. esGot[s] \in Seq(Nat) /\ esChan[s] \in Seq(Nat) /\ esNext \in Nat
      BY DEF EsInv
    <2> DEFINE g == esGot[s]
               c == esChan[s]
    <2>2. EsAll(s) = g \o c
      BY DEF EsAll
    <2> HIDE DEF g, c
    <2>3. g \in Seq(Nat) /\ c \in Seq(Nat) /\ esNext \in Nat
      BY <2>1 DEF g, c
    <2>4. /\ g \o c \in Seq(Nat) /\ Len(g \o c) = Len(g) + Len(c) /\ Len(g \o c) \in Nat
          /\ Len(g) \in Nat /\ Len(c) \in Nat
          /\ Len(g \o Append(c, esNext)) = Len(g \o c) + 1
          /\ (g \o Append(c, esNext))[Len(g \o c) + 1] = esNext
          /\ \A i \in 1 .. Len(g \o c) : (g \o Append(c, esNext))[i] = (g \o c)[i]
      BY <2>3
    <2> QED BY <2>2, <2>4 DEF g, c
  <1>1. /\ s \in EsSub /\ esNext' = esNext + 1 /\ UNCHANGED <<esGot, esFrom>> /\ esNext \in Nat \ {0}
        /\ esChan'[s] = IF Len(esChan[s]) < EsBuf THEN Append(esChan[s], esNext) ELSE esChan[s]
        /\ esLost'[s] = (esLost[s] \/ Len(esChan[s]) = EsBuf)
        /\ esGot[s] \in Seq(Nat) /\ esChan[s] \in Seq(Nat) /\ Len(esChan[s]) <= EsBuf
    BY DEF EsInv, Push, Offer
  <1>2. EsStream(s)
    BY DEF EsInv
  <1>3. CASE Len(esChan[s]) < EsBuf
    <2> DEFINE a == EsAll(s)
               b == esGot[s] \o Append(esChan[s], esNext)
    <2>1. /\ Len(a) \in Nat /\ Len(b) = Len(a) + 1 /\ b[Len(a) + 1] = esNext
          /\ \A i \in 1 .. Len(a) : b[i] = a[i] /\ a[i] \in Nat
      <3>1. /\ a \in Seq(Nat) /\ Len(a) \in Nat /\ Len(b) = Len(a) + 1 /\ b[Len(a) + 1] = esNext
            /\ \A i \in 1 .. Len(a) : b[i] = a[i]
        BY <1>0
      <3> HIDE DEF a, b
      <3> QED BY <3>1
    <2>2. EsAll(s)' = b
      BY <1>1, <1>3 DEF EsAll
    <2> HIDE DEF a, b
    <2>3. /\ esFrom[s] \in Nat \ {0} /\ esFrom[s] <= esNext /\ Len(a) <= esNext - esFrom[s]
          /\ \A i \in 1 .. Len(a) : a[i] < esNext
          /\ \A i \in 1 .. Len(a) - 1 : a[i] < a[i + 1]
          /\ \A i \in 1 .. EsBuf : i <= esNext - esFrom[s] => i <= Len(a) /\ a[i] = esFrom[s] + i - 1
          /\ ~esLost[s] => Len(a) = esNext - esFrom[s]
      BY <1>2 DEF EsStream, a
    <2>4. \A i \in 1 .. Len(b) : b[i] < esNext'
      <3>1. esNext < esNext' /\ \A i \in 1 .. Len(a) : a[i] < esNext'
        BY <1>1, <2>1, <2>3
      <3>2. \A i \in 1 .. Len(b) : i \in 1 .. Len(a) \/ i = Len(a) + 1
        BY <2>1
      <3> QED BY <2>1, <3>1, <3>2
    <2>5. \A i \in 1 .. Len(b) - 1 : b[i] < b[i + 1]
      <3> TAKE i \in 1 .. Len(b) - 1
      <3>1. CASE i = Len(a)
        BY <2>1, <2>3, <3>1
      <3>2. CASE i # Len(a)
        <4>1. i \in 1 .. Len(a) - 1 /\ i \in 1 .. Len(a) /\ i + 1 \in 1 .. Len(a)
          BY <2>1, <3>2
        <4> QED BY <2>1, <2>3, <4>1
      <3> QED BY <3>1, <3>2
    <2>6. ASSUME NEW i \in 1 .. EsBuf, i <= esNext' - esFrom[s]
          PROVE  i <= Len(b) /\ b[i] = esFrom[s] + i - 1
      <3>1. CASE i <= esNext - esFrom[s]
        <4>1. i <= Len(a) /\ a[i] = esFrom[s] + i - 1
          BY <2>3, <2>6, <3>1
        <4> QED BY <2>1, <4>1, EsBounds
      <3>2. CASE i = esNext - esFrom[s] + 1
        <4>1. Len(a) = esNext - esFrom[s]
          <5>1. CASE esNext = esFrom[s]
            BY <1>1, <2>1, <2>3, <5>1
          <5>2. CASE esNext - esFrom[s] \in 1 .. EsBuf
            <6>1. esNext - esFrom[s] <= esNext - esFrom[s]
              BY <1>1, <2>3
            <6>2. esNext - esFrom[s] <= Len(a)
              BY <2>3, <5>2, <6>1, Zenon
            <6> QED BY <1>1, <2>1, <2>3, <6>2
          <5> QED BY <1>1, <2>3, <2>6, <3>2, <5>1, <5>2, EsBounds
        <4>2. i = Len(a) + 1 /\ esNext = esFrom[s] + i - 1 /\ i \in Nat
          <5>1. esFrom[s] \in Nat /\ esNext \in Nat
            BY <1>1, <2>3
          <5> QED BY <3>2, <4>1, <5>1
        <4> QED BY <2>1, <4>2
      <3> QED BY <1>1, <2>3, <2>6, <3>1, <3>2, EsBounds
    <2>7. ~esLost'[s] => Len(b) = esNext' - esFrom[s]
      <3>1. ~esLost'[s] => ~esLost[s]
        BY <1>1, Zenon
      <3>2. Len(a) = esNext - esFrom[s] => Len(b) = esNext' - esFrom[s]
        BY <1>1, <2>1, <2>3
      <3> QED BY <2>3, <3>1, <3>2, Zenon
    <2>8. esFrom[s] <= esNext' /\ Len(b) <= esNext' - esFrom[s]
      BY <1>1, <2>1, <2>3
    <2>9. esChan'[s] \in Seq(Nat) /\ Len(esChan'[s]) <= EsBuf
      BY <1>1, <1>3, EsBounds
    <2> QED BY <1>1, <2>2, <2>3, <2>4, <2>5, <2>6, <2>7, <2>8, <2>9 DEF EsStream
  <1>4. CASE Len(esChan[s]) = EsBuf
    <2> DEFINE a == EsAll(s)
    <2>1. Len(a) \in Nat /\ Len(a) >= EsBuf /\ \A i \in 1 .. Len(a) : a[i] \in Nat
      <3>1. a \in Seq(Nat) /\ Len(a) = Len(esGot[s]) + EsBuf /\ Len(esGot[s]) \in Nat
        BY <1>0, <1>4
      <3> HIDE DEF a
      <3> QED BY <3>1, EsBounds
    <2>2. EsAll(s)' = a /\ esChan'[s] = esChan[s]
      <3>1. ~(Len(esChan[s]) < EsBuf)
        BY <1>4, EsBounds
      <3>2. esChan'[s] = esChan[s] /\ esGot' = esGot
        BY <1>1, <3>1
      <3> QED BY <3>2 DEF EsAll
    <2> HIDE DEF a
    <2>3. /\ esFrom[s] \in Nat \ {0} /\ esFrom[s] <= esNext /\ Len(a) <= esNext - esFrom[s]
          /\ \A i \in 1 .. Len(a) : a[i] < esNext
          /\ \A i \in 1 .. Len(a) - 1 : a[i] < a[i + 1]
          /\ \A i \in 1 .. EsBuf : i <= esNext - esFrom[s] => i <= Len(a) /\ a[i] = esFrom[s] + i - 1
      BY <1>2 DEF EsStream, a
    <2>4. ASSUME NEW i \in 1 .. EsBuf PROVE i <= Len(a) /\ a[i] = esFrom[s] + i - 1
      <3>1. i \in Nat /\ i <= Len(a) /\ Len(a) \in Nat
        BY <2>1, EsBounds
      <3>2. esNext \in Nat /\ esFrom[s] \in Nat /\ Len(a) <= esNext - esFrom[s]
        BY <1>1, <2>3
      <3>3. i <= esNext - esFrom[s]
        BY <3>1, <3>2
      <3> QED BY <2>3, <3>3, Zenon
    <2>5. esFrom[s] <= esNext' /\ Len(a) <= esNext' - esFrom[s] /\ \A i \in 1 .. Len(a) : a[i] < esNext'
      BY <1>1, <2>1, <2>3
    <2> QED BY <1>1, <1>4, <2>2, <2>3, <2>4, <2>5 DEF EsStream
  <1> QED BY <1>1, <1>3, <1>4, EsBounds

\* The ring keeps the last receipts.
LEMMA EsRings ==
    ASSUME EsInv, Push
    PROVE  /\ esRing' \in Seq(Nat) /\ Len(esRing') = (IF esNext' - 1 < EsCap THEN esNext' - 1 ELSE EsCap)
           /\ \A i \in 1 .. Len(esRing') : esRing'[i] = esNext' - 1 - Len(esRing') + i
  <1>1. /\ esRing \in Seq(Nat) /\ esNext \in Nat \ {0} /\ esNext' = esNext + 1
        /\ Len(esRing) = (IF esNext - 1 < EsCap THEN esNext - 1 ELSE EsCap)
        /\ \A i \in 1 .. Len(esRing) : esRing[i] = esNext - 1 - Len(esRing) + i
        /\ esRing' = IF Len(esRing) >= EsCap THEN Append(Tail(esRing), esNext) ELSE Append(esRing, esNext)
    BY DEF EsInv, Push, RingAfter
  <1>2. CASE Len(esRing) >= EsCap
    <2>1. Len(esRing) = EsCap /\ esNext - 1 >= EsCap /\ esRing # <<>>
      BY <1>1, <1>2, EsBounds
    <2>2. /\ Tail(esRing) \in Seq(Nat) /\ Len(Tail(esRing)) = EsCap - 1
          /\ \A i \in 1 .. EsCap - 1 : Tail(esRing)[i] = esRing[i + 1]
      BY <1>1, <2>1, EsBounds
    <2>3. /\ esRing' \in Seq(Nat) /\ Len(esRing') = EsCap /\ esRing'[EsCap] = esNext
          /\ \A i \in 1 .. EsCap - 1 : esRing'[i] = esRing[i + 1]
      BY <1>1, <1>2, <2>2, EsBounds
    <2>4. \A i \in 1 .. EsCap - 1 : esRing[i + 1] = esNext - 1 - EsCap + (i + 1)
      BY <1>1, <2>1, EsBounds
    <2>5. ASSUME NEW i \in 1 .. EsCap PROVE esRing'[i] = esNext' - 1 - EsCap + i
      <3>1. CASE i = EsCap
        BY <1>1, <2>3, <3>1, EsBounds
      <3>2. CASE i \in 1 .. EsCap - 1
        BY <1>1, <2>3, <2>4, <3>2, EsBounds
      <3> QED BY <3>1, <3>2, EsBounds
    <2>6. Len(esRing') = (IF esNext' - 1 < EsCap THEN esNext' - 1 ELSE EsCap)
      BY <1>1, <2>1, <2>3, EsBounds
    <2> QED BY <2>3, <2>5, <2>6
  <1>3. CASE Len(esRing) < EsCap
    <2>1. Len(esRing) = esNext - 1 /\ esNext - 1 < EsCap
      BY <1>1, <1>3, EsBounds
    <2>2. /\ esRing' \in Seq(Nat) /\ Len(esRing') = esNext /\ esRing'[esNext] = esNext
          /\ \A i \in 1 .. esNext - 1 : esRing'[i] = esRing[i]
      BY <1>1, <1>3, <2>1, EsBounds
    <2>3. \A i \in 1 .. esNext - 1 : esRing[i] = i
      BY <1>1, <2>1
    <2>4. ASSUME NEW i \in 1 .. esNext PROVE esRing'[i] = i
      <3>1. i = esNext \/ i \in 1 .. esNext - 1
        BY <1>1
      <3> QED BY <2>2, <2>3, <3>1
    <2>5. Len(esRing') = (IF esNext' - 1 < EsCap THEN esNext' - 1 ELSE EsCap)
      BY <1>1, <2>1, <2>2, EsBounds
    <2>6. \A i \in 1 .. esNext : i = esNext' - 1 - esNext + i
      BY <1>1
    <2>7. Len(esRing') = esNext /\ esRing' \in Seq(Nat)
      BY <2>2
    <2> QED BY <2>4, <2>5, <2>6, <2>7
  <1>4. Len(esRing) \in Nat
    BY <1>1
  <1> QED BY <1>2, <1>3, <1>4, EsBounds

\* Every push, subscription, receipt and cancellation keeps it (receipts.go).
LEMMA EsNextInv == EsInv /\ [EsNext]_esVars => EsInv'
  <1> SUFFICES ASSUME EsInv, [EsNext]_esVars PROVE EsInv'
    OBVIOUS
  <1>1. CASE UNCHANGED esVars
    BY <1>1 DEF EsInv, EsStream, EsAll, esVars
  <1>2. CASE Push
    <2>1. /\ esNext' = esNext + 1 /\ UNCHANGED <<esIn, esGot, esFrom>>
          /\ esChan' = [s \in EsSub |-> IF s \in esIn THEN Offer(s, esNext) ELSE esChan[s]]
          /\ esLost' = [s \in EsSub |-> esLost[s] \/ (s \in esIn /\ Len(esChan[s]) = EsBuf)]
      BY <1>2 DEF Push
    <2>2. \A s \in EsSub : esChan'[s] \in Seq(Nat) /\ Len(esChan'[s]) <= EsBuf
      <3> TAKE s \in EsSub
      <3>1. CASE s \in esIn
        BY <1>2, <3>1, EsOffered
      <3>2. CASE s \notin esIn
        BY <2>1, <3>2 DEF EsInv
      <3> QED BY <3>1, <3>2
    <2>3. esChan' \in [EsSub -> Seq(Nat)] /\ esLost' \in [EsSub -> BOOLEAN]
      <3>1. esChan' = [s \in EsSub |-> esChan'[s]]
        BY <2>1
      <3> QED BY <2>1, <2>2, <3>1
    <2>4. \A s \in esIn' : EsStream(s)'
      BY <1>2, <2>1, EsOffered
    <2> QED BY <1>2, <2>1, <2>2, <2>3, <2>4, EsRings DEF EsInv
  <1>3. ASSUME NEW s \in EsSub, Subscribe(s) PROVE EsInv'
    <2>1. /\ s \notin esIn /\ esIn' = esIn \cup {s} /\ UNCHANGED <<esRing, esNext>>
          /\ esChan' = [esChan EXCEPT ![s] = <<>>] /\ esGot' = [esGot EXCEPT ![s] = <<>>]
          /\ esFrom' = [esFrom EXCEPT ![s] = esNext] /\ esLost' = [esLost EXCEPT ![s] = FALSE]
      BY <1>3 DEF Subscribe
    <2>2. EsStream(s)'
      <3>1. EsAll(s)' = <<>>
        BY <2>1 DEF EsAll, EsInv
      <3> QED BY <2>1, <3>1, EsBounds DEF EsStream, EsInv
    <2>3. ASSUME NEW r \in esIn, r # s PROVE EsStream(r)'
      BY <2>1, <2>3 DEF EsInv, EsStream, EsAll
    <2>4. /\ esChan' \in [EsSub -> Seq(Nat)] /\ esGot' \in [EsSub -> Seq(Nat)] /\ DOMAIN esFrom' = EsSub
          /\ esLost' \in [EsSub -> BOOLEAN] /\ esIn' \subseteq EsSub
      BY <2>1 DEF EsInv
    <2>5. \A r \in EsSub : Len(esChan'[r]) <= EsBuf
      BY <2>1, EsBounds DEF EsInv
    <2>6. \A r \in esIn' : EsStream(r)'
      BY <2>1, <2>2, <2>3
    <2> QED BY <2>1, <2>4, <2>5, <2>6 DEF EsInv
  <1>4. ASSUME NEW s \in EsSub, StreamEvent(s) PROVE EsInv'
    <2>1. /\ s \in esIn /\ esChan[s] # <<>> /\ UNCHANGED <<esRing, esNext, esIn, esFrom, esLost>>
          /\ esGot' = [esGot EXCEPT ![s] = Append(esGot[s], Head(esChan[s]))]
          /\ esChan' = [esChan EXCEPT ![s] = Tail(esChan[s])]
          /\ esGot[s] \in Seq(Nat) /\ esChan[s] \in Seq(Nat)
      BY <1>4 DEF StreamEvent, EsInv
    <2>2. /\ Append(esGot[s], Head(esChan[s])) \o Tail(esChan[s]) = EsAll(s)
          /\ Append(esGot[s], Head(esChan[s])) \in Seq(Nat) /\ Tail(esChan[s]) \in Seq(Nat)
          /\ Len(Tail(esChan[s])) = Len(esChan[s]) - 1
      BY <2>1, MoveHead DEF EsAll
    <2>3. EsAll(s)' = EsAll(s)
      BY <2>1, <2>2 DEF EsAll, EsInv
    <2>4. EsStream(s)'
      BY <2>1, <2>3 DEF EsInv, EsStream
    <2>5. ASSUME NEW r \in esIn, r # s PROVE EsStream(r)'
      BY <2>1, <2>5 DEF EsInv, EsStream, EsAll
    <2>6. esChan' \in [EsSub -> Seq(Nat)] /\ esGot' \in [EsSub -> Seq(Nat)]
          /\ \A r \in EsSub : Len(esChan'[r]) <= EsBuf
      BY <2>1, <2>2, EsBounds DEF EsInv
    <2> QED BY <2>1, <2>4, <2>5, <2>6 DEF EsInv
  <1>5. ASSUME NEW s \in EsSub, Unsubscribe(s) PROVE EsInv'
    <2>1. /\ esIn' = esIn \ {s} /\ esChan' = [esChan EXCEPT ![s] = <<>>]
          /\ UNCHANGED <<esRing, esNext, esGot, esFrom, esLost>>
      BY <1>5 DEF Unsubscribe
    <2>2. ASSUME NEW r \in esIn, r # s PROVE EsStream(r)'
      BY <2>1, <2>2 DEF EsInv, EsStream, EsAll
    <2>3. esChan' \in [EsSub -> Seq(Nat)] /\ esIn' \subseteq EsSub /\ \A r \in EsSub : Len(esChan'[r]) <= EsBuf
      BY <2>1, EsBounds DEF EsInv
    <2>4. \A r \in esIn' : EsStream(r)'
      BY <2>1, <2>2
    <2> QED BY <2>1, <2>3, <2>4 DEF EsInv
  <1> QED BY <1>1, <1>2, <1>3, <1>4, <1>5 DEF EsNext

\* No receipts and no streams at first.
LEMMA EsStart == EsInit => EsInv
  BY EsBounds DEF EsInit, EsInv

\* The invariant is the promise, with the ring as one function.
LEMMA EsPromise == EsInv => StreamWhole
  <1> SUFFICES ASSUME EsInv PROVE StreamWhole
    OBVIOUS
  <1>1. esRing = [i \in 1 .. Len(esRing) |-> esNext - 1 - Len(esRing) + i]
    <2>1. esRing = [i \in 1 .. Len(esRing) |-> esRing[i]]
      BY DEF EsInv
    <2> QED BY <2>1 DEF EsInv
  <1> QED BY <1>1 DEF EsInv, EsStream, EsAll, StreamWhole

-----------------------------------------------------------------------------
\* The sidecar's multiplexer

\* What a subscriber was given and what waits for it, and what an event is: its
\* publisher and its number.
MxAll(s) == mxGot[s] \o mxChan[s]
MxEvent == MxPub \X Nat
\* A sequence of events has each publisher's in the order it made them, none later
\* than its newest.
MxOrdered(all) ==
    \A i, j \in 1 .. Len(all) : i < j /\ all[i][1] = all[j][1] => all[i][2] < all[j][2]
\* Nothing in a line is newer than its publisher's newest event.
MxKnown(all, ev) == \A i \in 1 .. Len(all) : all[i][2] <= ev[all[i][1]]
\* p's newest event, number n, is not in it.
MxBefore(all, p, n) == \A i \in 1 .. Len(all) : all[i][1] = p => all[i][2] < n
\* A subscriber's line: in order, and without the event a publisher has yet to
\* send it.
MxLine(s) ==
    /\ MxOrdered(MxAll(s)) /\ MxKnown(MxAll(s), mxEv)
    /\ \A p \in MxPub : mxAt[p] # "idle" /\ s \in mxLeft[p] => MxBefore(MxAll(s), p, mxEv[p])
\* Every line is one, and a publisher sends only to subscribers there were.
MxInv ==
    /\ mxPanic = FALSE /\ mxIn \subseteq mxOpen /\ mxIn \subseteq MxSub
    /\ mxChan \in [MxSub -> Seq(MxEvent)] /\ mxGot \in [MxSub -> Seq(MxEvent)]
    /\ mxAt \in [MxPub -> {"idle", "first", "drain", "second"}]
    /\ mxEv \in [MxPub -> Nat] /\ mxLeft \in [MxPub -> SUBSET MxSub]
    /\ \A p \in MxPub : mxAt[p] # "idle" => mxLeft[p] # {} /\ mxLeft[p] \subseteq mxIn
    /\ \A s \in MxSub : Len(mxChan[s]) <= MxBuf /\ MxLine(s)

\* A new event of p, behind older ones.
LEMMA MxAppends ==
    ASSUME NEW x \in Seq(MxEvent), NEW y, NEW p \in MxPub, NEW ev \in [MxPub -> Nat],
           Len(y) = Len(x) + 1, y[Len(x) + 1] = <<p, ev[p]>>, \A i \in 1 .. Len(x) : y[i] = x[i],
           MxOrdered(x), MxKnown(x, ev), MxBefore(x, p, ev[p])
    PROVE  /\ MxOrdered(y) /\ MxKnown(y, ev)
           /\ \A q \in MxPub : q # p /\ MxBefore(x, q, ev[q]) => MxBefore(y, q, ev[q])
  <1>1. Len(x) \in Nat /\ \A i \in 1 .. Len(y) : i \in 1 .. Len(x) \/ i = Len(x) + 1
    OBVIOUS
  <1>2. <<p, ev[p]>>[1] = p /\ <<p, ev[p]>>[2] = ev[p] /\ ev[p] \in Nat
    OBVIOUS
  <1>3. MxOrdered(y)
    <2> SUFFICES ASSUME NEW i \in 1 .. Len(y), NEW j \in 1 .. Len(y), i < j, y[i][1] = y[j][1]
                 PROVE  y[i][2] < y[j][2]
      BY DEF MxOrdered
    <2>1. i \in 1 .. Len(x)
      BY <1>1
    <2>2. CASE j \in 1 .. Len(x)
      BY <2>1, <2>2 DEF MxOrdered
    <2>3. CASE j = Len(x) + 1
      BY <1>2, <2>1, <2>3 DEF MxBefore
    <2> QED BY <1>1, <2>2, <2>3
  <1>4. MxKnown(y, ev)
    <2> SUFFICES ASSUME NEW i \in 1 .. Len(y) PROVE y[i][2] <= ev[y[i][1]]
      BY DEF MxKnown
    <2>1. CASE i \in 1 .. Len(x)
      BY <2>1 DEF MxKnown
    <2>2. CASE i = Len(x) + 1
      BY <1>2, <2>2
    <2> QED BY <1>1, <2>1, <2>2
  <1>5. ASSUME NEW q \in MxPub, q # p, MxBefore(x, q, ev[q]) PROVE MxBefore(y, q, ev[q])
    <2> SUFFICES ASSUME NEW i \in 1 .. Len(y), y[i][1] = q PROVE y[i][2] < ev[q]
      BY DEF MxBefore
    <2>1. i \in 1 .. Len(x)
      BY <1>1, <1>2, <1>5
    <2> QED BY <1>5, <2>1 DEF MxBefore
  <1> QED BY <1>3, <1>4, <1>5

\* The oldest event that waits is dropped.
LEMMA MxDrops ==
    ASSUME NEW g \in Seq(MxEvent), NEW c \in Seq(MxEvent), c # <<>>, NEW ev \in [MxPub -> Nat],
           MxOrdered(g \o c), MxKnown(g \o c, ev)
    PROVE  /\ MxOrdered(g \o Tail(c)) /\ MxKnown(g \o Tail(c), ev)
           /\ \A q \in MxPub : MxBefore(g \o c, q, ev[q]) => MxBefore(g \o Tail(c), q, ev[q])
  <1> DEFINE x == g \o c
             y == g \o Tail(c)
             m(i) == IF i <= Len(g) THEN i ELSE i + 1
  <1>1. Len(g) \in Nat /\ Len(c) \in Nat /\ Len(c) >= 1 /\ Tail(c) \in Seq(MxEvent) /\ Len(Tail(c)) = Len(c) - 1
    OBVIOUS
  <1>2. Len(x) = Len(g) + Len(c) /\ Len(y) = Len(g) + Len(c) - 1
    BY <1>1
  <1>3. ASSUME NEW i \in 1 .. Len(y) PROVE m(i) \in 1 .. Len(x) /\ y[i] = x[m(i)]
    <2>1. CASE i <= Len(g)
      BY <1>1, <1>2, <2>1
    <2>2. CASE i > Len(g)
      <3>1. i - Len(g) \in 1 .. Len(Tail(c)) /\ y[i] = Tail(c)[i - Len(g)]
        BY <1>1, <1>2, <2>2
      <3>2. Tail(c)[i - Len(g)] = c[i - Len(g) + 1]
        BY <1>1, <3>1
      <3>3. i + 1 \in 1 .. Len(x) /\ x[i + 1] = c[i + 1 - Len(g)] /\ i + 1 - Len(g) = i - Len(g) + 1
        BY <1>1, <1>2, <2>2
      <3> QED BY <1>1, <2>2, <3>1, <3>2, <3>3
    <2> QED BY <1>1, <2>1, <2>2
  <1>4. \A i, j \in 1 .. Len(y) : i < j => m(i) < m(j)
    BY <1>1
  <1>5. MxOrdered(x) /\ MxKnown(x, ev)
    OBVIOUS
  <1> HIDE DEF x, y, m
  <1>6. MxOrdered(y) /\ MxKnown(y, ev)
    BY <1>3, <1>4, <1>5 DEF MxOrdered, MxKnown
  <1>7. \A q \in MxPub : MxBefore(x, q, ev[q]) => MxBefore(y, q, ev[q])
    BY <1>3 DEF MxBefore
  <1> QED BY <1>6, <1>7 DEF x, y

\* No line changes but for new subscriptions and what publishers have left to do.
LEMMA MxQuiet ==
    ASSUME MxInv, UNCHANGED <<mxChan, mxGot, mxEv>>,
           \A p \in MxPub : mxAt'[p] # "idle" => mxAt[p] # "idle" /\ mxLeft'[p] \subseteq mxLeft[p]
    PROVE  \A s \in MxSub : Len(mxChan'[s]) <= MxBuf /\ MxLine(s)'
  <1> TAKE s \in MxSub
  <1>1. MxLine(s) /\ MxAll(s)' = MxAll(s)
    BY DEF MxInv, MxAll
  <1> QED BY <1>1 DEF MxInv, MxLine

\* A publisher takes its next number and the subscribers there are (Publish).
LEMMA MxBegins ==
    ASSUME MxInv, NEW p \in MxPub, MuxBegin(p)
    PROVE  MxInv'
  <1>1. /\ mxAt[p] = "idle" /\ mxEv' = [mxEv EXCEPT ![p] = mxEv[p] + 1]
        /\ mxLeft' = [mxLeft EXCEPT ![p] = mxIn]
        /\ mxAt' = [mxAt EXCEPT ![p] = IF mxIn = {} THEN "idle" ELSE "first"]
        /\ UNCHANGED <<mxIn, mxOpen, mxChan, mxGot, mxStopped, mxPanic>>
        /\ mxEv[p] \in Nat
    BY DEF MuxBegin, MxInv
  <1>2. \A q \in MxPub : mxEv'[q] \in Nat /\ mxEv[q] \in Nat /\ mxEv[q] <= mxEv'[q] /\ (q # p => mxEv'[q] = mxEv[q])
    BY <1>1 DEF MxInv
  <1>3. ASSUME NEW s \in MxSub PROVE MxLine(s)'
    <2>1. MxAll(s)' = MxAll(s) /\ MxAll(s) \in Seq(MxEvent) /\ MxOrdered(MxAll(s)) /\ MxKnown(MxAll(s), mxEv)
      BY <1>1 DEF MxAll, MxInv, MxLine
    <2> DEFINE x == MxAll(s)
    <2>2. \A i \in 1 .. Len(x) : x[i][1] \in MxPub /\ x[i][2] \in Nat /\ x[i][2] <= mxEv[x[i][1]]
      BY <2>1 DEF MxKnown, MxEvent
    <2>3. MxKnown(x, mxEv')
      BY <1>2, <2>2 DEF MxKnown
    <2>4. MxBefore(x, p, mxEv'[p])
      BY <1>1, <1>2, <2>2 DEF MxBefore, MxInv
    <2>5. \A q \in MxPub : q # p /\ mxAt'[q] # "idle" /\ s \in mxLeft'[q] => MxBefore(x, q, mxEv'[q])
      BY <1>1, <1>2 DEF MxInv, MxLine
    <2> QED BY <2>1, <2>3, <2>4, <2>5 DEF MxLine
  <1>4. mxAt' \in [MxPub -> {"idle", "first", "drain", "second"}] /\ mxEv' \in [MxPub -> Nat]
        /\ mxLeft' \in [MxPub -> SUBSET MxSub]
    BY <1>1 DEF MxInv
  <1>5. \A q \in MxPub : mxAt'[q] # "idle" => mxLeft'[q] # {} /\ mxLeft'[q] \subseteq mxIn'
    BY <1>1 DEF MxInv
  <1> QED BY <1>1, <1>3, <1>4, <1>5 DEF MxInv

\* p goes on to its next subscriber.
LEMMA MxGoes ==
    ASSUME MxInv, NEW p \in MxPub, mxAt[p] # "idle", NEW s \in mxLeft[p], MxNextSub(p, s)
    PROVE  /\ mxAt' \in [MxPub -> {"idle", "first", "drain", "second"}] /\ mxLeft' \in [MxPub -> SUBSET MxSub]
           /\ \A q \in MxPub : mxAt'[q] # "idle" => /\ mxLeft'[q] # {} /\ mxLeft'[q] \subseteq mxIn
                                                    /\ mxAt[q] # "idle" /\ mxLeft'[q] \subseteq mxLeft[q]
           /\ s \notin mxLeft'[p]
  <1>1. /\ mxLeft' = [mxLeft EXCEPT ![p] = mxLeft[p] \ {s}]
        /\ mxAt' = [mxAt EXCEPT ![p] = IF mxLeft[p] = {s} THEN "idle" ELSE "first"]
    BY DEF MxNextSub
  <1>2. mxLeft[p] # {s} => mxLeft[p] \ {s} # {}
    OBVIOUS
  <1> QED BY <1>1, <1>2 DEF MxInv

\* p sends its newest event to s and goes on.
LEMMA MxSends ==
    ASSUME MxInv, NEW p \in MxPub, mxAt[p] # "idle", NEW s \in mxLeft[p], Len(mxChan[s]) < MxBuf,
           MxSend(p, s), MxNextSub(p, s), UNCHANGED <<mxIn, mxOpen, mxGot, mxEv, mxStopped>>
    PROVE  MxInv'
  <1> DEFINE e == <<p, mxEv[p]>>
  <1>1. s \in MxSub /\ s \in mxOpen /\ e \in MxEvent /\ mxChan[s] \in Seq(MxEvent) /\ mxGot[s] \in Seq(MxEvent)
        /\ mxEv \in [MxPub -> Nat]
    BY DEF MxInv, MxEvent
  <1>2. mxChan' = [mxChan EXCEPT ![s] = Append(mxChan[s], e)] /\ mxPanic' = FALSE
    BY <1>1 DEF MxSend, MxInv
  <1> HIDE DEF e
  <1>3. mxChan' \in [MxSub -> Seq(MxEvent)] /\ \A r \in MxSub : Len(mxChan'[r]) <= MxBuf
    <2>1. Append(mxChan[s], e) \in Seq(MxEvent) /\ Len(Append(mxChan[s], e)) = Len(mxChan[s]) + 1 /\ Len(mxChan[s]) \in Nat
      BY <1>1
    <2> QED BY <1>2, <2>1, MxAssumption DEF MxInv
  <1>4. MxLine(s)'
    <2> DEFINE x == MxAll(s)
               y == MxAll(s)'
    <2>1. x \in Seq(MxEvent) /\ Len(y) = Len(x) + 1 /\ y[Len(x) + 1] = e /\ \A i \in 1 .. Len(x) : y[i] = x[i]
      <3> DEFINE g == mxGot[s]
                 c == mxChan[s]
      <3>1. x = g \o c /\ y = g \o Append(c, e) /\ g \in Seq(MxEvent) /\ c \in Seq(MxEvent)
        BY <1>1, <1>2 DEF MxAll, MxInv
      <3> HIDE DEF g, c, x, y
      <3>2. /\ g \o c \in Seq(MxEvent)
            /\ Len(g \o Append(c, e)) = Len(g \o c) + 1 /\ (g \o Append(c, e))[Len(g \o c) + 1] = e
            /\ \A i \in 1 .. Len(g \o c) : (g \o Append(c, e))[i] = (g \o c)[i]
        BY <1>1, <3>1
      <3> QED BY <3>1, <3>2, Zenon
    <2>2. MxOrdered(x) /\ MxKnown(x, mxEv) /\ MxBefore(x, p, mxEv[p])
          /\ \A q \in MxPub : mxAt[q] # "idle" /\ s \in mxLeft[q] => MxBefore(x, q, mxEv[q])
      BY <1>1 DEF MxInv, MxLine
    <2>3. y[Len(x) + 1] = <<p, mxEv[p]>>
      BY <2>1 DEF e
    <2> HIDE DEF x, y
    <2>4. /\ MxOrdered(y) /\ MxKnown(y, mxEv)
          /\ \A q \in MxPub : q # p /\ MxBefore(x, q, mxEv[q]) => MxBefore(y, q, mxEv[q])
      BY <1>1, <2>1, <2>2, <2>3, MxAppends, Zenon
    <2>5. \A q \in MxPub : mxAt'[q] # "idle" /\ s \in mxLeft'[q] => q # p /\ mxAt[q] # "idle" /\ s \in mxLeft[q]
      BY MxGoes
    <2>6. \A q \in MxPub : mxAt'[q] # "idle" /\ s \in mxLeft'[q] => MxBefore(y, q, mxEv[q])
      BY <2>2, <2>4, <2>5, Zenon
    <2> QED BY <2>4, <2>6, mxEv' = mxEv, Zenon DEF y, MxLine
  <1>5. ASSUME NEW r \in MxSub, r # s PROVE MxLine(r)'
    <2>1. MxAll(r)' = MxAll(r) /\ MxLine(r)
      BY <1>2, <1>5 DEF MxAll, MxInv
    <2> QED BY <2>1, MxGoes DEF MxLine
  <1> QED BY <1>2, <1>3, <1>4, <1>5, MxGoes DEF MxInv

\* A publisher that found the buffer full drops its oldest event, if one is still there.
LEMMA MxDrains ==
    ASSUME MxInv, NEW p \in MxPub, MuxDrain(p)
    PROVE  MxInv'
  <1>1. PICK s \in mxLeft[p] : s = MxTurn(p)
    BY DEF MuxDrain, MxTurn, MxInv
  <1>2. /\ mxAt[p] = "drain" /\ mxAt' = [mxAt EXCEPT ![p] = "second"] /\ s \in MxSub
        /\ mxChan' = [mxChan EXCEPT ![s] = IF mxChan[s] = <<>> THEN mxChan[s] ELSE Tail(mxChan[s])]
        /\ UNCHANGED <<mxIn, mxOpen, mxGot, mxEv, mxLeft, mxStopped, mxPanic>>
        /\ mxChan[s] \in Seq(MxEvent) /\ mxGot[s] \in Seq(MxEvent) /\ mxEv \in [MxPub -> Nat]
    BY <1>1 DEF MuxDrain, MxInv
  <1>3. \A q \in MxPub : (mxAt'[q] # "idle" <=> mxAt[q] # "idle")
        /\ mxAt'[q] \in {"idle", "first", "drain", "second"}
    BY <1>2 DEF MxInv
  <1>4. mxChan'[s] \in Seq(MxEvent) /\ Len(mxChan'[s]) <= MxBuf
    BY <1>2, MxAssumption DEF MxInv
  <1>5. MxLine(s)'
    <2>1. CASE mxChan[s] = <<>>
      BY <1>2, <1>3, <2>1 DEF MxInv, MxLine, MxAll
    <2>2. CASE mxChan[s] # <<>>
      <3> DEFINE g == mxGot[s]
                 c == mxChan[s]
      <3>1. MxAll(s) = g \o c /\ MxAll(s)' = g \o Tail(c) /\ g \in Seq(MxEvent) /\ c \in Seq(MxEvent) /\ c # <<>>
        BY <1>2, <2>2 DEF MxAll, MxInv
      <3>2. MxOrdered(MxAll(s)) /\ MxKnown(MxAll(s), mxEv)
            /\ \A q \in MxPub : mxAt[q] # "idle" /\ s \in mxLeft[q] => MxBefore(MxAll(s), q, mxEv[q])
        BY <1>2 DEF MxInv, MxLine
      <3> HIDE DEF g, c
      <3>3. MxOrdered(g \o c) /\ MxKnown(g \o c, mxEv)
        BY <3>1, <3>2, Zenon
      <3>4. MxOrdered(g \o Tail(c)) /\ MxKnown(g \o Tail(c), mxEv)
           /\ \A q \in MxPub : MxBefore(g \o c, q, mxEv[q]) => MxBefore(g \o Tail(c), q, mxEv[q])
        BY <1>2, <3>1, <3>3, MxDrops, Zenon
      <3>5. MxOrdered(MxAll(s)') /\ MxKnown(MxAll(s)', mxEv)
            /\ \A q \in MxPub : mxAt'[q] # "idle" /\ s \in mxLeft[q] => MxBefore(MxAll(s)', q, mxEv[q])
        BY <1>3, <3>1, <3>2, <3>4, Zenon
      <3>6. mxEv' = mxEv /\ mxLeft' = mxLeft
        BY <1>2
      <3> QED BY <3>5, <3>6, Zenon DEF MxLine
    <2> QED BY <2>1, <2>2
  <1>6. ASSUME NEW r \in MxSub, r # s PROVE MxLine(r)' /\ mxChan'[r] = mxChan[r]
    BY <1>2, <1>3, <1>6 DEF MxInv, MxLine, MxAll
  <1>7. mxChan' \in [MxSub -> Seq(MxEvent)] /\ \A r \in MxSub : Len(mxChan'[r]) <= MxBuf
    BY <1>2, <1>4, <1>6 DEF MxInv
  <1>8. mxAt' \in [MxPub -> {"idle", "first", "drain", "second"}]
    BY <1>2 DEF MxInv
  <1> QED BY <1>2, <1>3, <1>5, <1>6, <1>7, <1>8 DEF MxInv

\* A reader takes the oldest event that waits.
LEMMA MxReceives ==
    ASSUME MxInv, NEW s \in MxSub, MuxRecv(s)
    PROVE  MxInv'
  <1>1. /\ mxChan[s] # <<>> /\ mxChan[s] \in Seq(MxEvent) /\ mxGot[s] \in Seq(MxEvent)
        /\ mxGot' = [mxGot EXCEPT ![s] = Append(mxGot[s], Head(mxChan[s]))]
        /\ mxChan' = [mxChan EXCEPT ![s] = Tail(mxChan[s])]
        /\ UNCHANGED <<mxIn, mxOpen, mxAt, mxEv, mxLeft, mxStopped, mxPanic>>
    BY DEF MuxRecv, MxInv
  <1>2. /\ Append(mxGot[s], Head(mxChan[s])) \o Tail(mxChan[s]) = MxAll(s)
        /\ Append(mxGot[s], Head(mxChan[s])) \in Seq(MxEvent) /\ Tail(mxChan[s]) \in Seq(MxEvent)
        /\ Len(Tail(mxChan[s])) = Len(mxChan[s]) - 1
    BY <1>1, MoveHead DEF MxAll
  <1>3. \A r \in MxSub : MxAll(r)' = MxAll(r)
    BY <1>1, <1>2 DEF MxAll, MxInv
  <1>4. mxChan' \in [MxSub -> Seq(MxEvent)] /\ mxGot' \in [MxSub -> Seq(MxEvent)]
        /\ \A r \in MxSub : Len(mxChan'[r]) <= MxBuf
    BY <1>1, <1>2, MxAssumption DEF MxInv
  <1>5. \A r \in MxSub : MxLine(r)'
    BY <1>1, <1>3 DEF MxInv, MxLine
  <1> QED BY <1>1, <1>4, <1>5 DEF MxInv

\* Whatever publishers, readers and subscribers do next, the lines stay in order.
LEMMA MxNextInv == MxInv /\ [MxNext]_mxVars => MxInv'
  <1> SUFFICES ASSUME MxInv, [MxNext]_mxVars PROVE MxInv'
    OBVIOUS
  <1>1. CASE UNCHANGED mxVars
    <2>1. UNCHANGED <<mxIn, mxOpen, mxChan, mxGot, mxAt, mxEv, mxLeft, mxStopped, mxPanic>>
      BY <1>1 DEF mxVars
    <2>2. \A s \in MxSub : Len(mxChan'[s]) <= MxBuf /\ MxLine(s)'
      BY <2>1, MxQuiet
    <2> QED BY <2>1, <2>2 DEF MxInv
  <1>2. ASSUME NEW s \in MxSub, MuxSubscribe(s) \/ MuxUnsubscribe(s) PROVE MxInv'
    <2>1. /\ \A p \in MxPub : mxAt[p] = "idle"
          /\ UNCHANGED <<mxChan, mxGot, mxAt, mxEv, mxLeft>>
      BY <1>2 DEF MuxSubscribe, MuxUnsubscribe, MxReaders
    <2>2. mxIn' \subseteq mxOpen' /\ mxIn' \subseteq MxSub /\ mxPanic' = FALSE
      BY <1>2 DEF MuxSubscribe, MuxUnsubscribe, MxInv
    <2>3. \A r \in MxSub : Len(mxChan'[r]) <= MxBuf /\ MxLine(r)'
      BY <2>1, MxQuiet
    <2> QED BY <2>1, <2>2, <2>3 DEF MxInv
  <1>3. ASSUME MuxStop PROVE MxInv'
    <2>1. /\ \A p \in MxPub : mxAt[p] = "idle"
          /\ UNCHANGED <<mxChan, mxGot, mxAt, mxEv, mxLeft>>
      BY <1>3 DEF MuxStop, MxReaders
    <2>2. mxIn' \subseteq mxOpen' /\ mxIn' \subseteq MxSub /\ mxPanic' = FALSE
      BY <1>3 DEF MuxStop, MxInv
    <2>3. \A r \in MxSub : Len(mxChan'[r]) <= MxBuf /\ MxLine(r)'
      BY <2>1, MxQuiet
    <2> QED BY <2>1, <2>2, <2>3 DEF MxInv
  <1>4. ASSUME NEW p \in MxPub, MuxFirst(p) PROVE MxInv'
    <2>1. PICK s \in mxLeft[p] : s = MxTurn(p)
      BY <1>4 DEF MuxFirst, MxTurn, MxInv
    <2>2. CASE Len(mxChan[s]) < MxBuf
      BY <1>4, <2>1, <2>2, MxSends DEF MuxFirst
    <2>3. CASE ~(Len(mxChan[s]) < MxBuf)
      <3>1. mxAt[p] = "first" /\ mxAt' = [mxAt EXCEPT ![p] = "drain"]
            /\ UNCHANGED <<mxChan, mxPanic, mxLeft, mxIn, mxOpen, mxGot, mxEv, mxStopped>>
        BY <1>4, <2>1, <2>3 DEF MuxFirst
      <3>2. mxAt' \in [MxPub -> {"idle", "first", "drain", "second"}] /\ \A q \in MxPub : mxAt'[q] # "idle" => mxAt[q] # "idle"
        BY <3>1 DEF MxInv
      <3>3. \A r \in MxSub : Len(mxChan'[r]) <= MxBuf /\ MxLine(r)'
        BY <3>1, <3>2, MxQuiet
      <3> QED BY <3>1, <3>2, <3>3 DEF MxInv
    <2> QED BY <2>2, <2>3
  <1>5. ASSUME NEW p \in MxPub, MuxSecond(p) PROVE MxInv'
    <2>1. PICK s \in mxLeft[p] : s = MxTurn(p)
      BY <1>5 DEF MuxSecond, MxTurn, MxInv
    <2>2. CASE Len(mxChan[s]) < MxBuf
      BY <1>5, <2>1, <2>2, MxSends DEF MuxSecond
    <2>3. CASE ~(Len(mxChan[s]) < MxBuf)
      <3>1. mxAt[p] # "idle" /\ MxNextSub(p, s)
            /\ UNCHANGED <<mxChan, mxPanic, mxIn, mxOpen, mxGot, mxEv, mxStopped>>
        BY <1>5, <2>1, <2>3 DEF MuxSecond
      <3>2. /\ mxAt' \in [MxPub -> {"idle", "first", "drain", "second"}] /\ mxLeft' \in [MxPub -> SUBSET MxSub]
            /\ \A q \in MxPub : mxAt'[q] # "idle" => /\ mxLeft'[q] # {} /\ mxLeft'[q] \subseteq mxIn
                                                     /\ mxAt[q] # "idle" /\ mxLeft'[q] \subseteq mxLeft[q]
        BY <2>1, <3>1, MxGoes
      <3>3. \A r \in MxSub : Len(mxChan'[r]) <= MxBuf /\ MxLine(r)'
        BY <3>1, <3>2, MxQuiet
      <3> QED BY <3>1, <3>2, <3>3 DEF MxInv
    <2> QED BY <2>2, <2>3
  <1> QED BY <1>1, <1>2, <1>3, <1>4, <1>5, MxBegins, MxDrains, MxReceives DEF MxNext

\* Nobody is subscribed at first.
LEMMA MxStart == MxInit => MxInv
  <1> SUFFICES ASSUME MxInit PROVE MxInv
    OBVIOUS
  <1>1. \A s \in MxSub : MxAll(s) = <<>>
    BY DEF MxInit, MxAll
  <1>2. \A s \in MxSub : MxLine(s)
    BY <1>1 DEF MxInit, MxLine, MxOrdered, MxKnown
  <1> QED BY <1>2, MxAssumption DEF MxInit, MxInv

\* The invariant is the promise.
LEMMA MxPromise == MxInv => MuxOrder
  <1> SUFFICES ASSUME MxInv, NEW s \in MxSub
               PROVE  LET all == mxGot[s] \o mxChan[s] IN
                        /\ Len(mxChan[s]) <= MxBuf
                        /\ \A i, j \in DOMAIN all : i < j /\ all[i][1] = all[j][1] => all[i][2] < all[j][2]
    BY DEF MuxOrder, MxInv
  <1>1. MxAll(s) = mxGot[s] \o mxChan[s] /\ MxAll(s) \in Seq(MxEvent) /\ MxOrdered(MxAll(s)) /\ Len(mxChan[s]) <= MxBuf
    BY DEF MxAll, MxInv, MxLine
  <1>2. DOMAIN MxAll(s) = 1 .. Len(MxAll(s))
    BY <1>1
  <1> QED BY <1>1, <1>2, Zenon DEF MxOrdered

-----------------------------------------------------------------------------
\* For every number of senders, subscribers and publishers and every size of the
\* buffers: no audit event is lost uncounted or sent twice, a stream misses only what
\* came while it was full, and no reader gets one publisher's events out of order or
\* from a closed channel (export.go, receipts.go, mux.go).
THEOREM EventBuffersHold ==
    (SxInit /\ [][SxNext]_sxVars) /\ (EsInit /\ [][EsNext]_esVars) /\ (MxInit /\ [][MxNext]_mxVars)
        => []BuffersHold
  <1>1. SxInv => ExportAccounted
    <2> SUFFICES ASSUME SxInv PROVE ExportAccounted
      OBVIOUS
    <2>1. SxBusy = {s \in SxSender : sxSending[s] # <<>>}
      BY DEF SxBusy
    <2> QED BY <2>1 DEF SxInv, ExportAccounted
  <1>2. SxInv /\ EsInv /\ MxInv => BuffersHold
    BY <1>1, EsPromise, MxPromise DEF BuffersHold
  <1> QED BY <1>2, SxStart, SxNextInv, EsStart, EsNextInv, MxStart, MxNextInv, PTL

-----------------------------------------------------------------------------
\* Installing the guard

\* The settings of any agent.
GiSettings == [kind : {"none", "array", "object"}, hooks : SUBSET GiEntries, guards : Nat, parked : SUBSET GiEntries]
\* Settings the agent at hand can have: only the array of an older Claude Code is
\* still to be migrated, and nothing is parked before.
GiFits(s) ==
    /\ s \in GiSettings /\ (s.kind = "object" => giAgent = "claude-code") /\ (s.kind # "object" => s.parked = {})
    /\ (giAgent = "none" => s = GiEmpty)
\* Settings a save may put in place: they keep the user's hooks and name the guard
\* once, when its script is there.
GiSound(s) ==
    /\ GiFits(s) /\ (~giRaced => giUser \subseteq s.hooks \cup s.parked)
    /\ (giAgent # "aider" => s.guards <= 1) /\ (s.guards > 0 => giScript)
\* The settings in place are sound, and so are those a command is about to save.
GiInv ==
    /\ giAgent \in Agents \cup {"none"} /\ giScript \in BOOLEAN /\ giRaced \in BOOLEAN
    /\ giUser \subseteq GiEntries /\ giAt \in [GiProc -> {"idle", "script", "load", "save"}]
    /\ giHeld \in [GiProc -> GiSettings]
    /\ (giAgent = "none" => \A p \in GiProc : giAt[p] = "idle")
    /\ GiSound(giSet)
    /\ \A p \in GiProc : /\ (giAt[p] \in {"load", "save"} => giScript)
                         /\ (giAt[p] = "save" => GiSound(giHeld[p]))
                         /\ (giAt[p] = "save" /\ giAgent = "claude-code" => giHeld[p].kind = "object")

\* Whatever sound settings are read, what is to be written is sound.
LEMMA GiChanges ==
    ASSUME GiInv, giAgent # "none", giScript
    PROVE  GiSound(Changed(giSet)) /\ (giAgent = "claude-code" /\ Changed(giSet) # giSet => Changed(giSet).kind = "object")
  <1> DEFINE s == giSet
  <1>1. GiSound(s) /\ s \in GiSettings
    BY DEF GiInv, GiSound, GiFits
  <1>2. CASE giAgent = "claude-code"
    <2> DEFINE m == MigrateLegacyHooks(s)
    <2>1. /\ m \in GiSettings /\ m.kind \in {"object", "none"} /\ m.guards = s.guards
          /\ m.hooks \cup m.parked = s.hooks \cup s.parked
      <3>1. CASE s.kind = "array"
        <4>1. m = [kind |-> "object", hooks |-> s.hooks \ GiBare, guards |-> s.guards,
                   parked |-> IF s.hooks \cap GiBare = {} THEN s.parked ELSE s.hooks \cap GiBare]
          BY <1>1, <3>1 DEF MigrateLegacyHooks, GiSettings
        <4>2. s.parked = {} /\ s.hooks \in SUBSET GiEntries /\ s.guards \in Nat
          BY <1>1, <3>1 DEF GiSound, GiFits, GiSettings
        <4> QED BY <4>1, <4>2 DEF GiSettings
      <3>2. CASE s.kind # "array"
        BY <1>1, <3>2 DEF MigrateLegacyHooks, GiSettings
      <3> QED BY <3>1, <3>2
    <2>2. Changed(s) = IF m.guards > 0 THEN m ELSE [m EXCEPT !.kind = "object", !.guards = m.guards + 1]
      BY <1>2, <2>1 DEF Changed, HookAlreadyInstalled, AppendHook
    <2> HIDE DEF m
    <2>3. /\ Changed(s) \in GiSettings /\ Changed(s).kind \in {"object", "none"} /\ Changed(s).guards <= 1
          /\ Changed(s).hooks = m.hooks /\ Changed(s).parked = m.parked
      <3>1. CASE m.guards > 0
        BY <1>1, <1>2, <2>1, <2>2, <3>1 DEF GiSound
      <3>2. CASE ~(m.guards > 0)
        <4>1. Changed(s) = [kind |-> "object", hooks |-> m.hooks, guards |-> m.guards + 1, parked |-> m.parked]
          BY <2>1, <2>2, <3>2 DEF GiSettings
        <4>2. m.guards = 0 /\ m.hooks \in SUBSET GiEntries /\ m.parked \in SUBSET GiEntries
          BY <2>1, <3>2 DEF GiSettings
        <4> QED BY <4>1, <4>2 DEF GiSettings
      <3> QED BY <3>1, <3>2
    <2>4. Changed(s) # s => Changed(s).kind = "object"
      <3>1. CASE m.guards > 0
        BY <2>1, <2>2, <3>1 DEF m, MigrateLegacyHooks
      <3>2. CASE ~(m.guards > 0)
        BY <2>1, <2>2, <3>2 DEF GiSettings
      <3> QED BY <3>1, <3>2
    <2> QED BY <1>1, <1>2, <2>1, <2>3, <2>4 DEF GiSound, GiFits
  <1>3. CASE giAgent # "claude-code"
    <2>1. s.kind \in {"array", "none"}
      BY <1>1, <1>3 DEF GiSound, GiFits, GiSettings
    <2>2. Changed(s) = s \/ (Changed(s) = [s EXCEPT !.kind = "array", !.guards = s.guards + 1]
                              /\ (giAgent # "aider" => ~(s.guards > 0)) /\ (giAgent = "aider" => s.kind = "none"))
      BY <1>3, <2>1 DEF Changed, HookAlreadyInstalled, AppendHook
    <2>3. s.parked = {}
      BY <1>1, <1>3, <2>1 DEF GiSound, GiFits
    <2>4. CASE Changed(s) # s
      <3>1. Changed(s) = [kind |-> "array", hooks |-> s.hooks, guards |-> s.guards + 1, parked |-> s.parked]
        BY <1>1, <2>2, <2>4 DEF GiSettings
      <3> QED BY <1>1, <1>3, <2>2, <2>3, <2>4, <3>1 DEF GiSound, GiFits, GiSettings
    <2> QED BY <1>1, <1>3, <2>4
  <1> QED BY <1>2, <1>3

\* A step that leaves the settings and the user's hooks alone, and at most writes
\* the script.
LEMMA GiMoves ==
    ASSUME GiInv, NEW p \in GiProc, NEW at \in {"idle", "script", "load", "save"}, giAgent # "none",
           UNCHANGED <<giAgent, giSet, giUser, giRaced>>, giAt' = [giAt EXCEPT ![p] = at],
           giHeld' \in [GiProc -> GiSettings], \A q \in GiProc \ {p} : giHeld'[q] = giHeld[q],
           giScript' \in BOOLEAN, giScript => giScript', at = "load" => giScript',
           at = "save" => GiSound(giHeld[p])' /\ giScript' /\ (giAgent = "claude-code" => giHeld'[p].kind = "object")
    PROVE  GiInv'
  <1>2. giSet \in GiSettings /\ \A q \in GiProc : giHeld[q] \in GiSettings
    BY DEF GiInv, GiSound, GiFits
  <1>3. ASSUME NEW q \in GiProc
        PROVE  /\ (giAt'[q] \in {"load", "save"} => giScript')
               /\ (giAt'[q] = "save" => GiSound(giHeld[q])')
               /\ (giAt'[q] = "save" /\ giAgent = "claude-code" => giHeld'[q].kind = "object")
    <2>1. CASE q = p
      BY <2>1 DEF GiInv
    <2>2. CASE q # p
      <3>1. giHeld'[q] = giHeld[q] /\ giAt'[q] = giAt[q] /\ giHeld[q] \in GiSettings
        BY <1>2, <2>2 DEF GiInv
      <3>2. giAt[q] = "save" => GiSound(giHeld[q])'
        BY <3>1 DEF GiInv, GiSound, GiFits
      <3> QED BY <3>1, <3>2 DEF GiInv
    <2> QED BY <2>1, <2>2
  <1>4. GiSound(giSet)'
    BY DEF GiInv, GiSound, GiFits
  <1>5. /\ giAgent' \in Agents \cup {"none"} /\ giUser' \subseteq GiEntries /\ giRaced' \in BOOLEAN
        /\ giAt' \in [GiProc -> {"idle", "script", "load", "save"}]
    BY DEF GiInv
  <1> QED BY <1>3, <1>4, <1>5 DEF GiInv

\* Whatever the user or a command does next, the settings stay sound.
LEMMA GiNextInv == GiInv /\ [GiNext]_giVars => GiInv'
  <1> SUFFICES ASSUME GiInv, [GiNext]_giVars PROVE GiInv'
    OBVIOUS
  <1>0. giSet \in GiSettings /\ \A q \in GiProc : giHeld[q] \in GiSettings
    BY DEF GiInv, GiSound, GiFits
  <1>1. CASE UNCHANGED giVars
    BY <1>1 DEF GiInv, GiSound, GiFits, giVars
  <1>2. ASSUME NEW a \in Agents, NEW k \in {"object", "array"}, NEW s \in SUBSET GiEntries, FoundSettings(a, k, s)
        PROVE  GiInv'
    <2>1. /\ giAgent = "none" /\ giAgent' = a /\ a # "none" /\ (k = "object" => a = "claude-code")
          /\ giSet' = [kind |-> IF s = {} THEN "none" ELSE k, hooks |-> s, guards |-> 0, parked |-> {}]
          /\ giUser' = s /\ UNCHANGED <<giScript, giAt, giHeld, giCmds, giRaced>>
      BY <1>2 DEF FoundSettings, GiEmpty, Kinds, Agents
    <2>2. \A q \in GiProc : giAt'[q] = "idle"
      BY <2>1 DEF GiInv
    <2>3. GiSound(giSet)'
      BY <2>1 DEF GiSound, GiFits, GiSettings
    <2> QED BY <2>1, <2>2, <2>3 DEF GiInv
  <1>3. ASSUME NEW e \in GiEntries, UserAdds(e) PROVE GiInv'
    <2>1. /\ giAgent \in {"claude-code", "cursor", "opencode"} /\ giUser' = giUser \cup {e}
          /\ giSet' = [giSet EXCEPT !.hooks = giSet.hooks \cup {e},
                           !.kind = IF giSet.kind # "none" THEN giSet.kind
                                    ELSE IF giAgent = "claude-code" THEN "object" ELSE "array"]
          /\ giRaced' = (giRaced \/ \E p \in GiProc : giAt[p] = "save")
          /\ UNCHANGED <<giAgent, giScript, giAt, giHeld, giCmds>>
      BY <1>3 DEF UserAdds
    <2>2. giSet' = [kind |-> IF giSet.kind # "none" THEN giSet.kind
                             ELSE IF giAgent = "claude-code" THEN "object" ELSE "array",
                    hooks |-> giSet.hooks \cup {e}, guards |-> giSet.guards, parked |-> giSet.parked]
      BY <1>0, <2>1 DEF GiSettings
    <2>3. giSet' \in GiSettings /\ giRaced' \in BOOLEAN /\ (giRaced => giRaced')
      <3>1. giSet.kind \in {"none", "array", "object"} /\ giSet.hooks \in SUBSET GiEntries
            /\ giSet.guards \in Nat /\ giSet.parked \in SUBSET GiEntries
        BY <1>0 DEF GiSettings
      <3>2. giSet' \in GiSettings
        BY <2>2, <3>1 DEF GiSettings
      <3> QED BY <2>1, <3>2 DEF GiInv
    <2>4. GiSound(giSet)'
      BY <1>0, <2>1, <2>2, <2>3 DEF GiInv, GiSound, GiFits, GiSettings
    <2>5. ASSUME NEW q \in GiProc, giAt[q] = "save" PROVE GiSound(giHeld[q])'
      BY <1>0, <2>1, <2>5 DEF GiInv, GiSound, GiFits
    <2>6. giUser' \subseteq GiEntries
      BY <2>1 DEF GiInv
    <2> QED BY <2>1, <2>3, <2>4, <2>5, <2>6 DEF GiInv
  <1>4. ASSUME NEW p \in GiProc, InstallStart(p) \/ WriteGuardScript(p) \/ InstallFails(p) PROVE GiInv'
    <2>1. PICK at \in {"idle", "script", "load"} : giAt' = [giAt EXCEPT ![p] = at] /\ (at = "load" => giScript')
      BY <1>4 DEF InstallStart, WriteGuardScript, InstallFails
    <2>2. /\ UNCHANGED <<giAgent, giSet, giUser, giRaced, giHeld>> /\ giScript' \in BOOLEAN /\ (giScript => giScript')
          /\ giAgent # "none"
      BY <1>4 DEF InstallStart, WriteGuardScript, InstallFails, GiInv
    <2> QED BY <1>0, <2>1, <2>2, GiMoves DEF GiInv
  <1>5. ASSUME NEW p \in GiProc, LoadSettings(p) PROVE GiInv'
    <2>1. /\ giAt[p] = "load" /\ giHeld' = [giHeld EXCEPT ![p] = Changed(giSet)]
          /\ giAt' = [giAt EXCEPT ![p] = IF Changed(giSet) = giSet THEN "idle" ELSE "save"]
          /\ UNCHANGED <<giAgent, giScript, giSet, giCmds, giUser, giRaced>>
          /\ giScript /\ giAgent # "none"
      BY <1>5 DEF LoadSettings, GiInv
    <2>2. GiSound(Changed(giSet)) /\ (giAgent = "claude-code" /\ Changed(giSet) # giSet => Changed(giSet).kind = "object")
      BY <2>1, GiChanges
    <2>3. Changed(giSet) \in GiSettings /\ giHeld'[p] = Changed(giSet) /\ giHeld' \in [GiProc -> GiSettings]
          /\ \A q \in GiProc \ {p} : giHeld'[q] = giHeld[q]
      BY <2>1, <2>2 DEF GiSound, GiFits, GiInv
    <2>4. GiSound(giHeld[p])'
      <3>1. GiSound(Changed(giSet)) /\ giHeld'[p] = Changed(giSet)
        BY <2>2, <2>3
      <3> HIDE DEF Changed
      <3> QED BY <2>1, <3>1 DEF GiSound, GiFits
    <2>5. CASE Changed(giSet) = giSet
      BY <2>1, <2>3, <2>5, GiMoves DEF GiInv
    <2>6. CASE Changed(giSet) # giSet
      BY <2>1, <2>2, <2>3, <2>4, <2>6, GiMoves DEF GiInv
    <2> QED BY <2>5, <2>6
  <1>6. ASSUME NEW p \in GiProc, SaveSettings(p) PROVE GiInv'
    <2>1. /\ giAt[p] = "save" /\ giAt' = [giAt EXCEPT ![p] = "idle"]
          /\ giSet' = (IF giAgent = "aider" THEN AppendHook(giSet, "array") ELSE giHeld[p])
          /\ UNCHANGED <<giAgent, giScript, giHeld, giCmds, giUser, giRaced>>
          /\ giScript /\ giAgent # "none" /\ GiSound(giHeld[p]) /\ GiSound(giSet)
      BY <1>6 DEF SaveSettings, GiInv
    <2>2. GiSound(giSet)'
      <3>1. CASE giAgent = "aider"
        <4>1. giSet.kind \in {"array", "none"}
          BY <1>0, <2>1, <3>1 DEF GiSound, GiFits, GiSettings
        <4>2. giSet' = [kind |-> "array", hooks |-> giSet.hooks, guards |-> giSet.guards + 1, parked |-> giSet.parked]
          BY <1>0, <2>1, <3>1, <4>1 DEF AppendHook, GiSettings
        <4>3. giSet.guards + 1 \in Nat /\ giSet.hooks \in SUBSET GiEntries /\ giSet.parked \in SUBSET GiEntries
          BY <1>0 DEF GiSettings
        <4>4. giSet' \in GiSettings /\ giSet'.kind = "array" /\ giSet'.parked = giSet.parked /\ giSet'.hooks = giSet.hooks
          BY <4>2, <4>3 DEF GiSettings
        <4> QED BY <2>1, <3>1, <4>1, <4>4 DEF GiSound, GiFits
      <3>2. CASE giAgent # "aider"
        BY <2>1, <3>2 DEF GiSound, GiFits
      <3> QED BY <3>1, <3>2
    <2>3. \A q \in GiProc : giAt[q] = "save" => GiSound(giHeld[q])'
      BY <2>1 DEF GiInv, GiSound, GiFits
    <2>4. giAt' \in [GiProc -> {"idle", "script", "load", "save"}] /\ \A q \in GiProc : giAt'[q] = "idle" \/ giAt'[q] = giAt[q]
      BY <2>1 DEF GiInv
    <2> QED BY <1>0, <2>1, <2>2, <2>3, <2>4 DEF GiInv
  <1> QED BY <1>1, <1>2, <1>3, <1>4, <1>5, <1>6 DEF GiNext

\* For any commands, hooks and agents: the user's hooks survive every install and
\* migration that does not race with the user, and the guard is there at most once,
\* with its script (guard/install.go).
THEOREM GuardInstallHolds == GiInit /\ [][GiNext]_giVars => []GuardHolds
  <1>1. GiInit => GiInv
    <2> SUFFICES ASSUME GiInit PROVE GiInv
      OBVIOUS
    <2>1. GiEmpty \in GiSettings /\ GiEmpty.kind = "none" /\ GiEmpty.guards = 0 /\ GiEmpty.parked = {}
      BY DEF GiSettings, GiEmpty
    <2>2. GiSound(giSet)
      BY <2>1 DEF GiInit, GiSound, GiFits
    <2> QED BY <2>1, <2>2 DEF GiInit, GiInv
  <1>2. GiInv => GuardHolds
    BY DEF GiInv, GiSound, GuardHolds, UserHooksKept, GuardOnce
  <1> QED BY <1>1, <1>2, GiNextInv, PTL

-----------------------------------------------------------------------------
\* keylatch doctor

\* What the report holds of the checks S, taken of machine m, and of it as it is now.
DrTakenOf(m, S) == {c \in {GatherChecks(m)[i] : i \in S} : InScope(c, drCmd.scope)}
DrTaken(S) == DrTakenOf(drM, S)
\* A repair that mended the unlock item and failed then; the machine before it.
DrHalf == drCmd.mended /\ ~drCmd.repaired
DrBefore(m) == \A f \in DOMAIN Bootstrapped \ {"acl"} : m[f] = drM[f]
DrWarned == \E c \in drCmd.report : c.name = "acl.keychain_unlock" /\ c.verdict # "ok"
\* A check is made of what is there; while nobody else changes anything the report
\* is what the checks made so far say of the machine, or of the machine before a
\* repair that stopped halfway.
DrInv ==
    /\ drChanges \in Nat /\ DOMAIN drM = DOMAIN Bootstrapped /\ drM.audit \in AuditState
    /\ DOMAIN drCmd = {"at", "next", "scope", "report", "mended", "repaired", "exit", "printed"}
    /\ drCmd.at \in {"idle", "run", "repair", "ask", "mend", "items", "exit", "done"}
    /\ drCmd.next \in 1 .. Total /\ drCmd.exit \in 0 .. 2
    /\ drCmd.at \in {"idle", "repair", "ask", "mend", "items"} => drCmd.next = 1
    /\ drCmd.at = "done" => drCmd.printed = drCmd.exit /\ drCmd.exit = ExitCode(Verdicts(drCmd.report))
    /\ drCmd.at \in {"idle", "run", "repair", "ask", "mend"} => ~DrHalf
    /\ drCmd.at \in {"repair", "ask", "mend"} => ~drCmd.repaired
    /\ drCmd.at = "items" => DrHalf
    /\ drChanges = 0 /\ drCmd.at = "run" => drCmd.report = DrTaken(1 .. drCmd.next - 1)
    /\ drChanges = 0 /\ drCmd.at \in {"repair", "ask", "mend", "exit", "done"} /\ ~DrHalf => drCmd.report = DrTaken(1 .. Total)
    /\ drChanges = 0 /\ drCmd.at \in {"ask", "mend"} => DrWarned
    /\ drChanges = 0 /\ DrHalf =>
         drM.acl = "ok" /\ DrWarned /\ \E m : DrBefore(m) /\ drCmd.report = DrTakenOf(m, 1 .. Total)

\* The checks of one step follow one another.
LEMMA DrBlocks ==
    ASSUME NEW k \in 1 .. Total
    PROVE  \E n \in k .. Total : Block(k) = k .. n
  <1> USE DEF Total
  <1>1. CASE ~(drFaults + drChanges < DrMaxFaults)
    <2>1. Block(k) = k .. Total
      BY <1>1 DEF Block
    <2> QED BY <2>1
  <1>2. CASE drFaults + drChanges < DrMaxFaults
    <2>1. Block(k) = {i \in k .. Total : \A j \in (k + 1) .. i : j \notin ReadsConfig}
      BY <1>2 DEF Block
    <2>2. ASSUME NEW n \in k .. Total, n = Total \/ n + 1 \in ReadsConfig, \A j \in (k + 1) .. n : j \notin ReadsConfig
          PROVE  {i \in k .. Total : \A j \in (k + 1) .. i : j \notin ReadsConfig} = k .. n
      <3>1. ASSUME NEW i \in k .. n PROVE \A j \in (k + 1) .. i : j \notin ReadsConfig
        <4>1. \A j \in (k + 1) .. i : j \in (k + 1) .. n
          OBVIOUS
        <4> QED BY <2>2, <4>1
      <3>2. ASSUME NEW i \in k .. Total, \A j \in (k + 1) .. i : j \notin ReadsConfig PROVE i \in k .. n
        <4>1. i > n => n + 1 \in (k + 1) .. i /\ n + 1 \in ReadsConfig
          BY <2>2
        <4> QED BY <3>2, <4>1
      <3> QED BY <3>1, <3>2
    <2>3. \E n \in k .. Total : (n = Total \/ n + 1 \in ReadsConfig) /\ \A j \in (k + 1) .. n : j \notin ReadsConfig
      <3> USE DEF ReadsConfig
      <3>1. CASE k \in 23 .. 35
        <4>1. 35 \in k .. Total /\ \A j \in (k + 1) .. 35 : j \notin ReadsConfig
          BY <3>1
        <4> QED BY <4>1
      <3>2. CASE k \in 17 .. 21
        <4>1. 21 \in k .. Total /\ \A j \in (k + 1) .. 21 : j \notin ReadsConfig
          BY <3>2
        <4> QED BY <4>1
      <3>3. CASE k \in 12 .. 13
        <4>1. 13 \in k .. Total /\ \A j \in (k + 1) .. 13 : j \notin ReadsConfig
          BY <3>3
        <4> QED BY <4>1
      <3>4. CASE k \in 2 .. 10
        <4>1. 10 \in k .. Total /\ \A j \in (k + 1) .. 10 : j \notin ReadsConfig
          BY <3>4
        <4> QED BY <4>1
      <3>5. CASE k \in {1, 11, 14, 15, 16, 22}
        <4>1. k \in k .. Total /\ k + 1 \in ReadsConfig /\ \A j \in (k + 1) .. k : j \notin ReadsConfig
          BY <3>5
        <4> QED BY <4>1
      <3> QED BY <3>1, <3>2, <3>3, <3>4, <3>5
    <2> QED BY <2>1, <2>2, <2>3
  <1> QED BY <1>1, <1>2

\* What is not shown does not change the exit code.
LEMMA DrSummary ==
    ASSUME NEW r
    PROVE  Summary(Shown(r)) = ExitCode(Verdicts(r)) /\ Summary(r) = ExitCode(Verdicts(r)) /\ ExitCode(Verdicts(r)) \in 0 .. 2
  <1>1. "fail" \in Verdicts(Shown(r)) <=> "fail" \in Verdicts(r)
    BY DEF Verdicts, Shown
  <1>2. "warn" \in Verdicts(Shown(r)) <=> "warn" \in Verdicts(r)
    BY DEF Verdicts, Shown
  <1> QED BY <1>1, <1>2 DEF Summary, ExitCode

\* The checks are a sequence of thirty-five.
LEMMA DrChecks ==
    ASSUME NEW m
    PROVE  Range(GatherChecks(m)) = {GatherChecks(m)[i] : i \in 1 .. Total}
  <1>1. DOMAIN GatherChecks(m) = 1 .. 35
    BY DEF GatherChecks
  <1> QED BY <1>1 DEF Range, Total

\* Nothing was checked yet of the machine bootstrap left.
LEMMA DrStart == DrInit => DrInv
  <1> SUFFICES ASSUME DrInit PROVE DrInv
    OBVIOUS
  <1>1. drM = Bootstrapped /\ drChanges = 0 /\ drCmd = DrIdle
    BY DEF DrInit
  <1>2. Bootstrapped.audit \in AuditState
    BY DEF Bootstrapped, AuditState
  <1> QED BY <1>1, <1>2 DEF DrInv, DrIdle, Total, DrHalf

\* The report stays as it is and the command goes towards its end.
LEMMA DrEnds ==
    ASSUME DrInv, UNCHANGED <<drM, drChanges>>, drCmd.at \in {"items", "exit"}, drCmd'.at \in {"exit", "done"},
           DOMAIN drCmd' = DOMAIN drCmd, drCmd'.scope = drCmd.scope, drCmd'.next = drCmd.next, drCmd'.report = drCmd.report,
           drCmd'.mended = drCmd.mended, drCmd'.repaired = drCmd.repaired, drCmd'.exit \in 0 .. 2,
           drCmd'.at = "done" => drCmd'.printed = drCmd'.exit /\ drCmd'.exit = ExitCode(Verdicts(drCmd'.report))
    PROVE  DrInv'
  <1>1. DrTaken(1 .. Total)' = DrTaken(1 .. Total) /\ (DrHalf' <=> DrHalf) /\ (DrWarned' <=> DrWarned)
    BY DEF DrTaken, DrTakenOf, DrHalf, DrWarned
  <1>2. \A m : (DrBefore(m)' <=> DrBefore(m)) /\ DrTakenOf(m, 1 .. Total)' = DrTakenOf(m, 1 .. Total)
    BY DEF DrBefore, DrTakenOf
  <1> QED BY <1>1, <1>2 DEF DrInv

\* Every step keeps it: checks add what they say of the machine (doctor.Run), and a
\* repair that changed the keychain has everything checked anew (doctor_repair.go:92).
LEMMA DrStep ==
    ASSUME DrInv, [DrNext]_drVars
    PROVE  DrInv'
  <1> USE DEF Total
  <1>0. /\ drChanges \in Nat /\ DOMAIN drM = DOMAIN Bootstrapped /\ drM.audit \in AuditState
        /\ DOMAIN drCmd = {"at", "next", "scope", "report", "mended", "repaired", "exit", "printed"}
        /\ drCmd.next \in 1 .. Total /\ drCmd.exit \in 0 .. 2
    BY DEF DrInv
  <1>1. CASE UNCHANGED drVars
    BY <1>1 DEF drVars, DrInv, DrTaken, DrTakenOf, DrHalf, DrWarned, DrBefore
  <1>2. ASSUME NEW f \in DOMAIN DrFact, NEW v \in DrFact[f], Fault(f, v) PROVE DrInv'
    <2>1. /\ drCmd.at = "idle" /\ drM' = [drM EXCEPT ![f] = v] /\ UNCHANGED <<drChanges, drCmd>>
      BY <1>2 DEF Fault, DrAt
    <2>2. DOMAIN drM' = DOMAIN Bootstrapped
      BY <1>0, <2>1
    <2>3. drM'.audit \in AuditState
      <3>1. "audit" \in DOMAIN drM
        BY <1>0 DEF Bootstrapped
      <3>2. f = "audit" => drM'["audit"] = v
        BY <2>1, <3>1
      <3>3. f # "audit" => drM'["audit"] = drM["audit"]
        BY <2>1, <3>1
      <3>4. f = "audit" => v \in AuditState
        BY DoctorAssumption
      <3> QED BY <1>0, <3>2, <3>3, <3>4
    <2>4. ~DrHalf /\ ~DrHalf'
      BY <2>1 DEF DrInv, DrHalf
    <2> QED BY <2>1, <2>2, <2>3, <2>4 DEF DrInv
  <1>3. CASE OtherMachine
    <2>1. /\ drCmd.at = "idle" /\ drM' \in {BootstrappedMac, BootstrappedOP} /\ UNCHANGED <<drChanges, drCmd>>
      BY <1>3 DEF OtherMachine, DrAt
    <2>2. DOMAIN drM' = DOMAIN Bootstrapped
      BY <2>1 DEF BootstrappedMac, BootstrappedOP
    <2>3. drM'.audit = "ok"
      <3> DEFINE R == Bootstrapped
      <3>1. R.audit = "ok" /\ "audit" \in DOMAIN R
        BY DEF Bootstrapped
      <3>2. BootstrappedMac.audit = R.audit /\ BootstrappedOP.audit = R.audit
        <4>1. BootstrappedMac.audit = R.audit
          BY <3>1 DEF BootstrappedMac, R
        <4>2. BootstrappedOP.audit = R.audit
          BY <3>1 DEF BootstrappedOP, R
        <4> QED BY <4>1, <4>2
      <3> QED BY <2>1, <3>1, <3>2
    <2>4. ~DrHalf /\ ~DrHalf'
      BY <2>1 DEF DrInv, DrHalf
    <2> QED BY <2>1, <2>2, <2>3, <2>4 DEF DrInv, AuditState
  <1>4. ASSUME NEW v \in DrOther, ConfigChanges(v) PROVE DrInv'
    <2>1. /\ drCmd.at \notin {"idle", "done"} /\ drM' = [drM EXCEPT !.backend = v, !.conf = "ok"]
          /\ drChanges' = drChanges + 1 /\ UNCHANGED drCmd
      BY <1>4 DEF ConfigChanges
    <2>2. DOMAIN drM' = DOMAIN Bootstrapped /\ drM'.audit = drM.audit
      BY <1>0, <2>1 DEF Bootstrapped
    <2>3. drChanges' \in Nat /\ drChanges' # 0
      BY <1>0, <2>1
    <2>4. DrHalf' <=> DrHalf
      BY <2>1 DEF DrHalf
    <2> QED BY <2>1, <2>2, <2>3, <2>4 DEF DrInv
  <1>5. ASSUME NEW scope \in {"all", "providers"}, StartDoctor(scope) PROVE DrInv'
    <2>1. drCmd' = [DrIdle EXCEPT !.at = "run", !.scope = scope]
      BY <1>5 DEF StartDoctor
    <2>4. drM' = drM /\ drChanges' = drChanges
      BY <1>5 DEF StartDoctor, OnlyCmd
    <2>2. /\ DOMAIN drCmd' = {"at", "next", "scope", "report", "mended", "repaired", "exit", "printed"}
          /\ drCmd'.at = "run" /\ drCmd'.next = 1 /\ drCmd'.exit = 0 /\ drCmd'.report = {} /\ ~drCmd'.mended
      BY <2>1 DEF DrIdle
    <2>3. DrTaken(1 .. drCmd.next - 1)' = {}
      <3>1. 1 .. drCmd'.next - 1 = {}
        BY <2>2
      <3> QED BY <3>1 DEF DrTaken, DrTakenOf
    <2>5. ~DrHalf'
      BY <2>2 DEF DrHalf
    <2> QED BY <1>0, <2>2, <2>3, <2>4, <2>5 DEF DrInv
  <1>6. CASE RunChecks
    <2> DEFINE b == Block(drCmd.next)
               checks == GatherChecks(drM)
               k == drCmd.next
    <2>1. /\ drCmd.at = "run" /\ UNCHANGED <<drM, drChanges>>
          /\ drCmd' = [drCmd EXCEPT
               !.report = drCmd.report \cup {c \in {checks[i] : i \in b} : InScope(c, drCmd.scope)},
               !.next = IF Total \in b THEN 1 ELSE k + Cardinality(b),
               !.at = IF Total \notin b THEN "run" ELSE IF drCmd.repaired THEN "exit" ELSE "repair"]
      BY <1>6 DEF RunChecks, DrAt, OnlyCmd
    <2>2. PICK n \in k .. Total : b = k .. n
      BY <1>0, DrBlocks
    <2> HIDE DEF b, checks
    <2> HIDE DEF k
    <2>10. k \in 1 .. 35
      BY <1>0 DEF k
    <2>11. n \in k .. 35
      OBVIOUS
    <2>4. (35 \in b <=> n = 35) /\ k \in Int /\ n \in Int /\ ~(k > n)
      BY <2>2, <2>10, <2>11
    <2>3. Cardinality(b) = n - k + 1
      <3>1. Cardinality(k .. n) = IF k > n THEN 0 ELSE n - k + 1
        BY <2>4, FS_Interval
      <3> QED BY <2>2, <2>4, <3>1
    <2>5. k + Cardinality(b) = n + 1
      BY <2>3, <2>4
    <2>6. /\ DOMAIN drCmd' = DOMAIN drCmd /\ drCmd'.scope = drCmd.scope /\ drCmd'.exit = drCmd.exit
          /\ drCmd'.next = (IF n = 35 THEN 1 ELSE n + 1)
          /\ drCmd'.at = (IF n # 35 THEN "run" ELSE IF drCmd.repaired THEN "exit" ELSE "repair")
          /\ drCmd'.report = drCmd.report \cup {c \in {checks[i] : i \in b} : InScope(c, drCmd.scope)}
          /\ drCmd'.mended = drCmd.mended /\ drCmd'.repaired = drCmd.repaired
      BY <1>0, <2>1, <2>4, <2>5
    <2>12. ~DrHalf /\ ~DrHalf'
      BY <2>1, <2>6 DEF DrInv, DrHalf
    <2>7. drChanges = 0 => drCmd'.report = DrTaken(1 .. n)'
      <3> SUFFICES ASSUME drChanges = 0 PROVE drCmd'.report = DrTaken(1 .. n)'
        OBVIOUS
      <3>1. drCmd.report = {c \in {checks[i] : i \in 1 .. k - 1} : InScope(c, drCmd.scope)}
        BY <2>1 DEF DrInv, DrTaken, DrTakenOf, checks, k
      <3>2. DrTaken(1 .. n)' = {c \in {checks[i] : i \in 1 .. n} : InScope(c, drCmd.scope)}
        BY <2>1, <2>6 DEF DrTaken, DrTakenOf, checks
      <3>3. 1 .. n = (1 .. k - 1) \cup b
        BY <2>2, <2>10, <2>11
      <3> QED BY <2>6, <3>1, <3>2, <3>3
    <2>8. CASE n = 35
      <3>1. drCmd'.at \in {"exit", "repair"} /\ drCmd'.next = 1 /\ (drCmd'.at = "repair" => ~drCmd'.repaired)
        BY <2>6, <2>8
      <3> HIDE DEF DrHalf, DrTaken
      <3> QED BY <1>0, <2>1, <2>6, <2>7, <2>8, <2>12, <3>1 DEF DrInv
    <2>9. CASE n # 35
      <3>1. drCmd'.at = "run" /\ drCmd'.next = n + 1 /\ n + 1 \in 1 .. Total /\ (n + 1) - 1 = n
        BY <2>4, <2>6, <2>9, <2>10, <2>11
      <3> QED BY <1>0, <2>1, <2>6, <2>7, <2>12, <3>1 DEF DrInv
    <2> QED BY <2>8, <2>9
  <1>7. CASE NoRepair \/ Repair
    <2>1. PICK a \in {"exit", "ask", "mend"} : /\ drCmd.at \in {"repair", "ask"} /\ drCmd' = [drCmd EXCEPT !.at = a]
                                              /\ UNCHANGED <<drM, drChanges>>
      BY <1>7 DEF NoRepair, Repair, OnlyCmd, DrAt
    <2>2. /\ DOMAIN drCmd' = DOMAIN drCmd /\ drCmd'.at = a /\ drCmd'.scope = drCmd.scope /\ drCmd'.exit = drCmd.exit
          /\ drCmd'.next = drCmd.next /\ drCmd'.report = drCmd.report
          /\ drCmd'.mended = drCmd.mended /\ drCmd'.repaired = drCmd.repaired
      BY <1>0, <2>1
    <2>3. DrTaken(1 .. Total)' = DrTaken(1 .. Total)
      BY <2>1, <2>2 DEF DrTaken, DrTakenOf
    <2>4. drCmd.next = 1 /\ ~DrHalf /\ ~drCmd.repaired /\ (drChanges = 0 => drCmd.report = DrTaken(1 .. Total))
      BY <2>1 DEF DrInv
    <2>5. ~DrHalf' /\ ~drCmd'.repaired /\ drCmd'.next = 1 /\ (DrWarned' <=> DrWarned)
      BY <2>2, <2>4 DEF DrHalf, DrWarned
    <2>6. ASSUME drChanges = 0, drCmd'.at # "exit" PROVE DrWarned
      <3>1. CASE drCmd.at = "ask"
        BY <2>6, <3>1 DEF DrInv
      <3>2. CASE drCmd.at = "repair"
        <4>1. ~NoRepair
          BY <1>0, <2>6 DEF NoRepair
        <4>2. RepairApplies
          BY <1>7, <3>2, <4>1 DEF Repair, DrAt
        <4> QED BY <4>2 DEF RepairApplies, Shown, DrWarned
      <3> QED BY <2>1, <3>1, <3>2
    <2> HIDE DEF DrTaken, DrHalf, DrWarned
    <2>7. drCmd'.at \in {"exit", "ask", "mend"} /\ (drChanges' = 0 /\ drCmd'.at \in {"ask", "mend"} => DrWarned')
      BY <2>1, <2>2, <2>5, <2>6
    <2> QED BY <1>0, <2>1, <2>2, <2>3, <2>4, <2>5, <2>7 DEF DrInv
  <1>8. CASE RepairACL
    <2>1. drCmd.at = "mend" /\ UNCHANGED drChanges
      BY <1>8 DEF RepairACL, DrAt
    <2>4. /\ drCmd.next = 1 /\ ~DrHalf /\ ~drCmd.repaired
          /\ drChanges = 0 => drCmd.report = DrTaken(1 .. Total) /\ DrWarned
      BY <2>1 DEF DrInv
    <2>5. CASE drM' = [drM EXCEPT !.acl = "ok"] /\ drCmd' = [drCmd EXCEPT !.at = "items", !.mended = TRUE]
      <3>1. /\ DOMAIN drCmd' = DOMAIN drCmd /\ drCmd'.at = "items" /\ drCmd'.exit = drCmd.exit /\ drCmd'.scope = drCmd.scope
            /\ drCmd'.next = drCmd.next /\ drCmd'.report = drCmd.report /\ drCmd'.mended /\ drCmd'.repaired = drCmd.repaired
        BY <1>0, <2>5
      <3>2. /\ DOMAIN drM' = DOMAIN Bootstrapped /\ drM'.audit = drM.audit /\ drM'.acl = "ok"
            /\ \A f \in DOMAIN Bootstrapped \ {"acl"} : drM[f] = drM'[f]
        BY <1>0, <2>5 DEF Bootstrapped
      <3>3. DrHalf' /\ (DrWarned' <=> DrWarned)
        BY <2>4, <3>1 DEF DrHalf, DrWarned
      <3>4. drChanges = 0 => \E m : DrBefore(m)' /\ drCmd'.report = DrTakenOf(m, 1 .. Total)'
        <4>1. PICK m : m = drM
          OBVIOUS
        <4>2. DrBefore(m)'
          BY <3>2, <4>1 DEF DrBefore
        <4>3. DrTakenOf(m, 1 .. Total)' = DrTaken(1 .. Total)
          BY <3>1, <4>1 DEF DrTakenOf, DrTaken
        <4> QED BY <2>4, <3>1, <4>2, <4>3
      <3> QED BY <1>0, <2>1, <2>4, <3>1, <3>2, <3>3, <3>4 DEF DrInv
    <2>6. CASE UNCHANGED drM /\ drCmd' = [drCmd EXCEPT !.at = "exit"]
      <3>1. /\ DOMAIN drCmd' = DOMAIN drCmd /\ drCmd'.at = "exit" /\ drCmd'.scope = drCmd.scope /\ drCmd'.exit = drCmd.exit
            /\ drCmd'.next = drCmd.next /\ drCmd'.report = drCmd.report
            /\ drCmd'.mended = drCmd.mended /\ drCmd'.repaired = drCmd.repaired
        BY <1>0, <2>6
      <3>2. DrTaken(1 .. Total)' = DrTaken(1 .. Total) /\ ~DrHalf'
        BY <2>4, <2>6, <3>1 DEF DrTaken, DrTakenOf, DrHalf
      <3> QED BY <1>0, <2>1, <2>4, <2>6, <3>1, <3>2 DEF DrInv
    <2> QED BY <1>8, <2>5, <2>6 DEF RepairACL
  <1>10. CASE RepairItemACLs
    <2>1. drCmd.at = "items" /\ UNCHANGED <<drM, drChanges>>
      BY <1>10 DEF RepairItemACLs, DrAt, OnlyCmd
    <2>2. drCmd.next = 1
      BY <2>1 DEF DrInv
    <2>5. CASE drCmd' = [drCmd EXCEPT !.at = "run", !.scope = "all", !.repaired = TRUE, !.report = {}]
      <3>1. /\ DOMAIN drCmd' = DOMAIN drCmd /\ drCmd'.at = "run" /\ drCmd'.exit = drCmd.exit
            /\ drCmd'.next = drCmd.next /\ drCmd'.report = {} /\ drCmd'.repaired
        BY <1>0, <2>5
      <3>2. DrTaken(1 .. drCmd.next - 1)' = {}
        <4>1. 1 .. drCmd'.next - 1 = {}
          BY <2>2, <3>1
        <4> QED BY <4>1 DEF DrTaken, DrTakenOf
      <3>3. ~DrHalf'
        BY <3>1 DEF DrHalf
      <3> QED BY <1>0, <2>1, <2>2, <3>1, <3>2, <3>3 DEF DrInv
    <2>6. CASE drCmd' = [drCmd EXCEPT !.at = "exit"]
      <3>1. /\ DOMAIN drCmd' = DOMAIN drCmd /\ drCmd'.at = "exit" /\ drCmd'.scope = drCmd.scope /\ drCmd'.exit = drCmd.exit
            /\ drCmd'.next = drCmd.next /\ drCmd'.report = drCmd.report
            /\ drCmd'.mended = drCmd.mended /\ drCmd'.repaired = drCmd.repaired
        BY <1>0, <2>6
      <3> QED BY <1>0, <2>1, <2>2, <3>1, DrEnds
    <2> QED BY <1>10, <2>5, <2>6 DEF RepairItemACLs
  <1>9. ASSUME NEW verbose \in BOOLEAN, Finish(verbose) PROVE DrInv'
    <2>1. /\ drCmd.at = "exit" /\ UNCHANGED <<drM, drChanges>>
          /\ drCmd' = [drCmd EXCEPT !.at = "done", !.exit = ExitCode(Verdicts(drCmd.report)),
                !.printed = Summary(IF verbose THEN drCmd.report ELSE Shown(drCmd.report))]
      BY <1>9 DEF Finish, DrAt, OnlyCmd
    <2>2. /\ DOMAIN drCmd' = DOMAIN drCmd /\ drCmd'.at = "done" /\ drCmd'.scope = drCmd.scope
          /\ drCmd'.next = drCmd.next /\ drCmd'.report = drCmd.report
          /\ drCmd'.mended = drCmd.mended /\ drCmd'.repaired = drCmd.repaired
          /\ drCmd'.exit = ExitCode(Verdicts(drCmd.report))
          /\ drCmd'.printed = Summary(IF verbose THEN drCmd.report ELSE Shown(drCmd.report))
      BY <1>0, <2>1
    <2>3. /\ drCmd'.printed = ExitCode(Verdicts(drCmd.report)) /\ ExitCode(Verdicts(drCmd.report)) \in 0 .. 2
      BY <2>2, DrSummary
    <2>4. drCmd'.at = "done" => drCmd'.printed = drCmd'.exit /\ drCmd'.exit = ExitCode(Verdicts(drCmd'.report))
      BY <2>2, <2>3
    <2>5. drCmd'.exit \in 0 .. 2
      BY <2>2, <2>3
    <2> QED BY <1>0, <2>1, <2>2, <2>4, <2>5, DrEnds
  <1> QED BY <1>1, <1>2, <1>3, <1>4, <1>5, <1>6, <1>7, <1>8, <1>9, <1>10 DEF DrNext

\* A doctor that ended without blocking anything found each check in order.
LEMMA DrHealthy ==
    ASSUME NEW m, m.audit \in AuditState, Loads(m),
           \A i \in 1 .. Total : GatherChecks(m)[i].verdict # "fail"
    PROVE  /\ Known(m.backend) /\ m.audit \in {"ok", "dirsealed"} /\ m.vault = "ok"
           /\ m.backend = "file" => m.keyring = "ok" /\ (m.ageEnv \/ m.kek \notin {"plain", "both"})
           /\ m.backend = "keychain" => m.os = "darwin"
           /\ m.backend = "op" /\ m.opToken /\ m.op = "found" => m.opSignedIn
  <1>1. /\ GatherChecks(m)[1].verdict = CheckBootstrapKeyring(m)
        /\ GatherChecks(m)[8].verdict = CheckPathsVault(m)
        /\ GatherChecks(m)[9].verdict = CheckPathsAudit(m)
        /\ GatherChecks(m)[10].verdict = CheckAuditWritable(m)
        /\ GatherChecks(m)[12].verdict = CheckBackendSelected(m)
        /\ GatherChecks(m)[15].verdict = CheckBackendOPAuth(m)
        /\ GatherChecks(m)[21].verdict = CheckBackendFile(m)
        /\ GatherChecks(m)[22].verdict = CheckPlaintextKEK(m)
    BY DEF GatherChecks
  <1>2. /\ CheckBootstrapKeyring(m) # "fail" /\ CheckPathsVault(m) # "fail" /\ CheckPathsAudit(m) # "fail"
        /\ CheckAuditWritable(m) # "fail" /\ CheckBackendSelected(m) # "fail" /\ CheckBackendOPAuth(m) # "fail"
        /\ CheckBackendFile(m) # "fail" /\ CheckPlaintextKEK(m) # "fail"
    BY <1>1 DEF Total
  <1>3. Known(m.backend) /\ (m.backend = "keychain" => m.os = "darwin")
    BY <1>2 DEF CheckBackendSelected, Backend, FailIf
  <1>4. m.audit \in {"ok", "dirsealed"}
    BY <1>2 DEF CheckPathsAudit, CheckAuditWritable, PathSafe, FailIf, AuditState
  <1>5. m.vault = "ok"
    BY <1>2 DEF CheckPathsVault, CheckBackendFile, PathSafe, FailIf
  <1>6. m.backend = "file" => m.keyring = "ok" /\ (m.ageEnv \/ m.kek \notin {"plain", "both"})
    BY <1>2 DEF CheckBootstrapKeyring, CheckPlaintextKEK, FailIf
  <1>7. m.backend = "op" /\ m.opToken /\ m.op = "found" => m.opSignedIn
    BY <1>2 DEF CheckBackendOPAuth, Backend, FailIf
  <1> QED BY <1>3, <1>4, <1>5, <1>6, <1>7

\* One that ended without a warning found the keychain in order.
LEMMA DrSpotless ==
    ASSUME NEW m, Loads(m), m.backend = "keychain", m.os = "darwin",
           \A i \in 1 .. Total : GatherChecks(m)[i].verdict \notin {"fail", "warn"}
    PROVE  m.security = "found" /\ m.db # "absent" /\ m.acl = "ok"
  <1>1. /\ GatherChecks(m)[13].verdict = CheckBackendKeychain(m)
        /\ GatherChecks(m)[28].verdict = CheckACLKeychainUnlock(m)
    BY DEF GatherChecks
  <1>2. CheckBackendKeychain(m) # "warn" /\ CheckACLKeychainUnlock(m) # "warn"
    BY <1>1 DEF Total
  <1> QED BY <1>2 DEF CheckBackendKeychain, CheckACLKeychainUnlock, WarnIf

\* But for the check of the unlock item, no check looks at its ACL.
LEMMA DrOnlyAcl ==
    ASSUME NEW m, NEW n, \A f \in DOMAIN Bootstrapped \ {"acl"} : m[f] = n[f], NEW i \in 1 .. Total, i # 28
    PROVE  GatherChecks(m)[i] = GatherChecks(n)[i]
  <1>1. /\ m.os = n.os /\ m.conf = n.conf /\ m.backend = n.backend /\ m.mode = n.mode /\ m.docker = n.docker
        /\ m.keyring = n.keyring /\ m.confdir = n.confdir /\ m.vault = n.vault /\ m.audit = n.audit /\ m.kek = n.kek
        /\ m.ageEnv = n.ageEnv /\ m.llm = n.llm /\ m.op = n.op /\ m.bw = n.bw /\ m.pass = n.pass
        /\ m.keeper = n.keeper /\ m.ksm = n.ksm /\ m.lpass = n.lpass /\ m.dockerBin = n.dockerBin /\ m.sops = n.sops
        /\ m.aws = n.aws /\ m.hvault = n.hvault /\ m.cosign = n.cosign /\ m.security = n.security /\ m.opToken = n.opToken
        /\ m.opSignedIn = n.opSignedIn /\ m.bwSession = n.bwSession /\ m.refs = n.refs /\ m.db = n.db /\ m.guard = n.guard
        /\ m.hook = n.hook /\ m.gateway = n.gateway /\ m.ui = n.ui /\ m.cwd = n.cwd
    BY DEF Bootstrapped
  <1>2. Loads(m) = Loads(n) /\ Backend(m) = Backend(n)
    BY <1>1 DEF Loads, Backend
  <1>3. /\ CheckBootstrapKeyring(m) = CheckBootstrapKeyring(n)
        /\ CheckBootstrapConfig(m) = CheckBootstrapConfig(n)
        /\ CheckVersionBinary(m) = CheckVersionBinary(n)
        /\ CheckPlatform(m) = CheckPlatform(n)
        /\ CheckLLMSession(m) = CheckLLMSession(n)
        /\ CheckAgentGuard(m) = CheckAgentGuard(n)
    BY <1>1, <1>2 DEF CheckBootstrapKeyring, CheckBootstrapConfig, CheckVersionBinary, CheckPlatform, CheckLLMSession, CheckAgentGuard, FailIf, Known, WarnIf
  <1>4. /\ CheckPathsConfig(m) = CheckPathsConfig(n)
        /\ CheckPathsVault(m) = CheckPathsVault(n)
        /\ CheckPathsAudit(m) = CheckPathsAudit(n)
        /\ CheckAuditWritable(m) = CheckAuditWritable(n)
        /\ CheckOperatingMode(m) = CheckOperatingMode(n)
        /\ CheckBackendSelected(m) = CheckBackendSelected(n)
    BY <1>1, <1>2 DEF CheckPathsConfig, CheckPathsVault, CheckPathsAudit, CheckAuditWritable, CheckOperatingMode, CheckBackendSelected, FailIf, Known, PathSafe, WarnIf
  <1>5. /\ CheckBackendKeychain(m) = CheckBackendKeychain(n)
        /\ CheckBackendOP(m) = CheckBackendOP(n)
        /\ CheckBackendOPAuth(m) = CheckBackendOPAuth(n)
        /\ CheckBackendBW(m) = CheckBackendBW(n)
        /\ CheckBackendBWSession(m) = CheckBackendBWSession(n)
        /\ CheckBackendProtonPass(m) = CheckBackendProtonPass(n)
    BY <1>1, <1>2 DEF CheckBackendKeychain, CheckBackendOP, CheckBackendOPAuth, CheckBackendBW, CheckBackendBWSession, CheckBackendProtonPass, FailIf, WarnIf
  <1>6. /\ CheckBackendKeeper(m) = CheckBackendKeeper(n)
        /\ CheckBackendLastPass(m) = CheckBackendLastPass(n)
        /\ CheckBackendFile(m) = CheckBackendFile(n)
        /\ CheckPlaintextKEK(m) = CheckPlaintextKEK(n)
        /\ CheckExternalDocker(m) = CheckExternalDocker(n)
        /\ CheckExternalSOPS(m) = CheckExternalSOPS(n)
    BY <1>1, <1>2 DEF CheckBackendKeeper, CheckBackendLastPass, CheckBackendFile, CheckPlaintextKEK, CheckExternalDocker, CheckExternalSOPS, FailIf, Known, WarnIf
  <1>7. /\ CheckExternalOP(m) = CheckExternalOP(n)
        /\ CheckExternalAWSSM(m) = CheckExternalAWSSM(n)
        /\ CheckExternalHashiVault(m) = CheckExternalHashiVault(n)
        /\ CheckKeychainDBPermissions(m) = CheckKeychainDBPermissions(n)
        /\ CheckHookPreToolUse(m) = CheckHookPreToolUse(n)
        /\ CheckCosignInstalled(m) = CheckCosignInstalled(n)
    BY <1>1, <1>2 DEF CheckExternalOP, CheckExternalAWSSM, CheckExternalHashiVault, CheckKeychainDBPermissions, CheckHookPreToolUse, CheckCosignInstalled, ExternalTool, WarnIf
  <1>8. /\ CheckNoConnections(m) = CheckNoConnections(n)
        /\ CheckGatewayRunning(m) = CheckGatewayRunning(n)
        /\ CheckPlaintextRetention(m) = CheckPlaintextRetention(n)
        /\ CheckIntegrationMarkers(m) = CheckIntegrationMarkers(n)
    BY <1>1, <1>2 DEF CheckNoConnections, CheckGatewayRunning, CheckPlaintextRetention, CheckIntegrationMarkers, WarnIf
  <1>9. /\ GatherChecks(m)[1] = GatherChecks(n)[1] /\ GatherChecks(m)[2] = GatherChecks(n)[2]
         /\ GatherChecks(m)[3] = GatherChecks(n)[3] /\ GatherChecks(m)[4] = GatherChecks(n)[4]
         /\ GatherChecks(m)[5] = GatherChecks(n)[5] /\ GatherChecks(m)[6] = GatherChecks(n)[6]
         /\ GatherChecks(m)[7] = GatherChecks(n)[7] /\ GatherChecks(m)[8] = GatherChecks(n)[8]
         /\ GatherChecks(m)[9] = GatherChecks(n)[9] /\ GatherChecks(m)[10] = GatherChecks(n)[10]
         /\ GatherChecks(m)[11] = GatherChecks(n)[11] /\ GatherChecks(m)[12] = GatherChecks(n)[12]
         /\ GatherChecks(m)[13] = GatherChecks(n)[13] /\ GatherChecks(m)[14] = GatherChecks(n)[14]
         /\ GatherChecks(m)[15] = GatherChecks(n)[15] /\ GatherChecks(m)[16] = GatherChecks(n)[16]
         /\ GatherChecks(m)[17] = GatherChecks(n)[17] /\ GatherChecks(m)[18] = GatherChecks(n)[18]
         /\ GatherChecks(m)[19] = GatherChecks(n)[19] /\ GatherChecks(m)[20] = GatherChecks(n)[20]
         /\ GatherChecks(m)[21] = GatherChecks(n)[21] /\ GatherChecks(m)[22] = GatherChecks(n)[22]
         /\ GatherChecks(m)[23] = GatherChecks(n)[23] /\ GatherChecks(m)[24] = GatherChecks(n)[24]
         /\ GatherChecks(m)[25] = GatherChecks(n)[25] /\ GatherChecks(m)[26] = GatherChecks(n)[26]
         /\ GatherChecks(m)[27] = GatherChecks(n)[27] /\ GatherChecks(m)[29] = GatherChecks(n)[29]
         /\ GatherChecks(m)[30] = GatherChecks(n)[30] /\ GatherChecks(m)[31] = GatherChecks(n)[31]
         /\ GatherChecks(m)[32] = GatherChecks(n)[32] /\ GatherChecks(m)[33] = GatherChecks(n)[33]
         /\ GatherChecks(m)[34] = GatherChecks(n)[34] /\ GatherChecks(m)[35] = GatherChecks(n)[35]
    BY <1>3, <1>4, <1>5, <1>6, <1>7, <1>8 DEF GatherChecks
  <1> QED BY <1>9 DEF Total

\* Only the check of the unlock item has its name, and it warns or is silent.
LEMMA DrNamed ==
    ASSUME NEW m, NEW i \in 1 .. Total
    PROVE  /\ GatherChecks(m)[i].name = "acl.keychain_unlock" => i = 28
           /\ GatherChecks(m)[28].verdict \in {"warn", "ok"} /\ (m.acl = "ok" => GatherChecks(m)[28].verdict = "ok")
  <1>1. GatherChecks(m)[28].verdict = CheckACLKeychainUnlock(m)
    BY DEF GatherChecks
  <1>2. i # 28 => GatherChecks(m)[i].name = "other"
    BY DEF GatherChecks, Total
  <1> QED BY <1>1, <1>2 DEF CheckACLKeychainUnlock, WarnIf

\* What a command that has ended reports, when nobody else changed anything.
LEMMA DrReport ==
    ASSUME DrInv, drCmd.at = "done", drChanges = 0
    PROVE  \E m : /\ DrBefore(m) /\ drCmd.report = DrTakenOf(m, 1 .. Total)
                  /\ DrHalf => drM.acl = "ok" /\ "warn" \in Verdicts(drCmd.report)
                  /\ ~DrHalf => m = drM
  <1>1. CASE DrHalf
    <2>1. PICK m : DrBefore(m) /\ drCmd.report = DrTakenOf(m, 1 .. Total)
      BY <1>1 DEF DrInv
    <2>2. drM.acl = "ok" /\ DrWarned
      BY <1>1 DEF DrInv
    <2>3. PICK c \in drCmd.report : c.name = "acl.keychain_unlock" /\ c.verdict # "ok"
      BY <2>2 DEF DrWarned
    <2>4. PICK i \in 1 .. Total : c = GatherChecks(m)[i]
      BY <2>1, <2>3 DEF DrTakenOf
    <2>5. c.verdict = "warn"
      BY <2>3, <2>4, DrNamed
    <2> QED BY <1>1, <2>1, <2>2, <2>3, <2>5 DEF Verdicts
  <1>2. CASE ~DrHalf
    <2>1. drCmd.report = DrTakenOf(drM, 1 .. Total)
      BY <1>2 DEF DrInv, DrTaken
    <2> QED BY <1>2, <2>1 DEF DrBefore
  <1> QED BY <1>1, <1>2

\* Whatever is out of order on the machine and whatever other commands change: the
\* exit code of `keylatch doctor` is the worst verdict of its report and the summary
\* names it, a repair included; when nobody changed the configuration meanwhile it is
\* what the machine deserves, unless a repair failed after it had mended the unlock
\* item, when it is not better, and a machine it calls healthy can be used
\* (doctor.go:101, cli/doctor_cmd.go:162, cli/doctor_repair.go:84).
THEOREM DoctorTellsTrue == DrSpec => []DoctorTrue
  <1>1. DrInv => DoctorTrue
    <2> SUFFICES ASSUME DrInv PROVE DoctorTrue
      OBVIOUS
    <2>1. /\ drCmd.at = "done" => drCmd.printed = drCmd.exit /\ drCmd.exit = ExitCode(Verdicts(drCmd.report))
          /\ drCmd.exit \in 0 .. 2
      BY DEF DrInv
    <2>2. SummaryNamesExit
      BY <2>1 DEF SummaryNamesExit, DrAt
    <2>3. CASE ~(drCmd.at = "done" /\ drChanges = 0)
      BY <2>2, <2>3 DEF DoctorTrue, HealthyMeansUsable, ExitTrue, Ended, DrAt
    <2>4. CASE drCmd.at = "done" /\ drChanges = 0
      <3>1. PICK m : /\ DrBefore(m) /\ drCmd.report = DrTakenOf(m, 1 .. Total)
                     /\ DrHalf => drM.acl = "ok" /\ "warn" \in Verdicts(drCmd.report)
                     /\ ~DrHalf => m = drM
        BY <2>4, DrReport
      <3>2. ExitTrue
        <4>1. PICK now : now = {c.verdict : c \in {c \in Range(GatherChecks(drM)) : InScope(c, drCmd.scope)}}
          OBVIOUS
        <4>2. now = Verdicts(DrTakenOf(drM, 1 .. Total))
          BY <4>1, DrChecks DEF Verdicts, DrTakenOf
        <4>3. ~DrHalf => drCmd.exit = ExitCode(now)
          BY <2>1, <2>4, <3>1, <4>2
        <4>4. ASSUME DrHalf PROVE drCmd.exit # 0 /\ drCmd.exit >= ExitCode(now)
          <5>1. ASSUME NEW v \in now, v # "ok" PROVE v \in Verdicts(drCmd.report)
            <6>1. PICK c \in DrTakenOf(drM, 1 .. Total) : v = c.verdict
              BY <4>2, <5>1 DEF Verdicts
            <6>2. PICK i \in 1 .. Total : c = GatherChecks(drM)[i] /\ InScope(c, drCmd.scope)
              BY <6>1 DEF DrTakenOf
            <6>3. i # 28
              BY <3>1, <4>4, <5>1, <6>1, <6>2, DrNamed
            <6>4. \A f \in DOMAIN Bootstrapped \ {"acl"} : m[f] = drM[f]
              BY <3>1 DEF DrBefore
            <6>5. GatherChecks(m)[i] = c
              BY <6>2, <6>3, <6>4, DrOnlyAcl
            <6>6. c \in drCmd.report
              BY <3>1, <6>2, <6>5 DEF DrTakenOf
            <6> QED BY <6>1, <6>6 DEF Verdicts
          <5>2. /\ "warn" \in Verdicts(drCmd.report)
                /\ "fail" \in now => "fail" \in Verdicts(drCmd.report)
            BY <3>1, <4>4, <5>1
          <5> QED BY <2>1, <2>4, <5>2 DEF ExitCode
        <4>5. (drCmd.mended => drCmd.repaired) <=> ~DrHalf
          BY DEF DrHalf
        <4> HIDE DEF DrHalf
        <4> QED BY <4>1, <4>3, <4>4, <4>5 DEF ExitTrue
      <3>3. ASSUME drCmd.scope = "all", NEW i \in 1 .. Total
            PROVE  /\ drCmd.exit <= 1 => GatherChecks(m)[i].verdict # "fail"
                   /\ drCmd.exit <= 0 => GatherChecks(m)[i].verdict \notin {"fail", "warn"}
        <4>1. drCmd.report = {GatherChecks(m)[j] : j \in 1 .. Total}
          BY <3>1, <3>3 DEF DrTakenOf, InScope
        <4>2. GatherChecks(m)[i].verdict \in Verdicts(drCmd.report)
          BY <4>1 DEF Verdicts
        <4> QED BY <2>1, <2>4, <4>2 DEF ExitCode
      <3>4. ~(DrHalf /\ drCmd.exit <= 0)
        BY <2>1, <2>4, <3>1 DEF ExitCode
      <3>5. /\ m.conf = drM.conf /\ m.backend = drM.backend /\ m.audit = drM.audit /\ m.vault = drM.vault
            /\ m.keyring = drM.keyring /\ m.ageEnv = drM.ageEnv /\ m.kek = drM.kek /\ m.os = drM.os
            /\ m.opToken = drM.opToken /\ m.op = drM.op /\ m.opSignedIn = drM.opSignedIn
        BY <3>1 DEF DrBefore, Bootstrapped
      <3>6. drM.audit \in AuditState /\ m.audit \in AuditState /\ (Loads(m) <=> Loads(drM))
        BY <3>5 DEF DrInv, Loads
      <3>7. ASSUME drCmd.exit <= 1, drCmd.scope = "all", Loads(drM)
            PROVE  /\ Known(drM.backend) /\ drM.audit \in {"ok", "dirsealed"} /\ drM.vault = "ok"
                   /\ drM.backend = "file" => drM.keyring = "ok" /\ (drM.ageEnv \/ drM.kek \notin {"plain", "both"})
                   /\ drM.backend = "keychain" => drM.os = "darwin"
                   /\ drM.backend = "op" /\ drM.opToken /\ drM.op = "found" => drM.opSignedIn
        <4>1. \A i \in 1 .. Total : GatherChecks(m)[i].verdict # "fail"
          BY <3>3, <3>7
        <4>2. /\ Known(m.backend) /\ m.audit \in {"ok", "dirsealed"} /\ m.vault = "ok"
              /\ m.backend = "file" => m.keyring = "ok" /\ (m.ageEnv \/ m.kek \notin {"plain", "both"})
              /\ m.backend = "keychain" => m.os = "darwin"
              /\ m.backend = "op" /\ m.opToken /\ m.op = "found" => m.opSignedIn
          BY <3>6, <3>7, <4>1, DrHealthy
        <4> QED BY <3>5, <4>2
      <3>8. ASSUME drCmd.exit <= 0, drCmd.scope = "all", Loads(drM), drM.backend = "keychain"
            PROVE  drM.security = "found" /\ drM.db # "absent" /\ drM.acl = "ok"
        <4>1. drM.os = "darwin"
          BY <2>1, <3>7, <3>8
        <4>2. m = drM
          BY <3>1, <3>4, <3>8
        <4>3. \A i \in 1 .. Total : GatherChecks(drM)[i].verdict \notin {"fail", "warn"}
          BY <3>3, <3>8, <4>2
        <4> QED BY <3>8, <4>1, <4>3, DrSpotless
      <3>9. HealthyMeansUsable
        BY <3>7, <3>8 DEF HealthyMeansUsable, Ended
      <3> QED BY <2>2, <3>2, <3>9 DEF DoctorTrue
    <2> QED BY <2>3, <2>4
  <1>2. DrInv /\ [DrNext]_drVars => DrInv'
    BY DrStep
  <1> QED BY <1>1, <1>2, DrStart, PTL DEF DrSpec

-----------------------------------------------------------------------------
\* Connections to providers

\* The calls a command can have to make.
CnName == CnPath \cup {"prefix"}
CnCalls == [op : {"absent", "set", "missing", "skip", "trymodes", "need", "load", "http", "reread", "del", "delprefix", "notemplate"},
            e : CnName]
           \cup [op : {"writeback"}, e : {"meta"}, v : CnProc \cup {"none"}]
CnDels == {"del", "delprefix"}
\* The entries that a deletion is to remove.
CnGone == Range(CnSecret) \cup Range(CnConfig) \cup CnPrefixed \cup {"meta"}
Removes(c, e) == c = CnOp("del", e) \/ (c.op = "delprefix" /\ e \in CnPrefixed)

\* Deletions come first in what a command has left to do, with nothing stored after
\* them; but for what `connect custom` takes back, the metadata is the last of them.
\* What is written back is the last call, and was read of metadata that was there.
CnOrdered(t) ==
    /\ t \in Seq(CnCalls)
    /\ \A i \in 1 .. Len(t) : t[i].op = "writeback" => Len(t) = 1 /\ t[i].v # "none"
    /\ \A i \in 1 .. Len(t) : t[i].op \in CnDels =>
          /\ \A j \in 1 .. Len(t) : t[j].op \in CnDels \cup {"notemplate"}
          /\ \A j \in 1 .. i : t[j].op \in CnDels
          /\ t[i] # CnOp("del", "custom") => \E j \in i .. Len(t) : t[j] = CnOp("del", "meta")
\* Before the metadata is written every required field is stored or missed.
CnFirst(t, s) ==
    \A i \in 1 .. Len(t) : t[i] = CnOp("set", "meta") =>
        \A f \in CnNeeded : s[f] # "none" \/ \E j \in 1 .. i - 1 : t[j].e = f /\ t[j].op \in {"set", "missing"}
\* Metadata that is to be written back is still there.
CnReadBack(t, s) ==
    \A i \in 1 .. Len(t) : t[i].op = "writeback" => s["meta"] # "none"
\* Every entry is gone or its deletion is still to come.
CnGoing(t, s) ==
    /\ \A i \in 1 .. Len(t) : t[i].op \in CnDels
    /\ \A e \in CnGone : s[e] = "none" \/ \E i \in 1 .. Len(t) : Removes(t[i], e)
CnWhole(s) == s["meta"] # "none" => \A f \in CnNeeded : s[f] # "none"

CnTyped ==
    /\ cnStore \in [CnPath -> CnProc \cup {"none"}]
    /\ cnTodo \in [CnProc -> Seq(CnCalls)]
    /\ DOMAIN cnCmd = CnProc /\ DOMAIN cnRes = CnProc
    /\ cnErrs \in [CnProc -> BOOLEAN] /\ cnAlone \in [CnProc -> BOOLEAN] /\ cnDirty \in BOOLEAN
\* One command of one process.
CnOwn(p) ==
    /\ CnOrdered(cnTodo[p])
    /\ cnCmd[p] = "idle" => cnTodo[p] = <<>>
    /\ cnRes[p] # "none" => cnCmd[p] = "idle"
    /\ cnAlone[p] => \A r \in CnOthers(p) : cnCmd[r] = "idle"
    /\ ~cnDirty => CnFirst(cnTodo[p], cnStore) /\ CnReadBack(cnTodo[p], cnStore)
    /\ cnAlone[p] /\ cnCmd[p] \in {"delete", "rollback"} /\ ~cnErrs[p] => CnGoing(cnTodo[p], cnStore)
    /\ cnAlone[p] /\ cnRes[p] \in {"deleted", "rolled_back"} => \A e \in CnGone : cnStore[e] = "none"
\* A process deletes the connection and is the only one that runs.
CnRemoving(p) ==
    /\ \E i \in 1 .. Len(cnTodo[p]) : cnTodo[p][i] = CnOp("del", "meta")
    /\ \A r \in CnOthers(p) : cnCmd[r] = "idle"
\* What is listed is complete, unless it is being deleted.
CnInv ==
    /\ CnTyped
    /\ \A p \in CnProc : CnOwn(p)
    /\ ~cnDirty => CnWhole(cnStore) \/ \E p \in CnProc : CnRemoving(p)

\* The calls that neither delete nor write back.
CnMild == [op : {"absent", "set", "missing", "skip", "trymodes", "need", "load", "http", "reread", "notemplate"}, e : CnName]
\* A command as it begins: nothing to write back, and the metadata after every
\* required field.
CnFresh(t) ==
    /\ CnOrdered(t)
    /\ \A i \in 1 .. Len(t) : t[i].op # "writeback"
    /\ \A i \in 1 .. Len(t) : t[i] = CnOp("set", "meta") =>
          \A f \in CnNeeded : \E j \in 1 .. i - 1 : t[j].e = f /\ t[j].op \in {"set", "missing"}

\* What is left of a command after its first call.
LEMMA CnTailOrdered ==
    ASSUME NEW t, CnOrdered(t), t # <<>>
    PROVE  CnOrdered(Tail(t)) /\ \A i \in 1 .. Len(Tail(t)) : Tail(t)[i].op # "writeback"
  <1> DEFINE u == Tail(t)
  <1>1. t \in Seq(CnCalls)
    BY DEF CnOrdered
  <1>2. u \in Seq(CnCalls) /\ Len(u) = Len(t) - 1 /\ Len(t) \in Nat /\ \A i \in 1 .. Len(u) : u[i] = t[i + 1] /\ i + 1 \in 1 .. Len(t)
    BY <1>1
  <1>3. \A i \in 1 .. Len(u) : u[i].op # "writeback"
    BY <1>2 DEF CnOrdered
  <1>4. ASSUME NEW i \in 1 .. Len(u), u[i].op \in CnDels
        PROVE  /\ \A j \in 1 .. Len(u) : u[j].op \in CnDels \cup {"notemplate"}
               /\ \A j \in 1 .. i : u[j].op \in CnDels
               /\ u[i] # CnOp("del", "custom") => \E j \in i .. Len(u) : u[j] = CnOp("del", "meta")
    <2> DEFINE k == i + 1
    <2>1. k \in 1 .. Len(t) /\ t[k].op \in CnDels /\ u[i] = t[k]
      BY <1>2, <1>4
    <2>2. /\ \A j \in 1 .. Len(t) : t[j].op \in CnDels \cup {"notemplate"}
          /\ \A j \in 1 .. k : t[j].op \in CnDels
          /\ t[k] # CnOp("del", "custom") => \E j \in k .. Len(t) : t[j] = CnOp("del", "meta")
      BY <2>1 DEF CnOrdered
    <2>3. \A j \in 1 .. Len(u) : u[j].op \in CnDels \cup {"notemplate"}
      BY <1>2, <2>2
    <2>4. ASSUME NEW j \in 1 .. i PROVE u[j].op \in CnDels
      <3>1. j \in 1 .. Len(u) /\ j + 1 \in 1 .. k
        BY <1>2
      <3> QED BY <1>2, <2>2, <3>1
    <2>5. ASSUME u[i] # CnOp("del", "custom") PROVE \E j \in i .. Len(u) : u[j] = CnOp("del", "meta")
      <3>1. PICK j \in k .. Len(t) : t[j] = CnOp("del", "meta")
        BY <2>1, <2>2, <2>5
      <3>2. j - 1 \in i .. Len(u) /\ j - 1 \in 1 .. Len(u) /\ (j - 1) + 1 = j
        BY <1>2, <3>1
      <3>3. u[j - 1] = t[j]
        BY <1>2, <3>2
      <3> QED BY <3>1, <3>2, <3>3
    <2> QED BY <2>3, <2>4, <2>5
  <1> QED BY <1>2, <1>3, <1>4 DEF CnOrdered

\* A required field was stored, or is stored or missed before the metadata.
LEMMA CnTailFirst ==
    ASSUME NEW t \in Seq(CnCalls), t # <<>>, NEW s, NEW r, CnFirst(t, s),
           \A f \in CnNeeded : s[f] # "none" => r[f] # "none",
           Head(t).op # "missing", Head(t).op = "set" /\ Head(t).e \in CnNeeded => r[Head(t).e] # "none"
    PROVE  CnFirst(Tail(t), r)
  <1> DEFINE u == Tail(t)
  <1>1. Len(u) = Len(t) - 1 /\ Len(t) \in Nat /\ \A i \in 1 .. Len(u) : u[i] = t[i + 1] /\ i + 1 \in 1 .. Len(t)
    OBVIOUS
  <1>2. Head(t) = t[1]
    OBVIOUS
  <1>3. ASSUME NEW i \in 1 .. Len(u), u[i] = CnOp("set", "meta"), NEW f \in CnNeeded, r[f] = "none"
        PROVE  \E j \in 1 .. i - 1 : u[j].e = f /\ u[j].op \in {"set", "missing"}
    <2>1. i + 1 \in 1 .. Len(t) /\ t[i + 1] = CnOp("set", "meta") /\ s[f] = "none"
      BY <1>1, <1>3
    <2>2. PICK j \in 1 .. i : t[j].e = f /\ t[j].op \in {"set", "missing"}
      BY <2>1 DEF CnFirst
    <2>3. j # 1
      BY <1>2, <1>3, <2>2
    <2>4. j - 1 \in 1 .. i - 1 /\ j - 1 \in 1 .. Len(u) /\ (j - 1) + 1 = j
      BY <1>1, <2>2, <2>3
    <2>5. u[j - 1] = t[j]
      BY <1>1, <2>4
    <2> QED BY <2>2, <2>4, <2>5
  <1> QED BY <1>3 DEF CnFirst

\* What the first call of a deletion removed need not be removed again.
LEMMA CnTailGoing ==
    ASSUME NEW t \in Seq(CnCalls), t # <<>>, NEW s, NEW r, CnGoing(t, s),
           \A e \in CnGone : s[e] = "none" => r[e] = "none",
           \A e \in CnGone : Removes(Head(t), e) => r[e] = "none"
    PROVE  CnGoing(Tail(t), r)
  <1> DEFINE u == Tail(t)
  <1>1. Len(u) = Len(t) - 1 /\ Len(t) \in Nat /\ \A i \in 1 .. Len(u) : u[i] = t[i + 1] /\ i + 1 \in 1 .. Len(t)
    OBVIOUS
  <1>2. Head(t) = t[1]
    OBVIOUS
  <1>3. ASSUME NEW e \in CnGone, r[e] # "none" PROVE \E i \in 1 .. Len(u) : Removes(u[i], e)
    <2>1. PICK i \in 1 .. Len(t) : Removes(t[i], e)
      BY <1>3 DEF CnGoing
    <2>2. i # 1
      BY <1>2, <1>3, <2>1
    <2>3. i - 1 \in 1 .. Len(u) /\ (i - 1) + 1 = i
      BY <1>1, <2>1, <2>2
    <2>4. u[i - 1] = t[i]
      BY <1>1, <2>3
    <2> QED BY <2>1, <2>3, <2>4
  <1>4. \A i \in 1 .. Len(u) : u[i].op \in CnDels
    BY <1>1 DEF CnGoing
  <1> QED BY <1>3, <1>4 DEF CnGoing

\* A command that only stores and reads.
LEMMA CnMildOrdered ==
    ASSUME NEW t \in Seq(CnMild)
    PROVE  CnOrdered(t) /\ \A i \in 1 .. Len(t) : t[i].op # "writeback"
  <1>1. CnMild \subseteq CnCalls
    BY DEF CnMild, CnCalls
  <1>2. t \in Seq(CnCalls)
    BY <1>1
  <1>3. \A i \in 1 .. Len(t) : t[i] \in CnMild
    OBVIOUS
  <1>4. \A c \in CnMild : c.op \notin CnDels /\ c.op # "writeback"
    BY DEF CnMild, CnDels
  <1> QED BY <1>2, <1>3, <1>4 DEF CnOrdered

\* The names of the template's fields, which are not those of the connection itself.
LEMMA CnNames ==
    /\ \A i \in DOMAIN CnSecret : CnSecret[i] \in CnPath /\ CnSecret[i] \notin {"meta", "custom"}
    /\ \A i \in DOMAIN CnConfig : CnConfig[i] \in CnPath
    /\ DOMAIN CnSecret = 1 .. Len(CnSecret) /\ Len(CnSecret) \in Nat /\ Len(CnSecret) > 0
    /\ DOMAIN CnConfig = 1 .. Len(CnConfig) /\ Len(CnConfig) \in Nat
    /\ CnNeeded \subseteq CnRequired
    /\ \A f \in CnNeeded : f \in CnPath /\ f \notin {"meta", "custom"} /\ \E i \in 1 .. Len(CnSecret) : CnSecret[i] = f
    /\ Head(CnSecret) \in Range(CnSecret)
    /\ CnPath \subseteq CnName
  <1>1. /\ CnSecret \in Seq(Range(CnSecret)) /\ CnSecret # <<>> /\ CnConfig \in Seq(Range(CnConfig))
        /\ CnRequired \subseteq Range(CnSecret) /\ Range(CnSecret) \cap {"meta", "custom"} = {}
    BY ConnectionsAssumption
  <1>2. DOMAIN CnSecret = 1 .. Len(CnSecret) /\ Len(CnSecret) \in Nat /\ DOMAIN CnConfig = 1 .. Len(CnConfig) /\ Len(CnConfig) \in Nat
    BY <1>1
  <1>3. Len(CnSecret) > 0 /\ Head(CnSecret) = CnSecret[1]
    BY <1>1
  <1>4. \A i \in DOMAIN CnSecret : CnSecret[i] \in Range(CnSecret)
    BY DEF Range
  <1>0. CnNeeded \subseteq CnRequired
    BY DEF CnNeeded
  <1>5. \A f \in CnNeeded : \E i \in DOMAIN CnSecret : CnSecret[i] = f
    BY <1>0, <1>1 DEF Range
  <1>6. \A i \in DOMAIN CnConfig : CnConfig[i] \in Range(CnConfig)
    BY DEF Range
  <1>7. Range(CnSecret) \subseteq CnPath /\ Range(CnConfig) \subseteq CnPath /\ CnPath \subseteq CnName
    BY DEF CnPath, CnName
  <1> QED BY <1>0, <1>1, <1>2, <1>3, <1>4, <1>5, <1>6, <1>7

\* A finite set as a sequence of its elements.
LEMMA CnSequence ==
    ASSUME NEW S, IsFiniteSet(S)
    PROVE  SetToSeq(S) \in Seq(S)
  <1>1. Cardinality(S) \in Nat /\ ExistsBijection(1 .. Cardinality(S), S)
    BY FS_CardinalityType
  <1>2. PICK f \in Bijection(1 .. Cardinality(S), S) : TRUE
    BY <1>1 DEF ExistsBijection
  <1>3. f \in [1 .. Cardinality(S) -> S] /\ IsInjective(f)
    BY <1>2 DEF Bijection, Injection, IsInjective
  <1>4. SetToSeq(S) \in [1 .. Cardinality(S) -> S]
    BY <1>3 DEF SetToSeq
  <1> QED BY <1>1, <1>4

\* Two sequences, one after the other.
LEMMA CnConcat ==
    ASSUME NEW T, NEW t \in Seq(T), NEW u \in Seq(T)
    PROVE  /\ t \o u \in Seq(T) /\ Len(t \o u) = Len(t) + Len(u) /\ Len(t) \in Nat /\ Len(u) \in Nat
           /\ \A i \in 1 .. Len(t) : (t \o u)[i] = t[i]
           /\ \A i \in 1 .. Len(u) : (t \o u)[Len(t) + i] = u[i]
  OBVIOUS

\* One more call, or more of them, after every required field had its turn.
LEMMA CnMore ==
    ASSUME NEW t \in Seq(CnMild), NEW u \in Seq(CnMild),
           \A f \in CnNeeded : \E j \in 1 .. Len(t) : t[j].e = f /\ t[j].op \in {"set", "missing"},
           \A i \in 1 .. Len(t) : t[i] # CnOp("set", "meta")
    PROVE  /\ t \o u \in Seq(CnMild)
           /\ \A i \in 1 .. Len(t \o u) : (t \o u)[i] = CnOp("set", "meta") =>
                 \A f \in CnNeeded : \E j \in 1 .. i - 1 : (t \o u)[j].e = f /\ (t \o u)[j].op \in {"set", "missing"}
  <1> DEFINE w == t \o u
  <1>1. w \in Seq(CnMild) /\ Len(w) = Len(t) + Len(u) /\ Len(t) \in Nat /\ Len(u) \in Nat
    OBVIOUS
  <1>2. \A i \in 1 .. Len(t) : i \in 1 .. Len(w) /\ w[i] = t[i]
    OBVIOUS
  <1>3. ASSUME NEW i \in 1 .. Len(w), w[i] = CnOp("set", "meta"), NEW f \in CnNeeded
        PROVE  \E j \in 1 .. i - 1 : w[j].e = f /\ w[j].op \in {"set", "missing"}
    <2>1. i > Len(t)
      BY <1>1, <1>2, <1>3
    <2>2. PICK j \in 1 .. Len(t) : t[j].e = f /\ t[j].op \in {"set", "missing"}
      OBVIOUS
    <2>3. j \in 1 .. i - 1
      BY <1>1, <2>1
    <2> QED BY <1>2, <2>2, <2>3
  <1> QED BY <1>1, <1>3

\* Connect stores the metadata last (connect.go:36).
LEMMA CnConnect ==
    ASSUME NEW given, NEW empty, empty \cap CnNeeded = {}, NEW u \in Seq(CnMild)
    PROVE  /\ Connect(given, empty) \in Seq(CnMild)
           /\ CnFresh(Connect(given, empty)) /\ CnFresh(Connect(given, empty) \o u)
  <1> DEFINE A == <<CnOp("absent", "meta")>> \o SecretOps(given, empty)
             B == ConfigOps(given \ empty)
             C == StorePrefixedConfig(given \ empty)
             D == <<CnOp("set", "meta")>>
  <1>1. /\ CnOp("absent", "meta") \in CnMild /\ CnOp("set", "meta") \in CnMild
        /\ \A f \in CnPath : CnOp("set", f) \in CnMild /\ CnOp("missing", f) \in CnMild /\ CnOp("skip", f) \in CnMild
    BY DEF CnOp, CnMild, CnName, CnPath
  <1>0. \A op, e : CnOp(op, e).op = op /\ CnOp(op, e).e = e
    BY DEF CnOp
  <1>2. /\ SecretOps(given, empty) \in Seq(CnMild) /\ Len(SecretOps(given, empty)) = Len(CnSecret)
        /\ \A i \in 1 .. Len(CnSecret) :
              /\ SecretOps(given, empty)[i].e = CnSecret[i]
              /\ CnSecret[i] \in CnNeeded => SecretOps(given, empty)[i].op \in {"set", "missing"}
    <2>1. ASSUME NEW i \in DOMAIN CnSecret
          PROVE  /\ SecretOps(given, empty)[i] \in CnMild /\ SecretOps(given, empty)[i].e = CnSecret[i]
                 /\ CnSecret[i] \in CnNeeded => SecretOps(given, empty)[i].op \in {"set", "missing"}
      <3> HIDE DEF A, B, C, D
      <3>0. CnSecret[i] \in CnPath
        BY CnNames
      <3>1. CASE CnSecret[i] \in given \ empty
        <4>1. SecretOps(given, empty)[i] = CnOp("set", CnSecret[i])
          BY <3>1 DEF SecretOps
        <4> QED BY <1>0, <1>1, <3>0, <4>1
      <3>2. CASE CnSecret[i] \notin given /\ CnSecret[i] \in CnRequired
        <4>1. SecretOps(given, empty)[i] = CnOp("missing", CnSecret[i])
          BY <3>2 DEF SecretOps
        <4> QED BY <1>0, <1>1, <3>0, <4>1
      <3>3. CASE CnSecret[i] \notin given \ empty /\ (CnSecret[i] \in given \/ CnSecret[i] \notin CnRequired)
        <4>1. SecretOps(given, empty)[i] = CnOp("skip", CnSecret[i])
          BY <3>3 DEF SecretOps
        <4>2. CnSecret[i] \notin CnNeeded
          BY <3>3 DEF CnNeeded
        <4> QED BY <1>0, <1>1, <3>0, <4>1, <4>2
      <3> QED BY <3>1, <3>2, <3>3
    <2>2. DOMAIN SecretOps(given, empty) = DOMAIN CnSecret
      BY DEF SecretOps
    <2>3. DOMAIN CnSecret = 1 .. Len(CnSecret) /\ Len(CnSecret) \in Nat
      BY CnNames
    <2>4. SecretOps(given, empty) \in [1 .. Len(CnSecret) -> CnMild]
      <3>1. SecretOps(given, empty) = [i \in DOMAIN CnSecret |-> SecretOps(given, empty)[i]]
        BY DEF SecretOps
      <3> QED BY <2>1, <2>2, <2>3, <3>1
    <2> QED BY <2>1, <2>3, <2>4
  <1>3. B \in Seq(CnMild)
    <2>1. ASSUME NEW i \in DOMAIN CnConfig PROVE B[i] \in CnMild
      BY <1>1, CnNames DEF ConfigOps, CnOp
    <2>2. B = [i \in DOMAIN CnConfig |-> B[i]]
      BY DEF ConfigOps
    <2>3. B \in [1 .. Len(CnConfig) -> CnMild]
      <3>1. DOMAIN CnConfig = 1 .. Len(CnConfig)
        BY CnNames
      <3>2. \A i \in 1 .. Len(CnConfig) : B[i] \in CnMild
        BY <2>1, <3>1
      <3>3. B = [i \in 1 .. Len(CnConfig) |-> B[i]]
        BY <2>2, <3>1, Zenon
      <3> HIDE DEF B
      <3> QED BY <3>2, <3>3
    <2>4. Len(CnConfig) \in Nat
      BY CnNames
    <2> HIDE DEF B
    <2> QED BY <2>3, <2>4
  <1>4. C \in Seq(CnMild)
    <2> DEFINE S == (given \ empty) \cap CnPrefixed
               q == SetToSeq(S)
    <2>1. IsFiniteSet(S)
      BY ConnectionsAssumption, FS_Subset
    <2>2. q \in Seq(S)
      BY <2>1, CnSequence
    <2>3. \A f \in S : CnOp("set", f) \in CnMild
      BY <1>1 DEF CnPath
    <2>4. C = [i \in DOMAIN q |-> CnOp("set", q[i])]
      BY DEF StorePrefixedConfig, CnEach
    <2>5. C \in [1 .. Len(q) -> CnMild]
      <3> HIDE DEF C, q, S
      <3> QED BY <2>2, <2>3, <2>4
    <2> HIDE DEF C, q, S
    <2> QED BY <2>2, <2>5
  <1>5. D \in Seq(CnMild) /\ A \in Seq(CnMild)
    BY <1>1, <1>2
  <1>6. \A f \in CnNeeded : \E j \in 1 .. Len(A) : A[j].e = f /\ A[j].op \in {"set", "missing"}
    <2> SUFFICES ASSUME NEW f \in CnNeeded PROVE \E j \in 1 .. Len(A) : A[j].e = f /\ A[j].op \in {"set", "missing"}
      OBVIOUS
    <2>1. PICK i \in 1 .. Len(CnSecret) : CnSecret[i] = f
      BY CnNames
    <2>2. i + 1 \in 1 .. Len(A) /\ A[i + 1] = SecretOps(given, empty)[i]
      BY <1>2, CnNames
    <2> QED BY <1>2, <2>1, <2>2
  <1>7. \A i \in 1 .. Len(A) : A[i] # CnOp("set", "meta")
    <2> SUFFICES ASSUME NEW i \in 1 .. Len(A) PROVE A[i] # CnOp("set", "meta")
      OBVIOUS
    <2>1. CASE i = 1
      <3>1. A[i] = CnOp("absent", "meta")
        BY <1>2, <2>1
      <3> QED BY <1>0, <3>1
    <2>2. CASE i # 1
      <3>1. i - 1 \in 1 .. Len(CnSecret) /\ A[i] = SecretOps(given, empty)[i - 1]
        BY <1>2, <2>2, CnNames
      <3>2. A[i].e # "meta"
        BY <1>2, <3>1, CnNames
      <3> QED BY <1>0, <3>2
    <2> QED BY <2>1, <2>2
  <1> DEFINE R == B \o (C \o D)
             W == B \o (C \o (D \o u))
  <1> HIDE DEF A, B, C, D
  <1>8. R \in Seq(CnMild) /\ W \in Seq(CnMild)
    BY <1>3, <1>4, <1>5
  <1>9. A \o R = Connect(given, empty) /\ A \o W = Connect(given, empty) \o u
    <2>1. Connect(given, empty) = ((A \o B) \o C) \o D
      BY DEF Connect, A, B, C, D
    <2>2. (A \o B) \o C = A \o (B \o C)
      BY <1>3, <1>4, <1>5
    <2>3. (A \o (B \o C)) \o D = A \o ((B \o C) \o D)
      BY <1>3, <1>4, <1>5
    <2>4. (B \o C) \o D = B \o (C \o D)
      BY <1>3, <1>4, <1>5
    <2>5. (A \o R) \o u = A \o (R \o u)
      <3> HIDE DEF R
      <3> QED BY <1>5, <1>8
    <2>6. R \o u = B \o ((C \o D) \o u)
      BY <1>3, <1>4, <1>5
    <2>7. (C \o D) \o u = C \o (D \o u)
      BY <1>4, <1>5
    <2> QED BY <2>1, <2>2, <2>3, <2>4, <2>5, <2>6, <2>7
  <1> HIDE DEF R, W
  <1>10. CnFresh(A \o R) /\ CnFresh(A \o W) /\ A \o R \in Seq(CnMild)
    <2>1. A \o R \in Seq(CnMild) /\ A \o W \in Seq(CnMild)
      BY <1>5, <1>8
    <2>2. CnOrdered(A \o R) /\ \A i \in 1 .. Len(A \o R) : (A \o R)[i].op # "writeback"
      BY <2>1, CnMildOrdered
    <2>3. CnOrdered(A \o W) /\ \A i \in 1 .. Len(A \o W) : (A \o W)[i].op # "writeback"
      BY <2>1, CnMildOrdered
    <2>4. \A i \in 1 .. Len(A \o R) : (A \o R)[i] = CnOp("set", "meta") =>
             \A f \in CnNeeded : \E j \in 1 .. i - 1 : (A \o R)[j].e = f /\ (A \o R)[j].op \in {"set", "missing"}
      BY <1>5, <1>6, <1>7, <1>8, CnMore
    <2>5. \A i \in 1 .. Len(A \o W) : (A \o W)[i] = CnOp("set", "meta") =>
             \A f \in CnNeeded : \E j \in 1 .. i - 1 : (A \o W)[j].e = f /\ (A \o W)[j].op \in {"set", "missing"}
      BY <1>5, <1>6, <1>7, <1>8, CnMore
    <2> QED BY <2>1, <2>2, <2>3, <2>4, <2>5 DEF CnFresh
  <1> QED BY <1>9, <1>10

\* A command that never stores the metadata.
LEMMA CnOther ==
    ASSUME NEW t \in Seq(CnMild), \A i \in 1 .. Len(t) : t[i] # CnOp("set", "meta")
    PROVE  CnFresh(t)
  <1>1. CnOrdered(t) /\ \A i \in 1 .. Len(t) : t[i].op # "writeback"
    BY CnMildOrdered
  <1> QED BY <1>1 DEF CnFresh

\* Delete deletes all that Connect stores, the metadata last (connect.go:235).
LEMMA CnDelete ==
    /\ Delete # <<>> /\ \A i \in 1 .. Len(Delete) : Delete[i].op \in CnDels
    /\ CnFresh(Delete)
    /\ \A e \in CnGone : \E i \in 1 .. Len(Delete) : Removes(Delete[i], e)
    /\ CnFresh(Delete \o <<CnOp("notemplate", "custom_meta")>>)
  <1> DEFINE S == CnEach("del", CnSecret)
             C == CnEach("del", CnConfig)
             M == <<CnOp("delprefix", "prefix"), CnOp("del", "meta")>>
             n == Len(CnSecret)
             m == Len(CnConfig)
             K == CnOp("notemplate", "custom_meta")
             Y == Delete \o <<K>>
             T == [op : CnDels, e : CnName]
  <1>0. T \subseteq CnCalls
    BY DEF CnCalls, CnDels
  <1>1. S \in [1 .. n -> T] /\ \A i \in 1 .. n : S[i] = CnOp("del", CnSecret[i])
    BY CnNames DEF CnEach, CnOp, CnDels
  <1>2. C \in [1 .. m -> T] /\ \A i \in 1 .. m : C[i] = CnOp("del", CnConfig[i])
    BY CnNames DEF CnEach, CnOp, CnDels
  <1>3. n \in Nat /\ m \in Nat
    BY CnNames
  <1> HIDE DEF S, C, n, m, T
  <1>4. S \in Seq(T) /\ Len(S) = n /\ C \in Seq(T) /\ Len(C) = m
    BY <1>1, <1>2, <1>3
  <1>5. M \in Seq(T) /\ Len(M) = 2 /\ M[1] = CnOp("delprefix", "prefix") /\ M[2] = CnOp("del", "meta")
    BY CnNames DEF CnOp, CnName, CnDels, CnPath, T
  <1>6. Delete = (S \o C) \o M
    BY DEF Delete, S, C
  <1> HIDE DEF M
  <1>7. /\ Delete \in Seq(T) /\ Len(Delete) = n + m + 2
        /\ \A i \in 1 .. n : Delete[i] = S[i]
        /\ \A i \in 1 .. m : Delete[n + i] = C[i]
        /\ Delete[n + m + 1] = M[1] /\ Delete[n + m + 2] = M[2]
    <2> DEFINE Z == S \o C
    <2>1. /\ Z \in Seq(T) /\ Len(Z) = n + m
          /\ \A i \in 1 .. n : Z[i] = S[i]
          /\ \A i \in 1 .. m : Z[n + i] = C[i]
      BY <1>3, <1>4
    <2>2. Delete = Z \o M
      BY <1>6
    <2> HIDE DEF Z
    <2>3. /\ Delete \in Seq(T) /\ Len(Delete) = n + m + 2
          /\ \A i \in 1 .. n + m : Delete[i] = Z[i]
          /\ Delete[n + m + 1] = M[1] /\ Delete[n + m + 2] = M[2]
      <3>1. /\ Delete \in Seq(T) /\ Len(Delete) = Len(Z) + Len(M)
            /\ \A i \in 1 .. Len(Z) : Delete[i] = Z[i]
            /\ \A i \in 1 .. Len(M) : Delete[Len(Z) + i] = M[i]
        <4>1. Z \in Seq(T) /\ M \in Seq(T)
          BY <1>5, <2>1
        <4>2. /\ Z \o M \in Seq(T) /\ Len(Z \o M) = Len(Z) + Len(M)
              /\ \A i \in 1 .. Len(Z) : (Z \o M)[i] = Z[i]
              /\ \A i \in 1 .. Len(M) : (Z \o M)[Len(Z) + i] = M[i]
          BY <4>1, CnConcat
        <4> QED BY <2>2, <4>2
      <3>2. Len(Z) = n + m /\ Len(M) = 2 /\ 1 \in 1 .. 2 /\ 2 \in 1 .. 2
        BY <1>5, <2>1
      <3> QED BY <3>1, <3>2
    <2>4. /\ \A i \in 1 .. n : i \in 1 .. n + m
          /\ \A i \in 1 .. m : n + i \in 1 .. n + m
      BY <1>3
    <2> QED BY <2>1, <2>3, <2>4
  <1>8. \A i \in 1 .. Len(Delete) : Delete[i] \in T
    BY <1>7
  <1>9. \A c \in T : c.op \in CnDels /\ c.op # "writeback" /\ c # CnOp("set", "meta")
    BY DEF CnDels, CnOp, T
  <1>10. Len(Delete) \in Nat /\ Len(Delete) \in 1 .. Len(Delete) /\ Delete[Len(Delete)] = CnOp("del", "meta")
    BY <1>3, <1>5, <1>7
  <1>11. CnFresh(Delete)
    <2>1. Delete \in Seq(CnCalls)
      BY <1>0, <1>7
    <2>2. ASSUME NEW i \in 1 .. Len(Delete)
          PROVE  /\ \A j \in 1 .. Len(Delete) : Delete[j].op \in CnDels \cup {"notemplate"}
                 /\ \A j \in 1 .. i : Delete[j].op \in CnDels
                 /\ \E j \in i .. Len(Delete) : Delete[j] = CnOp("del", "meta")
      <3>1. Len(Delete) \in i .. Len(Delete) /\ \A j \in 1 .. i : j \in 1 .. Len(Delete)
        BY <1>10
      <3> QED BY <1>8, <1>9, <1>10, <3>1
    <2> QED BY <1>8, <1>9, <2>1, <2>2 DEF CnFresh, CnOrdered
  <1>12. ASSUME NEW e \in CnGone PROVE \E i \in 1 .. Len(Delete) : Removes(Delete[i], e)
    <2>1. CASE e \in Range(CnSecret)
      <3>1. PICK i \in 1 .. n : CnSecret[i] = e
        BY <2>1, CnNames DEF Range, n
      <3>2. i \in 1 .. Len(Delete) /\ Delete[i] = CnOp("del", e)
        BY <1>1, <1>3, <1>7, <3>1
      <3> QED BY <3>2 DEF Removes
    <2>2. CASE e \in Range(CnConfig)
      <3>1. PICK i \in 1 .. m : CnConfig[i] = e
        BY <2>2, CnNames DEF Range, m
      <3>2. n + i \in 1 .. Len(Delete) /\ Delete[n + i] = CnOp("del", e)
        BY <1>2, <1>3, <1>7, <3>1
      <3> QED BY <3>2 DEF Removes
    <2>3. CASE e \in CnPrefixed
      <3>1. n + m + 1 \in 1 .. Len(Delete) /\ Delete[n + m + 1].op = "delprefix"
        BY <1>3, <1>5, <1>7 DEF CnOp
      <3> QED BY <2>3, <3>1 DEF Removes
    <2>4. CASE e = "meta"
      BY <1>10, <2>4 DEF Removes
    <2> QED BY <2>1, <2>2, <2>3, <2>4 DEF CnGone
  <1>13. CnFresh(Y)
    <2>1. K \in CnCalls /\ K.op = "notemplate" /\ K # CnOp("set", "meta")
      BY DEF CnCalls, CnOp, CnName, CnPath
    <2>2. Delete \in Seq(CnCalls)
      BY <1>0, <1>7
    <2> HIDE DEF K
    <2>3. /\ Y \in Seq(CnCalls) /\ Len(Y) = Len(Delete) + 1 /\ Y[Len(Y)] = K
          /\ \A i \in 1 .. Len(Delete) : Y[i] = Delete[i]
      BY <2>1, <2>2
    <2> HIDE DEF Y
    <2>4. \A i \in 1 .. Len(Y) : i \in 1 .. Len(Delete) \/ Y[i] = K
      BY <1>10, <2>3
    <2>5. \A i \in 1 .. Len(Y) : Y[i].op \in CnDels \cup {"notemplate"} /\ Y[i] # CnOp("set", "meta") /\ Y[i].op # "writeback"
      BY <1>8, <1>9, <2>1, <2>3, <2>4
    <2>6. ASSUME NEW i \in 1 .. Len(Y), Y[i].op \in CnDels
          PROVE  /\ \A j \in 1 .. i : Y[j].op \in CnDels
                 /\ \E j \in i .. Len(Y) : Y[j] = CnOp("del", "meta")
      <3>1. i \in 1 .. Len(Delete)
        BY <2>1, <2>4, <2>6 DEF CnDels
      <3>2. Len(Delete) \in i .. Len(Y) /\ Y[Len(Delete)] = CnOp("del", "meta")
        BY <1>10, <2>3, <3>1
      <3>3. ASSUME NEW j \in 1 .. i PROVE Y[j].op \in CnDels
        <4>1. j \in 1 .. Len(Delete)
          BY <1>10, <3>1
        <4> QED BY <1>8, <1>9, <2>3, <4>1
      <3> QED BY <3>2, <3>3
    <2> QED BY <2>3, <2>5, <2>6 DEF CnFresh, CnOrdered
  <1> QED BY <1>8, <1>9, <1>10, <1>11, <1>12, <1>13

\* A command that deletes something deletes next.
LEMMA CnDelHead ==
    ASSUME NEW t, CnOrdered(t), NEW i \in 1 .. Len(t), t[i].op \in CnDels
    PROVE  t # <<>> /\ Head(t).op \in CnDels
  <1>1. t \in Seq(CnCalls) /\ \A j \in 1 .. i : t[j].op \in CnDels
    BY DEF CnOrdered
  <1>2. Len(t) \in Nat /\ 1 \in 1 .. i /\ t # <<>>
    BY <1>1
  <1>3. Head(t) = t[1]
    BY <1>1, <1>2
  <1> QED BY <1>1, <1>2, <1>3

\* What is listed is complete when a command runs that does not delete.
LEMMA CnWholeNow ==
    ASSUME CnInv, ~cnDirty, NEW p \in CnProc, cnCmd[p] # "idle",
           cnTodo[p] = <<>> \/ Head(cnTodo[p]).op \notin CnDels
    PROVE  CnWhole(cnStore)
  <1> SUFFICES ASSUME ~CnWhole(cnStore) PROVE FALSE
    OBVIOUS
  <1>1. PICK r \in CnProc : CnRemoving(r)
    BY DEF CnInv
  <1>2. r = p
    BY <1>1 DEF CnRemoving, CnOthers
  <1>3. PICK i \in 1 .. Len(cnTodo[p]) : cnTodo[p][i] = CnOp("del", "meta")
    BY <1>1, <1>2 DEF CnRemoving
  <1>4. CnOrdered(cnTodo[p]) /\ cnTodo[p][i].op \in CnDels
    BY <1>3 DEF CnInv, CnOwn, CnOp, CnDels
  <1>5. cnTodo[p] # <<>> /\ Head(cnTodo[p]).op \in CnDels
    BY <1>4, CnDelHead
  <1> QED BY <1>5

\* A step of one process, for what it leaves to the others.
LEMMA CnKeepsOn ==
    ASSUME CnInv, NEW p \in CnProc, CnTyped', CnOwn(p)',
           \A q \in CnOthers(p) : cnTodo'[q] = cnTodo[q] /\ cnCmd'[q] = cnCmd[q] /\ cnRes'[q] = cnRes[q] /\ ~cnAlone'[q],
           ~cnDirty' => /\ ~cnDirty
                        /\ \A q \in CnOthers(p) : cnCmd[q] = "idle" \/ \A e \in CnPath : cnStore[e] # "none" => cnStore'[e] # "none"
                        /\ CnWhole(cnStore') \/ CnRemoving(p)'
    PROVE  CnInv'
  <1>1. ASSUME NEW q \in CnOthers(p) PROVE CnOwn(q)'
    <2>1. /\ CnOrdered(cnTodo[q]) /\ (cnCmd[q] = "idle" => cnTodo[q] = <<>>) /\ (cnRes[q] # "none" => cnCmd[q] = "idle")
          /\ ~cnDirty => CnFirst(cnTodo[q], cnStore) /\ CnReadBack(cnTodo[q], cnStore)
      BY DEF CnInv, CnOwn, CnOthers
    <2>2. cnTodo'[q] = cnTodo[q] /\ cnCmd'[q] = cnCmd[q] /\ cnRes'[q] = cnRes[q] /\ ~cnAlone'[q]
      OBVIOUS
    <2>3. ASSUME ~cnDirty' PROVE CnFirst(cnTodo[q], cnStore') /\ CnReadBack(cnTodo[q], cnStore')
      <3>1. CASE cnCmd[q] = "idle"
        <4>1. cnTodo[q] = <<>>
          BY <2>1, <3>1
        <4> QED BY <4>1 DEF CnFirst, CnReadBack
      <3>2. CASE \A e \in CnPath : cnStore[e] # "none" => cnStore'[e] # "none"
        <4>1. CnFirst(cnTodo[q], cnStore) /\ CnReadBack(cnTodo[q], cnStore)
          BY <2>1, <2>3
        <4>2. "meta" \in CnPath /\ CnNeeded \subseteq CnPath
          BY CnNames DEF CnPath
        <4> QED BY <3>2, <4>1, <4>2 DEF CnFirst, CnReadBack
      <3> QED BY <2>3, <3>1, <3>2
    <2> QED BY <2>1, <2>2, <2>3 DEF CnOwn
  <1>2. \A q \in CnProc : CnOwn(q)'
    BY <1>1 DEF CnOthers
  <1>3. ~cnDirty' => CnWhole(cnStore)' \/ \E q \in CnProc : CnRemoving(q)'
    BY DEF CnWhole
  <1> QED BY <1>2, <1>3 DEF CnInv

\* Nobody else runs alone beside a command.
LEMMA CnNotAlone ==
    ASSUME CnInv, NEW p \in CnProc, cnCmd[p] # "idle", NEW q \in CnOthers(p)
    PROVE  ~cnAlone[q]
  <1>1. q \in CnProc /\ p \in CnOthers(q)
    BY DEF CnOthers
  <1> QED BY <1>1 DEF CnInv, CnOwn

\* A call that was made and took nothing away.
LEMMA CnAdvanced ==
    ASSUME CnInv, NEW p \in CnProc, cnTodo[p] # <<>>, CnAdvance(p), UNCHANGED <<cnAlone, cnDirty>>,
           cnErrs' \in [CnProc -> BOOLEAN], cnErrs[p] => cnErrs'[p],
           Head(cnTodo[p]).op \notin CnDels \cup {"missing"},
           cnStore' \in [CnPath -> CnProc \cup {"none"}],
           \A e \in CnPath : cnStore[e] # "none" => cnStore'[e] # "none",
           Head(cnTodo[p]).op = "set" /\ Head(cnTodo[p]).e \in CnNeeded => cnStore'[Head(cnTodo[p]).e] # "none",
           ~cnDirty /\ CnWhole(cnStore) => CnWhole(cnStore')
    PROVE  CnInv'
  <1> DEFINE t == cnTodo[p]
  <1>1. /\ CnTyped /\ CnOwn(p)
        /\ cnTodo' = [cnTodo EXCEPT ![p] = Tail(t)] /\ cnCmd' = cnCmd /\ cnRes' = cnRes
        /\ cnAlone' = cnAlone /\ cnDirty' = cnDirty
    BY DEF CnInv, CnAdvance
  <1>2. t \in Seq(CnCalls) /\ cnTodo \in [CnProc -> Seq(CnCalls)]
    BY <1>1 DEF CnTyped
  <1>3. cnCmd[p] # "idle" /\ cnRes[p] = "none"
    BY <1>1 DEF CnOwn
  <1>4. Tail(t) \in Seq(CnCalls)
    BY <1>2
  <1>5. CnTyped'
    BY <1>1, <1>2, <1>4 DEF CnTyped
  <1>6. cnTodo'[p] = Tail(t)
    BY <1>1, <1>2
  <1>7. CnOrdered(Tail(t)) /\ \A i \in 1 .. Len(Tail(t)) : Tail(t)[i].op # "writeback"
    BY <1>1, CnTailOrdered DEF CnOwn
  <1>8. ~cnDirty => CnFirst(Tail(t), cnStore')
    <2> SUFFICES ASSUME ~cnDirty PROVE CnFirst(Tail(t), cnStore')
      OBVIOUS
    <2>1. CnFirst(t, cnStore)
      BY <1>1 DEF CnOwn
    <2>2. \A f \in CnNeeded : cnStore[f] # "none" => cnStore'[f] # "none"
      BY CnNames
    <2>3. Head(t).op # "missing"
      OBVIOUS
    <2> QED BY <1>2, <2>1, <2>2, <2>3, CnTailFirst
  <1>9. ~(cnAlone[p] /\ cnCmd[p] \in {"delete", "rollback"} /\ ~cnErrs[p])
    <2> SUFFICES ASSUME cnAlone[p], cnCmd[p] \in {"delete", "rollback"}, ~cnErrs[p] PROVE FALSE
      OBVIOUS
    <2>1. \A i \in 1 .. Len(t) : t[i].op \in CnDels
      BY <1>1 DEF CnOwn, CnGoing
    <2>2. 1 \in 1 .. Len(t) /\ Head(t) = t[1]
      BY <1>2
    <2> QED BY <2>1, <2>2
  <1>10. CnOwn(p)'
    <2>1. cnAlone'[p] => \A r \in CnOthers(p) : cnCmd'[r] = "idle"
      BY <1>1 DEF CnOwn
    <2>2. ~cnDirty => CnReadBack(Tail(t), cnStore')
      BY <1>7 DEF CnReadBack
    <2>3. ~(cnAlone'[p] /\ cnCmd'[p] \in {"delete", "rollback"} /\ ~cnErrs'[p])
      BY <1>1, <1>9
    <2>4. cnCmd'[p] # "idle" /\ cnRes'[p] = "none" /\ cnDirty' = cnDirty
      BY <1>1, <1>3
    <2> HIDE DEF t
    <2>5. CnOrdered(cnTodo'[p]) /\ (~cnDirty' => CnFirst(cnTodo'[p], cnStore') /\ CnReadBack(cnTodo'[p], cnStore'))
      BY <1>6, <1>7, <1>8, <2>2, <2>4
    <2> QED BY <2>1, <2>3, <2>4, <2>5 DEF CnOwn
  <1>11. \A q \in CnOthers(p) : cnTodo'[q] = cnTodo[q] /\ cnCmd'[q] = cnCmd[q] /\ cnRes'[q] = cnRes[q] /\ ~cnAlone'[q]
    BY <1>1, <1>2, <1>3, CnNotAlone DEF CnOthers
  <1>12. ~cnDirty => CnWhole(cnStore')
    BY <1>3, CnWholeNow
  <1> QED BY <1>1, <1>5, <1>10, <1>11, <1>12, CnKeepsOn

\* A command that goes on with other calls.
LEMMA CnContinues ==
    ASSUME CnInv, NEW p \in CnProc, cnCmd[p] # "idle", cnTodo[p] = <<>> \/ Head(cnTodo[p]).op \notin CnDels,
           NEW t, CnOrdered(t), cnTodo' = [cnTodo EXCEPT ![p] = t],
           DOMAIN cnCmd' = CnProc, cnCmd'[p] # "idle", \A q \in CnOthers(p) : cnCmd'[q] = cnCmd[q],
           UNCHANGED <<cnStore, cnRes, cnAlone, cnDirty>>, cnErrs' \in [CnProc -> BOOLEAN],
           ~cnDirty => CnFirst(t, cnStore) /\ CnReadBack(t, cnStore),
           cnAlone[p] /\ cnCmd'[p] \in {"delete", "rollback"} /\ ~cnErrs'[p] => CnGoing(t, cnStore)
    PROVE  CnInv'
  <1>1. /\ CnTyped /\ CnOwn(p) /\ t \in Seq(CnCalls)
        /\ cnStore' = cnStore /\ cnRes' = cnRes /\ cnAlone' = cnAlone /\ cnDirty' = cnDirty
    BY DEF CnInv, CnOrdered
  <1>2. cnTodo \in [CnProc -> Seq(CnCalls)] /\ cnRes[p] = "none"
    BY <1>1 DEF CnTyped, CnOwn
  <1>3. CnTyped'
    BY <1>1, <1>2 DEF CnTyped
  <1>4. cnTodo'[p] = t
    BY <1>1, <1>2
  <1>5. CnOwn(p)'
    <2>1. cnAlone[p] => \A r \in CnOthers(p) : cnCmd'[r] = "idle"
      BY <1>1 DEF CnOwn
    <2> QED BY <1>1, <1>2, <1>4, <2>1 DEF CnOwn
  <1>6. \A q \in CnOthers(p) : cnTodo'[q] = cnTodo[q] /\ cnCmd'[q] = cnCmd[q] /\ cnRes'[q] = cnRes[q] /\ ~cnAlone'[q]
    BY <1>1, <1>2, CnNotAlone DEF CnOthers
  <1>7. ~cnDirty => CnWhole(cnStore')
    BY <1>1, CnWholeNow
  <1> QED BY <1>1, <1>3, <1>5, <1>6, <1>7, CnKeepsOn

\* A command that ends, or is killed before it deletes anything.
LEMMA CnEnded ==
    ASSUME CnInv, NEW p \in CnProc, cnCmd[p] # "idle", NEW res, CnEnd(p, res),
           UNCHANGED <<cnStore, cnAlone>>, cnErrs' \in [CnProc -> BOOLEAN], cnDirty' \in BOOLEAN,
           ~cnDirty' => ~cnDirty /\ (cnTodo[p] = <<>> \/ Head(cnTodo[p]).op \notin CnDels),
           cnAlone[p] /\ res \in {"deleted", "rolled_back"} => \A e \in CnGone : cnStore[e] = "none"
    PROVE  CnInv'
  <1>1. /\ CnTyped /\ CnOwn(p) /\ cnStore' = cnStore /\ cnAlone' = cnAlone
        /\ cnTodo' = [cnTodo EXCEPT ![p] = <<>>] /\ cnCmd' = [cnCmd EXCEPT ![p] = "idle"] /\ cnRes' = [cnRes EXCEPT ![p] = res]
    BY DEF CnInv, CnEnd
  <1>2. cnTodo \in [CnProc -> Seq(CnCalls)] /\ DOMAIN cnCmd = CnProc /\ DOMAIN cnRes = CnProc
    BY <1>1 DEF CnTyped
  <1>3. <<>> \in Seq(CnCalls)
    OBVIOUS
  <1>4. CnTyped'
    BY <1>1, <1>2, <1>3 DEF CnTyped
  <1>5. cnTodo'[p] = <<>> /\ cnCmd'[p] = "idle" /\ cnRes'[p] = res
    BY <1>1, <1>2
  <1>6. CnOrdered(<<>>) /\ CnFirst(<<>>, cnStore) /\ CnReadBack(<<>>, cnStore)
    BY <1>3 DEF CnOrdered, CnFirst, CnReadBack
  <1>7. \A q \in CnOthers(p) : cnTodo'[q] = cnTodo[q] /\ cnCmd'[q] = cnCmd[q] /\ cnRes'[q] = cnRes[q] /\ ~cnAlone'[q]
    BY <1>1, <1>2, CnNotAlone DEF CnOthers
  <1>8. CnOwn(p)'
    <2>1. cnAlone[p] => \A r \in CnOthers(p) : cnCmd'[r] = "idle"
      BY <1>1, <1>7 DEF CnOwn
    <2> QED BY <1>1, <1>5, <1>6, <2>1 DEF CnOwn
  <1>9. ~cnDirty' => CnWhole(cnStore')
    BY <1>1, CnWholeNow
  <1> QED BY <1>1, <1>4, <1>7, <1>8, <1>9, CnKeepsOn

\* A command that begins.
LEMMA CnStarts ==
    ASSUME CnInv, NEW p \in CnProc, NEW cmd, NEW t, CnStart(p, cmd, t), CnFresh(t), cmd # "idle",
           cmd \in {"delete", "rollback"} =>
              /\ \A i \in 1 .. Len(t) : t[i].op \in CnDels
              /\ \A e \in CnGone : \E i \in 1 .. Len(t) : Removes(t[i], e)
    PROVE  CnInv'
  <1>1. /\ CnTyped /\ CnOwn(p) /\ cnStore' = cnStore
        /\ cnTodo' = [cnTodo EXCEPT ![p] = t] /\ cnCmd' = [cnCmd EXCEPT ![p] = cmd]
        /\ cnErrs' = [cnErrs EXCEPT ![p] = FALSE] /\ cnRes' = [cnRes EXCEPT ![p] = "none"]
        /\ cnAlone' = [q \in CnProc |-> q = p /\ \A r \in CnOthers(p) : ~CnActive(r)]
        /\ cnDirty' = (cnDirty \/ \E r \in CnOthers(p) : CnDeleting(r))
        /\ cnCmd[p] = "idle"
    BY DEF CnInv, CnStart, CnActive
  <1>2. /\ cnTodo \in [CnProc -> Seq(CnCalls)] /\ DOMAIN cnCmd = CnProc /\ DOMAIN cnRes = CnProc /\ cnErrs \in [CnProc -> BOOLEAN]
        /\ cnDirty \in BOOLEAN
    BY <1>1 DEF CnTyped
  <1>3. t \in Seq(CnCalls) /\ CnOrdered(t)
    BY DEF CnFresh, CnOrdered
  <1>4. CnTyped'
    <2>1. cnAlone' \in [CnProc -> BOOLEAN]
      BY <1>1
    <2>2. cnDirty' \in BOOLEAN
      BY <1>1, <1>2
    <2>3. cnTodo' \in [CnProc -> Seq(CnCalls)] /\ DOMAIN cnCmd' = CnProc /\ DOMAIN cnRes' = CnProc /\ cnErrs' \in [CnProc -> BOOLEAN]
      BY <1>1, <1>2, <1>3
    <2> QED BY <1>1, <2>1, <2>2, <2>3 DEF CnTyped
  <1>5. cnTodo'[p] = t /\ cnCmd'[p] = cmd /\ cnRes'[p] = "none"
    BY <1>1, <1>2
  <1>6. \A q \in CnOthers(p) : cnTodo'[q] = cnTodo[q] /\ cnCmd'[q] = cnCmd[q] /\ cnRes'[q] = cnRes[q] /\ ~cnAlone'[q]
    BY <1>1, <1>2 DEF CnOthers
  <1>7. CnOwn(p)'
    <2>1. cnAlone'[p] => \A r \in CnOthers(p) : cnCmd'[r] = "idle"
      BY <1>1, <1>6 DEF CnActive
    <2>2. CnFirst(t, cnStore') /\ CnReadBack(t, cnStore')
      BY DEF CnFresh, CnFirst, CnReadBack
    <2>3. cmd \in {"delete", "rollback"} => CnGoing(t, cnStore')
      BY DEF CnGoing
    <2> QED BY <1>3, <1>5, <2>1, <2>2, <2>3 DEF CnOwn
  <1>8. ~cnDirty' => ~cnDirty /\ CnWhole(cnStore')
    <2> SUFFICES ASSUME ~cnDirty' PROVE ~cnDirty /\ CnWhole(cnStore')
      OBVIOUS
    <2>1. ~cnDirty /\ \A r \in CnOthers(p) : ~CnDeleting(r)
      BY <1>1
    <2>2. ASSUME NEW r \in CnProc, CnRemoving(r) PROVE FALSE
      <3>1. PICK i \in 1 .. Len(cnTodo[r]) : cnTodo[r][i] = CnOp("del", "meta")
        BY <2>2 DEF CnRemoving
      <3>2. cnTodo[r] \in Seq(CnCalls)
        BY <1>2
      <3>3. i \in DOMAIN cnTodo[r] /\ cnTodo[r][i].op = "del"
        BY <3>1, <3>2 DEF CnOp
      <3>4. CASE r = p
        <4>1. cnTodo[p] = <<>>
          BY <1>1 DEF CnOwn
        <4> QED BY <3>1, <3>4, <4>1
      <3>5. CASE r # p
        BY <2>1, <3>3, <3>5 DEF CnOthers, CnDeleting
      <3> QED BY <3>4, <3>5
    <2>3. CnWhole(cnStore)
      BY <2>1, <2>2 DEF CnInv
    <2> QED BY <1>1, <2>1, <2>3
  <1> QED BY <1>1, <1>4, <1>6, <1>7, <1>8, CnKeepsOn

\* A call that deletes: the process is alone, or the store is counted as spoiled; the
\* metadata is still to be deleted, or is gone with the fields.
LEMMA CnDeletes ==
    ASSUME CnInv, NEW p \in CnProc, StoreDelete(p)
    PROVE  CnInv'
  <1> DEFINE t == cnTodo[p]
             c == Head(t)
             gone == IF c.op = "delprefix" THEN CnPrefixed ELSE {c.e}
  <1>1. /\ CnTyped /\ CnOwn(p) /\ t # <<>> /\ c.op \in CnDels
        /\ cnTodo' = [cnTodo EXCEPT ![p] = Tail(t)] /\ cnCmd' = cnCmd /\ cnRes' = cnRes /\ cnAlone' = cnAlone
    BY DEF CnInv, StoreDelete, CnHead, CnAdvance, CnDels
  <1>2. t \in Seq(CnCalls) /\ cnTodo \in [CnProc -> Seq(CnCalls)] /\ cnErrs \in [CnProc -> BOOLEAN] /\ cnDirty \in BOOLEAN
    BY <1>1 DEF CnTyped
  <1>3. cnCmd[p] # "idle" /\ cnRes[p] = "none"
    BY <1>1 DEF CnOwn
  <1>4. Tail(t) \in Seq(CnCalls) /\ c = t[1] /\ 1 \in 1 .. Len(t) /\ c \in CnCalls
    BY <1>1, <1>2
  <1>5. cnTodo'[p] = Tail(t) /\ cnTodo' \in [CnProc -> Seq(CnCalls)]
    BY <1>1, <1>2, <1>4
  <1>6. CnOrdered(Tail(t)) /\ \A i \in 1 .. Len(Tail(t)) : Tail(t)[i].op # "writeback"
    BY <1>1, CnTailOrdered DEF CnOwn
  <1>7. \A i \in 1 .. Len(Tail(t)) : Tail(t)[i] # CnOp("set", "meta")
    <2> SUFFICES ASSUME NEW i \in 1 .. Len(Tail(t)) PROVE Tail(t)[i] # CnOp("set", "meta")
      OBVIOUS
    <2>1. i + 1 \in 1 .. Len(t) /\ Tail(t)[i] = t[i + 1]
      BY <1>1, <1>2
    <2>2. \A j \in 1 .. Len(t) : t[j].op \in CnDels \cup {"notemplate"}
      BY <1>1, <1>4 DEF CnOwn, CnOrdered
    <2> QED BY <2>1, <2>2 DEF CnOp, CnDels
  <1>8. \A q \in CnOthers(p) : cnTodo'[q] = cnTodo[q] /\ cnCmd'[q] = cnCmd[q] /\ cnRes'[q] = cnRes[q] /\ ~cnAlone'[q]
    BY <1>1, <1>2, <1>3, CnNotAlone DEF CnOthers
  <1>9. /\ cnStore' \in [CnPath -> CnProc \cup {"none"}] /\ cnErrs' \in [CnProc -> BOOLEAN] /\ cnDirty' \in BOOLEAN
        /\ cnAlone[p] /\ cnCmd[p] \in {"delete", "rollback"} /\ ~cnErrs'[p] => CnGoing(Tail(t), cnStore')
        => CnTyped' /\ CnOwn(p)'
    <2> SUFFICES ASSUME cnStore' \in [CnPath -> CnProc \cup {"none"}], cnErrs' \in [CnProc -> BOOLEAN], cnDirty' \in BOOLEAN,
                        cnAlone[p] /\ cnCmd[p] \in {"delete", "rollback"} /\ ~cnErrs'[p] => CnGoing(Tail(t), cnStore')
                 PROVE  CnTyped' /\ CnOwn(p)'
      OBVIOUS
    <2>1. CnTyped'
      BY <1>1, <1>5 DEF CnTyped
    <2>2. CnFirst(Tail(t), cnStore') /\ CnReadBack(Tail(t), cnStore')
      BY <1>6, <1>7 DEF CnFirst, CnReadBack
    <2>3. cnAlone'[p] => \A r \in CnOthers(p) : cnCmd'[r] = "idle"
      BY <1>1 DEF CnOwn
    <2>4. cnCmd'[p] # "idle" /\ cnRes'[p] = "none"
      BY <1>1, <1>3
    <2>5. cnAlone'[p] /\ cnCmd'[p] \in {"delete", "rollback"} /\ ~cnErrs'[p] => CnGoing(Tail(t), cnStore')
      BY <1>1
    <2> HIDE DEF t, c, gone
    <2>6. /\ CnOrdered(cnTodo'[p]) /\ CnFirst(cnTodo'[p], cnStore') /\ CnReadBack(cnTodo'[p], cnStore')
          /\ cnAlone'[p] /\ cnCmd'[p] \in {"delete", "rollback"} /\ ~cnErrs'[p] => CnGoing(cnTodo'[p], cnStore')
      BY <1>5, <1>6, <2>2, <2>5
    <2>7. CnOwn(p)'
      BY <2>3, <2>4, <2>6 DEF CnOwn
    <2> QED BY <2>1, <2>7
  <1>10. CASE /\ cnErrs' = [cnErrs EXCEPT ![p] = TRUE] /\ cnDirty' = TRUE /\ cnStore' = cnStore
    <2>1. cnErrs' \in [CnProc -> BOOLEAN] /\ cnErrs'[p]
      BY <1>2, <1>10
    <2>2. CnTyped' /\ CnOwn(p)'
      BY <1>1, <1>9, <1>10, <2>1 DEF CnTyped
    <2> QED BY <1>8, <1>10, <2>2, CnKeepsOn
  <1>11. CASE /\ cnStore' = [e \in CnPath |-> IF e \in gone THEN "none" ELSE cnStore[e]] /\ cnErrs' = cnErrs
              /\ cnDirty' = (cnDirty \/ \E q \in CnOthers(p) : CnActive(q))
    <2> DEFINE r == cnStore'
    <2>1. cnStore \in [CnPath -> CnProc \cup {"none"}]
      BY <1>1 DEF CnTyped
    <2>2. r \in [CnPath -> CnProc \cup {"none"}] /\ cnErrs' \in [CnProc -> BOOLEAN] /\ cnDirty' \in BOOLEAN
      BY <1>2, <1>11, <2>1
    <2>3. \A e \in CnPath : r[e] = IF e \in gone THEN "none" ELSE cnStore[e]
      BY <1>11
    <2>4. CnGone \subseteq CnPath /\ "meta" \in CnPath /\ CnNeeded \subseteq CnPath
      BY CnNames DEF CnGone, CnPath
    <2>5. cnAlone[p] /\ cnCmd[p] \in {"delete", "rollback"} /\ ~cnErrs'[p] => CnGoing(Tail(t), r)
      <3> SUFFICES ASSUME cnAlone[p], cnCmd[p] \in {"delete", "rollback"}, ~cnErrs'[p] PROVE CnGoing(Tail(t), r)
        OBVIOUS
      <3>1. CnGoing(t, cnStore)
        BY <1>1, <1>11 DEF CnOwn
      <3>2. \A e \in CnGone : cnStore[e] = "none" => r[e] = "none"
        BY <2>3, <2>4
      <3>3. ASSUME NEW e \in CnGone, Removes(c, e) PROVE r[e] = "none"
        <4>1. e \in gone
          BY <3>3 DEF Removes, CnOp
        <4> QED BY <2>3, <2>4, <4>1
      <3>4. \A e \in CnGone : Removes(Head(t), e) => r[e] = "none"
        BY <3>3
      <3>5. t # <<>> /\ t \in Seq(CnCalls)
        BY <1>1, <1>2
      <3> HIDE DEF r, t, c, gone
      <3> QED BY <3>1, <3>2, <3>4, <3>5, CnTailGoing
    <2>6. CnTyped' /\ CnOwn(p)'
      BY <1>9, <2>2, <2>5
    <2>7. ASSUME ~cnDirty'
          PROVE  ~cnDirty /\ (\A q \in CnOthers(p) : cnCmd[q] = "idle") /\ (CnWhole(r) \/ CnRemoving(p)')
      <3>1. ~cnDirty /\ \A q \in CnOthers(p) : cnCmd[q] = "idle"
        BY <1>11, <2>7 DEF CnActive
      <3>2. CASE \E j \in 1 .. Len(t) : t[j] = CnOp("del", "meta")
        <4>1. PICK j \in 1 .. Len(t) : t[j] = CnOp("del", "meta")
          BY <3>2
        <4>2. CASE j = 1
          <5>1. c = CnOp("del", "meta")
            BY <1>4, <4>1, <4>2
          <5>2. "meta" \in gone
            BY <5>1 DEF CnOp
          <5> QED BY <2>3, <2>4, <3>1, <5>2 DEF CnWhole
        <4>3. CASE j # 1
          <5>1. j - 1 \in 1 .. Len(Tail(t)) /\ Tail(t)[j - 1] = t[j]
            BY <1>1, <1>2, <4>3
          <5>2. j - 1 \in 1 .. Len(cnTodo'[p]) /\ cnTodo'[p][j - 1] = CnOp("del", "meta")
            BY <1>5, <4>1, <5>1
          <5> QED BY <1>1, <3>1, <5>2 DEF CnRemoving
        <4> QED BY <4>2, <4>3
      <3>3. CASE ~\E j \in 1 .. Len(t) : t[j] = CnOp("del", "meta")
        <4>1. c = CnOp("del", "custom")
          BY <1>1, <1>4, <3>3 DEF CnOwn, CnOrdered
        <4>2. gone = {"custom"}
          BY <4>1 DEF CnOp
        <4>3. CnWhole(cnStore)
          <5>1. ASSUME NEW q \in CnProc, CnRemoving(q) PROVE FALSE
            <6>1. q = p
              BY <1>3, <5>1 DEF CnRemoving, CnOthers
            <6> QED BY <3>3, <5>1, <6>1 DEF CnRemoving
          <5> QED BY <3>1, <5>1 DEF CnInv
        <4>4. r["meta"] = cnStore["meta"] /\ \A f \in CnNeeded : r[f] = cnStore[f]
          BY <2>3, <2>4, <4>2, CnNames
        <4> QED BY <3>1, <4>3, <4>4 DEF CnWhole
      <3> QED BY <3>2, <3>3
    <2> QED BY <1>8, <2>6, <2>7, CnKeepsOn
  <1> QED BY <1>10, <1>11 DEF StoreDelete, CnAt

\* Delete leaves nothing that would have to be written back or stored.
LEMMA CnRollback ==
    ASSUME NEW s
    PROVE  CnOrdered(Delete) /\ CnFirst(Delete, s) /\ CnReadBack(Delete, s) /\ CnGoing(Delete, s)
  BY CnDelete DEF CnFresh, CnFirst, CnReadBack, CnGoing

\* A failed test takes the connection back, or ends the command.
LEMMA CnTestFailed ==
    ASSUME CnInv, NEW p \in CnProc, cnCmd[p] # "idle", cnTodo[p] = <<>> \/ Head(cnTodo[p]).op \notin CnDels,
           NEW res \in {"missing", "failed"}, TestFailed(p, res), UNCHANGED <<cnStore, cnAlone, cnDirty>>,
           cnErrs' \in [CnProc -> BOOLEAN]
    PROVE  CnInv'
  <1>1. CnTyped
    BY DEF CnInv
  <1>2. DOMAIN cnCmd = CnProc /\ cnDirty \in BOOLEAN
    BY <1>1 DEF CnTyped
  <1>3. CASE cnCmd[p] = "testing"
    <2>1. cnTodo' = [cnTodo EXCEPT ![p] = Delete] /\ cnCmd' = [cnCmd EXCEPT ![p] = "rollback"] /\ cnRes' = cnRes
      BY <1>3 DEF TestFailed
    <2>2. DOMAIN cnCmd' = CnProc /\ cnCmd'[p] # "idle" /\ \A q \in CnOthers(p) : cnCmd'[q] = cnCmd[q]
      BY <1>2, <2>1 DEF CnOthers
    <2>3. CnOrdered(Delete) /\ CnFirst(Delete, cnStore) /\ CnReadBack(Delete, cnStore) /\ CnGoing(Delete, cnStore)
      BY CnRollback
    <2> QED BY <2>1, <2>2, <2>3, CnContinues
  <1>4. CASE cnCmd[p] # "testing"
    <2>1. CnEnd(p, res)
      BY <1>4 DEF TestFailed
    <2> QED BY <1>2, <2>1, CnEnded
  <1> QED BY <1>3, <1>4

\* A call to make is one of a command that runs.
LEMMA CnRunning ==
    ASSUME CnInv, NEW p \in CnProc, NEW ops, CnHead(p, ops)
    PROVE  /\ CnTyped /\ CnOwn(p) /\ cnCmd[p] # "idle" /\ cnTodo[p] # <<>> /\ Head(cnTodo[p]).op \in ops
           /\ cnTodo[p] \in Seq(CnCalls) /\ Head(cnTodo[p]) = cnTodo[p][1] /\ 1 \in 1 .. Len(cnTodo[p])
           /\ Head(cnTodo[p]) \in CnCalls
           /\ cnStore \in [CnPath -> CnProc \cup {"none"}] /\ cnErrs \in [CnProc -> BOOLEAN] /\ cnDirty \in BOOLEAN
  <1>1. CnTyped /\ CnOwn(p) /\ cnTodo[p] # <<>> /\ Head(cnTodo[p]).op \in ops
    BY DEF CnInv, CnHead
  <1>2. /\ cnTodo[p] \in Seq(CnCalls) /\ cnStore \in [CnPath -> CnProc \cup {"none"}] /\ cnErrs \in [CnProc -> BOOLEAN]
        /\ cnDirty \in BOOLEAN
    BY <1>1 DEF CnTyped
  <1>3. Head(cnTodo[p]) = cnTodo[p][1] /\ 1 \in 1 .. Len(cnTodo[p]) /\ Head(cnTodo[p]) \in CnCalls
    BY <1>1, <1>2
  <1>4. cnCmd[p] # "idle"
    BY <1>1 DEF CnOwn
  <1> QED BY <1>1, <1>2, <1>3, <1>4

\* The calls that only read.
LEMMA CnReads ==
    ASSUME CnInv, NEW p \in CnProc,
           AbsentCheck(p) \/ MissingField(p) \/ SkipField(p) \/ LoadConnection(p) \/ ExecuteTestStrategy(p)
    PROVE  CnInv'
  <1> DEFINE t == cnTodo[p]
             ops == {"absent", "missing", "notemplate", "skip", "load", "need", "http"}
  <1>1. CnHead(p, ops)
    BY DEF AbsentCheck, MissingField, SkipField, LoadConnection, ExecuteTestStrategy, CnHead
  <1>2. /\ CnTyped /\ CnOwn(p) /\ cnCmd[p] # "idle" /\ t # <<>> /\ Head(t).op \in ops
        /\ cnStore \in [CnPath -> CnProc \cup {"none"}] /\ cnErrs \in [CnProc -> BOOLEAN] /\ cnDirty \in BOOLEAN
    BY <1>1, CnRunning
  <1>3. cnStore' = cnStore /\ cnAlone' = cnAlone /\ cnDirty' = cnDirty
    BY DEF AbsentCheck, MissingField, SkipField, LoadConnection, ExecuteTestStrategy, CnKeep
  <1>4. cnErrs' \in [CnProc -> BOOLEAN] /\ (cnErrs[p] => cnErrs'[p])
    BY <1>2 DEF AbsentCheck, MissingField, SkipField, LoadConnection, ExecuteTestStrategy, CnKeep
  <1>5. Head(t).op \notin CnDels
    BY <1>2 DEF CnDels
  <1>6. ASSUME CnAdvance(p), Head(t).op # "missing" PROVE CnInv'
    <2>1. Head(t).op \notin CnDels \cup {"missing"} /\ Head(t).op # "set"
      BY <1>2, <1>5, <1>6
    <2> QED BY <1>2, <1>3, <1>4, <1>6, <2>1, CnAdvanced
  <1>7. ASSUME NEW res, res \notin {"deleted", "rolled_back"}, CnEnd(p, res) PROVE CnInv'
    BY <1>2, <1>3, <1>4, <1>5, <1>7, CnEnded
  <1>8. ASSUME NEW res \in {"missing", "failed"}, TestFailed(p, res) PROVE CnInv'
    BY <1>2, <1>3, <1>4, <1>5, <1>8, CnTestFailed
  <1> HIDE DEF t
  <1>9. CASE AbsentCheck(p)
    <2>1. Head(t).op # "missing"
      BY <1>9 DEF AbsentCheck, CnHead, t
    <2>2. CnAdvance(p) \/ CnEnd(p, "ok") \/ CnEnd(p, "exists")
      BY <1>9 DEF AbsentCheck
    <2> QED BY <1>6, <1>7, <2>1, <2>2
  <1>10. CASE MissingField(p)
    <2>1. CnEnd(p, "failed")
      BY <1>10 DEF MissingField
    <2> QED BY <1>7, <2>1
  <1>11. CASE SkipField(p)
    <2>1. Head(t).op # "missing" /\ CnAdvance(p)
      BY <1>11 DEF SkipField, CnHead, t
    <2> QED BY <1>6, <2>1
  <1>12. CASE LoadConnection(p)
    <2>1. Head(t).op # "missing"
      BY <1>12 DEF LoadConnection, CnHead, t
    <2>2. CnAdvance(p) \/ TestFailed(p, "missing")
      BY <1>12 DEF LoadConnection
    <2> QED BY <1>6, <1>8, <2>1, <2>2
  <1>13. CASE ExecuteTestStrategy(p)
    <2>1. Head(t).op # "missing"
      BY <1>13 DEF ExecuteTestStrategy, CnHead, t
    <2>2. CnAdvance(p) \/ TestFailed(p, "failed")
      BY <1>13 DEF ExecuteTestStrategy
    <2> QED BY <1>6, <1>8, <2>1, <2>2
  <1> QED BY <1>9, <1>10, <1>11, <1>12, <1>13

\* A call that stores an entry; the metadata is stored when every required field is.
LEMMA CnStores ==
    ASSUME CnInv, NEW p \in CnProc, StoreSet(p) \/ SaveFieldModes(p)
    PROVE  CnInv'
  <1> DEFINE t == cnTodo[p]
             c == Head(t)
  <1>1. CnHead(p, {"set", "trymodes"})
    BY DEF StoreSet, SaveFieldModes, CnHead
  <1>2. /\ CnTyped /\ CnOwn(p) /\ cnCmd[p] # "idle" /\ t # <<>> /\ c.op \in {"set", "trymodes"} /\ c \in CnCalls
        /\ t \in Seq(CnCalls) /\ c = t[1] /\ 1 \in 1 .. Len(t)
        /\ cnStore \in [CnPath -> CnProc \cup {"none"}] /\ cnErrs \in [CnProc -> BOOLEAN] /\ cnDirty \in BOOLEAN
    BY <1>1, CnRunning
  <1>3. cnErrs' = cnErrs /\ cnAlone' = cnAlone /\ cnDirty' = cnDirty
    BY DEF StoreSet, SaveFieldModes
  <1>4. c.op \notin CnDels \cup {"missing"} /\ p # "none"
    BY <1>2, ConnectionsAssumption DEF CnDels
  <1>5. ASSUME NEW e, CnPut(e, p), CnAdvance(p),
               c.op = "set" => e = c.e, c.op = "trymodes" => e = "fieldmodes"
        PROVE  CnInv'
    <2>1. cnStore' = [cnStore EXCEPT ![e] = p]
      BY <1>5 DEF CnPut
    <2>2. /\ cnStore' \in [CnPath -> CnProc \cup {"none"}]
          /\ \A f \in CnPath : cnStore'[f] = IF f = e THEN p ELSE cnStore[f]
      BY <1>2, <2>1
    <2>3. "meta" \in CnPath /\ CnNeeded \subseteq CnPath
      BY CnNames DEF CnPath
    <2>4. ASSUME ~cnDirty, CnWhole(cnStore) PROVE CnWhole(cnStore')
      <3>1. CASE e = "meta"
        <4>1. c = CnOp("set", "meta")
          <5>1. c.op = "set" /\ c.e = "meta"
            BY <1>2, <1>5, <3>1
          <5> HIDE DEF c
          <5> QED BY <1>2, <5>1 DEF CnCalls, CnOp
        <4>2. CnFirst(t, cnStore)
          BY <1>2, <2>4 DEF CnOwn
        <4>3. \A f \in CnNeeded : cnStore[f] # "none"
          BY <1>2, <4>1, <4>2 DEF CnFirst
        <4> QED BY <1>4, <2>2, <2>3, <4>3 DEF CnWhole
      <3>2. CASE e # "meta"
        BY <1>4, <2>2, <2>3, <2>4, <3>2 DEF CnWhole
      <3> QED BY <3>1, <3>2
    <2>5. \A f \in CnPath : cnStore[f] # "none" => cnStore'[f] # "none"
      BY <1>4, <2>2
    <2>6. c.op = "set" /\ c.e \in CnNeeded => cnStore'[c.e] # "none"
      BY <1>4, <1>5, <2>2, <2>3
    <2> QED BY <1>2, <1>3, <1>4, <1>5, <2>2, <2>4, <2>5, <2>6, CnAdvanced
  <1>6. CASE StoreSet(p) /\ CnPut(CnAt(p), p) /\ CnAdvance(p)
    <2>1. c.op = "set" /\ CnAt(p) = c.e
      BY <1>6 DEF StoreSet, CnHead, CnAt
    <2> QED BY <1>5, <1>6, <2>1
  <1>7. CASE StoreSet(p) /\ cnStore' = cnStore /\ CnEnd(p, "failed")
    <2>1. c.op \notin CnDels
      BY <1>4
    <2> QED BY <1>2, <1>3, <1>7, <2>1, CnEnded
  <1>8. CASE /\ StoreSet(p) /\ cnStore' = cnStore /\ cnTodo' = [cnTodo EXCEPT ![p] = <<CnOp("del", "custom")>>]
             /\ cnCmd' = [cnCmd EXCEPT ![p] = "undo"] /\ cnRes' = cnRes
    <2> DEFINE u == <<CnOp("del", "custom")>>
    <2>1. CnOp("del", "custom") \in CnCalls
      BY DEF CnOp, CnCalls, CnName, CnPath
    <2>2. u \in Seq(CnCalls) /\ Len(u) = 1 /\ \A i \in 1 .. Len(u) : i = 1 /\ u[i] = CnOp("del", "custom")
      BY <2>1
    <2>3. CnOp("del", "custom").op = "del" /\ CnOp("del", "custom") # CnOp("set", "meta")
      BY DEF CnOp
    <2> HIDE DEF u
    <2>4. CnOrdered(u) /\ CnFirst(u, cnStore) /\ CnReadBack(u, cnStore)
      <3>1. \A i \in 1 .. Len(u) : u[i].op = "del" /\ u[i] # CnOp("set", "meta") /\ u[i].op \in CnDels
        BY <2>2, <2>3 DEF CnDels
      <3>2. \A i \in 1 .. Len(u) : \A j \in 1 .. i : j \in 1 .. Len(u)
        BY <2>2
      <3>3. CnOrdered(u)
        BY <2>2, <3>1, <3>2 DEF CnOrdered
      <3>4. CnFirst(u, cnStore) /\ CnReadBack(u, cnStore)
        BY <3>1 DEF CnFirst, CnReadBack
      <3> QED BY <3>3, <3>4
    <2>5. DOMAIN cnCmd' = CnProc /\ cnCmd'[p] = "undo" /\ \A q \in CnOthers(p) : cnCmd'[q] = cnCmd[q]
      BY <1>2, <1>8 DEF CnTyped, CnOthers
    <2>6. c.op \notin CnDels /\ cnTodo' = [cnTodo EXCEPT ![p] = u]
      BY <1>4, <1>8 DEF u
    <2> QED BY <1>2, <1>3, <1>8, <2>4, <2>5, <2>6, CnContinues
  <1>9. CASE SaveFieldModes(p)
    <2>1. CnAdvance(p) /\ (CnPut("fieldmodes", p) \/ cnStore' = cnStore) /\ c.op = "trymodes"
      BY <1>9 DEF SaveFieldModes, CnHead
    <2>2. CASE CnPut("fieldmodes", p)
      BY <1>5, <2>1, <2>2
    <2>3. CASE cnStore' = cnStore
      <3>1. c.op # "set"
        BY <2>1
      <3> QED BY <1>2, <1>3, <1>4, <2>1, <2>3, <3>1, CnAdvanced
    <2> QED BY <2>1, <2>2, <2>3
  <1> QED BY <1>6, <1>7, <1>8, <1>9 DEF StoreSet

\* The metadata that is written back is what was read, and it is still there.
LEMMA CnTested ==
    ASSUME CnInv, NEW p \in CnProc, UpdateLastTested(p) \/ WriteLastTested(p)
    PROVE  CnInv'
  <1> DEFINE t == cnTodo[p]
             c == Head(t)
  <1>1. CnHead(p, {"reread", "writeback"})
    BY DEF UpdateLastTested, WriteLastTested, CnHead
  <1>2. /\ CnTyped /\ CnOwn(p) /\ cnCmd[p] # "idle" /\ t # <<>> /\ c.op \in {"reread", "writeback"} /\ c \in CnCalls
        /\ t \in Seq(CnCalls) /\ c = t[1] /\ 1 \in 1 .. Len(t)
        /\ cnStore \in [CnPath -> CnProc \cup {"none"}] /\ cnErrs \in [CnProc -> BOOLEAN] /\ cnDirty \in BOOLEAN
    BY <1>1, CnRunning
  <1>3. cnErrs' = cnErrs /\ cnAlone' = cnAlone /\ cnDirty' = cnDirty
    BY DEF UpdateLastTested, WriteLastTested, CnKeep
  <1>4. c.op \notin CnDels \cup {"missing"} /\ c.op # "set"
    BY <1>2 DEF CnDels
  <1>5. CASE UpdateLastTested(p)
    <2> DEFINE b == [op |-> "writeback", e |-> "meta", v |-> cnStore["meta"]]
               u == IF cnStore["meta"] = "none" THEN <<>> ELSE <<b>>
    <2>1. cnTodo' = [cnTodo EXCEPT ![p] = u] /\ cnCmd' = cnCmd /\ cnRes' = cnRes /\ cnStore' = cnStore
      BY <1>5 DEF UpdateLastTested, CnKeep
    <2>2. b \in CnCalls /\ b # CnOp("set", "meta") /\ b.op = "writeback" /\ b.v = cnStore["meta"]
      <3>1. "meta" \in CnPath
        BY DEF CnPath
      <3>2. cnStore["meta"] \in CnProc \cup {"none"}
        BY <1>2, <3>1
      <3>3. b \in [op : {"writeback"}, e : {"meta"}, v : CnProc \cup {"none"}]
        BY <3>2
      <3>4. b.op # CnOp("set", "meta").op
        BY DEF CnOp
      <3> QED BY <3>3, <3>4 DEF CnCalls
    <2> HIDE DEF b
    <2>3. u \in Seq(CnCalls) /\ Len(u) \in {0, 1} /\ \A i \in 1 .. Len(u) : Len(u) = 1 /\ u[i] = b /\ cnStore["meta"] # "none"
      BY <2>2
    <2> HIDE DEF u
    <2>4. CnOrdered(u)
      BY <2>2, <2>3 DEF CnOrdered, CnDels
    <2>5. CnFirst(u, cnStore) /\ CnReadBack(u, cnStore)
      BY <2>2, <2>3 DEF CnFirst, CnReadBack
    <2>6. ~(cnAlone[p] /\ cnCmd[p] \in {"delete", "rollback"} /\ ~cnErrs[p])
      BY <1>2, <1>4 DEF CnOwn, CnGoing
    <2>7. DOMAIN cnCmd' = CnProc /\ cnCmd'[p] # "idle" /\ \A q \in CnOthers(p) : cnCmd'[q] = cnCmd[q]
      BY <1>2, <2>1 DEF CnTyped
    <2>8. c.op \notin CnDels /\ cnErrs' \in [CnProc -> BOOLEAN]
      BY <1>2, <1>3, <1>4
    <2>9. ~(cnAlone[p] /\ cnCmd'[p] \in {"delete", "rollback"} /\ ~cnErrs'[p])
      BY <1>3, <2>1, <2>6
    <2> QED BY <1>2, <1>3, <2>1, <2>4, <2>5, <2>7, <2>8, <2>9, CnContinues
  <1>6. CASE WriteLastTested(p)
    <2>1. CnAdvance(p) /\ (CnPut("meta", c.v) \/ cnStore' = cnStore) /\ c.op = "writeback"
      BY <1>6 DEF WriteLastTested, CnHead
    <2>2. c.v \in CnProc \cup {"none"}
      <3> HIDE DEF c
      <3> QED BY <1>2, <2>1 DEF CnCalls
    <2>3. "meta" \in CnPath /\ CnNeeded \subseteq CnPath /\ \A f \in CnNeeded : f # "meta"
      BY CnNames DEF CnPath
    <2>4. CASE CnPut("meta", c.v)
      <3>1. cnStore' = [cnStore EXCEPT !["meta"] = c.v]
        BY <2>4 DEF CnPut
      <3> HIDE DEF c, t
      <3>2. /\ cnStore' \in [CnPath -> CnProc \cup {"none"}]
            /\ \A f \in CnPath : cnStore'[f] = IF f = "meta" THEN c.v ELSE cnStore[f]
        BY <1>2, <2>2, <2>3, <3>1
      <3>3. c.v # "none"
        BY <1>2, <2>1 DEF CnOwn, CnOrdered, t
      <3>4. ~cnDirty => cnStore["meta"] # "none"
        BY <1>2, <2>1 DEF CnOwn, CnReadBack, t
      <3>5. ~cnDirty /\ CnWhole(cnStore) => CnWhole(cnStore')
        BY <2>3, <3>2, <3>4 DEF CnWhole
      <3>6. \A e \in CnPath : cnStore[e] # "none" => cnStore'[e] # "none"
        BY <3>2, <3>3
      <3>7. cnErrs' \in [CnProc -> BOOLEAN] /\ (cnErrs[p] => cnErrs'[p]) /\ Head(cnTodo[p]).op \notin CnDels \cup {"missing"}
            /\ Head(cnTodo[p]).op # "set" /\ CnAdvance(p) /\ cnTodo[p] # <<>>
        BY <1>2, <1>3, <1>4, <2>1 DEF c, t
      <3> QED BY <1>3, <3>2, <3>5, <3>6, <3>7, CnAdvanced
    <2>5. CASE cnStore' = cnStore
      BY <1>2, <1>3, <1>4, <2>1, <2>5, CnAdvanced
    <2> QED BY <2>1, <2>4, <2>5
  <1> QED BY <1>5, <1>6

\* The command has made its last call, or the process is killed.
LEMMA CnLast ==
    ASSUME CnInv, NEW p \in CnProc, CnFinish(p) \/ CnKill(p)
    PROVE  CnInv'
  <1>1. /\ CnTyped /\ CnOwn(p) /\ cnCmd[p] # "idle" /\ cnStore' = cnStore /\ cnAlone' = cnAlone
        /\ DOMAIN cnCmd = CnProc /\ cnErrs \in [CnProc -> BOOLEAN] /\ cnDirty \in BOOLEAN /\ cnTodo \in [CnProc -> Seq(CnCalls)]
    BY DEF CnInv, CnTyped, CnFinish, CnKill, CnActive
  <1>2. CASE CnKill(p)
    <2>1. /\ CnEnd(p, "killed") /\ cnErrs' = cnErrs /\ cnDirty' = (cnDirty \/ CnDeleting(p))
      BY <1>2 DEF CnKill
    <2>2. cnDirty' \in BOOLEAN /\ cnErrs' \in [CnProc -> BOOLEAN]
      BY <1>1, <2>1 DEF CnDeleting
    <2>3. ~cnDirty' => ~cnDirty /\ (cnTodo[p] = <<>> \/ Head(cnTodo[p]).op \notin CnDels)
      <3> SUFFICES ASSUME ~cnDirty', cnTodo[p] # <<>> PROVE ~cnDirty /\ Head(cnTodo[p]).op \notin CnDels
        BY <2>1
      <3>1. 1 \in DOMAIN cnTodo[p] /\ Head(cnTodo[p]) = cnTodo[p][1]
        BY <1>1
      <3> QED BY <2>1, <3>1 DEF CnDeleting, CnDels
    <2> QED BY <1>1, <2>1, <2>2, <2>3, CnEnded
  <1>3. CASE CnFinish(p)
    <2>1. /\ cnTodo[p] = <<>> /\ cnErrs' = [cnErrs EXCEPT ![p] = FALSE] /\ cnDirty' = cnDirty
      BY <1>3 DEF CnFinish
    <2>2. cnErrs' \in [CnProc -> BOOLEAN]
      BY <1>1, <2>1
    <2>3. ASSUME NEW res, CnEnd(p, res), res \in {"deleted", "rolled_back"} => cnCmd[p] \in {"delete", "rollback"} /\ ~cnErrs[p]
          PROVE  CnInv'
      <3>1. ASSUME cnAlone[p], res \in {"deleted", "rolled_back"} PROVE \A e \in CnGone : cnStore[e] = "none"
        <4>1. CnGoing(<<>>, cnStore)
          BY <1>1, <2>1, <2>3, <3>1 DEF CnOwn
        <4> QED BY <4>1 DEF CnGoing
      <3> QED BY <1>1, <2>1, <2>2, <2>3, <3>1, CnEnded
    <2>4. CASE cnCmd[p] = "connect" /\ cnCmd' = [cnCmd EXCEPT ![p] = "testing"] /\ cnTodo' = [cnTodo EXCEPT ![p] = TestOps] /\ UNCHANGED cnRes
      <3>1. TestOps \in Seq(CnMild) /\ Len(TestOps) = 3 /\ \A i \in 1 .. 3 : TestOps[i].op # "set"
        BY DEF TestOps, CnOp, CnMild, CnName, CnPath
      <3>2. \A i \in 1 .. Len(TestOps) : TestOps[i] # CnOp("set", "meta")
        BY <3>1 DEF CnOp
      <3>3. CnOrdered(TestOps) /\ CnFirst(TestOps, cnStore) /\ CnReadBack(TestOps, cnStore)
        BY <3>1, <3>2, CnMildOrdered DEF CnFirst, CnReadBack
      <3>4. DOMAIN cnCmd' = CnProc /\ cnCmd'[p] = "testing" /\ \A q \in CnOthers(p) : cnCmd'[q] = cnCmd[q]
        BY <1>1, <2>4 DEF CnOthers
      <3> QED BY <1>1, <2>1, <2>2, <2>4, <3>3, <3>4, CnContinues
    <2>5. CASE cnCmd[p] = "testing" /\ TestFailed(p, "failed")
      BY <1>1, <2>1, <2>2, <2>5, CnTestFailed
    <2>6. ASSUME NEW res, CnEnd(p, res), res \notin {"deleted", "rolled_back"} PROVE CnInv'
      BY <2>3, <2>6
    <2>7. CASE cnCmd[p] = "delete" /\ CnEnd(p, IF cnErrs[p] THEN "failed" ELSE "deleted")
      BY <2>3, <2>7
    <2>8. CASE cnCmd[p] = "rollback" /\ CnEnd(p, IF cnErrs[p] THEN "failed" ELSE "rolled_back")
      BY <2>3, <2>8
    <2>9. CASE CnEnd(p, "connected") \/ CnEnd(p, "ok") \/ CnEnd(p, "failed") \/ CnEnd(p, "cleared")
      BY <2>6, <2>9
    <2>10. \/ cnCmd[p] = "connect" /\ cnCmd' = [cnCmd EXCEPT ![p] = "testing"] /\ cnTodo' = [cnTodo EXCEPT ![p] = TestOps] /\ UNCHANGED cnRes
           \/ cnCmd[p] = "testing" /\ TestFailed(p, "failed")
           \/ cnCmd[p] = "delete" /\ CnEnd(p, IF cnErrs[p] THEN "failed" ELSE "deleted")
           \/ cnCmd[p] = "rollback" /\ CnEnd(p, IF cnErrs[p] THEN "failed" ELSE "rolled_back")
           \/ CnEnd(p, "connected") \/ CnEnd(p, "ok") \/ CnEnd(p, "failed") \/ CnEnd(p, "cleared")
      BY <1>3 DEF CnFinish
    <2> QED BY <2>4, <2>5, <2>7, <2>8, <2>9, <2>10
  <1> QED BY <1>2, <1>3

\* A command of one or two calls that neither deletes nor stores the metadata.
LEMMA CnShort ==
    ASSUME NEW c \in CnMild, NEW d \in CnMild, c # CnOp("set", "meta"), d # CnOp("set", "meta")
    PROVE  CnFresh(<<c>>) /\ CnFresh(<<c, d>>)
  <1>1. <<c>> \in Seq(CnMild) /\ \A i \in 1 .. Len(<<c>>) : <<c>>[i] # CnOp("set", "meta")
    OBVIOUS
  <1>2. <<c, d>> \in Seq(CnMild) /\ \A i \in 1 .. Len(<<c, d>>) : <<c, d>>[i] # CnOp("set", "meta")
    OBVIOUS
  <1> QED BY <1>1, <1>2, CnOther

\* Every command begins with its program.
LEMMA CnBegins ==
    ASSUME CnInv, NEW p \in CnProc,
           \/ \E ask \in CnAsks : ConnectCmd(p, ask) \/ UiCreate(p, ask)
           \/ ConnectCustomCmd(p) \/ DisconnectCmd(p) \/ WizardConnect(p) \/ UiDelete(p) \/ UiTest(p)
           \/ \E f \in Range(CnSecret) : RotateField(p, f)
           \/ \E d \in {<<>>, <<Head(CnSecret)>>}, policy \in BOOLEAN : UiUpdate(p, d, policy)
           \/ ClearConnections(p)
    PROVE  CnInv'
  <1>0. /\ \A f \in CnPath : CnOp("set", f) \in CnMild /\ (f # "meta" => CnOp("set", f) # CnOp("set", "meta"))
        /\ CnOp("trymodes", "fieldmodes") \in CnMild /\ CnOp("notemplate", "custom_meta") \in CnMild
        /\ CnOp("load", "meta") \in CnMild /\ CnOp("http", "meta") \in CnMild /\ CnOp("reread", "meta") \in CnMild
        /\ CnOp("need", "meta") \in CnMild
        /\ \A op \in {"notemplate", "load", "http", "reread", "need"} : \A e : CnOp(op, e) # CnOp("set", "meta")
    BY DEF CnOp, CnMild, CnName, CnPath
  <1>00. {"fieldmodes", "policy", "custom", "custom_meta"} \subseteq CnPath
    BY DEF CnPath
  <1>01. <<>> \in Seq(CnMild) /\ Len(<<>>) = 0
    OBVIOUS
  <1>1. ASSUME NEW cmd \in {"connect", "connect_notest", "create", "custom", "wizard", "test", "rotate", "update", "clear"},
               NEW t, CnFresh(t), CnStart(p, cmd, t)
        PROVE  CnInv'
    BY <1>1, CnStarts
  <1>2. ASSUME CnStart(p, "delete", Delete) PROVE CnInv'
    BY <1>2, CnDelete, CnStarts
  <1>3. ASSUME NEW ask \in CnAsks, ConnectCmd(p, ask) PROVE CnInv'
    <2>1. CnFresh(Connect(GivenFields(ask), ask.empty))
      <3>1. ask.empty \cap CnNeeded = {}
        BY DEF CnNeeded
      <3> QED BY <1>01, <3>1, CnConnect
    <2>2. CnStart(p, IF ask.test THEN "connect" ELSE "connect_notest", Connect(GivenFields(ask), ask.empty))
      BY <1>3 DEF ConnectCmd
    <2> QED BY <1>1, <2>1, <2>2
  <1>4. ASSUME NEW ask \in CnAsks, UiCreate(p, ask) PROVE CnInv'
    <2>1. <<CnOp("trymodes", "fieldmodes")>> \in Seq(CnMild)
      BY <1>0
    <2>2. CnFresh(Connect(GivenFields(ask), ask.empty) \o <<CnOp("trymodes", "fieldmodes")>>)
      <3>1. ask.empty \cap CnNeeded = {}
        BY DEF CnNeeded
      <3> QED BY <2>1, <3>1, CnConnect
    <2> QED BY <1>1, <1>4, <2>2 DEF UiCreate
  <1>5. CASE ConnectCustomCmd(p)
    <2>1. CnFresh(<<CnOp("set", "custom"), CnOp("set", "custom_meta")>>)
      BY <1>0, <1>00, CnShort
    <2> QED BY <1>1, <1>5, <2>1 DEF ConnectCustomCmd
  <1>6. CASE DisconnectCmd(p) \/ UiDelete(p)
    BY <1>2, <1>6 DEF DisconnectCmd, UiDelete
  <1>7. CASE WizardConnect(p)
    <2>1. CnFresh(Connect({Head(CnSecret)}, {}))
      BY <1>01, CnConnect
    <2> QED BY <1>1, <1>7, <2>1 DEF WizardConnect
  <1>8. CASE UiTest(p)
    <2>1. TestOps \in Seq(CnMild) /\ Len(TestOps) = 3
      BY <1>0 DEF TestOps
    <2>2. \A i \in 1 .. 3 : TestOps[i] \in {CnOp("load", "meta"), CnOp("http", "meta"), CnOp("reread", "meta")}
      BY DEF TestOps
    <2>3. CnFresh(TestOps)
      BY <1>0, <2>1, <2>2, CnOther
    <2> QED BY <1>1, <1>8, <2>3 DEF UiTest
  <1>9. ASSUME NEW f \in Range(CnSecret), RotateField(p, f) PROVE CnInv'
    <2>1. f \in CnPath /\ f # "meta"
      BY ConnectionsAssumption DEF CnPath
    <2>2. CnFresh(<<CnOp("set", f)>>)
      BY <1>0, <2>1, CnShort
    <2> QED BY <1>1, <1>9, <2>2 DEF RotateField
  <1>10. ASSUME NEW d \in {<<>>, <<Head(CnSecret)>>}, NEW policy \in BOOLEAN, UiUpdate(p, d, policy) PROVE CnInv'
    <2> DEFINE m == {c \in CnMild : c # CnOp("set", "meta")}
               A == <<CnOp("need", "meta"), CnOp("set", "fieldmodes")>>
               B == CnEach("set", d)
               C == IF policy THEN <<CnOp("set", "policy")>> ELSE <<>>
               t == A \o B \o C
    <2>1. A \in Seq(m)
      BY <1>0, <1>00
    <2>2. Head(CnSecret) \in CnPath /\ Head(CnSecret) # "meta"
      BY CnNames, ConnectionsAssumption DEF CnPath
    <2>3. B = <<>> \/ B = <<CnOp("set", Head(CnSecret))>>
      BY DEF CnEach
    <2>4. B \in Seq(m)
      <3>1. CnOp("set", Head(CnSecret)) \in m
        BY <1>0, <2>2
      <3> DEFINE h == CnOp("set", Head(CnSecret))
      <3> HIDE DEF B, m, h
      <3>2. B = <<>> \/ B = <<h>>
        BY <2>3 DEF h
      <3>3. h \in m
        BY <3>1 DEF h
      <3>4. <<>> \in Seq(m) /\ <<h>> \in Seq(m)
        BY <3>3
      <3> QED BY <3>2, <3>4
    <2>5. C \in Seq(m)
      <3>1. CnOp("set", "policy") \in m
        BY <1>0, <1>00
      <3> HIDE DEF m
      <3> QED BY <3>1
    <2> HIDE DEF A, B, C
    <2>6. t \in Seq(m)
      <3> HIDE DEF m
      <3> QED BY <2>1, <2>4, <2>5
    <2> HIDE DEF t
    <2>7. t \in Seq(CnMild) /\ \A i \in 1 .. Len(t) : t[i] # CnOp("set", "meta")
      <3>1. \A i \in 1 .. Len(t) : t[i] \in m
        BY <2>6
      <3>2. m \subseteq CnMild
        OBVIOUS
      <3>3. t \in Seq(CnMild)
        <4> HIDE DEF m
        <4> QED BY <2>6, <3>2
      <3> QED BY <3>1, <3>3
    <2>8. CnFresh(t)
      BY <2>7, CnOther
    <2>9. CnStart(p, "update", t)
      BY <1>10 DEF UiUpdate, A, B, C, t
    <2> QED BY <1>1, <2>8, <2>9
  <1>11. CASE ClearConnections(p)
    <2> DEFINE stuck == <<CnOp("notemplate", "custom_meta")>>
    <2>1. CnFresh(<<>>)
      <3>1. <<>> \in Seq(CnMild) /\ \A i \in 1 .. Len(<<>>) : <<>>[i] # CnOp("set", "meta")
        BY <1>01
      <3> QED BY <3>1, CnOther
    <2>2. CnFresh(stuck)
      BY <1>0, CnShort
    <2>3. CnFresh(Delete) /\ CnFresh(Delete \o stuck)
      BY CnDelete
    <2>4. CnFresh(<<>> \o stuck)
      <3>1. stuck \in Seq(CnMild)
        BY <1>0
      <3>2. <<>> \o stuck = stuck
        BY <3>1
      <3> QED BY <2>2, <3>2
    <2>5. \/ CnStart(p, "clear", <<>>) \/ CnStart(p, "clear", Delete) \/ CnStart(p, "clear", stuck)
          \/ CnStart(p, "clear", <<>> \o stuck) \/ CnStart(p, "clear", Delete \o stuck)
      BY <1>11 DEF ClearConnections
    <2> HIDE DEF stuck
    <2> QED BY <1>1, <2>1, <2>2, <2>3, <2>4, <2>5
  <1> QED BY <1>3, <1>4, <1>5, <1>6, <1>7, <1>8, <1>9, <1>10, <1>11

\* For any number of processes and any template: however the commands that connect,
\* test, edit, rotate and delete interleave, fail or are killed between two entries, a
\* listed connection has the fields it cannot work without, and one whose deletion is
\* reported is gone (connections/connect.go:36 and 235, cli/cmd_connect.go:292).
THEOREM ConnectionsAreWhole == CnInit /\ [][CnNext]_cnVars => []ConnectionsHold
  <1>1. CnInit => CnInv
    <2> SUFFICES ASSUME CnInit PROVE CnInv
      OBVIOUS
    <2>1. /\ cnStore = [e \in CnPath |-> "none"]
          /\ cnCmd = [p \in CnProc |-> "idle"] /\ cnTodo = [p \in CnProc |-> <<>>]
          /\ cnErrs = [p \in CnProc |-> FALSE] /\ cnRes = [p \in CnProc |-> "none"]
          /\ cnAlone = [p \in CnProc |-> FALSE] /\ cnDirty = FALSE
      BY DEF CnInit
    <2>2. <<>> \in Seq(CnCalls)
      OBVIOUS
    <2>3. CnTyped
      BY <2>1, <2>2 DEF CnTyped
    <2>4. CnOrdered(<<>>) /\ CnFirst(<<>>, cnStore) /\ CnReadBack(<<>>, cnStore)
      BY <2>2 DEF CnOrdered, CnFirst, CnReadBack
    <2>5. \A p \in CnProc : CnOwn(p)
      BY <2>1, <2>4 DEF CnOwn
    <2>6. CnWhole(cnStore)
      BY <2>1 DEF CnWhole, CnPath
    <2> QED BY <2>3, <2>5, <2>6 DEF CnInv
  <1>2. CnInv => ConnectionsHold
    <2> SUFFICES ASSUME CnInv PROVE ConnectionsHold
      OBVIOUS
    <2>1. ListedComplete
      <3> SUFFICES ASSUME ~cnDirty, \A p \in CnProc : ~CnDeleting(p) PROVE CnWhole(cnStore)
        BY DEF ListedComplete, CnWhole
      <3>1. ASSUME NEW p \in CnProc, CnRemoving(p) PROVE FALSE
        <4>1. PICK i \in 1 .. Len(cnTodo[p]) : cnTodo[p][i] = CnOp("del", "meta")
          BY <3>1 DEF CnRemoving
        <4>2. cnTodo[p] \in Seq(CnCalls)
          BY DEF CnInv, CnTyped
        <4>3. i \in DOMAIN cnTodo[p] /\ cnTodo[p][i].op = "del"
          BY <4>1, <4>2 DEF CnOp
        <4> QED BY <4>3 DEF CnDeleting
      <3> QED BY <3>1 DEF CnInv
    <2>2. DeletedMeansGone
      BY DEF CnInv, CnOwn, DeletedMeansGone, CnGone
    <2> QED BY <2>1, <2>2 DEF ConnectionsHold
  <1>3. CnInv /\ [CnNext]_cnVars => CnInv'
    <2> SUFFICES ASSUME CnInv, [CnNext]_cnVars PROVE CnInv'
      OBVIOUS
    <2>1. CASE UNCHANGED cnVars
      BY <2>1 DEF cnVars, CnInv, CnTyped, CnOwn, CnRemoving
    <2>2. ASSUME NEW p \in CnProc, CnCall(p) PROVE CnInv'
      BY <2>2, CnReads, CnStores, CnTested, CnDeletes, CnLast DEF CnCall
    <2>3. CASE CnNext
      BY <2>2, <2>3, CnBegins DEF CnNext
    <2> QED BY <2>1, <2>3
  <1> QED BY <1>1, <1>2, <1>3, PTL
=============================================================================
