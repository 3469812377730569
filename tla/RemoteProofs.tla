----------------------------- MODULE RemoteProofs -----------------------------
(***************************************************************************)
(* Proofs about the remote backends, for all twelve of them, every number  *)
(* of reading callers, every set of secrets and any number of items under  *)
(* one path.                                                               *)
(*                                                                         *)
(* The inductive invariant RemoteInv has four parts.  CallsMade: what is   *)
(* left of a call is the end of a backend's program, and only the writer   *)
(* runs one that writes.  StoreInv: the items, and when they are the value *)
(* of the Set under way.  AbsentInv: whoever may still report the item as  *)
(* not found has seen it absent.  BytesInv: who shares bytes with whom,    *)
(* and what the cached ones are worth.                                     *)
(***************************************************************************)
EXTENDS RemoteStore, TLAPS

-----------------------------------------------------------------------------
\* Programs

Instr == {"select", "hit", "evict", "fetch", "await", "copy", "login", "read", "list", "look", "write",
          "create", "upsert", "addversion", "createempty", "verify", "remove", "emit", "use"}
\* Instructions that store a value, and those of them that end the storing.
Replacing == {"write", "create", "upsert"}
Writing   == Replacing \cup {"addversion"}
Pending(t) == \E i \in 1 .. Len(t) : t[i] \in Writing
\* An instruction is still to come.
Ahead(t, i) == \E j \in 1 .. Len(t) : t[j] = i
\* Backends whose callers share no bytes once a call is through, of those some share
\* bytes with the cache for a while.
Sole == Unique \cup Named \cup {"connect"}

\* What the programs promise of the instruction at i, for a call of kind op.
Shaped(b, t, op, i) ==
    /\ t[i] = "write" =>
          /\ i < Len(t) /\ (i > 1 => t[i - 1] = "look")
          /\ (b \in Unique => t[i + 1] = "evict")
    /\ t[i] \in Writing \cup {"createempty"} => op = "set" /\ (b \in Unique => t[i] = "write")
    /\ t[i] \in Replacing => \A j \in i + 1 .. Len(t) : t[j] \notin Writing
    /\ t[i] = "createempty" => i < Len(t) /\ t[i + 1] = "addversion"
    /\ t[i] = "addversion" /\ Len(t) >= i + 3 => t[i + 1] = "createempty"
    /\ t[i] = "remove" => op = "delete" /\ i < Len(t) /\ t[i + 1] = "emit"
    /\ t[i] = "hit" => op = "get" /\ i < Len(t) /\ t[i + 1] = "fetch"
    /\ t[i] \in {"fetch", "await"} => op = "get" /\ i < Len(t) /\ (b \in Unique => t[i + 1] = "copy")
    /\ t[i] \in {"fetch", "await", "hit"} => b \notin Sole \ Unique
    /\ t[i] = "evict" => /\ op \in {"set", "delete"}
                         /\ op = "delete" => \A j \in 1 .. i - 1 : t[j] = "select"
    /\ t[i] \in {"select", "await"} => i = 1
    /\ t[i] = "emit" => i < Len(t) /\ t[i + 1] = "use"
    /\ t[i] = "use" => i = Len(t)
    /\ t[i] = "copy" => b \in Unique /\ (i > 1 => t[i - 1] \in {"fetch", "await"})
Made(b, t, op) == t \in Seq(Instr) /\ \A i \in 1 .. Len(t) : Shaped(b, t, op, i)

Value == Secret \cup {None}
Report == {"ok", "notfound", "locked", "failed", "canceled", "audit"}
CallType == [op : {"none", "get", "set", "delete", "list"}, val : Value, todo : Seq(Instr),
             err : Report,
             found : BOOLEAN, absent : BOOLEAN, stale : BOOLEAN, retried : BOOLEAN, served : Value \cup {Wiped}]
FlightType == [on : BOOLEAN, read : BOOLEAN, res : Value, err : {"ok", "absent", "locked", "failed"}, late : BOOLEAN,
               absent : BOOLEAN]

\* Types, and the calls as the programs leave them: only the writer writes.
CallsMade ==
    /\ store \in DOMAIN Backends /\ items \in Seq(Value) /\ lookFailed \in BOOLEAN
    /\ cache \in [on : BOOLEAN, old : BOOLEAN] /\ flight \in FlightType
    /\ call \in [Caller -> CallType]
    /\ \A g \in Caller : Made(store, call[g].todo, call[g].op) /\ (g # Writer => call[g].op \in {"none", "get"})
    /\ call[Writer].op = "set" => call[Writer].val \in Secret

\* StoreHolds, and the reasons for it.
StoreInv ==
    /\ OneItem
    /\ store \in Unique /\ At(Writer, "write") /\ ~call[Writer].found /\ ~lookFailed => items = <<>>
    /\ store \in Updating /\ ~lookFailed /\ call[Writer].op = "set" /\ call[Writer].err = "ok"
         /\ ~Pending(call[Writer].todo) => items = <<call[Writer].val>>

\* The shared fetch has found no item, or an item of bw or op without the field.
Missed == flight.err = "absent" \/ (store \in Unique /\ flight.read /\ flight.err = "ok" /\ flight.res = None)
\* A call knows of a moment at which the secret was absent, or took an item that a change overlapped.
Excused(c) == c.absent \/ c.stale

\* The item is known to be absent by whoever may report it.
AbsentInv ==
    /\ \A g \in Caller :
          /\ store \in Telling /\ call[g].err = "notfound" => Excused(call[g])
          /\ Busy(g) /\ ~At(g, "emit") /\ ~At(g, "use") /\ Absent(items) => call[g].absent
          /\ At(g, "await") /\ Missed => call[g].absent
    /\ flight.on /\ Absent(items) => flight.absent
    /\ Missed => flight.absent
    /\ ~flight.on => flight.err = "ok" /\ ~flight.read

\* Nobody else refers to g's bytes.
Apart(g) == same[g] = {g} /\ \A h \in Holder \ {g} : g \notin same[h]
Fresh == cache.on /\ ~cache.old => items = <<bytes["cache"]>>
\* The writer has changed an item and will drop the cache's next.
Dirty == call[Writer].op = "set" /\ At(Writer, "evict") /\ ~Ahead(call[Writer].todo, "write")
\* Who finds no field in the item it was given is excused for saying so.
Bare(g) == At(g, "copy") /\ bytes[g] = None => Excused(call[g])
BytesInv ==
    /\ bytes \in [Holder -> Value \cup {Wiped}] /\ same \in [Holder -> SUBSET Holder]
    /\ store \in Sole => \A g \in Caller : ~At(g, "copy") => Apart(g)
    /\ store \in Sole \ {"bw"} => (\A h \in Holder : bytes[h] # Wiped) /\ \A g \in Caller : call[g].served # Wiped
    /\ store \in Unique =>
          /\ Fresh \/ Dirty
          /\ flight.read /\ flight.err = "ok" /\ ~flight.late => items = <<flight.res>>
          /\ Busy(Writer) /\ call[Writer].op = "delete" /\ ~Ahead(call[Writer].todo, "evict")
                => (cache.on => cache.old)
          /\ \A g \in Caller : Bare(g)

RemoteInv == CallsMade /\ StoreInv /\ AbsentInv /\ BytesInv

-----------------------------------------------------------------------------
\* What is left of a program after an instruction is a program still.
LEMMA Tails ==
    ASSUME NEW b, NEW op, NEW t, Made(b, t, op), t # <<>>
    PROVE  /\ Made(b, Tail(t), op) /\ Len(t) \in Nat \ {0} /\ Len(Tail(t)) = Len(t) - 1 /\ Head(t) = t[1]
           /\ \A i \in 1 .. Len(t) - 1 : Tail(t)[i] = t[i + 1]
           /\ Tail(t) \in Seq(Instr)
  <1>1. /\ t \in Seq(Instr) /\ Tail(t) \in Seq(Instr) /\ Len(t) \in Nat \ {0} /\ Len(Tail(t)) = Len(t) - 1 /\ Head(t) = t[1]
        /\ \A i \in 1 .. Len(t) - 1 : Tail(t)[i] = t[i + 1]
    BY DEF Made
  <1> DEFINE u == Tail(t)
  <1>2. ASSUME NEW i \in 1 .. Len(u) PROVE Shaped(b, u, op, i)
    <2>1. i + 1 \in 1 .. Len(t) /\ u[i] = t[i + 1] /\ (i > 1 => u[i - 1] = t[i]) /\ (i < Len(u) => u[i + 1] = t[i + 2])
      BY <1>1
    <2>2. Shaped(b, t, op, i + 1)
      BY <2>1 DEF Made
    <2>3. \A j \in i + 1 .. Len(u) : u[j] = t[j + 1] /\ j + 1 \in (i + 1) + 1 .. Len(t)
      BY <1>1
    <2>4. \A j \in 1 .. i - 1 : u[j] = t[j + 1] /\ j + 1 \in 1 .. (i + 1) - 1
      BY <1>1
    <2>5. Len(u) = Len(t) - 1 /\ Len(t) \in Nat /\ i \in Nat \ {0} /\ i + 1 > 1 /\ (i + 1) - 1 = i /\ (i + 1) + 1 = i + 2
      BY <1>1
    <2> HIDE DEF u
    <2>6. u[i] \notin {"select", "await"}
      BY <2>1, <2>2, <2>5 DEF Shaped
    <2>7. u[i] = "write" => i < Len(u) /\ (i > 1 => u[i - 1] = "look") /\ (b \in Unique => u[i + 1] = "evict")
      BY <2>1, <2>2, <2>5 DEF Shaped
    <2>8. u[i] \in Replacing => \A j \in i + 1 .. Len(u) : u[j] \notin Writing
      BY <2>1, <2>2, <2>3 DEF Shaped
    <2>9. u[i] = "evict" => op \in {"set", "delete"} /\ (op = "delete" => \A j \in 1 .. i - 1 : u[j] = "select")
      BY <2>1, <2>2, <2>4 DEF Shaped
    <2>10. u[i] = "addversion" /\ Len(u) >= i + 3 => u[i + 1] = "createempty"
      BY <2>1, <2>2, <2>5 DEF Shaped
    <2>11. u[i] = "use" => i = Len(u)
      BY <2>1, <2>2, <2>5 DEF Shaped
    <2>15. u[i] = "copy" => b \in Unique /\ (i > 1 => u[i - 1] \in {"fetch", "await"})
      BY <2>1, <2>2, <2>5 DEF Shaped
    <2>12. (i + 1 < Len(t)) <=> (i < Len(u))
      BY <2>5
    <2>14. u[i] \in Writing \cup {"createempty"} => op = "set" /\ (b \in Unique => u[i] = "write")
      BY <2>1, <2>2 DEF Shaped
    <2>13. /\ u[i] = "createempty" => i < Len(u) /\ u[i + 1] = "addversion"
           /\ u[i] = "remove" => op = "delete" /\ i < Len(u) /\ u[i + 1] = "emit"
           /\ u[i] = "hit" => op = "get" /\ i < Len(u) /\ u[i + 1] = "fetch"
           /\ u[i] \in {"fetch", "await"} => op = "get" /\ i < Len(u) /\ (b \in Unique => u[i + 1] = "copy")
           /\ u[i] \in {"fetch", "await", "hit"} => b \notin Sole \ Unique
           /\ u[i] = "emit" => i < Len(u) /\ u[i + 1] = "use"
      BY <2>1, <2>2, <2>5, <2>12 DEF Shaped
    <2> QED BY <2>6, <2>7, <2>8, <2>9, <2>10, <2>11, <2>13, <2>14, <2>15 DEF Shaped
  <1> QED BY <1>1, <1>2 DEF Made

\* What a failed call still has to do: record the event and return.
LEMMA Overs ==
    ASSUME NEW b, NEW op
    PROVE  /\ Tail(<<"fail", "emit", "use">>) = <<"emit", "use">> /\ Made(b, <<"emit", "use">>, op)
           /\ <<"emit", "use">> \in Seq(Instr) /\ ~Pending(<<"emit", "use">>) /\ Made(b, <<>>, op) /\ ~Pending(<<>>)
           /\ Head(<<"emit", "use">>) = "emit" /\ <<"emit", "use">> # <<>>
  <1>1. Made(b, <<"emit", "use">>, op)
    <2>1. <<"emit", "use">> \in Seq(Instr) /\ Len(<<"emit", "use">>) = 2
      BY DEF Instr
    <2>2. \A i \in 1 .. 2 : Shaped(b, <<"emit", "use">>, op, i)
      BY DEF Shaped, Writing, Replacing
    <2> QED BY <2>1, <2>2 DEF Made
  <1>2. ~Pending(<<"emit", "use">>)
    BY DEF Pending, Writing, Replacing
  <1> QED BY <1>1, <1>2 DEF Made, Pending, Instr

\* The instructions of two programs, one after the other.
LEMMA Joins ==
    ASSUME NEW S, NEW x \in Seq(S), NEW y \in Seq(S)
    PROVE  /\ x \o y \in Seq(S) /\ Len(x \o y) = Len(x) + Len(y) /\ Len(x) \in Nat /\ Len(y) \in Nat
           /\ \A i \in 1 .. Len(x) : (x \o y)[i] = x[i]
           /\ \A i \in 1 .. Len(y) : (x \o y)[Len(x) + i] = y[i]
  OBVIOUS

\* A waiting caller still has to do what follows the fetch.
LEMMA Awaits ==
    ASSUME NEW b, NEW op, NEW t, Made(b, t, op), t # <<>>, t[1] = "fetch"
    PROVE  /\ Made(b, <<"await">> \o Tail(t), op) /\ Head(<<"await">> \o Tail(t)) = "await"
           /\ <<"await">> \o Tail(t) # <<>> /\ <<"await">> \o Tail(t) \in Seq(Instr)
  <1> DEFINE w == <<"await">>
             u == Tail(t)
             v == w \o u
  <1>1. /\ u \in Seq(Instr) /\ Len(t) \in Nat \ {0} /\ Len(u) = Len(t) - 1
        /\ \A i \in 1 .. Len(t) - 1 : u[i] = t[i + 1]
    BY Tails
  <1>2. w \in Seq(Instr) /\ Len(w) = 1 /\ w[1] = "await"
    BY DEF Instr
  <1> HIDE DEF w, u
  <1>3. v \in Seq(Instr) /\ Len(v) = Len(t) /\ v[1] = "await" /\ \A i \in 2 .. Len(t) : v[i] = t[i]
    <2>1. /\ v \in Seq(Instr) /\ Len(v) = 1 + Len(u) /\ v[1] = w[1]
          /\ \A i \in 1 .. Len(u) : v[1 + i] = u[i]
      BY <1>1, <1>2, Joins
    <2> HIDE DEF v
    <2>2. ASSUME NEW i \in 2 .. Len(t) PROVE v[i] = t[i]
      <3>1. i - 1 \in 1 .. Len(u) /\ u[i - 1] = t[(i - 1) + 1] /\ v[1 + (i - 1)] = u[i - 1] /\ i \in Nat
        BY <1>1, <2>1
      <3> QED BY <3>1
    <2> QED BY <1>1, <1>2, <2>1, <2>2
  <1> HIDE DEF v
  <1>4. ASSUME NEW i \in 1 .. Len(v) PROVE Shaped(b, v, op, i)
    <2>1. Shaped(b, t, op, i) /\ Shaped(b, t, op, 1) /\ Len(t) \in Nat
      BY <1>1, <1>3 DEF Made
    <2>2. CASE i = 1
      BY <1>1, <1>3, <2>1, <2>2 DEF Shaped, Writing, Replacing
    <2>3. CASE i # 1
      <3>1. i \in 2 .. Len(t) /\ v[i] = t[i] /\ (i < Len(t) => v[i + 1] = t[i + 1]) /\ (\A j \in i + 1 .. Len(t) : v[j] = t[j])
        BY <1>1, <1>3, <2>3
      <3>2. t[i] # "write" \/ v[i - 1] = t[i - 1] \/ t[i - 1] # "look"
        BY <1>3, <3>1
      <3>3. i - 1 \in 2 .. Len(t) \/ i - 1 = 1
        BY <3>1
      <3>4. v[i - 1] = t[i - 1] \/ t[i - 1] = "fetch"
        BY <1>3, <3>3
      <3>5. i > 1 /\ 1 \in 1 .. i - 1
        BY <3>1
      <3>6. t[i] # "evict" \/ op # "delete"
        BY <2>1, <3>5 DEF Shaped
      <3> QED BY <1>3, <2>1, <2>3, <3>1, <3>4, <3>6 DEF Shaped
    <2> QED BY <2>2, <2>3
  <1>5. Made(b, v, op)
    BY <1>3, <1>4 DEF Made
  <1> QED BY <1>1, <1>3, <1>5 DEF v, w, u

\* A program between its beginning and its end.
Wrap(p) == <<"select">> \o p \o <<"emit", "use">>

\* Where the backend's instructions are between the beginning and the end of a vault call.
LEMMA Wraps ==
    ASSUME NEW p \in Seq(Instr)
    PROVE  /\ Wrap(p) \in Seq(Instr) /\ Len(Wrap(p)) = Len(p) + 3 /\ Len(p) \in Nat
           /\ Wrap(p)[1] = "select" /\ \A i \in 2 .. Len(p) + 1 : Wrap(p)[i] = p[i - 1]
           /\ Wrap(p)[Len(p) + 2] = "emit" /\ Wrap(p)[Len(p) + 3] = "use"
  <1> DEFINE s == <<"select">>
             e == <<"emit", "use">>
             v == s \o p
  <1>1. s \in Seq(Instr) /\ Len(s) = 1 /\ s[1] = "select" /\ e \in Seq(Instr) /\ Len(e) = 2 /\ e[1] = "emit" /\ e[2] = "use"
    BY DEF Instr
  <1>2. Wrap(p) = v \o e
    BY DEF Wrap
  <1> HIDE DEF s, e
  <1>3. /\ v \in Seq(Instr) /\ Len(v) = 1 + Len(p) /\ Len(p) \in Nat /\ v[1] = "select"
        /\ \A i \in 1 .. Len(p) : v[1 + i] = p[i]
    BY <1>1, Joins
  <1> HIDE DEF v
  <1>5. ASSUME NEW i \in 2 .. Len(p) + 1 PROVE v[i] = p[i - 1]
    <2>1. i - 1 \in 1 .. Len(p) /\ 1 + (i - 1) = i
      BY <1>3
    <2> QED BY <1>3, <2>1
  <1>4. /\ v \o e \in Seq(Instr) /\ Len(v \o e) = Len(v) + 2
        /\ \A i \in 1 .. Len(v) : (v \o e)[i] = v[i]
        /\ (v \o e)[Len(v) + 1] = "emit" /\ (v \o e)[Len(v) + 2] = "use"
    <2>1. /\ v \o e \in Seq(Instr) /\ Len(v \o e) = Len(v) + Len(e)
          /\ \A i \in 1 .. Len(v) : (v \o e)[i] = v[i]
          /\ \A i \in 1 .. Len(e) : (v \o e)[Len(v) + i] = e[i]
      <3>1. v \in Seq(Instr) /\ e \in Seq(Instr)
        BY <1>1, <1>3
      <3> QED BY <3>1, Joins
    <2>2. 1 \in 1 .. Len(e) /\ 2 \in 1 .. Len(e)
      BY <1>1
    <2> QED BY <1>1, <2>1, <2>2
  <1>6. ASSUME NEW i \in 2 .. Len(p) + 1 PROVE Wrap(p)[i] = p[i - 1]
    <2>1. i \in 1 .. Len(v)
      BY <1>3
    <2> QED BY <1>2, <1>4, <1>5, <2>1
  <1>7. Len(v) + 1 = Len(p) + 2 /\ Len(v) + 2 = Len(p) + 3 /\ 1 \in 1 .. Len(v)
    BY <1>3
  <1>8. Wrap(p) \in Seq(Instr) /\ Len(Wrap(p)) = Len(p) + 3 /\ Wrap(p)[1] = "select"
    BY <1>2, <1>3, <1>4, <1>7
  <1>9. Wrap(p)[Len(p) + 2] = "emit" /\ Wrap(p)[Len(p) + 3] = "use"
    BY <1>2, <1>4, <1>7
  <1> QED BY <1>3, <1>6, <1>8, <1>9

\* Every program of a backend is one a call can be given, and a Set stores something.
LEMMA Programs ==
    ASSUME NEW b
    PROVE  /\ b \in {"bw", "op"} => Made(b, Wrap(<<"hit", "fetch", "copy">>), "get")
           /\ b \in {"proton", "keeper"} => Made(b, Wrap(<<"hit", "fetch">>), "get")
           /\ b = "lastpass" => Made(b, Wrap(<<"fetch">>), "get")
           /\ Made(b, Wrap(<<"login", "read">>), "get")
           /\ Made(b, Wrap(<<"read">>), "get")
           /\ Made(b, Wrap(<<"look", "read">>), "get")
           /\ Made(b, Wrap(<<"evict", "look", "write", "evict">>), "set") /\ Pending(Wrap(<<"evict", "look", "write", "evict">>))
           /\ Made(b, Wrap(<<"evict", "look", "write", "evict", "verify">>), "set") /\ Pending(Wrap(<<"evict", "look", "write", "evict", "verify">>))
           /\ b \notin Unique => (Made(b, Wrap(<<"create">>), "set") /\ Pending(Wrap(<<"create">>)))
           /\ b \notin Unique => (Made(b, Wrap(<<"login", "create">>), "set") /\ Pending(Wrap(<<"login", "create">>)))
           /\ b \notin Unique => (Made(b, Wrap(<<"upsert">>), "set") /\ Pending(Wrap(<<"upsert">>)))
           /\ b \notin Unique => (Made(b, Wrap(<<"look", "write">>), "set") /\ Pending(Wrap(<<"look", "write">>)))
           /\ b \notin Unique => (Made(b, Wrap(<<"addversion", "createempty", "addversion">>), "set") /\ Pending(Wrap(<<"addversion", "createempty", "addversion">>)))
           /\ Made(b, Wrap(<<"evict", "look", "remove">>), "delete")
           /\ Made(b, Wrap(<<"evict", "remove">>), "delete")
           /\ Made(b, Wrap(<<"remove">>), "delete")
           /\ Made(b, Wrap(<<"login", "remove">>), "delete")
           /\ Made(b, Wrap(<<"look", "remove">>), "delete")
           /\ Made(b, Wrap(<<"list">>), "list")
           /\ Made(b, Wrap(<<"login", "list">>), "list")
  <1>1. b \in {"bw", "op"} => Made(b, Wrap(<<"hit", "fetch", "copy">>), "get")
    <2> DEFINE p == <<"hit", "fetch", "copy">>
               w == Wrap(p)
    <2>1. p \in Seq(Instr) /\ Len(p) = 3 /\ p[1] = "hit" /\ p[2] = "fetch" /\ p[3] = "copy"
      BY DEF Instr
    <2> HIDE DEF p
    <2>0. /\ w \in Seq(Instr) /\ Len(w) = Len(p) + 3 /\ w[1] = "select"
          /\ \A i \in 2 .. Len(p) + 1 : w[i] = p[i - 1]
          /\ w[Len(p) + 2] = "emit" /\ w[Len(p) + 3] = "use"
      BY <2>1, Wraps
    <2> HIDE DEF w
    <2>2. /\ w \in Seq(Instr) /\ Len(w) = 6 /\ w[1] = "select" /\ w[5] = "emit" /\ w[6] = "use"
          /\ w[2] = "hit" /\ w[3] = "fetch" /\ w[4] = "copy"
      BY <2>1, <2>0
    <2>3. ASSUME b \in {"bw", "op"} PROVE \A i \in 1 .. 6 : Shaped(b, w, "get", i)
      BY <2>2, <2>3 DEF Shaped, Writing, Replacing, Sole, Unique, Named
    <2> QED BY <2>2, <2>3 DEF Made, w, p
  <1>2. b \in {"proton", "keeper"} => Made(b, Wrap(<<"hit", "fetch">>), "get")
    <2> DEFINE p == <<"hit", "fetch">>
               w == Wrap(p)
    <2>1. p \in Seq(Instr) /\ Len(p) = 2 /\ p[1] = "hit" /\ p[2] = "fetch"
      BY DEF Instr
    <2> HIDE DEF p
    <2>0. /\ w \in Seq(Instr) /\ Len(w) = Len(p) + 3 /\ w[1] = "select"
          /\ \A i \in 2 .. Len(p) + 1 : w[i] = p[i - 1]
          /\ w[Len(p) + 2] = "emit" /\ w[Len(p) + 3] = "use"
      BY <2>1, Wraps
    <2> HIDE DEF w
    <2>2. /\ w \in Seq(Instr) /\ Len(w) = 5 /\ w[1] = "select" /\ w[4] = "emit" /\ w[5] = "use"
          /\ w[2] = "hit" /\ w[3] = "fetch"
      BY <2>1, <2>0
    <2>3. ASSUME b \in {"proton", "keeper"} PROVE \A i \in 1 .. 5 : Shaped(b, w, "get", i)
      BY <2>2, <2>3 DEF Shaped, Writing, Replacing, Sole, Unique, Named
    <2> QED BY <2>2, <2>3 DEF Made, w, p
  <1>3. b = "lastpass" => Made(b, Wrap(<<"fetch">>), "get")
    <2> DEFINE p == <<"fetch">>
               w == Wrap(p)
    <2>1. p \in Seq(Instr) /\ Len(p) = 1 /\ p[1] = "fetch"
      BY DEF Instr
    <2> HIDE DEF p
    <2>0. /\ w \in Seq(Instr) /\ Len(w) = Len(p) + 3 /\ w[1] = "select"
          /\ \A i \in 2 .. Len(p) + 1 : w[i] = p[i - 1]
          /\ w[Len(p) + 2] = "emit" /\ w[Len(p) + 3] = "use"
      BY <2>1, Wraps
    <2> HIDE DEF w
    <2>2. /\ w \in Seq(Instr) /\ Len(w) = 4 /\ w[1] = "select" /\ w[3] = "emit" /\ w[4] = "use"
          /\ w[2] = "fetch"
      BY <2>1, <2>0
    <2>3. ASSUME b = "lastpass" PROVE \A i \in 1 .. 4 : Shaped(b, w, "get", i)
      BY <2>2, <2>3 DEF Shaped, Writing, Replacing, Sole, Unique, Named
    <2> QED BY <2>2, <2>3 DEF Made, w, p
  <1>4. Made(b, Wrap(<<"login", "read">>), "get")
    <2> DEFINE p == <<"login", "read">>
               w == Wrap(p)
    <2>1. p \in Seq(Instr) /\ Len(p) = 2 /\ p[1] = "login" /\ p[2] = "read"
      BY DEF Instr
    <2> HIDE DEF p
    <2>0. /\ w \in Seq(Instr) /\ Len(w) = Len(p) + 3 /\ w[1] = "select"
          /\ \A i \in 2 .. Len(p) + 1 : w[i] = p[i - 1]
          /\ w[Len(p) + 2] = "emit" /\ w[Len(p) + 3] = "use"
      BY <2>1, Wraps
    <2> HIDE DEF w
    <2>2. /\ w \in Seq(Instr) /\ Len(w) = 5 /\ w[1] = "select" /\ w[4] = "emit" /\ w[5] = "use"
          /\ w[2] = "login" /\ w[3] = "read"
      BY <2>1, <2>0
    <2>3. \A i \in 1 .. 5 : Shaped(b, w, "get", i)
      BY <2>2 DEF Shaped, Writing, Replacing, Sole, Unique, Named
    <2> QED BY <2>2, <2>3 DEF Made, w, p
  <1>5. Made(b, Wrap(<<"read">>), "get")
    <2> DEFINE p == <<"read">>
               w == Wrap(p)
    <2>1. p \in Seq(Instr) /\ Len(p) = 1 /\ p[1] = "read"
      BY DEF Instr
    <2> HIDE DEF p
    <2>0. /\ w \in Seq(Instr) /\ Len(w) = Len(p) + 3 /\ w[1] = "select"
          /\ \A i \in 2 .. Len(p) + 1 : w[i] = p[i - 1]
          /\ w[Len(p) + 2] = "emit" /\ w[Len(p) + 3] = "use"
      BY <2>1, Wraps
    <2> HIDE DEF w
    <2>2. /\ w \in Seq(Instr) /\ Len(w) = 4 /\ w[1] = "select" /\ w[3] = "emit" /\ w[4] = "use"
          /\ w[2] = "read"
      BY <2>1, <2>0
    <2>3. \A i \in 1 .. 4 : Shaped(b, w, "get", i)
      BY <2>2 DEF Shaped, Writing, Replacing, Sole, Unique, Named
    <2> QED BY <2>2, <2>3 DEF Made, w, p
  <1>6. Made(b, Wrap(<<"look", "read">>), "get")
    <2> DEFINE p == <<"look", "read">>
               w == Wrap(p)
    <2>1. p \in Seq(Instr) /\ Len(p) = 2 /\ p[1] = "look" /\ p[2] = "read"
      BY DEF Instr
    <2> HIDE DEF p
    <2>0. /\ w \in Seq(Instr) /\ Len(w) = Len(p) + 3 /\ w[1] = "select"
          /\ \A i \in 2 .. Len(p) + 1 : w[i] = p[i - 1]
          /\ w[Len(p) + 2] = "emit" /\ w[Len(p) + 3] = "use"
      BY <2>1, Wraps
    <2> HIDE DEF w
    <2>2. /\ w \in Seq(Instr) /\ Len(w) = 5 /\ w[1] = "select" /\ w[4] = "emit" /\ w[5] = "use"
          /\ w[2] = "look" /\ w[3] = "read"
      BY <2>1, <2>0
    <2>3. \A i \in 1 .. 5 : Shaped(b, w, "get", i)
      BY <2>2 DEF Shaped, Writing, Replacing, Sole, Unique, Named
    <2> QED BY <2>2, <2>3 DEF Made, w, p
  <1>7. Made(b, Wrap(<<"evict", "look", "write", "evict">>), "set") /\ Pending(Wrap(<<"evict", "look", "write", "evict">>))
    <2> DEFINE p == <<"evict", "look", "write", "evict">>
               w == Wrap(p)
    <2>1. p \in Seq(Instr) /\ Len(p) = 4 /\ p[1] = "evict" /\ p[2] = "look" /\ p[3] = "write" /\ p[4] = "evict"
      BY DEF Instr
    <2> HIDE DEF p
    <2>0. /\ w \in Seq(Instr) /\ Len(w) = Len(p) + 3 /\ w[1] = "select"
          /\ \A i \in 2 .. Len(p) + 1 : w[i] = p[i - 1]
          /\ w[Len(p) + 2] = "emit" /\ w[Len(p) + 3] = "use"
      BY <2>1, Wraps
    <2> HIDE DEF w
    <2>2. /\ w \in Seq(Instr) /\ Len(w) = 7 /\ w[1] = "select" /\ w[6] = "emit" /\ w[7] = "use"
          /\ w[2] = "evict" /\ w[3] = "look" /\ w[4] = "write" /\ w[5] = "evict"
      BY <2>1, <2>0
    <2>3. \A i \in 1 .. 7 : Shaped(b, w, "set", i)
      BY <2>2 DEF Shaped, Writing, Replacing, Sole, Unique, Named
    <2>4. Pending(w)
      BY <2>2 DEF Pending, Writing, Replacing
    <2> QED BY <2>2, <2>3, <2>4 DEF Made, w, p
  <1>8. Made(b, Wrap(<<"evict", "look", "write", "evict", "verify">>), "set") /\ Pending(Wrap(<<"evict", "look", "write", "evict", "verify">>))
    <2> DEFINE p == <<"evict", "look", "write", "evict", "verify">>
               w == Wrap(p)
    <2>1. p \in Seq(Instr) /\ Len(p) = 5 /\ p[1] = "evict" /\ p[2] = "look" /\ p[3] = "write" /\ p[4] = "evict" /\ p[5] = "verify"
      BY DEF Instr
    <2> HIDE DEF p
    <2>0. /\ w \in Seq(Instr) /\ Len(w) = Len(p) + 3 /\ w[1] = "select"
          /\ \A i \in 2 .. Len(p) + 1 : w[i] = p[i - 1]
          /\ w[Len(p) + 2] = "emit" /\ w[Len(p) + 3] = "use"
      BY <2>1, Wraps
    <2> HIDE DEF w
    <2>2. /\ w \in Seq(Instr) /\ Len(w) = 8 /\ w[1] = "select" /\ w[7] = "emit" /\ w[8] = "use"
          /\ w[2] = "evict" /\ w[3] = "look" /\ w[4] = "write" /\ w[5] = "evict" /\ w[6] = "verify"
      BY <2>1, <2>0
    <2>3. \A i \in 1 .. 8 : Shaped(b, w, "set", i)
      BY <2>2 DEF Shaped, Writing, Replacing, Sole, Unique, Named
    <2>4. Pending(w)
      BY <2>2 DEF Pending, Writing, Replacing
    <2> QED BY <2>2, <2>3, <2>4 DEF Made, w, p
  <1>9. b \notin Unique => (Made(b, Wrap(<<"create">>), "set") /\ Pending(Wrap(<<"create">>)))
    <2> DEFINE p == <<"create">>
               w == Wrap(p)
    <2>1. p \in Seq(Instr) /\ Len(p) = 1 /\ p[1] = "create"
      BY DEF Instr
    <2> HIDE DEF p
    <2>0. /\ w \in Seq(Instr) /\ Len(w) = Len(p) + 3 /\ w[1] = "select"
          /\ \A i \in 2 .. Len(p) + 1 : w[i] = p[i - 1]
          /\ w[Len(p) + 2] = "emit" /\ w[Len(p) + 3] = "use"
      BY <2>1, Wraps
    <2> HIDE DEF w
    <2>2. /\ w \in Seq(Instr) /\ Len(w) = 4 /\ w[1] = "select" /\ w[3] = "emit" /\ w[4] = "use"
          /\ w[2] = "create"
      BY <2>1, <2>0
    <2>3. ASSUME b \notin Unique PROVE \A i \in 1 .. 4 : Shaped(b, w, "set", i)
      BY <2>2, <2>3 DEF Shaped, Writing, Replacing, Sole, Unique, Named
    <2>4. Pending(w)
      BY <2>2 DEF Pending, Writing, Replacing
    <2> QED BY <2>2, <2>3, <2>4 DEF Made, w, p
  <1>10. b \notin Unique => (Made(b, Wrap(<<"login", "create">>), "set") /\ Pending(Wrap(<<"login", "create">>)))
    <2> DEFINE p == <<"login", "create">>
               w == Wrap(p)
    <2>1. p \in Seq(Instr) /\ Len(p) = 2 /\ p[1] = "login" /\ p[2] = "create"
      BY DEF Instr
    <2> HIDE DEF p
    <2>0. /\ w \in Seq(Instr) /\ Len(w) = Len(p) + 3 /\ w[1] = "select"
          /\ \A i \in 2 .. Len(p) + 1 : w[i] = p[i - 1]
          /\ w[Len(p) + 2] = "emit" /\ w[Len(p) + 3] = "use"
      BY <2>1, Wraps
    <2> HIDE DEF w
    <2>2. /\ w \in Seq(Instr) /\ Len(w) = 5 /\ w[1] = "select" /\ w[4] = "emit" /\ w[5] = "use"
          /\ w[2] = "login" /\ w[3] = "create"
      BY <2>1, <2>0
    <2>3. ASSUME b \notin Unique PROVE \A i \in 1 .. 5 : Shaped(b, w, "set", i)
      BY <2>2, <2>3 DEF Shaped, Writing, Replacing, Sole, Unique, Named
    <2>4. Pending(w)
      BY <2>2 DEF Pending, Writing, Replacing
    <2> QED BY <2>2, <2>3, <2>4 DEF Made, w, p
  <1>11. b \notin Unique => (Made(b, Wrap(<<"upsert">>), "set") /\ Pending(Wrap(<<"upsert">>)))
    <2> DEFINE p == <<"upsert">>
               w == Wrap(p)
    <2>1. p \in Seq(Instr) /\ Len(p) = 1 /\ p[1] = "upsert"
      BY DEF Instr
    <2> HIDE DEF p
    <2>0. /\ w \in Seq(Instr) /\ Len(w) = Len(p) + 3 /\ w[1] = "select"
          /\ \A i \in 2 .. Len(p) + 1 : w[i] = p[i - 1]
          /\ w[Len(p) + 2] = "emit" /\ w[Len(p) + 3] = "use"
      BY <2>1, Wraps
    <2> HIDE DEF w
    <2>2. /\ w \in Seq(Instr) /\ Len(w) = 4 /\ w[1] = "select" /\ w[3] = "emit" /\ w[4] = "use"
          /\ w[2] = "upsert"
      BY <2>1, <2>0
    <2>3. ASSUME b \notin Unique PROVE \A i \in 1 .. 4 : Shaped(b, w, "set", i)
      BY <2>2, <2>3 DEF Shaped, Writing, Replacing, Sole, Unique, Named
    <2>4. Pending(w)
      BY <2>2 DEF Pending, Writing, Replacing
    <2> QED BY <2>2, <2>3, <2>4 DEF Made, w, p
  <1>12. b \notin Unique => (Made(b, Wrap(<<"look", "write">>), "set") /\ Pending(Wrap(<<"look", "write">>)))
    <2> DEFINE p == <<"look", "write">>
               w == Wrap(p)
    <2>1. p \in Seq(Instr) /\ Len(p) = 2 /\ p[1] = "look" /\ p[2] = "write"
      BY DEF Instr
    <2> HIDE DEF p
    <2>0. /\ w \in Seq(Instr) /\ Len(w) = Len(p) + 3 /\ w[1] = "select"
          /\ \A i \in 2 .. Len(p) + 1 : w[i] = p[i - 1]
          /\ w[Len(p) + 2] = "emit" /\ w[Len(p) + 3] = "use"
      BY <2>1, Wraps
    <2> HIDE DEF w
    <2>2. /\ w \in Seq(Instr) /\ Len(w) = 5 /\ w[1] = "select" /\ w[4] = "emit" /\ w[5] = "use"
          /\ w[2] = "look" /\ w[3] = "write"
      BY <2>1, <2>0
    <2>3. ASSUME b \notin Unique PROVE \A i \in 1 .. 5 : Shaped(b, w, "set", i)
      BY <2>2, <2>3 DEF Shaped, Writing, Replacing, Sole, Unique, Named
    <2>4. Pending(w)
      BY <2>2 DEF Pending, Writing, Replacing
    <2> QED BY <2>2, <2>3, <2>4 DEF Made, w, p
  <1>13. b \notin Unique => (Made(b, Wrap(<<"addversion", "createempty", "addversion">>), "set") /\ Pending(Wrap(<<"addversion", "createempty", "addversion">>)))
    <2> DEFINE p == <<"addversion", "createempty", "addversion">>
               w == Wrap(p)
    <2>1. p \in Seq(Instr) /\ Len(p) = 3 /\ p[1] = "addversion" /\ p[2] = "createempty" /\ p[3] = "addversion"
      BY DEF Instr
    <2> HIDE DEF p
    <2>0. /\ w \in Seq(Instr) /\ Len(w) = Len(p) + 3 /\ w[1] = "select"
          /\ \A i \in 2 .. Len(p) + 1 : w[i] = p[i - 1]
          /\ w[Len(p) + 2] = "emit" /\ w[Len(p) + 3] = "use"
      BY <2>1, Wraps
    <2> HIDE DEF w
    <2>2. /\ w \in Seq(Instr) /\ Len(w) = 6 /\ w[1] = "select" /\ w[5] = "emit" /\ w[6] = "use"
          /\ w[2] = "addversion" /\ w[3] = "createempty" /\ w[4] = "addversion"
      BY <2>1, <2>0
    <2>3. ASSUME b \notin Unique PROVE \A i \in 1 .. 6 : Shaped(b, w, "set", i)
      BY <2>2, <2>3 DEF Shaped, Writing, Replacing, Sole, Unique, Named
    <2>4. Pending(w)
      BY <2>2 DEF Pending, Writing, Replacing
    <2> QED BY <2>2, <2>3, <2>4 DEF Made, w, p
  <1>14. Made(b, Wrap(<<"evict", "look", "remove">>), "delete")
    <2> DEFINE p == <<"evict", "look", "remove">>
               w == Wrap(p)
    <2>1. p \in Seq(Instr) /\ Len(p) = 3 /\ p[1] = "evict" /\ p[2] = "look" /\ p[3] = "remove"
      BY DEF Instr
    <2> HIDE DEF p
    <2>0. /\ w \in Seq(Instr) /\ Len(w) = Len(p) + 3 /\ w[1] = "select"
          /\ \A i \in 2 .. Len(p) + 1 : w[i] = p[i - 1]
          /\ w[Len(p) + 2] = "emit" /\ w[Len(p) + 3] = "use"
      BY <2>1, Wraps
    <2> HIDE DEF w
    <2>2. /\ w \in Seq(Instr) /\ Len(w) = 6 /\ w[1] = "select" /\ w[5] = "emit" /\ w[6] = "use"
          /\ w[2] = "evict" /\ w[3] = "look" /\ w[4] = "remove"
      BY <2>1, <2>0
    <2>3. \A i \in 1 .. 6 : Shaped(b, w, "delete", i)
      BY <2>2 DEF Shaped, Writing, Replacing, Sole, Unique, Named
    <2> QED BY <2>2, <2>3 DEF Made, w, p
  <1>15. Made(b, Wrap(<<"evict", "remove">>), "delete")
    <2> DEFINE p == <<"evict", "remove">>
               w == Wrap(p)
    <2>1. p \in Seq(Instr) /\ Len(p) = 2 /\ p[1] = "evict" /\ p[2] = "remove"
      BY DEF Instr
    <2> HIDE DEF p
    <2>0. /\ w \in Seq(Instr) /\ Len(w) = Len(p) + 3 /\ w[1] = "select"
          /\ \A i \in 2 .. Len(p) + 1 : w[i] = p[i - 1]
          /\ w[Len(p) + 2] = "emit" /\ w[Len(p) + 3] = "use"
      BY <2>1, Wraps
    <2> HIDE DEF w
    <2>2. /\ w \in Seq(Instr) /\ Len(w) = 5 /\ w[1] = "select" /\ w[4] = "emit" /\ w[5] = "use"
          /\ w[2] = "evict" /\ w[3] = "remove"
      BY <2>1, <2>0
    <2>3. \A i \in 1 .. 5 : Shaped(b, w, "delete", i)
      BY <2>2 DEF Shaped, Writing, Replacing, Sole, Unique, Named
    <2> QED BY <2>2, <2>3 DEF Made, w, p
  <1>16. Made(b, Wrap(<<"remove">>), "delete")
    <2> DEFINE p == <<"remove">>
               w == Wrap(p)
    <2>1. p \in Seq(Instr) /\ Len(p) = 1 /\ p[1] = "remove"
      BY DEF Instr
    <2> HIDE DEF p
    <2>0. /\ w \in Seq(Instr) /\ Len(w) = Len(p) + 3 /\ w[1] = "select"
          /\ \A i \in 2 .. Len(p) + 1 : w[i] = p[i - 1]
          /\ w[Len(p) + 2] = "emit" /\ w[Len(p) + 3] = "use"
      BY <2>1, Wraps
    <2> HIDE DEF w
    <2>2. /\ w \in Seq(Instr) /\ Len(w) = 4 /\ w[1] = "select" /\ w[3] = "emit" /\ w[4] = "use"
          /\ w[2] = "remove"
      BY <2>1, <2>0
    <2>3. \A i \in 1 .. 4 : Shaped(b, w, "delete", i)
      BY <2>2 DEF Shaped, Writing, Replacing, Sole, Unique, Named
    <2> QED BY <2>2, <2>3 DEF Made, w, p
  <1>17. Made(b, Wrap(<<"login", "remove">>), "delete")
    <2> DEFINE p == <<"login", "remove">>
               w == Wrap(p)
    <2>1. p \in Seq(Instr) /\ Len(p) = 2 /\ p[1] = "login" /\ p[2] = "remove"
      BY DEF Instr
    <2> HIDE DEF p
    <2>0. /\ w \in Seq(Instr) /\ Len(w) = Len(p) + 3 /\ w[1] = "select"
          /\ \A i \in 2 .. Len(p) + 1 : w[i] = p[i - 1]
          /\ w[Len(p) + 2] = "emit" /\ w[Len(p) + 3] = "use"
      BY <2>1, Wraps
    <2> HIDE DEF w
    <2>2. /\ w \in Seq(Instr) /\ Len(w) = 5 /\ w[1] = "select" /\ w[4] = "emit" /\ w[5] = "use"
          /\ w[2] = "login" /\ w[3] = "remove"
      BY <2>1, <2>0
    <2>3. \A i \in 1 .. 5 : Shaped(b, w, "delete", i)
      BY <2>2 DEF Shaped, Writing, Replacing, Sole, Unique, Named
    <2> QED BY <2>2, <2>3 DEF Made, w, p
  <1>18. Made(b, Wrap(<<"look", "remove">>), "delete")
    <2> DEFINE p == <<"look", "remove">>
               w == Wrap(p)
    <2>1. p \in Seq(Instr) /\ Len(p) = 2 /\ p[1] = "look" /\ p[2] = "remove"
      BY DEF Instr
    <2> HIDE DEF p
    <2>0. /\ w \in Seq(Instr) /\ Len(w) = Len(p) + 3 /\ w[1] = "select"
          /\ \A i \in 2 .. Len(p) + 1 : w[i] = p[i - 1]
          /\ w[Len(p) + 2] = "emit" /\ w[Len(p) + 3] = "use"
      BY <2>1, Wraps
    <2> HIDE DEF w
    <2>2. /\ w \in Seq(Instr) /\ Len(w) = 5 /\ w[1] = "select" /\ w[4] = "emit" /\ w[5] = "use"
          /\ w[2] = "look" /\ w[3] = "remove"
      BY <2>1, <2>0
    <2>3. \A i \in 1 .. 5 : Shaped(b, w, "delete", i)
      BY <2>2 DEF Shaped, Writing, Replacing, Sole, Unique, Named
    <2> QED BY <2>2, <2>3 DEF Made, w, p
  <1>19. Made(b, Wrap(<<"list">>), "list")
    <2> DEFINE p == <<"list">>
               w == Wrap(p)
    <2>1. p \in Seq(Instr) /\ Len(p) = 1 /\ p[1] = "list"
      BY DEF Instr
    <2> HIDE DEF p
    <2>0. /\ w \in Seq(Instr) /\ Len(w) = Len(p) + 3 /\ w[1] = "select"
          /\ \A i \in 2 .. Len(p) + 1 : w[i] = p[i - 1]
          /\ w[Len(p) + 2] = "emit" /\ w[Len(p) + 3] = "use"
      BY <2>1, Wraps
    <2> HIDE DEF w
    <2>2. /\ w \in Seq(Instr) /\ Len(w) = 4 /\ w[1] = "select" /\ w[3] = "emit" /\ w[4] = "use"
          /\ w[2] = "list"
      BY <2>1, <2>0
    <2>3. \A i \in 1 .. 4 : Shaped(b, w, "list", i)
      BY <2>2 DEF Shaped, Writing, Replacing, Sole, Unique, Named
    <2> QED BY <2>2, <2>3 DEF Made, w, p
  <1>20. Made(b, Wrap(<<"login", "list">>), "list")
    <2> DEFINE p == <<"login", "list">>
               w == Wrap(p)
    <2>1. p \in Seq(Instr) /\ Len(p) = 2 /\ p[1] = "login" /\ p[2] = "list"
      BY DEF Instr
    <2> HIDE DEF p
    <2>0. /\ w \in Seq(Instr) /\ Len(w) = Len(p) + 3 /\ w[1] = "select"
          /\ \A i \in 2 .. Len(p) + 1 : w[i] = p[i - 1]
          /\ w[Len(p) + 2] = "emit" /\ w[Len(p) + 3] = "use"
      BY <2>1, Wraps
    <2> HIDE DEF w
    <2>2. /\ w \in Seq(Instr) /\ Len(w) = 5 /\ w[1] = "select" /\ w[4] = "emit" /\ w[5] = "use"
          /\ w[2] = "login" /\ w[3] = "list"
      BY <2>1, <2>0
    <2>3. \A i \in 1 .. 5 : Shaped(b, w, "list", i)
      BY <2>2 DEF Shaped, Writing, Replacing, Sole, Unique, Named
    <2> QED BY <2>2, <2>3 DEF Made, w, p
  <1> QED BY <1>1, <1>2, <1>3, <1>4, <1>5, <1>6, <1>7, <1>8, <1>9, <1>10, <1>11, <1>12, <1>13, <1>14, <1>15, <1>16, <1>17, <1>18, <1>19, <1>20

\* What a call is given to do, for every backend: it begins with the choice of the
\* backend, a Set stores something, and a Delete of bw or op drops the cached item.
Begun(t) == t # <<>> /\ Head(t) = "select"
\* A wrapped program begins with the selection of the backend.
LEMMA Wrapped ==
    ASSUME NEW p \in Seq(Instr)
    PROVE  Begun(Wrap(p))
  <1>1. Wrap(p) \in Seq(Instr) /\ Len(Wrap(p)) = Len(p) + 3 /\ Len(p) \in Nat /\ Wrap(p)[1] = "select"
    BY Wraps
  <1> QED BY <1>1 DEF Begun

\* vault.Get, Set, Delete and List give a call such a program, whichever the backend.
LEMMA Given ==
    ASSUME NEW b \in DOMAIN Backends
    PROVE  /\ Made(b, VaultGet(b), "get") /\ Made(b, VaultList(b), "list")
           /\ Made(b, VaultDelete(b), "delete")
           /\ Made(b, VaultSet(b), "set") /\ Pending(VaultSet(b))
           /\ Begun(VaultGet(b)) /\ Begun(VaultSet(b)) /\ Begun(VaultDelete(b)) /\ Begun(VaultList(b))
           /\ b \in Unique => Ahead(VaultDelete(b), "evict")
  <1>1. b \in {"bw", "op", "proton", "keeper", "lastpass", "infisical", "vault", "azure", "doppler", "connect", "aws", "gcp"}
    BY DEF Backends
  <1>2. CASE b = "bw"
    <2>1. Backends[b].get = BwGet /\ Backends[b].set = BwSet /\ Backends[b].delete = BwDelete /\ Backends[b].list = BwList
      BY <1>2 DEF Backends
    <2>2. VaultGet(b) = Wrap(BwGet) /\ VaultSet(b) = Wrap(BwSet) /\ VaultDelete(b) = Wrap(BwDelete) /\ VaultList(b) = Wrap(BwList)
      BY <2>1 DEF VaultGet, VaultSet, VaultDelete, VaultList, Wrap
    <2>3. Made(b, Wrap(BwGet), "get") /\ Made(b, Wrap(BwList), "list")
      BY <1>2, Programs, Zenon DEF BwGet, BwList
    <2>4. Made(b, Wrap(BwDelete), "delete")
      BY <1>2, Programs, Zenon DEF BwDelete
    <2>5. Made(b, Wrap(BwSet), "set") /\ Pending(Wrap(BwSet))
      BY <1>2, Programs DEF BwSet, Unique
    <2>6. Begun(Wrap(BwGet)) /\ Begun(Wrap(BwSet)) /\ Begun(Wrap(BwDelete)) /\ Begun(Wrap(BwList))
      <3>1. BwGet \in Seq(Instr) /\ BwSet \in Seq(Instr) /\ BwDelete \in Seq(Instr) /\ BwList \in Seq(Instr)
        BY DEF BwGet, BwSet, BwDelete, BwList, Instr
      <3> QED BY <3>1, Wrapped
    <2>7. Ahead(Wrap(BwDelete), "evict")
      <3>1. BwDelete \in Seq(Instr) /\ Len(BwDelete) = 3 /\ BwDelete[1] = "evict"
        BY DEF BwDelete, Instr
      <3>2. /\ Len(Wrap(BwDelete)) = Len(BwDelete) + 3
            /\ \A i \in 2 .. Len(BwDelete) + 1 : Wrap(BwDelete)[i] = BwDelete[i - 1]
        BY <3>1, Wraps
      <3>3. Wrap(BwDelete)[2] = "evict" /\ 2 \in 1 .. Len(Wrap(BwDelete))
        BY <3>1, <3>2
      <3> QED BY <3>3 DEF Ahead
    <2> QED BY <2>2, <2>3, <2>4, <2>5, <2>6, <2>7
  <1>3. CASE b = "op"
    <2>1. Backends[b].get = OpGet /\ Backends[b].set = OpSet /\ Backends[b].delete = OpDelete /\ Backends[b].list = OpList
      BY <1>3 DEF Backends
    <2>2. VaultGet(b) = Wrap(OpGet) /\ VaultSet(b) = Wrap(OpSet) /\ VaultDelete(b) = Wrap(OpDelete) /\ VaultList(b) = Wrap(OpList)
      BY <2>1 DEF VaultGet, VaultSet, VaultDelete, VaultList, Wrap
    <2>3. Made(b, Wrap(OpGet), "get") /\ Made(b, Wrap(OpList), "list")
      BY <1>3, Programs, Zenon DEF OpGet, OpList
    <2>4. Made(b, Wrap(OpDelete), "delete")
      BY <1>3, Programs, Zenon DEF OpDelete
    <2>5. Made(b, Wrap(OpSet), "set") /\ Pending(Wrap(OpSet))
      BY <1>3, Programs DEF OpSet, Unique
    <2>6. Begun(Wrap(OpGet)) /\ Begun(Wrap(OpSet)) /\ Begun(Wrap(OpDelete)) /\ Begun(Wrap(OpList))
      <3>1. OpGet \in Seq(Instr) /\ OpSet \in Seq(Instr) /\ OpDelete \in Seq(Instr) /\ OpList \in Seq(Instr)
        BY DEF OpGet, OpSet, OpDelete, OpList, Instr
      <3> QED BY <3>1, Wrapped
    <2>7. Ahead(Wrap(OpDelete), "evict")
      <3>1. OpDelete \in Seq(Instr) /\ Len(OpDelete) = 2 /\ OpDelete[1] = "evict"
        BY DEF OpDelete, Instr
      <3>2. /\ Len(Wrap(OpDelete)) = Len(OpDelete) + 3
            /\ \A i \in 2 .. Len(OpDelete) + 1 : Wrap(OpDelete)[i] = OpDelete[i - 1]
        BY <3>1, Wraps
      <3>3. Wrap(OpDelete)[2] = "evict" /\ 2 \in 1 .. Len(Wrap(OpDelete))
        BY <3>1, <3>2
      <3> QED BY <3>3 DEF Ahead
    <2> QED BY <2>2, <2>3, <2>4, <2>5, <2>6, <2>7
  <1>4. CASE b = "proton"
    <2>1. Backends[b].get = ProtonGet /\ Backends[b].set = ProtonSet /\ Backends[b].delete = ProtonDelete /\ Backends[b].list = ProtonList
      BY <1>4 DEF Backends
    <2>2. VaultGet(b) = Wrap(ProtonGet) /\ VaultSet(b) = Wrap(ProtonSet) /\ VaultDelete(b) = Wrap(ProtonDelete) /\ VaultList(b) = Wrap(ProtonList)
      BY <2>1 DEF VaultGet, VaultSet, VaultDelete, VaultList, Wrap
    <2>3. Made(b, Wrap(ProtonGet), "get") /\ Made(b, Wrap(ProtonList), "list")
      BY <1>4, Programs, Zenon DEF ProtonGet, ProtonList
    <2>4. Made(b, Wrap(ProtonDelete), "delete")
      BY <1>4, Programs, Zenon DEF ProtonDelete
    <2>5. Made(b, Wrap(ProtonSet), "set") /\ Pending(Wrap(ProtonSet))
      BY <1>4, Programs DEF ProtonSet, Unique
    <2>6. Begun(Wrap(ProtonGet)) /\ Begun(Wrap(ProtonSet)) /\ Begun(Wrap(ProtonDelete)) /\ Begun(Wrap(ProtonList))
      <3>1. ProtonGet \in Seq(Instr) /\ ProtonSet \in Seq(Instr) /\ ProtonDelete \in Seq(Instr) /\ ProtonList \in Seq(Instr)
        BY DEF ProtonGet, ProtonSet, ProtonDelete, ProtonList, Instr
      <3> QED BY <3>1, Wrapped
    <2>7. b \notin Unique
      BY <1>4 DEF Unique
    <2> QED BY <2>2, <2>3, <2>4, <2>5, <2>6, <2>7
  <1>5. CASE b = "keeper"
    <2>1. Backends[b].get = KeeperGet /\ Backends[b].set = KeeperSet /\ Backends[b].delete = KeeperDelete /\ Backends[b].list = KeeperList
      BY <1>5 DEF Backends
    <2>2. VaultGet(b) = Wrap(KeeperGet) /\ VaultSet(b) = Wrap(KeeperSet) /\ VaultDelete(b) = Wrap(KeeperDelete) /\ VaultList(b) = Wrap(KeeperList)
      BY <2>1 DEF VaultGet, VaultSet, VaultDelete, VaultList, Wrap
    <2>3. Made(b, Wrap(KeeperGet), "get") /\ Made(b, Wrap(KeeperList), "list")
      BY <1>5, Programs, Zenon DEF KeeperGet, KeeperList
    <2>4. Made(b, Wrap(KeeperDelete), "delete")
      BY <1>5, Programs, Zenon DEF KeeperDelete
    <2>5. Made(b, Wrap(KeeperSet), "set") /\ Pending(Wrap(KeeperSet))
      BY <1>5, Programs DEF KeeperSet, Unique
    <2>6. Begun(Wrap(KeeperGet)) /\ Begun(Wrap(KeeperSet)) /\ Begun(Wrap(KeeperDelete)) /\ Begun(Wrap(KeeperList))
      <3>1. KeeperGet \in Seq(Instr) /\ KeeperSet \in Seq(Instr) /\ KeeperDelete \in Seq(Instr) /\ KeeperList \in Seq(Instr)
        BY DEF KeeperGet, KeeperSet, KeeperDelete, KeeperList, Instr
      <3> QED BY <3>1, Wrapped
    <2>7. b \notin Unique
      BY <1>5 DEF Unique
    <2> QED BY <2>2, <2>3, <2>4, <2>5, <2>6, <2>7
  <1>6. CASE b = "lastpass"
    <2>1. Backends[b].get = LastpassGet /\ Backends[b].set = LastpassSet /\ Backends[b].delete = LastpassDelete /\ Backends[b].list = LastpassList
      BY <1>6 DEF Backends
    <2>2. VaultGet(b) = Wrap(LastpassGet) /\ VaultSet(b) = Wrap(LastpassSet) /\ VaultDelete(b) = Wrap(LastpassDelete) /\ VaultList(b) = Wrap(LastpassList)
      BY <2>1 DEF VaultGet, VaultSet, VaultDelete, VaultList, Wrap
    <2>3. Made(b, Wrap(LastpassGet), "get") /\ Made(b, Wrap(LastpassList), "list")
      BY <1>6, Programs, Zenon DEF LastpassGet, LastpassList
    <2>4. Made(b, Wrap(LastpassDelete), "delete")
      BY <1>6, Programs, Zenon DEF LastpassDelete
    <2>5. Made(b, Wrap(LastpassSet), "set") /\ Pending(Wrap(LastpassSet))
      BY <1>6, Programs DEF LastpassSet, Unique
    <2>6. Begun(Wrap(LastpassGet)) /\ Begun(Wrap(LastpassSet)) /\ Begun(Wrap(LastpassDelete)) /\ Begun(Wrap(LastpassList))
      <3>1. LastpassGet \in Seq(Instr) /\ LastpassSet \in Seq(Instr) /\ LastpassDelete \in Seq(Instr) /\ LastpassList \in Seq(Instr)
        BY DEF LastpassGet, LastpassSet, LastpassDelete, LastpassList, Instr
      <3> QED BY <3>1, Wrapped
    <2>7. b \notin Unique
      BY <1>6 DEF Unique
    <2> QED BY <2>2, <2>3, <2>4, <2>5, <2>6, <2>7
  <1>7. CASE b = "infisical"
    <2>1. Backends[b].get = InfisicalGet /\ Backends[b].set = InfisicalSet /\ Backends[b].delete = InfisicalDelete /\ Backends[b].list = InfisicalList
      BY <1>7 DEF Backends
    <2>2. VaultGet(b) = Wrap(InfisicalGet) /\ VaultSet(b) = Wrap(InfisicalSet) /\ VaultDelete(b) = Wrap(InfisicalDelete) /\ VaultList(b) = Wrap(InfisicalList)
      BY <2>1 DEF VaultGet, VaultSet, VaultDelete, VaultList, Wrap
    <2>3. Made(b, Wrap(InfisicalGet), "get") /\ Made(b, Wrap(InfisicalList), "list")
      BY <1>7, Programs, Zenon DEF InfisicalGet, InfisicalList
    <2>4. Made(b, Wrap(InfisicalDelete), "delete")
      BY <1>7, Programs, Zenon DEF InfisicalDelete
    <2>5. Made(b, Wrap(InfisicalSet), "set") /\ Pending(Wrap(InfisicalSet))
      BY <1>7, Programs DEF InfisicalSet, Unique
    <2>6. Begun(Wrap(InfisicalGet)) /\ Begun(Wrap(InfisicalSet)) /\ Begun(Wrap(InfisicalDelete)) /\ Begun(Wrap(InfisicalList))
      <3>1. InfisicalGet \in Seq(Instr) /\ InfisicalSet \in Seq(Instr) /\ InfisicalDelete \in Seq(Instr) /\ InfisicalList \in Seq(Instr)
        BY DEF InfisicalGet, InfisicalSet, InfisicalDelete, InfisicalList, Instr
      <3> QED BY <3>1, Wrapped
    <2>7. b \notin Unique
      BY <1>7 DEF Unique
    <2> QED BY <2>2, <2>3, <2>4, <2>5, <2>6, <2>7
  <1>8. CASE b = "vault"
    <2>1. Backends[b].get = VaultKVGet /\ Backends[b].set = VaultKVSet /\ Backends[b].delete = VaultKVDelete /\ Backends[b].list = VaultKVList
      BY <1>8 DEF Backends
    <2>2. VaultGet(b) = Wrap(VaultKVGet) /\ VaultSet(b) = Wrap(VaultKVSet) /\ VaultDelete(b) = Wrap(VaultKVDelete) /\ VaultList(b) = Wrap(VaultKVList)
      BY <2>1 DEF VaultGet, VaultSet, VaultDelete, VaultList, Wrap
    <2>3. Made(b, Wrap(VaultKVGet), "get") /\ Made(b, Wrap(VaultKVList), "list")
      BY <1>8, Programs, Zenon DEF VaultKVGet, VaultKVList
    <2>4. Made(b, Wrap(VaultKVDelete), "delete")
      BY <1>8, Programs, Zenon DEF VaultKVDelete
    <2>5. Made(b, Wrap(VaultKVSet), "set") /\ Pending(Wrap(VaultKVSet))
      BY <1>8, Programs DEF VaultKVSet, Unique
    <2>6. Begun(Wrap(VaultKVGet)) /\ Begun(Wrap(VaultKVSet)) /\ Begun(Wrap(VaultKVDelete)) /\ Begun(Wrap(VaultKVList))
      <3>1. VaultKVGet \in Seq(Instr) /\ VaultKVSet \in Seq(Instr) /\ VaultKVDelete \in Seq(Instr) /\ VaultKVList \in Seq(Instr)
        BY DEF VaultKVGet, VaultKVSet, VaultKVDelete, VaultKVList, Instr
      <3> QED BY <3>1, Wrapped
    <2>7. b \notin Unique
      BY <1>8 DEF Unique
    <2> QED BY <2>2, <2>3, <2>4, <2>5, <2>6, <2>7
  <1>9. CASE b = "azure"
    <2>1. Backends[b].get = AzureGet /\ Backends[b].set = AzureSet /\ Backends[b].delete = AzureDelete /\ Backends[b].list = AzureList
      BY <1>9 DEF Backends
    <2>2. VaultGet(b) = Wrap(AzureGet) /\ VaultSet(b) = Wrap(AzureSet) /\ VaultDelete(b) = Wrap(AzureDelete) /\ VaultList(b) = Wrap(AzureList)
      BY <2>1 DEF VaultGet, VaultSet, VaultDelete, VaultList, Wrap
    <2>3. Made(b, Wrap(AzureGet), "get") /\ Made(b, Wrap(AzureList), "list")
      BY <1>9, Programs, Zenon DEF AzureGet, AzureList
    <2>4. Made(b, Wrap(AzureDelete), "delete")
      BY <1>9, Programs, Zenon DEF AzureDelete
    <2>5. Made(b, Wrap(AzureSet), "set") /\ Pending(Wrap(AzureSet))
      BY <1>9, Programs DEF AzureSet, Unique
    <2>6. Begun(Wrap(AzureGet)) /\ Begun(Wrap(AzureSet)) /\ Begun(Wrap(AzureDelete)) /\ Begun(Wrap(AzureList))
      <3>1. AzureGet \in Seq(Instr) /\ AzureSet \in Seq(Instr) /\ AzureDelete \in Seq(Instr) /\ AzureList \in Seq(Instr)
        BY DEF AzureGet, AzureSet, AzureDelete, AzureList, Instr
      <3> QED BY <3>1, Wrapped
    <2>7. b \notin Unique
      BY <1>9 DEF Unique
    <2> QED BY <2>2, <2>3, <2>4, <2>5, <2>6, <2>7
  <1>10. CASE b = "doppler"
    <2>1. Backends[b].get = DopplerGet /\ Backends[b].set = DopplerSet /\ Backends[b].delete = DopplerDelete /\ Backends[b].list = DopplerList
      BY <1>10 DEF Backends
    <2>2. VaultGet(b) = Wrap(DopplerGet) /\ VaultSet(b) = Wrap(DopplerSet) /\ VaultDelete(b) = Wrap(DopplerDelete) /\ VaultList(b) = Wrap(DopplerList)
      BY <2>1 DEF VaultGet, VaultSet, VaultDelete, VaultList, Wrap
    <2>3. Made(b, Wrap(DopplerGet), "get") /\ Made(b, Wrap(DopplerList), "list")
      BY <1>10, Programs, Zenon DEF DopplerGet, DopplerList
    <2>4. Made(b, Wrap(DopplerDelete), "delete")
      BY <1>10, Programs, Zenon DEF DopplerDelete
    <2>5. Made(b, Wrap(DopplerSet), "set") /\ Pending(Wrap(DopplerSet))
      BY <1>10, Programs DEF DopplerSet, Unique
    <2>6. Begun(Wrap(DopplerGet)) /\ Begun(Wrap(DopplerSet)) /\ Begun(Wrap(DopplerDelete)) /\ Begun(Wrap(DopplerList))
      <3>1. DopplerGet \in Seq(Instr) /\ DopplerSet \in Seq(Instr) /\ DopplerDelete \in Seq(Instr) /\ DopplerList \in Seq(Instr)
        BY DEF DopplerGet, DopplerSet, DopplerDelete, DopplerList, Instr
      <3> QED BY <3>1, Wrapped
    <2>7. b \notin Unique
      BY <1>10 DEF Unique
    <2> QED BY <2>2, <2>3, <2>4, <2>5, <2>6, <2>7
  <1>11. CASE b = "connect"
    <2>1. Backends[b].get = ConnectGet /\ Backends[b].set = ConnectSet /\ Backends[b].delete = ConnectDelete /\ Backends[b].list = ConnectList
      BY <1>11 DEF Backends
    <2>2. VaultGet(b) = Wrap(ConnectGet) /\ VaultSet(b) = Wrap(ConnectSet) /\ VaultDelete(b) = Wrap(ConnectDelete) /\ VaultList(b) = Wrap(ConnectList)
      BY <2>1 DEF VaultGet, VaultSet, VaultDelete, VaultList, Wrap
    <2>3. Made(b, Wrap(ConnectGet), "get") /\ Made(b, Wrap(ConnectList), "list")
      BY <1>11, Programs, Zenon DEF ConnectGet, ConnectList
    <2>4. Made(b, Wrap(ConnectDelete), "delete")
      BY <1>11, Programs, Zenon DEF ConnectDelete
    <2>5. Made(b, Wrap(ConnectSet), "set") /\ Pending(Wrap(ConnectSet))
      BY <1>11, Programs DEF ConnectSet, Unique
    <2>6. Begun(Wrap(ConnectGet)) /\ Begun(Wrap(ConnectSet)) /\ Begun(Wrap(ConnectDelete)) /\ Begun(Wrap(ConnectList))
      <3>1. ConnectGet \in Seq(Instr) /\ ConnectSet \in Seq(Instr) /\ ConnectDelete \in Seq(Instr) /\ ConnectList \in Seq(Instr)
        BY DEF ConnectGet, ConnectSet, ConnectDelete, ConnectList, Instr
      <3> QED BY <3>1, Wrapped
    <2>7. b \notin Unique
      BY <1>11 DEF Unique
    <2> QED BY <2>2, <2>3, <2>4, <2>5, <2>6, <2>7
  <1>12. CASE b = "aws"
    <2>1. Backends[b].get = AwsGet /\ Backends[b].set = AwsSet /\ Backends[b].delete = AwsDelete /\ Backends[b].list = AwsList
      BY <1>12 DEF Backends
    <2>2. VaultGet(b) = Wrap(AwsGet) /\ VaultSet(b) = Wrap(AwsSet) /\ VaultDelete(b) = Wrap(AwsDelete) /\ VaultList(b) = Wrap(AwsList)
      BY <2>1 DEF VaultGet, VaultSet, VaultDelete, VaultList, Wrap
    <2>3. Made(b, Wrap(AwsGet), "get") /\ Made(b, Wrap(AwsList), "list")
      BY <1>12, Programs, Zenon DEF AwsGet, AwsList
    <2>4. Made(b, Wrap(AwsDelete), "delete")
      BY <1>12, Programs, Zenon DEF AwsDelete
    <2>5. Made(b, Wrap(AwsSet), "set") /\ Pending(Wrap(AwsSet))
      BY <1>12, Programs DEF AwsSet, Unique
    <2>6. Begun(Wrap(AwsGet)) /\ Begun(Wrap(AwsSet)) /\ Begun(Wrap(AwsDelete)) /\ Begun(Wrap(AwsList))
      <3>1. AwsGet \in Seq(Instr) /\ AwsSet \in Seq(Instr) /\ AwsDelete \in Seq(Instr) /\ AwsList \in Seq(Instr)
        BY DEF AwsGet, AwsSet, AwsDelete, AwsList, Instr
      <3> QED BY <3>1, Wrapped
    <2>7. b \notin Unique
      BY <1>12 DEF Unique
    <2> QED BY <2>2, <2>3, <2>4, <2>5, <2>6, <2>7
  <1>13. CASE b = "gcp"
    <2>1. Backends[b].get = GcpGet /\ Backends[b].set = GcpSet /\ Backends[b].delete = GcpDelete /\ Backends[b].list = GcpList
      BY <1>13 DEF Backends
    <2>2. VaultGet(b) = Wrap(GcpGet) /\ VaultSet(b) = Wrap(GcpSet) /\ VaultDelete(b) = Wrap(GcpDelete) /\ VaultList(b) = Wrap(GcpList)
      BY <2>1 DEF VaultGet, VaultSet, VaultDelete, VaultList, Wrap
    <2>3. Made(b, Wrap(GcpGet), "get") /\ Made(b, Wrap(GcpList), "list")
      BY <1>13, Programs, Zenon DEF GcpGet, GcpList
    <2>4. Made(b, Wrap(GcpDelete), "delete")
      BY <1>13, Programs, Zenon DEF GcpDelete
    <2>5. Made(b, Wrap(GcpSet), "set") /\ Pending(Wrap(GcpSet))
      BY <1>13, Programs DEF GcpSet, Unique
    <2>6. Begun(Wrap(GcpGet)) /\ Begun(Wrap(GcpSet)) /\ Begun(Wrap(GcpDelete)) /\ Begun(Wrap(GcpList))
      <3>1. GcpGet \in Seq(Instr) /\ GcpSet \in Seq(Instr) /\ GcpDelete \in Seq(Instr) /\ GcpList \in Seq(Instr)
        BY DEF GcpGet, GcpSet, GcpDelete, GcpList, Instr
      <3> QED BY <3>1, Wrapped
    <2>7. b \notin Unique
      BY <1>13 DEF Unique
    <2> QED BY <2>2, <2>3, <2>4, <2>5, <2>6, <2>7
  <1> QED BY <1>1, <1>2, <1>3, <1>4, <1>5, <1>6, <1>7, <1>8, <1>9, <1>10, <1>11, <1>12, <1>13

\* What comes after the instruction at hand.
LEMMA Heads ==
    ASSUME NEW b, NEW op, NEW t, Made(b, t, op), t # <<>>
    PROVE  /\ Tail(t) # <<>> => Head(Tail(t)) = t[2] /\ 2 \in 1 .. Len(t)
           /\ Tail(t) # <<>> => Head(Tail(t)) \notin {"await", "select"}
           /\ t[1] # "look" /\ Tail(t) # <<>> => Head(Tail(t)) # "write"
           /\ t[1] \notin {"fetch", "await"} /\ Tail(t) # <<>> => Head(Tail(t)) # "copy"
           /\ t[1] \notin Writing => (Pending(t) <=> Pending(Tail(t)))
           /\ t[1] # "evict" => (Ahead(t, "evict") <=> Ahead(Tail(t), "evict"))
           /\ op = "delete" /\ t[1] \notin {"select", "evict"} => ~Ahead(t, "evict")
           /\ t[1] \in {"emit", "remove", "fetch", "await", "hit", "write", "createempty"} => Tail(t) # <<>>
           /\ t[1] = "use" => Tail(t) = <<>>
  <1>1. /\ Tail(t) \in Seq(Instr) /\ Len(t) \in Nat \ {0} /\ Len(Tail(t)) = Len(t) - 1
        /\ \A i \in 1 .. Len(t) - 1 : Tail(t)[i] = t[i + 1]
    BY DEF Made
  <1>2. \A i \in 1 .. Len(t) : Shaped(b, t, op, i)
    BY DEF Made
  <1>3. 1 \in 1 .. Len(t) /\ Shaped(b, t, op, 1)
    BY <1>1, <1>2
  <1> DEFINE u == Tail(t)
  <1>4. u \in Seq(Instr) /\ Len(u) = Len(t) - 1 /\ \A i \in 1 .. Len(t) - 1 : u[i] = t[i + 1]
    BY <1>1
  <1> HIDE DEF u
  <1>5. u # <<>> => Head(u) = t[2] /\ 2 \in 1 .. Len(t) /\ Shaped(b, t, op, 2)
    <2>1. ASSUME u # <<>> PROVE Head(u) = u[1] /\ Len(u) # 0 /\ Len(u) \in Nat
      BY <1>4, <2>1
    <2> QED BY <1>1, <1>2, <1>4, <2>1
  <1>6. u # <<>> => Head(u) \notin {"await", "select"}
    BY <1>5 DEF Shaped
  <1>7. t[1] # "look" /\ u # <<>> => Head(u) # "write"
    BY <1>5 DEF Shaped
  <1>15. t[1] \notin {"fetch", "await"} /\ u # <<>> => Head(u) # "copy"
    BY <1>5 DEF Shaped
  <1>8. ASSUME NEW j \in 1 .. Len(t) PROVE j = 1 \/ (j - 1 \in 1 .. Len(u) /\ u[j - 1] = t[j])
    <2>1. ASSUME j # 1 PROVE j - 1 \in 1 .. Len(t) - 1 /\ (j - 1) + 1 = j
      BY <1>1, <2>1
    <2> QED BY <1>4, <2>1
  <1>9. ASSUME NEW j \in 1 .. Len(u) PROVE j + 1 \in 1 .. Len(t) /\ u[j] = t[j + 1]
    BY <1>1, <1>4
  <1>10. t[1] \notin Writing => (Pending(t) <=> Pending(u))
    BY <1>8, <1>9 DEF Pending
  <1>11. t[1] # "evict" => (Ahead(t, "evict") <=> Ahead(u, "evict"))
    <2>1. Ahead(u, "evict") => Ahead(t, "evict")
      BY <1>9 DEF Ahead
    <2>2. t[1] # "evict" /\ Ahead(t, "evict") => Ahead(u, "evict")
      BY <1>8 DEF Ahead
    <2> QED BY <2>1, <2>2
  <1>12. op = "delete" /\ t[1] \notin {"select", "evict"} => ~Ahead(t, "evict")
    <2> SUFFICES ASSUME op = "delete", NEW j \in 1 .. Len(t), t[j] = "evict", t[1] \notin {"select", "evict"}
                 PROVE  FALSE
      BY DEF Ahead
    <2>1. j # 1 /\ 1 \in 1 .. j - 1
      BY <1>1
    <2>2. Shaped(b, t, op, j)
      BY <1>2
    <2> QED BY <2>1, <2>2 DEF Shaped
  <1>13. t[1] \in {"emit", "remove", "fetch", "await", "hit", "write", "createempty"} => u # <<>>
    <2>1. t[1] \in {"emit", "remove", "fetch", "await", "hit", "write", "createempty"} => 1 < Len(t)
      BY <1>3 DEF Shaped
    <2> QED BY <1>1, <1>4, <2>1
  <1>14. t[1] = "use" => u = <<>>
    <2>1. t[1] = "use" => 1 = Len(t)
      BY <1>3 DEF Shaped
    <2> QED BY <1>1, <1>4, <2>1
  <1> QED BY <1>5, <1>6, <1>7, <1>10, <1>11, <1>12, <1>13, <1>14, <1>15 DEF u

\* A call under way.
LEMMA Standing ==
    ASSUME CallsMade, NEW g \in Caller
    PROVE  /\ call[g] \in CallType /\ Made(store, call[g].todo, call[g].op)
           /\ g # Writer => call[g].op \in {"none", "get"}
           /\ call[g].op = "set" => call[g].val \in Secret /\ g = Writer
           /\ call[g].op = "delete" => g = Writer
           /\ Writer \in Caller
  BY RemoteAssumption DEF CallsMade

\* One caller's record changes.
LEMMA CallStep ==
    ASSUME CallsMade, NEW g \in Caller, NEW n \in CallType, call' = [call EXCEPT ![g] = n],
           store' = store, items' \in Seq(Value), lookFailed' \in BOOLEAN,
           cache' \in [on : BOOLEAN, old : BOOLEAN], flight' \in FlightType,
           Made(store, n.todo, n.op), g # Writer => n.op \in {"none", "get"}, n.op = "set" => n.val \in Secret
    PROVE  CallsMade' /\ call'[g] = n /\ \A h \in Caller \ {g} : call'[h] = call[h]
  <1>1. call' \in [Caller -> CallType] /\ call'[g] = n /\ \A h \in Caller \ {g} : call'[h] = call[h]
    BY DEF CallsMade
  <1>2. ASSUME NEW h \in Caller
        PROVE  Made(store, call'[h].todo, call'[h].op) /\ (h # Writer => call'[h].op \in {"none", "get"})
    BY <1>1 DEF CallsMade
  <1>3. call'[Writer].op = "set" => call'[Writer].val \in Secret
    BY <1>1, RemoteAssumption DEF CallsMade
  <1> QED BY <1>1, <1>2, <1>3 DEF CallsMade

\* A step that leaves the service's items alone.
LEMMA StoreKeeps ==
    ASSUME CallsMade, StoreInv, NEW g \in Caller, NEW n, call' = [call EXCEPT ![g] = n],
           store' = store, items' = items, lookFailed' = lookFailed,
           n.todo = <<>> \/ Head(n.todo) # "write",
           n.op = "set" /\ n.err = "ok" /\ ~Pending(n.todo) =>
              call[g].op = "set" /\ call[g].err = "ok" /\ n.val = call[g].val /\ ~Pending(call[g].todo)
    PROVE  StoreInv'
  <1>1. call'[g] = n /\ \A h \in Caller \ {g} : call'[h] = call[h]
    BY DEF CallsMade
  <1>2. OneItem'
    BY DEF StoreInv, OneItem
  <1>3. store' \in Unique /\ At(Writer, "write")' /\ ~call'[Writer].found /\ ~lookFailed' => items' = <<>>
    <2>1. CASE g = Writer
      BY <1>1, <2>1 DEF At, Busy
    <2>2. CASE g # Writer
      BY <1>1, <2>2, RemoteAssumption DEF At, Busy, StoreInv
    <2> QED BY <2>1, <2>2
  <1>4. store' \in Updating /\ ~lookFailed' /\ call'[Writer].op = "set" /\ call'[Writer].err = "ok"
           /\ ~Pending(call'[Writer].todo) => items' = <<call'[Writer].val>>
    <2>1. CASE g = Writer
      BY <1>1, <2>1 DEF StoreInv
    <2>2. CASE g # Writer
      BY <1>1, <2>2, RemoteAssumption DEF StoreInv
    <2> QED BY <2>1, <2>2
  <1> QED BY <1>2, <1>3, <1>4 DEF StoreInv

\* A step that leaves the items and the shared fetch alone.
LEMMA AbsentKeeps ==
    ASSUME CallsMade, AbsentInv, NEW g \in Caller, NEW n, call' = [call EXCEPT ![g] = n],
           store' = store, items' = items, flight' = flight,
           store \in Telling /\ n.err = "notfound" => Excused(n),
           n.todo = <<>> \/ Head(n.todo) \in {"emit", "use"} \/ n.absent
             \/ (~Absent(items) /\ Head(n.todo) # "await")
    PROVE  AbsentInv'
  <1>1. call'[g] = n /\ \A h \in Caller \ {g} : call'[h] = call[h]
    BY DEF CallsMade
  <1>2. Absent(items)' = Absent(items)
    BY DEF Absent
  <1>4. Missed' = Missed
    BY DEF Missed
  <1>3. ASSUME NEW h \in Caller
        PROVE  /\ store \in Telling /\ call'[h].err = "notfound" => Excused(call'[h])
               /\ Busy(h)' /\ ~At(h, "emit")' /\ ~At(h, "use")' /\ Absent(items)' => call'[h].absent
               /\ At(h, "await")' /\ Missed' => call'[h].absent
    <2>1. CASE h = g
      BY <1>1, <1>2, <2>1 DEF At, Busy
    <2>2. CASE h # g
      BY <1>1, <1>2, <1>4, <2>2 DEF At, Busy, AbsentInv
    <2> QED BY <2>1, <2>2
  <1>5. \A h \in Caller : store' \in Telling /\ call'[h].err = "notfound" => Excused(call[h])'
    BY <1>3 DEF Excused
  <1> QED BY <1>2, <1>3, <1>4, <1>5 DEF AbsentInv

\* A step that touches no bytes.
LEMMA BytesKeeps ==
    ASSUME CallsMade, BytesInv, NEW g \in Caller, NEW n, call' = [call EXCEPT ![g] = n],
           store' = store, items' = items, bytes' = bytes, same' = same, cache' = cache, flight' = flight,
           ~At(g, "evict"), n.todo = <<>> \/ Head(n.todo) # "copy", ~At(g, "copy"),
           n.served # Wiped \/ n.served = call[g].served,
           store \in Unique /\ n.todo # <<>> /\ n.op = "delete" /\ ~Ahead(n.todo, "evict") =>
              Busy(g) /\ call[g].op = "delete" /\ ~Ahead(call[g].todo, "evict")
    PROVE  BytesInv'
  <1>1. call'[g] = n /\ \A h \in Caller \ {g} : call'[h] = call[h]
    BY DEF CallsMade
  <1>2. store \in Sole => \A h \in Caller : ~At(h, "copy")' => Apart(h)'
    BY <1>1 DEF BytesInv, Apart, At, Busy
  <1>3. store \in Sole \ {"bw"} => (\A h \in Holder : bytes[h] # Wiped) /\ \A h \in Caller : call'[h].served # Wiped
    BY <1>1 DEF BytesInv
  <1>4. Fresh' = Fresh
    BY DEF Fresh
  <1>5. Dirty => Dirty'
    BY <1>1, RemoteAssumption DEF Dirty, At, Busy, Ahead
  <1>6. store \in Unique /\ Busy(Writer)' /\ call'[Writer].op = "delete" /\ ~Ahead(call'[Writer].todo, "evict")
          => (cache.on => cache.old)
    <2>1. CASE g = Writer
      BY <1>1, <2>1 DEF BytesInv, Busy
    <2>2. CASE g # Writer
      BY <1>1, <2>2, RemoteAssumption DEF BytesInv, Busy
    <2> QED BY <2>1, <2>2
  <1>7. store \in Unique => \A h \in Caller : Bare(h)'
    BY <1>1 DEF BytesInv, Bare, At, Busy, Excused
  <1> QED BY <1>2, <1>3, <1>4, <1>5, <1>6, <1>7 DEF BytesInv

\* Whoever may still report the item as absent has seen it so.
LEMMA Known ==
    ASSUME RemoteInv, NEW g \in Caller, Busy(g), Head(call[g].todo) \notin {"emit", "use"}, Absent(items)
    PROVE  call[g].absent = TRUE
  <1>1. call[g].absent \in BOOLEAN
    BY DEF RemoteInv, CallsMade, CallType
  <1> QED BY <1>1 DEF RemoteInv, AbsentInv, At

\* The next instruction, whatever became of the bytes.
LEMMA Pops ==
    ASSUME RemoteInv, NEW g \in Caller, Busy(g), Head(call[g].todo) \notin Writing \cup {"look", "use"},
           NEW n \in CallType, call' = [call EXCEPT ![g] = n],
           n.todo = Tail(call[g].todo), n.op = call[g].op, n.val = call[g].val, n.absent = call[g].absent,
           n.stale = call[g].stale,
           n.err = call[g].err \/ n.err \notin {"ok", "notfound"},
           UNCHANGED <<store, items, flight, lookFailed>>, cache' \in [on : BOOLEAN, old : BOOLEAN]
    PROVE  CallsMade' /\ StoreInv' /\ AbsentInv'
  <1> DEFINE c == call[g]
  <1>1. /\ CallsMade /\ StoreInv /\ AbsentInv /\ BytesInv /\ c \in CallType /\ Made(store, c.todo, c.op) /\ c.todo # <<>>
        /\ (g # Writer => c.op \in {"none", "get"}) /\ (c.op = "set" => c.val \in Secret)
    BY Standing DEF RemoteInv, Busy
  <1>2. Tail(c.todo) \in Seq(Instr) /\ Made(store, Tail(c.todo), c.op) /\ Head(c.todo) = c.todo[1]
    BY <1>1, Tails
  <1>3. /\ n.todo # <<>> => Head(n.todo) \notin {"await", "select"}
        /\ n.todo # <<>> => Head(n.todo) # "write"
        /\ Pending(c.todo) <=> Pending(n.todo)
        /\ c.todo[1] = "emit" => n.todo # <<>> /\ Head(n.todo) = "use"
    <2>1. c.todo[1] = "emit" => c.todo[2] = "use"
      <3>1. 1 \in 1 .. Len(c.todo)
        BY <1>1 DEF Made
      <3>2. Shaped(store, c.todo, c.op, 1)
        BY <1>1, <3>1 DEF Made
      <3> QED BY <3>2 DEF Shaped
    <2> QED BY <1>1, <1>2, <2>1, Heads
  <1>4. c.todo[1] \notin {"emit", "use"} /\ Absent(items) => n.absent
    BY <1>2, Known
  <1>5. store \in Telling /\ n.err = "notfound" => Excused(n)
    BY <1>1 DEF AbsentInv, Excused
  <1>6. CallsMade'
    <2>1. items \in Seq(Value) /\ lookFailed \in BOOLEAN /\ flight \in FlightType
      BY <1>1 DEF CallsMade
    <2> QED BY <1>1, <1>2, <2>1, CallStep
  <1>7. StoreInv'
    BY <1>1, <1>3, StoreKeeps
  <1>8. AbsentInv'
    <2>1. n.todo = <<>> \/ Head(n.todo) \in {"emit", "use"} \/ n.absent
             \/ (~Absent(items) /\ Head(n.todo) # "await")
      BY <1>2, <1>3, <1>4
    <2> QED BY <1>1, <1>5, <2>1, AbsentKeeps
  <1> QED BY <1>6, <1>7, <1>8

\* The record after an instruction that reports nothing.
LEMMA Onward ==
    ASSUME RemoteInv, NEW g \in Caller, Busy(g), Go(g, call[g])
    PROVE  \E n \in CallType :
              /\ call' = [call EXCEPT ![g] = n] /\ n.todo = Tail(call[g].todo) /\ n.op = call[g].op /\ n.val = call[g].val
              /\ n.err = call[g].err /\ n.absent = call[g].absent /\ n.stale = call[g].stale /\ n.served = call[g].served
  <1> DEFINE c == call[g]
             t == Tail(c.todo)
             n == [c EXCEPT !.todo = t]
  <1>1. c \in CallType /\ t \in Seq(Instr)
    <2>1. c \in CallType /\ Made(store, c.todo, c.op) /\ c.todo # <<>>
      BY Standing DEF RemoteInv, Busy
    <2> QED BY <2>1, Tails
  <1>2. call' = [call EXCEPT ![g] = n]
    BY DEF Go
  <1>3. n \in CallType /\ n.todo = t /\ n.op = c.op /\ n.val = c.val /\ n.err = c.err /\ n.absent = c.absent
        /\ n.stale = c.stale /\ n.served = c.served
    <2> HIDE DEF c, t
    <2>1. n \in CallType
      BY <1>1 DEF CallType
    <2> QED BY <1>1, <2>1 DEF CallType
  <1> HIDE DEF n
  <1> QED BY <1>2, <1>3

\* The next instruction, when the one at hand changed nothing.
LEMMA Passes ==
    ASSUME RemoteInv, NEW g \in Caller, Busy(g), Go(g, call[g]),
           Head(call[g].todo) \notin Writing \cup {"look", "copy", "evict", "use", "fetch", "await"},
           UNCHANGED <<store, items, bytes, same, cache, flight, lookFailed>>
    PROVE  RemoteInv'
  <1>1. PICK n \in CallType :
              /\ call' = [call EXCEPT ![g] = n] /\ n.todo = Tail(call[g].todo) /\ n.op = call[g].op /\ n.val = call[g].val
              /\ n.err = call[g].err /\ n.absent = call[g].absent /\ n.stale = call[g].stale /\ n.served = call[g].served
    BY Onward
  <1>2. CallsMade /\ StoreInv /\ AbsentInv /\ BytesInv /\ cache' \in [on : BOOLEAN, old : BOOLEAN]
    BY DEF RemoteInv, CallsMade
  <1>3. CallsMade' /\ StoreInv' /\ AbsentInv'
    BY <1>1, <1>2, Pops
  <1>4. Made(store, call[g].todo, call[g].op) /\ call[g].todo # <<>>
    BY <1>2, Standing DEF Busy
  <1>5. Head(call[g].todo) = call[g].todo[1]
    BY <1>4, Tails
  <1>6. Ahead(call[g].todo, "evict") <=> Ahead(n.todo, "evict")
    BY <1>1, <1>4, <1>5, Heads
  <1>7. ~At(g, "copy") /\ ~At(g, "evict") /\ (n.todo = <<>> \/ Head(n.todo) # "copy")
    BY <1>1, <1>4, <1>5, Heads DEF At
  <1>8. BytesInv'
    BY <1>1, <1>2, <1>6, <1>7, BytesKeeps
  <1> QED BY <1>3, <1>8 DEF RemoteInv

\* The rest of the backend's program is skipped.
LEMMA Fails ==
    ASSUME RemoteInv, NEW g \in Caller, Busy(g), NEW e \in Report, Go(g, Fail(g, e)),
           Head(call[g].todo) \notin {"select", "copy", "evict"},
           store \in Telling /\ e = "notfound" => call[g].absent, e = "ok" => call[g].op # "set",
           UNCHANGED <<store, items, bytes, same, cache, flight, lookFailed>>
    PROVE  RemoteInv'
  <1> DEFINE c == call[g]
             over == <<"emit", "use">>
             n == [c EXCEPT !.err = e, !.todo = over]
  <1>1. /\ CallsMade /\ StoreInv /\ AbsentInv /\ BytesInv /\ c \in CallType /\ Made(store, c.todo, c.op) /\ c.todo # <<>>
        /\ (g # Writer => c.op \in {"none", "get"}) /\ (c.op = "set" => c.val \in Secret)
    BY Standing DEF RemoteInv, Busy
  <1>2. /\ Tail(<<"fail", "emit", "use">>) = over /\ Made(store, over, c.op) /\ over \in Seq(Instr) /\ ~Pending(over)
        /\ Head(over) = "emit"
    BY Overs
  <1>3. Head(c.todo) = c.todo[1]
    BY <1>1, Tails
  <1>4. call' = [call EXCEPT ![g] = n]
    <2>1. [Fail(g, e) EXCEPT !.todo = Tail(@)] = n
      BY <1>1, <1>2 DEF Fail, CallType
    <2> QED BY <2>1 DEF Go
  <1> HIDE DEF over
  <1>5. /\ n \in CallType /\ n.todo = over /\ n.op = c.op /\ n.val = c.val /\ n.err = e
        /\ n.absent = c.absent /\ n.stale = c.stale /\ n.served = c.served
    <2>1. c \in CallType /\ over \in Seq(Instr)
      BY <1>1, <1>2
    <2> HIDE DEF c
    <2>2. [c EXCEPT !.err = e, !.todo = over] \in CallType
      BY <2>1 DEF CallType
    <2> QED BY <2>1, <2>2 DEF CallType
  <1>6. c.op = "delete" => ~Ahead(c.todo, "evict")
    BY <1>1, <1>3, Heads
  <1>7. ~At(g, "copy") /\ ~At(g, "evict")
    BY DEF At
  <1> HIDE DEF n
  <1>10. CallsMade'
    <2>1. items \in Seq(Value) /\ lookFailed \in BOOLEAN /\ cache \in [on : BOOLEAN, old : BOOLEAN] /\ flight \in FlightType
      BY <1>1 DEF CallsMade
    <2> QED BY <1>1, <1>2, <1>4, <1>5, <2>1, CallStep
  <1>11. StoreInv'
    BY <1>1, <1>2, <1>4, <1>5, StoreKeeps
  <1>12. AbsentInv'
    <2>1. store \in Telling /\ n.err = "notfound" => Excused(n)
      BY <1>5 DEF Excused
    <2> QED BY <1>1, <1>2, <1>4, <1>5, <2>1, AbsentKeeps
  <1>13. BytesInv'
    BY <1>1, <1>2, <1>4, <1>5, <1>6, <1>7, BytesKeeps
  <1> QED BY <1>10, <1>11, <1>12, <1>13 DEF RemoteInv

\* A new call.
LEMMA Begins ==
    ASSUME RemoteInv, NEW g \in Caller, NEW op \in {"get", "set", "delete", "list"}, NEW v \in Value, NEW p,
           Begin(g, op, v, p), Made(store, p, op), Begun(p), g = Writer \/ op = "get",
           op = "set" => v \in Secret /\ Pending(p), op = "delete" /\ store \in Unique => Ahead(p, "evict")
    PROVE  RemoteInv'
  <1> DEFINE n == [Idle EXCEPT !.op = op, !.val = v, !.todo = p, !.absent = Absent(items)]
  <1>1. CallsMade /\ StoreInv /\ AbsentInv /\ BytesInv
    BY DEF RemoteInv
  <1>2. ~Busy(g) /\ call' = [call EXCEPT ![g] = n]
    BY DEF Begin
  <1>3. UNCHANGED <<store, items, bytes, same, cache, flight, lookFailed>>
    BY DEF Begin, mem
  <1>4. p \in Seq(Instr) /\ Absent(items) \in BOOLEAN
    BY DEF Made, Absent
  <1>5. /\ n \in CallType /\ n.todo = p /\ n.op = op /\ n.val = v /\ n.err = "ok"
        /\ n.absent = Absent(items) /\ n.served = None
    BY <1>4 DEF CallType, Idle, Value, Report
  <1>6. n.served # Wiped
    BY <1>5, RemoteAssumption
  <1>7. p # <<>> /\ Head(p) = "select"
    BY DEF Begun
  <1>8. ~At(g, "copy") /\ ~At(g, "evict")
    BY <1>2 DEF At
  <1> HIDE DEF n
  <1>10. CallsMade'
    <2>1. items \in Seq(Value) /\ lookFailed \in BOOLEAN /\ cache \in [on : BOOLEAN, old : BOOLEAN] /\ flight \in FlightType
      BY <1>1 DEF CallsMade
    <2> QED BY <1>1, <1>2, <1>3, <1>5, <2>1, CallStep
  <1>11. StoreInv'
    BY <1>1, <1>2, <1>3, <1>5, <1>7, StoreKeeps
  <1>12. AbsentInv'
    BY <1>1, <1>2, <1>3, <1>5, <1>7, AbsentKeeps
  <1>13. BytesInv'
    BY <1>1, <1>2, <1>3, <1>5, <1>6, <1>7, <1>8, BytesKeeps
  <1> QED BY <1>10, <1>11, <1>12, <1>13 DEF RemoteInv

\* vault.Get, List, Delete and Set are called.
LEMMA RemoteCalls ==
    ASSUME RemoteInv, NEW g \in Caller,
           CallGet(g) \/ CallList(g) \/ CallDelete(g) \/ \E v \in Secret : CallSet(g, v)
    PROVE  RemoteInv'
  <1>1. store \in DOMAIN Backends /\ None \in Value /\ Secret \subseteq Value
    BY DEF RemoteInv, CallsMade, Value
  <1>2. CASE CallGet(g)
    BY <1>1, <1>2, Given, Begins DEF CallGet
  <1>3. CASE CallList(g)
    BY <1>1, <1>3, Given, Begins DEF CallList
  <1>4. CASE CallDelete(g)
    BY <1>1, <1>4, Given, Begins DEF CallDelete
  <1>5. ASSUME NEW v \in Secret, CallSet(g, v) PROVE RemoteInv'
    BY <1>1, <1>5, Given, Begins DEF CallSet
  <1> QED BY <1>2, <1>3, <1>4, <1>5

\* A call that is refused before it reaches the backend.
LEMMA RemoteSelects ==
    ASSUME RemoteInv, NEW g \in Caller, Select(g)
    PROVE  RemoteInv'
  <1>1. Busy(g) /\ Head(call[g].todo) = "select" /\ UNCHANGED <<store, items, bytes, same, cache, flight, lookFailed>>
    BY DEF Select, At, mem
  <1>2. CASE Go(g, call[g])
    BY <1>1, <1>2, Passes DEF Writing, Replacing
  <1>3. ASSUME NEW e \in {"unavailable", "audit"}, call' = [call EXCEPT ![g] = Ended(e)] PROVE RemoteInv'
    <2> DEFINE n == [Idle EXCEPT !.err = "failed"]
    <2>1. call' = [call EXCEPT ![g] = n]
      BY <1>3 DEF Ended
    <2>2. CallsMade /\ StoreInv /\ AbsentInv /\ BytesInv /\ Made(store, <<>>, "none")
      BY Overs DEF RemoteInv
    <2>3. n \in CallType /\ n.todo = <<>> /\ n.op = "none" /\ n.err = "failed" /\ n.served = None
      BY <2>2 DEF CallType, Idle, Value, Report, Made
    <2>4. n.served # Wiped /\ ~At(g, "copy") /\ ~At(g, "evict")
      BY <1>1, <2>3, RemoteAssumption DEF At
    <2> HIDE DEF n
    <2>5. CallsMade'
      <3>1. items \in Seq(Value) /\ lookFailed \in BOOLEAN /\ cache \in [on : BOOLEAN, old : BOOLEAN] /\ flight \in FlightType
        BY <2>2 DEF CallsMade
      <3> QED BY <1>1, <2>1, <2>2, <2>3, <3>1, CallStep
    <2>6. StoreInv'
      BY <1>1, <2>1, <2>2, <2>3, StoreKeeps
    <2>7. AbsentInv'
      BY <1>1, <2>1, <2>2, <2>3, AbsentKeeps
    <2>8. BytesInv'
      BY <1>1, <2>1, <2>2, <2>3, <2>4, BytesKeeps
    <2> QED BY <2>5, <2>6, <2>7, <2>8 DEF RemoteInv
  <1> QED BY <1>2, <1>3 DEF Select

\* Nothing that the invariant is about changes.
LEMMA RemoteStays ==
    ASSUME RemoteInv, UNCHANGED <<store, items, bytes, same, cache, flight, call, lookFailed>>
    PROVE  RemoteInv'
  BY DEF RemoteInv, CallsMade, StoreInv, AbsentInv, BytesInv, OneItem, Fresh, Dirty, Apart, At, Busy, Absent, Ahead, Missed, Excused, Bare

\* A sequence of one element.
LEMMA Single ==
    ASSUME NEW S, NEW q \in Seq(S), Len(q) = 1
    PROVE  q = <<q[1]>>
  OBVIOUS

\* A telling backend reports only an absent item as not found; only a Delete may report it as success.
LEMMA ErrorsOf ==
    ASSUME NEW b, NEW op, NEW e \in {"absent", "locked", "failed"}, NEW r \in Errors(b, op)[e]
    PROVE  /\ r \in Report
           /\ b \in Telling /\ r = "notfound" => e = "absent"
           /\ r = "ok" => op = "delete"
  BY DEF Errors, BwErrors, OpErrors, ProtonErrors, KeeperErrors, LastpassErrors, VaultKVErrors, VaultKVDeleteErrors,
         AzureErrors, ServiceErrors, Report, Telling

\* What the service answers.
LEMMA Answered ==
    ASSUME CallsMade, NEW a \in Answers
    PROVE  /\ a.val \in Value /\ a.err \in {"ok", "absent", "locked", "failed"}
           /\ a.err = "absent" => Absent(items)
           /\ store \in Unique /\ a.err = "absent" => items = <<>>
           /\ store \in Unique /\ a.err = "ok" => items = <<a.val>>
  <1>1. items \in Seq(Value) /\ Len(items) \in Nat /\ None \in Value
    BY DEF CallsMade, Value
  <1>2. CASE a \in {[val |-> None, err |-> e] : e \in {"locked", "failed"}}
    BY <1>1, <1>2
  <1>3. CASE a \in Found(items)
    <2>1. CASE items = <<>> \/ (store \notin Unique /\ Absent(items))
      <3>1. a = [val |-> None, err |-> "absent"]
        BY <1>3, <2>1 DEF Found
      <3> QED BY <1>1, <2>1, <3>1 DEF Absent
    <2>2. CASE items # <<>> /\ ~(store \notin Unique /\ Absent(items))
      <3>1. Len(items) > 0 /\ 1 \in 1 .. Len(items)
        BY <1>1, <2>2
      <3>2. CASE store \in Unique /\ Len(items) > 1
        <4>1. a = [val |-> None, err |-> "failed"]
          BY <1>3, <2>2, <3>2 DEF Found
        <4> QED BY <1>1, <4>1
      <3>3. CASE store \in Unique /\ ~(Len(items) > 1)
        <4>1. a = [val |-> items[1], err |-> "ok"]
          BY <1>3, <2>2, <3>3 DEF Found, Unique
        <4>2. Len(items) = 1
          <5> DEFINE n == Len(items)
          <5>1. n \in Nat /\ n > 0 /\ ~(n > 1)
            BY <1>1, <3>1, <3>3
          <5> HIDE DEF n
          <5>2. n = 1
            BY <5>1
          <5> QED BY <5>2 DEF n
        <4>3. items = <<items[1]>>
          BY <1>1, <4>2, Single
        <4> QED BY <1>1, <3>1, <4>1, <4>3
      <3>4. CASE store \notin Unique
        <4>1. \E i \in 1 .. Len(items) : a = [val |-> items[i], err |-> "ok"]
          BY <1>3, <2>2, <3>1, <3>4 DEF Found
        <4> QED BY <1>1, <3>4, <4>1
      <3> QED BY <3>2, <3>3, <3>4
    <2> QED BY <2>1, <2>2
  <1> QED BY <1>2, <1>3 DEF Answers

\* The instructions that change neither items nor bytes.
LEMMA RemoteQuiet ==
    ASSUME RemoteInv, NEW g \in Caller, Cancel(g) \/ Login(g) \/ Rejected(g) \/ List(g) \/ Verify(g)
    PROVE  RemoteInv'
  <1>0. {"failed", "canceled"} \subseteq Report
    BY DEF Report
  <1>1. CASE Cancel(g)
    <2>1. Busy(g) /\ Head(call[g].todo) = "await" /\ Go(g, Fail(g, "canceled"))
          /\ UNCHANGED <<store, items, bytes, same, cache, flight, lookFailed>>
      BY <1>1 DEF Cancel, At, mem
    <2> QED BY <1>0, <2>1, Fails
  <1>2. CASE Login(g)
    <2>1. Busy(g) /\ Head(call[g].todo) = "login" /\ (Go(g, call[g]) \/ Go(g, Fail(g, "failed")))
          /\ UNCHANGED <<store, items, bytes, same, cache, flight, lookFailed>>
      BY <1>2 DEF Login, At, mem
    <2>2. CASE Go(g, call[g])
      BY <2>1, <2>2, Passes DEF Writing, Replacing
    <2>3. CASE Go(g, Fail(g, "failed"))
      BY <1>0, <2>1, <2>3, Fails
    <2> QED BY <2>1, <2>2, <2>3
  <1>3. CASE Rejected(g)
    <2>1. Busy(g) /\ Head(call[g].todo) \in {"read", "create", "remove", "list"}
          /\ UNCHANGED <<store, items, bytes, same, cache, flight, lookFailed>>
      BY <1>3 DEF Rejected, At, mem
    <2>2. CASE Go(g, Fail(g, "failed"))
      BY <1>0, <2>1, <2>2, Fails
    <2>3. CASE call' = [call EXCEPT ![g] = [call[g] EXCEPT !.retried = TRUE]]
      <3> DEFINE c == call[g]
                 n == [c EXCEPT !.retried = TRUE]
      <3>1. /\ CallsMade /\ StoreInv /\ AbsentInv /\ BytesInv /\ c \in CallType /\ Made(store, c.todo, c.op) /\ c.todo # <<>>
            /\ (g # Writer => c.op \in {"none", "get"}) /\ (c.op = "set" => c.val \in Secret)
        BY <2>1, Standing DEF RemoteInv, Busy
      <3>2. call' = [call EXCEPT ![g] = n]
        BY <2>3
      <3>3. Absent(items) => c.absent
        BY <2>1, Known
      <3>4. (store \in Telling /\ c.err = "notfound" => Excused(c)) /\ ~At(g, "copy") /\ ~At(g, "evict")
        BY <2>1, <3>1 DEF AbsentInv, At
      <3>5. Head(c.todo) \in {"read", "create", "remove", "list"}
        BY <2>1
      <3> HIDE DEF c
      <3>6. /\ n \in CallType /\ n.todo = c.todo /\ n.op = c.op /\ n.val = c.val /\ n.err = c.err
            /\ n.absent = c.absent /\ n.stale = c.stale /\ n.served = c.served
        BY <3>1 DEF CallType
      <3>11. store \in Telling /\ n.err = "notfound" => Excused(n)
        BY <3>4, <3>6 DEF Excused
      <3> HIDE DEF n
      <3>7. CallsMade'
        <4>1. items \in Seq(Value) /\ lookFailed \in BOOLEAN /\ cache \in [on : BOOLEAN, old : BOOLEAN] /\ flight \in FlightType
          BY <3>1 DEF CallsMade
        <4> QED BY <2>1, <3>1, <3>2, <3>6, <4>1, CallStep
      <3>8. StoreInv'
        BY <2>1, <3>1, <3>2, <3>5, <3>6, StoreKeeps DEF c
      <3>9. AbsentInv'
        BY <2>1, <3>1, <3>2, <3>3, <3>4, <3>5, <3>6, <3>11, AbsentKeeps
      <3>10. BytesInv'
        BY <2>1, <3>1, <3>2, <3>4, <3>5, <3>6, BytesKeeps DEF c
      <3> QED BY <3>7, <3>8, <3>9, <3>10 DEF RemoteInv
    <2> QED BY <1>3, <2>2, <2>3 DEF Rejected
  <1>4. CASE List(g)
    <2>1. Busy(g) /\ Head(call[g].todo) = "list" /\ UNCHANGED <<store, items, bytes, same, cache, flight, lookFailed>>
      BY <1>4 DEF List, Send, At, mem
    <2>2. CASE Go(g, call[g])
      BY <2>1, <2>2, Passes DEF Writing, Replacing
    <2>3. ASSUME NEW e \in {"locked", "failed"}, Go(g, Fail(g, e)) PROVE RemoteInv'
      <3>1. e \in Report \ {"ok", "notfound"}
        BY DEF Report
      <3> QED BY <2>1, <2>3, <3>1, Fails
    <2> QED BY <1>4, <2>2, <2>3 DEF List
  <1>5. CASE Verify(g)
    <2>1. Busy(g) /\ Head(call[g].todo) = "verify" /\ UNCHANGED <<store, items, bytes, same, cache, flight, lookFailed>>
          /\ (Go(g, call[g]) \/ Go(g, Fail(g, "failed")))
      BY <1>5 DEF Verify, At, mem
    <2>2. CASE Go(g, call[g])
      BY <2>1, <2>2, Passes DEF Writing, Replacing
    <2>3. CASE Go(g, Fail(g, "failed"))
      BY <1>0, <2>1, <2>3, Fails
    <2> QED BY <2>1, <2>2, <2>3
  <1> QED BY <1>1, <1>2, <1>3, <1>4, <1>5

\* The lookup of an item: a Set of bw or op that could not look says so.
LEMMA RemoteLooks ==
    ASSUME RemoteInv, NEW g \in Caller, Look(g)
    PROVE  RemoteInv'
  <1> DEFINE c == call[g]
  <1>1. Busy(g) /\ Head(c.todo) = "look" /\ UNCHANGED <<store, items, bytes, same, cache, flight>>
    BY DEF Look, Send, At, mem
  <1>2. PICK a \in Answers :
          /\ \E d \in IF a.err = "ok" THEN {[c EXCEPT !.found = TRUE]} ELSE LookFails(g, a.err) : Go(g, d)
          /\ lookFailed' = (lookFailed \/ (c.op = "set" /\ a.err \in {"locked", "failed"} /\ store \in {"bw", "op"}))
    BY DEF Look
  <1>3. /\ CallsMade /\ StoreInv /\ AbsentInv /\ BytesInv /\ c \in CallType /\ Made(store, c.todo, c.op) /\ c.todo # <<>>
        /\ (g # Writer => c.op \in {"none", "get"}) /\ (c.op = "set" => c.val \in Secret)
    BY <1>1, Standing DEF RemoteInv, Busy
  <1>4. /\ a.val \in Value /\ a.err \in {"ok", "absent", "locked", "failed"} /\ (a.err = "absent" => Absent(items))
        /\ store \in Unique /\ a.err = "absent" => items = <<>>
    BY <1>3, Answered
  <1>5. ASSUME a.err # "ok", NEW e \in Errors(store, c.op)[a.err], Go(g, Fail(g, e)), lookFailed' = lookFailed
        PROVE  RemoteInv'
    <2>2. /\ e \in Report
          /\ store \in Telling /\ e = "notfound" => a.err = "absent"
          /\ e = "ok" => c.op = "delete"
      BY <1>4, <1>5, ErrorsOf
    <2>3. Absent(items) => c.absent
      BY <1>1, Known
    <2> QED BY <1>1, <1>4, <1>5, <2>2, <2>3, Fails
  <1>6. ASSUME NEW f \in BOOLEAN, Go(g, [c EXCEPT !.found = f]),
               f = FALSE /\ store \in Unique /\ ~lookFailed' => items = <<>>
        PROVE  RemoteInv'
    <2> DEFINE n == [c EXCEPT !.found = f, !.todo = Tail(c.todo)]
               t == Tail(c.todo)
    <2>1. t \in Seq(Instr) /\ Made(store, t, c.op) /\ Head(c.todo) = c.todo[1]
      BY <1>3, Tails
    <2>2. call' = [call EXCEPT ![g] = n]
      <3>1. [[c EXCEPT !.found = f] EXCEPT !.todo = Tail(@)] = n
        BY <1>3 DEF CallType
      <3> QED BY <1>6, <3>1 DEF Go
    <2>3. /\ t # <<>> => Head(t) \notin {"await", "select", "copy"}
          /\ Pending(c.todo) <=> Pending(t)
          /\ Ahead(c.todo, "evict") <=> Ahead(t, "evict")
      BY <1>1, <1>3, <2>1, Heads DEF Writing, Replacing
    <2>4. (store \in Telling /\ c.err = "notfound" => Excused(c)) /\ ~At(g, "copy") /\ ~At(g, "evict")
      BY <1>1, <1>3 DEF AbsentInv, At
    <2>5. Absent(items) => c.absent
      BY <1>1, Known
    <2>6. (lookFailed => lookFailed') /\ lookFailed' \in BOOLEAN
      BY <1>2, <1>3 DEF CallsMade
    <2>7. c = call[g] /\ Busy(g)
      BY <1>1
    <2> HIDE DEF c, t
    <2>8. /\ n \in CallType /\ n.todo = t /\ n.op = c.op /\ n.val = c.val /\ n.err = c.err
          /\ n.absent = c.absent /\ n.stale = c.stale /\ n.served = c.served /\ n.found = f
      BY <1>3, <2>1 DEF CallType, t
    <2>13. store \in Telling /\ n.err = "notfound" => Excused(n)
      BY <2>4, <2>8 DEF Excused
    <2> HIDE DEF n
    <2>9. CallsMade' /\ call'[g] = n /\ \A h \in Caller \ {g} : call'[h] = call[h]
      <3>1. items \in Seq(Value) /\ cache \in [on : BOOLEAN, old : BOOLEAN] /\ flight \in FlightType
        BY <1>3 DEF CallsMade
      <3> QED BY <1>1, <1>3, <2>1, <2>2, <2>6, <2>8, <3>1, CallStep
    <2>10. StoreInv'
      <3>1. OneItem'
        BY <1>1, <1>3, <2>6 DEF StoreInv, OneItem
      <3>2. store' \in Unique /\ At(Writer, "write")' /\ ~call'[Writer].found /\ ~lookFailed' => items' = <<>>
        <4>1. CASE g = Writer
          BY <1>1, <1>6, <2>8, <2>9, <4>1
        <4>2. CASE g # Writer
          BY <1>1, <1>3, <2>6, <2>9, <4>2, RemoteAssumption DEF At, Busy, StoreInv
        <4> QED BY <4>1, <4>2
      <3>3. store' \in Updating /\ ~lookFailed' /\ call'[Writer].op = "set" /\ call'[Writer].err = "ok"
               /\ ~Pending(call'[Writer].todo) => items' = <<call'[Writer].val>>
        <4>1. CASE g = Writer
          BY <1>1, <1>3, <2>3, <2>6, <2>7, <2>8, <2>9, <4>1 DEF StoreInv
        <4>2. CASE g # Writer
          BY <1>1, <1>3, <2>6, <2>9, <4>2, RemoteAssumption DEF StoreInv
        <4> QED BY <4>1, <4>2
      <3> QED BY <3>1, <3>2, <3>3 DEF StoreInv
    <2>11. AbsentInv'
      BY <1>1, <1>3, <2>2, <2>3, <2>5, <2>8, <2>13, AbsentKeeps
    <2>12. BytesInv'
      BY <1>1, <1>3, <2>2, <2>3, <2>4, <2>7, <2>8, BytesKeeps
    <2> QED BY <2>9, <2>10, <2>11, <2>12 DEF RemoteInv
  <1>7. CASE a.err = "ok"
    <2>1. Go(g, [c EXCEPT !.found = TRUE])
      BY <1>2, <1>7
    <2> QED BY <1>6, <2>1
  <1>8. CASE a.err # "ok" /\ LookFails(g, a.err) = {[c EXCEPT !.found = FALSE]} /\ (store \in Unique => c.op = "set")
    <2>1. store \in Unique /\ ~lookFailed' => items = <<>>
      BY <1>2, <1>4, <1>8 DEF Unique
    <2>2. Go(g, [c EXCEPT !.found = FALSE])
      BY <1>2, <1>8
    <2> QED BY <1>6, <2>1, <2>2
  <1>9. \/ LookFails(g, a.err) = {Fail(g, e) : e \in Errors(store, c.op)[a.err]} /\ ~(c.op = "set" /\ store \in {"bw", "op"})
        \/ LookFails(g, a.err) = {[c EXCEPT !.found = FALSE]} /\ (store \in Unique => c.op = "set")
    BY DEF LookFails, Unique
  <1>10. lookFailed \in BOOLEAN
    BY <1>3 DEF CallsMade
  <1>11. CASE a.err # "ok" /\ LookFails(g, a.err) = {Fail(g, e) : e \in Errors(store, c.op)[a.err]}
              /\ ~(c.op = "set" /\ store \in {"bw", "op"})
    <2>1. PICK e \in Errors(store, c.op)[a.err] : Go(g, Fail(g, e))
      BY <1>2, <1>11
    <2>2. lookFailed' = lookFailed
      BY <1>2, <1>10, <1>11
    <2> QED BY <1>5, <1>11, <2>1, <2>2
  <1> QED BY <1>7, <1>8, <1>9, <1>11

\* The bytes are typed, and what the three ways to change them leave.
ByteTypes == bytes \in [Holder -> Value \cup {Wiped}] /\ same \in [Holder -> SUBSET Holder]

\* A holder drops its slice.
LEMMA Released ==
    ASSUME ByteTypes, NEW x \in Holder, NEW wipe \in BOOLEAN, Release(x, wipe)
    PROVE  /\ ByteTypes' /\ Apart(x)' /\ bytes'[x] = None
           /\ \A h \in Holder : Apart(h) => Apart(h)'
           /\ \A h \in Holder \ {x} : bytes'[h] = bytes[h] \/ (wipe /\ h \in same[x] /\ bytes'[h] = Wiped)
  <1>1. /\ bytes' = [h \in Holder |-> IF h = x THEN None
                                     ELSE IF wipe /\ h \in same[x] /\ bytes[x] # None THEN Wiped ELSE bytes[h]]
        /\ same' = [h \in Holder |-> IF h = x THEN {x} ELSE same[h] \ {x}]
    BY DEF Release
  <1>2. bytes' \in [Holder -> Value \cup {Wiped}]
    BY <1>1 DEF ByteTypes, Value
  <1>3. same' \in [Holder -> SUBSET Holder]
    BY <1>1 DEF ByteTypes
  <1>4. Apart(x)'
    BY <1>1 DEF Apart
  <1>5. ASSUME NEW h \in Holder, Apart(h) PROVE Apart(h)'
    <2>1. same'[h] = {h}
      BY <1>1, <1>5 DEF Apart
    <2>2. \A k \in Holder \ {h} : h \notin same'[k]
      BY <1>1, <1>5 DEF Apart
    <2> QED BY <2>1, <2>2 DEF Apart
  <1> QED BY <1>1, <1>2, <1>3, <1>4, <1>5 DEF ByteTypes

\* Holders are given one new slice.
LEMMA Sliced ==
    ASSUME ByteTypes, NEW xs \in SUBSET Holder, NEW v \in Value \cup {Wiped}, NewSlice(xs, v)
    PROVE  /\ ByteTypes' /\ (\A h \in xs : bytes'[h] = v) /\ \A h \in Holder \ xs : bytes'[h] = bytes[h]
           /\ \A h \in Holder \ xs : Apart(h) => Apart(h)'
           /\ \A h \in Holder : xs = {h} => Apart(h)'
  <1>1. /\ bytes' = [h \in Holder |-> IF h \in xs THEN v ELSE bytes[h]]
        /\ same' = [h \in Holder |-> IF h \in xs THEN xs ELSE same[h] \ xs]
    BY DEF NewSlice
  <1>2. bytes' \in [Holder -> Value \cup {Wiped}] /\ same' \in [Holder -> SUBSET Holder]
    BY <1>1 DEF ByteTypes
  <1>3. ASSUME NEW h \in Holder \ xs, Apart(h) PROVE Apart(h)'
    <2>1. same'[h] = {h}
      BY <1>1, <1>3 DEF Apart
    <2>2. \A k \in Holder \ {h} : h \notin same'[k]
      BY <1>1, <1>3 DEF Apart
    <2> QED BY <2>1, <2>2 DEF Apart
  <1>4. ASSUME NEW h \in Holder, xs = {h} PROVE Apart(h)'
    BY <1>1, <1>4 DEF Apart
  <1> QED BY <1>1, <1>2, <1>3, <1>4 DEF ByteTypes

\* A holder refers to another's slice.
LEMMA Aliased ==
    ASSUME ByteTypes, NEW x \in Holder, NEW y \in Holder \ {x}, Alias(x, y)
    PROVE  /\ ByteTypes' /\ bytes'[x] = bytes[y] /\ \A h \in Holder \ {x} : bytes'[h] = bytes[h]
           /\ \A h \in Holder \ {x, y} : Apart(h) => Apart(h)'
  <1> DEFINE all == same[y] \cup {x}
  <1>1. /\ bytes' = [bytes EXCEPT ![x] = bytes[y]]
        /\ same' = [h \in Holder |-> IF h \in all THEN all ELSE same[h] \ {x}]
    BY DEF Alias
  <1>2. all \in SUBSET Holder
    BY DEF ByteTypes
  <1>3. bytes' \in [Holder -> Value \cup {Wiped}] /\ same' \in [Holder -> SUBSET Holder]
    BY <1>1, <1>2 DEF ByteTypes
  <1>4. ASSUME NEW h \in Holder \ {x, y}, Apart(h) PROVE Apart(h)'
    <2>1. h \notin all
      BY <1>4 DEF Apart
    <2> HIDE DEF all
    <2>2. same'[h] = {h}
      BY <1>1, <1>4, <2>1 DEF Apart
    <2>3. \A k \in Holder \ {h} : h \notin same'[k]
      BY <1>1, <1>4, <2>1 DEF Apart
    <2> QED BY <2>2, <2>3 DEF Apart
  <1> QED BY <1>1, <1>3, <1>4 DEF ByteTypes

\* A step of one caller that changes bytes, but not the cache's.
LEMMA BytesStep ==
    ASSUME CallsMade, BytesInv, NEW g \in Caller, NEW n, call' = [call EXCEPT ![g] = n],
           store' = store, items' = items, cache' = cache, flight' = flight,
           ByteTypes', ~At(g, "evict"),
           store \in Unique => bytes'["cache"] = bytes["cache"],
           store \in Sole => \A h \in Caller \ {g} : Apart(h) => Apart(h)',
           store \in Sole => (n.todo # <<>> /\ Head(n.todo) = "copy") \/ Apart(g)',
           store \in Sole \ {"bw"} => (\A h \in Holder : bytes'[h] # Wiped) /\ n.served # Wiped,
           \A h \in Caller \ {g} : bytes'[h] = None => bytes[h] = None,
           store \in Unique /\ n.todo # <<>> /\ Head(n.todo) = "copy" /\ bytes'[g] = None => Excused(n),
           store \in Unique /\ n.todo # <<>> /\ n.op = "delete" /\ ~Ahead(n.todo, "evict") =>
              Busy(g) /\ call[g].op = "delete" /\ ~Ahead(call[g].todo, "evict")
    PROVE  BytesInv'
  <1>1. call'[g] = n /\ \A h \in Caller \ {g} : call'[h] = call[h]
    BY DEF CallsMade
  <1>2. ASSUME store \in Sole, NEW h \in Caller, ~At(h, "copy")' PROVE Apart(h)'
    <2>1. CASE h = g
      BY <1>1, <1>2, <2>1 DEF At, Busy
    <2>2. CASE h # g
      <3>1. ~At(h, "copy")
        BY <1>1, <1>2, <2>2 DEF At, Busy
      <3> QED BY <1>2, <2>2, <3>1 DEF BytesInv
    <2> QED BY <2>1, <2>2
  <1>3. store \in Sole \ {"bw"} => (\A h \in Holder : bytes'[h] # Wiped) /\ \A h \in Caller : call'[h].served # Wiped
    BY <1>1 DEF BytesInv
  <1>4. store \in Unique => Fresh' = Fresh
    BY DEF Fresh
  <1>5. Dirty => Dirty'
    BY <1>1, RemoteAssumption DEF Dirty, At, Busy, Ahead
  <1>6. store \in Unique /\ Busy(Writer)' /\ call'[Writer].op = "delete" /\ ~Ahead(call'[Writer].todo, "evict")
          => (cache.on => cache.old)
    <2>1. CASE g = Writer
      BY <1>1, <2>1 DEF BytesInv, Busy
    <2>2. CASE g # Writer
      BY <1>1, <2>2, RemoteAssumption DEF BytesInv, Busy
    <2> QED BY <2>1, <2>2
  <1>7. store \in Unique => \A h \in Caller : Bare(h)'
    <2> SUFFICES ASSUME store \in Unique, NEW h \in Caller, At(h, "copy")', bytes'[h] = None PROVE Excused(call'[h])
      BY DEF Bare, Excused
    <2>1. CASE h = g
      BY <1>1, <2>1 DEF At, Busy
    <2>2. CASE h # g
      <3>1. At(h, "copy") /\ bytes[h] = None /\ call'[h] = call[h]
        BY <1>1, <2>2 DEF At, Busy
      <3> QED BY <3>1 DEF BytesInv, Bare
    <2> QED BY <2>1, <2>2
  <1> QED BY <1>2, <1>3, <1>4, <1>5, <1>6, <1>7 DEF BytesInv, ByteTypes

\* The cache drops its item; only bw overwrites the bytes.
LEMMA Dropped ==
    ASSUME CallsMade, BytesInv, NEW wipe \in BOOLEAN, Release("cache", wipe), wipe => store = "bw",
           store' = store, items' = items, flight' = flight, cache' = [on |-> FALSE, old |-> FALSE],
           \A h \in Caller : (At(h, "copy") <=> At(h, "copy")') /\ call'[h].served = call[h].served
                             /\ call'[h].absent = call[h].absent /\ call'[h].stale = call[h].stale
    PROVE  BytesInv'
  <1>1. "cache" \in Holder /\ ByteTypes /\ Caller \subseteq Holder
    BY DEF Holder, BytesInv, ByteTypes
  <1>2. /\ ByteTypes' /\ bytes'["cache"] = None /\ (\A h \in Holder : Apart(h) => Apart(h)')
        /\ \A h \in Holder \ {"cache"} : bytes'[h] = bytes[h] \/ (wipe /\ bytes'[h] = Wiped)
    BY <1>1, Released
  <1>3. ASSUME store \in Sole, NEW h \in Caller, ~At(h, "copy")' PROVE Apart(h)'
    BY <1>1, <1>2, <1>3 DEF BytesInv
  <1>4. store \in Sole \ {"bw"} => (\A h \in Holder : bytes'[h] # Wiped) /\ \A h \in Caller : call'[h].served # Wiped
    BY <1>2, RemoteAssumption DEF BytesInv
  <1>5. Fresh' /\ cache'.on = FALSE
    BY DEF Fresh
  <1>6. store \in Unique /\ flight.read /\ flight.err = "ok" /\ ~flight.late => items = <<flight.res>>
    BY DEF BytesInv
  <1>7. ASSUME store \in Unique, NEW h \in Caller PROVE Bare(h)'
    <2> SUFFICES ASSUME At(h, "copy")', bytes'[h] = None PROVE Excused(call'[h])
      BY DEF Bare, Excused
    <2>1. At(h, "copy") /\ bytes[h] = None
      BY <1>1, <1>2, RemoteAssumption DEF Holder, Value
    <2>2. Excused(call[h])
      BY <1>7, <2>1 DEF BytesInv, Bare
    <2> QED BY <2>2 DEF Excused
  <1> QED BY <1>2, <1>3, <1>4, <1>5, <1>6, <1>7 DEF BytesInv, ByteTypes

\* The cache's item expires, or the process forgets the backend.
LEMMA RemoteForgets ==
    ASSUME RemoteInv, ClearCached \/ Expire
    PROVE  RemoteInv'
  <1>1. /\ UNCHANGED <<store, items, flight, call, lookFailed>> /\ cache' = [on |-> FALSE, old |-> FALSE]
        /\ Release("cache", FALSE) \/ Release("cache", store = "bw")
    BY DEF ClearCached, Expire
  <1>2. CallsMade /\ BytesInv
    BY DEF RemoteInv
  <1>3. \A h \in Caller : (At(h, "copy") <=> At(h, "copy")') /\ call'[h].served = call[h].served
                          /\ call'[h].absent = call[h].absent /\ call'[h].stale = call[h].stale
    BY <1>1 DEF At, Busy
  <1>4. BytesInv'
    BY <1>1, <1>2, <1>3, Dropped
  <1>5. CallsMade' /\ StoreInv' /\ AbsentInv'
    BY <1>1 DEF RemoteInv, CallsMade, StoreInv, AbsentInv, OneItem, At, Busy, Absent, Missed, Excused
  <1> QED BY <1>4, <1>5 DEF RemoteInv

\* Set and Delete drop the cache's item.
LEMMA RemoteEvicts ==
    ASSUME RemoteInv, NEW g \in Caller, Evict(g)
    PROVE  RemoteInv'
  <1>1. /\ Busy(g) /\ Head(call[g].todo) = "evict" /\ Go(g, call[g]) /\ Release("cache", store = "bw")
        /\ UNCHANGED <<store, items, flight, lookFailed>> /\ cache' = [on |-> FALSE, old |-> FALSE]
    BY DEF Evict, At
  <1>2. CallsMade /\ BytesInv /\ cache' \in [on : BOOLEAN, old : BOOLEAN]
    BY <1>1 DEF RemoteInv
  <1>3. PICK n \in CallType :
              /\ call' = [call EXCEPT ![g] = n] /\ n.todo = Tail(call[g].todo) /\ n.op = call[g].op /\ n.val = call[g].val
              /\ n.err = call[g].err /\ n.absent = call[g].absent /\ n.stale = call[g].stale /\ n.served = call[g].served
    BY <1>1, Onward
  <1>4. CallsMade' /\ StoreInv' /\ AbsentInv'
    BY <1>1, <1>2, <1>3, Pops DEF Writing, Replacing
  <1>5. call'[g] = n /\ \A h \in Caller \ {g} : call'[h] = call[h]
    BY <1>2, <1>3 DEF CallsMade
  <1>8. n.todo = <<>> \/ Head(n.todo) # "copy"
    <2>1. Made(store, call[g].todo, call[g].op) /\ call[g].todo # <<>>
      BY <1>1, <1>2, Standing DEF Busy
    <2>2. Head(call[g].todo) = call[g].todo[1]
      BY <2>1, Tails
    <2> QED BY <1>1, <1>3, <2>1, <2>2, Heads
  <1>6. \A h \in Caller : (At(h, "copy") <=> At(h, "copy")') /\ call'[h].served = call[h].served
                          /\ call'[h].absent = call[h].absent /\ call'[h].stale = call[h].stale
    BY <1>1, <1>3, <1>5, <1>8 DEF At, Busy
  <1>7. BytesInv'
    BY <1>1, <1>2, <1>6, Dropped
  <1> QED BY <1>4, <1>7 DEF RemoteInv

\* A caller whose bytes are its own, unless it has still to copy them.
LEMMA Alone ==
    ASSUME BytesInv, NEW g \in Caller, ~At(g, "copy"), store \in Sole
    PROVE  Apart(g) /\ same[g] = {g}
  BY DEF BytesInv, Apart

\* A caller gives its bytes up, overwriting them: nobody else's are overwritten.
LEMMA Wipes ==
    ASSUME RemoteInv, NEW g \in Caller, ~At(g, "copy"), Release(g, TRUE)
    PROVE  /\ ByteTypes' /\ (store \in Sole => bytes'["cache"] = bytes["cache"])
           /\ store \in Sole => (\A h \in Caller \ {g} : Apart(h) => Apart(h)') /\ Apart(g)'
           /\ store \in Sole \ {"bw"} => \A h \in Holder : bytes'[h] # Wiped
           /\ \A h \in Caller \ {g} : bytes'[h] = None => bytes[h] = None
  <1>1. g \in Holder /\ "cache" \in Holder \ {g} /\ Caller \subseteq Holder /\ ByteTypes /\ BytesInv
    BY RemoteAssumption DEF Holder, RemoteInv, BytesInv, ByteTypes
  <1>2. /\ ByteTypes' /\ Apart(g)' /\ bytes'[g] = None
        /\ \A h \in Holder : Apart(h) => Apart(h)'
        /\ \A h \in Holder \ {g} : bytes'[h] = bytes[h] \/ (h \in same[g] /\ bytes'[h] = Wiped)
    BY <1>1, Released
  <1>5. \A h \in Caller \ {g} : bytes'[h] = None => bytes[h] = None
    BY <1>1, <1>2, RemoteAssumption
  <1>3. store \in Sole => \A h \in Holder \ {g} : bytes'[h] = bytes[h]
    BY <1>1, <1>2, Alone
  <1>4. store \in Sole \ {"bw"} => \A h \in Holder : bytes'[h] # Wiped
    BY <1>1, <1>2, <1>3, RemoteAssumption DEF BytesInv
  <1> QED BY <1>1, <1>2, <1>3, <1>4, <1>5

\* The event is written, or the result refused and the bytes cleared.
LEMMA RemoteEmits ==
    ASSUME RemoteInv, NEW g \in Caller, Emit(g)
    PROVE  RemoteInv'
  <1> DEFINE c == call[g]
  <1>1. Busy(g) /\ Head(c.todo) = "emit" /\ UNCHANGED <<store, items, cache, flight, lookFailed>>
    BY DEF Emit, At
  <1>2. CASE Go(g, c) /\ UNCHANGED mem
    BY <1>1, <1>2, Passes DEF mem, Writing, Replacing
  <1>3. CASE Go(g, EmitFails(g)) /\ Release(g, TRUE)
    <2>1. /\ CallsMade /\ BytesInv /\ c \in CallType /\ Made(store, c.todo, c.op) /\ c.todo # <<>>
          /\ cache' \in [on : BOOLEAN, old : BOOLEAN]
      BY <1>1, Standing DEF RemoteInv, Busy, CallsMade
    <2>2. Tail(c.todo) \in Seq(Instr) /\ Head(c.todo) = c.todo[1]
      <3>1. Made(store, c.todo, c.op) /\ c.todo # <<>>
        BY <2>1
      <3> QED BY <3>1, Tails
    <2>3. Ahead(c.todo, "evict") <=> Ahead(Tail(c.todo), "evict")
      BY <1>1, <2>1, <2>2, Heads
    <2>4. PICK e \in Report : (e = c.err \/ e = "audit") /\ call' = [call EXCEPT ![g] = [c EXCEPT !.err = e, !.todo = Tail(c.todo)]]
      <3>1. c.err \in Report /\ "audit" \in Report
        BY <2>1 DEF CallType, Report
      <3>2. CASE EmitFails(g) = [c EXCEPT !.err = "audit"]
        <4>1. [[c EXCEPT !.err = "audit"] EXCEPT !.todo = Tail(@)] = [c EXCEPT !.err = "audit", !.todo = Tail(c.todo)]
          BY <2>1 DEF CallType
        <4> QED BY <1>3, <3>1, <3>2, <4>1 DEF Go
      <3>3. CASE EmitFails(g) = c
        <4>1. [c EXCEPT !.todo = Tail(@)] = [c EXCEPT !.err = c.err, !.todo = Tail(c.todo)]
          BY <2>1 DEF CallType
        <4> QED BY <1>3, <3>1, <3>3, <4>1 DEF Go
      <3> QED BY <3>2, <3>3 DEF EmitFails
    <2> DEFINE n == [c EXCEPT !.err = e, !.todo = Tail(c.todo)]
    <2>5. /\ n \in CallType /\ n.todo = Tail(c.todo) /\ n.op = c.op /\ n.val = c.val /\ n.err = e
          /\ n.absent = c.absent /\ n.stale = c.stale /\ n.served = c.served
      <3> DEFINE t == Tail(c.todo)
      <3>1. c \in CallType /\ t \in Seq(Instr)
        BY <2>1, <2>2
      <3> HIDE DEF c, t
      <3>2. [c EXCEPT !.err = e, !.todo = t] \in CallType
        BY <3>1 DEF CallType
      <3>3. LET m == [c EXCEPT !.err = e, !.todo = t]
            IN  /\ m.todo = t /\ m.op = c.op /\ m.val = c.val /\ m.err = e /\ m.absent = c.absent
                /\ m.stale = c.stale /\ m.served = c.served
        BY <3>1 DEF CallType
      <3> QED BY <3>2, <3>3 DEF t
    <2>6. call' = [call EXCEPT ![g] = n]
      BY <2>4
    <2> HIDE DEF n
    <2>7. CallsMade' /\ StoreInv' /\ AbsentInv'
      BY <1>1, <2>1, <2>4, <2>5, <2>6, Pops DEF Writing, Replacing
    <2>8. /\ ~At(g, "copy") /\ ~At(g, "evict") /\ (store \in Sole \ {"bw"} => c.served # Wiped) /\ Unique \subseteq Sole
          /\ ~(n.todo # <<>> /\ Head(n.todo) = "copy")
      <3>1. ~(n.todo # <<>> /\ Head(n.todo) = "copy")
        BY <1>1, <2>1, <2>2, <2>5, Heads
      <3> QED BY <1>1, <2>1, <3>1 DEF At, BytesInv, Sole
    <2>9. BytesInv'
      BY <1>1, <1>3, <2>1, <2>3, <2>5, <2>6, <2>8, Wipes, BytesStep
    <2> QED BY <2>7, <2>9 DEF RemoteInv
  <1> QED BY <1>2, <1>3 DEF Emit

\* The caller takes the result.
LEMMA RemoteUses ==
    ASSUME RemoteInv, NEW g \in Caller, Use(g)
    PROVE  RemoteInv'
  <1> DEFINE c == call[g]
             n == IF c.err # "ok" THEN [Ended(c.err) EXCEPT !.absent = c.absent /\ c.err = "notfound",
                                                               !.stale = c.stale /\ c.err = "notfound"]
                  ELSE IF c.op = "get" THEN [Ended("ok") EXCEPT !.served = bytes[g]]
                  ELSE IF c.op = "set" THEN [Ended("ok") EXCEPT !.op = "set", !.val = c.val]
                  ELSE Ended("ok")
  <1>1. /\ Busy(g) /\ Head(c.todo) = "use" /\ UNCHANGED <<store, items, cache, flight, lookFailed>> /\ Release(g, TRUE)
        /\ call' = [call EXCEPT ![g] = n]
    BY DEF Use, At
  <1>2. /\ CallsMade /\ StoreInv /\ AbsentInv /\ BytesInv /\ c \in CallType /\ Made(store, c.todo, c.op) /\ c.todo # <<>>
        /\ (g # Writer => c.op \in {"none", "get"}) /\ (c.op = "set" => c.val \in Secret)
    BY <1>1, Standing DEF RemoteInv, Busy
  <1>3. Head(c.todo) = c.todo[1] /\ Tail(c.todo) = <<>> /\ (Pending(c.todo) <=> Pending(<<>>)) /\ ~Pending(<<>>)
    <2>1. Made(store, c.todo, c.op) /\ c.todo # <<>>
      BY <1>2
    <2>2. Head(c.todo) = c.todo[1]
      BY <2>1, Tails
    <2>3. "use" \notin Writing
      BY DEF Writing, Replacing
    <2>4. Tail(c.todo) = <<>> /\ (Pending(c.todo) <=> Pending(Tail(c.todo)))
      BY <1>1, <2>1, <2>2, <2>3, Heads
    <2> QED BY <2>2, <2>4, Overs
  <1>4. store \in Telling /\ c.err = "notfound" => c.absent \/ c.stale
    BY <1>2 DEF AbsentInv, Excused
  <1>5. bytes[g] \in Value \cup {Wiped} /\ (store \in Sole \ {"bw"} => bytes[g] # Wiped)
    BY <1>2 DEF BytesInv, Holder
  <1>6. n \in CallType /\ n.todo = <<>> /\ (n.op = "none" \/ (n.op = "set" /\ c.op = "set" /\ c.err = "ok" /\ n.val = c.val))
    <2>1. /\ Idle \in CallType /\ Idle.todo = <<>> /\ Idle.op = "none" /\ Idle.absent \in BOOLEAN
          /\ c.absent \in BOOLEAN /\ c.stale \in BOOLEAN /\ c.val \in Value /\ c.err \in Report
      BY <1>2 DEF CallType, Idle, Value, Report
    <2>2. {"ok", "failed", "notfound"} \subseteq Report
      BY DEF Report
    <2>3. \A e : Ended(e) \in CallType /\ Ended(e).todo = <<>> /\ Ended(e).op = "none"
      BY <2>1, <2>2 DEF Ended, CallType
    <2> HIDE DEF c
    <2>4. CASE c.err # "ok"
      BY <2>1, <2>3, <2>4 DEF CallType
    <2>5. CASE c.err = "ok" /\ c.op = "get"
      BY <1>5, <2>1, <2>3, <2>5 DEF CallType
    <2>6. CASE c.err = "ok" /\ c.op = "set"
      BY <2>1, <2>3, <2>6 DEF CallType
    <2>7. CASE c.err = "ok" /\ c.op \notin {"get", "set"}
      BY <2>3, <2>7
    <2> QED BY <2>4, <2>5, <2>6, <2>7
  <1>7. (store \in Telling /\ n.err = "notfound" => Excused(n)) /\ (n.served = None \/ n.served = bytes[g])
    BY <1>2, <1>4 DEF Ended, Idle, CallType, Excused
  <1>8. Made(store, <<>>, n.op)
    BY Overs
  <1>9. ~At(g, "copy") /\ ~At(g, "evict") /\ None # Wiped /\ Unique \subseteq Sole
    BY <1>1, RemoteAssumption DEF At, Sole
  <1>15. c = call[g]
    OBVIOUS
  <1> HIDE DEF n, c
  <1>10. CallsMade'
    <2>1. items \in Seq(Value) /\ lookFailed \in BOOLEAN /\ cache \in [on : BOOLEAN, old : BOOLEAN] /\ flight \in FlightType
      BY <1>2 DEF CallsMade
    <2> QED BY <1>1, <1>2, <1>6, <1>8, <2>1, CallStep
  <1>11. StoreInv'
    BY <1>1, <1>2, <1>3, <1>6, <1>15, StoreKeeps
  <1>12. AbsentInv'
    BY <1>1, <1>2, <1>6, <1>7, AbsentKeeps
  <1>13. BytesInv'
    BY <1>1, <1>2, <1>5, <1>6, <1>7, <1>9, Wipes, BytesStep
  <1> QED BY <1>10, <1>11, <1>12, <1>13 DEF RemoteInv

\* The item of bw or op that a caller was given lacks the field.
LEMMA Fieldless ==
    ASSUME RemoteInv, NEW g \in Caller, Copy(g), bytes[g] = None
    PROVE  RemoteInv'
  <1> DEFINE c == call[g]
             over == <<"emit", "use">>
             n == [c EXCEPT !.err = "notfound", !.todo = over]
  <1>1. /\ Busy(g) /\ Head(c.todo) = "copy" /\ UNCHANGED <<store, items, cache, flight, lookFailed>>
        /\ Release(g, FALSE) /\ Go(g, Fail(g, "notfound"))
    BY DEF Copy, At
  <1>2. /\ CallsMade /\ StoreInv /\ AbsentInv /\ BytesInv /\ ByteTypes /\ c \in CallType
        /\ Made(store, c.todo, c.op) /\ c.todo # <<>>
        /\ (g # Writer => c.op \in {"none", "get"}) /\ (c.op = "set" => c.val \in Secret)
    BY <1>1, Standing DEF RemoteInv, Busy, BytesInv, ByteTypes
  <1>3. /\ Tail(<<"fail", "emit", "use">>) = over /\ Made(store, over, c.op) /\ over \in Seq(Instr) /\ ~Pending(over)
        /\ Head(over) = "emit" /\ over # <<>>
    BY Overs
  <1>4. Head(c.todo) = c.todo[1] /\ 1 \in 1 .. Len(c.todo)
    BY <1>2, Tails
  <1>5. call' = [call EXCEPT ![g] = n]
    <2>1. [Fail(g, "notfound") EXCEPT !.todo = Tail(@)] = n
      BY <1>2, <1>3 DEF Fail, CallType
    <2> QED BY <1>1, <2>1 DEF Go
  <1>6. store \in Unique
    <2>1. Shaped(store, c.todo, c.op, 1)
      BY <1>2, <1>4 DEF Made
    <2> QED BY <1>1, <1>4, <2>1 DEF Shaped
  <1>7. Excused(c) /\ (store \in Sole \ {"bw"} => c.served # Wiped)
    BY <1>1, <1>2, <1>6 DEF BytesInv, Bare, At
  <1>8. c.op = "delete" => ~Ahead(c.todo, "evict")
    BY <1>1, <1>2, <1>4, Heads
  <1>9. ~At(g, "evict") /\ c = call[g] /\ Busy(g)
    BY <1>1 DEF At
  <1> HIDE DEF over, c
  <1>10. /\ n \in CallType /\ n.todo = over /\ n.op = c.op /\ n.val = c.val /\ n.err = "notfound"
         /\ n.absent = c.absent /\ n.stale = c.stale /\ n.served = c.served
    <2>1. n \in CallType
      BY <1>2, <1>3 DEF CallType, Report
    <2> QED BY <1>2, <1>3, <2>1 DEF CallType
  <1>11. Excused(n)
    BY <1>7, <1>10 DEF Excused
  <1> HIDE DEF n
  <1>12. CallsMade'
    <2>1. items \in Seq(Value) /\ lookFailed \in BOOLEAN /\ cache \in [on : BOOLEAN, old : BOOLEAN] /\ flight \in FlightType
      BY <1>2 DEF CallsMade
    <2> QED BY <1>1, <1>2, <1>3, <1>5, <1>10, <2>1, CallStep
  <1>13. StoreInv'
    BY <1>1, <1>2, <1>3, <1>5, <1>10, StoreKeeps
  <1>14. AbsentInv'
    BY <1>1, <1>2, <1>3, <1>5, <1>10, <1>11, AbsentKeeps
  <1>15. BytesInv'
    <2>1. g \in Holder /\ "cache" \in Holder \ {g} /\ Caller \subseteq Holder /\ FALSE \in BOOLEAN
      BY RemoteAssumption DEF Holder
    <2>2. /\ ByteTypes' /\ Apart(g)' /\ bytes'[g] = None /\ (\A h \in Holder : Apart(h) => Apart(h)')
          /\ \A h \in Holder \ {g} : bytes'[h] = bytes[h]
      BY <1>1, <1>2, <2>1, Released
    <2>3. store \in Sole \ {"bw"} => \A h \in Holder : bytes'[h] # Wiped
      BY <1>2, <2>1, <2>2, RemoteAssumption DEF BytesInv
    <2>4. store \in Sole
      BY <1>6 DEF Sole
    <2>5. /\ bytes'["cache"] = bytes["cache"] /\ (\A h \in Caller \ {g} : Apart(h) => Apart(h)')
          /\ (\A h \in Caller \ {g} : bytes'[h] = None => bytes[h] = None)
          /\ ~(n.todo # <<>> /\ Head(n.todo) = "copy") /\ (store \in Sole \ {"bw"} => n.served # Wiped)
          /\ (n.op = "delete" /\ ~Ahead(n.todo, "evict") => Busy(g) /\ call[g].op = "delete" /\ ~Ahead(call[g].todo, "evict"))
      BY <1>3, <1>7, <1>8, <1>9, <1>10, <2>1, <2>2
    <2> QED BY <1>1, <1>2, <1>5, <1>9, <2>2, <2>3, <2>4, <2>5, BytesStep
  <1> QED BY <1>12, <1>13, <1>14, <1>15 DEF RemoteInv

\* A caller gets bytes of its own: a copy, or what the service answered.
LEMMA RemoteReads ==
    ASSUME RemoteInv, NEW g \in Caller, Copy(g) \/ Read(g)
    PROVE  RemoteInv'
  <1>1. /\ Busy(g) /\ Head(call[g].todo) \in {"copy", "read"} /\ UNCHANGED <<store, items, cache, flight, lookFailed>>
    BY DEF Copy, Read, Send, At
  <1>2. CallsMade /\ BytesInv /\ ByteTypes /\ cache' \in [on : BOOLEAN, old : BOOLEAN]
    BY <1>1 DEF RemoteInv, CallsMade, BytesInv, ByteTypes
  <1>3. ASSUME NEW v \in Value \cup {Wiped}, NewSlice({g}, v), Go(g, call[g]), store \in Sole \ {"bw"} => v # Wiped
        PROVE  RemoteInv'
    <2>1. PICK n \in CallType :
              /\ call' = [call EXCEPT ![g] = n] /\ n.todo = Tail(call[g].todo) /\ n.op = call[g].op /\ n.val = call[g].val
              /\ n.err = call[g].err /\ n.absent = call[g].absent /\ n.stale = call[g].stale /\ n.served = call[g].served
      BY <1>1, <1>3, Onward
    <2>2. CallsMade' /\ StoreInv' /\ AbsentInv'
      BY <1>1, <1>2, <2>1, Pops DEF Writing, Replacing
    <2>3. Made(store, call[g].todo, call[g].op) /\ call[g].todo # <<>>
      BY <1>1, <1>2, Standing DEF Busy
    <2>4. Head(call[g].todo) = call[g].todo[1]
      BY <2>3, Tails
    <2>5. Ahead(call[g].todo, "evict") <=> Ahead(n.todo, "evict")
      BY <1>1, <2>1, <2>3, <2>4, Heads
    <2>6. {g} \in SUBSET Holder /\ g \in Holder /\ "cache" \in Holder \ {g} /\ Caller \subseteq Holder
      BY RemoteAssumption DEF Holder
    <2>11. ~(n.todo # <<>> /\ Head(n.todo) = "copy")
      BY <1>1, <2>1, <2>3, <2>4, Heads
    <2>7. /\ ByteTypes' /\ bytes'[g] = v /\ (\A h \in Holder \ {g} : bytes'[h] = bytes[h])
          /\ (\A h \in Holder \ {g} : Apart(h) => Apart(h)') /\ Apart(g)'
      <3>1. /\ ByteTypes' /\ (\A h \in {g} : bytes'[h] = v) /\ \A h \in Holder \ {g} : bytes'[h] = bytes[h]
            /\ \A h \in Holder \ {g} : Apart(h) => Apart(h)'
            /\ \A h \in Holder : {g} = {h} => Apart(h)'
        <4> DEFINE xs == {g}
        <4>1. xs \in SUBSET Holder /\ NewSlice(xs, v)
          BY <1>3, <2>6
        <4> HIDE DEF xs
        <4>2. /\ ByteTypes' /\ (\A h \in xs : bytes'[h] = v) /\ \A h \in Holder \ xs : bytes'[h] = bytes[h]
              /\ \A h \in Holder \ xs : Apart(h) => Apart(h)'
              /\ \A h \in Holder : xs = {h} => Apart(h)'
          BY <1>2, <4>1, Sliced
        <4> QED BY <4>2 DEF xs
      <3> QED BY <2>6, <3>1
    <2>8. ~At(g, "evict")
      BY <1>1 DEF At
    <2>9. store \in Sole \ {"bw"} => (\A h \in Holder : bytes'[h] # Wiped) /\ n.served # Wiped
      BY <1>2, <1>3, <2>1, <2>7 DEF BytesInv
    <2>10. BytesInv'
      BY <1>1, <1>2, <2>1, <2>5, <2>6, <2>7, <2>8, <2>9, <2>11, BytesStep
    <2> QED BY <2>2, <2>10 DEF RemoteInv
  <1>4. CASE Copy(g)
    <2>1. bytes[g] \in Value \cup {Wiped} /\ (store \in Sole \ {"bw"} => bytes[g] # Wiped)
      BY <1>2 DEF BytesInv, Holder
    <2>2. CASE bytes[g] # None
      BY <1>3, <1>4, <2>1, <2>2 DEF Copy
    <2>3. CASE bytes[g] = None
      BY <1>4, <2>3, Fieldless
    <2> QED BY <2>2, <2>3
  <1>5. CASE Read(g)
    <2>1. PICK a \in Answers :
            IF a.err = "ok" THEN NewSlice({g}, a.val) /\ Go(g, call[g])
            ELSE UNCHANGED mem /\ \E e \in Errors(store, "get")[a.err] : Go(g, Fail(g, e))
      BY <1>5 DEF Read
    <2>2. a.val \in Value /\ a.err \in {"ok", "absent", "locked", "failed"} /\ (a.err = "absent" => Absent(items))
      BY <1>2, Answered
    <2>3. CASE a.err = "ok"
      BY <1>3, <2>1, <2>2, <2>3, RemoteAssumption DEF Value
    <2>4. CASE a.err # "ok"
      <3>4. PICK e \in Errors(store, "get")[a.err] : Go(g, Fail(g, e))
        BY <2>1, <2>4
      <3>1. /\ e \in Report \ {"ok"}
            /\ store \in Telling /\ e = "notfound" => a.err = "absent"
        BY <2>2, <2>4, <3>4, ErrorsOf
      <3>2. Head(call[g].todo) = "read" /\ UNCHANGED <<bytes, same>>
        BY <1>5, <2>1, <2>4 DEF Read, Send, At, mem
      <3>3. Absent(items) => call[g].absent
        BY <1>1, Known
      <3> QED BY <1>1, <2>2, <2>4, <3>4, <3>1, <3>2, <3>3, Fails
    <2> QED BY <2>3, <2>4
  <1> QED BY <1>4, <1>5

\* A caller takes the cache's bytes, or goes on to fetch the item.
LEMMA RemoteHits ==
    ASSUME RemoteInv, NEW g \in Caller, Hit(g)
    PROVE  RemoteInv'
  <1> DEFINE c == call[g]
  <1>1. Busy(g) /\ Head(c.todo) = "hit" /\ UNCHANGED <<store, items, cache, flight, lookFailed>>
    BY DEF Hit, At
  <1>2. CASE ~cache.on
    BY <1>1, <1>2, Passes DEF Hit, mem, Writing, Replacing
  <1>3. CASE cache.on
    <2> DEFINE u == Tail(c.todo)
               t == Tail(u)
               b == c.stale \/ cache.old \/ Changing
               n == [c EXCEPT !.todo = t, !.stale = b]
    <2>1. /\ CallsMade /\ StoreInv /\ AbsentInv /\ BytesInv /\ ByteTypes /\ c \in CallType
          /\ Made(store, c.todo, c.op) /\ c.todo # <<>>
      BY <1>1, Standing DEF RemoteInv, Busy, BytesInv, ByteTypes
    <2>2. Alias(g, "cache") /\ call' = [call EXCEPT ![g] = n]
      <3>1. [[c EXCEPT !.todo = Tail(@), !.stale = @ \/ cache.old \/ Changing] EXCEPT !.todo = Tail(@)] = n
        BY <2>1 DEF CallType
      <3> QED BY <1>3, <3>1 DEF Hit, Go
    <2>14. b \in BOOLEAN /\ (c.stale => b) /\ (~b => ~cache.old /\ ~Changing)
      OBVIOUS
    <2>3. /\ Head(c.todo) = c.todo[1] /\ Made(store, u, c.op)
          /\ u # <<>> /\ Head(u) = c.todo[2] /\ 1 \in 1 .. Len(c.todo)
      <3>1. Made(store, c.todo, c.op) /\ c.todo # <<>>
        BY <2>1
      <3>2. Head(c.todo) = c.todo[1] /\ Made(store, u, c.op) /\ 1 \in 1 .. Len(c.todo)
        BY <3>1, Tails
      <3> QED BY <1>1, <3>1, <3>2, Heads
    <2>4. c.op = "get" /\ c.todo[2] = "fetch" /\ store \notin Sole \ Unique
      <3>1. Shaped(store, c.todo, c.op, 1)
        BY <2>1, <2>3 DEF Made
      <3> QED BY <1>1, <2>3, <3>1 DEF Shaped
    <2> HIDE DEF u
    <2>5. /\ t \in Seq(Instr) /\ Made(store, t, c.op) /\ t # <<>> /\ u[1] = "fetch" /\ Head(t) = u[2] /\ 1 \in 1 .. Len(u)
          /\ Head(t) \notin {"await", "write"}
      <3>1. /\ t \in Seq(Instr) /\ Made(store, t, c.op) /\ Head(u) = u[1] /\ 1 \in 1 .. Len(u)
        BY <2>3, Tails
      <3>2. u[1] = "fetch"
        BY <2>3, <2>4, <3>1
      <3> QED BY <2>3, <3>1, <3>2, Heads
    <2>6. store \in Unique => Head(t) = "copy"
      <3>1. Shaped(store, u, c.op, 1)
        BY <2>3, <2>5 DEF Made
      <3> QED BY <2>5, <3>1 DEF Shaped
    <2>7. (Absent(items) => c.absent) /\ (store \in Telling => c.err # "notfound" \/ Excused(c)) /\ ~At(g, "evict")
      BY <1>1, <2>1, Known DEF AbsentInv, At
    <2>8. (store \in Sole \ {"bw"} => c.served # Wiped) /\ Unique \subseteq Sole
      BY <2>1 DEF BytesInv, Sole
    <2> HIDE DEF t, c, b
    <2>9. /\ n \in CallType /\ n.todo = t /\ n.op = c.op /\ n.val = c.val /\ n.err = c.err
          /\ n.absent = c.absent /\ n.stale = b /\ n.served = c.served
      BY <2>1, <2>5, <2>14 DEF CallType
    <2> HIDE DEF n
    <2>15. store \in Telling /\ n.err = "notfound" => Excused(n)
      BY <2>7, <2>9, <2>14 DEF Excused
    <2>16. store \in Unique /\ bytes["cache"] = None => Excused(n)
      <3> SUFFICES ASSUME store \in Unique, bytes["cache"] = None, ~b PROVE n.absent
        BY <2>9 DEF Excused
      <3>1. ~Dirty
        BY <2>14, RemoteAssumption DEF Dirty, Changing, At
      <3>2. items = <<None>>
        BY <1>3, <2>1, <2>14, <3>1 DEF BytesInv, Fresh
      <3>3. Absent(items)
        BY <3>2 DEF Absent
      <3> QED BY <2>7, <2>9, <3>3
    <2>10. CallsMade'
      <3>1. items \in Seq(Value) /\ lookFailed \in BOOLEAN /\ cache \in [on : BOOLEAN, old : BOOLEAN] /\ flight \in FlightType
        BY <2>1 DEF CallsMade
      <3> QED BY <1>1, <2>1, <2>2, <2>4, <2>5, <2>9, <3>1, CallStep
    <2>11. StoreInv'
      BY <1>1, <2>1, <2>2, <2>4, <2>5, <2>9, StoreKeeps
    <2>12. AbsentInv'
      BY <1>1, <2>1, <2>2, <2>5, <2>7, <2>9, <2>15, AbsentKeeps
    <2>13. BytesInv'
      <3>1. g \in Holder /\ "cache" \in Holder \ {g} /\ Caller \subseteq Holder /\ Caller \ {g} \subseteq Holder \ {g, "cache"}
        BY RemoteAssumption DEF Holder
      <3>2. /\ ByteTypes' /\ bytes'[g] = bytes["cache"] /\ (\A h \in Holder \ {g} : bytes'[h] = bytes[h])
            /\ \A h \in Holder \ {g, "cache"} : Apart(h) => Apart(h)'
        BY <2>1, <2>2, <3>1, Aliased
      <3>3. store \in Sole \ {"bw"} => \A h \in Holder : bytes'[h] # Wiped
        BY <2>1, <3>1, <3>2 DEF BytesInv
      <3> QED BY <1>1, <2>1, <2>2, <2>4, <2>5, <2>6, <2>7, <2>8, <2>9, <2>16, <3>1, <3>2, <3>3, BytesStep
    <2> QED BY <2>10, <2>11, <2>12, <2>13 DEF RemoteInv
  <1> QED BY <1>2, <1>3

\* A caller starts the shared fetch, or joins the one under way.
LEMMA RemoteFetches ==
    ASSUME RemoteInv, NEW g \in Caller, Fetch(g)
    PROVE  RemoteInv'
  <1> DEFINE c == call[g]
             t == <<"await">> \o Tail(c.todo)
  <1>1. Busy(g) /\ Head(c.todo) = "fetch" /\ UNCHANGED <<store, items, bytes, same, cache, lookFailed>>
    BY DEF Fetch, At, mem
  <1>2. /\ CallsMade /\ StoreInv /\ AbsentInv /\ BytesInv /\ c \in CallType /\ Made(store, c.todo, c.op) /\ c.todo # <<>>
        /\ flight \in FlightType
    BY <1>1, Standing DEF RemoteInv, Busy, CallsMade
  <1>3. c.todo[1] = "fetch" /\ 1 \in 1 .. Len(c.todo)
    <2>1. Made(store, c.todo, c.op) /\ c.todo # <<>>
      BY <1>2
    <2>2. Head(c.todo) = c.todo[1] /\ 1 \in 1 .. Len(c.todo)
      BY <2>1, Tails
    <2> QED BY <1>1, <2>2
  <1>4. c.op = "get"
    <2>1. Shaped(store, c.todo, c.op, 1)
      BY <1>2, <1>3 DEF Made
    <2> QED BY <1>3, <2>1 DEF Shaped
  <1>5. Made(store, t, c.op) /\ Head(t) = "await" /\ t # <<>> /\ t \in Seq(Instr)
    BY <1>2, <1>3, Awaits
  <1>6. PICK b \in BOOLEAN :
          /\ call' = [call EXCEPT ![g] = [c EXCEPT !.todo = t, !.absent = b]] /\ (c.absent => b)
          /\ \/ flight.on /\ flight' = flight /\ (flight.absent => b)
             \/ ~flight.on /\ flight' = [on |-> TRUE, read |-> FALSE, res |-> None, err |-> "ok", late |-> FALSE, absent |-> Absent(items)]
    <2>1. CASE flight.on
      <3>1. [c EXCEPT !.todo = <<"await">> \o Tail(@), !.absent = @ \/ flight.absent] = [c EXCEPT !.todo = t, !.absent = c.absent \/ flight.absent]
        BY <1>2 DEF CallType
      <3>2. (c.absent \/ flight.absent) \in BOOLEAN
        OBVIOUS
      <3> QED BY <2>1, <3>1, <3>2 DEF Fetch
    <2>2. CASE ~flight.on
      <3>1. [c EXCEPT !.todo = <<"await">> \o Tail(@)] = [c EXCEPT !.todo = t, !.absent = c.absent] /\ c.absent \in BOOLEAN
        BY <1>2 DEF CallType
      <3> QED BY <2>2, <3>1 DEF Fetch
    <2> QED BY <2>1, <2>2
  <1> DEFINE n == [c EXCEPT !.todo = t, !.absent = b]
  <1>7. /\ (Absent(items) => c.absent) /\ (store \in Telling /\ c.err = "notfound" => c.absent \/ c.stale)
        /\ ~At(g, "evict") /\ ~At(g, "copy")
    BY <1>1, <1>2, Known DEF AbsentInv, At, Excused
  <1>8. call' = [call EXCEPT ![g] = n]
    BY <1>6
  <1>9. c = call[g]
    OBVIOUS
  <1>17. Absent(items)' = Absent(items) /\ Absent(items) \in BOOLEAN
    BY <1>1 DEF Absent
  <1> HIDE DEF c, t
  <1>10. /\ n \in CallType /\ n.todo = t /\ n.op = c.op /\ n.val = c.val /\ n.err = c.err
         /\ n.absent = b /\ n.stale = c.stale /\ n.served = c.served
    BY <1>2, <1>5 DEF CallType
  <1>18. store \in Telling /\ n.err = "notfound" => Excused(n)
    BY <1>6, <1>7, <1>10 DEF Excused
  <1> HIDE DEF n
  <1>11. flight' \in FlightType
    <2> DEFINE f(x) == [on |-> TRUE, read |-> FALSE, res |-> None, err |-> "ok", late |-> FALSE, absent |-> x]
    <2>1. \A x \in BOOLEAN : f(x) \in FlightType
      BY DEF FlightType, Value
    <2>2. flight' = flight \/ flight' = f(Absent(items))
      BY <1>6
    <2> HIDE DEF f
    <2> QED BY <1>2, <1>17, <2>1, <2>2
  <1>12. CallsMade' /\ call'[g] = n /\ \A h \in Caller \ {g} : call'[h] = call[h]
    <2>1. items \in Seq(Value) /\ lookFailed \in BOOLEAN /\ cache \in [on : BOOLEAN, old : BOOLEAN]
      BY <1>2 DEF CallsMade
    <2> QED BY <1>1, <1>2, <1>4, <1>5, <1>8, <1>10, <1>11, <2>1, CallStep
  <1>13. StoreInv'
    BY <1>1, <1>2, <1>4, <1>5, <1>8, <1>10, StoreKeeps
  <1>14. AbsentInv'
    <2>1. CASE flight' = flight /\ (flight.absent => b)
      <3>1. (Missed => b) /\ Missed' = Missed
        BY <1>1, <1>2, <2>1 DEF AbsentInv, Missed
      <3>2. ASSUME NEW h \in Caller
            PROVE  /\ store \in Telling /\ call'[h].err = "notfound" => Excused(call'[h])
                   /\ Busy(h)' /\ ~At(h, "emit")' /\ ~At(h, "use")' /\ Absent(items)' => call'[h].absent
                   /\ At(h, "await")' /\ Missed' => call'[h].absent
        <4>1. CASE h = g
          BY <1>6, <1>7, <1>10, <1>12, <1>17, <1>18, <2>1, <3>1, <4>1
        <4>2. CASE h # g
          BY <1>2, <1>12, <1>17, <2>1, <3>1, <4>2 DEF AbsentInv, At, Busy
        <4> QED BY <4>1, <4>2
      <3>3. \A h \in Caller : store' \in Telling /\ call'[h].err = "notfound" => Excused(call[h])'
        BY <1>1, <3>2 DEF Excused
      <3> QED BY <1>2, <1>17, <2>1, <3>1, <3>2, <3>3 DEF AbsentInv
    <2>2. CASE flight' = [on |-> TRUE, read |-> FALSE, res |-> None, err |-> "ok", late |-> FALSE, absent |-> Absent(items)]
      <3>1. flight'.err = "ok" /\ flight'.on = TRUE /\ flight'.absent = Absent(items) /\ ~Missed'
        BY <2>2 DEF Missed
      <3>2. ASSUME NEW h \in Caller
            PROVE  /\ store \in Telling /\ call'[h].err = "notfound" => Excused(call'[h])
                   /\ Busy(h)' /\ ~At(h, "emit")' /\ ~At(h, "use")' /\ Absent(items)' => call'[h].absent
        <4>1. CASE h = g
          BY <1>6, <1>7, <1>10, <1>12, <1>17, <1>18, <4>1
        <4>2. CASE h # g
          BY <1>2, <1>12, <1>17, <4>2 DEF AbsentInv, At, Busy
        <4> QED BY <4>1, <4>2
      <3>3. \A h \in Caller : store' \in Telling /\ call'[h].err = "notfound" => Excused(call[h])'
        BY <1>1, <3>2 DEF Excused
      <3> QED BY <1>17, <3>1, <3>2, <3>3 DEF AbsentInv
    <2> QED BY <1>6, <2>1, <2>2
  <1>15. BytesInv'
    <2>1. store \in Unique /\ flight'.read /\ flight'.err = "ok" /\ ~flight'.late => items = <<flight'.res>>
      BY <1>2, <1>6 DEF BytesInv
    <2>7. store \in Unique => \A h \in Caller : Bare(h)'
      BY <1>1, <1>2, <1>5, <1>10, <1>12 DEF BytesInv, Bare, At, Busy, Excused
    <2>2. store \in Sole => \A h \in Caller : ~At(h, "copy")' => Apart(h)'
      BY <1>1, <1>2, <1>7, <1>12 DEF BytesInv, Apart, At, Busy
    <2>3. store \in Sole \ {"bw"} => (\A h \in Holder : bytes[h] # Wiped) /\ \A h \in Caller : call'[h].served # Wiped
      BY <1>2, <1>9, <1>10, <1>12 DEF BytesInv
    <2>4. Fresh' = Fresh
      BY <1>1 DEF Fresh
    <2>5. Dirty => Dirty'
      BY <1>7, <1>12, RemoteAssumption DEF Dirty, At, Busy, Ahead
    <2>6. store \in Unique /\ Busy(Writer)' /\ call'[Writer].op = "delete" /\ ~Ahead(call'[Writer].todo, "evict")
            => (cache.on => cache.old)
      <3>1. CASE g = Writer
        BY <1>4, <1>10, <1>12, <3>1
      <3>2. CASE g # Writer
        BY <1>2, <1>12, <3>2, RemoteAssumption DEF BytesInv, Busy
      <3> QED BY <3>1, <3>2
    <2> QED BY <1>1, <1>2, <2>1, <2>2, <2>3, <2>4, <2>5, <2>6, <2>7 DEF BytesInv
  <1> QED BY <1>12, <1>13, <1>14, <1>15 DEF RemoteInv

\* The service answers the shared fetch.
LEMMA RemoteAnswers ==
    ASSUME RemoteInv, FlightReads
    PROVE  RemoteInv'
  <1>1. /\ CallsMade /\ StoreInv /\ AbsentInv /\ BytesInv /\ flight \in FlightType /\ flight.on /\ ~flight.read
        /\ UNCHANGED <<store, items, bytes, same, cache, call, lookFailed>>
    BY DEF RemoteInv, FlightReads, CallsMade, mem
  <1>2. PICK a \in Answers : flight' = [flight EXCEPT !.read = TRUE, !.res = a.val, !.err = a.err]
    BY DEF FlightReads
  <1>3. /\ a.val \in Value /\ a.err \in {"ok", "absent", "locked", "failed"} /\ (a.err = "absent" => Absent(items))
        /\ store \in Unique /\ a.err = "ok" => items = <<a.val>>
    BY <1>1, Answered
  <1>4. /\ flight' \in FlightType /\ flight'.on = flight.on /\ flight'.read = TRUE /\ flight'.res = a.val /\ flight'.err = a.err
        /\ flight'.late = flight.late /\ flight'.absent = flight.absent
    BY <1>1, <1>2, <1>3 DEF FlightType
  <1>5. Absent(items)' = Absent(items)
    BY <1>1 DEF Absent
  <1>6. CallsMade' /\ StoreInv'
    BY <1>1, <1>4 DEF CallsMade, StoreInv, OneItem, At, Busy
  <1>7. AbsentInv'
    <2>3. Missed' => Absent(items)
      <3>1. store \in Unique /\ a.err = "ok" /\ a.val = None => Absent(items)
        BY <1>3 DEF Absent
      <3> QED BY <1>1, <1>3, <1>4, <3>1 DEF Missed
    <2>1. ASSUME NEW h \in Caller, At(h, "await"), Missed' PROVE call[h].absent
      <3>1. Busy(h) /\ ~At(h, "emit") /\ ~At(h, "use") /\ Absent(items)
        BY <2>1, <2>3 DEF At
      <3> QED BY <1>1, <3>1 DEF AbsentInv
    <2>2. \A h \in Caller : (At(h, "await")' <=> At(h, "await")) /\ (Busy(h)' <=> Busy(h)) /\ (At(h, "emit")' <=> At(h, "emit"))
                             /\ (At(h, "use")' <=> At(h, "use"))
      BY <1>1 DEF At, Busy
    <2> QED BY <1>1, <1>3, <1>4, <1>5, <2>1, <2>2, <2>3 DEF AbsentInv, Excused
  <1>8. BytesInv'
    <2>1. Fresh' = Fresh /\ Dirty' = Dirty
      BY <1>1 DEF Fresh, Dirty, At, Busy, Ahead
    <2>2. store \in Sole => \A h \in Caller : ~At(h, "copy")' => Apart(h)'
      BY <1>1 DEF BytesInv, Apart, At, Busy
    <2>3. store \in Unique => \A h \in Caller : Bare(h)'
      BY <1>1 DEF BytesInv, Bare, At, Busy, Excused
    <2> QED BY <1>1, <1>3, <1>4, <2>1, <2>2, <2>3 DEF BytesInv, Busy
  <1> QED BY <1>6, <1>7, <1>8 DEF RemoteInv

\* The shared fetch ends: its item is cached and handed to everyone who waits.
LEMMA RemoteFills ==
    ASSUME RemoteInv, FlightFills
    PROVE  RemoteInv'
  <1> DEFINE ok == flight.err = "ok"
             waiting == {g \in Caller : At(g, "await")}
             xs == waiting \cup (IF store \in Caching THEN {"cache"} ELSE {})
  <1>1. PICK E \in IF ok THEN {"ok"} ELSE Errors(store, "get")[flight.err] :
        /\ flight.on /\ flight.read /\ UNCHANGED <<store, items, lookFailed>>
        /\ IF ok THEN NewSlice(xs, flight.res) ELSE UNCHANGED mem
        /\ cache' = IF ok /\ store \in Caching THEN [on |-> TRUE, old |-> flight.late \/ Deleting] ELSE cache
        /\ call' = [g \in Caller |->
              IF g \notin waiting THEN call[g]
              ELSE [(IF ok THEN call[g] ELSE Fail(g, E)) EXCEPT !.todo = Tail(@)]]
        /\ flight' = [flight EXCEPT !.on = FALSE, !.read = FALSE, !.res = None, !.err = "ok", !.late = FALSE, !.absent = FALSE]
    BY DEF FlightFills
  <1>2. /\ CallsMade /\ StoreInv /\ AbsentInv /\ BytesInv /\ ByteTypes /\ flight \in FlightType /\ call \in [Caller -> CallType]
        /\ cache \in [on : BOOLEAN, old : BOOLEAN]
    BY DEF RemoteInv, BytesInv, ByteTypes, CallsMade
  <1>3. /\ flight' \in FlightType /\ flight'.on = FALSE /\ flight'.read = FALSE /\ flight'.err = "ok" /\ ~Missed'
    BY <1>1, <1>2 DEF FlightType, Value, Missed
  <1>4. flight.err \in {"ok", "absent", "locked", "failed"} /\ flight.res \in Value
    BY <1>2 DEF FlightType
  <1>5. ~ok => E \in Report \ {"ok"} /\ (store \in Telling /\ E = "notfound" => flight.err = "absent")
    BY <1>4, ErrorsOf
  <1>6. Absent(items)' = Absent(items)
    BY <1>1 DEF Absent
  <1>7. ASSUME NEW h \in Caller, h \notin waiting PROVE call'[h] = call[h] /\ ~At(h, "await")
    BY <1>1, <1>7
  <1>8. ASSUME NEW h \in waiting
        PROVE  /\ call'[h] \in CallType /\ call'[h].op = "get" /\ call[h].op = "get" /\ Made(store, call'[h].todo, "get")
               /\ call'[h].absent = call[h].absent /\ call'[h].served = call[h].served /\ call'[h].todo # <<>>
               /\ (store \in Telling /\ call'[h].err = "notfound" => Excused(call'[h])) /\ store \notin Sole \ Unique
               /\ (Missed => call'[h].absent)
               /\ ok => Head(call'[h].todo) # "await" /\ (store \in Unique => Head(call'[h].todo) = "copy")
               /\ ~ok => Head(call'[h].todo) = "emit"
               /\ ~At(h, "copy")
    <2> DEFINE c == call[h]
               over == <<"emit", "use">>
    <2>1. h \in Caller /\ Busy(h) /\ Head(c.todo) = "await"
      BY <1>8 DEF At
    <2>2. c \in CallType /\ Made(store, c.todo, c.op) /\ c.todo # <<>>
      BY <1>2, <2>1, Standing DEF Busy
    <2>3. /\ Head(c.todo) = c.todo[1] /\ 1 \in 1 .. Len(c.todo) /\ Tail(c.todo) \in Seq(Instr) /\ Made(store, Tail(c.todo), c.op)
      BY <2>2, Tails
    <2>4. Tail(c.todo) # <<>> /\ Head(Tail(c.todo)) = c.todo[2] /\ Head(Tail(c.todo)) # "await"
      BY <2>1, <2>2, <2>3, Heads
    <2>5. c.op = "get" /\ (store \in Unique => c.todo[2] = "copy") /\ store \notin Sole \ Unique
      <3>1. Shaped(store, c.todo, c.op, 1)
        BY <2>2, <2>3 DEF Made
      <3> QED BY <2>1, <2>3, <3>1 DEF Shaped
    <2>6. /\ Tail(<<"fail", "emit", "use">>) = over /\ Made(store, over, "get") /\ over \in Seq(Instr)
          /\ Head(over) = "emit" /\ over # <<>>
      BY Overs
    <2>7. (store \in Telling /\ c.err = "notfound" => c.absent \/ c.stale) /\ (Missed => c.absent) /\ ~At(h, "copy")
          /\ (flight.err = "absent" => Missed)
      BY <1>2, <2>1 DEF AbsentInv, At, Excused, Missed
    <2>8. CASE ok
      <3> DEFINE n == [c EXCEPT !.todo = Tail(c.todo)]
                 t == Tail(c.todo)
      <3>1. call'[h] = n
        BY <1>1, <1>8, <2>1, <2>8
      <3>2. n \in CallType /\ n.todo = t /\ n.op = c.op /\ n.err = c.err /\ n.absent = c.absent
            /\ n.stale = c.stale /\ n.served = c.served
        <4>1. t \in Seq(Instr) /\ c \in CallType /\ n = [c EXCEPT !.todo = t]
          BY <2>2, <2>3
        <4> HIDE DEF n, c, t
        <4> QED BY <4>1 DEF CallType
      <3> HIDE DEF n
      <3>3. store \in Telling /\ n.err = "notfound" => Excused(n)
        BY <2>7, <3>2 DEF Excused
      <3> QED BY <2>3, <2>4, <2>5, <2>7, <2>8, <3>1, <3>2, <3>3
    <2>9. CASE ~ok
      <3> DEFINE n == [c EXCEPT !.err = E, !.todo = over]
      <3>1. call'[h] = n
        <4>1. [Fail(h, E) EXCEPT !.todo = Tail(@)] = n
          BY <2>2, <2>6 DEF Fail, CallType
        <4> QED BY <1>1, <1>8, <2>1, <2>9, <4>1
      <3>2. n \in CallType /\ n.todo = over /\ n.op = c.op /\ n.err = E /\ n.absent = c.absent
            /\ n.stale = c.stale /\ n.served = c.served
        <4>1. E \in Report /\ c \in CallType /\ over \in Seq(Instr)
          BY <1>5, <2>2, <2>6, <2>9
        <4> HIDE DEF c, over
        <4> QED BY <4>1 DEF CallType
      <3>3. store \in Telling /\ n.err = "notfound" => Excused(n)
        BY <1>5, <2>7, <2>9, <3>2 DEF Excused
      <3> HIDE DEF n, over
      <3> QED BY <1>5, <2>5, <2>6, <2>7, <2>9, <3>1, <3>2, <3>3
    <2> QED BY <2>8, <2>9
  <1>9. waiting \subseteq Caller /\ xs \in SUBSET Holder /\ Caller \subseteq Holder /\ "cache" \in Holder /\ "cache" \notin Caller
    BY RemoteAssumption DEF Holder
  <1>10. cache' \in [on : BOOLEAN, old : BOOLEAN]
    <2>1. (flight.late \/ Deleting) \in BOOLEAN
      OBVIOUS
    <2> QED BY <1>1, <1>2, <2>1
  <1>30. Writer \in Caller
    BY RemoteAssumption
  <1>31. DOMAIN call' = Caller
    BY <1>1
  <1> HIDE DEF waiting
  <1>11. CallsMade'
    <2>1. ASSUME NEW h \in Caller
          PROVE  /\ call'[h] \in CallType /\ Made(store, call'[h].todo, call'[h].op)
                 /\ (h # Writer => call'[h].op \in {"none", "get"})
      <3>1. CASE h \in waiting
        BY <1>8, <3>1
      <3>2. CASE h \notin waiting
        BY <1>2, <1>7, <3>2, Standing
      <3> QED BY <3>1, <3>2
    <2>2. call' \in [Caller -> CallType]
      BY <1>1, <2>1
    <2>3. call'[Writer].op = "set" => call'[Writer].val \in Secret
      BY <1>2, <1>7, <1>8, <1>30 DEF CallsMade
    <2> QED BY <1>1, <1>2, <1>3, <1>10, <2>1, <2>2, <2>3 DEF CallsMade
  <1>12. StoreInv'
    <2>1. CASE Writer \in waiting
      <3>1. call'[Writer].op = "get" /\ ~At(Writer, "write")'
        <4>1. Head(call'[Writer].todo) # "write"
          <5>1. ok => Head(call'[Writer].todo) # "write"
            <6>1. call[Writer].todo # <<>> /\ Made(store, call[Writer].todo, call[Writer].op) /\ Head(call[Writer].todo) = "await"
              BY <1>2, <1>30, <2>1, Standing DEF waiting, At, Busy
            <6>2. Head(call[Writer].todo) = call[Writer].todo[1]
              BY <6>1, Tails
            <6>3. Tail(call[Writer].todo) # <<>> => Head(Tail(call[Writer].todo)) # "write"
              BY <6>1, <6>2, Heads
            <6>4. ok => call'[Writer].todo = Tail(call[Writer].todo)
              <7>1. ok => call'[Writer] = [call[Writer] EXCEPT !.todo = Tail(call[Writer].todo)]
                BY <1>1, <1>30, <2>1
              <7> QED BY <1>2, <1>30, <7>1 DEF CallType
            <6> QED BY <1>8, <2>1, <6>3, <6>4
          <5> QED BY <1>8, <2>1, <5>1
        <4> QED BY <1>8, <2>1, <4>1 DEF At
      <3> QED BY <1>1, <1>2, <3>1 DEF StoreInv, OneItem
    <2>2. CASE Writer \notin waiting
      <3>1. call'[Writer] = call[Writer]
        BY <1>7, <1>30, <2>2
      <3> QED BY <1>1, <1>2, <3>1 DEF StoreInv, OneItem, At, Busy
    <2> QED BY <2>1, <2>2
  <1>13. AbsentInv'
    <2>1. ASSUME NEW h \in Caller
          PROVE  /\ store \in Telling /\ call'[h].err = "notfound" => Excused(call'[h])
                 /\ Busy(h)' /\ ~At(h, "emit")' /\ ~At(h, "use")' /\ Absent(items)' => call'[h].absent
      <3>1. CASE h \in waiting
        <4>1. Busy(h) /\ ~At(h, "emit") /\ ~At(h, "use")
          BY <3>1 DEF waiting, At
        <4>2. Absent(items) => call[h].absent
          BY <1>2, <4>1 DEF AbsentInv
        <4> QED BY <1>6, <1>8, <3>1, <4>2
      <3>2. CASE h \notin waiting
        BY <1>2, <1>6, <1>7, <3>2 DEF AbsentInv, At, Busy
      <3> QED BY <3>1, <3>2
    <2>2. \A h \in Caller : store' \in Telling /\ call'[h].err = "notfound" => Excused(call[h])'
      BY <1>1, <2>1 DEF Excused
    <2> QED BY <1>3, <2>1, <2>2 DEF AbsentInv
  <1>14. BytesInv'
    <2>1. /\ ByteTypes' /\ (ok => \A h \in xs : bytes'[h] = flight.res)
          /\ (\A h \in Holder : (ok /\ h \in xs) \/ bytes'[h] = bytes[h])
          /\ \A h \in Holder : h \notin xs \/ ~ok => (Apart(h) => Apart(h)')
      <3>1. CASE ok
        <4>1. flight.res \in Value \cup {Wiped} /\ NewSlice(xs, flight.res) /\ xs \in SUBSET Holder
          BY <1>1, <1>4, <1>9, <3>1
        <4> HIDE DEF xs
        <4>2. /\ ByteTypes' /\ (\A h \in xs : bytes'[h] = flight.res) /\ \A h \in Holder \ xs : bytes'[h] = bytes[h]
              /\ \A h \in Holder \ xs : Apart(h) => Apart(h)'
          BY <1>2, <4>1, Sliced
        <4> QED BY <3>1, <4>2
      <3>2. CASE ~ok
        <4>1. bytes' = bytes /\ same' = same
          BY <1>1, <3>2 DEF mem
        <4> QED BY <1>2, <3>2, <4>1 DEF ByteTypes, Apart
      <3> QED BY <3>1, <3>2
    <2>2. ASSUME store \in Sole, NEW h \in Caller, ~At(h, "copy")' PROVE Apart(h)'
      <3>1. CASE h \in waiting
        <4>1. ~ok
          <5>1. store \in Unique
            BY <1>8, <2>2, <3>1
          <5> QED BY <1>8, <2>2, <3>1, <5>1 DEF At, Busy
        <4> QED BY <1>2, <1>8, <1>9, <2>1, <2>2, <3>1, <4>1 DEF BytesInv
      <3>2. CASE h \notin waiting
        <4>1. h \notin xs /\ ~At(h, "copy")
          BY <1>7, <1>9, <2>2, <3>2 DEF At, Busy
        <4> QED BY <1>2, <1>9, <2>1, <2>2, <4>1 DEF BytesInv
      <3> QED BY <3>1, <3>2
    <2>3. store \in Sole \ {"bw"} => (\A h \in Holder : bytes'[h] # Wiped) /\ \A h \in Caller : call'[h].served # Wiped
      <3>1. flight.res # Wiped
        BY <1>4, RemoteAssumption DEF Value
      <3>2. \A h \in Caller : call'[h].served = call[h].served
        BY <1>7, <1>8
      <3> QED BY <1>2, <2>1, <3>1, <3>2 DEF BytesInv
    <2>5. Dirty => Dirty'
      <3>1. ASSUME Dirty PROVE call'[Writer] = call[Writer]
        BY <1>7, <1>8, <1>30, <3>1 DEF Dirty
      <3> QED BY <3>1 DEF Dirty, At, Busy, Ahead
    <2>6. store \in Unique => (Fresh' \/ Dirty') /\
             (Busy(Writer)' /\ call'[Writer].op = "delete" /\ ~Ahead(call'[Writer].todo, "evict") => (cache'.on => cache'.old))
      <3> SUFFICES ASSUME store \in Unique
                   PROVE  /\ Fresh' \/ Dirty'
                          /\ Busy(Writer)' /\ call'[Writer].op = "delete" /\ ~Ahead(call'[Writer].todo, "evict") => (cache'.on => cache'.old)
        OBVIOUS
      <3>1. store \in Caching
        BY DEF Unique, Caching
      <3>2. call'[Writer].op = "delete" => call'[Writer] = call[Writer]
        BY <1>7, <1>8, <1>30
      <3>3. CASE ok
        <4>1. cache' = [on |-> TRUE, old |-> flight.late \/ Deleting] /\ "cache" \in xs
          BY <1>1, <3>1, <3>3
        <4>2. bytes'["cache"] = flight.res
          BY <1>1, <2>1, <3>3, <4>1
        <4>3. ~flight.late => items = <<flight.res>>
          BY <1>1, <1>2, <3>3 DEF BytesInv
        <4>4. Fresh'
          <5>1. ~cache'.old => ~flight.late
            BY <4>1
          <5> QED BY <1>1, <4>2, <4>3, <5>1 DEF Fresh
        <4>5. Busy(Writer)' /\ call'[Writer].op = "delete" => Deleting
          BY <1>30, <3>2 DEF Deleting, Busy
        <4> QED BY <4>1, <4>4, <4>5
      <3>4. CASE ~ok
        <4>1. cache' = cache /\ bytes'["cache"] = bytes["cache"]
          BY <1>1, <1>9, <2>1, <3>4
        <4>2. Fresh' = Fresh
          BY <1>1, <4>1 DEF Fresh
        <4>3. Fresh \/ Dirty
          BY <1>2 DEF BytesInv
        <4>4. Busy(Writer)' /\ call'[Writer].op = "delete" /\ ~Ahead(call'[Writer].todo, "evict") => (cache.on => cache.old)
          BY <1>2, <3>2 DEF BytesInv, Busy
        <4> QED BY <2>5, <4>1, <4>2, <4>3, <4>4
      <3> QED BY <3>3, <3>4
    <2>7. ASSUME store \in Unique, NEW h \in Caller PROVE Bare(h)'
      <3> SUFFICES ASSUME At(h, "copy")', bytes'[h] = None PROVE Excused(call'[h])
        BY DEF Bare, Excused
      <3>1. CASE h \in waiting
        <4>1. ok
          BY <1>8, <3>1 DEF At, Busy
        <4>2. flight.res = None
          BY <2>1, <3>1, <4>1
        <4>3. Missed
          BY <1>1, <2>7, <4>1, <4>2 DEF Missed
        <4> QED BY <1>8, <3>1, <4>3 DEF Excused
      <3>2. CASE h \notin waiting
        <4>1. call'[h] = call[h] /\ At(h, "copy") /\ h \notin xs
          BY <1>7, <1>9, <3>2 DEF At, Busy
        <4>2. bytes[h] = None
          BY <1>9, <2>1, <4>1
        <4> QED BY <1>2, <2>7, <4>1, <4>2 DEF BytesInv, Bare
      <3> QED BY <3>1, <3>2
    <2> QED BY <1>1, <1>3, <2>1, <2>2, <2>3, <2>6, <2>7 DEF BytesInv, ByteTypes
  <1> QED BY <1>11, <1>12, <1>13, <1>14 DEF RemoteInv

\* The service applies a change: the writer's record becomes n, the others may have seen the item absent.
LEMMA Applies ==
    ASSUME RemoteInv, NEW g \in Caller, g = Writer, ~At(g, "copy"), NEW q \in Seq(Value), NEW n \in CallType, Applied(g, q, n),
           UNCHANGED <<store, bytes, same, lookFailed>>, cache' \in [on : BOOLEAN, old : BOOLEAN],
           Made(store, n.todo, n.op), n.op \in {"set", "delete"}, n.op = "set" => n.val \in Secret,
           n.served = call[g].served, store \in Telling /\ n.err = "notfound" => Excused(n),
           n.todo = <<>> \/ Head(n.todo) \notin {"write", "await", "copy"},
           store \in Updating /\ ~lookFailed => Len(q) <= 1,
           store \in Updating /\ ~lookFailed /\ n.op = "set" /\ n.err = "ok" /\ ~Pending(n.todo) => q = <<n.val>>,
           Absent(q) => n.absent \/ n.todo = <<>> \/ Head(n.todo) \in {"emit", "use"},
           store \in Unique => (cache'.on => cache'.old)
                               \/ (n.op = "set" /\ n.todo # <<>> /\ Head(n.todo) = "evict" /\ ~Ahead(n.todo, "write"))
    PROVE  RemoteInv'
  <1>1. /\ CallsMade /\ StoreInv /\ AbsentInv /\ BytesInv /\ flight \in FlightType /\ call \in [Caller -> CallType]
    BY DEF RemoteInv, CallsMade
  <1>2. /\ items' = q /\ Absent(items)' = Absent(q) /\ Absent(q) \in BOOLEAN
        /\ flight' = [flight EXCEPT !.late = flight.on, !.absent = flight.on /\ (flight.absent \/ Absent(q))]
        /\ call' = [h \in Caller |-> IF h = g THEN n
                                     ELSE [call[h] EXCEPT !.absent = call[h].absent \/ (Busy(h) /\ Absent(q))]]
    BY DEF Applied, Absent
  <1>3. /\ flight' \in FlightType /\ flight'.on = flight.on /\ flight'.res = flight.res /\ flight'.err = flight.err
        /\ flight'.read = flight.read /\ flight'.late = flight.on /\ flight'.absent = (flight.on /\ (flight.absent \/ Absent(q)))
    BY <1>1, <1>2 DEF FlightType
  <1>4. call'[g] = n
    BY <1>2
  <1>5. ASSUME NEW h \in Caller, h # g
        PROVE  /\ call'[h] \in CallType /\ call'[h].op = call[h].op /\ call'[h].todo = call[h].todo /\ call'[h].err = call[h].err
               /\ call'[h].served = call[h].served /\ call'[h].stale = call[h].stale
               /\ call'[h].absent = (call[h].absent \/ (Busy(h) /\ Absent(q)))
    <2> DEFINE c == call[h]
               a == c.absent \/ (Busy(h) /\ Absent(q))
    <2>1. call'[h] = [c EXCEPT !.absent = a] /\ c \in CallType
      BY <1>1, <1>2, <1>5
    <2>2. a \in BOOLEAN
      OBVIOUS
    <2> HIDE DEF c, a
    <2>3. [c EXCEPT !.absent = a] \in CallType
      BY <2>1, <2>2 DEF CallType
    <2>4. LET m == [c EXCEPT !.absent = a]
          IN  /\ m.op = c.op /\ m.todo = c.todo /\ m.err = c.err /\ m.served = c.served /\ m.absent = a
              /\ m.stale = c.stale
      BY <2>1, <2>2 DEF CallType
    <2> QED BY <2>1, <2>3, <2>4 DEF c, a
  <1>6. \A h \in Caller \ {g} : /\ Busy(h)' <=> Busy(h)
                                /\ At(h, "copy")' <=> At(h, "copy")
                                /\ At(h, "await")' <=> At(h, "await")
    BY <1>5 DEF At, Busy
  <1>7. CallsMade'
    <2>1. call' \in [Caller -> CallType]
      <3>1. \A h \in Caller : call'[h] \in CallType
        BY <1>4, <1>5
      <3>2. call' = [h \in Caller |-> call'[h]]
        BY <1>2
      <3> QED BY <3>1, <3>2
    <2>2. ASSUME NEW h \in Caller
          PROVE  Made(store, call'[h].todo, call'[h].op) /\ (h # Writer => call'[h].op \in {"none", "get"})
      <3>1. CASE h = g
        BY <1>4, <3>1
      <3>2. CASE h # g
        BY <1>1, <1>5, <3>2, Standing
      <3> QED BY <3>1, <3>2
    <2>3. store' = store /\ lookFailed' = lookFailed /\ store \in DOMAIN Backends /\ lookFailed \in BOOLEAN
      BY <1>1 DEF CallsMade
    <2> QED BY <1>2, <1>3, <1>4, <2>1, <2>2, <2>3 DEF CallsMade
  <1>8. StoreInv'
    <2>1. ~At(Writer, "write")'
      BY <1>4 DEF At, Busy
    <2> QED BY <1>2, <1>4, <2>1 DEF StoreInv, OneItem
  <1>9. AbsentInv'
    <2>4. Missed' = Missed
      BY <1>3 DEF Missed
    <2>1. ASSUME NEW h \in Caller
          PROVE  /\ store \in Telling /\ call'[h].err = "notfound" => Excused(call'[h])
                 /\ Busy(h)' /\ ~At(h, "emit")' /\ ~At(h, "use")' /\ Absent(items)' => call'[h].absent
                 /\ At(h, "await")' /\ Missed => call'[h].absent
      <3>1. CASE h = g
        BY <1>2, <1>4, <3>1 DEF At, Busy
      <3>2. CASE h # g
        <4>1. (store \in Telling /\ call[h].err = "notfound" => Excused(call[h])) /\ (At(h, "await") /\ Missed => call[h].absent)
          BY <1>1 DEF AbsentInv
        <4>2. call'[h].err = call[h].err /\ call'[h].absent = (call[h].absent \/ (Busy(h) /\ Absent(q))) /\ call'[h].stale = call[h].stale
          BY <1>5, <3>2
        <4>3. (Busy(h)' <=> Busy(h)) /\ (At(h, "await")' <=> At(h, "await"))
          BY <1>6, <3>2
        <4>4. store \in Telling /\ call'[h].err = "notfound" => Excused(call'[h])
          BY <4>1, <4>2 DEF Excused
        <4> QED BY <1>2, <4>1, <4>2, <4>3, <4>4
      <3> QED BY <3>1, <3>2
    <2>2. (Missed => flight.absent) /\ (~flight.on => flight.err = "ok" /\ ~flight.read)
      BY <1>1 DEF AbsentInv
    <2>3. Missed => flight.on
      BY <2>2 DEF Missed
    <2>5. \A h \in Caller : store' \in Telling /\ call'[h].err = "notfound" => Excused(call[h])'
      BY <2>1 DEF Excused
    <2> QED BY <1>2, <1>3, <2>1, <2>2, <2>3, <2>4, <2>5 DEF AbsentInv
  <1>10. BytesInv'
    <2>1. ASSUME store \in Sole, NEW h \in Caller, ~At(h, "copy")' PROVE Apart(h)'
      <3>1. ~At(h, "copy")
        BY <1>6, <2>1
      <3> QED BY <1>1, <2>1, <3>1 DEF BytesInv, Apart
    <2>2. store \in Sole \ {"bw"} => (\A h \in Holder : bytes'[h] # Wiped) /\ \A h \in Caller : call'[h].served # Wiped
      BY <1>1, <1>4, <1>5 DEF BytesInv
    <2>3. store \in Unique => Fresh' \/ Dirty'
      <3>1. (cache'.on => cache'.old) => Fresh'
        BY DEF Fresh
      <3>2. n.op = "set" /\ n.todo # <<>> /\ Head(n.todo) = "evict" /\ ~Ahead(n.todo, "write") => Dirty'
        BY <1>4 DEF Dirty, At, Busy, Ahead
      <3> QED BY <3>1, <3>2
    <2>4. store \in Unique /\ call'[Writer].op = "delete" => (cache'.on => cache'.old)
      BY <1>4
    <2>5. ~(flight'.read /\ flight'.late = FALSE)
      BY <1>1, <1>3 DEF AbsentInv
    <2>6. ASSUME store \in Unique, NEW h \in Caller PROVE Bare(h)'
      <3> SUFFICES ASSUME At(h, "copy")', bytes[h] = None PROVE Excused(call'[h])
        BY DEF Bare, Excused
      <3>1. h # g /\ At(h, "copy")
        BY <1>4, <1>6 DEF At, Busy
      <3>2. Excused(call[h])
        BY <1>1, <2>6, <3>1 DEF BytesInv, Bare
      <3> QED BY <1>5, <3>1, <3>2 DEF Excused
    <2>7. flight'.late \in BOOLEAN
      BY <1>3 DEF FlightType
    <2> QED BY <1>1, <2>1, <2>2, <2>3, <2>4, <2>5, <2>6, <2>7 DEF BytesInv
  <1> QED BY <1>7, <1>8, <1>9, <1>10 DEF RemoteInv

\* A change that is applied, applied with its answer lost, or refused.
LEMMA Changes ==
    ASSUME RemoteInv, NEW g \in Caller, Busy(g), Head(call[g].todo) \in Writing \cup {"createempty", "remove"},
           NEW q \in Seq(Value), NEW rest, Changed(g, q, rest), UNCHANGED <<store, bytes, same, lookFailed>>,
           Made(store, rest, call[g].op), rest = <<>> \/ Head(rest) \notin {"write", "await", "copy"},
           call[g].op \in {"set", "delete"},
           store \in Updating /\ ~lookFailed => Len(q) <= 1,
           store \in Updating /\ ~lookFailed /\ call[g].op = "set" /\ ~Pending(rest) => q = <<call[g].val>>,
           Absent(q) => call[g].absent \/ rest = <<>> \/ Head(rest) \in {"emit", "use"},
           store \in Unique /\ call[g].op = "set" => rest # <<>> /\ Head(rest) = "evict" /\ ~Ahead(rest, "write")
    PROVE  RemoteInv'
  <1> DEFINE c == call[g]
             over == <<"emit", "use">>
  <1>1. /\ CallsMade /\ AbsentInv /\ BytesInv /\ c \in CallType /\ Made(store, c.todo, c.op) /\ c.todo # <<>>
        /\ g = Writer /\ (c.op = "set" => c.val \in Secret) /\ cache \in [on : BOOLEAN, old : BOOLEAN]
    BY Standing DEF RemoteInv, Busy, CallsMade
  <1>2. /\ Tail(<<"fail", "emit", "use">>) = over /\ Made(store, over, c.op) /\ over \in Seq(Instr)
        /\ Head(over) = "emit" /\ over # <<>>
    BY Overs
  <1>3. Head(c.todo) = c.todo[1]
    BY <1>1, Tails
  <1>4. ~At(g, "copy") /\ Head(c.todo) \notin {"select", "copy", "evict"}
    BY DEF At, Writing, Replacing
  <1>5. c.op = "delete" /\ store \in Unique => (cache.on => cache.old)
    <2>1. c.op = "delete" => ~Ahead(c.todo, "evict")
      BY <1>1, <1>3, <1>4, Heads
    <2> QED BY <1>1, <2>1 DEF BytesInv
  <1>6. store \in Telling /\ c.err = "notfound" => c.absent \/ c.stale
    BY <1>1 DEF AbsentInv, Excused
  <1>7. rest \in Seq(Instr)
    BY DEF Made
  <1>8. CASE Applied(g, q, [c EXCEPT !.todo = rest]) /\ cache' = cache
    <2> DEFINE n == [c EXCEPT !.todo = rest]
    <2>1. /\ n \in CallType /\ n.todo = rest /\ n.op = c.op /\ n.val = c.val /\ n.err = c.err
          /\ n.absent = c.absent /\ n.stale = c.stale /\ n.served = c.served
      <3>1. c \in CallType /\ rest \in Seq(Instr)
        BY <1>1, <1>7
      <3> HIDE DEF c
      <3>2. n \in CallType
        BY <3>1 DEF CallType
      <3> QED BY <3>1, <3>2 DEF CallType
    <2>2. Applied(g, q, n)
      BY <1>8
    <2>3. store \in Telling /\ n.err = "notfound" => Excused(n)
      BY <1>6, <2>1 DEF Excused
    <2> HIDE DEF n
    <2> QED BY <1>1, <1>4, <1>5, <1>8, <2>1, <2>2, <2>3, Applies
  <1>11. ASSUME NEW e \in ChangeFails(g) PROVE e \in Report \ {"ok"} /\ (store \in Telling => e # "notfound")
    <2>1. e = "failed" \/ e \in Errors(store, "delete")["failed"]
      BY <1>11 DEF ChangeFails
    <2>2. ASSUME e \in Errors(store, "delete")["failed"] PROVE e \in Report /\ (store \in Telling => e # "notfound")
      BY <2>2, ErrorsOf
    <2>3. \A b : Errors(b, "delete")["failed"] \subseteq {"failed", "notfound"}
      BY DEF Errors, BwErrors, OpErrors, ProtonErrors, KeeperErrors, LastpassErrors, VaultKVErrors, VaultKVDeleteErrors,
             AzureErrors, ServiceErrors
    <2> QED BY <2>1, <2>2, <2>3 DEF Report
  <1>9. ASSUME NEW e \in ChangeFails(g), Applied(g, q, [Fail(g, e) EXCEPT !.todo = Tail(@)]),
               cache' = [cache EXCEPT !.old = cache.on]
        PROVE  RemoteInv'
    <2> DEFINE n == [c EXCEPT !.err = e, !.todo = over]
    <2>1. [Fail(g, e) EXCEPT !.todo = Tail(@)] = n
      BY <1>1, <1>2 DEF Fail, CallType
    <2>2. /\ n \in CallType /\ n.todo = over /\ n.op = c.op /\ n.val = c.val /\ n.err = e
          /\ n.absent = c.absent /\ n.stale = c.stale /\ n.served = c.served
      <3>1. c \in CallType /\ over \in Seq(Instr) /\ e \in Report
        BY <1>1, <1>2, <1>9, <1>11
      <3> HIDE DEF c, over
      <3>2. n \in CallType
        BY <3>1 DEF CallType
      <3> QED BY <3>1, <3>2 DEF CallType
    <2>3. Applied(g, q, n)
      BY <1>9, <2>1
    <2>4. cache' \in [on : BOOLEAN, old : BOOLEAN] /\ (cache'.on => cache'.old)
      BY <1>1, <1>9
    <2>5. n.err # "ok" /\ ~(store \in Telling /\ n.err = "notfound")
      BY <1>9, <1>11, <2>2
    <2> HIDE DEF n, over
    <2> QED BY <1>1, <1>2, <1>4, <2>2, <2>3, <2>4, <2>5, Applies
  <1>10. ASSUME NEW e \in ChangeFails(g), Refused(g, e) PROVE RemoteInv'
    <2>1. e \in Report \ {"ok"} /\ ~(store \in Telling /\ e = "notfound")
      BY <1>10, <1>11
    <2> QED BY <1>4, <1>10, <2>1, Fails DEF Refused
  <1> QED BY <1>8, <1>9, <1>10 DEF Changed

\* An instruction of a Set or a Delete, and what follows it.
LEMMA Writes ==
    ASSUME RemoteInv, NEW g \in Caller, Busy(g), Head(call[g].todo) \in Writing \cup {"createempty", "remove"}
    PROVE  /\ call[g] \in CallType /\ Made(store, call[g].todo, call[g].op) /\ call[g].todo # <<>>
           /\ items \in Seq(Value) /\ Len(items) \in Nat
           /\ Head(call[g].todo) = call[g].todo[1] /\ Tail(call[g].todo) \in Seq(Instr)
           /\ Made(store, Tail(call[g].todo), call[g].op)
           /\ Head(call[g].todo) # "remove" => call[g].op = "set" /\ g = Writer /\ call[g].val \in Secret
           /\ Head(call[g].todo) = "remove" => call[g].op = "delete" /\ Tail(call[g].todo) # <<>>
                                               /\ Head(Tail(call[g].todo)) = "emit"
           /\ Tail(call[g].todo) # <<>> => Head(Tail(call[g].todo)) \notin {"write", "await", "copy"}
           /\ Head(call[g].todo) \in Writing /\ store \in Unique => Head(call[g].todo) = "write"
           /\ Head(call[g].todo) \in Replacing => ~Pending(Tail(call[g].todo)) /\ ~Ahead(Tail(call[g].todo), "write")
           /\ Head(call[g].todo) = "write" /\ store \in Unique => Tail(call[g].todo) # <<>> /\ Head(Tail(call[g].todo)) = "evict"
           /\ Head(call[g].todo) = "createempty" => store \notin Unique /\ Pending(Tail(call[g].todo))
                                                    /\ Tail(call[g].todo) # <<>>
  <1> DEFINE c == call[g]
             t == c.todo
             u == Tail(t)
  <1>1. /\ CallsMade /\ c \in CallType /\ Made(store, t, c.op) /\ t # <<>> /\ items \in Seq(Value)
        /\ (c.op = "set" => c.val \in Secret /\ g = Writer)
    BY Standing DEF RemoteInv, Busy, CallsMade
  <1>2. /\ Made(store, u, c.op) /\ Len(t) \in Nat \ {0} /\ Len(u) = Len(t) - 1 /\ Head(t) = t[1]
        /\ (\A i \in 1 .. Len(t) - 1 : u[i] = t[i + 1]) /\ u \in Seq(Instr)
    BY <1>1, Tails
  <1>3. /\ u # <<>> => Head(u) = t[2] /\ 2 \in 1 .. Len(t)
        /\ u # <<>> => Head(u) \notin {"await", "select"}
        /\ t[1] # "look" /\ u # <<>> => Head(u) # "write"
        /\ t[1] \notin {"fetch", "await"} /\ u # <<>> => Head(u) # "copy"
        /\ t[1] \in {"emit", "remove", "fetch", "await", "hit", "write", "createempty"} => u # <<>>
    BY <1>1, Heads
  <1>4. Shaped(store, t, c.op, 1)
    BY <1>1, <1>2 DEF Made
  <1> HIDE DEF u, t
  <1>5. t[1] \notin {"look", "fetch", "await"}
    BY <1>2 DEF Writing, Replacing, t
  <1>6. t[1] # "remove" => c.op = "set" /\ (store \in Unique => t[1] = "write")
    BY <1>2, <1>4 DEF Shaped, t
  <1>7. t[1] = "remove" => c.op = "delete" /\ t[2] = "emit"
    BY <1>4 DEF Shaped
  <1>8. t[1] \in Replacing => ~Pending(u) /\ ~Ahead(u, "write")
    <2>1. t[1] \in Replacing => \A j \in 2 .. Len(t) : t[j] \notin Writing
      BY <1>4 DEF Shaped
    <2>2. ASSUME NEW i \in 1 .. Len(u) PROVE u[i] = t[i + 1] /\ i + 1 \in 2 .. Len(t)
      BY <1>2
    <2>3. t[1] \in Replacing => \A i \in 1 .. Len(u) : u[i] \notin Writing
      BY <2>1, <2>2
    <2>4. "write" \in Writing
      BY DEF Writing, Replacing
    <2> QED BY <2>3, <2>4 DEF Pending, Ahead
  <1>9. t[1] = "write" /\ store \in Unique => t[2] = "evict"
    BY <1>4 DEF Shaped
  <1>10. t[1] = "createempty" => store \notin Unique /\ Pending(u)
    <2>1. t[1] = "createempty" => t[2] = "addversion" /\ 1 \in 1 .. Len(u) /\ u[1] = t[2]
      <3>1. t[1] = "createempty" => 1 < Len(t) /\ t[1 + 1] = "addversion"
        BY <1>4 DEF Shaped
      <3> QED BY <1>2, <3>1
    <2>2. "addversion" \in Writing
      BY DEF Writing
    <2>3. t[1] = "createempty" => Pending(u)
      BY <2>1, <2>2 DEF Pending
    <2> QED BY <1>6, <2>3
  <1>11. Len(items) \in Nat
    BY <1>1
  <1>12. t[1] \in Writing => t[1] # "remove"
    BY DEF Writing, Replacing
  <1> QED BY <1>1, <1>2, <1>3, <1>5, <1>6, <1>7, <1>8, <1>9, <1>10, <1>11, <1>12 DEF u, t

\* An item is created: by name when there is none, by title when none was found.
LEMMA RemoteCreates ==
    ASSUME RemoteInv, NEW g \in Caller, Create(g)
    PROVE  RemoteInv'
  <1> DEFINE c == call[g]
             q == Append(items, c.val)
  <1>1. /\ Busy(g) /\ (Head(c.todo) = "create" \/ (Head(c.todo) = "write" /\ ~c.found))
        /\ UNCHANGED <<store, bytes, same, lookFailed>>
    BY DEF Create, Send, At, mem
  <1>2. Head(c.todo) \in Replacing
    BY <1>1 DEF Replacing
  <1>3. /\ c \in CallType /\ items \in Seq(Value) /\ Len(items) \in Nat /\ Made(store, Tail(c.todo), c.op)
        /\ c.op = "set" /\ g = Writer /\ c.val \in Secret /\ (Tail(c.todo) # <<>> => Head(Tail(c.todo)) \notin {"write", "await", "copy"})
        /\ store \in Unique => Head(c.todo) = "write" /\ Tail(c.todo) # <<>> /\ Head(Tail(c.todo)) = "evict"
        /\ ~Pending(Tail(c.todo)) /\ ~Ahead(Tail(c.todo), "write")
    BY <1>1, <1>2, Writes DEF Writing
  <1>4. CASE Refused(g, "failed")
    BY <1>1, <1>3, <1>4, Fails DEF Refused, Report
  <1>5. ASSUME ~(store \in Named /\ items # <<>>), Changed(g, q, Tail(c.todo)) PROVE RemoteInv'
    <2>1. q \in Seq(Value) /\ Len(q) = Len(items) + 1 /\ q[Len(items) + 1] = c.val /\ \A i \in 1 .. Len(items) : q[i] = items[i]
      BY <1>3 DEF Value
    <2>2. store \in Updating /\ ~lookFailed => items = <<>>
      <3>1. StoreInv
        BY DEF RemoteInv
      <3>2. store \in Unique => Head(c.todo) = "write"
        BY <1>3
      <3>3. store \in Unique => At(Writer, "write") /\ ~call[Writer].found
        BY <1>1, <1>3, <3>2 DEF At
      <3> QED BY <1>5, <3>1, <3>3 DEF StoreInv, Updating, Unique
    <2>3. items = <<>> => q = <<c.val>> /\ Len(q) = 1
      OBVIOUS
    <2>5. ~Absent(q)
      <3>1. Len(items) + 1 \in 1 .. Len(q) /\ q[Len(items) + 1] # None
        BY <1>3, <2>1, RemoteAssumption
      <3> QED BY <3>1 DEF Absent
    <2>6. Head(c.todo) \in Writing \cup {"createempty", "remove"}
      BY <1>2 DEF Writing
    <2>7. store \in Updating /\ ~lookFailed => Len(q) <= 1 /\ q = <<c.val>>
      BY <2>2, <2>3
    <2> HIDE DEF q
    <2> QED BY <1>1, <1>3, <1>5, <2>1, <2>5, <2>6, <2>7, Changes
  <1> QED BY <1>4, <1>5 DEF Create

\* The item found is given the value.
LEMMA RemoteEdits ==
    ASSUME RemoteInv, NEW g \in Caller, Edit(g)
    PROVE  RemoteInv'
  <1> DEFINE c == call[g]
             q == [items EXCEPT ![1] = c.val]
  <1>1. Busy(g) /\ Head(c.todo) = "write" /\ UNCHANGED <<store, bytes, same, lookFailed>>
    BY DEF Edit, At, mem
  <1>2. "write" \in Replacing /\ "write" \in Writing
    BY DEF Replacing, Writing
  <1>3. /\ c \in CallType /\ items \in Seq(Value) /\ Len(items) \in Nat /\ Made(store, Tail(c.todo), c.op)
        /\ c.op = "set" /\ g = Writer /\ c.val \in Secret /\ (Tail(c.todo) # <<>> => Head(Tail(c.todo)) \notin {"write", "await", "copy"})
        /\ store \in Unique => Tail(c.todo) # <<>> /\ Head(Tail(c.todo)) = "evict"
        /\ ~Pending(Tail(c.todo)) /\ ~Ahead(Tail(c.todo), "write")
    BY <1>1, <1>2, Writes
  <1>4. CASE Refused(g, "failed")
    BY <1>1, <1>3, <1>4, Fails DEF Refused, Report
  <1>5. ASSUME items # <<>>, Changed(g, q, Tail(c.todo)) PROVE RemoteInv'
    <2>0. Len(items) > 0 /\ 1 \in 1 .. Len(items) /\ c.val \in Value
      BY <1>3, <1>5 DEF Value
    <2>1. q \in Seq(Value) /\ Len(q) = Len(items) /\ q[1] = c.val /\ \A i \in 1 .. Len(items) : i # 1 => q[i] = items[i]
      BY <1>3, <2>0
    <2> HIDE DEF q
    <2>2. store \in Updating /\ ~lookFailed => Len(items) <= 1
      BY DEF RemoteInv, StoreInv, OneItem
    <2>3. Len(items) <= 1 => q = <<c.val>> /\ Len(q) <= 1
      <3>1. Len(items) <= 1 => Len(q) = 1
        BY <1>3, <2>0, <2>1
      <3> QED BY <2>1, <3>1, Single
    <2>5. ~Absent(q)
      BY <1>3, <2>0, <2>1, RemoteAssumption DEF Absent
    <2> QED BY <1>1, <1>2, <1>3, <1>5, <2>1, <2>2, <2>3, <2>5, Changes
  <1> QED BY <1>4, <1>5 DEF Edit

\* A service that stores by name replaces whatever it had.
LEMMA RemoteUpserts ==
    ASSUME RemoteInv, NEW g \in Caller, Upsert(g)
    PROVE  RemoteInv'
  <1> DEFINE c == call[g]
             q == <<c.val>>
  <1>1. Busy(g) /\ Head(c.todo) = "upsert" /\ UNCHANGED <<store, bytes, same, lookFailed>> /\ Changed(g, q, Tail(c.todo))
    BY DEF Upsert, At, mem
  <1>2. "upsert" \in Replacing /\ "upsert" \in Writing
    BY DEF Replacing, Writing
  <1>3. /\ Made(store, Tail(c.todo), c.op) /\ c.op = "set" /\ c.val \in Secret /\ store \notin Unique
        /\ (Tail(c.todo) # <<>> => Head(Tail(c.todo)) \notin {"write", "await", "copy"})
    BY <1>1, <1>2, Writes
  <1>4. q \in Seq(Value) /\ Len(q) <= 1 /\ ~Absent(q) /\ q = <<c.val>>
    BY <1>3, RemoteAssumption DEF Value, Absent
  <1> HIDE DEF q
  <1> QED BY <1>1, <1>2, <1>3, <1>4, Changes

\* The next instruction is an addition, once the item is to be created first.
LEMMA RemoteAdds ==
    ASSUME RemoteInv, NEW g \in Caller, AddVersion(g)
    PROVE  RemoteInv'
  <1> DEFINE c == call[g]
             t == c.todo
             q == <<c.val>>
             over == <<"emit", "use">>
  <1>1. Busy(g) /\ Head(t) = "addversion" /\ UNCHANGED <<store, bytes, same, lookFailed>>
    BY DEF AddVersion, At, mem
  <1>2. "addversion" \in Writing
    BY DEF Writing
  <1>3. /\ c \in CallType /\ Made(store, t, c.op) /\ t # <<>> /\ Head(t) = t[1] /\ Tail(t) \in Seq(Instr)
        /\ Made(store, Tail(t), c.op) /\ c.op = "set" /\ g = Writer /\ c.val \in Secret /\ store \notin Unique
        /\ (Tail(t) # <<>> => Head(Tail(t)) \notin {"write", "await", "copy"})
    BY <1>1, <1>2, Writes
  <1>4. /\ Made(store, over, c.op) /\ ~Pending(over) /\ Head(over) = "emit" /\ over # <<>>
    BY Overs
  <1>5. CASE Refused(g, "failed")
    BY <1>1, <1>3, <1>5, Fails DEF Refused, Report
  <1>6. CASE Changed(g, q, over)
    <2>1. q \in Seq(Value) /\ Len(q) <= 1 /\ ~Absent(q) /\ q = <<c.val>>
      BY <1>3, RemoteAssumption DEF Value, Absent
    <2> HIDE DEF over, q
    <2> QED BY <1>1, <1>2, <1>3, <1>4, <1>6, <2>1, Changes
  <1>7. ASSUME Len(t) > 3, Go(g, c), UNCHANGED <<items, flight, cache>> PROVE RemoteInv'
    <2>1. CallsMade /\ StoreInv /\ AbsentInv /\ BytesInv
      BY DEF RemoteInv
    <2>2. PICK n \in CallType :
              /\ call' = [call EXCEPT ![g] = n] /\ n.todo = Tail(t) /\ n.op = c.op /\ n.val = c.val
              /\ n.err = c.err /\ n.absent = c.absent /\ n.stale = c.stale /\ n.served = c.served
      BY <1>1, <1>7, Onward
    <2>3. Pending(Tail(t))
      <3>1. /\ Len(t) \in Nat \ {0} /\ Len(Tail(t)) = Len(t) - 1
            /\ \A i \in 1 .. Len(t) - 1 : Tail(t)[i] = t[i + 1]
        BY <1>3, Tails
      <3>2. 1 \in 1 .. Len(t) /\ 2 \in 1 .. Len(t) /\ 2 \in 1 .. Len(Tail(t)) /\ Tail(t)[2] = t[3] /\ Len(t) >= 1 + 3
        BY <1>7, <3>1
      <3>3. Shaped(store, t, c.op, 1) /\ Shaped(store, t, c.op, 2)
        BY <1>3, <3>2 DEF Made
      <3>4. t[1 + 1] = "createempty"
        BY <1>1, <1>3, <3>2, <3>3 DEF Shaped
      <3>5. t[2 + 1] = "addversion"
        BY <3>3, <3>4 DEF Shaped
      <3> QED BY <1>2, <3>2, <3>5 DEF Pending
    <2>4. CallsMade'
      <3>1. items \in Seq(Value) /\ lookFailed \in BOOLEAN /\ cache \in [on : BOOLEAN, old : BOOLEAN] /\ flight \in FlightType
        BY <2>1 DEF CallsMade
      <3> QED BY <1>1, <1>3, <1>7, <2>1, <2>2, <3>1, CallStep
    <2>5. StoreInv'
      BY <1>1, <1>3, <1>7, <2>1, <2>2, <2>3, StoreKeeps
    <2>6. AbsentInv'
      <3>1. store \in Telling /\ n.err = "notfound" => Excused(n)
        BY <2>1, <2>2 DEF AbsentInv, Excused
      <3>2. Absent(items) => c.absent
        BY <1>1, Known
      <3> QED BY <1>1, <1>3, <1>7, <2>1, <2>2, <3>1, <3>2, AbsentKeeps
    <2>7. BytesInv'
      <3>1. ~At(g, "copy") /\ ~At(g, "evict")
        BY <1>1 DEF At
      <3> QED BY <1>1, <1>3, <1>7, <2>1, <2>2, <3>1, BytesKeeps
    <2> QED BY <2>4, <2>5, <2>6, <2>7 DEF RemoteInv
  <1> QED BY <1>5, <1>6, <1>7 DEF AddVersion

\* The secret is created, without a value yet.
LEMMA RemoteEmpties ==
    ASSUME RemoteInv, NEW g \in Caller, CreateEmpty(g)
    PROVE  RemoteInv'
  <1> DEFINE c == call[g]
             q == <<None>>
  <1>1. Busy(g) /\ Head(c.todo) = "createempty" /\ UNCHANGED <<store, bytes, same, lookFailed>>
    BY DEF CreateEmpty, At, mem
  <1>2. /\ Made(store, Tail(c.todo), c.op) /\ c.op = "set" /\ store \notin Unique /\ Pending(Tail(c.todo))
        /\ Tail(c.todo) # <<>> /\ Head(Tail(c.todo)) \notin {"write", "await", "copy"}
    BY <1>1, Writes
  <1>3. CASE Refused(g, "failed")
    BY <1>1, <1>2, <1>3, Fails DEF Refused, Report
  <1>4. ASSUME items = <<>>, Changed(g, q, Tail(c.todo)) PROVE RemoteInv'
    <2>1. q \in Seq(Value) /\ Len(q) <= 1
      BY DEF Value
    <2>2. Absent(items)
      BY <1>4 DEF Absent
    <2>3. c.absent
      BY <1>1, <2>2, Known
    <2> HIDE DEF q
    <2> QED BY <1>1, <1>2, <1>4, <2>1, <2>3, Changes
  <1> QED BY <1>3, <1>4 DEF CreateEmpty

\* The item is removed, the first of several.
LEMMA RemoteRemoves ==
    ASSUME RemoteInv, NEW g \in Caller, Remove(g)
    PROVE  RemoteInv'
  <1> DEFINE c == call[g]
             q == Tail(items)
  <1>1. Busy(g) /\ Head(c.todo) = "remove" /\ UNCHANGED <<store, bytes, same, lookFailed>>
    BY DEF Remove, Send, At, mem
  <1>2. /\ items \in Seq(Value) /\ Len(items) \in Nat /\ Made(store, Tail(c.todo), c.op) /\ c.op = "delete"
        /\ Tail(c.todo) # <<>> /\ Head(Tail(c.todo)) = "emit"
    BY <1>1, Writes
  <1>3. ASSUME NEW e \in ChangeFails(g), Refused(g, e) PROVE RemoteInv'
    <2>1. e \in Errors(store, "delete")["failed"]
      BY <1>2, <1>3 DEF ChangeFails
    <2>2. e \in Report /\ ~(store \in Telling /\ e = "notfound")
      BY <2>1, ErrorsOf
    <2> QED BY <1>1, <1>2, <1>3, <2>2, Fails DEF Refused
  <1>4. ASSUME items = <<>>, NEW e \in Errors(store, "delete")["absent"], Refused(g, e) PROVE RemoteInv'
    <2>1. e \in Report
      BY <1>4, ErrorsOf
    <2>2. Absent(items)
      BY <1>4 DEF Absent
    <2>3. c.absent
      BY <1>1, <2>2, Known
    <2> QED BY <1>1, <1>2, <1>4, <2>1, <2>3, Fails DEF Refused
  <1>5. ASSUME items # <<>>, Changed(g, q, Tail(c.todo)) PROVE RemoteInv'
    <2>1. q \in Seq(Value) /\ Len(q) = Len(items) - 1 /\ \A i \in 1 .. Len(q) : q[i] = items[i + 1] /\ i + 1 \in 1 .. Len(items)
      BY <1>2, <1>5
    <2> HIDE DEF q
    <2>2. store \in Updating /\ ~lookFailed => Len(items) <= 1
      BY DEF RemoteInv, StoreInv, OneItem
    <2>3. store \in Updating /\ ~lookFailed => Len(q) <= 1
      BY <1>2, <2>1, <2>2
    <2> QED BY <1>1, <1>2, <1>5, <2>1, <2>3, Changes
  <1> QED BY <1>3, <1>4, <1>5 DEF Remove

\* Every step keeps the invariant.
LEMMA RemoteStep ==
    ASSUME RemoteInv, [RemoteNext]_remoteVars
    PROVE  RemoteInv'
  <1>1. CASE UNCHANGED remoteVars
    BY <1>1, RemoteStays DEF remoteVars
  <1>2. CASE ClearCached \/ Expire
    BY <1>2, RemoteForgets
  <1>3. CASE TokenExpires
    BY <1>3, RemoteStays DEF TokenExpires, mem
  <1>4. CASE FlightReads
    BY <1>4, RemoteAnswers
  <1>5. CASE FlightFills
    BY <1>5, RemoteFills
  <1>6. ASSUME NEW g \in Caller,
               \/ CallGet(g) \/ CallList(g) \/ CallDelete(g) \/ \E v \in Secret : CallSet(g, v)
               \/ Select(g) \/ Hit(g) \/ Evict(g)
               \/ Fetch(g) \/ Cancel(g) \/ Copy(g)
               \/ Login(g) \/ Rejected(g) \/ Read(g) \/ List(g) \/ Look(g)
               \/ Create(g) \/ Edit(g) \/ Upsert(g) \/ AddVersion(g) \/ CreateEmpty(g)
               \/ Verify(g) \/ Remove(g) \/ Emit(g) \/ Use(g)
        PROVE  RemoteInv'
    BY <1>6, RemoteCalls, RemoteSelects, RemoteHits, RemoteEvicts, RemoteFetches, RemoteQuiet, RemoteReads,
       RemoteLooks, RemoteCreates, RemoteEdits, RemoteUpserts, RemoteAdds, RemoteEmpties, RemoteRemoves,
       RemoteEmits, RemoteUses
  <1> QED BY <1>1, <1>2, <1>3, <1>4, <1>5, <1>6 DEF RemoteNext

\* It holds at the start.
LEMMA RemoteStart ==
    ASSUME RemoteInit
    PROVE  RemoteInv
  <1>1. /\ store \in DOMAIN Backends /\ call = [g \in Caller |-> Idle] /\ lookFailed = FALSE
        /\ items \in {<<>>} \cup {<<v>> : v \in Secret} \cup {<<None>>} /\ bytes = [h \in Holder |-> None] /\ same = [h \in Holder |-> {h}]
        /\ cache = [on |-> FALSE, old |-> FALSE]
        /\ flight = [on |-> FALSE, read |-> FALSE, res |-> None, err |-> "ok", late |-> FALSE, absent |-> FALSE]
    BY RemoteAssumption DEF RemoteInit
  <1>2. \A g \in Caller : call[g] = Idle
    BY <1>1
  <1>3. Idle \in CallType /\ Idle.op = "none" /\ Idle.todo = <<>> /\ Idle.err = "ok" /\ Idle.served = None
    BY DEF Idle, CallType, Value, Report
  <1>4. items \in Seq(Value) /\ Len(items) <= 1
    <2>1. CASE items = <<>>
      BY <2>1
    <2>2. ASSUME NEW v \in Value, items = <<v>> PROVE items \in Seq(Value) /\ Len(items) <= 1
      BY <2>2
    <2>3. items = <<>> \/ \E v \in Value : items = <<v>>
      BY <1>1 DEF Value
    <2> QED BY <2>1, <2>2, <2>3
  <1>5. flight \in FlightType /\ cache \in [on : BOOLEAN, old : BOOLEAN]
    BY <1>1 DEF FlightType, Value
  <1>6. \A g \in Caller : ~Busy(g) /\ Writer \in Caller
    BY <1>2, <1>3, RemoteAssumption DEF Busy
  <1>7. CallsMade
    <2>1. call \in [Caller -> CallType]
      BY <1>1, <1>3
    <2>2. \A g \in Caller : Made(store, call[g].todo, call[g].op)
      BY <1>2, <1>3, Overs
    <2> QED BY <1>1, <1>2, <1>3, <1>4, <1>5, <1>6, <2>1, <2>2, RemoteAssumption DEF CallsMade
  <1>8. StoreInv
    BY <1>2, <1>3, <1>4, <1>6, RemoteAssumption DEF StoreInv, OneItem, At
  <1>9. AbsentInv
    BY <1>1, <1>2, <1>3, <1>6 DEF AbsentInv, At, Missed
  <1>10. BytesInv
    <2>1. bytes \in [Holder -> Value \cup {Wiped}] /\ same \in [Holder -> SUBSET Holder]
      BY <1>1 DEF Value
    <2>2. \A g \in Caller : Apart(g)
      BY <1>1 DEF Apart, Holder
    <2>3. (\A h \in Holder : bytes[h] # Wiped) /\ \A g \in Caller : call[g].served # Wiped
      BY <1>1, <1>2, <1>3, RemoteAssumption
    <2>4. Fresh /\ ~flight.read /\ ~Busy(Writer) /\ \A g \in Caller : Bare(g)
      BY <1>1, <1>6, RemoteAssumption DEF Fresh, Bare, At
    <2> QED BY <2>1, <2>2, <2>3, <2>4 DEF BytesInv
  <1> QED BY <1>7, <1>8, <1>9, <1>10 DEF RemoteInv

\* The invariant holds throughout.
LEMMA RemoteInvAlways == RemoteSpec => []RemoteInv
  <1>1. RemoteInit => RemoteInv
    BY RemoteStart
  <1>2. RemoteInv /\ [RemoteNext]_remoteVars => RemoteInv'
    BY RemoteStep
  <1> QED BY <1>1, <1>2, PTL DEF RemoteSpec

\* Whatever answer gets lost and whichever lookup fails, Set and Delete of the backends
\* that replace by name, or by looking the item up (the Set of bw.go and op.go, awssm.go's,
\* gcpsm.go's and the others'), leave at most one item under a path, and a Set that has
\* reported success has stored exactly its value; a Set of bw or op that took a failed
\* lookup for an absent item is the one exception.
THEOREM RemoteStoreHolds == RemoteSpec => []StoreHolds
  <1>1. RemoteInv => StoreHolds
    <2> SUFFICES ASSUME RemoteInv PROVE OneItem /\ AckedStored
      BY DEF StoreHolds
    <2>1. OneItem
      BY DEF RemoteInv, StoreInv
    <2>2. AckedStored
      <3>1. ~Busy(Writer) => ~Pending(call[Writer].todo)
        BY Overs DEF Busy
      <3> QED BY <3>1 DEF RemoteInv, StoreInv, AckedStored
    <2> QED BY <2>1, <2>2
  <1> QED BY <1>1, RemoteInvAlways, PTL

\* What a Get of a remote backend returns: while no write is under way, the item in the
\* cache of bw and op is the one stored, with or without the field, unless a write
\* overlapped the fetch that cached it (fetchItem, evictCacheEntry); a backend that knows
\* a missing secret by a status or a phrase of its own reports not found only when the
\* secret was absent since the call or the fetch it joined began, or was looked for in
\* such an overlapped item; and nobody else's wipe reaches the bytes a caller was given
\* (the copy that op.go's Get makes of a shared item).
THEOREM RemoteReadsTrue == RemoteSpec => []ReadsTrue
  <1>1. RemoteInv => ReadsTrue
    <2> SUFFICES ASSUME RemoteInv PROVE CacheFresh /\ NotFoundTrue /\ OwnBytes
      BY DEF ReadsTrue
    <2>1. CacheFresh
      <3> SUFFICES ASSUME store \in Unique, cache.on, ~cache.old, ~Changing PROVE items = <<bytes["cache"]>>
        BY DEF CacheFresh, Unique
      <3>1. ~Dirty
        BY RemoteAssumption DEF Dirty, At, Changing
      <3>2. Fresh
        BY <3>1 DEF RemoteInv, BytesInv
      <3> QED BY <3>2 DEF Fresh
    <2>2. NotFoundTrue
      BY DEF RemoteInv, AbsentInv, NotFoundTrue, Excused
    <2>3. OwnBytes
      BY DEF RemoteInv, BytesInv, OwnBytes, Sole, Unique, Named
    <2> QED BY <2>1, <2>2, <2>3
  <1> QED BY <1>1, RemoteInvAlways, PTL
===============================================================================
