---------------------------- MODULE RemoteStore ----------------------------
(***************************************************************************)
(* The password managers and secret services behind backend.Backend, seen  *)
(* through vault.Get, Set, Delete and List, for one path.  Every backend   *)
(* function is a short program of instructions (look the item up, create   *)
(* it, drop the cache entry ...); the actions execute one instruction of   *)
(* one goroutine at a time.  What differs between the backends is their    *)
(* programs, how they report a failure, whether they cache, and whose      *)
(* bytes a Get returns.                                                    *)
(***************************************************************************)
EXTENDS Naturals, Sequences

CONSTANTS
  Caller,        \* goroutines of one process
  Writer,        \* the one that also calls Set, Delete and List
  Secret,        \* values
  Stores,        \* backends explored
  MaxItems,      \* bound: items of one title the service holds
  Wiped, None

VARIABLES
  store,         \* the configured backend
  selected,      \* dispatch: "none", "open" or "failed" (sync.Once)
  items,         \* the service: the values stored under the path, None for an item without
  token,         \* infisical: "none", "valid" or "expired" access token
  bytes,         \* the bytes each caller, and the cache, refers to, None where there are none
  same,          \* those that refer to one slice
  cache,         \* the cached item: present, and whether it may be old
  flight,        \* the singleflight fetch in progress
  call,          \* the call of each goroutine
  lookFailed     \* a Set took a failed lookup for an absent item

remoteVars == <<store, selected, items, token, bytes, same, cache, flight, call, lookFailed>>
mem == <<bytes, same>>

(* ---- what each backend's functions do ---- *)

\* The Errors tables say what a cause may be reported as: a backend that looks for
\* "not found" or "404" anywhere in an error text also finds it in other errors.

\* Mutants: op without the second eviction, gcp without the second attempt.
KeepsOldItem == <<"evict", "look", "write", "verify">>
CreatesOnly  == <<"addversion", "createempty">>

BwGet      == <<"hit", "fetch", "copy">>
BwSet      == <<"evict", "look", "write", "evict">>
BwDelete   == <<"evict", "look", "remove">>
BwList     == <<"list">>
BwErrors   == [absent |-> {"notfound"}, locked |-> {"locked"}, failed |-> {"failed", "notfound"}]
OpGet      == <<"hit", "fetch", "copy">>
OpSet      == <<"evict", "look", "write", "evict", "verify">>
OpDelete   == <<"evict", "remove">>
OpList     == <<"list">>
OpErrors   == [absent |-> {"notfound"}, locked |-> {"locked"}, failed |-> {"failed"}]
ProtonGet  == <<"hit", "fetch">>
ProtonSet  == <<"create">>
ProtonDelete == <<"remove">>
ProtonList == <<"list">>
ProtonErrors == [absent |-> {"notfound"}, locked |-> {"locked", "notfound"}, failed |-> {"failed", "notfound"}]
KeeperGet  == <<"hit", "fetch">>
KeeperSet  == <<"create">>
KeeperDelete == <<"remove">>
KeeperList == <<"list">>
KeeperErrors == [absent |-> {"notfound"}, locked |-> {"locked", "notfound"}, failed |-> {"failed", "notfound"}]
LastpassGet == <<"fetch">>
LastpassSet == <<"create">>
LastpassDelete == <<"remove">>
LastpassList == <<"list">>
LastpassErrors == [absent |-> {"notfound"}, locked |-> {"locked", "notfound"}, failed |-> {"failed", "notfound"}]
InfisicalGet == <<"login", "read">>
InfisicalSet == <<"login", "create">>
InfisicalDelete == <<"login", "remove">>
InfisicalList == <<"login", "list">>
VaultKVGet == <<"read">>
VaultKVSet == <<"upsert">>
VaultKVDelete == <<"remove">>
VaultKVList == <<"list">>
AzureGet   == <<"read">>
AzureSet   == <<"upsert">>
AzureDelete == <<"remove">>
AzureList  == <<"list">>
DopplerGet == <<"read">>
DopplerSet == <<"upsert">>
DopplerDelete == <<"remove">>
DopplerList == <<"list">>
ConnectGet == <<"look", "read">>
ConnectSet == <<"create">>
ConnectDelete == <<"look", "remove">>
ConnectList == <<"list">>
AwsGet     == <<"read">>
AwsSet     == <<"look", "write">>
AwsDelete  == <<"remove">>
AwsList    == <<"list">>
GcpGet     == <<"read">>
GcpSet     == <<"addversion", "createempty", "addversion">>
GcpDelete  == <<"remove">>
GcpList    == <<"list">>

\* the services reached over HTTP or an SDK have no ErrLocked of their own
ServiceErrors == [absent |-> {"notfound"}, locked |-> {"failed"}, failed |-> {"failed"}]
VaultKVErrors == [absent |-> {"notfound"}, locked |-> {"failed", "notfound"}, failed |-> {"failed", "notfound"}]
AzureErrors   == [absent |-> {"notfound"}, locked |-> {"failed"}, failed |-> {"failed", "notfound"}]

\* removing a KV v2 secret that does not exist succeeds
VaultKVDeleteErrors == [VaultKVErrors EXCEPT !.absent = {"ok"}]

Backends ==
  [bw        |-> [get |-> BwGet, set |-> BwSet, delete |-> BwDelete, list |-> BwList],
   op        |-> [get |-> OpGet, set |-> OpSet, delete |-> OpDelete, list |-> OpList],
   proton    |-> [get |-> ProtonGet, set |-> ProtonSet, delete |-> ProtonDelete, list |-> ProtonList],
   keeper    |-> [get |-> KeeperGet, set |-> KeeperSet, delete |-> KeeperDelete, list |-> KeeperList],
   lastpass  |-> [get |-> LastpassGet, set |-> LastpassSet, delete |-> LastpassDelete, list |-> LastpassList],
   infisical |-> [get |-> InfisicalGet, set |-> InfisicalSet, delete |-> InfisicalDelete, list |-> InfisicalList],
   vault     |-> [get |-> VaultKVGet, set |-> VaultKVSet, delete |-> VaultKVDelete, list |-> VaultKVList],
   azure     |-> [get |-> AzureGet, set |-> AzureSet, delete |-> AzureDelete, list |-> AzureList],
   doppler   |-> [get |-> DopplerGet, set |-> DopplerSet, delete |-> DopplerDelete, list |-> DopplerList],
   connect   |-> [get |-> ConnectGet, set |-> ConnectSet, delete |-> ConnectDelete, list |-> ConnectList],
   aws       |-> [get |-> AwsGet, set |-> AwsSet, delete |-> AwsDelete, list |-> AwsList],
   gcp       |-> [get |-> GcpGet, set |-> GcpSet, delete |-> GcpDelete, list |-> GcpList]]

Errors(b, op) ==
  CASE b = "bw"       -> BwErrors
    [] b = "op"       -> OpErrors
    [] b = "proton"   -> ProtonErrors
    [] b = "keeper"   -> KeeperErrors
    [] b = "lastpass" -> LastpassErrors
    [] b = "vault"    -> IF op = "delete" THEN VaultKVDeleteErrors ELSE VaultKVErrors
    [] b = "azure"    -> AzureErrors
    [] OTHER -> ServiceErrors

\* the backends that know a missing secret by a status or by a phrase of its own
Telling == {"op", "infisical", "doppler", "connect", "aws", "gcp"}

\* backends that keep an item in memory for a minute
Caching == {"bw", "op", "proton", "keeper"}

\* bw and op refuse a title that several items carry; an item holds every field of a
\* connection, and the path is one of the fields (None where the item lacks it)
Unique == {"bw", "op"}

\* the services that know a secret by its name hold one of each name
Named == {"infisical", "vault", "azure", "doppler", "aws", "gcp"}

ASSUME RemoteAssumption ==
    /\ Stores \subseteq DOMAIN Backends /\ Writer \in Caller /\ "cache" \notin Caller
    /\ None \notin Secret /\ Wiped \notin Secret \cup {None}

(* ---- the calls ---- *)

Idle == [op |-> "none", val |-> None, todo |-> <<>>, err |-> "ok",
         found |-> FALSE, absent |-> FALSE, stale |-> FALSE, retried |-> FALSE, served |-> None]

\* a call that has returned: its result is all that is left of it
Ended(e) == [Idle EXCEPT !.err = IF e \in {"ok", "notfound"} THEN e ELSE "failed"]

Busy(g)  == call[g].todo # <<>>
At(g, i) == Busy(g) /\ Head(call[g].todo) = i
Absent(q) == \A i \in 1..Len(q) : q[i] = None

\* go on to the next instruction
Go(g, c) == call' = [call EXCEPT ![g] = [c EXCEPT !.todo = Tail(@)]]

\* a backend error: the rest of the backend's program is skipped, the event is not
Fail(g, e) == [call[g] EXCEPT !.err = e, !.todo = <<"fail", "emit", "use">>]

(* ---- slices: who refers to the same bytes ---- *)

Holder == Caller \cup {"cache"}

\* every holder in xs now refers to one new slice that holds v
NewSlice(xs, v) ==
  /\ bytes' = [h \in Holder |-> IF h \in xs THEN v ELSE bytes[h]]
  /\ same' = [h \in Holder |-> IF h \in xs THEN xs ELSE same[h] \ xs]

\* x refers to the slice y refers to
Alias(x, y) ==
  LET all == same[y] \cup {x}
  IN  /\ bytes' = [bytes EXCEPT ![x] = bytes[y]]
      /\ same' = [h \in Holder |-> IF h \in all THEN all ELSE same[h] \ {x}]

\* x drops its slice, overwriting the bytes when wipe holds
Release(x, wipe) ==
  /\ bytes' = [h \in Holder |-> IF h = x THEN None
                                ELSE IF wipe /\ h \in same[x] /\ bytes[x] # None THEN Wiped ELSE bytes[h]]
  /\ same' = [h \in Holder |-> IF h = x THEN {x} ELSE same[h] \ {x}]

RemoteInit ==
  /\ store \in Stores
  /\ selected = "none" /\ token = "none"
  /\ items \in {<<>>} \cup {<<v>> : v \in Secret} \cup (IF store \in Unique THEN {<<None>>} ELSE {})
  /\ bytes = [h \in Holder |-> None] /\ same = [h \in Holder |-> {h}]
  /\ cache = [on |-> FALSE, old |-> FALSE]
  /\ flight = [on |-> FALSE, read |-> FALSE, res |-> None, err |-> "ok", late |-> FALSE, absent |-> FALSE]
  /\ call = [g \in Caller |-> Idle]
  /\ lookFailed = FALSE

\* vault.Get, Set, Delete, List: select the backend, check the audit log,
\* run the backend's function, record the event, hand over the result
VaultGet(b)    == <<"select">> \o Backends[b].get \o <<"emit", "use">>
VaultSet(b)    == <<"select">> \o Backends[b].set \o <<"emit", "use">>
VaultDelete(b) == <<"select">> \o Backends[b].delete \o <<"emit", "use">>
VaultList(b)   == <<"select">> \o Backends[b].list \o <<"emit", "use">>

Begin(g, op, v, p) ==
  /\ ~Busy(g)
  /\ call' = [call EXCEPT ![g] = [Idle EXCEPT !.op = op, !.val = v, !.todo = p,
                                              !.absent = Absent(items)]]
  /\ UNCHANGED <<store, selected, items, token, mem, cache, flight, lookFailed>>

CallGet(g)    == Begin(g, "get", None, VaultGet(store))
CallList(g)   == g = Writer /\ Begin(g, "list", None, VaultList(store))
CallSet(g, v) == g = Writer /\ Begin(g, "set", v, VaultSet(store))
CallDelete(g) == g = Writer /\ Begin(g, "delete", None, VaultDelete(store))

\* The instance, or the error of opening it, is kept for the process; a call is
\* refused before it reaches the backend when the audit log is not ready.
Select(g) ==
  /\ At(g, "select")
  /\ selected' \in IF selected = "none" THEN {"open", "failed"} ELSE {selected}
  /\ IF selected' = "failed" THEN call' = [call EXCEPT ![g] = Ended("unavailable")]
     ELSE \/ Go(g, call[g])
          \/ call' = [call EXCEPT ![g] = Ended("audit")]
  /\ UNCHANGED <<store, items, token, mem, cache, flight, lookFailed>>

ClearCached ==
  /\ selected # "none" /\ \A g \in Caller : ~Busy(g)
  /\ selected' = "none" /\ token' = "none"
  /\ cache' = [on |-> FALSE, old |-> FALSE]
  /\ Release("cache", FALSE)
  /\ UNCHANGED <<store, items, flight, call, lookFailed>>

(* ---- the cache ---- *)

\* a Set or Delete is under way
Changing == \E g \in Caller : Busy(g) /\ call[g].op \in {"set", "delete"}

\* A hit skips the fetch, the next instruction.  The history remembers a hit on an
\* item that a change has overlapped.
Hit(g) ==
  /\ At(g, "hit")
  /\ IF cache.on
     THEN /\ Alias(g, "cache")
          /\ Go(g, [call[g] EXCEPT !.todo = Tail(@), !.stale = @ \/ cache.old \/ Changing])
     ELSE Go(g, call[g]) /\ UNCHANGED mem
  /\ UNCHANGED <<store, selected, items, token, cache, flight, lookFailed>>

\* bw overwrites the bytes of an entry that it drops
Expire ==
  /\ cache.on
  /\ Release("cache", store = "bw")
  /\ cache' = [on |-> FALSE, old |-> FALSE]
  /\ UNCHANGED <<store, selected, items, token, flight, call, lookFailed>>

Evict(g) ==
  /\ At(g, "evict")
  /\ Release("cache", store = "bw")
  /\ cache' = [on |-> FALSE, old |-> FALSE]
  /\ Go(g, call[g])
  /\ UNCHANGED <<store, selected, items, token, flight, lookFailed>>

(* ---- reading ---- *)

\* the answers of the service to a read: the item, or an error
Found(q) ==
  IF q = <<>> \/ (store \notin Unique /\ Absent(q)) THEN {[val |-> None, err |-> "absent"]}
  ELSE IF store \in Unique /\ Len(q) > 1 THEN {[val |-> None, err |-> "failed"]}
  ELSE IF store \in {"proton", "keeper"} THEN {[val |-> q[i], err |-> "ok"] : i \in 1..Len(q)}
  ELSE {[val |-> q[1], err |-> "ok"]}

Answers == Found(items) \cup {[val |-> None, err |-> e] : e \in {"locked", "failed"}}

\* singleflight: the first caller starts the fetch, later ones wait for it
Fetch(g) ==
  /\ At(g, "fetch")
  /\ IF flight.on
     THEN /\ call' = [call EXCEPT ![g] = [call[g] EXCEPT !.todo = <<"await">> \o Tail(@),
                                                         !.absent = @ \/ flight.absent]]
          /\ flight' = flight
     ELSE /\ flight' = [on |-> TRUE, read |-> FALSE, res |-> None, err |-> "ok", late |-> FALSE,
                    absent |-> Absent(items)]
          /\ call' = [call EXCEPT ![g] = [call[g] EXCEPT !.todo = <<"await">> \o Tail(@)]]
  /\ UNCHANGED <<store, selected, items, token, mem, cache, lookFailed>>

FlightReads ==
  /\ flight.on /\ ~flight.read
  /\ \E a \in Answers : flight' = [flight EXCEPT !.read = TRUE, !.res = a.val, !.err = a.err]
  /\ UNCHANGED <<store, selected, items, token, mem, cache, call, lookFailed>>

\* the fetched item is cached and handed to everyone who waits
Deleting == \E g \in Caller : Busy(g) /\ call[g].op = "delete"

FlightFills ==
  /\ flight.on /\ flight.read
  /\ \E e \in IF flight.err = "ok" THEN {"ok"} ELSE Errors(store, "get")[flight.err] :
     LET ok == flight.err = "ok"
         waiting == {g \in Caller : At(g, "await")}
     IN  /\ IF ok THEN NewSlice(waiting \cup (IF store \in Caching THEN {"cache"} ELSE {}), flight.res)
            ELSE UNCHANGED mem
         /\ cache' = IF ok /\ store \in Caching THEN [on |-> TRUE, old |-> flight.late \/ Deleting] ELSE cache
         /\ call' = [g \in Caller |->
              IF g \notin waiting THEN call[g]
              ELSE [(IF ok THEN call[g] ELSE Fail(g, e)) EXCEPT !.todo = Tail(@)]]
  /\ flight' = [flight EXCEPT !.on = FALSE, !.read = FALSE, !.res = None, !.err = "ok", !.late = FALSE, !.absent = FALSE]
  /\ UNCHANGED <<store, selected, items, token, lookFailed>>

\* the context of a waiting caller ends
Cancel(g) ==
  /\ At(g, "await")
  /\ Go(g, Fail(g, "canceled"))
  /\ UNCHANGED <<store, selected, items, token, mem, cache, flight, lookFailed>>

\* bw and op look for the field in the item and copy it
Copy(g) ==
  /\ At(g, "copy")
  /\ IF bytes[g] = None THEN Release(g, FALSE) /\ Go(g, Fail(g, "notfound"))
     ELSE NewSlice({g}, bytes[g]) /\ Go(g, call[g])
  /\ UNCHANGED <<store, selected, items, token, cache, flight, lookFailed>>

(* ---- requests to a service ---- *)

\* infisical: a request with no token logs in first
Login(g) ==
  /\ At(g, "login")
  /\ IF token # "none" THEN token' = token /\ Go(g, call[g])
     ELSE \/ token' = "valid" /\ Go(g, call[g])
          \/ token' = token /\ Go(g, Fail(g, "failed"))
  /\ UNCHANGED <<store, selected, items, mem, cache, flight, lookFailed>>

TokenExpires ==
  /\ token = "valid" /\ token' = "expired"
  /\ UNCHANGED <<store, selected, items, mem, cache, flight, call, lookFailed>>

\* infisical: 401 clears the token; one more attempt after a new login
Unauthorized(g) == store = "infisical" /\ token # "valid"

Rejected(g) ==
  /\ \E i \in {"read", "create", "remove", "list"} : At(g, i)
  /\ Unauthorized(g)
  /\ \/ token' = "valid" /\ ~call[g].retried /\ call' = [call EXCEPT ![g] = [call[g] EXCEPT !.retried = TRUE]]
     \/ token' = "none" /\ Go(g, Fail(g, "failed"))
  /\ UNCHANGED <<store, selected, items, mem, cache, flight, lookFailed>>

Send(g, i) == At(g, i) /\ ~Unauthorized(g)

Read(g) ==
  /\ Send(g, "read")
  /\ \E a \in Answers :
       IF a.err = "ok" THEN NewSlice({g}, a.val) /\ Go(g, call[g])
       ELSE UNCHANGED mem /\ \E e \in Errors(store, "get")[a.err] : Go(g, Fail(g, e))
  /\ UNCHANGED <<store, selected, items, token, cache, flight, lookFailed>>

List(g) ==
  /\ Send(g, "list")
  /\ \/ Go(g, call[g])
     \/ Go(g, Fail(g, "locked")) \/ Go(g, Fail(g, "failed"))
  /\ UNCHANGED <<store, selected, items, token, mem, cache, flight, lookFailed>>

\* bw and op take every failed lookup of a Set for an absent item
LookFails(g, e) ==
  IF store \in {"bw", "op"} /\ call[g].op = "set" THEN {[call[g] EXCEPT !.found = FALSE]}
  ELSE IF e = "absent" /\ store = "aws" THEN {[call[g] EXCEPT !.found = FALSE]}
  ELSE {Fail(g, r) : r \in Errors(store, call[g].op)[e]}

Look(g) ==
  /\ Send(g, "look")
  /\ \E a \in Answers :
       /\ \E c \in IF a.err = "ok" THEN {[call[g] EXCEPT !.found = TRUE]} ELSE LookFails(g, a.err) : Go(g, c)
       /\ lookFailed' = (lookFailed \/ (call[g].op = "set" /\ a.err \in {"locked", "failed"}
                                          /\ store \in {"bw", "op"}))
  /\ UNCHANGED <<store, selected, items, token, mem, cache, flight>>

\* A change the service applies; an answer can get lost on the way back.
Applied(g, q, next) ==
  /\ items' = q
  /\ flight' = [flight EXCEPT !.late = flight.on, !.absent = flight.on /\ (@ \/ Absent(q))]
  /\ call' = [h \in Caller |->
       IF h = g THEN next
       ELSE [call[h] EXCEPT !.absent = @ \/ (Busy(h) /\ Absent(q))]]

Refused(g, e) == Go(g, Fail(g, e)) /\ UNCHANGED <<items, flight, cache>>

\* what a failed change may be reported as
ChangeFails(g) == IF call[g].op = "delete" THEN Errors(store, "delete").failed ELSE {"failed"}

Changed(g, q, rest) ==
  \/ Applied(g, q, [call[g] EXCEPT !.todo = rest]) /\ cache' = cache
  \/ \E e \in ChangeFails(g) :
        \/ /\ Applied(g, q, [Fail(g, e) EXCEPT !.todo = Tail(@)])
           /\ cache' = [cache EXCEPT !.old = cache.on]
        \/ Refused(g, e)

\* a service that knows secrets by name refuses a second one of the name
Create(g) ==
  /\ \/ Send(g, "create")
     \/ At(g, "write") /\ ~call[g].found
  /\ IF store \in Named /\ items # <<>>
     THEN Refused(g, "failed")
     ELSE Len(items) < MaxItems /\ Changed(g, Append(items, call[g].val), Tail(call[g].todo))
  /\ UNCHANGED <<store, selected, token, mem, lookFailed>>

Edit(g) ==
  /\ At(g, "write") /\ call[g].found
  /\ IF items = <<>> THEN Refused(g, "failed")
     ELSE Changed(g, [items EXCEPT ![1] = call[g].val], Tail(call[g].todo))
  /\ UNCHANGED <<store, selected, token, mem, lookFailed>>

Upsert(g) ==
  /\ At(g, "upsert")
  /\ Changed(g, <<call[g].val>>, Tail(call[g].todo))
  /\ UNCHANGED <<store, selected, token, mem, lookFailed>>

\* gcp: add a version; when there is no such secret, create it and add again
AddVersion(g) ==
  /\ At(g, "addversion")
  /\ IF items = <<>>
     THEN IF Len(call[g].todo) > 3 THEN Go(g, call[g]) /\ UNCHANGED <<items, flight, cache>>
          ELSE Refused(g, "failed")
     ELSE Changed(g, <<call[g].val>>, <<"emit", "use">>)
  /\ UNCHANGED <<store, selected, token, mem, lookFailed>>

CreateEmpty(g) ==
  /\ At(g, "createempty")
  /\ IF items # <<>> THEN Refused(g, "failed")
     ELSE Changed(g, <<None>>, Tail(call[g].todo))
  /\ UNCHANGED <<store, selected, token, mem, lookFailed>>

\* op: read the item back; a different field is an error
Verify(g) ==
  /\ At(g, "verify")
  /\ \E a \in Answers :
       Go(g, IF a.err = "ok" /\ a.val = call[g].val THEN call[g] ELSE Fail(g, "failed"))
  /\ UNCHANGED <<store, selected, items, token, mem, cache, flight, lookFailed>>

Remove(g) ==
  /\ Send(g, "remove")
  /\ IF items = <<>>
     THEN \E e \in Errors(store, "delete").absent : Refused(g, e)
     ELSE IF store \in Unique /\ Len(items) > 1
     THEN \E e \in ChangeFails(g) : Refused(g, e)
     ELSE Changed(g, Tail(items), Tail(call[g].todo))
  /\ UNCHANGED <<store, selected, token, mem, lookFailed>>

(* ---- the end of a call ---- *)

\* an event that cannot be written refuses the result; the bytes of a read are cleared
EmitFails(g) ==
  IF call[g].op \in {"get", "list"} \/ call[g].err = "ok"
  THEN [call[g] EXCEPT !.err = "audit"] ELSE call[g]

Emit(g) ==
  /\ At(g, "emit")
  /\ \/ Go(g, call[g]) /\ UNCHANGED mem
     \/ Go(g, EmitFails(g)) /\ Release(g, TRUE)
  /\ UNCHANGED <<store, selected, items, token, cache, flight, lookFailed>>

\* the caller takes the value and wipes the slice, as backend.Backend demands
Use(g) ==
  /\ At(g, "use")
  /\ call' = [call EXCEPT ![g] =
       LET c == call[g] IN
       IF c.err # "ok" THEN [Ended(c.err) EXCEPT !.absent = c.absent /\ c.err = "notfound",
                                                 !.stale = c.stale /\ c.err = "notfound"]
       ELSE IF c.op = "get" THEN [Ended("ok") EXCEPT !.served = bytes[g]]
       ELSE IF c.op = "set" THEN [Ended("ok") EXCEPT !.op = "set", !.val = c.val]
       ELSE Ended("ok")]
  /\ Release(g, TRUE)
  /\ UNCHANGED <<store, selected, items, token, cache, flight, lookFailed>>

RemoteNext ==
  \/ ClearCached \/ Expire \/ TokenExpires \/ FlightReads \/ FlightFills
  \/ \E g \in Caller :
       \/ CallGet(g) \/ CallList(g) \/ CallDelete(g) \/ \E v \in Secret : CallSet(g, v)
       \/ Select(g) \/ Hit(g) \/ Evict(g)
       \/ Fetch(g) \/ Cancel(g) \/ Copy(g)
       \/ Login(g) \/ Rejected(g) \/ Read(g) \/ List(g) \/ Look(g)
       \/ Create(g) \/ Edit(g) \/ Upsert(g) \/ AddVersion(g) \/ CreateEmpty(g)
       \/ Verify(g) \/ Remove(g) \/ Emit(g) \/ Use(g)

RemoteSpec == RemoteInit /\ [][RemoteNext]_remoteVars

(* ---- properties ---- *)

\* backends whose Set looks for the item, or names it, and replaces it
Updating == {"bw", "op"} \cup Named

\* While no write is under way, the item that bw or op has in its cache, with or
\* without the field, is the one the service holds, unless a write overlapped the
\* fetch that cached it: Set drops the entry before and after it writes, Delete
\* before it removes.
CacheFresh ==
  store \in {"bw", "op"} /\ cache.on /\ ~cache.old /\ ~Changing => items = <<bytes["cache"]>>

\* A backend that updates in place never leaves two items under one path,
\* whatever fails or gets lost, except after a Set of bw or op that could not
\* look the item up and took it for absent.
OneItem == store \in Updating /\ ~lookFailed => Len(items) <= 1

\* After Set has returned success the service holds exactly the new value.
AckedStored ==
  store \in Updating /\ ~lookFailed /\ ~Busy(Writer)
    /\ call[Writer].op = "set" /\ call[Writer].err = "ok"
  => items = <<call[Writer].val>>

\* Set and Delete of every remote backend, with lost answers and failing
\* lookups: one item per path, and the value that was reported stored.
\* The parts name the exceptions.
StoreHolds == OneItem /\ AckedStored

\* A backend that knows a missing secret by a status or a phrase of its own reports
\* ErrNotFound only when the secret was absent at some moment since the call, or the
\* shared fetch it joined, began, and not because the call itself has removed it; an
\* unreachable or locked store is never reported as "not found".  The exception is an
\* item in op's cache that a Set or Delete has overlapped: a field that was stored
\* meanwhile is missing there for up to a minute.
NotFoundTrue ==
  store \in Telling =>
    \A g \in Caller : ~Busy(g) /\ call[g].err = "notfound" => call[g].absent \/ call[g].stale

\* The bytes a Get hands out are a secret and not bytes that somebody else has
\* wiped.  It holds for the backends that give every caller bytes of its own.
OwnBytes == store \in ({"op"} \cup Named \cup {"connect"}) => \A g \in Caller : call[g].served # Wiped

\* What a Get of a remote backend returns, with a cache, a shared fetch and a
\* writer beside it: the stored secret in bytes of its own, or an error that
\* says what is the matter.
\* The parts name the exceptions.
ReadsTrue == CacheFresh /\ NotFoundTrue /\ OwnBytes
=============================================================================
