------------------------------- MODULE Broker -------------------------------
(***************************************************************************)
(* The token broker (src/internal/broker): short-lived provider tokens in  *)
(* a bounded in-memory cache.  Goroutines of one process exchange, revoke  *)
(* and lock.  Each cache operation is atomic under the cache's mutex; the  *)
(* locked flag is an atomic of its own, and an exchange with the provider  *)
(* happens outside both.                                                   *)
(***************************************************************************)
EXTENDS Integers, FiniteSets

CONSTANTS
    Caller,      \* goroutines
    Key,         \* cache keys: provider, capability, actor, session, namespace
    Sessions,    \* the sets of keys that share a session
    Actors,      \* the sets of keys that share an actor, and the set of all keys
    MaxEntries,  \* maxEntries
    MaxToken,    \* bound: the provider issues tokens 1, ..., MaxToken
    NoKey         \* no key

ASSUME KeyAssumption   == Sessions \subseteq SUBSET Key /\ Actors \subseteq SUBSET Key
ASSUME BoundAssumption == MaxEntries \in Nat \ {0} /\ MaxToken \in Nat
ASSUME NoKeyAssumption  == NoKey \notin Key

BkToken == 1..MaxToken

\* A cache entry: its token, insertedAt, whether its bytes were zeroed, and the
\* goroutines whose result is the same byte slice.
Entry   == [tok : 0..MaxToken, at : 0..MaxToken, zeroed : BOOLEAN, shared : SUBSET Caller]
NoEntry == [tok |-> 0, at |-> 0, zeroed |-> FALSE, shared |-> {}]

\* A result in the hands of a goroutine.
Result   == [tok : 0..MaxToken, zeroed : BOOLEAN]
NoResult == [tok |-> 0, zeroed |-> FALSE]

BkPC == {"idle",
       "lookup",    \* Exchange: has seen the vault unlocked and the audit log ready
       "stale",     \*    has found an expired entry and let the read lock go
       "exchange",  \*    waits for the provider
       "set",       \*    has the provider's token
       "emit",      \*    has a token to hand out and no audit event yet
       "served",    \*    has handed out the token
       "revoke"}    \* RevokeAll: between two tokens

VARIABLES
    vault,    \* "open"; "locking": locked is set; "locked": OnVaultLock has returned
    cache,    \* cache[k]: the entry of k, or NoEntry
    minted,   \* how many tokens the provider has issued
    bkExpired,  \* tokens whose deadline has passed
    bkPc,       \* bkPc[t]
    key,      \* key[t]: the cache key of t's call, or NoKey
    got,      \* got[t]: the result t holds
    todo,     \* todo[t]: RevokeAll: keys still to revoke
    cut,      \* history: cut[k]: tokens that no later Exchange of k may be served
    since     \* history: since[t]: cut of t's key when its Exchange began

bkCallVars  == <<bkPc, key, got, todo, since>>
bkVars == <<vault, cache, minted, bkExpired, bkCallVars, cut>>

BkInit ==
    /\ vault = "open" /\ cache = [k \in Key |-> NoEntry]
    /\ minted = 0 /\ bkExpired = {}
    /\ bkPc = [t \in Caller |-> "idle"] /\ key = [t \in Caller |-> NoKey]
    /\ got = [t \in Caller |-> NoResult] /\ todo = [t \in Caller |-> {}]
    /\ cut = [k \in Key |-> {}] /\ since = [t \in Caller |-> {}]

Cached  == {k \in Key : cache[k].tok # 0}
Live(k) == k \in Cached /\ cache[k].tok \notin bkExpired

BkGoto(t, l) == bkPc' = [bkPc EXCEPT ![t] = l]

\* Results that are the same bytes as an entry that is zeroed are zeroed too.
ZeroEntries(ks) ==
    got' = [t \in Caller |->
              IF \E k \in ks : t \in cache[k].shared THEN [got[t] EXCEPT !.zeroed = TRUE] ELSE got[t]]

\* The entries of ks are zeroed and removed.
Drop(ks) ==
    /\ cache' = [k \in Key |-> IF k \in ks THEN NoEntry ELSE cache[k]]
    /\ ZeroEntries(ks)

-----------------------------------------------------------------------------
\* Exchange

\* The locked flag is clear and the audit log ready.
Begin(t, k) ==
    /\ bkPc[t] = "idle" /\ vault = "open"
    /\ key'   = [key   EXCEPT ![t] = k]
    /\ since' = [since EXCEPT ![t] = cut[k]]
    /\ BkGoto(t, "lookup")
    /\ UNCHANGED <<vault, cache, minted, bkExpired, got, todo, cut>>

\* Who shares an entry's bytes after a get: get copies them.
SharedOnGet(t) == {}

\* get finds a live entry.
Hit(t) ==
    LET k == key[t]
    IN  /\ bkPc[t] = "lookup" /\ Live(k)
        /\ got' = [got EXCEPT ![t] = [tok |-> cache[k].tok, zeroed |-> cache[k].zeroed]]
        /\ cache' = [cache EXCEPT ![k].shared = @ \cup SharedOnGet(t)]
        /\ BkGoto(t, "emit")
        /\ UNCHANGED <<vault, minted, bkExpired, key, todo, cut, since>>

\* get finds an expired entry and gives up the read lock ...
HitExpired(t) ==
    /\ bkPc[t] = "lookup" /\ key[t] \in Cached /\ ~Live(key[t])
    /\ BkGoto(t, "stale")
    /\ UNCHANGED <<vault, cache, minted, bkExpired, key, got, todo, cut, since>>

\* ... and deletes whatever the key holds by then.
DeleteStale(t) ==
    /\ bkPc[t] = "stale"
    /\ Drop({key[t]} \cap Cached)
    /\ BkGoto(t, "exchange")
    /\ UNCHANGED <<vault, minted, bkExpired, key, todo, cut, since>>

Miss(t) ==
    /\ bkPc[t] = "lookup" /\ key[t] \notin Cached
    /\ BkGoto(t, "exchange")
    /\ UNCHANGED <<vault, cache, minted, bkExpired, key, got, todo, cut, since>>

\* The provider answers with a token ...
Issue(t) ==
    /\ bkPc[t] = "exchange" /\ minted < MaxToken
    /\ minted' = minted + 1
    /\ got' = [got EXCEPT ![t] = [tok |-> minted + 1, zeroed |-> FALSE]]
    /\ BkGoto(t, "set")
    /\ UNCHANGED <<vault, cache, bkExpired, key, todo, cut, since>>

\* insertedAt: the clock is read between the provider's answer and the cache's
\* mutex, so that entries have the order of the answers, not of the insertions.
Stamp(t) == got[t].tok

\* Who shares a new entry's bytes: the cache keeps its own copy.
SharedOnSet(t) == {}

\* A new key does not fit any more.
Full == Cardinality(Cached) >= MaxEntries

\* evictOldestLocked: the entry that was inserted first.
Oldest == {k \in Cached : \A j \in Cached : cache[k].at <= cache[j].at}

\* set: an old entry of the key is replaced; a new key evicts the oldest entry
\* of a full cache.
Set(t) ==
    LET k   == key[t]
        new == [tok |-> got[t].tok, at |-> Stamp(t), zeroed |-> got[t].zeroed, shared |-> SharedOnSet(t)]
    IN  /\ bkPc[t] = "set"
        /\ \E out \in (IF k \in Cached THEN {{k}} ELSE IF Full THEN {{o} : o \in Oldest} ELSE {{}}) :
              /\ cache' = [j \in Key |-> IF j = k THEN new ELSE IF j \in out THEN NoEntry ELSE cache[j]]
              /\ ZeroEntries(out)
        /\ BkGoto(t, "emit")
        /\ UNCHANGED <<vault, minted, bkExpired, key, todo, cut, since>>

\* The audit event is written and the caller gets the result.
Emit(t) ==
    /\ bkPc[t] = "emit"
    /\ BkGoto(t, "served")
    /\ UNCHANGED <<vault, cache, minted, bkExpired, key, got, todo, cut, since>>

\* A caller zeroes its result; entries that share the bytes go with it.
ZeroResult(t) ==
    cache' = [k \in Key |->
                IF t \in cache[k].shared
                THEN [cache[k] EXCEPT !.zeroed = TRUE, !.shared = @ \ {t}] ELSE cache[k]]

BkReturn(t) ==
    /\ BkGoto(t, "idle")
    /\ key'   = [key   EXCEPT ![t] = NoKey]
    /\ got'   = [got   EXCEPT ![t] = NoResult]
    /\ since' = [since EXCEPT ![t] = {}]

\* No strategy, a provider error, or a failed audit event: what was obtained is
\* zeroed and withheld, but an entry that was set stays.
Fail(t) ==
    /\ bkPc[t] \in {"exchange", "emit"}
    /\ ZeroResult(t) /\ BkReturn(t)
    /\ UNCHANGED <<vault, minted, bkExpired, todo, cut>>

\* The caller has used the token and zeroes it.
BkDone(t) ==
    /\ bkPc[t] = "served"
    /\ ZeroResult(t) /\ BkReturn(t)
    /\ UNCHANGED <<vault, minted, bkExpired, todo, cut>>

-----------------------------------------------------------------------------
\* Revocation

\* Tokens of k on their way from the provider to the cache.
OnTheWay(k) == {got[t].tok : t \in {t \in Caller : bkPc[t] = "set" /\ key[t] = k}}

\* From now on none of the tokens issued so far is to be served for ks, except
\* those that are not in the cache yet.
Revoked(ks) == cut' = [k \in Key |-> IF k \in ks THEN 1..minted \ OnTheWay(k) ELSE cut[k]]

\* Slip: a revocation is recorded but its entries stay cached.
RevokeKeepsEntries(s) ==
    /\ Revoked(s)
    /\ UNCHANGED <<vault, cache, minted, bkExpired, bkPc, key, got, todo, since>>

\* Revoke: every entry of a session.
Revoke(s) ==
    /\ Drop(s \cap Cached)
    /\ Revoked(s)
    /\ UNCHANGED <<vault, minted, bkExpired, bkPc, key, todo, since>>

\* revokeByTokenID: one live entry.
RevokeToken(k) ==
    /\ Live(k)
    /\ Drop({k})
    /\ Revoked({k})
    /\ UNCHANGED <<vault, minted, bkExpired, bkPc, key, todo, since>>

\* revokeAllForActor: the live entries of an actor are listed ...
RevokeAll(t, a) ==
    /\ bkPc[t] = "idle"
    /\ todo' = [todo EXCEPT ![t] = {k \in a : Live(k)}]
    /\ BkGoto(t, "revoke")
    /\ UNCHANGED <<vault, cache, minted, bkExpired, key, got, cut, since>>

\* ... and revoked one by one; one that is gone or expired is skipped.
RevokeNext(t, k) ==
    /\ bkPc[t] = "revoke" /\ k \in todo[t]
    /\ todo' = [todo EXCEPT ![t] = @ \ {k}]
    /\ IF Live(k) THEN Drop({k}) /\ Revoked({k}) ELSE UNCHANGED <<cache, got, cut>>
    /\ UNCHANGED <<vault, minted, bkExpired, bkPc, key, since>>

RevokeAllReturn(t) ==
    /\ bkPc[t] = "revoke" /\ todo[t] = {}
    /\ BkGoto(t, "idle")
    /\ UNCHANGED <<vault, cache, minted, bkExpired, key, got, todo, cut, since>>

-----------------------------------------------------------------------------
\* Locking, expiry

\* OnVaultLock sets the flag ...
LockFlag ==
    /\ vault # "locking"
    /\ vault' = "locking"
    /\ UNCHANGED <<cache, minted, bkExpired, bkCallVars, cut>>

\* ... flushes the cache, and returns.
Flush ==
    /\ vault = "locking"
    /\ vault' = "locked"
    /\ Drop(Cached)
    /\ Revoked(Key)
    /\ UNCHANGED <<minted, bkExpired, bkPc, key, todo, since>>

BkUnlock ==
    /\ vault = "locked"
    /\ vault' = "open"
    /\ UNCHANGED <<cache, minted, bkExpired, bkCallVars, cut>>

BkExpire(n) ==
    /\ n \in 1..minted \ bkExpired
    /\ bkExpired' = bkExpired \cup {n}
    /\ UNCHANGED <<vault, cache, minted, bkCallVars, cut>>

\* evictExpired, every 30 seconds.
EvictExpired ==
    /\ \E k \in Cached : ~Live(k)
    /\ Drop({k \in Cached : ~Live(k)})
    /\ UNCHANGED <<vault, minted, bkExpired, bkPc, key, todo, cut, since>>

BkNext ==
    \/ \E t \in Caller :
          \/ \E k \in Key : Begin(t, k)
          \/ Hit(t) \/ HitExpired(t) \/ DeleteStale(t) \/ Miss(t)
          \/ Issue(t) \/ Set(t) \/ Emit(t) \/ Fail(t) \/ BkDone(t)
          \/ \E a \in Actors : RevokeAll(t, a)
          \/ \E k \in Key : RevokeNext(t, k)
          \/ RevokeAllReturn(t)
    \/ \E s \in Sessions : Revoke(s)
    \/ \E k \in Key : RevokeToken(k)
    \/ LockFlag \/ Flush \/ BkUnlock
    \/ \E n \in BkToken : BkExpire(n)
    \/ EvictExpired

BkSpec == BkInit /\ [][BkNext]_bkVars

-----------------------------------------------------------------------------
\* Properties

BkTypeOK ==
    /\ vault \in {"open", "locking", "locked"}
    /\ cache \in [Key -> Entry]
    /\ \A k \in Key : cache[k].tok = 0 <=> cache[k].at = 0
    /\ minted \in 0..MaxToken /\ bkExpired \subseteq BkToken
    /\ bkPc \in [Caller -> BkPC] /\ key \in [Caller -> Key \cup {NoKey}]
    /\ \A t \in Caller : bkPc[t] = "set" => got[t].tok # 0
    /\ got \in [Caller -> Result] /\ todo \in [Caller -> SUBSET Key]
    /\ cut \in [Key -> SUBSET BkToken] /\ since \in [Caller -> SUBSET BkToken]

\* The cache never holds more than maxEntries entries, whatever exchanges
\* overlap with evictions and deletions.
CacheBounded == Cardinality(Cached) <= MaxEntries

\* The bytes a caller holds are never zeroed under it, neither by an eviction,
\* a revocation or a flush of the entry they came from nor by another caller
\* that zeroes its own result for the same key.
ServedIntact == \A t \in Caller : bkPc[t] = "served" => ~got[t].zeroed

\* The inductive strengthening of ServedIntact: nothing shares its bytes.
IntactInv ==
    /\ \A k \in Key : cache[k].shared = {} /\ ~cache[k].zeroed
    /\ \A t \in Caller : ~got[t].zeroed

\* An Exchange that begins after a revocation of its key, or after the vault was
\* locked and opened again, is not served a token that was cached before: it is
\* fresh, or got a token that was on its way to the cache at that moment.
FreshAfterRevoke == \A t \in Caller : bkPc[t] = "served" => got[t].tok \notin since[t]

\* The cache of exchanged tokens under exchanges that overlap with evictions,
\* revocations and the vault's lock: it keeps its bound, zeroes no bytes that a
\* caller still holds, and serves nothing older than a revocation.
BrokerHolds == CacheBounded /\ ServedIntact /\ FreshAfterRevoke

\* The inductive strengthening of FreshAfterRevoke: what a revocation rules out is
\* neither cached nor on its way to the cache, and stays ruled out.
FreshInv ==
    /\ \A k \in Key : cut[k] \subseteq 1..minted /\ cache[k].tok \notin cut[k]
    /\ \A t \in Caller :
          /\ bkPc[t] = "set" => got[t].tok \notin cut[key[t]]
          /\ bkPc[t] \notin {"idle", "revoke"} => key[t] \in Key /\ since[t] \subseteq cut[key[t]]
          /\ bkPc[t] \in {"emit", "served"} => got[t].tok \notin since[t]
=============================================================================
