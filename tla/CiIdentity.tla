----------------------------- MODULE CiIdentity -----------------------------
(***************************************************************************)
(* Verification of a CI job's identity token (internal/team/ci): the          *)
(* provider's signing keys are fetched, cached for a time and looked up by    *)
(* key ID; concurrent verifications share the cache and may fetch at the      *)
(* same time.  The provider publishes and withdraws keys at will.             *)
(***************************************************************************)
EXTENDS Naturals, FiniteSets

CONSTANTS CiKey,      \* the provider's signing keys, each its own key ID
          NoKid,      \* a token without a key ID
          CiVerifier, \* concurrent verifications
          CiTTL,      \* how long fetched keys are used
          CiMaxTime   \* bound on the clock

ASSUME CiAssumption == NoKid \notin CiKey /\ CiTTL \in Nat /\ CiMaxTime \in Nat

VARIABLES ciNow,      \* the clock
          ciPublished,\* the keys at the JWKS endpoint
          ciGone,     \* key -> when it was last withdrawn, CiMaxTime + 1 if never
          ciCache,    \* jwksCacheMap: {} or {[keys, at]}
          ciCall      \* verifier -> the verification in progress

ciVars == <<ciNow, ciPublished, ciGone, ciCache, ciCall>>

CiIdle  == [at |-> "idle"]
CiToken == [key : CiKey \cup {NoKid}, kid : CiKey \cup {NoKid}, exp : {0, CiMaxTime}, fits : BOOLEAN]

CiInit == /\ ciNow = 0 /\ ciPublished = CiKey /\ ciCache = {}
          /\ ciGone = [k \in CiKey |-> CiMaxTime + 1]
          /\ ciCall = [v \in CiVerifier |-> CiIdle]

CiTo(v, call) == ciCall' = [ciCall EXCEPT ![v] = call]
-----------------------------------------------------------------------------
\* The cache entry is fresh while it is at most its time to live old.
Fresh(now) == {e \in ciCache : now - e.at <= CiTTL}

\* Verify reads the clock, then the cache.
VerifyBegin(v) ==
    /\ ciCall[v].at = "idle"
    /\ IF Fresh(ciNow) # {}
       THEN \E e \in Fresh(ciNow) : CiTo(v, [at |-> "judge", began |-> ciNow, keys |-> e.keys])
       ELSE CiTo(v, [at |-> "fetch", began |-> ciNow])
    /\ UNCHANGED <<ciNow, ciPublished, ciGone, ciCache>>

\* fetchJWKS returns the endpoint's keys, those it can parse.
FetchJWKS(v) ==
    /\ ciCall[v].at = "fetch"
    /\ \E K \in SUBSET ciPublished : CiTo(v, [at |-> "store", began |-> ciCall[v].began, keys |-> K])
    /\ UNCHANGED <<ciNow, ciPublished, ciGone, ciCache>>

\* An endpoint that cannot be reached fails the verification.
FetchFailsOpen(v) ==
    /\ ciCall[v].at = "fetch"
    /\ IF ciCache = {} THEN CiTo(v, CiIdle)
       ELSE \E e \in ciCache : CiTo(v, [at |-> "judge", began |-> ciCall[v].began, keys |-> e.keys])
    /\ UNCHANGED <<ciNow, ciPublished, ciGone, ciCache>>
FetchFails(v) ==
    /\ ciCall[v].at = "fetch"
    /\ CiTo(v, CiIdle)
    /\ UNCHANGED <<ciNow, ciPublished, ciGone, ciCache>>

\* The keys are cached under the time the verification began; a slower fetch
\* replaces a faster one.
StoreJWKS(v) ==
    /\ ciCall[v].at = "store"
    /\ ciCache' = {[keys |-> ciCall[v].keys, at |-> ciCall[v].began]}
    /\ CiTo(v, [ciCall[v] EXCEPT !.at = "judge"])
    /\ UNCHANGED <<ciNow, ciPublished, ciGone>>
-----------------------------------------------------------------------------
\* The keys whose ID is the token's, or all of them when none has it.
Candidates(K, t) == LET own == {k \in K : t.kid \in {NoKid, k}} IN IF own = {} THEN K ELSE own

VerifySignature(K, t) == t.key \in Candidates(K, t)

\* Issuer, audience, repository and branch fit the caller's lists (fits), and the
\* token has not expired.
Accepts(K, t) == VerifySignature(K, t) /\ t.fits /\ ciNow <= t.exp

Verdict(v, t) ==
    IF Accepts(ciCall[v].keys, t)
    THEN [at |-> "accepted", began |-> ciCall[v].began, key |-> t.key] ELSE CiIdle

Judge(v) ==
    /\ ciCall[v].at = "judge"
    /\ \E out \in {Verdict(v, t) : t \in CiToken} : CiTo(v, out)
    /\ UNCHANGED <<ciNow, ciPublished, ciGone, ciCache>>

VerifyReturns(v) ==
    /\ ciCall[v].at = "accepted" /\ CiTo(v, CiIdle)
    /\ UNCHANGED <<ciNow, ciPublished, ciGone, ciCache>>

KeyRotates(k) ==
    /\ ciPublished' = IF k \in ciPublished THEN ciPublished \ {k} ELSE ciPublished \cup {k}
    /\ ciGone' = [ciGone EXCEPT ![k] = IF k \in ciPublished THEN ciNow ELSE CiMaxTime + 1]
    /\ UNCHANGED <<ciNow, ciCache, ciCall>>

CiTick == ciNow < CiMaxTime /\ ciNow' = ciNow + 1 /\ UNCHANGED <<ciPublished, ciGone, ciCache, ciCall>>

CiNext == \/ CiTick \/ \E k \in CiKey : KeyRotates(k)
          \/ \E v \in CiVerifier : \/ VerifyBegin(v) \/ FetchJWKS(v) \/ FetchFails(v)
                                   \/ StoreJWKS(v) \/ Judge(v) \/ VerifyReturns(v)
-----------------------------------------------------------------------------
\* A token is accepted only under a key that the provider still published at some
\* time at most the cache's time to live before the verification began, whatever
\* fetches overlap or fail: a withdrawn key is out of use after that time.
WithdrawnKeyRefused ==
    \A v \in CiVerifier : ciCall[v].at = "accepted" =>
        /\ ciCall[v].key \in CiKey
        /\ ciGone[ciCall[v].key] + CiTTL >= ciCall[v].began
=============================================================================
