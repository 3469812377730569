--------------------------- MODULE ServiceProofs ---------------------------
(***************************************************************************)
(* Proofs about the commands and services around the vault: minting a      *)
(* GitHub token, the identity of a CI job, the cached Bitwarden session,   *)
(* the signed bundles, the UI server, setup, `run` and `call`, the forward *)
(* proxy, the team's files and the roots of trust.  Each holds for every   *)
(* number of processes, requests and values the constants allow.           *)
(***************************************************************************)
EXTENDS MintToken, CiIdentity, BwSession, SignedBundles, UiServer, Setup, RunCommand, ForwardProxy, Team,
        TrustRoots, NaturalsInduction, WellFoundedInduction, FiniteSetTheorems, TLAPS

-----------------------------------------------------------------------------
\* Minting

\* What each step of a mint may rely on: past the check the policy allowed the
\* request, past the comparison the reply is what was asked for, past the audit
\* its line is written.
MtInv ==
    /\ mtAt \in {"start", "post", "verify", "audit", "print", "ended"}
    /\ mtAt \in {"post", "verify", "audit", "print"} \/ mtResult = "printed" => CheckGitHubApp(mtPolicy, mtAsk)
    /\ mtAt \in {"audit", "print"} \/ mtResult = "printed" => VerifyReply(mtAsk, mtReply, MaxLifetime(mtPolicy))
    /\ mtAt = "print" \/ mtResult = "printed" => mtLine = "ok"
    /\ mtAt # "ended" => mtResult = "none"
    /\ mtAt \in {"start", "post"} => mtToken = "none"
    /\ FailedMintRevoked

\* Every step keeps the invariant of the mint.
LEMMA MtNextInv == MtInv /\ [MtNext]_mtVars => MtInv'
  <1> SUFFICES ASSUME MtInv, [MtNext]_mtVars PROVE MtInv'
    OBVIOUS
  <1>1. CASE UNCHANGED mtVars
    BY <1>1 DEF MtInv, mtVars, CheckGitHubApp, VerifyReply, MaxLifetime, FailedMintRevoked, ValidPolicy
  <1>2. ASSUME NEW p \in MtPolicy, NEW r \in MtAsk, MintCheck(p, r) PROVE MtInv'
    BY <1>2 DEF MtInv, MintCheck, MtEnd, FailedMintRevoked
  <1>3. CASE PostAccessToken
    BY <1>3 DEF MtInv, PostAccessToken, MtEnd, FailedMintRevoked
  <1>4. CASE MintScoped
    BY <1>4 DEF MtInv, MintScoped, MtRevoke, MtEnd, FailedMintRevoked
  <1>5. CASE MintAudit
    BY <1>5 DEF MtInv, MintAudit, MtRevoke, MtEnd, FailedMintRevoked
  <1>6. CASE MintPrint
    BY <1>6 DEF MtInv, MintPrint, MtEnd, FailedMintRevoked
  <1> QED BY <1>1, <1>2, <1>3, <1>4, <1>5, <1>6 DEF MtNext

\* For every policy, request and reply of GitHub, and whichever step fails: a token
\* that is printed is within the policy and audited, and a mint that fails leaves no
\* valid token behind but for the named exceptions (mint_cmd.go, github_app.go).
THEOREM MintedTokensHold == MtSpec => []MintHolds
  <1>1. MtInit => MtInv
    BY DEF MtInit, MtInv, FailedMintRevoked
  <1>2. MtInv => MintHolds
    <2> SUFFICES ASSUME MtInv, mtResult = "printed" PROVE PrintedWithinPolicy
      BY DEF MintHolds, MtInv, PrintedWithinPolicy
    <2>1. CheckGitHubApp(mtPolicy, mtAsk) /\ VerifyReply(mtAsk, mtReply, MaxLifetime(mtPolicy)) /\ mtLine = "ok"
      BY DEF MtInv
    <2> QED BY <2>1 DEF PrintedWithinPolicy, CheckGitHubApp, VerifyReply
  <1> QED BY <1>1, <1>2, MtNextInv, PTL DEF MtSpec

-----------------------------------------------------------------------------
\* The identity of a CI job

CiCalls ==
         {CiIdle}
    \cup [at : {"fetch"}, began : Nat]
    \cup [at : {"store", "judge"}, began : Nat, keys : SUBSET CiKey]
    \cup [at : {"accepted"}, began : Nat, key : CiKey]

CiTypeOK ==
    /\ ciNow \in 0 .. CiMaxTime /\ ciPublished \in SUBSET CiKey /\ ciGone \in [CiKey -> Nat]
    /\ ciCache \in SUBSET [keys : SUBSET CiKey, at : Nat] /\ ciCall \in [CiVerifier -> CiCalls]

\* A key that is published has not been withdrawn.
CiGoneInv == \A k \in ciPublished : ciGone[k] = CiMaxTime + 1

\* Cached keys were published at the time the cache names, or later.
CiCacheInv == \A e \in ciCache : e.at <= ciNow /\ \A k \in e.keys : ciGone[k] >= e.at

\* The keys a verification works with.
CiCallInv(v) ==
    /\ ciCall[v].at # "idle" => ciCall[v].began <= ciNow
    /\ ciCall[v].at = "store" => \A k \in ciCall[v].keys : ciGone[k] >= ciCall[v].began
    /\ ciCall[v].at = "judge" => \A k \in ciCall[v].keys : ciGone[k] + CiTTL >= ciCall[v].began
    /\ ciCall[v].at = "accepted" => ciCall[v].key \in CiKey /\ ciGone[ciCall[v].key] + CiTTL >= ciCall[v].began

CiInv == CiTypeOK /\ CiGoneInv /\ CiCacheInv /\ \A v \in CiVerifier : CiCallInv(v)

\* What a call record holds at each step.
LEMMA CiFields ==
    ASSUME NEW c \in CiCalls
    PROVE  /\ c.at \in {"idle", "fetch", "store", "judge", "accepted"}
           /\ c.at # "idle" => c.began \in Nat
           /\ c.at \in {"store", "judge"} => c.keys \in SUBSET CiKey
           /\ c.at = "accepted" => c.key \in CiKey
  BY DEF CiCalls, CiIdle

\* A verification makes a step of its own, on a cache that is as it was or holds
\* the keys it fetched.
LEMMA CiStep ==
    ASSUME CiInv, NEW v \in CiVerifier, NEW c \in CiCalls, CiTo(v, c), UNCHANGED <<ciNow, ciPublished, ciGone>>,
           c.at # "idle" => c.began <= ciNow,
           c.at = "store" => \A k \in c.keys : ciGone[k] >= c.began,
           c.at = "judge" => \A k \in c.keys : ciGone[k] + CiTTL >= c.began,
           c.at = "accepted" => c.key \in CiKey /\ ciGone[c.key] + CiTTL >= c.began,
           ciCache' \in SUBSET [keys : SUBSET CiKey, at : Nat],
           \A e \in ciCache' : e.at <= ciNow /\ \A k \in e.keys : ciGone[k] >= e.at
    PROVE  CiInv'
  <1>1. ciCall'[v] = c /\ \A o \in CiVerifier : o # v => ciCall'[o] = ciCall[o]
    BY DEF CiInv, CiTypeOK, CiTo
  <1>2. CiTypeOK'
    BY DEF CiInv, CiTypeOK, CiTo
  <1>3. CiGoneInv' /\ CiCacheInv'
    BY DEF CiInv, CiGoneInv, CiCacheInv
  <1>4. ASSUME NEW o \in CiVerifier PROVE CiCallInv(o)'
    <2>1. CASE o = v
      BY <1>1, <2>1 DEF CiCallInv
    <2>2. CASE o # v
      <3>1. CiCallInv(o) /\ ciCall'[o] = ciCall[o]
        BY <1>1, <2>2 DEF CiInv
      <3> QED BY <3>1 DEF CiCallInv
    <2> QED BY <2>1, <2>2
  <1> QED BY <1>2, <1>3, <1>4 DEF CiInv

\* Every step keeps the invariant of the key cache.
LEMMA CiNextInv == CiInv /\ [CiNext]_ciVars => CiInv'
  <1> SUFFICES ASSUME CiInv, [CiNext]_ciVars PROVE CiInv'
    OBVIOUS
  <1>0. /\ ciCache \in SUBSET [keys : SUBSET CiKey, at : Nat] /\ ciNow \in Nat /\ CiTTL \in Nat /\ ciGone \in [CiKey -> Nat]
        /\ \A e \in ciCache : e.at <= ciNow /\ \A k \in e.keys : ciGone[k] >= e.at
    BY CiAssumption DEF CiInv, CiTypeOK, CiCacheInv
  <1>1. CASE UNCHANGED ciVars
    <2>1. CiTypeOK' /\ CiGoneInv' /\ CiCacheInv'
      BY <1>1 DEF ciVars, CiInv, CiTypeOK, CiGoneInv, CiCacheInv
    <2>2. ASSUME NEW v \in CiVerifier PROVE CiCallInv(v)'
      BY <1>1 DEF ciVars, CiInv, CiCallInv
    <2> QED BY <2>1, <2>2 DEF CiInv
  <1>2. CASE CiTick
    <2>1. CiTypeOK' /\ CiGoneInv'
      BY <1>2, CiAssumption DEF CiTick, CiInv, CiTypeOK, CiGoneInv
    <2>2. CiCacheInv'
      BY <1>0, <1>2 DEF CiTick, CiCacheInv
    <2>3. ASSUME NEW v \in CiVerifier PROVE CiCallInv(v)'
      <3>1. CiCallInv(v) /\ ciCall[v] \in CiCalls /\ ciCall' = ciCall /\ ciGone' = ciGone /\ ciNow' = ciNow + 1
        BY <1>2 DEF CiTick, CiInv, CiTypeOK
      <3> QED BY <1>0, <3>1, CiFields DEF CiCallInv
    <2> QED BY <2>1, <2>2, <2>3 DEF CiInv
  <1>3. ASSUME NEW k \in CiKey, KeyRotates(k) PROVE CiInv'
    <2>1. /\ UNCHANGED <<ciNow, ciCache, ciCall>> /\ ciPublished' \in SUBSET CiKey
          /\ ciGone' \in [CiKey -> Nat] /\ ciGone'[k] = (IF k \in ciPublished THEN ciNow ELSE CiMaxTime + 1)
          /\ \A j \in CiKey : j # k => ciGone'[j] = ciGone[j]
      BY <1>3, CiAssumption DEF KeyRotates, CiInv, CiTypeOK
    <2>2. ciGone'[k] >= ciNow
      BY <2>1, CiAssumption DEF CiInv, CiTypeOK
    <2>3. CiTypeOK'
      BY <2>1 DEF CiInv, CiTypeOK
    <2>4. CiGoneInv'
      BY <1>3, <2>1 DEF KeyRotates, CiInv, CiGoneInv, CiTypeOK
    <2>5. CiCacheInv'
      BY <1>0, <2>1, <2>2 DEF CiCacheInv
    <2>6. ASSUME NEW v \in CiVerifier PROVE CiCallInv(v)'
      <3>1. PICK c \in CiCalls : c = ciCall[v] /\ c = ciCall'[v]
        BY <2>1 DEF CiInv, CiTypeOK
      <3>2. CiCallInv(v)
        BY DEF CiInv
      <3>3. ASSUME NEW j \in CiKey PROVE ciGone'[j] = ciGone[j] \/ ciGone'[j] >= ciNow
        BY <2>1, <2>2
      <3>4. ASSUME c.at # "idle", NEW j \in CiKey PROVE /\ (ciGone[j] >= c.began => ciGone'[j] >= c.began)
                                                        /\ (ciGone[j] + CiTTL >= c.began => ciGone'[j] + CiTTL >= c.began)
        <4>1. c.began \in Nat /\ c.began <= ciNow /\ ciGone'[j] \in Nat
          BY <2>1, <3>1, <3>2, <3>4, CiFields DEF CiCallInv
        <4> QED BY <1>0, <3>3, <4>1
      <3>5. c.at \in {"store", "judge"} => c.keys \in SUBSET CiKey
        BY CiFields
      <3> QED BY <2>1, <3>1, <3>2, <3>4, <3>5 DEF CiCallInv
    <2> QED BY <2>3, <2>4, <2>5, <2>6 DEF CiInv
  <1>4. ASSUME NEW v \in CiVerifier,
               VerifyBegin(v) \/ FetchJWKS(v) \/ FetchFails(v) \/ StoreJWKS(v) \/ Judge(v) \/ VerifyReturns(v)
        PROVE  CiInv'
    <2>1. PICK b \in CiCalls : b = ciCall[v]
      BY DEF CiInv, CiTypeOK
    <2>2. /\ b.at # "idle" => b.began \in Nat /\ b.began <= ciNow
          /\ b.at = "store" => b.keys \in SUBSET CiKey /\ \A k \in b.keys : ciGone[k] >= b.began
          /\ b.at = "judge" => b.keys \in SUBSET CiKey /\ \A k \in b.keys : ciGone[k] + CiTTL >= b.began
      BY <2>1, CiFields DEF CiInv, CiCallInv
    <2>3. CASE CiTo(v, CiIdle) /\ UNCHANGED <<ciNow, ciPublished, ciGone, ciCache>>
      <3>1. CiIdle \in CiCalls /\ CiIdle.at = "idle"
        BY DEF CiCalls, CiIdle
      <3> QED BY <1>0, <2>3, <3>1, CiStep
    <2>4. CASE VerifyBegin(v)
      <3>1. CASE Fresh(ciNow) # {}
        <4>1. PICK e \in Fresh(ciNow) : CiTo(v, [at |-> "judge", began |-> ciNow, keys |-> e.keys])
          BY <2>4, <3>1 DEF VerifyBegin
        <4>2. e \in ciCache /\ e.keys \in SUBSET CiKey /\ e.at \in Nat /\ ciNow - e.at <= CiTTL /\ \A k \in e.keys : ciGone[k] >= e.at
          BY <1>0, <4>1 DEF Fresh
        <4>3. PICK c : c = [at |-> "judge", began |-> ciNow, keys |-> e.keys]
          OBVIOUS
        <4>4. c \in CiCalls /\ c.at = "judge" /\ c.began = ciNow /\ c.keys = e.keys
          BY <1>0, <4>2, <4>3 DEF CiCalls
        <4>5. \A k \in c.keys : ciGone[k] + CiTTL >= c.began
          BY <1>0, <4>2, <4>4
        <4>6. c.began <= ciNow /\ CiTo(v, c) /\ UNCHANGED <<ciNow, ciPublished, ciGone, ciCache>>
          BY <1>0, <2>4, <4>1, <4>3, <4>4 DEF VerifyBegin
        <4> QED BY <1>0, <4>4, <4>5, <4>6, CiStep
      <3>2. CASE Fresh(ciNow) = {}
        <4>1. PICK c : c = [at |-> "fetch", began |-> ciNow]
          OBVIOUS
        <4>2. c \in CiCalls /\ c.at = "fetch" /\ c.began = ciNow
          BY <1>0, <4>1 DEF CiCalls
        <4>3. c.began <= ciNow /\ CiTo(v, c) /\ UNCHANGED <<ciNow, ciPublished, ciGone, ciCache>>
          BY <1>0, <2>4, <3>2, <4>1, <4>2 DEF VerifyBegin
        <4> QED BY <1>0, <4>2, <4>3, CiStep
      <3> QED BY <3>1, <3>2
    <2>5. CASE FetchJWKS(v)
      <3>1. PICK K \in SUBSET ciPublished : CiTo(v, [at |-> "store", began |-> b.began, keys |-> K])
        BY <2>1, <2>5 DEF FetchJWKS
      <3>2. PICK c : c = [at |-> "store", began |-> b.began, keys |-> K]
        OBVIOUS
      <3>3. b.at = "fetch" /\ UNCHANGED <<ciNow, ciPublished, ciGone, ciCache>>
        BY <2>1, <2>5 DEF FetchJWKS
      <3>4. K \in SUBSET CiKey
        BY <3>1 DEF CiInv, CiTypeOK
      <3>5. c \in CiCalls /\ c.at = "store" /\ c.began = b.began /\ c.keys = K /\ c.began <= ciNow
        BY <2>2, <3>2, <3>3, <3>4 DEF CiCalls
      <3>6. \A k \in c.keys : ciGone[k] >= c.began
        <4>1. \A k \in c.keys : ciGone[k] = CiMaxTime + 1
          BY <3>1, <3>5 DEF CiInv, CiGoneInv
        <4>2. c.began <= CiMaxTime /\ c.began \in Nat
          BY <2>2, <3>3, <3>5, CiAssumption DEF CiInv, CiTypeOK
        <4> QED BY <4>1, <4>2, CiAssumption
      <3> QED BY <1>0, <3>1, <3>2, <3>3, <3>5, <3>6, CiStep
    <2>6. CASE StoreJWKS(v)
      <3>1. PICK c : c = [b EXCEPT !.at = "judge"]
        OBVIOUS
      <3>2. b.at = "store" /\ UNCHANGED <<ciNow, ciPublished, ciGone>> /\ CiTo(v, c) /\ ciCache' = {[keys |-> b.keys, at |-> b.began]}
        BY <2>1, <2>6, <3>1 DEF StoreJWKS
      <3>3. c \in CiCalls /\ c.at = "judge" /\ c.began = b.began /\ c.keys = b.keys
        BY <2>1, <3>1, <3>2 DEF CiCalls, CiIdle
      <3>4. \A k \in c.keys : ciGone[k] + CiTTL >= c.began
        BY <1>0, <2>2, <3>2, <3>3
      <3>5. /\ ciCache' \in SUBSET [keys : SUBSET CiKey, at : Nat]
            /\ \A e \in ciCache' : e.at <= ciNow /\ \A k \in e.keys : ciGone[k] >= e.at
        BY <2>2, <3>2
      <3>6. c.began <= ciNow
        BY <2>2, <3>2, <3>3
      <3> QED BY <3>2, <3>3, <3>4, <3>5, <3>6, CiStep
    <2>7. CASE Judge(v)
      <3>1. PICK t \in CiToken : CiTo(v, Verdict(v, t))
        BY <2>7 DEF Judge
      <3>2. b.at = "judge" /\ UNCHANGED <<ciNow, ciPublished, ciGone, ciCache>>
        BY <2>1, <2>7 DEF Judge
      <3>3. CASE Accepts(b.keys, t)
        <4>1. t.key \in b.keys
          BY <3>3 DEF Accepts, VerifySignature, Candidates
        <4>2. PICK c : c = [at |-> "accepted", began |-> b.began, key |-> t.key]
          OBVIOUS
        <4>3. c \in CiCalls /\ c.at = "accepted" /\ c.began = b.began /\ c.key = t.key /\ c.key \in CiKey
          BY <2>2, <3>2, <4>1, <4>2 DEF CiCalls
        <4>4. CiTo(v, c)
          BY <2>1, <3>1, <3>3, <4>2 DEF Verdict
        <4>5. c.began <= ciNow /\ ciGone[c.key] + CiTTL >= c.began
          BY <2>2, <3>2, <4>1, <4>3
        <4> QED BY <1>0, <3>2, <4>3, <4>4, <4>5, CiStep
      <3>4. CASE ~Accepts(b.keys, t)
        BY <2>1, <2>3, <3>1, <3>2, <3>4 DEF Verdict
      <3> QED BY <3>3, <3>4
    <2> QED BY <1>4, <2>3, <2>4, <2>5, <2>6, <2>7 DEF FetchFails, VerifyReturns
  <1> QED BY <1>1, <1>2, <1>3, <1>4 DEF CiNext

\* For any number of concurrent verifications, keys and fetches that overlap or
\* fail: a token is accepted only under a key that was still published at most the
\* cache's time to live before the verification began (internal/team/ci/ci.go).
THEOREM WithdrawnKeysStayOut == CiInit /\ [][CiNext]_ciVars => []WithdrawnKeyRefused
  <1>1. CiInit => CiInv
    BY CiAssumption DEF CiInit, CiInv, CiTypeOK, CiGoneInv, CiCacheInv, CiCallInv, CiCalls, CiIdle
  <1>2. CiInv => WithdrawnKeyRefused
    BY DEF CiInv, CiCallInv, WithdrawnKeyRefused
  <1> QED BY <1>1, <1>2, CiNextInv, PTL

-----------------------------------------------------------------------------
\* The cached Bitwarden session

BsRecord == [step : {"idle", "token", "meta", "stat", "read", "use", "look", "zero", "remove", "unmeta"},
             ttl : Nat, exp : Int, got : Int, at : Nat, avoid : Nat, done : SUBSET (1 .. BsMaxUnlock),
             since : Nat, failed : BOOLEAN]

BsTypeOK ==
    /\ bsToken \in Int /\ bsMeta \in Int /\ bsNow \in Nat /\ bsCount \in 0 .. BsMaxUnlock /\ bsGone \in 0 .. bsCount
    /\ bsCall \in [BsProc -> BsRecord] /\ bsEnd \in [1 .. BsMaxUnlock -> Int]

\* The token file holds the newest session or none; sessions not saved yet have no
\* end; the expiry beside a saved session whose unlock returned is its own; and
\* what a lock has cleared does not come back.
BsFilesInv ==
    /\ bsToken > Zeros => bsToken = bsCount /\ bsToken > bsGone
    /\ \A t \in 1 .. BsMaxUnlock : t > bsCount => bsEnd[t] = NoFile
    /\ bsCount > 0 /\ bsMeta # NoFile => bsEnd[bsCount] \in {NoFile, bsMeta}

\* A command, step by step.
BsCallInv(r) ==
    /\ r.step = "token" => bsCount < BsMaxUnlock
    /\ r.step = "meta" => bsCount > 0 /\ bsEnd[bsCount] = NoFile /\ r.ttl \in BsTTL
    /\ r.step = "token" => r.ttl \in BsTTL
    /\ r.step \in {"look", "zero", "remove", "unmeta"} => r.since <= bsCount
    /\ r.step = "unmeta" /\ ~r.failed => ~(bsToken > Zeros /\ bsToken <= r.since)
    /\ r.step \in {"stat", "read"} => r.avoid <= bsGone
    /\ r.step \in {"stat", "read", "use"} => \A t \in r.done : bsEnd[t] # NoFile
    /\ r.step \in {"stat", "read"} /\ bsToken \in r.done => r.exp <= bsEnd[bsToken]
    /\ r.step = "read" => r.at <= r.exp
    /\ r.step = "use" /\ r.got > Zeros => r.got > r.avoid
    /\ r.step = "use" /\ r.got \in r.done => r.at <= bsEnd[r.got]

BsInv ==
    /\ BsTypeOK /\ BsFilesInv
    /\ \A p \in BsProc : BsCallInv(bsCall[p]) /\ (bsCall[p].step \in {"token", "meta"} => p = BsTerminal)

\* A command makes a step of its own; what it does to the files leaves the facts
\* about every other command as they were.
LEMMA BsStep ==
    ASSUME BsInv, NEW p \in BsProc, NEW r \in BsRecord, bsCall' = [bsCall EXCEPT ![p] = r],
           (BsTypeOK /\ BsFilesInv)', BsCallInv(r)', r.step \in {"token", "meta"} => p = BsTerminal,
           \A o \in BsProc : o # p /\ BsCallInv(bsCall[o]) /\ bsCall[o] \in BsRecord => (\A b \in BsRecord : b = bsCall[o] => BsCallInv(b)')
    PROVE  BsInv'
  <1>1. bsCall'[p] = r /\ \A o \in BsProc : o # p => bsCall'[o] = bsCall[o]
    BY DEF BsInv, BsTypeOK
  <1>2. ASSUME NEW o \in BsProc PROVE BsCallInv(bsCall[o])' /\ (bsCall'[o].step \in {"token", "meta"} => o = BsTerminal)
    <2>1. CASE o = p
      BY <1>1, <2>1 DEF BsCallInv
    <2>2. CASE o # p
      <3>1. PICK b \in BsRecord : b = bsCall[o] /\ b = bsCall'[o]
        BY <1>1, <2>2 DEF BsInv, BsTypeOK
      <3>2. BsCallInv(bsCall[o]) /\ (b.step \in {"token", "meta"} => o = BsTerminal)
        BY <3>1 DEF BsInv
      <3>3. BsCallInv(b)'
        BY <2>2, <3>1, <3>2
      <3> QED BY <3>1, <3>2, <3>3 DEF BsCallInv
    <2> QED BY <2>1, <2>2
  <1> QED BY <1>2 DEF BsInv

\* A command that does nothing, and what it may be given.
LEMMA BsIdleRecord == BsIdle \in BsRecord /\ BsIdle.step = "idle"
  BY DEF BsIdle, BsRecord, NoFile

\* A step that leaves the files and the history alone.
LEMMA BsOwnStep ==
    ASSUME BsInv, NEW p \in BsProc, NEW r \in BsRecord, bsCall' = [bsCall EXCEPT ![p] = r], BsCallInv(r),
           UNCHANGED <<bsToken, bsMeta, bsNow, bsCount, bsEnd, bsGone>>, r.step \in {"token", "meta"} => p = BsTerminal
    PROVE  BsInv'
  <1>1. (BsTypeOK /\ BsFilesInv)'
    BY DEF BsInv, BsTypeOK, BsFilesInv
  <1>2. ASSUME NEW b \in BsRecord, BsCallInv(b) PROVE BsCallInv(b)'
    BY <1>2 DEF BsCallInv
  <1>3. BsCallInv(r)'
    BY <1>2
  <1>4. \A o \in BsProc : o # p /\ BsCallInv(bsCall[o]) /\ bsCall[o] \in BsRecord => (\A b \in BsRecord : b = bsCall[o] => BsCallInv(b)')
    <2> SUFFICES ASSUME NEW o \in BsProc, BsCallInv(bsCall[o]), NEW b \in BsRecord, b = bsCall[o] PROVE BsCallInv(b)'
      OBVIOUS
    <2>1. BsCallInv(b)
      BY DEF BsCallInv
    <2> QED BY <1>2, <2>1
  <1> QED BY <1>1, <1>3, <1>4, BsStep

\* A command moves on to its step s and keeps the rest of its state.
LEMMA BsMoves ==
    ASSUME BsInv, NEW p \in BsProc, NEW s, BsGoto(p, s),
           s \in {"idle", "token", "meta", "stat", "read", "use", "look", "zero", "remove", "unmeta"}
    PROVE  \E r \in BsRecord : /\ bsCall' = [bsCall EXCEPT ![p] = r] /\ r.step = s /\ r.ttl = bsCall[p].ttl
                               /\ r.since = bsCall[p].since /\ r.failed = bsCall[p].failed
  <1>1. PICK b \in BsRecord : b = bsCall[p]
    BY DEF BsInv, BsTypeOK
  <1>2. PICK r : r = [b EXCEPT !.step = s]
    OBVIOUS
  <1>3. r \in BsRecord /\ r.step = s /\ r.ttl = b.ttl /\ r.since = b.since /\ r.failed = b.failed
    BY <1>1, <1>2 DEF BsRecord
  <1>4. bsCall' = [bsCall EXCEPT ![p] = r]
    BY <1>1, <1>2 DEF BsGoto
  <1> QED BY <1>1, <1>3, <1>4

\* Every step of a command that writes no file keeps the invariant.
LEMMA BsReading ==
    ASSUME BsInv, NEW p \in BsProc,
           \/ \E ttl \in BsTTL : Unlock(p, ttl)
           \/ ReadMeta(p) \/ StatToken(p) \/ ReadToken(p) \/ UseSession(p) \/ Lock(p) \/ LookToken(p) \/ Dies(p)
    PROVE  BsInv'
  <1>1. /\ UNCHANGED <<bsToken, bsMeta, bsNow, bsCount, bsEnd, bsGone>>
        /\ bsToken \in Int /\ bsMeta \in Int /\ bsNow \in Nat /\ bsCount \in 0 .. BsMaxUnlock /\ bsGone \in 0 .. bsCount
        /\ bsEnd \in [1 .. BsMaxUnlock -> Int] /\ BsMaxUnlock \in Nat
    BY BsAssumption DEF BsInv, BsTypeOK, Unlock, ReadMeta, StatToken, ReadToken, UseSession, Lock, LookToken, Dies
  <1>11. bsCount \in Nat /\ bsGone \in Nat /\ Returned \in SUBSET (1 .. BsMaxUnlock) /\ BsTTL \subseteq Nat
    BY <1>1, BsAssumption DEF Returned
  <1>2. PICK b \in BsRecord : b = bsCall[p]
    BY DEF BsInv, BsTypeOK
  <1>3. BsCallInv(b)
    <2>1. BsCallInv(bsCall[p])
      BY DEF BsInv
    <2> QED BY <1>2, <2>1 DEF BsCallInv
  <1>4. CASE Stop(p)
    <2>1. BsCallInv(BsIdle)
      BY BsIdleRecord DEF BsCallInv
    <2> QED BY <1>1, <1>4, <2>1, BsIdleRecord, BsOwnStep DEF Stop
  <1>5. ASSUME NEW ttl \in BsTTL, Unlock(p, ttl) PROVE BsInv'
    <2>1. PICK r : r = [BsIdle EXCEPT !.step = "token", !.ttl = ttl]
      OBVIOUS
    <2>2. r \in BsRecord /\ r.step = "token" /\ r.ttl = ttl
      BY <1>11, <2>1, BsIdleRecord DEF BsRecord
    <2>3. BsCallInv(r) /\ p = BsTerminal /\ bsCall' = [bsCall EXCEPT ![p] = r]
      BY <1>5, <2>1, <2>2 DEF Unlock, BsCallInv
    <2> QED BY <1>1, <2>2, <2>3, BsOwnStep
  <1>6. CASE bsCall' = [bsCall EXCEPT ![p] = [BsIdle EXCEPT !.step = "look", !.since = bsCount]]
    <2>1. PICK r : r = [BsIdle EXCEPT !.step = "look", !.since = bsCount]
      OBVIOUS
    <2>2. r \in BsRecord /\ r.step = "look" /\ r.since = bsCount
      BY <1>11, <2>1, BsIdleRecord DEF BsRecord
    <2>3. BsCallInv(r)
      BY <1>1, <2>2 DEF BsCallInv
    <2> QED BY <1>1, <1>6, <2>1, <2>2, <2>3, BsOwnStep
  <1>7. CASE ReadMeta(p)
    <2>1. CASE bsMeta = NoFile
      <3>1. bsCall' = [bsCall EXCEPT ![p] = b]
        BY <1>2, <1>7, <2>1 DEF ReadMeta, BsInv, BsTypeOK
      <3>2. b.step = "idle"
        BY <1>2, <1>7 DEF ReadMeta, In
      <3> QED BY <1>1, <1>3, <3>1, <3>2, BsOwnStep
    <2>2. CASE bsMeta # NoFile
      <3>1. PICK r : r = [BsIdle EXCEPT !.step = "stat", !.exp = bsMeta, !.avoid = bsGone, !.done = Returned]
        OBVIOUS
      <3>2. r \in BsRecord /\ r.step = "stat" /\ r.exp = bsMeta /\ r.avoid = bsGone /\ r.done = Returned
        BY <1>1, <1>11, <3>1, BsIdleRecord DEF BsRecord
      <3>3. bsToken \in Returned => bsMeta <= bsEnd[bsToken]
        <4> SUFFICES ASSUME bsToken \in Returned PROVE bsMeta = bsEnd[bsToken]
          BY <1>1
        <4>1. bsToken > Zeros /\ bsEnd[bsToken] # NoFile
          BY <1>1 DEF Returned, Zeros
        <4>2. bsToken = bsCount /\ bsCount > 0
          BY <1>1, <4>1 DEF BsInv, BsFilesInv, Zeros
        <4> QED BY <2>2, <4>1, <4>2 DEF BsInv, BsFilesInv
      <3>4. BsCallInv(r)
        BY <1>1, <3>2, <3>3 DEF BsCallInv, Returned
      <3>5. bsCall' = [bsCall EXCEPT ![p] = r]
        BY <1>7, <2>2, <3>1 DEF ReadMeta
      <3> QED BY <1>1, <3>2, <3>4, <3>5, BsOwnStep
    <2> QED BY <2>1, <2>2
  <1>8. CASE StatToken(p) /\ ~Stop(p)
    <2>1. PICK r : r = [b EXCEPT !.step = "read", !.at = bsNow]
      OBVIOUS
    <2>2. r \in BsRecord /\ r.step = "read" /\ r.at = bsNow /\ r.exp = b.exp /\ r.avoid = b.avoid /\ r.done = b.done
      BY <1>1, <1>2, <2>1 DEF BsRecord
    <2>3. b.step = "stat" /\ ~(bsNow > b.exp) /\ b.exp \in Int
      BY <1>2, <1>8 DEF StatToken, In, BsExpired, BsRecord
    <2>4. BsCallInv(r)
      BY <1>1, <1>3, <2>2, <2>3 DEF BsCallInv
    <2>5. bsCall' = [bsCall EXCEPT ![p] = r]
      BY <1>2, <1>8, <2>1 DEF StatToken, BsInv, BsTypeOK
    <2> QED BY <1>1, <2>2, <2>4, <2>5, BsOwnStep
  <1>9. CASE ReadToken(p) /\ ~Stop(p)
    <2>1. PICK r : r = [b EXCEPT !.step = "use", !.got = bsToken]
      OBVIOUS
    <2>2. r \in BsRecord /\ r.step = "use" /\ r.got = bsToken /\ r.at = b.at /\ r.avoid = b.avoid /\ r.done = b.done
      BY <1>1, <1>2, <2>1 DEF BsRecord
    <2>3. b.step = "read" /\ b.exp \in Int /\ b.at \in Nat /\ b.avoid \in Nat /\ b.done \in SUBSET (1 .. BsMaxUnlock)
      BY <1>2, <1>9 DEF ReadToken, In, BsRecord
    <2>4. bsToken > Zeros => bsToken > b.avoid
      BY <1>1, <1>3, <2>3 DEF BsCallInv, BsInv, BsFilesInv, Zeros
    <2>5. bsToken \in b.done => b.at <= bsEnd[bsToken]
      BY <1>1, <1>3, <2>3 DEF BsCallInv
    <2>6. BsCallInv(r)
      BY <1>3, <2>2, <2>3, <2>4, <2>5 DEF BsCallInv
    <2>7. bsCall' = [bsCall EXCEPT ![p] = r]
      BY <1>2, <1>9, <2>1 DEF ReadToken, BsInv, BsTypeOK
    <2> QED BY <1>1, <2>2, <2>6, <2>7, BsOwnStep
  <1>10. CASE LookToken(p)
    <2>1. PICK s \in {"remove", "zero"} : BsGoto(p, s)
      BY <1>10 DEF LookToken
    <2>2. PICK r \in BsRecord : bsCall' = [bsCall EXCEPT ![p] = r] /\ r.step = s /\ r.since = b.since
      BY <1>2, <2>1, BsMoves
    <2>3. BsCallInv(r)
      BY <1>2, <1>3, <1>10, <2>2 DEF BsCallInv, LookToken, In
    <2> QED BY <1>1, <2>2, <2>3, BsOwnStep
  <1> QED BY <1>4, <1>5, <1>6, <1>7, <1>8, <1>9, <1>10 DEF UseSession, Lock, Dies

\* Every step of a command that writes or removes a file keeps the invariant.
LEMMA BsWriting ==
    ASSUME BsInv, NEW p \in BsProc,
           SaveToken(p) \/ SaveMeta(p) \/ ZeroToken(p) \/ RemoveToken(p) \/ RemoveMeta(p)
    PROVE  BsInv'
  <1>1. /\ bsToken \in Int /\ bsMeta \in Int /\ bsNow \in Nat /\ bsCount \in 0 .. BsMaxUnlock /\ bsGone \in 0 .. bsCount
        /\ bsEnd \in [1 .. BsMaxUnlock -> Int] /\ BsMaxUnlock \in Nat /\ BsTTL \subseteq Nat
        /\ bsCall \in [BsProc -> BsRecord]
    BY BsAssumption DEF BsInv, BsTypeOK
  <1>2. bsCount \in Nat /\ bsGone \in Nat /\ bsCount <= BsMaxUnlock /\ bsGone <= bsCount
    BY <1>1
  <1>3. PICK b \in BsRecord : b = bsCall[p] /\ BsCallInv(b) /\ (b.step \in {"token", "meta"} => p = BsTerminal)
    <2>1. PICK b \in BsRecord : b = bsCall[p]
      BY <1>1
    <2>2. BsCallInv(bsCall[p]) /\ (bsCall[p].step \in {"token", "meta"} => p = BsTerminal)
      BY DEF BsInv
    <2> QED BY <2>1, <2>2 DEF BsCallInv
  <1>4. ASSUME NEW r \in BsRecord, bsCall' = [bsCall EXCEPT ![p] = r], (BsTypeOK /\ BsFilesInv)', BsCallInv(r)',
               r.step \in {"token", "meta"} => p = BsTerminal,
               \A c \in BsRecord : BsCallInv(c) /\ (p = BsTerminal => c.step \notin {"token", "meta"}) => BsCallInv(c)'
        PROVE  BsInv'
    <2>1. \A o \in BsProc : o # p /\ BsCallInv(bsCall[o]) /\ bsCall[o] \in BsRecord => (\A c \in BsRecord : c = bsCall[o] => BsCallInv(c)')
      <3> SUFFICES ASSUME NEW o \in BsProc, o # p, NEW c \in BsRecord, c = bsCall[o] PROVE BsCallInv(c)'
        OBVIOUS
      <3>1. BsCallInv(bsCall[o]) /\ (p = BsTerminal => bsCall[o].step \notin {"token", "meta"})
        BY DEF BsInv
      <3>2. BsCallInv(c) /\ (p = BsTerminal => c.step \notin {"token", "meta"})
        BY <3>1 DEF BsCallInv
      <3> QED BY <1>4, <3>2
    <2> QED BY <1>4, <2>1, BsStep
  <1>5. CASE SaveToken(p)
    <2>1. PICK n \in Nat : n = bsCount + 1
      BY <1>2
    <2>2. /\ b.step = "token" /\ bsCount' = n /\ bsToken' = n /\ UNCHANGED <<bsMeta, bsNow, bsEnd, bsGone>> /\ BsGoto(p, "meta")
      BY <1>3, <1>5, <2>1 DEF SaveToken, In
    <2>3. b.ttl \in BsTTL /\ n <= BsMaxUnlock /\ n \in 1 .. BsMaxUnlock /\ bsEnd[n] = NoFile
      BY <1>1, <1>2, <1>3, <2>1, <2>2 DEF BsCallInv, BsInv, BsFilesInv
    <2>4. PICK r \in BsRecord : bsCall' = [bsCall EXCEPT ![p] = r] /\ r.step = "meta" /\ r.ttl = b.ttl
      BY <1>3, <2>2, BsMoves
    <2>5. BsTypeOK'
      BY <1>1, <1>2, <2>1, <2>2, <2>3, <2>4 DEF BsTypeOK
    <2>6. BsFilesInv'
      BY <1>1, <1>2, <2>1, <2>2, <2>3 DEF BsInv, BsFilesInv, Zeros
    <2>7. BsCallInv(r)'
      BY <1>2, <2>1, <2>2, <2>3, <2>4 DEF BsCallInv
    <2>8. ASSUME NEW c \in BsRecord, BsCallInv(c), c.step \notin {"token", "meta"} PROVE BsCallInv(c)'
      <3>1. c.since \in Nat /\ c.done \in SUBSET (1 .. BsMaxUnlock)
        BY DEF BsRecord
      <3>2. c.step \in {"stat", "read", "use"} => n \notin c.done
        BY <2>3, <2>8 DEF BsCallInv
      <3> QED BY <1>1, <1>2, <2>1, <2>2, <2>8, <3>1, <3>2 DEF BsCallInv, Zeros
    <2>9. p = BsTerminal
      BY <1>3, <2>2
    <2> QED BY <1>4, <2>4, <2>5, <2>6, <2>7, <2>8, <2>9
  <1>6. CASE SaveMeta(p)
    <2>1. PICK n \in Nat : n = bsNow + b.ttl
      BY <1>1 DEF BsRecord
    <2>2. /\ b.step = "meta" /\ bsMeta' = n /\ bsEnd' = [bsEnd EXCEPT ![bsCount] = n] /\ UNCHANGED <<bsToken, bsNow, bsCount, bsGone>>
          /\ bsCall' = [bsCall EXCEPT ![p] = BsIdle]
      BY <1>3, <1>6, <2>1 DEF SaveMeta, In, Stop
    <2>3. bsCount \in 1 .. BsMaxUnlock /\ bsEnd[bsCount] = NoFile /\ n # NoFile
      BY <1>1, <1>2, <1>3, <2>2 DEF BsCallInv, NoFile
    <2>4. bsEnd' \in [1 .. BsMaxUnlock -> Int] /\ bsEnd'[bsCount] = n /\ \A t \in 1 .. BsMaxUnlock : t # bsCount => bsEnd'[t] = bsEnd[t]
      BY <1>1, <2>2, <2>3
    <2>5. BsTypeOK'
      BY <1>1, <2>2, <2>4, BsIdleRecord DEF BsTypeOK
    <2>6. BsFilesInv'
      BY <1>1, <1>2, <2>2, <2>3, <2>4 DEF BsInv, BsFilesInv
    <2>7. PICK r \in BsRecord : r = BsIdle /\ r.step = "idle"
      BY BsIdleRecord
    <2>8. BsCallInv(r)'
      BY <2>7 DEF BsCallInv
    <2>9. ASSUME NEW c \in BsRecord, BsCallInv(c), c.step \notin {"token", "meta"} PROVE BsCallInv(c)'
      <3>1. c.done \in SUBSET (1 .. BsMaxUnlock)
        BY DEF BsRecord
      <3>2. c.step \in {"stat", "read", "use"} => bsCount \notin c.done
        BY <2>3, <2>9 DEF BsCallInv
      <3> QED BY <2>2, <2>4, <2>9, <3>1, <3>2 DEF BsCallInv
    <2>10. p = BsTerminal
      BY <1>3, <2>2
    <2> QED BY <1>4, <2>2, <2>5, <2>6, <2>7, <2>8, <2>9, <2>10
  <1>7. ASSUME NEW r \in BsRecord, bsCall' = [bsCall EXCEPT ![p] = r], UNCHANGED <<bsMeta, bsNow, bsCount, bsEnd, bsGone>>,
               bsToken' \in {NoFile, Zeros, bsToken}, r.step \in {"remove", "unmeta"}, r.since <= bsCount,
               r.step = "unmeta" /\ ~r.failed => bsToken' = NoFile
        PROVE  BsInv'
    <2>1. BsTypeOK'
      BY <1>1, <1>7 DEF BsTypeOK, NoFile, Zeros
    <2>2. BsFilesInv'
      BY <1>7 DEF BsInv, BsFilesInv, NoFile, Zeros
    <2>3. BsCallInv(r)'
      BY <1>7 DEF BsCallInv, NoFile, Zeros
    <2>4. ASSUME NEW c \in BsRecord, BsCallInv(c) PROVE BsCallInv(c)'
      <3>1. c.done \in SUBSET (1 .. BsMaxUnlock) /\ NoFile \notin c.done /\ Zeros \notin c.done
        BY DEF BsRecord, NoFile, Zeros
      <3> QED BY <1>7, <2>4, <3>1 DEF BsCallInv, NoFile, Zeros
    <2> QED BY <1>4, <1>7, <2>1, <2>2, <2>3, <2>4
  <1>8. CASE ZeroToken(p)
    <2>1. PICK r \in BsRecord : bsCall' = [bsCall EXCEPT ![p] = r] /\ r.step = "remove" /\ r.since = b.since
      BY <1>3, <1>8, BsMoves DEF ZeroToken
    <2>2. r.since <= bsCount
      BY <1>3, <1>8, <2>1 DEF ZeroToken, In, BsCallInv
    <2> QED BY <1>7, <1>8, <2>1, <2>2 DEF ZeroToken
  <1>9. CASE RemoveToken(p)
    <2>1. b.step = "remove" /\ b.since <= bsCount
      BY <1>3, <1>9 DEF RemoveToken, In, BsCallInv
    <2>2. CASE bsToken' = NoFile /\ BsGoto(p, "unmeta")
      <3>1. PICK r \in BsRecord : bsCall' = [bsCall EXCEPT ![p] = r] /\ r.step = "unmeta" /\ r.since = b.since
        BY <1>3, <2>2, BsMoves
      <3> QED BY <1>7, <1>9, <2>1, <2>2, <3>1 DEF RemoveToken
    <2>3. CASE bsToken' = bsToken /\ bsCall' = [bsCall EXCEPT ![p].step = "unmeta", ![p].failed = TRUE]
      <3>1. PICK r : r = [b EXCEPT !.step = "unmeta", !.failed = TRUE]
        OBVIOUS
      <3>2. r \in BsRecord /\ r.step = "unmeta" /\ r.failed = TRUE /\ r.since = b.since
        BY <1>3, <3>1 DEF BsRecord
      <3>3. bsCall' = [bsCall EXCEPT ![p] = r]
        BY <1>1, <1>3, <2>3, <3>1
      <3> QED BY <1>7, <1>9, <2>1, <2>3, <3>2, <3>3 DEF RemoveToken
    <2> QED BY <1>9, <2>2, <2>3 DEF RemoveToken
  <1>10. CASE RemoveMeta(p)
    <2>1. /\ b.step = "unmeta" /\ bsMeta' = NoFile /\ UNCHANGED <<bsToken, bsNow, bsCount, bsEnd>> /\ b.since <= bsCount
          /\ bsGone' = (IF b.failed \/ b.since < bsGone THEN bsGone ELSE b.since) /\ bsCall' = [bsCall EXCEPT ![p] = BsIdle]
      BY <1>3, <1>10 DEF RemoveMeta, In, Stop, BsCallInv
    <2>2. b.since \in Nat /\ (~b.failed => ~(bsToken > Zeros /\ bsToken <= b.since))
      BY <1>3, <2>1 DEF BsCallInv, BsRecord
    <2>3. bsGone' \in 0 .. bsCount /\ bsGone <= bsGone' /\ bsGone' \in Nat
      BY <1>2, <2>1, <2>2
    <2>4. BsTypeOK'
      BY <1>1, <2>1, <2>3, BsIdleRecord DEF BsTypeOK, NoFile
    <2>5. bsToken > Zeros => bsToken > bsGone'
      BY <1>1, <1>2, <2>1, <2>2 DEF BsInv, BsFilesInv, Zeros
    <2>6. BsFilesInv'
      BY <2>1, <2>5 DEF BsInv, BsFilesInv
    <2>7. PICK r \in BsRecord : r = BsIdle /\ r.step = "idle"
      BY BsIdleRecord
    <2>8. BsCallInv(r)'
      BY <2>7 DEF BsCallInv
    <2>9. ASSUME NEW c \in BsRecord, BsCallInv(c) PROVE BsCallInv(c)'
      <3>1. c.avoid \in Nat
        BY DEF BsRecord
      <3> QED BY <1>2, <2>1, <2>3, <2>9, <3>1 DEF BsCallInv
    <2> QED BY <1>4, <2>1, <2>4, <2>6, <2>7, <2>8, <2>9
  <1> QED BY <1>5, <1>6, <1>8, <1>9, <1>10

\* Every step keeps the invariant of the session cache.
LEMMA BsNextInv == BsInv /\ [BsNext]_bsVars => BsInv'
  <1> SUFFICES ASSUME BsInv, [BsNext]_bsVars PROVE BsInv'
    OBVIOUS
  <1>1. ASSUME UNCHANGED <<bsToken, bsMeta, bsCall, bsCount, bsEnd, bsGone>>, bsNow' \in Nat PROVE BsInv'
    <2>1. BsTypeOK' /\ BsFilesInv'
      BY <1>1 DEF BsInv, BsTypeOK, BsFilesInv
    <2>2. ASSUME NEW p \in BsProc PROVE BsCallInv(bsCall[p])' /\ (bsCall'[p].step \in {"token", "meta"} => p = BsTerminal)
      BY <1>1 DEF BsInv, BsCallInv
    <2> QED BY <2>1, <2>2 DEF BsInv
  <1>2. CASE UNCHANGED bsVars \/ BsTick
    BY <1>1, <1>2 DEF bsVars, BsTick, BsInv, BsTypeOK
  <1> QED BY <1>2, BsReading, BsWriting DEF BsNext

\* For any number of commands, sessions and failures between two file operations:
\* a command that opens the backend after a lock has returned is not given a
\* session saved before it, and none is given beyond the ttl it was saved with
\* (internal/backend/bw/session_cache.go).
THEOREM CachedSessionsHold == BsSpec => []SessionCacheHolds
  <1>1. BsInit => BsInv
    <2> SUFFICES ASSUME BsInit PROVE BsInv
      OBVIOUS
    <2>1. BsTypeOK /\ BsFilesInv
      BY BsAssumption, BsIdleRecord DEF BsInit, BsTypeOK, BsFilesInv, NoFile, Zeros
    <2>2. ASSUME NEW p \in BsProc PROVE BsCallInv(bsCall[p]) /\ bsCall[p].step = "idle"
      BY BsIdleRecord DEF BsInit, BsCallInv
    <2> QED BY <2>1, <2>2 DEF BsInv
  <1>2. BsInv => SessionCacheHolds
    BY DEF BsInv, BsCallInv, SessionCacheHolds, Forgotten, WithinTTL, In
  <1> QED BY <1>1, <1>2, BsNextInv, PTL DEF BsSpec

-----------------------------------------------------------------------------
\* Signed bundles

\* What a decision rests on; and every bundle in a file or a cache was on offer.
SbInv ==
    /\ sbNow \in Nat /\ sbActive \in SUBSET SbBundle /\ sbCache \in [SbProc -> SUBSET SbBundle]
    /\ sbInstall \in [SbProc -> {SbIdle} \cup [at : {"pin", "write"}, bundle : SbBundle, pinned : BOOLEAN]]
    /\ DecisionNotStale /\ OrgOnlyNarrows

\* A call of Active returns bundles on offer that have not expired.
LEMMA ActiveValid ==
    ASSUME SbInv, NEW p \in SbProc
    PROVE  Active(p) \in SUBSET SbBundle /\ \A b \in Active(p) : sbNow <= b.exp
  BY SbAssumption DEF SbInv, Active, Refreshed, Expired

\* Every step keeps the invariant of the policy bundles.
LEMMA SbNextInv == SbInv /\ [SbNext]_sbVars => SbInv'
  <1> SUFFICES ASSUME SbInv, [SbNext]_sbVars PROVE SbInv'
    OBVIOUS
  <1>1. CASE UNCHANGED sbVars
    BY <1>1 DEF sbVars, SbInv, DecisionNotStale, OrgOnlyNarrows
  <1>2. ASSUME sbSaid' = SbNothing PROVE DecisionNotStale' /\ OrgOnlyNarrows'
    BY <1>2 DEF SbNothing, DecisionNotStale, OrgOnlyNarrows
  <1>3. CASE SbTick
    BY <1>2, <1>3 DEF SbTick, SbInv
  <1>4. ASSUME NEW p \in SbProc, Decide(p) PROVE SbInv'
    <2>1. PICK c \in SbCapability, allow \in BOOLEAN, ask \in BOOLEAN :
            sbSaid' = [made |-> TRUE, cap |-> c, local |-> [allow |-> allow, ask |-> ask], at |-> sbNow, used |-> Active(p),
                       result |-> Compose(Active(p), [allow |-> allow, ask |-> ask], c)]
      BY <1>4 DEF Decide
    <2>2. PICK B \in SUBSET SbBundle : B = Active(p) /\ \A b \in B : sbNow <= b.exp
      BY ActiveValid
    <2>3. DecisionNotStale'
      BY <2>1, <2>2 DEF DecisionNotStale
    <2>4. PICK l : l = [allow |-> allow, ask |-> ask]
      OBVIOUS
    <2>5. PICK d : d = Compose(B, l, c)
      OBVIOUS
    <2>6. d.allow => allow /\ (ask => d.ask) /\ \A b \in B : c \notin b.deny
      <3>1. CASE \E b \in B : c \in b.deny
        BY <2>5, <3>1 DEF Compose
      <3>2. CASE ~\E b \in B : c \in b.deny
        <4>1. d = [l EXCEPT !.ask = l.ask \/ \E b \in B : c \in b.ask]
          BY <2>5, <3>2 DEF Compose
        <4>2. d.allow = allow /\ d.ask = (ask \/ \E b \in B : c \in b.ask)
          BY <2>4, <4>1
        <4> QED BY <3>2, <4>2
      <3> QED BY <3>1, <3>2
    <2>7. OrgOnlyNarrows'
      <3>1. sbSaid'.result = d /\ sbSaid'.local = l /\ sbSaid'.used = B /\ sbSaid'.cap = c
        BY <2>1, <2>2, <2>4, <2>5
      <3> QED BY <2>4, <2>6, <3>1 DEF OrgOnlyNarrows
    <2>8. /\ sbCache' \in [SbProc -> SUBSET SbBundle] /\ UNCHANGED <<sbNow, sbActive, sbInstall>>
      BY <1>4, <2>2 DEF Decide, SbInv
    <2> QED BY <2>3, <2>7, <2>8 DEF SbInv
  <1>5. ASSUME NEW p \in SbProc, NEW b \in SbBundle, InstallBegin(p, b) PROVE SbInv'
    <2>1. PICK B \in SUBSET SbBundle : B = Active(p)
      BY ActiveValid
    <2>2. sbCache' \in [SbProc -> SUBSET SbBundle] /\ UNCHANGED <<sbNow, sbActive>> /\ sbSaid' = SbNothing
      BY <1>5, <2>1 DEF InstallBegin, SbInv
    <2>3. sbInstall' \in [SbProc -> {SbIdle} \cup [at : {"pin", "write"}, bundle : SbBundle, pinned : BOOLEAN]]
      BY <1>5 DEF InstallBegin, SbTo, SbInv
    <2> QED BY <1>2, <2>2, <2>3 DEF SbInv
  <1>6. ASSUME NEW p \in SbProc, InstallPin(p) PROVE SbInv'
    <2>1. PICK i \in [at : {"pin", "write"}, bundle : SbBundle, pinned : BOOLEAN] : i = sbInstall[p]
      BY <1>6 DEF InstallPin, SbInv, SbIdle
    <2>2. [i EXCEPT !.at = "write"] \in [at : {"pin", "write"}, bundle : SbBundle, pinned : BOOLEAN]
      BY <2>1
    <2>3. sbInstall' \in [SbProc -> {SbIdle} \cup [at : {"pin", "write"}, bundle : SbBundle, pinned : BOOLEAN]]
      BY <1>6, <2>1, <2>2 DEF InstallPin, SbTo, SbInv
    <2> QED BY <1>2, <1>6, <2>3 DEF InstallPin, SbInv
  <1>7. ASSUME NEW p \in SbProc, InstallWrite(p) PROVE SbInv'
    <2>1. PICK i \in [at : {"pin", "write"}, bundle : SbBundle, pinned : BOOLEAN] : i = sbInstall[p]
      BY <1>7 DEF InstallWrite, SbInv, SbIdle
    <2>2. /\ sbActive' \in SUBSET SbBundle /\ sbCache' \in [SbProc -> SUBSET SbBundle] /\ sbNow' = sbNow /\ sbSaid' = SbNothing
          /\ sbInstall' \in [SbProc -> {SbIdle} \cup [at : {"pin", "write"}, bundle : SbBundle, pinned : BOOLEAN]]
      BY <1>7, <2>1 DEF InstallWrite, SbTo, SbInv
    <2> QED BY <1>2, <2>2 DEF SbInv
  <1>8. ASSUME NEW p \in SbProc, SbRestart(p) PROVE SbInv'
    BY <1>2, <1>8 DEF SbRestart, SbTo, SbInv
  <1> QED BY <1>1, <1>3, <1>4, <1>5, <1>6, <1>7, <1>8 DEF SbNext

\* The registry's files have a highest version, and none below what List has served.
RgTop(F) == \E r \in F : \A o \in F : o.ver <= r.ver
RgInv ==
    /\ rgFiles \in SUBSET RgBundle /\ rgListed \in [high : Nat, last : Nat] /\ rgListed.last = rgListed.high
    /\ rgInstall \in [RgProc -> {RgIdle} \cup [at : {"pin", "write"}, bundle : RgBundle, pinned : BOOLEAN]]
    /\ rgFiles # {} => RgTop(rgFiles)
    /\ rgListed.high > 0 => \E r \in rgFiles : r.ver >= rgListed.high

\* Every step keeps the invariant of the registry.
LEMMA RgNextInv == RgInv /\ [RgNext]_rgVars => RgInv'
  <1> SUFFICES ASSUME RgInv, [RgNext]_rgVars PROVE RgInv'
    OBVIOUS
  <1>1. CASE UNCHANGED rgVars
    BY <1>1 DEF rgVars, RgInv, RgTop
  <1>2. CASE List
    <2>1. PICK m \in RgBundle : m \in rgFiles /\ m = LatestVersion(rgFiles) /\ \A o \in rgFiles : o.ver <= m.ver
      BY <1>2 DEF List, LatestVersion, RgInv, RgTop
    <2>2. m.ver \in Nat /\ rgListed.high \in Nat
      BY RgAssumption DEF RgInv
    <2>3. rgListed.high <= m.ver
      <3>1. CASE rgListed.high > 0
        <4>1. PICK r \in rgFiles : r.ver >= rgListed.high
          BY <3>1 DEF RgInv
        <4>2. r.ver \in Nat
          BY RgAssumption DEF RgInv
        <4> QED BY <2>1, <2>2, <4>1, <4>2
      <3> QED BY <2>2, <3>1
    <2>4. rgListed' = [high |-> m.ver, last |-> m.ver] /\ UNCHANGED <<rgInstall, rgPin, rgFiles>>
      <3>1. (IF m.ver > rgListed.high THEN m.ver ELSE rgListed.high) = m.ver
        BY <2>2, <2>3
      <3> QED BY <1>2, <2>1, <3>1 DEF List
    <2>5. rgListed' \in [high : Nat, last : Nat] /\ rgListed'.last = m.ver /\ rgListed'.high = m.ver
      BY <2>2, <2>4
    <2> QED BY <2>1, <2>2, <2>4, <2>5 DEF RgInv, RgTop
  <1>3. ASSUME NEW p \in RgProc, NEW r \in RgBundle, RegistryInstallBegin(p, r) PROVE RgInv'
    BY <1>3 DEF RegistryInstallBegin, RgTo, RgInv, RgTop
  <1>4. ASSUME NEW p \in RgProc, RegistryInstallPin(p) PROVE RgInv'
    <2>1. PICK i \in [at : {"pin", "write"}, bundle : RgBundle, pinned : BOOLEAN] : i = rgInstall[p]
      BY <1>4 DEF RegistryInstallPin, RgInv, RgIdle
    <2>2. [i EXCEPT !.at = "write"] \in [at : {"pin", "write"}, bundle : RgBundle, pinned : BOOLEAN]
      BY <2>1
    <2>3. rgInstall' \in [RgProc -> {RgIdle} \cup [at : {"pin", "write"}, bundle : RgBundle, pinned : BOOLEAN]]
      BY <1>4, <2>1, <2>2 DEF RegistryInstallPin, RgTo, RgInv
    <2> QED BY <1>4, <2>3 DEF RegistryInstallPin, RgInv, RgTop
  <1>5. ASSUME NEW p \in RgProc, RegistryInstallWrite(p) PROVE RgInv'
    <2>1. PICK i \in [at : {"pin", "write"}, bundle : RgBundle, pinned : BOOLEAN] : i = rgInstall[p]
      BY <1>5 DEF RegistryInstallWrite, RgInv, RgIdle
    <2>2. PICK r \in RgBundle : r = i.bundle
      BY <2>1
    <2>3. /\ rgFiles' = {o \in rgFiles : o.ver # r.ver} \cup {r} /\ UNCHANGED <<rgPin, rgListed>> /\ RgTo(p, RgIdle)
      BY <1>5, <2>1, <2>2 DEF RegistryInstallWrite
    <2>4. r.ver \in Nat /\ \A o \in rgFiles : o.ver \in Nat
      BY RgAssumption DEF RgInv
    <2>5. RgTop(rgFiles')
      <3>1. CASE rgFiles = {}
        BY <2>3, <2>4, <3>1 DEF RgTop
      <3>2. CASE rgFiles # {}
        <4>1. PICK m \in rgFiles : \A o \in rgFiles : o.ver <= m.ver
          BY <3>2 DEF RgInv, RgTop
        <4>2. CASE m.ver <= r.ver
          <5>1. \A o \in rgFiles' : o.ver <= r.ver
            BY <2>3, <2>4, <4>1, <4>2
          <5> QED BY <2>3, <5>1 DEF RgTop
        <4>3. CASE m.ver > r.ver
          <5>1. m \in rgFiles' /\ \A o \in rgFiles' : o.ver <= m.ver
            BY <2>3, <2>4, <4>1, <4>3
          <5> QED BY <5>1 DEF RgTop
        <4> QED BY <2>4, <4>2, <4>3
      <3> QED BY <3>1, <3>2
    <2>6. ASSUME rgListed.high > 0 PROVE \E f \in rgFiles' : f.ver >= rgListed.high
      <3>1. PICK f \in rgFiles : f.ver >= rgListed.high
        BY <2>6 DEF RgInv
      <3> QED BY <2>3, <3>1
    <2>7. rgFiles' \in SUBSET RgBundle /\ rgInstall' \in [RgProc -> {RgIdle} \cup [at : {"pin", "write"}, bundle : RgBundle, pinned : BOOLEAN]]
      BY <2>3 DEF RgTo, RgInv
    <2> QED BY <2>3, <2>5, <2>6, <2>7 DEF RgInv
  <1>6. ASSUME NEW p \in RgProc, RgKilled(p) PROVE RgInv'
    BY <1>6 DEF RgKilled, RgTo, RgInv, RgTop
  <1> QED BY <1>1, <1>2, <1>3, <1>4, <1>5, <1>6 DEF RgNext

\* For any bundles, processes and interleaving of installs, restarts and decisions:
\* a decision rests on bundles that had not expired and allows nothing they deny,
\* and the registry serves no older version after a newer one
\* (internal/team/orgpolicy, internal/team/registry).
THEOREM SignedBundlesHold == (SbInit /\ [][SbNext]_sbVars) /\ (RgInit /\ [][RgNext]_rgVars) => []BundlesHold
  <1>1. SbInit => SbInv
    BY DEF SbInit, SbInv, SbNothing, DecisionNotStale, OrgOnlyNarrows
  <1>2. RgInit => RgInv
    BY DEF RgInit, RgInv
  <1>3. SbInv /\ RgInv => BundlesHold
    BY DEF SbInv, RgInv, BundlesHold, RegistryNeverBack
  <1> QED BY <1>1, <1>2, <1>3, SbNextInv, RgNextInv, PTL

-----------------------------------------------------------------------------
\* The UI server

UsRecord   == [at : {"idle", "handle", "record"}, kind : {"none", "bootstrap", "csrf"}, status : Nat]
UsInFlight == {r \in UsReq : usReq[r].at # "idle"}

UsTypeOK ==
    /\ usSrv \in [up : BOOLEAN, external : BOOLEAN, scope : Nat, llm : BOOLEAN]
    /\ usConsumed \in {0, 1} /\ usLim \in [failures : Nat, resetAt : Nat] /\ usFails \in Nat
    /\ usReq \in [UsReq -> UsRecord] /\ usTime \in Nat

\* The limiter's count is the number of recorded failures up to its limit; at the
\* limit only the requests that have passed the gate can add to them.
UsLimitInv ==
    /\ usLim.failures = IF usFails < UsMaxFail THEN usFails ELSE UsMaxFail
    /\ usFails >= UsMaxFail => usFails + Cardinality(UsInFlight) <= UsMaxFail + Cardinality(UsReq) - 1

\* In an LLM session the server has the lowest scope and listens locally.
UsLlmInv ==
    /\ ~usSrv.up => usServed = "none"
    /\ usSrv.llm => ~usSrv.external /\ usSrv.scope = UsStatusOnly
    /\ usSrv.llm => usServed \in {"none", "status", "settings_get", "settings_put"}

UsInv == UsTypeOK /\ UsLimitInv /\ UsLlmInv

\* Counting the requests that have passed the gate.
LEMMA UsCount ==
    ASSUME UsTypeOK
    PROVE  /\ IsFiniteSet(UsInFlight) /\ Cardinality(UsInFlight) \in Nat /\ Cardinality(UsReq) \in Nat
           /\ Cardinality(UsInFlight) <= Cardinality(UsReq)
  <1>1. UsInFlight \subseteq UsReq
    BY DEF UsInFlight
  <1> QED BY <1>1, UsAssumption, FS_Subset, FS_CardinalityType

\* The server starts.
LEMMA UsStarts ==
    ASSUME UsInv, NEW l \in UsLaunches, UiCmd(l) \/ KeylatchdCmd(l)
    PROVE  UsInv'
  <1>1. l \in [cmd : {"ui", "daemon", "desktop"}, llm : BOOLEAN, scope : Nat, unsafe : BOOLEAN, listen : BOOLEAN]
    BY UsAssumption
  <1>2. PICK e \in BOOLEAN, a \in BOOLEAN, s \in Nat : UiNew(l, [external |-> e, allow |-> a], s)
    <2>1. CASE KeylatchdCmd(l)
      BY <2>1 DEF KeylatchdCmd, UsAdmin
    <2>2. CASE UiCmd(l)
      <3>1. PICK f : f = UiFlags(l)
        OBVIOUS
      <3>2. f \in [cmd : {"ui", "daemon", "desktop"}, llm : BOOLEAN, scope : Nat, unsafe : BOOLEAN, listen : BOOLEAN]
        BY <1>1, <3>1 DEF UiFlags, UsStatusOnly
      <3>3. PICK e \in BOOLEAN : e = (f.unsafe \/ f.listen)
        BY <3>2
      <3>4. f.scope \in Nat
        BY <3>2
      <3> QED BY <2>2, <3>1, <3>3, <3>4 DEF UiCmd, UiBindAddr
    <2> QED BY <2>1, <2>2
  <1>3. PICK n \in Nat : n = (IF l.llm /\ s > UsStatusOnly THEN UsStatusOnly ELSE s)
    BY DEF UsStatusOnly
  <1>4. usSrv' = [up |-> TRUE, external |-> e, llm |-> l.llm, scope |-> n] /\ (l.llm => ~e)
    BY <1>2, <1>3 DEF UiNew
  <1>5. l.llm => n = UsStatusOnly
    BY <1>3 DEF UsStatusOnly
  <1>6. ~usSrv.up /\ UNCHANGED <<usConsumed, usLim, usFails, usReq, usTime, usSent, usServed, usEnv>>
    BY DEF UiCmd, KeylatchdCmd
  <1>7. UsTypeOK'
    BY <1>1, <1>4, <1>6 DEF UsInv, UsTypeOK
  <1>8. UsLimitInv'
    BY <1>6 DEF UsInv, UsLimitInv, UsInFlight
  <1>9. UsLlmInv'
    BY <1>4, <1>5, <1>6 DEF UsInv, UsLlmInv
  <1> QED BY <1>7, <1>8, <1>9 DEF UsInv

\* A request meets the gate: it passes only below the limit or in a new window.
LEMMA UsGates ==
    ASSUME UsInv, NEW r \in UsReq, NEW kind \in {"bootstrap", "csrf"}, Gate(r, kind)
    PROVE  UsInv'
  <1>1. /\ UNCHANGED <<usSrv, usConsumed, usTime, usServed>> /\ usReq[r].at = "idle"
        /\ usTime > usLim.resetAt => usLim' = UsNoEntry /\ usFails' = 0
        /\ ~(usTime > usLim.resetAt) => usLim' = usLim /\ usFails' = usFails
    BY DEF Gate
  <1>2. UsNoEntry \in [failures : Nat, resetAt : Nat] /\ UsNoEntry.failures = 0
    BY DEF UsNoEntry
  <1>3. UsIdle \in UsRecord /\ UsIdle.at = "idle"
    BY DEF UsIdle, UsRecord
  <1>4. UsTypeOK'
    <2>1. [at |-> "handle", kind |-> kind, status |-> 0] \in UsRecord
      BY DEF UsRecord
    <2>2. usReq' \in [UsReq -> UsRecord]
      BY <1>3, <2>1 DEF Gate, UsInv, UsTypeOK
    <2> QED BY <1>1, <1>2, <2>2 DEF UsInv, UsTypeOK
  <1>5. UsLlmInv'
    BY <1>1 DEF UsInv, UsLlmInv
  <1>6. usLim'.failures = IF usFails' < UsMaxFail THEN usFails' ELSE UsMaxFail
    BY <1>1, <1>2, UsAssumption DEF UsInv, UsLimitInv, UsTypeOK
  <1>7. ASSUME usFails' >= UsMaxFail PROVE usFails' + Cardinality(UsInFlight)' <= UsMaxFail + Cardinality(UsReq) - 1
    <2>1. ~(usTime > usLim.resetAt) /\ usFails' = usFails
      BY <1>1, <1>7, UsAssumption
    <2>2. IsBlocked
      BY <1>7, <2>1, UsAssumption DEF IsBlocked, UsInv, UsLimitInv, UsTypeOK
    <2>3. usReq' = [usReq EXCEPT ![r] = UsIdle]
      BY <2>2 DEF Gate
    <2>4. UsInFlight' = UsInFlight
      BY <1>1, <1>3, <2>3 DEF UsInFlight, UsInv, UsTypeOK
    <2> QED BY <1>7, <2>1, <2>4 DEF UsInv, UsLimitInv
  <1> QED BY <1>4, <1>5, <1>6, <1>7 DEF UsInv, UsLimitInv

\* A request is handled: it stays in flight until its verdict is recorded.
LEMMA UsHandles ==
    ASSUME UsInv, NEW r \in UsReq, HandleCSRF(r) \/ \E good \in BOOLEAN : HandleBootstrap(r, good)
    PROVE  UsInv'
  <1>1. /\ UNCHANGED <<usSrv, usLim, usFails, usTime, usServed>> /\ usReq[r].at = "handle" /\ usConsumed' \in {0, 1}
    BY DEF HandleCSRF, HandleBootstrap, ConsumeBootstrap, UsInv, UsTypeOK
  <1>2. PICK s \in Nat : UsGo(r, "record", s)
    BY DEF HandleCSRF, HandleBootstrap
  <1>3. PICK b \in UsRecord : b = usReq[r]
    BY DEF UsInv, UsTypeOK
  <1>4. PICK c : c = [b EXCEPT !.at = "record", !.status = s]
    OBVIOUS
  <1>5. c \in UsRecord /\ c.at = "record"
    BY <1>3, <1>4 DEF UsRecord
  <1>6. usReq' = [usReq EXCEPT ![r] = c]
    BY <1>2, <1>3, <1>4 DEF UsGo, UsInv, UsTypeOK
  <1>7. UsTypeOK'
    BY <1>1, <1>5, <1>6 DEF UsInv, UsTypeOK
  <1>8. UsInFlight' = UsInFlight
    BY <1>1, <1>5, <1>6 DEF UsInFlight, UsInv, UsTypeOK
  <1>9. UsLimitInv' /\ UsLlmInv'
    BY <1>1, <1>8 DEF UsInv, UsLimitInv, UsLlmInv
  <1> QED BY <1>7, <1>9 DEF UsInv

\* The verdict is recorded: one request fewer is in flight, one failure more or none.
LEMMA UsRecords ==
    ASSUME UsInv, NEW r \in UsReq, Record(r)
    PROVE  UsInv'
  <1>1. UNCHANGED <<usSrv, usConsumed, usTime, usServed>> /\ usReq[r].at = "record" /\ usReq' = [usReq EXCEPT ![r] = UsIdle]
    BY DEF Record
  <1>2. UsNoEntry \in [failures : Nat, resetAt : Nat] /\ UsNoEntry.failures = 0 /\ UsIdle \in UsRecord /\ UsIdle.at = "idle"
    BY DEF UsNoEntry, UsIdle, UsRecord
  <1>3. UsInFlight' = UsInFlight \ {r} /\ r \in UsInFlight
    BY <1>1, <1>2 DEF UsInFlight, UsInv, UsTypeOK
  <1>4. PICK c \in Nat, n \in Nat : /\ c = Cardinality(UsInFlight) /\ n = Cardinality(UsReq) /\ c <= n
                                     /\ Cardinality(UsInFlight)' = c - 1 /\ c >= 1
    <2>1. IsFiniteSet(UsInFlight) /\ Cardinality(UsInFlight) \in Nat /\ Cardinality(UsReq) \in Nat /\ Cardinality(UsInFlight) <= Cardinality(UsReq)
      BY UsCount DEF UsInv
    <2>2. Cardinality(UsInFlight') = Cardinality(UsInFlight) - 1
      BY <1>3, <2>1, FS_RemoveElement
    <2>3. Cardinality(UsInFlight) # 0
      BY <1>3, <2>1, FS_EmptySet
    <2> QED BY <2>1, <2>2, <2>3
  <1>5. /\ usLim \in [failures : Nat, resetAt : Nat] /\ usFails \in Nat /\ usTime \in Nat
        /\ UsMaxFail \in Nat /\ UsMaxFail >= 1 /\ UsWindow \in Nat
        /\ usLim.failures = (IF usFails < UsMaxFail THEN usFails ELSE UsMaxFail)
        /\ usFails >= UsMaxFail => usFails + c <= UsMaxFail + n - 1
    BY <1>4, UsAssumption DEF UsInv, UsTypeOK, UsLimitInv
  <1>6. /\ usLim' \in [failures : Nat, resetAt : Nat] /\ usFails' \in Nat
        /\ usLim'.failures = (IF usFails' < UsMaxFail THEN usFails' ELSE UsMaxFail)
        /\ usFails' >= UsMaxFail => usFails' + (c - 1) <= UsMaxFail + n - 1
    <2>1. CASE usFails' = usFails /\ usLim' = usLim
      BY <1>4, <1>5, <2>1
    <2>2. CASE RecordSuccess
      BY <1>2, <1>5, <2>2 DEF RecordSuccess
    <2>3. CASE CheckAndRecord
      <3>1. CASE usLim' = [failures |-> 1, resetAt |-> usTime + UsWindow] /\ usFails' = 1
        <4>1. usTime + UsWindow \in Nat
          BY <1>5
        <4>2. usLim' \in [failures : Nat, resetAt : Nat] /\ usLim'.failures = 1
          BY <3>1, <4>1
        <4> QED BY <1>4, <1>5, <3>1, <4>2
      <3>2. CASE /\ usLim' = [usLim EXCEPT !.failures = IF @ >= UsMaxFail THEN @ ELSE @ + 1] /\ usFails' = usFails + 1
        <4>1. PICK f \in Nat : f = IF usLim.failures >= UsMaxFail THEN usLim.failures ELSE usLim.failures + 1
          BY <1>5
        <4>2. usLim' \in [failures : Nat, resetAt : Nat] /\ usLim'.failures = f
          BY <1>5, <3>2, <4>1
        <4>3. f = (IF usFails + 1 < UsMaxFail THEN usFails + 1 ELSE UsMaxFail)
          BY <1>5, <4>1
        <4> QED BY <1>4, <1>5, <3>2, <4>2, <4>3
      <3> QED BY <2>3, <3>1, <3>2 DEF CheckAndRecord
    <2> QED BY <2>1, <2>2, <2>3 DEF Record
  <1>7. UsTypeOK'
    BY <1>1, <1>2, <1>6 DEF UsInv, UsTypeOK
  <1>8. UsLimitInv'
    BY <1>4, <1>6 DEF UsLimitInv
  <1>9. UsLlmInv'
    BY <1>1 DEF UsInv, UsLlmInv
  <1> QED BY <1>7, <1>8, <1>9 DEF UsInv

\* Every step keeps the invariant of the UI server.
LEMMA UsNextInv == UsInv /\ [UsNext]_usVars => UsInv'
  <1> SUFFICES ASSUME UsInv, [UsNext]_usVars PROVE UsInv'
    OBVIOUS
  <1>1. CASE UNCHANGED usVars
    BY <1>1 DEF usVars, UsInv, UsTypeOK, UsLimitInv, UsLlmInv, UsInFlight
  <1>2. CASE UsTick
    BY <1>2 DEF UsTick, UsInv, UsTypeOK, UsLimitInv, UsLlmInv, UsInFlight
  <1>3. ASSUME NEW op \in UsRead \cup UsWrite, NEW cookie \in BOOLEAN, NEW token \in BOOLEAN, ServeApi(op, cookie, token) PROVE UsInv'
    <2>1. /\ UNCHANGED <<usSrv, usConsumed, usLim, usFails, usReq, usTime>> /\ usServed' = op /\ usSrv.up /\ Mounted(op)
      BY <1>3 DEF ServeApi
    <2>2. UsTypeOK' /\ UsLimitInv'
      BY <2>1 DEF UsInv, UsTypeOK, UsLimitInv, UsInFlight
    <2>3. UsLlmInv'
      BY <2>1 DEF UsInv, UsLlmInv, Mounted, UsStatusOnly
    <2> QED BY <2>2, <2>3 DEF UsInv
  <1> QED BY <1>1, <1>2, <1>3, UsStarts, UsGates, UsHandles, UsRecords DEF UsNext

\* For any number of concurrent requests and any way to start the server: the
\* bootstrap token opens one session, a window lets through no more failures than
\* the limit and the requests then in flight, and an LLM session is served status
\* and settings only, the change of settings included (session.go, ratelimit.go, server.go).
THEOREM UiServerHolds == UsInit /\ [][UsNext]_usVars => []UiHolds
  <1>1. UsInit => UsInv
    <2> SUFFICES ASSUME UsInit PROVE UsInv
      OBVIOUS
    <2>1. UsTypeOK
      BY DEF UsInit, UsTypeOK, UsRecord, UsIdle, UsNoEntry, UsStatusOnly
    <2>2. UsLimitInv /\ UsLlmInv
      BY UsAssumption DEF UsInit, UsLimitInv, UsLlmInv, UsNoEntry, UsStatusOnly
    <2> QED BY <2>1, <2>2 DEF UsInv
  <1>2. UsInv => UiHolds
    <2> SUFFICES ASSUME UsInv PROVE UiHolds
      OBVIOUS
    <2>1. BootstrapOnce /\ LlmConfined
      BY DEF UsInv, UsTypeOK, UsLlmInv, BootstrapOnce, LlmConfined
    <2>2. LimiterHolds
      <3>1. Cardinality(UsInFlight) \in Nat /\ Cardinality(UsReq) \in Nat
        BY UsCount DEF UsInv
      <3> QED BY <3>1, UsAssumption DEF UsInv, UsTypeOK, UsLimitInv, LimiterHolds
    <2> QED BY <2>1, <2>2 DEF UiHolds
  <1> QED BY <1>1, <1>2, UsNextInv, PTL

-----------------------------------------------------------------------------
\* Setup

StName == StBackend \cup {"", "file", "keychain"}
StSteps == {"idle", "branch", "detect", "choose", "boot", "prepare", "load", "save", "configured", "mode", "gateway", "connect",
            "ui", "ref", "refsave"}
StFile == [kind : {"ok", "none", "bad"}, backend : StName, pref : BOOLEAN, ref : BOOLEAN, own : BOOLEAN]
StRun == [at : StSteps, flag : StName, advanced : BOOLEAN, configured : StName, chosen : StName, consent : BOOLEAN, cfg : StFile]

\* What a running setup may rely on: it has loaded the file that it will replace;
\* without consent it holds on to the backend of that file; what it will save was
\* bootstrapped.
StHolds(r) ==
    /\ r.at \in {"save", "mode", "refsave"} => r.cfg.kind = "ok" /\ (~stMoved /\ stConf.kind = "ok" => r.cfg = stConf)
    /\ ~stMoved /\ ~r.consent /\ r.at \in {"boot", "prepare", "load", "save"} => stConf.kind = "ok" /\ stConf.backend = r.chosen
    /\ r.at = "prepare" => r.chosen = "keychain" \/ r.chosen \in stReady
    /\ r.at \in {"load", "save", "configured"} => r.chosen \in stReady
    /\ r.at = "configured" /\ ~stMoved => stConf.kind = "ok" /\ stConf.backend = r.chosen

StInv ==
    /\ stConf \in StFile /\ stLocked \in BOOLEAN /\ stCmd \in StRun /\ stMoved \in BOOLEAN
    /\ stConf.kind = "none" => ~stConf.own
    /\ stSilent = FALSE /\ stLost = FALSE /\ StHolds(stCmd)

\* The records setup starts from.
LEMMA StRecords ==
    /\ StIdle \in StRun /\ StIdle.at = "idle" /\ StAbsent \in StFile /\ StAbsent.kind = "none" /\ StAbsent.own = FALSE
    /\ \A b \in StName : StDefault(b) \in StFile /\ StDefault(b).kind = "ok" /\ StDefault(b).backend = b
  BY DEF StIdle, StRun, StSteps, StFile, StAbsent, StDefault, StName

\* Setup goes on, with the file as it is or written by its own bootstrap.
LEMMA StMove ==
    ASSUME StInv, NEW r \in StRun, stCmd' = r, stReady \subseteq stReady',
           stConf' \in StFile, stConf' = stConf \/ (stConf.kind = "none" /\ stConf'.kind = "ok"), stConf'.kind = "none" => ~stConf'.own,
           stLocked' = stLocked, stMoved' \in BOOLEAN, stSilent' = stSilent, stLost' = stLost, StHolds(r)'
    PROVE  StInv'
  BY DEF StInv, StHolds

\* Setup ends.
LEMMA StQuits ==
    ASSUME StInv, StQuit, stReady \subseteq stReady',
           stConf' \in StFile, stConf' = stConf \/ (stConf.kind = "none" /\ stConf'.kind = "ok"), stConf'.kind = "none" => ~stConf'.own,
           stLocked' = stLocked, stMoved' = stMoved, stSilent' = stSilent, stLost' = stLost
    PROVE  StInv'
  <1>1. PICK r \in StRun : r = StIdle
    BY StRecords
  <1>2. r.at = "idle" /\ stCmd' = r /\ stMoved' \in BOOLEAN
    BY <1>1, StRecords DEF StQuit, StInv
  <1>3. StHolds(r)'
    BY <1>2 DEF StHolds
  <1> QED BY <1>2, <1>3, StMove

\* Bootstrapping writes only a config that was absent.
LEMMA StBoots ==
    ASSUME StInv, NEW b \in StName, NEW ok \in BOOLEAN, BootRun(b, ok)
    PROVE  /\ stConf' \in StFile /\ (stConf' = stConf \/ (stConf.kind = "none" /\ stConf'.kind = "ok"))
           /\ (stConf'.kind = "none" => ~stConf'.own) /\ stReady \subseteq stReady' /\ (ok => b \in stReady')
  <1>1. StDefault(b) \in StFile /\ StDefault(b).kind = "ok"
    BY StRecords
  <1>2. stConf' = stConf \/ (stConf.kind = "none" /\ stConf' = StDefault(b))
    BY DEF BootRun, StBootConf
  <1>3. stReady \subseteq stReady' /\ (ok => b \in stReady')
    BY DEF BootRun
  <1> QED BY <1>1, <1>2, <1>3 DEF StInv

\* Only the running setup changes.
LEMMA StCmdStep ==
    ASSUME StInv, NEW r \in StRun, stCmd' = r, StOnlyCmd, StHolds(r)
    PROVE  StInv'
  <1>1. stConf' = stConf /\ stLocked' = stLocked /\ stReady' = stReady /\ stMoved' = stMoved /\ stSilent' = stSilent /\ stLost' = stLost
    BY DEF StOnlyCmd, StHist
  <1>2. StHolds(r)'
    BY <1>1 DEF StHolds
  <1> QED BY <1>1, <1>2, StMove DEF StInv

\* It ends, and nothing else changes.
LEMMA StCmdQuits ==
    ASSUME StInv, StQuit, StOnlyCmd
    PROVE  StInv'
  <1>1. stConf' = stConf /\ stLocked' = stLocked /\ stReady' = stReady /\ stMoved' = stMoved /\ stSilent' = stSilent /\ stLost' = stLost
    BY DEF StOnlyCmd, StHist
  <1> QED BY <1>1, StQuits DEF StInv

\* It goes to a step that relies on nothing.
LEMMA StCmdGoes ==
    ASSUME StInv, NEW at \in {"branch", "detect", "ref", "gateway", "connect", "ui"}, StAt(at), StOnlyCmd
    PROVE  StInv'
  <1>1. PICK c \in StRun : c = stCmd
    BY DEF StInv
  <1>2. PICK r : r = [c EXCEPT !.at = at]
    OBVIOUS
  <1>3. r \in StRun /\ r.at = at
    BY <1>2 DEF StRun, StSteps
  <1>4. stCmd' = r
    BY <1>1, <1>2 DEF StAt
  <1>5. StHolds(r)
    BY <1>3 DEF StHolds
  <1> QED BY <1>3, <1>4, <1>5, StCmdStep

\* The file is loaded before it is replaced.
LEMMA StLoads ==
    ASSUME StInv, NEW next \in {"save", "mode", "refsave"}, LoadConfigOrWarn(next), StOnlyCmd,
           next = "save" => stCmd.at = "load"
    PROVE  StInv'
  <1>1. PICK c \in StRun : c = stCmd /\ StHolds(c)
    BY DEF StInv, StHolds
  <1>2. PICK g \in StFile : g = IF stConf.kind = "ok" THEN stConf ELSE StDefault("file")
    BY StRecords DEF StInv, StName
  <1>3. g.kind = "ok"
    BY <1>2, StRecords DEF StName
  <1>4. PICK r : r = [c EXCEPT !.at = next, !.cfg = g]
    OBVIOUS
  <1>5. r \in StRun /\ r.at = next /\ r.cfg = g /\ r.consent = c.consent /\ r.chosen = c.chosen
    BY <1>4 DEF StRun, StSteps
  <1>6. CASE stLocked
    BY <1>6, StCmdQuits DEF LoadConfigOrWarn
  <1>7. CASE ~stLocked
    <2>1. stCmd' = r
      BY <1>1, <1>2, <1>4, <1>7 DEF LoadConfigOrWarn
    <2>2. StHolds(r)
      BY <1>1, <1>2, <1>3, <1>5 DEF StHolds
    <2> QED BY <1>5, <2>1, <2>2, StCmdStep
  <1> QED BY <1>6, <1>7

\* The file is replaced.
LEMMA StSaves ==
    ASSUME StInv, NEW c \in StFile, StSave(c), c.kind = "ok", NEW r \in StRun, stCmd' = r, stReady' = stReady, stMoved' = stMoved,
           ~stMoved /\ stConf.kind = "ok" => c.own = stConf.own /\ (stCmd.consent \/ c.backend = stConf.backend),
           r.at \in {"configured", "gateway", "idle"},
           r.at = "configured" => r.chosen \in stReady /\ r.chosen = c.backend
    PROVE  StInv'
  <1>1. stConf' = c /\ stLocked' = FALSE
    BY DEF StSave
  <1>2. ~(~stMoved /\ stConf.own /\ ~c.own /\ stConf.kind # "bad")
    BY DEF StInv, StFile
  <1>3. ~(~stMoved /\ ~stCmd.consent /\ stConf.kind = "ok" /\ c.backend # stConf.backend)
    OBVIOUS
  <1>4. stLost' = FALSE
    BY <1>2 DEF StSave, StInv
  <1>5. stSilent' = FALSE
    BY <1>3 DEF StSave, StInv
  <1>6. StHolds(r)'
    BY <1>1 DEF StHolds
  <1> QED BY <1>1, <1>4, <1>5, <1>6 DEF StInv, StHolds

\* Another program changes config.json.
LEMMA StEdited ==
    ASSUME StInv, NEW b \in StName, EditConfig(b) \/ ConfigSet(b)
    PROVE  StInv'
  <1>1. PICK f \in StFile : f = stConf
    BY DEF StInv
  <1>2. StDefault(b) \in StFile /\ StDefault(b).kind = "ok"
    BY StRecords
  <1>3. stConf' \in StFile /\ stConf'.kind # "none"
    <2>1. PICK d \in StFile : d = StDefault(b)
      BY <1>2
    <2>2. PICK x : x = [d EXCEPT !.own = TRUE]
      OBVIOUS
    <2>3. PICK y : y = [f EXCEPT !.kind = "bad", !.own = TRUE]
      OBVIOUS
    <2>4. PICK z : z = [f EXCEPT !.backend = b]
      OBVIOUS
    <2>5. x \in StFile /\ x.kind = d.kind
      BY <2>1, <2>2 DEF StFile
    <2>6. y \in StFile /\ y.kind = "bad"
      BY <2>3 DEF StFile
    <2>7. z \in StFile /\ z.kind = f.kind
      BY <2>4 DEF StFile
    <2>8. CASE EditConfig(b)
      BY <1>1, <1>2, <2>1, <2>2, <2>3, <2>5, <2>6, <2>8 DEF EditConfig
    <2>9. CASE ConfigSet(b)
      BY <1>1, <1>2, <2>4, <2>7, <2>9 DEF ConfigSet
    <2> QED BY <2>8, <2>9
  <1>4. stCmd' = stCmd /\ stReady' = stReady /\ stSilent' = stSilent /\ stLost' = stLost /\ stLocked' \in BOOLEAN
    BY DEF EditConfig, ConfigSet, StInv
  <1>5. stMoved' = (stMoved \/ stCmd.at # "idle")
    BY DEF EditConfig, ConfigSet
  <1>6. stMoved' \in BOOLEAN
    BY <1>5, Zenon DEF StInv
  <1>7. stMoved' \/ stCmd.at = "idle"
    BY <1>5
  <1>8. StHolds(stCmd)'
    BY <1>4, <1>7 DEF StInv, StHolds
  <1> QED BY <1>3, <1>4, <1>6, <1>8 DEF StInv

\* Setup starts; without a terminal it only bootstraps.
LEMMA StStarts ==
    ASSUME StInv,
           \/ \E f \in StBackend \cup {""}, adv \in BOOLEAN : StartSetup(f, adv)
           \/ \E b \in StBackend, h, f \in BOOLEAN : SetupUnattended(b, h, f)
           \/ ChangeMode
    PROVE  StInv'
  <1>1. ASSUME NEW f \in StBackend \cup {""}, NEW adv \in BOOLEAN, StartSetup(f, adv) PROVE StInv'
    <2>1. PICK r : r = [StIdle EXCEPT !.at = "branch", !.flag = f, !.advanced = adv]
      OBVIOUS
    <2>2. r \in StRun /\ r.at = "branch"
      BY <2>1, StRecords DEF StRun, StSteps, StName
    <2>3. stCmd' = r /\ stMoved' = FALSE /\ stConf' = stConf /\ stLocked' = stLocked /\ stReady' = stReady /\ stSilent' = stSilent
          /\ stLost' = stLost
      BY <1>1, <2>1 DEF StartSetup
    <2>4. StHolds(r)'
      BY <2>2 DEF StHolds
    <2> QED BY <2>2, <2>3, <2>4, StMove DEF StInv
  <1>2. ASSUME NEW b \in StBackend, NEW h \in BOOLEAN, NEW f \in BOOLEAN, SetupUnattended(b, h, f) PROVE StInv'
    <2>1. stCmd.at = "idle" /\ stCmd' = stCmd /\ stLocked' = stLocked /\ stMoved' = stMoved /\ stSilent' = stSilent /\ stLost' = stLost
      BY <1>2 DEF SetupUnattended, StHist
    <2>2. (stConf' = stConf /\ stReady' = stReady) \/ \E ok \in BOOLEAN : BootRun(b, ok)
      BY <1>2 DEF SetupUnattended, BootMay
    <2>3. b \in StName
      BY DEF StName
    <2>4. stConf' \in StFile /\ (stConf'.kind = "none" => ~stConf'.own)
      BY <2>2, <2>3, StBoots DEF StInv
    <2>5. StHolds(stCmd)'
      BY <2>1 DEF StHolds
    <2> QED BY <2>1, <2>4, <2>5 DEF StInv
  <1>3. CASE ChangeMode
    <2>1. stCmd' = stCmd /\ stConf' = stConf /\ stReady' = stReady /\ stMoved' = stMoved /\ stSilent' = stSilent /\ stLost' = stLost
          /\ stLocked' = ~stLocked
      BY <1>3 DEF ChangeMode, StHist
    <2>2. stLocked' \in BOOLEAN
      BY <2>1, Zenon
    <2>3. StHolds(stCmd)'
      BY <2>1 DEF StInv, StHolds
    <2> QED BY <2>1, <2>2, <2>3 DEF StInv
  <1> QED BY <1>1, <1>2, <1>3

\* The backend is detected and chosen; a switch needs consent.
LEMMA StChooses ==
    ASSUME StInv, Step1DetectPlatform \/ Step2Choose
    PROVE  StInv'
  <1>1. PICK c \in StRun : c = stCmd /\ StHolds(c)
    BY DEF StInv, StHolds
  <1>2. PICK k \in StName : k = Configured /\ (k # "" => stConf.kind = "ok" /\ stConf.backend = k)
    BY DEF Configured, StInv, StFile, StName
  <1>3. CASE Step1DetectPlatform
    <2>1. PICK b \in StName : b = IF Configured # "" THEN Configured ELSE Platform
      BY <1>2 DEF Platform, StName
    <2>2. PICK r : r = [c EXCEPT !.at = "choose", !.chosen = b]
      OBVIOUS
    <2>3. r \in StRun /\ r.at = "choose"
      BY <2>2 DEF StRun, StSteps
    <2>4. StHolds(r)
      BY <2>3 DEF StHolds
    <2>5. StQuit \/ stCmd' = r
      BY <1>1, <1>3, <2>1, <2>2 DEF Step1DetectPlatform
    <2> QED BY <1>3, <2>3, <2>4, <2>5, StCmdQuits, StCmdStep DEF Step1DetectPlatform
  <1>4. CASE Step2Choose
    <2>1. CASE stLocked
      BY <1>4, <2>1, StCmdQuits DEF Step2Choose
    <2>2. CASE ~stLocked
      <3>1. PICK b \in StChoices, typed \in BOOLEAN :
               stCmd' = [stCmd EXCEPT !.at = "boot", !.configured = Configured,
                            !.chosen = IF stCmd.flag = "" /\ Configured # "" /\ b # Configured /\ ~typed THEN Configured ELSE b,
                            !.consent = (stCmd.flag # "" \/ typed \/ Configured = "")]
        BY <1>4, <2>2 DEF Step2Choose
      <3>2. b \in StName
        BY ZenonT(60) DEF StChoices, StName, StInv, StRun
      <3>3. PICK s \in BOOLEAN : s = (stCmd.flag # "" \/ typed \/ Configured = "")
        BY Zenon
      <3>4. PICK d \in StName : d = IF stCmd.flag = "" /\ Configured # "" /\ b # Configured /\ ~typed THEN Configured ELSE b
        BY <1>2, <3>2
      <3>5. ~s => k # "" /\ d = k
        BY <1>2, <3>3, <3>4
      <3>6. PICK r : r = [c EXCEPT !.at = "boot", !.configured = k, !.chosen = d, !.consent = s]
        OBVIOUS
      <3>7. r \in StRun
        BY <3>6 DEF StRun, StSteps
      <3>8. r.at = "boot" /\ r.chosen = d /\ (r.consent <=> s)
        BY <3>6 DEF StRun
      <3>9. stCmd' = r
        BY <1>1, <1>2, <3>1, <3>3, <3>4, <3>6, Zenon
      <3>10. StHolds(r)
        BY <1>2, <3>5, <3>8 DEF StHolds
      <3> QED BY <1>4, <3>7, <3>9, <3>10, StCmdStep, ZenonT(60) DEF Step2Choose
    <2> QED BY <2>1, <2>2
  <1> QED BY <1>3, <1>4

\* The chosen backend is bootstrapped, or the file backend in its place.
LEMMA StBootstraps ==
    ASSUME StInv, Step2Bootstrap \/ FallBack
    PROVE  StInv'
  <1>1. PICK c \in StRun : c = stCmd /\ StHolds(c)
    BY DEF StInv, StHolds
  <1>2. stLocked' = stLocked /\ stMoved' = stMoved /\ stSilent' = stSilent /\ stLost' = stLost
    BY DEF Step2Bootstrap, FallBack, StHist
  <1>3. PICK b \in StName, ok \in BOOLEAN : BootRun(b, ok)
                /\ \/ StQuit
                   \/ c.at = "boot" /\ StAt("prepare") /\ b = c.chosen /\ (ok \/ b = "keychain")
                   \/ c.at = "prepare" /\ ok /\ b = "file" /\ stCmd' = [stCmd EXCEPT !.at = "load", !.chosen = "file", !.consent = TRUE]
    <2>1. \A x : BootMay(x) \subseteq BOOLEAN
      BY DEF BootMay
    <2>2. CASE Step2Bootstrap
      <3>1. PICK o \in BootMay(stCmd.chosen) :
               /\ IF stCmd.chosen = "keychain" THEN BootRun("keychain", FALSE) ELSE BootRun(stCmd.chosen, o)
               /\ IF o THEN StAt("prepare") ELSE StQuit
        BY <2>2 DEF Step2Bootstrap
      <3>2. c.at = "boot" /\ stCmd.chosen \in StName /\ "keychain" \in StName /\ o \in BOOLEAN
        BY <1>1, <2>1, <2>2 DEF Step2Bootstrap, StRun, StName
      <3>3. CASE stCmd.chosen = "keychain"
        BY <1>1, <3>1, <3>2, <3>3
      <3>4. CASE stCmd.chosen # "keychain"
        BY <1>1, <3>1, <3>2, <3>4
      <3> QED BY <3>3, <3>4
    <2>3. CASE FallBack
      <3>1. PICK o \in BootMay("file") :
               BootRun("file", o) /\ IF o THEN stCmd' = [stCmd EXCEPT !.at = "load", !.chosen = "file", !.consent = TRUE] ELSE StQuit
        BY <2>3 DEF FallBack
      <3>2. c.at = "prepare" /\ "file" \in StName /\ o \in BOOLEAN
        BY <1>1, <2>1, <2>3 DEF FallBack, StName
      <3> QED BY <3>1, <3>2
    <2> QED BY <2>2, <2>3
  <1>4. /\ stConf' \in StFile /\ (stConf' = stConf \/ (stConf.kind = "none" /\ stConf'.kind = "ok"))
        /\ (stConf'.kind = "none" => ~stConf'.own) /\ stReady \subseteq stReady' /\ (ok => b \in stReady')
    BY <1>3, StBoots
  <1>5. CASE StQuit
    BY <1>2, <1>4, <1>5, StQuits
  <1>6. CASE c.at = "boot" /\ StAt("prepare") /\ b = c.chosen /\ (ok \/ b = "keychain")
    <2>1. PICK r : r = [c EXCEPT !.at = "prepare"]
      OBVIOUS
    <2>2. r \in StRun /\ r.at = "prepare" /\ r.chosen = c.chosen /\ r.consent = c.consent
      BY <2>1 DEF StRun, StSteps
    <2>3. stCmd' = r /\ stMoved' \in BOOLEAN
      BY <1>1, <1>2, <1>6, <2>1 DEF StAt, StInv
    <2>4. StHolds(r)'
      BY <1>1, <1>2, <1>4, <1>6, <2>2 DEF StHolds
    <2> QED BY <1>2, <1>4, <2>2, <2>3, <2>4, StMove
  <1>7. CASE c.at = "prepare" /\ ok /\ b = "file" /\ stCmd' = [stCmd EXCEPT !.at = "load", !.chosen = "file", !.consent = TRUE]
    <2>1. PICK r : r = [c EXCEPT !.at = "load", !.chosen = "file", !.consent = TRUE]
      OBVIOUS
    <2>2. r \in StRun /\ r.at = "load" /\ r.chosen = "file" /\ r.consent = TRUE
      BY <2>1 DEF StRun, StSteps, StName
    <2>3. stCmd' = r /\ stMoved' \in BOOLEAN
      BY <1>1, <1>2, <1>7, <2>1 DEF StInv
    <2>4. StHolds(r)'
      BY <1>4, <1>7, <2>2 DEF StHolds
    <2> QED BY <1>2, <1>4, <2>2, <2>3, <2>4, StMove
  <1> QED BY <1>3, <1>5, <1>6, <1>7

\* The backend's own preparation works, or is given up.
LEMMA StPrepares ==
    ASSUME StInv, Prepared \/ PrepareDeclined
    PROVE  StInv'
  <1>1. PICK c \in StRun : c = stCmd /\ StHolds(c)
    BY DEF StInv, StHolds
  <1>2. stConf' = stConf /\ stLocked' = stLocked /\ stMoved' = stMoved /\ stSilent' = stSilent /\ stLost' = stLost /\ c.at = "prepare"
    BY <1>1 DEF Prepared, PrepareDeclined, StOnlyCmd, StHist
  <1>3. stReady \subseteq stReady' /\ (StQuit \/ (StAt("load") /\ c.chosen \in stReady'))
    <2>1. CASE Prepared
      BY <1>1, <1>2, <2>1 DEF Prepared, StHolds
    <2>2. CASE PrepareDeclined
      BY <1>1, <1>2, <2>2 DEF PrepareDeclined, StHolds, StOnlyCmd
    <2> QED BY <2>1, <2>2
  <1>4. CASE StQuit
    BY <1>2, <1>3, <1>4, StQuits DEF StInv
  <1>5. CASE StAt("load") /\ c.chosen \in stReady'
    <2>1. PICK r : r = [c EXCEPT !.at = "load"]
      OBVIOUS
    <2>2. r \in StRun /\ r.at = "load" /\ r.chosen = c.chosen /\ r.consent = c.consent
      BY <2>1 DEF StRun, StSteps
    <2>3. stCmd' = r
      BY <1>1, <1>5, <2>1 DEF StAt
    <2>4. StHolds(r)'
      BY <1>1, <1>2, <1>5, <2>2 DEF StHolds
    <2> QED BY <1>2, <1>3, <2>2, <2>3, <2>4, StMove DEF StInv
  <1> QED BY <1>3, <1>4, <1>5

\* The file is replaced by what was loaded, with one setting changed.
LEMMA StPersists ==
    ASSUME StInv, PersistSave \/ ModeSave \/ RefSave
    PROVE  StInv'
  <1>1. PICK c \in StRun : c = stCmd /\ StHolds(c)
    BY DEF StInv, StHolds
  <1>2. PICK g \in StFile : g = c.cfg
    BY DEF StRun
  <1>3. c.at \in {"save", "mode", "refsave"} /\ stReady' = stReady /\ stMoved' = stMoved
    BY <1>1 DEF PersistSave, ModeSave, RefSave
  <1>4. g.kind = "ok" /\ (~stMoved /\ stConf.kind = "ok" => g = stConf)
    BY <1>1, <1>2, <1>3 DEF StHolds
  <1>5. CASE PersistSave
    <2>1. PICK x : x = [g EXCEPT !.backend = c.chosen]
      OBVIOUS
    <2>2. x \in StFile /\ x.kind = "ok" /\ x.backend = c.chosen /\ x.own = g.own
      BY <1>4, <2>1 DEF StFile, StRun
    <2>3. PICK r : r = [c EXCEPT !.at = "configured"]
      OBVIOUS
    <2>4. r \in StRun /\ r.at = "configured" /\ r.chosen = c.chosen
      BY <2>3 DEF StRun, StSteps
    <2>5. StSave(x) /\ stCmd' = r /\ c.at = "save"
      BY <1>1, <1>2, <1>5, <2>1, <2>3 DEF PersistSave, StAt
    <2>6. ~stMoved /\ stConf.kind = "ok" => x.own = stConf.own /\ (stCmd.consent \/ x.backend = stConf.backend)
      BY <1>1, <1>4, <2>2, <2>5 DEF StHolds
    <2>7. r.chosen \in stReady /\ r.chosen = x.backend
      BY <1>1, <2>2, <2>4, <2>5 DEF StHolds
    <2> QED BY <1>3, <2>2, <2>4, <2>5, <2>6, <2>7, StSaves
  <1>6. CASE ModeSave
    <2>1. PICK x : x = [g EXCEPT !.pref = TRUE]
      OBVIOUS
    <2>2. x \in StFile /\ x.kind = "ok" /\ x.backend = g.backend /\ x.own = g.own
      BY <1>4, <2>1 DEF StFile
    <2>3. PICK r : r = [c EXCEPT !.at = "gateway"]
      OBVIOUS
    <2>4. r \in StRun /\ r.at = "gateway"
      BY <2>3 DEF StRun, StSteps
    <2>5. StSave(x) /\ stCmd' = r
      BY <1>1, <1>2, <1>6, <2>1, <2>3 DEF ModeSave, StAt
    <2> QED BY <1>3, <1>4, <2>2, <2>4, <2>5, StSaves
  <1>7. CASE RefSave
    <2>1. PICK x : x = [g EXCEPT !.ref = TRUE]
      OBVIOUS
    <2>2. x \in StFile /\ x.kind = "ok" /\ x.backend = g.backend /\ x.own = g.own
      BY <1>4, <2>1 DEF StFile
    <2>3. PICK r \in StRun : r = StIdle /\ r.at = "idle"
      BY StRecords
    <2>4. StSave(x) /\ stCmd' = r
      BY <1>1, <1>2, <1>7, <2>1, <2>3 DEF RefSave, StQuit
    <2> QED BY <1>3, <1>4, <2>2, <2>3, <2>4, StSaves
  <1> QED BY <1>5, <1>6, <1>7

\* Every way through setup, failed and interrupted ones and config.json changing
\* under it included, ends with a backend that works if it says so, replaces none
\* without consent and keeps the user's settings (setup_cmd.go:429, 572, 664), for
\* any backends and any number of setups.
THEOREM SetupKeepsPromises == StInit /\ [][StNext]_stVars => []SetupHolds
  <1>1. StInit => StInv
    <2> SUFFICES ASSUME StInit PROVE StInv
      OBVIOUS
    <2>1. PICK r \in StRun : r = stCmd /\ r.at = "idle"
      BY StRecords DEF StInit
    <2>2. StHolds(stCmd)
      BY <2>1 DEF StHolds
    <2> QED BY <2>1, <2>2, StRecords DEF StInit, StInv
  <1>2. StInv /\ [StNext]_stVars => StInv'
    <2> SUFFICES ASSUME StInv, [StNext]_stVars PROVE StInv'
      OBVIOUS
    <2>1. CASE UNCHANGED stVars
      BY <2>1 DEF StInv, StHolds, stVars
    <2>2. ASSUME NEW b \in StBackend, EditConfig(b) \/ ConfigSet(b) PROVE StInv'
      BY <2>2, StEdited DEF StName
    <2>3. CASE PromptStorageBranch \/ Step3SpawnDaemon \/ Step4ConnectProvider \/ Step5OpenApp \/ StCrash
      BY <2>3, StCmdGoes, StCmdQuits
         DEF PromptStorageBranch, Step3SpawnDaemon, Step4ConnectProvider, Step5OpenApp, StCrash
    <2>4. CASE PersistLoad \/ ModeLoad \/ RefLoad
      BY <2>4, StLoads, StCmdGoes, StCmdQuits DEF PersistLoad, ModeLoad, RefLoad
    <2> QED BY <2>1, <2>2, <2>3, <2>4, StStarts, StChooses, StBootstraps, StPrepares, StPersists DEF StNext
  <1>3. StInv => SetupHolds
    BY DEF StInv, StHolds, SetupHolds, DoneMeansReady, SwitchByConsent, UserSettingsKept
  <1> QED BY <1>1, <1>2, <1>3, PTL

-----------------------------------------------------------------------------
\* run and call

RnDriven == {"gateway_typed", "gateway_sdk", "direct_brokered", "gateway_proxy"}

\* What may reach a child from the caller's environment.
RnClean(env, r, mode) == \A n \in DOMAIN env : env[n].of = "parent" =>
    n \notin r.rules \ Granted(mode, r) /\ (n \in RnKeylatch => n \in r.extra)

\* The base of a child's environment: what is asked for, or everything but the
\* KEYLATCH_* settings that are not kept.
LEMMA RnBaseFacts ==
    ASSUME NEW env, NEW r, NEW keep
    PROVE  /\ DOMAIN ChildBase(env, r, keep) \subseteq DOMAIN env
           /\ \A n \in DOMAIN ChildBase(env, r, keep) :
                 ChildBase(env, r, keep)[n] = env[n] /\ (n \in RnKeylatch => n \in r.extra \cup keep)
  <1>1. "PATH" \notin RnKeylatch
    BY DEF RnKeylatch
  <1>2. CASE r.clean
    <2>1. ChildBase(env, r, keep) = RnKeep(env, {"PATH"} \cup r.extra)
      BY <1>2 DEF ChildBase, CleanBaseEnv
    <2> QED BY <1>1, <2>1 DEF RnKeep
  <1>3. CASE ~r.clean
    <2>1. ChildBase(env, r, keep) = RnKeep(env, (RnNames \ RnKeylatch) \cup keep)
      BY <1>3 DEF ChildBase, FilterChildEnv
    <2> QED BY <2>1 DEF RnKeep
  <1> QED BY <1>2, <1>3

\* A gateway child has the token minted for it and no variable of the rules.
LEMMA RnGatewayEnv ==
    ASSUME NEW r \in RnRequest, NEW p, NEW u \in {"URL", "BASE"}
    PROVE  /\ DOMAIN GatewayChildEnv(r, p, u) \cap r.rules = {} /\ GatewayChildEnv(r, p, u)["TOKEN"] = Value("token", p)
           /\ \A m : RnClean(GatewayChildEnv(r, p, u), r, m)
  <1>1. PICK base : base = ChildBase(RnStripped(r), r, {"TOKEN", "RUNTIME", u})
    OBVIOUS
  <1>2. PICK e1 : e1 = RnSet(base, u, Value("url", NoProc))
    OBVIOUS
  <1>3. PICK e2 : e2 = RnSet(e1, "TOKEN", Value("token", p))
    OBVIOUS
  <1>4. PICK e3 : e3 = RnSet(e2, "RUNTIME", Value("mode", p))
    OBVIOUS
  <1>5. PICK e4 : e4 = WithCanary(e3, r, p)
    OBVIOUS
  <1>6. GatewayChildEnv(r, p, u) = e4
    BY <1>1, <1>2, <1>3, <1>4, <1>5 DEF GatewayChildEnv
  <1>7. r.rules \subseteq {"KEY", "KEY2", "ID"}
    BY RnAssumption
  <1>8. DOMAIN base \cap r.rules = {} /\ \A n \in DOMAIN base : n \in RnKeylatch => n \in r.extra \cup {"TOKEN", "RUNTIME", u}
    <2>1. DOMAIN RnStripped(r) \cap r.rules = {}
      BY DEF RnStripped, RnKeep
    <2> QED BY <1>1, <2>1, RnBaseFacts
  <1>9. Value("url", NoProc).of # "parent" /\ Value("token", p).of # "parent" /\ Value("mode", p).of # "parent"
        /\ Value("canary", p).of # "parent"
    BY DEF Value
  <1>10. DOMAIN e1 = DOMAIN base \cup {u} /\ e1[u].of # "parent" /\ \A n \in DOMAIN base : n # u => e1[n] = base[n]
    BY <1>2, <1>9 DEF RnSet
  <1>11. DOMAIN e2 = DOMAIN e1 \cup {"TOKEN"} /\ e2["TOKEN"] = Value("token", p) /\ \A n \in DOMAIN e1 : n # "TOKEN" => e2[n] = e1[n]
    BY <1>3 DEF RnSet
  <1>12. DOMAIN e3 = DOMAIN e2 \cup {"RUNTIME"} /\ e3["RUNTIME"].of # "parent" /\ \A n \in DOMAIN e2 : n # "RUNTIME" => e3[n] = e2[n]
    BY <1>4, <1>9 DEF RnSet
  <1>13. /\ DOMAIN e4 \subseteq DOMAIN e3 \cup {"CANARY"} /\ e4["TOKEN"] = Value("token", p)
         /\ \A n \in DOMAIN e4 : n = "CANARY" \/ (n \in DOMAIN e3 /\ e4[n] = e3[n])
         /\ "CANARY" \in DOMAIN e4 => e4["CANARY"].of # "parent" \/ ("CANARY" \in DOMAIN e3 /\ e4["CANARY"] = e3["CANARY"])
    <2>1. "TOKEN" \in DOMAIN e3 /\ e3["TOKEN"] = Value("token", p)
      BY <1>11, <1>12
    <2>2. CASE r.canary
      BY <1>5, <1>9, <2>1, <2>2 DEF WithCanary, RnSet
    <2>3. CASE ~r.canary
      BY <1>5, <2>1, <2>3 DEF WithCanary
    <2> QED BY <2>2, <2>3
  <1>14. DOMAIN e4 \cap r.rules = {}
    BY <1>7, <1>8, <1>10, <1>11, <1>12, <1>13
  <1>15. ASSUME NEW n \in DOMAIN e4, e4[n].of = "parent" PROVE n \notin r.rules /\ (n \in RnKeylatch => n \in r.extra)
    <2>1. n \notin r.rules
      BY <1>14
    <2>2. n \in DOMAIN e3 /\ e3[n].of = "parent"
      BY <1>13, <1>15
    <2>3. n # "RUNTIME" /\ n \in DOMAIN e2 /\ e2[n].of = "parent"
      BY <1>12, <2>2
    <2>4. n # "TOKEN" /\ n \in DOMAIN e1 /\ e1[n].of = "parent"
      BY <1>9, <1>11, <2>3
    <2>5. n # u /\ n \in DOMAIN base
      BY <1>10, <2>4
    <2> QED BY <1>8, <2>1, <2>3, <2>4, <2>5
  <1> QED BY <1>6, <1>13, <1>14, <1>15 DEF RnClean

\* A brokered child has no root key in a variable of the rules.
LEMMA RnBrokeredEnv ==
    ASSUME NEW r \in RnRequest, NEW p
    PROVE  \A m : RnClean(BrokeredChildEnv(r, p), r, m)
  <1>1. PICK inj : inj = [n \in DOMAIN RnParent |-> IF n = "KEY" THEN Value("ephemeral", p)
                                                     ELSE IF n \in r.rules THEN Value("empty", p) ELSE RnParent[n]]
    OBVIOUS
  <1>2. PICK base : base = ChildBase(inj, r, {})
    OBVIOUS
  <1>3. PICK e : e = RnSet(base, "RUNTIME", Value("mode", p))
    OBVIOUS
  <1>4. BrokeredChildEnv(r, p) = e
    BY <1>1, <1>2, <1>3 DEF BrokeredChildEnv
  <1>5. Value("ephemeral", p).of # "parent" /\ Value("empty", p).of # "parent" /\ Value("mode", p).of # "parent"
    BY DEF Value
  <1>6. \A n \in DOMAIN inj : inj[n].of = "parent" => n \notin r.rules
    BY <1>1, <1>5
  <1>7. DOMAIN base \subseteq DOMAIN inj /\ \A n \in DOMAIN base : base[n] = inj[n] /\ (n \in RnKeylatch => n \in r.extra)
    BY <1>2, RnBaseFacts
  <1>8. DOMAIN e = DOMAIN base \cup {"RUNTIME"} /\ e["RUNTIME"].of # "parent" /\ \A n \in DOMAIN base : n # "RUNTIME" => e[n] = base[n]
    BY <1>3, <1>5 DEF RnSet
  <1> QED BY <1>4, <1>6, <1>7, <1>8 DEF RnClean

\* A proxy child has no variable of the rules but one that --extra asked for and that
\* is not named like a credential.
LEMMA RnProxyEnv ==
    ASSUME NEW r \in RnRequest, NEW p
    PROVE  /\ DOMAIN ProxyChildEnv(r, p) \cap r.rules \subseteq Granted("gateway_proxy", r)
           /\ RnClean(ProxyChildEnv(r, p), r, "gateway_proxy")
  <1>1. PICK base : base = RnKeep(RnParent, {"PATH"} \cup (r.extra \ CredentialShaped))
    OBVIOUS
  <1>2. PICK e1 : e1 = RnSet(base, "URL", Value("url", NoProc))
    OBVIOUS
  <1>3. PICK e2 : e2 = RnSet(e1, "SESSION", Value("token", p))
    OBVIOUS
  <1>4. PICK e3 : e3 = RnSet(e2, "RUNTIME", Value("mode", p))
    OBVIOUS
  <1>5. ProxyChildEnv(r, p) = e3
    BY <1>1, <1>2, <1>3, <1>4 DEF ProxyChildEnv
  <1>6. r.rules \subseteq {"KEY", "KEY2", "ID"}
    BY RnAssumption
  <1>7. DOMAIN base \subseteq {"PATH"} \cup (r.extra \ CredentialShaped)
    BY <1>1 DEF RnKeep
  <1>8. Value("url", NoProc).of # "parent" /\ Value("token", p).of # "parent" /\ Value("mode", p).of # "parent"
    BY DEF Value
  <1>9. DOMAIN e1 = DOMAIN base \cup {"URL"} /\ e1["URL"].of # "parent"
    BY <1>2, <1>8 DEF RnSet
  <1>10. DOMAIN e2 = DOMAIN e1 \cup {"SESSION"} /\ e2["SESSION"].of # "parent" /\ \A n \in DOMAIN e1 : n # "SESSION" => e2[n] = e1[n]
    BY <1>3, <1>8 DEF RnSet
  <1>11. DOMAIN e3 = DOMAIN e2 \cup {"RUNTIME"} /\ e3["RUNTIME"].of # "parent" /\ \A n \in DOMAIN e2 : n # "RUNTIME" => e3[n] = e2[n]
    BY <1>4, <1>8 DEF RnSet
  <1>12. DOMAIN e3 \cap r.rules \subseteq Granted("gateway_proxy", r)
    BY <1>6, <1>7, <1>9, <1>10, <1>11 DEF CredentialShaped, Granted
  <1>13. ASSUME NEW n \in DOMAIN e3, e3[n].of = "parent" PROVE n \in RnKeylatch => n \in r.extra
    <2>1. n \in DOMAIN base
      BY <1>9, <1>10, <1>11, <1>13
    <2> QED BY <1>7, <2>1 DEF RnKeylatch
  <1> QED BY <1>5, <1>12, <1>13 DEF RnClean

\* Where each command is, and what it holds there.
RnProcInv(p) ==
    /\ rnAt[p] # "idle" => rnReq[p] \in RnRequest
    /\ rnAt[p] # "exited" => rnExit[p] = -1 /\ rnChild[p] = "none"
    /\ rnAt[p] \notin {"exchange", "start", "call"} => rnMem[p] = {}
    /\ rnAt[p] = "exchange" => RnResolve(rnReq[p]) = "direct_brokered"
    /\ rnEnv[p] # NoEnv => /\ rnAt[p] \in {"start", "exited"} /\ RnResolve(rnReq[p]) \in RnDriven
                           /\ rnEnv[p] = DriverEnv(RnResolve(rnReq[p]), rnReq[p], p)
    /\ rnExit[p] = 0 => rnChild[p] = "ok" \/ rnReq[p].dry
    /\ rnChild[p] = "ok" => rnExit[p] = 0

RnFunctions ==
    /\ rnAt = [p \in RnProc |-> rnAt[p]] /\ rnReq = [p \in RnProc |-> rnReq[p]] /\ rnEnv = [p \in RnProc |-> rnEnv[p]]
    /\ rnMem = [p \in RnProc |-> rnMem[p]] /\ rnChild = [p \in RnProc |-> rnChild[p]] /\ rnExit = [p \in RnProc |-> rnExit[p]]
RnInv == RnFunctions /\ \A p \in RnProc : RnProcInv(p)

\* The same of a command in its next state.
RnFits(q, at, req, env, mem, child, code) ==
    /\ at # "idle" => req \in RnRequest
    /\ at # "exited" => code = -1 /\ child = "none"
    /\ at \notin {"exchange", "start", "call"} => mem = {}
    /\ at = "exchange" => RnResolve(req) = "direct_brokered"
    /\ env # NoEnv => at \in {"start", "exited"} /\ RnResolve(req) \in RnDriven /\ env = DriverEnv(RnResolve(req), req, q)
    /\ code = 0 => child = "ok" \/ req.dry
    /\ child = "ok" => code = 0

\* One command makes a step.
LEMMA RnStep ==
    ASSUME RnInv, NEW q \in RnProc, NEW at, NEW req, NEW env, NEW mem, NEW child, NEW code,
           rnAt' = [rnAt EXCEPT ![q] = at], rnReq' = [rnReq EXCEPT ![q] = req], rnEnv' = [rnEnv EXCEPT ![q] = env],
           rnMem' = [rnMem EXCEPT ![q] = mem], rnChild' = [rnChild EXCEPT ![q] = child], rnExit' = [rnExit EXCEPT ![q] = code],
           RnFits(q, at, req, env, mem, child, code)
    PROVE  RnInv'
  <1>1. /\ rnAt'[q] = at /\ rnReq'[q] = req /\ rnEnv'[q] = env /\ rnMem'[q] = mem /\ rnChild'[q] = child /\ rnExit'[q] = code
    BY DEF RnInv, RnFunctions
  <1>2. \A p \in RnProc : p # q => /\ rnAt'[p] = rnAt[p] /\ rnReq'[p] = rnReq[p] /\ rnEnv'[p] = rnEnv[p] /\ rnMem'[p] = rnMem[p]
                                   /\ rnChild'[p] = rnChild[p] /\ rnExit'[p] = rnExit[p]
    BY DEF RnInv, RnFunctions
  <1>3. RnFunctions'
    BY DEF RnInv, RnFunctions
  <1>4. ASSUME NEW p \in RnProc PROVE RnProcInv(p)'
    <2>1. CASE p = q
      BY <1>1, <2>1 DEF RnProcInv, RnFits
    <2>2. CASE p # q
      BY <1>2, <2>2 DEF RnInv, RnProcInv
    <2> QED BY <2>1, <2>2
  <1> QED BY <1>3, <1>4 DEF RnInv

\* A variable the step leaves alone.
RnSame(q) ==
    /\ rnAt = [rnAt EXCEPT ![q] = rnAt[q]] /\ rnReq = [rnReq EXCEPT ![q] = rnReq[q]] /\ rnEnv = [rnEnv EXCEPT ![q] = rnEnv[q]]
    /\ rnMem = [rnMem EXCEPT ![q] = rnMem[q]] /\ rnChild = [rnChild EXCEPT ![q] = rnChild[q]] /\ rnExit = [rnExit EXCEPT ![q] = rnExit[q]]
\* Nothing is changed by writing what is there.
LEMMA RnSameLemma ==
    ASSUME RnInv, NEW q \in RnProc
    PROVE  RnSame(q)
  BY DEF RnInv, RnFunctions, RnSame

\* A command starts.
LEMMA RnStarts ==
    ASSUME RnInv, NEW q \in RnProc, NEW r \in RnRequest, RunStart(q, r) \/ CallStart(q, r)
    PROVE  RnInv'
  <1>1. RnSame(q) /\ RnProcInv(q)
    BY RnSameLemma DEF RnInv
  <1>2. rnAt[q] = "idle"
    BY DEF RunStart, CallStart
  <1>3. /\ rnReq' = [rnReq EXCEPT ![q] = r] /\ rnEnv' = rnEnv /\ rnChild' = rnChild
    BY DEF RunStart, RunDryRun, CallStart
  <1>4. rnEnv[q] = NoEnv /\ rnMem[q] = {} /\ rnChild[q] = "none" /\ rnExit[q] = -1
    BY <1>1, <1>2 DEF RnProcInv
  <1>5. ASSUME NEW code, rnAt' = [rnAt EXCEPT ![q] = "exited"], rnExit' = [rnExit EXCEPT ![q] = code],
               rnMem' = [rnMem EXCEPT ![q] = {}] \/ rnMem' = rnMem, code # 0 \/ r.dry
        PROVE  RnInv'
    <2>1. rnMem' = [rnMem EXCEPT ![q] = {}] /\ rnEnv' = [rnEnv EXCEPT ![q] = NoEnv] /\ rnChild' = [rnChild EXCEPT ![q] = "none"]
      BY <1>1, <1>3, <1>4, <1>5 DEF RnSame
    <2>2. RnFits(q, "exited", r, NoEnv, {}, "none", code)
      BY <1>5 DEF RnFits
    <2> QED BY <1>3, <1>5, <2>1, <2>2, RnStep
  <1>6. ASSUME rnAt' = [rnAt EXCEPT ![q] = "daemon"], rnExit' = rnExit, rnMem' = rnMem PROVE RnInv'
    <2>1. rnMem' = [rnMem EXCEPT ![q] = {}] /\ rnEnv' = [rnEnv EXCEPT ![q] = NoEnv] /\ rnChild' = [rnChild EXCEPT ![q] = "none"]
      BY <1>1, <1>3, <1>4, <1>6 DEF RnSame
    <2>2. PICK code : code = rnExit[q]
      OBVIOUS
    <2>3. code = -1 /\ code # 0 /\ rnExit' = [rnExit EXCEPT ![q] = code]
      BY <1>1, <1>4, <1>6, <2>2 DEF RnSame
    <2>4. RnFits(q, "daemon", r, NoEnv, {}, "none", code)
      BY <2>3 DEF RnFits
    <2>5. rnExit' = [rnExit EXCEPT ![q] = code]
      BY <2>3
    <2>6. rnAt' = [rnAt EXCEPT ![q] = "daemon"] /\ rnReq' = [rnReq EXCEPT ![q] = r]
      BY <1>3, <1>6
    <2> QED BY <2>1, <2>4, <2>5, <2>6, RnStep, Zenon
  <1>7. CASE CallStart(q, r)
    BY <1>6, <1>7 DEF CallStart, Goto
  <1>8. CASE RunDryRun(q, r)
    BY <1>5, <1>8 DEF RunDryRun, Exit, Goto
  <1>9. CASE RunStart(q, r) /\ ~RunDryRun(q, r)
    BY <1>5, <1>6, <1>9 DEF RunStart, ExitKeeping, Goto
  <1> QED BY <1>7, <1>8, <1>9

\* A command ends, with what it started or without.
LEMMA RnExits ==
    ASSUME RnInv, NEW q \in RnProc, rnAt[q] # "idle", rnAt[q] # "exited", NEW code, NEW child, code = 0 <=> child = "ok",
           Exit(q, code) \/ (ExitKeeping(q, code) /\ rnMem[q] = {}), rnReq' = rnReq, rnEnv' = rnEnv,
           rnChild' = [rnChild EXCEPT ![q] = child]
    PROVE  RnInv'
  <1>1. RnSame(q) /\ RnProcInv(q)
    BY RnSameLemma DEF RnInv
  <1>2. PICK req, env : req = rnReq[q] /\ env = rnEnv[q]
    OBVIOUS
  <1>3. rnReq' = [rnReq EXCEPT ![q] = req] /\ rnEnv' = [rnEnv EXCEPT ![q] = env] /\ rnMem' = [rnMem EXCEPT ![q] = {}]
    BY <1>1, <1>2 DEF RnSame, Exit, ExitKeeping
  <1>4. rnAt' = [rnAt EXCEPT ![q] = "exited"] /\ rnExit' = [rnExit EXCEPT ![q] = code]
    BY DEF Exit, ExitKeeping, Goto
  <1>5. RnFits(q, "exited", req, env, {}, child, code)
    BY <1>1, <1>2 DEF RnFits, RnProcInv
  <1> QED BY <1>3, <1>4, <1>5, RnStep, Zenon

\* The same, when it had started nothing.
LEMMA RnExitsEarly ==
    ASSUME RnInv, NEW q \in RnProc, rnAt[q] # "idle", rnAt[q] # "exited", NEW code, code # 0,
           Exit(q, code) \/ (ExitKeeping(q, code) /\ rnMem[q] = {}), rnReq' = rnReq, rnEnv' = rnEnv, rnChild' = rnChild
    PROVE  RnInv'
  <1>1. RnSame(q) /\ RnProcInv(q)
    BY RnSameLemma DEF RnInv
  <1>2. PICK child : child = rnChild[q]
    OBVIOUS
  <1>3. child = "none" /\ rnChild' = [rnChild EXCEPT ![q] = child]
    BY <1>1, <1>2 DEF RnProcInv, RnSame
  <1>4. (code = 0 <=> child = "ok") /\ rnChild' = [rnChild EXCEPT ![q] = child]
    BY <1>3
  <1> QED BY <1>4, RnExits, Zenon

\* What a command that goes on leaves alone, and what it may hold at a step.
RnRest == rnReq' = rnReq /\ rnChild' = rnChild /\ rnExit' = rnExit
RnMayHold(q, at, mem, env) ==
    /\ at \notin {"idle", "exited"}
    /\ at \notin {"exchange", "start", "call"} => mem = {}
    /\ at = "exchange" => RnResolve(rnReq[q]) = "direct_brokered"
    /\ env # NoEnv => at = "start" /\ RnResolve(rnReq[q]) \in RnDriven /\ env = DriverEnv(RnResolve(rnReq[q]), rnReq[q], q)

\* A command goes on, holding the credential bytes and the environment given.
LEMMA RnGoesOn ==
    ASSUME RnInv, NEW q \in RnProc, rnAt[q] # "idle", rnAt[q] # "exited", NEW at, NEW mem, NEW env,
           rnAt' = [rnAt EXCEPT ![q] = at], rnMem' = [rnMem EXCEPT ![q] = mem], rnEnv' = [rnEnv EXCEPT ![q] = env],
           RnRest, RnMayHold(q, at, mem, env)
    PROVE  RnInv'
  <1>1. RnSame(q) /\ RnProcInv(q)
    BY RnSameLemma DEF RnInv
  <1>2. PICK req, child, code : req = rnReq[q] /\ child = rnChild[q] /\ code = rnExit[q]
    OBVIOUS
  <1>3. rnReq' = [rnReq EXCEPT ![q] = req] /\ rnChild' = [rnChild EXCEPT ![q] = child] /\ rnExit' = [rnExit EXCEPT ![q] = code]
    BY <1>1, <1>2 DEF RnSame, RnRest
  <1>4. req \in RnRequest /\ child = "none" /\ code = -1
    BY <1>1, <1>2 DEF RnProcInv
  <1>5. code # 0
    BY <1>4
  <1>6. RnFits(q, at, req, env, mem, child, code)
    BY <1>2, <1>4, <1>5 DEF RnFits, RnMayHold
  <1> QED BY <1>3, <1>6, RnStep, Zenon

\* It goes on and holds nothing yet.
LEMMA RnGoesEmpty ==
    ASSUME RnInv, NEW q \in RnProc, rnAt[q] \in {"daemon", "dispatch", "alive"}, NEW at \in {"dispatch", "read", "alive", "credential"},
           Goto(q, at), UNCHANGED <<rnExit, rnMem>>, rnReq' = rnReq, rnEnv' = rnEnv, rnChild' = rnChild
    PROVE  RnInv'
  <1>1. RnSame(q) /\ RnProcInv(q)
    BY RnSameLemma DEF RnInv
  <1>2. rnMem[q] = {} /\ rnEnv[q] = NoEnv
    BY <1>1 DEF RnProcInv
  <1>3. rnMem' = [rnMem EXCEPT ![q] = {}] /\ rnEnv' = [rnEnv EXCEPT ![q] = NoEnv] /\ rnAt' = [rnAt EXCEPT ![q] = at] /\ rnExit' = rnExit
    BY <1>1, <1>2 DEF RnSame, Goto
  <1>4. PICK env, mem : env = NoEnv /\ mem = {}
    OBVIOUS
  <1>5. rnMem' = [rnMem EXCEPT ![q] = mem] /\ rnEnv' = [rnEnv EXCEPT ![q] = env]
    BY <1>3, <1>4
  <1>6. rnAt[q] # "idle" /\ rnAt[q] # "exited" /\ RnRest /\ RnMayHold(q, at, mem, env)
    BY <1>3, <1>4 DEF RnRest, RnMayHold
  <1> QED BY <1>3, <1>5, <1>6, RnGoesOn, Zenon

\* Up to the driver.
LEMMA RnBefore ==
    ASSUME RnInv, NEW q \in RnProc, RunDaemon(q) \/ RunDispatch(q) \/ DriverAlive(q)
    PROVE  RnInv'
  <1>1. RnProcInv(q)
    BY DEF RnInv
  <1>2. rnAt[q] \in {"daemon", "dispatch", "alive"} /\ rnReq' = rnReq /\ rnEnv' = rnEnv /\ rnChild' = rnChild
    BY DEF RunDaemon, RunDispatch, DriverAlive
  <1>3. rnAt[q] # "idle" /\ rnAt[q] # "exited" /\ rnMem[q] = {}
    BY <1>1, <1>2 DEF RnProcInv
  <1>4. \/ \E at \in {"dispatch", "read", "alive", "credential"} : Goto(q, at) /\ UNCHANGED <<rnExit, rnMem>>
        \/ \E code : code # 0 /\ (Exit(q, code) \/ ExitKeeping(q, code))
    <2>1. CASE RunDaemon(q)
      BY <2>1 DEF RunDaemon
    <2>2. CASE RunDispatch(q)
      BY <2>2 DEF RunDispatch
    <2>3. CASE DriverAlive(q)
      BY <2>3 DEF DriverAlive
    <2> QED BY <2>1, <2>2, <2>3
  <1>5. ASSUME NEW at \in {"dispatch", "read", "alive", "credential"}, Goto(q, at), UNCHANGED <<rnExit, rnMem>> PROVE RnInv'
    BY <1>2, <1>5, RnGoesEmpty
  <1>6. ASSUME NEW code, code # 0, Exit(q, code) \/ ExitKeeping(q, code) PROVE RnInv'
    BY <1>2, <1>3, <1>6, RnExitsEarly
  <1> QED BY <1>4, <1>5, <1>6

\* The driver gets the credential and builds the environment.
LEMMA RnDriver ==
    ASSUME RnInv, NEW q \in RnProc, DriverMint(q) \/ BrokeredRead(q) \/ BrokeredExchange(q) \/ SandboxedRun(q)
    PROVE  RnInv'
  <1>1. RnSame(q) /\ RnProcInv(q)
    BY RnSameLemma DEF RnInv
  <1>2. rnAt[q] \in {"credential", "exchange"} /\ rnReq' = rnReq /\ rnChild' = rnChild
    BY DEF DriverMint, BrokeredRead, BrokeredExchange, SandboxedRun
  <1>3. rnAt[q] # "idle" /\ rnAt[q] # "exited" /\ rnEnv[q] = NoEnv
    BY <1>1, <1>2 DEF RnProcInv
  <1>4. ASSUME NEW code, code # 0, Exit(q, code), rnEnv' = rnEnv PROVE RnInv'
    BY <1>2, <1>3, <1>4, RnExitsEarly
  <1>5. ASSUME NEW at \in {"start", "exchange"}, NEW mem, NEW env, rnAt' = [rnAt EXCEPT ![q] = at], rnMem' = [rnMem EXCEPT ![q] = mem],
               rnEnv' = [rnEnv EXCEPT ![q] = env], rnExit' = rnExit, RnMayHold(q, at, mem, env)
        PROVE  RnInv'
    <2>1. RnRest
      BY <1>2, <1>5 DEF RnRest
    <2> QED BY <1>3, <1>5, <2>1, RnGoesOn, Zenon
  <1>6. CASE DriverMint(q)
    <2>1. PICK m : m = RnResolve(rnReq[q])
      OBVIOUS
    <2>2. m \in RnDriven
      BY <1>6, <2>1 DEF DriverMint, RnDriven
    <2>3. CASE Goto(q, "start") /\ UNCHANGED <<rnExit, rnMem>> /\ rnEnv' = [rnEnv EXCEPT ![q] = DriverEnv(m, rnReq[q], q)]
      <3>1. PICK mem, env : mem = rnMem[q] /\ env = DriverEnv(m, rnReq[q], q)
        OBVIOUS
      <3>2. rnMem' = [rnMem EXCEPT ![q] = mem] /\ rnEnv' = [rnEnv EXCEPT ![q] = env] /\ rnAt' = [rnAt EXCEPT ![q] = "start"] /\ rnExit' = rnExit
        BY <1>1, <2>3, <3>1 DEF RnSame, Goto
      <3>3. "start" \in {"start", "exchange"} /\ RnMayHold(q, "start", mem, env)
        BY <2>1, <2>2, <3>1 DEF RnMayHold
      <3> QED BY <1>5, <3>2, <3>3, Zenon
    <2>4. CASE Exit(q, 5) /\ UNCHANGED rnEnv
      BY <1>4, <2>4
    <2> QED BY <1>6, <2>1, <2>3, <2>4 DEF DriverMint
  <1>7. CASE BrokeredRead(q)
    <2>1. RnResolve(rnReq[q]) = "direct_brokered" /\ rnEnv' = rnEnv
      BY <1>7 DEF BrokeredRead
    <2>2. CASE Goto(q, "exchange") /\ UNCHANGED rnExit /\ rnMem' = [rnMem EXCEPT ![q] = {"root"}]
      <3>1. PICK mem, env : mem = {"root"} /\ env = NoEnv
        OBVIOUS
      <3>2. rnMem' = [rnMem EXCEPT ![q] = mem] /\ rnEnv' = [rnEnv EXCEPT ![q] = env] /\ rnAt' = [rnAt EXCEPT ![q] = "exchange"] /\ rnExit' = rnExit
        BY <1>1, <1>3, <2>1, <2>2, <3>1 DEF RnSame, Goto
      <3>3. "exchange" \in {"start", "exchange"} /\ RnMayHold(q, "exchange", mem, env)
        BY <2>1, <3>1 DEF RnMayHold
      <3> QED BY <1>5, <3>2, <3>3, Zenon
    <2>3. ASSUME NEW code \in {3, 5}, Exit(q, code) PROVE RnInv'
      BY <1>4, <2>1, <2>3
    <2> QED BY <1>7, <2>2, <2>3 DEF BrokeredRead
  <1>8. CASE BrokeredExchange(q)
    <2>1. RnResolve(rnReq[q]) = "direct_brokered"
      BY <1>1, <1>8 DEF BrokeredExchange, RnProcInv
    <2>2. CASE Goto(q, "start") /\ UNCHANGED rnExit /\ rnMem' = [rnMem EXCEPT ![q] = @ \cup {"ephemeral"}]
               /\ rnEnv' = [rnEnv EXCEPT ![q] = DriverEnv("direct_brokered", rnReq[q], q)]
      <3>1. PICK mem, env : mem = rnMem[q] \cup {"ephemeral"} /\ env = DriverEnv("direct_brokered", rnReq[q], q)
        OBVIOUS
      <3>2. rnMem' = [rnMem EXCEPT ![q] = mem] /\ rnEnv' = [rnEnv EXCEPT ![q] = env] /\ rnAt' = [rnAt EXCEPT ![q] = "start"] /\ rnExit' = rnExit
        BY <1>1, <2>2, <3>1 DEF RnSame, Goto
      <3>3. "start" \in {"start", "exchange"} /\ RnMayHold(q, "start", mem, env)
        BY <2>1, <3>1 DEF RnMayHold, RnDriven
      <3> QED BY <1>5, <3>2, <3>3, Zenon
    <2>3. CASE Exit(q, 5) /\ UNCHANGED rnEnv
      BY <1>4, <2>3
    <2> QED BY <1>8, <2>2, <2>3 DEF BrokeredExchange
  <1>9. CASE SandboxedRun(q)
    BY <1>4, <1>9 DEF SandboxedRun
  <1> QED BY <1>6, <1>7, <1>8, <1>9

\* The child runs, or the action of a call is sent.
LEMMA RnFinishes ==
    ASSUME RnInv, NEW q \in RnProc, ChildRun(q) \/ CallAction(q)
    PROVE  RnInv'
  <1>1. PICK code, child : (code = 0 <=> child = "ok") /\ Exit(q, code) /\ rnChild' = [rnChild EXCEPT ![q] = child]
    BY DEF ChildRun, CallAction, ChildOutcome, ActionOutcome
  <1>2. rnAt[q] # "idle" /\ rnAt[q] # "exited" /\ rnReq' = rnReq /\ rnEnv' = rnEnv
    BY DEF ChildRun, CallAction
  <1> QED BY <1>1, <1>2, RnExits, Zenon

\* A call reads the credential.
LEMMA RnReads ==
    ASSUME RnInv, NEW q \in RnProc, CallRead(q)
    PROVE  RnInv'
  <1>1. RnSame(q) /\ RnProcInv(q)
    BY RnSameLemma DEF RnInv
  <1>2. rnAt[q] = "read" /\ rnReq' = rnReq /\ rnEnv' = rnEnv /\ rnChild' = rnChild
    BY DEF CallRead
  <1>3. rnAt[q] # "idle" /\ rnAt[q] # "exited" /\ rnMem[q] = {} /\ rnEnv[q] = NoEnv
    BY <1>1, <1>2 DEF RnProcInv
  <1>4. ASSUME NEW code, code # 0, ExitKeeping(q, code) PROVE RnInv'
    BY <1>2, <1>3, <1>4, RnExitsEarly
  <1>5. CASE Goto(q, "call") /\ rnMem' = [rnMem EXCEPT ![q] = {"root"}] /\ UNCHANGED rnExit
    <2>1. PICK at, mem, env : at = "call" /\ mem = {"root"} /\ env = NoEnv
      OBVIOUS
    <2>2. rnMem' = [rnMem EXCEPT ![q] = mem] /\ rnEnv' = [rnEnv EXCEPT ![q] = env] /\ rnAt' = [rnAt EXCEPT ![q] = at] /\ rnExit' = rnExit
      BY <1>1, <1>2, <1>3, <1>5, <2>1 DEF RnSame, Goto
    <2>3. RnRest /\ RnMayHold(q, at, mem, env)
      BY <1>2, <2>1, <2>2 DEF RnRest, RnMayHold
    <2> QED BY <1>3, <2>2, <2>3, RnGoesOn, Zenon
  <1>6. ExitKeeping(q, 1) \/ ExitKeeping(q, 3) \/ (Goto(q, "call") /\ rnMem' = [rnMem EXCEPT ![q] = {"root"}] /\ UNCHANGED rnExit)
    BY DEF CallRead
  <1> QED BY <1>4, <1>5, <1>6

\* run and call in every mode, any number of them side by side and the services
\* coming and going under them: the child sees what the mode allows, the exit code
\* tells what happened, and no credential that was read is left in memory
\* (internal/runner, internal/runtime).
THEOREM RunCommandsHold == RnSpec => []RunHolds
  <1>1. RnInit => RnInv
    BY DEF RnInit, RnInv, RnFunctions, RnProcInv
  <1>2. RnInv /\ [RnNext]_rnVars => RnInv'
    <2> SUFFICES ASSUME RnInv, [RnNext]_rnVars PROVE RnInv'
      OBVIOUS
    <2>1. CASE UNCHANGED rnVars \/ ServiceChanges
      BY <2>1 DEF RnInv, RnFunctions, RnProcInv, rnVars, ServiceChanges
    <2>2. ASSUME NEW q \in RnProc, NEW r \in RnRequest, RunStart(q, r) \/ CallStart(q, r) PROVE RnInv'
      BY <2>2, RnStarts
    <2>3. ASSUME NEW q \in RnProc,
                 \/ RunDaemon(q) \/ RunDispatch(q) \/ DriverAlive(q) \/ DriverMint(q) \/ BrokeredRead(q) \/ BrokeredExchange(q)
                 \/ SandboxedRun(q) \/ ChildRun(q) \/ CallRead(q) \/ CallAction(q)
          PROVE  RnInv'
      BY <2>3, RnBefore, RnDriver, RnFinishes, RnReads, Zenon
    <2> QED BY <2>1, <2>2, <2>3 DEF RnNext
  <1>3. RnInv => RunHolds
    <2> SUFFICES ASSUME RnInv PROVE RunHolds
      OBVIOUS
    <2>1. RnExitHonest /\ RnWiped
      BY DEF RnInv, RnProcInv, RnExitHonest, RnWiped
    <2>2. ASSUME NEW p \in RnProc, rnEnv[p] # NoEnv
          PROVE  /\ RnResolve(rnReq[p]) # "direct_brokered" => DOMAIN rnEnv[p] \cap rnReq[p].rules \subseteq Granted(RnResolve(rnReq[p]), rnReq[p])
                 /\ RnResolve(rnReq[p]) \in {"gateway_typed", "gateway_sdk"} => rnEnv[p]["TOKEN"] = Value("token", p)
                 /\ RnClean(rnEnv[p], rnReq[p], RnResolve(rnReq[p]))
      <3>1. PICK m, r, env : m = RnResolve(rnReq[p]) /\ r = rnReq[p] /\ env = rnEnv[p]
        OBVIOUS
      <3>2. m \in RnDriven /\ r \in RnRequest /\ env = DriverEnv(m, r, p)
        BY <2>2, <3>1 DEF RnInv, RnProcInv
      <3>3. CASE m = "gateway_typed"
        BY <3>1, <3>2, <3>3, RnGatewayEnv DEF DriverEnv
      <3>4. CASE m = "gateway_sdk"
        BY <3>1, <3>2, <3>4, RnGatewayEnv DEF DriverEnv
      <3>5. CASE m = "direct_brokered"
        BY <3>1, <3>2, <3>5, RnBrokeredEnv DEF DriverEnv
      <3>6. CASE m = "gateway_proxy"
        BY <3>1, <3>2, <3>6, RnProxyEnv DEF DriverEnv
      <3> QED BY <3>2, <3>3, <3>4, <3>5, <3>6 DEF RnDriven
    <2>3. RnChildClean
      BY <2>2 DEF RnChildClean, RnClean
    <2> QED BY <2>1, <2>3 DEF RunHolds
  <1> QED BY <1>1, <1>2, <1>3, PTL DEF RnSpec

-----------------------------------------------------------------------------
\* The forward proxy

PxPhases == {"connect", "route", "fetch", "send", "leaf", "inside", "tunnel"}
PxNames == (UNION PxHeaders) \cup {"proxy-authorization"}
PxFull == [phase : PxPhases, dial : PxHost, host : PxHost, method : {"CONNECT", "GET", "POST"}, path : PxPath \cup {<<>>},
           auth : Auth, route : Nat, got : BOOLEAN, headers : SUBSET PxNames]

\* A request under way: its caller presented the token; where it will be sent was
\* checked before a certificate, a route or a credential is looked for; its route
\* is the first that fits.
PxReqOK(x) ==
    \/ x = NoRequest
    \/ /\ x \in PxFull /\ x.auth = "right"
       /\ x.phase = "connect" => x.dial = x.host
       /\ x.phase = "route" => x.dial = x.host \/ x.dial \in PxAllowed
       /\ x.phase \in {"leaf", "tunnel", "inside", "fetch", "send"} => x.dial \in PxAllowed
       /\ x.phase \in {"fetch", "send"} => x.route # 0 /\ x.route = MatchRoute(x.method, x.path)

PxSentOK(m) ==
    /\ m.cred # {} =>
        /\ m.by = "right" /\ m.route = MatchRoute(m.method, m.path) /\ m.cred = {PxRoutes[m.route].secret}
        /\ \A i \in 1 .. m.route - 1 : ~RouteFits(PxRoutes[i], m.method, m.path)
        /\ m.from \in PxAllowed
        /\ m.to = m.from \/ <<m.from, m.to>> \in PxSub \/ PxRoutes[m.route].placement \in {"header", "query"}
    /\ m.headers \cap {"authorization", "proxy-authorization", "x-keylatch"} = {}

PxInv ==
    /\ pxNow \in Nat /\ (pxUp => pxToken)
    /\ pxReq = [q \in PxReq |-> pxReq[q]] /\ \A q \in PxReq : PxReqOK(pxReq[q])
    /\ \A m \in pxSent : PxSentOK(m)
    /\ \A l \in pxServed : l.at < l.until
    /\ IsFiniteSet(DOMAIN pxCerts) /\ Cardinality(DOMAIN pxCerts) <= PxMaxCerts + 1

\* A set of naturals that is not empty has a least element.
LEMMA PxLeast ==
    ASSUME NEW T \in SUBSET Nat, T # {}
    PROVE  \E n \in T : \A m \in T : n <= m
  <1> DEFINE R == {ss \in Nat \X Nat : ss[1] < ss[2]}
  <1>1. OpToRel(<, Nat) = R
    BY Zenon DEF OpToRel
  <1>2. IsWellFoundedOn(R, Nat)
    BY <1>1, NatLessThanWellFounded, Zenon
  <1>3. PICK n \in T : \A m \in T : ~(<<m, n>> \in R)
    BY <1>2, WFMin, Zenon
  <1>4. ASSUME NEW m \in T PROVE n <= m
    <2>1. <<m, n>> \in Nat \X Nat /\ <<m, n>>[1] = m /\ <<m, n>>[2] = n
      OBVIOUS
    <2>2. ~(m < n)
      BY <1>3, <2>1, Zenon
    <2> QED BY <2>2
  <1> QED BY <1>3, <1>4

\* matchRoute gives the first route that fits.
LEMMA PxFirstRoute ==
    ASSUME NEW method, NEW path
    PROVE  /\ MatchRoute(method, path) \in Nat
           /\ \A i \in 1 .. MatchRoute(method, path) - 1 : ~RouteFits(PxRoutes[i], method, path)
  <1>1. PICK fits : fits = {i \in 1 .. Len(PxRoutes) : RouteFits(PxRoutes[i], method, path)}
    OBVIOUS
  <1>2. Len(PxRoutes) \in Nat /\ fits \subseteq Nat
    BY <1>1, PxAssumption
  <1>3. CASE fits = {}
    BY <1>1, <1>3 DEF MatchRoute
  <1>4. CASE fits # {}
    <2>1. \E i \in fits : \A j \in fits : i <= j
      BY <1>2, <1>4, PxLeast
    <2>2. PICK k : k = CHOOSE i \in fits : \A j \in fits : i <= j
      OBVIOUS
    <2>3. k \in fits /\ \A j \in fits : k <= j
      BY <2>1, <2>2, Zenon
    <2>4. MatchRoute(method, path) = k
      BY <1>1, <1>4, <2>2 DEF MatchRoute
    <2>5. k \in Nat /\ k <= Len(PxRoutes)
      BY <1>1, <1>2, <2>3
    <2>6. ASSUME NEW i \in 1 .. k - 1 PROVE ~RouteFits(PxRoutes[i], method, path)
      <3>1. i \in 1 .. Len(PxRoutes) /\ ~(k <= i)
        BY <1>2, <2>5
      <3> QED BY <1>1, <2>3, <3>1
    <2> QED BY <2>4, <2>5, <2>6
  <1> QED BY <1>3, <1>4

\* One request goes on and nothing is sent or served.
LEMMA PxStep ==
    ASSUME PxInv, NEW q \in PxReq, NEW x, pxReq' = [pxReq EXCEPT ![q] = x], PxReqOK(x),
           UNCHANGED <<pxUp, pxToken, pxSent, pxCerts, pxServed, pxNow>>
    PROVE  PxInv'
  BY DEF PxInv

\* A request that is answered.
LEMMA PxGone ==
    ASSUME PxInv, NEW q \in PxReq, Deny(q), UNCHANGED <<pxUp, pxToken, pxSent, pxCerts, pxServed, pxNow>>
    PROVE  PxInv'
  BY PxStep DEF Deny, PxReqOK

\* What is known of a request that is past a phase.
LEMMA PxKnown ==
    ASSUME PxInv, NEW q \in PxReq, pxReq[q].phase # "none"
    PROVE  \E x \in PxFull : x = pxReq[q] /\ PxReqOK(x)
  BY DEF PxInv, PxReqOK, NoRequest

\* A request arrives.
LEMMA PxArrives ==
    ASSUME PxInv, NEW q \in PxReq, NEW c \in BOOLEAN, NEW h \in PxHost, NEW m \in {"CONNECT", "GET", "POST"},
           NEW p \in PxPath \cup {<<>>}, NEW a \in Auth, NEW hs \in SUBSET PxNames, Arrive(q, c, h, m, p, a, hs)
    PROVE  PxInv'
  <1>1. UNCHANGED <<pxUp, pxToken, pxSent, pxCerts, pxServed, pxNow>>
    BY DEF Arrive
  <1>2. CASE CheckCallerAuth(a)
    <2>1. a = "right"
      BY <1>2 DEF CheckCallerAuth, Arrive, PxInv
    <2>2. PICK x : x = [phase |-> IF c THEN "connect" ELSE "route", dial |-> h, host |-> h, method |-> m, path |-> p,
                        auth |-> a, route |-> 0, got |-> FALSE, headers |-> hs \cup TokenIn(a)]
      OBVIOUS
    <2>6. hs \cup TokenIn(a) \in SUBSET PxNames
      <3>1. TokenIn(a) = {} \/ TokenIn(a) = {"proxy-authorization"}
        BY Zenon DEF TokenIn
      <3>2. "proxy-authorization" \in PxNames
        BY Zenon DEF PxNames
      <3> HIDE DEF PxNames
      <3>3. hs \in SUBSET PxNames
        OBVIOUS
      <3> QED BY <3>1, <3>2, <3>3
    <2>3. x \in PxFull /\ x.phase \in {"connect", "route"} /\ x.dial = h /\ x.host = h /\ x.auth = a
      BY <2>2, <2>6 DEF PxFull, PxPhases
    <2>4. pxReq' = [pxReq EXCEPT ![q] = x]
      BY <1>2, <2>2 DEF Arrive
    <2>5. PxReqOK(x)
      BY <2>1, <2>3 DEF PxReqOK
    <2> QED BY <1>1, <2>4, <2>5, PxStep
  <1>3. CASE ~CheckCallerAuth(a)
    BY <1>1, <1>3, PxGone DEF Arrive
  <1> QED BY <1>2, <1>3

\* The host and the route are checked.
LEMMA PxRouted ==
    ASSUME PxInv, NEW q \in PxReq, NEW d, Route(q, d) \/ PxConnect(q, d)
    PROVE  PxInv'
  <1>1. UNCHANGED <<pxUp, pxToken, pxSent, pxCerts, pxServed, pxNow>>
    BY DEF Route, PxConnect
  <1>2. pxReq[q].phase \in {"route", "connect"}
    BY DEF Route, PxConnect
  <1>3. PICK x \in PxFull : x = pxReq[q] /\ PxReqOK(x)
    BY <1>2, PxKnown
  <1>4. x # NoRequest
    BY <1>2, <1>3 DEF NoRequest
  <1>5. CASE Deny(q)
    BY <1>1, <1>5, PxGone
  <1>6. CASE Route(q, d) /\ ~Deny(q)
    <2>1. PICK r \in Nat : r = MatchRoute(x.method, x.path)
      BY PxFirstRoute
    <2>2. PICK y : y = [x EXCEPT !.phase = "fetch", !.route = r, !.headers = x.headers \ {"authorization"}]
      OBVIOUS
    <2>3. y \in PxFull /\ y.phase = "fetch" /\ y.dial = x.dial /\ y.auth = x.auth /\ y.route = r /\ y.method = x.method /\ y.path = x.path
      BY <2>2 DEF PxFull, PxPhases
    <2>4. r # 0 /\ HostAllowed(x.host) /\ pxReq' = [pxReq EXCEPT ![q] = y] /\ x.phase = "route"
      <3>1. r = MatchRoute(pxReq[q].method, pxReq[q].path)
            /\ y = [pxReq[q] EXCEPT !.phase = "fetch", !.route = r, !.headers = pxReq[q].headers \ {"authorization"}]
        BY <1>3, <2>1, <2>2, Zenon
      <3>2. r # 0 /\ HostAllowed(pxReq[q].host) /\ pxReq[q].phase = "route"
        BY <1>6, <3>1, Zenon DEF Route
      <3>3. pxReq' = [pxReq EXCEPT ![q] = y]
        BY <1>6, <3>1, Zenon DEF Route
      <3> QED BY <1>3, <3>2, <3>3, Zenon
    <2>5. PxReqOK(y)
      BY <1>3, <1>4, <2>1, <2>3, <2>4 DEF PxReqOK, HostAllowed
    <2> QED BY <1>1, <2>4, <2>5, PxStep
  <1>7. CASE PxConnect(q, d) /\ ~Deny(q)
    <2>1. PICK ph \in {"leaf", "tunnel"} : ph = IF pxCA THEN "leaf" ELSE "tunnel"
      OBVIOUS
    <2>2. PICK y : y = [x EXCEPT !.phase = ph]
      OBVIOUS
    <2>3. y \in PxFull /\ y.phase = ph /\ y.dial = x.dial /\ y.auth = x.auth
      BY <2>2 DEF PxFull, PxPhases
    <2>4. HostAllowed(x.host) /\ pxReq' = [pxReq EXCEPT ![q] = y] /\ x.phase = "connect"
      BY <1>3, <1>7, <2>1, <2>2 DEF PxConnect
    <2>5. PxReqOK(y)
      BY <1>3, <1>4, <2>3, <2>4 DEF PxReqOK, HostAllowed
    <2> QED BY <1>1, <2>4, <2>5, PxStep
  <1> QED BY <1>5, <1>6, <1>7

\* The credential is fetched; the inner request of a tunnel is read.
LEMMA PxFetched ==
    ASSUME PxInv, NEW q \in PxReq,
           \/ \E got \in Fetched : Fetch(q, got)
           \/ \E h \in PxHost, m \in {"GET", "POST"}, p \in PxPath, hs \in PxHeaders : Inner(q, h, m, p, hs)
           \/ Close(q)
    PROVE  PxInv'
  <1>1. UNCHANGED <<pxUp, pxToken, pxSent, pxCerts, pxServed, pxNow>>
    BY ZenonT(60) DEF Fetch, Inner, Close
  <1>2. pxReq[q].phase \in {"fetch", "inside", "tunnel"}
    BY DEF Fetch, Inner, Close
  <1>3. PICK x \in PxFull : x = pxReq[q] /\ PxReqOK(x)
    BY <1>2, PxKnown
  <1>4. x # NoRequest
    BY <1>2, <1>3 DEF NoRequest
  <1>5. CASE Deny(q)
    BY <1>1, <1>5, PxGone
  <1>6. ASSUME NEW got \in Fetched, Fetch(q, got), ~Deny(q) PROVE PxInv'
    <2>5. PICK has \in BOOLEAN : has = (PxRoutes[x.route].secret # "none" /\ got = "value")
      OBVIOUS
    <2>1. PICK y : y = [x EXCEPT !.phase = "send", !.got = has]
      OBVIOUS
    <2>2. y \in PxFull /\ y.phase = "send" /\ y.dial = x.dial /\ y.auth = x.auth /\ y.route = x.route /\ y.method = x.method /\ y.path = x.path
      BY <2>1 DEF PxFull, PxPhases
    <2>3. pxReq' = [pxReq EXCEPT ![q] = y] /\ x.phase = "fetch"
      BY <1>3, <1>6, <2>1, <2>5 DEF Fetch, Deny
    <2>4. PxReqOK(y)
      BY <1>3, <1>4, <2>2, <2>3 DEF PxReqOK
    <2> QED BY <1>1, <2>3, <2>4, PxStep
  <1>7. ASSUME NEW h \in PxHost, NEW m \in {"GET", "POST"}, NEW p \in PxPath, NEW hs \in PxHeaders, Inner(q, h, m, p, hs)
        PROVE  PxInv'
    <2>1. PICK y : y = [x EXCEPT !.phase = "route", !.host = h, !.method = m, !.path = p, !.headers = hs]
      OBVIOUS
    <2>5. hs \in SUBSET PxNames
      BY DEF PxNames
    <2>2. y \in PxFull /\ y.phase = "route" /\ y.dial = x.dial /\ y.auth = x.auth
      BY <2>1, <2>5 DEF PxFull, PxPhases
    <2>3. pxReq' = [pxReq EXCEPT ![q] = y] /\ x.phase = "inside"
      BY <1>3, <1>7, <2>1 DEF Inner
    <2>4. PxReqOK(y)
      BY <1>3, <1>4, <2>2, <2>3 DEF PxReqOK
    <2> QED BY <1>1, <2>3, <2>4, PxStep
  <1>8. CASE Close(q)
    BY <1>5, <1>8 DEF Close, Deny
  <1> QED BY <1>5, <1>6, <1>7, <1>8, SMTT(30)

\* The request is sent, and sent on where the answer redirects.
LEMMA PxSends ==
    ASSUME PxInv, NEW q \in PxReq, NEW to \in PxHost, NEW refers \in BOOLEAN, PxSend(q, to, refers)
    PROVE  PxInv'
  <1>1. pxReq[q].phase = "send"
    BY DEF PxSend
  <1>2. PICK x \in PxFull : x = pxReq[q] /\ PxReqOK(x)
    BY <1>1, PxKnown
  <1>3. x.auth = "right" /\ x.dial \in PxAllowed /\ x.route = MatchRoute(x.method, x.path)
    BY <1>1, <1>2 DEF PxReqOK, NoRequest
  <1>4. ASSUME NEW host, NEW cred, cred # {} => cred = {PxRoutes[x.route].secret},
               cred # {} => host = x.dial \/ <<x.dial, host>> \in PxSub
                            \/ PxRoutes[x.route].placement \in {"header", "query"}
        PROVE  PxSentOK(Outgoing(q, host, cred))
    <2>7. PICK hs : hs = x.headers \ {"authorization", "proxy-authorization", "x-keylatch"}
      OBVIOUS
    <2>1. PICK m : m = [to |-> host, from |-> x.dial, headers |-> hs, cred |-> cred, by |-> x.auth, route |-> x.route, method |-> x.method,
                        path |-> x.path]
      OBVIOUS
    <2>2. m.to = host /\ m.from = x.dial /\ m.headers = hs /\ m.cred = cred /\ m.by = x.auth /\ m.route = x.route /\ m.method = x.method
          /\ m.path = x.path
      BY <2>1
    <2>3. Outgoing(q, host, cred) = m
      BY <1>2, <2>1, <2>7 DEF Outgoing, Forwarded
    <2>4. \A i \in 1 .. x.route - 1 : ~RouteFits(PxRoutes[i], x.method, x.path)
      BY <1>3, PxFirstRoute
    <2>5. m.headers \cap {"authorization", "proxy-authorization", "x-keylatch"} = {}
      BY <2>2, <2>7
    <2>6. PxSentOK(m)
      BY <1>3, <1>4, <2>2, <2>4, <2>5 DEF PxSentOK
    <2> QED BY <2>3, <2>6
  <1>5. Credential(q) # {} => Credential(q) = {PxRoutes[x.route].secret}
    BY <1>2 DEF Credential
  <1>6. PxSentOK(Outgoing(q, x.dial, Credential(q)))
    BY <1>3, <1>4, <1>5
  <1>7. PxSentOK(Outgoing(q, to, IF RedirectKeeps(q, to, refers) THEN Credential(q) ELSE {}))
    <2>1. PICK cred : cred = IF RedirectKeeps(q, to, refers) THEN Credential(q) ELSE {}
      OBVIOUS
    <2>2. cred # {} => cred = {PxRoutes[x.route].secret}
      BY <1>5, <2>1
    <2>3. cred # {} => to = x.dial \/ <<x.dial, to>> \in PxSub \/ PxRoutes[x.route].placement \in {"header", "query"}
      BY <1>2, <1>3, <2>1 DEF RedirectKeeps
    <2> QED BY <1>4, <2>1, <2>2, <2>3
  <1>8. \A m \in pxSent' : PxSentOK(m)
    BY <1>2, <1>6, <1>7 DEF PxSend, PxInv
  <1>9. PxReqOK(NoRequest) /\ pxReq' = [pxReq EXCEPT ![q] = NoRequest] /\ UNCHANGED <<pxUp, pxToken, pxCerts, pxServed, pxNow>>
    BY DEF PxReqOK, PxSend
  <1> QED BY <1>8, <1>9 DEF PxInv

\* A leaf certificate for the tunnel, from the cache or new.
LEMMA PxCertified ==
    ASSUME PxInv, NEW q \in PxReq, CertForHost(q)
    PROVE  PxInv'
  <1>1. PICK x \in PxFull : x = pxReq[q] /\ PxReqOK(x)
    BY PxKnown DEF CertForHost
  <1>2. x.phase = "leaf" /\ x # NoRequest
    BY <1>1 DEF CertForHost, NoRequest
  <1>3. PICK y : y = [x EXCEPT !.phase = "inside"]
    OBVIOUS
  <1>4. y \in PxFull /\ y.phase = "inside" /\ y.dial = x.dial /\ y.auth = x.auth
    BY <1>3 DEF PxFull, PxPhases
  <1>5. PxReqOK(y)
    BY <1>1, <1>2, <1>4 DEF PxReqOK
  <1>6. pxReq' = [pxReq EXCEPT ![q] = y]
    BY <1>1, <1>3 DEF CertForHost
  <1>7. PICK h : h = pxReq[q].host
    OBVIOUS
  <1>8. PICK until : until = IF LeafUsable(h) THEN pxCerts[h] ELSE pxNow + PxLeafLife
    OBVIOUS
  <1>9. pxNow < until
    BY <1>8, PxAssumption DEF LeafUsable, PxInv
  <1>10. \A l \in pxServed' : l.at < l.until
    <2>1. pxServed' = pxServed \cup {[host |-> h, until |-> until, at |-> pxNow]}
      BY <1>7, <1>8 DEF CertForHost
    <2> QED BY <1>9, <2>1 DEF PxInv
  <1>11. PICK kept : kept = IF LeafUsable(h) THEN DOMAIN pxCerts ELSE KeptCerts \cup {h}
    OBVIOUS
  <1>12. DOMAIN pxCerts' = kept
    BY <1>7, <1>8, <1>11 DEF CertForHost
  <1>13. IsFiniteSet(kept) /\ Cardinality(kept) <= PxMaxCerts + 1
    <2>1. IsFiniteSet(DOMAIN pxCerts) /\ Cardinality(DOMAIN pxCerts) <= PxMaxCerts + 1 /\ PxMaxCerts \in Nat
      BY PxAssumption DEF PxInv
    <2>2. IsFiniteSet(KeptCerts) /\ Cardinality(KeptCerts) <= PxMaxCerts /\ Cardinality(KeptCerts) \in Nat
      <3>1. Cardinality(DOMAIN pxCerts) \in Nat
        BY <2>1, FS_CardinalityType
      <3>2. IsFiniteSet({}) /\ Cardinality({}) = 0
        BY FS_EmptySet
      <3> QED BY <2>1, <3>1, <3>2 DEF KeptCerts
    <2>3. IsFiniteSet(KeptCerts \cup {h}) /\ Cardinality(KeptCerts \cup {h}) <= PxMaxCerts + 1
      <3>1. IsFiniteSet(KeptCerts \cup {h})
            /\ (Cardinality(KeptCerts \cup {h}) = Cardinality(KeptCerts) \/ Cardinality(KeptCerts \cup {h}) = Cardinality(KeptCerts) + 1)
        BY <2>2, FS_AddElement
      <3> QED BY <2>1, <2>2, <3>1
    <2> QED BY <1>11, <2>1, <2>3
  <1>14. UNCHANGED <<pxUp, pxToken, pxSent, pxNow>>
    BY DEF CertForHost
  <1> QED BY <1>5, <1>6, <1>10, <1>12, <1>13, <1>14 DEF PxInv

\* The forward proxy, inside tunnels, over redirections and with its cache of
\* leaves: a credential goes only for a caller with the token to the host its
\* route sends it to, which the profile allows, and where a redirection takes it
\* from there (an Authorization header no further than subdomains); nothing of the
\* caller's goes along, and no expired leaf is shown (internal/proxy), for any
\* number of requests, hosts, headers and routes.
THEOREM ForwardProxyHolds == PxSpec => []ProxyHolds
  <1>1. PxInit => PxInv
    <2> SUFFICES ASSUME PxInit PROVE PxInv
      OBVIOUS
    <2>1. DOMAIN pxCerts = {}
      BY DEF PxInit
    <2>2. IsFiniteSet({}) /\ Cardinality({}) = 0
      BY FS_EmptySet
    <2>3. 0 <= PxMaxCerts + 1
      BY PxAssumption
    <2> QED BY <2>1, <2>2, <2>3 DEF PxInit, PxInv, PxReqOK
  <1>2. PxInv /\ [PxNext]_pxVars => PxInv'
    <2> SUFFICES ASSUME PxInv, [PxNext]_pxVars PROVE PxInv'
      OBVIOUS
    <2>1. CASE UNCHANGED pxVars
      BY <2>1 DEF PxInv, pxVars
    <2>2. CASE LoadOrCreateCA \/ PxTick \/ \E l \in BOOLEAN : StartProxy(l)
      BY <2>2 DEF PxInv, LoadOrCreateCA, PxTick, StartProxy
    <2>3. ASSUME NEW q \in PxReq, NEW h \in PxHost, NEW a \in Auth,
                 \/ Arrive(q, TRUE, h, "CONNECT", <<>>, a, {})
                 \/ \E m \in {"GET", "POST"}, p \in PxPath, hs \in PxHeaders : Arrive(q, FALSE, h, m, p, a, hs)
          PROVE  PxInv'
      <3>1. {} \in SUBSET PxNames /\ \A hs \in PxHeaders : hs \in SUBSET PxNames
        BY DEF PxNames
      <3> QED BY <2>3, <3>1, PxArrives
    <2>4. ASSUME NEW q \in PxReq, NEW d \in {"public", "private"}, Route(q, d) \/ PxConnect(q, d) PROVE PxInv'
      BY <2>4, PxRouted
    <2>5. ASSUME NEW q \in PxReq,
                 \/ \E got \in Fetched : Fetch(q, got)
                 \/ \E h \in PxHost, m \in {"GET", "POST"}, p \in PxPath, hs \in PxHeaders : Inner(q, h, m, p, hs)
                 \/ Close(q)
          PROVE  PxInv'
      BY <2>5, PxFetched
    <2>6. ASSUME NEW q \in PxReq, (\E h \in PxHost, refers \in BOOLEAN : PxSend(q, h, refers)) \/ CertForHost(q) PROVE PxInv'
      BY <2>6, PxSends, PxCertified
    <2> QED BY <2>1, <2>2, <2>3, <2>4, <2>5, <2>6 DEF PxNext
  <1>3. PxInv => ProxyHolds
    BY DEF PxInv, PxSentOK, ProxyHolds, CredentialConfined, CallerSecretsKept, LeafValid
  <1> QED BY <1>1, <1>2, <1>3, PTL DEF PxSpec

-----------------------------------------------------------------------------
\* The team's files

TmTeams == [roster : [TmMember -> TmEntry], pub : Nat]
TmContents == [is : {"none", "empty", "torn", "whole"}, team : TmTeams]
TmWritten == {"write", "filltmp", "rename", "remove"}
TmWrites == [at : TmWritten, team : TmTeams, invite : BOOLEAN]
TmSigns == [at : {"key", "create", "fill", "sign"}, team : TmTeams, hadKey : BOOLEAN]

TmTypeOK ==
    /\ tmFile \in TmContents /\ tmTmp \in TmContents /\ tmKeyFile \in Nat /\ tmKeys \in Nat /\ tmScim \subseteq TmTeams
    /\ tmCall \in [TmCaller -> {TmIdle} \cup TmWrites \cup TmSigns]
    /\ tmOpen \in [TmCaller -> {"none", "tmp", "file", "gone"}]

TmSingle(t) == \E o \in TmMember : Owners(t) = {o}

\* A team names no invite key or the one that is in the key file.
TmNamed(t) == t.pub # 0 => tmKeyFile > 1 /\ t.pub = tmKeyFile
TmGood(t) == TmSingle(t) /\ TmNamed(t)
TmFine(f) == TmNamed(f.team) /\ (f.is = "whole" => TmSingle(f.team))

\* What the copy in a call is: the one key is there before an invite is signed.
TmCallInv(c) ==
    /\ c.at # "idle" => TmSingle(c.team)
    /\ c.at \in TmWritten \cup {"key"} => TmNamed(c.team)
    /\ c.at \in TmWritten => (c.invite => tmKeyFile > 1 /\ c.team.pub = tmKeyFile)
    /\ c.at \in {"create", "fill"} => c.team.pub > 1
    /\ c.at = "fill" => tmKeyFile = 1
    /\ c.at = "sign" => tmKeyFile > 1 /\ c.team.pub = tmKeyFile

TmInv ==
    /\ TmTypeOK /\ TmFine(tmFile) /\ TmFine(tmTmp) /\ \A t \in tmScim : TmGood(t)
    /\ \A c \in TmCaller : TmCallInv(tmCall[c])
    /\ \A c, d \in TmCaller : tmCall[c].at = "fill" /\ tmCall[d].at = "fill" => c = d
    /\ \A j \in tmInvites : tmKeyFile > 1 /\ j = tmKeyFile

\* While no two writes have overlapped, the one that is under way has the temporary
\* file to itself, and renames it only when it holds a whole team.
TmAlone ==
    ~tmOverlap =>
       /\ tmFile.is = "whole"
       /\ \A c, d \in TmCaller : InWrite(c) /\ InWrite(d) => c = d
       /\ \A c \in TmCaller : /\ tmCall[c].at = "filltmp" => tmOpen[c] = "tmp" /\ tmTmp.is = "empty"
                              /\ tmCall[c].at = "rename" => tmTmp.is = "whole"
                              /\ tmOpen[c] # "none" => tmCall[c].at = "filltmp"

\* A member whose entry stays that of the owner, or of none, changes no owner.
LEMMA TmOwners ==
    ASSUME NEW t \in TmTeams, NEW m \in TmMember, t.roster[m].role # "owner" \/ t.roster[m].status = "absent",
           NEW e \in TmEntry, e.role # "owner", NEW u, u = [t EXCEPT !.roster[m] = e]
    PROVE  u \in TmTeams /\ u.pub = t.pub /\ Owners(u) = Owners(t)
  <1>1. u \in TmTeams /\ u.pub = t.pub /\ u.roster = [t.roster EXCEPT ![m] = e]
    BY DEF TmTeams
  <1>2. \A x \in TmMember : u.roster[x] = IF x = m THEN e ELSE t.roster[x]
    BY <1>1 DEF TmTeams
  <1>3. \A x \in TmMember : x \in Owners(u) <=> x \in Owners(t)
    BY <1>2 DEF Owners, Listed
  <1> QED BY <1>1, <1>3 DEF Owners, Listed

\* Every operation on a copy keeps its one owner and its key.
LEMMA TmChanges ==
    ASSUME NEW t \in TmTeams, NEW a \in TmMember, NEW m \in TmMember, NEW r \in TmRole, TmSingle(t)
    PROVE  \A u \in ChangeRole(t, a, m, r) \cup Transfer(t, a, m) \cup RemoveMember(t, m) :
               u \in TmTeams /\ u.pub = t.pub /\ TmSingle(u)
  <1>0. t.roster \in [TmMember -> TmEntry] /\ t.roster[m] \in TmEntry /\ t.roster[a] \in TmEntry
    BY DEF TmTeams
  <1>1. ASSUME NEW u \in ChangeRole(t, a, m, r) PROVE u \in TmTeams /\ u.pub = t.pub /\ TmSingle(u)
    <2>1. m \in Listed(t) /\ AuthorizeRoleChange(t, a, m, r) /\ u = [t EXCEPT !.roster[m].role = r]
      BY <1>1 DEF ChangeRole
    <2>2. t.roster[m].role # "owner" /\ r # "owner"
      BY <2>1 DEF AuthorizeRoleChange, Outranks
    <2>3. PICK e \in TmEntry : e = [t.roster[m] EXCEPT !.role = r]
      BY <1>0 DEF TmEntry
    <2>4. e.role = r /\ u = [t EXCEPT !.roster[m] = e]
      BY <1>0, <2>1, <2>3 DEF TmEntry
    <2> QED BY <2>2, <2>4, TmOwners DEF TmSingle
  <1>2. ASSUME NEW u \in RemoveMember(t, m) PROVE u \in TmTeams /\ u.pub = t.pub /\ TmSingle(u)
    <2>1. m \in Listed(t) /\ u = [t EXCEPT !.roster[m].status = "removed"]
      BY <1>2 DEF RemoveMember
    <2>2. PICK e \in TmEntry : e = [t.roster[m] EXCEPT !.status = "removed"]
      BY <1>0 DEF TmEntry
    <2>3. e.role = t.roster[m].role /\ e.status = "removed" /\ u = [t EXCEPT !.roster[m] = e]
      BY <1>0, <2>1, <2>2 DEF TmEntry
    <2>4. u \in TmTeams /\ u.pub = t.pub /\ u.roster = [t.roster EXCEPT ![m] = e]
      BY <1>0, <2>3 DEF TmTeams
    <2>5. \A x \in TmMember : u.roster[x] = IF x = m THEN e ELSE t.roster[x]
      BY <1>0, <2>4
    <2>6. Owners(u) = Owners(t)
      BY <2>1, <2>3, <2>5 DEF Owners, Listed
    <2> QED BY <2>4, <2>6 DEF TmSingle
  <1>3. ASSUME NEW u \in Transfer(t, a, m) PROVE u \in TmTeams /\ u.pub = t.pub /\ TmSingle(u)
    <2>1. /\ t.roster[a] = [role |-> "owner", status |-> "active"] /\ m # a /\ t.roster[m].status = "active"
          /\ u = [t EXCEPT !.roster[a].role = "admin", !.roster[m].role = "owner"]
      BY <1>3 DEF Transfer, AuthorizeTransfer
    <2>2. PICK e \in TmEntry : e = [t.roster[a] EXCEPT !.role = "admin"]
      BY <1>0 DEF TmEntry, TmRole
    <2>3. PICK f \in TmEntry : f = [t.roster[m] EXCEPT !.role = "owner"]
      BY <1>0 DEF TmEntry, TmRole
    <2>4. e.role = "admin" /\ f.role = "owner" /\ f.status = "active" /\ u = [t EXCEPT !.roster = [[t.roster EXCEPT ![a] = e] EXCEPT ![m] = f]]
      BY <1>0, <2>1, <2>2, <2>3 DEF TmTeams, TmEntry
    <2>5. u \in TmTeams /\ u.pub = t.pub /\ u.roster = [[t.roster EXCEPT ![a] = e] EXCEPT ![m] = f]
      BY <1>0, <2>4 DEF TmTeams
    <2>6. \A x \in TmMember : u.roster[x] = IF x = m THEN f ELSE IF x = a THEN e ELSE t.roster[x]
      BY <1>0, <2>5
    <2>7. a \in Owners(t)
      BY <2>1 DEF Owners, Listed
    <2>8. \A x \in TmMember : x \in Owners(t) <=> x = a
      BY <2>7 DEF TmSingle
    <2>9. \A x \in TmMember : x \in Owners(u) <=> x = m
      BY <2>1, <2>4, <2>6, <2>8 DEF Owners, Listed
    <2>10. Owners(u) = {m}
      BY <2>9 DEF Owners, Listed
    <2> QED BY <2>5, <2>10 DEF TmSingle
  <1> QED BY <1>1, <1>2, <1>3

\* A caller moves to c, and the others stay.
LEMMA TmMoves ==
    ASSUME TmInv, NEW p \in TmCaller, NEW c \in {TmIdle} \cup TmWrites \cup TmSigns, CallAt(p, c), TmCallInv(c)',
           c.at = "fill" => \A d \in TmCaller : d # p => tmCall[d].at # "fill",
           \/ tmKeyFile' = tmKeyFile
           \/ \A d \in TmCaller : d # p =>
                 /\ tmCall[d].at \notin {"fill", "sign"}
                 /\ tmCall[d].at \in TmWritten \cup {"key"} => tmCall[d].team.pub = 0
                 /\ tmCall[d].at \in TmWritten => ~tmCall[d].invite
    PROVE  /\ tmCall' \in [TmCaller -> {TmIdle} \cup TmWrites \cup TmSigns]
           /\ \A d \in TmCaller : TmCallInv(tmCall[d])'
           /\ \A d, e \in TmCaller : tmCall'[d].at = "fill" /\ tmCall'[e].at = "fill" => d = e
  <1>1. tmCall \in [TmCaller -> {TmIdle} \cup TmWrites \cup TmSigns] /\ tmCall' = [tmCall EXCEPT ![p] = c]
    BY DEF TmInv, TmTypeOK, CallAt
  <1>2. tmCall'[p] = c /\ \A d \in TmCaller : d # p => tmCall'[d] = tmCall[d]
    BY <1>1
  <1>3. TmCallInv(tmCall[p])'
    BY <1>2 DEF TmCallInv, TmNamed, TmSingle, Owners, Listed
  <1>4. ASSUME NEW d \in TmCaller, d # p PROVE TmCallInv(tmCall[d])'
    <2>1. TmCallInv(tmCall[d]) /\ tmCall'[d] = tmCall[d]
      BY <1>2, <1>4 DEF TmInv
    <2>2. CASE tmKeyFile' = tmKeyFile
      BY <2>1, <2>2 DEF TmCallInv, TmNamed
    <2>3. CASE /\ tmCall[d].at \notin {"fill", "sign"}
               /\ tmCall[d].at \in TmWritten \cup {"key"} => tmCall[d].team.pub = 0
               /\ tmCall[d].at \in TmWritten => ~tmCall[d].invite
      <3>1. PICK r : r = tmCall[d] /\ r = tmCall'[d]
        BY <2>1
      <3>2. TmCallInv(r)
        BY <2>1, <3>1
      <3>3. /\ r.at \notin {"fill", "sign"} /\ (r.at \in TmWritten \cup {"key"} => r.team.pub = 0)
            /\ r.at \in TmWritten => ~r.invite
        BY <2>3, <3>1
      <3>4. TmCallInv(r)'
        BY <3>2, <3>3 DEF TmCallInv, TmNamed, TmSingle, Owners, Listed
      <3> QED BY <3>1, <3>4 DEF TmCallInv, TmNamed, TmSingle, Owners, Listed
    <2> QED BY <1>4, <2>2, <2>3
  <1>5. \A d, e \in TmCaller : tmCall'[d].at = "fill" /\ tmCall'[e].at = "fill" => d = e
    BY <1>2 DEF TmInv
  <1> QED BY <1>1, <1>3, <1>4, <1>5

\* A caller that stops.
LEMMA TmStops ==
    ASSUME TmInv, NEW p \in TmCaller, CallAt(p, TmIdle), tmKeyFile' = tmKeyFile
    PROVE  /\ tmCall' \in [TmCaller -> {TmIdle} \cup TmWrites \cup TmSigns]
           /\ \A d \in TmCaller : TmCallInv(tmCall[d])'
           /\ \A d, e \in TmCaller : tmCall'[d].at = "fill" /\ tmCall'[e].at = "fill" => d = e
  <1>1. PICK c \in {TmIdle} \cup TmWrites \cup TmSigns : c = TmIdle
    OBVIOUS
  <1>2. c.at = "idle"
    BY <1>1 DEF TmIdle
  <1>3. TmCallInv(c)'
    BY <1>2 DEF TmCallInv, TmWritten
  <1> QED BY <1>1, <1>2, <1>3, TmMoves

\* Files that are whole, and files that are not.
LEMMA TmFiles ==
    /\ \A t \in TmTeams : TmGood(t) => Whole(t) \in TmContents /\ TmFine(Whole(t))
    /\ \A how \in {"none", "empty", "torn"} : Broken(how) \in TmContents /\ TmFine(Broken(how))
  <1>1. ASSUME NEW t \in TmTeams, TmGood(t) PROVE Whole(t) \in TmContents /\ TmFine(Whole(t))
    <2>1. PICK f \in TmContents : f = [is |-> "whole", team |-> t]
      BY DEF TmContents
    <2>2. f.team = t
      BY <2>1
    <2> QED BY <1>1, <2>1, <2>2 DEF Whole, TmFine, TmGood
  <1>2. NoTeam \in TmTeams /\ NoTeam.pub = 0
    BY DEF NoTeam, TmTeams, TmEntry, Absent
  <1>3. ASSUME NEW how \in {"none", "empty", "torn"} PROVE Broken(how) \in TmContents /\ TmFine(Broken(how))
    <2>1. PICK f \in TmContents : f = [is |-> how, team |-> NoTeam]
      BY <1>2 DEF TmContents
    <2>2. f.team = NoTeam /\ f.is = how /\ how # "whole"
      BY <2>1
    <2> QED BY <1>2, <2>1, <2>2 DEF Broken, TmFine, TmNamed
  <1> QED BY <1>1, <1>3

\* A step that leaves the key file alone.
LEMMA TmKept ==
    ASSUME TmInv, tmKeyFile' = tmKeyFile, tmKeys' \in Nat, tmScim' = tmScim,
           NEW f \in TmContents, TmFine(f), tmFile' = f, NEW g \in TmContents, TmFine(g), tmTmp' = g,
           tmOpen' \in [TmCaller -> {"none", "tmp", "file", "gone"}],
           \A j \in tmInvites' : j \in tmInvites \/ (tmKeyFile > 1 /\ j = tmKeyFile),
           tmCall' \in [TmCaller -> {TmIdle} \cup TmWrites \cup TmSigns],
           \A d \in TmCaller : TmCallInv(tmCall[d])',
           \A d, e \in TmCaller : tmCall'[d].at = "fill" /\ tmCall'[e].at = "fill" => d = e
    PROVE  TmInv'
  <1>1. TmFine(tmFile)' /\ TmFine(tmTmp)'
    BY DEF TmFine, TmNamed, TmSingle
  <1>2. \A t \in tmScim' : TmGood(t)'
    BY DEF TmInv, TmGood, TmNamed, TmSingle
  <1>3. \A j \in tmInvites' : tmKeyFile' > 1 /\ j = tmKeyFile'
    BY DEF TmInv
  <1>4. TmTypeOK'
    BY DEF TmInv, TmTypeOK
  <1> QED BY <1>1, <1>2, <1>3, <1>4 DEF TmInv

LEMMA TmBeginInv == ASSUME TmInv, NEW p \in TmCaller, TmBegin(p) PROVE TmInv'
  <1>1. /\ tmFile' = tmFile /\ tmTmp' = tmTmp /\ tmOpen' = tmOpen /\ tmKeyFile' = tmKeyFile /\ tmKeys' = tmKeys
        /\ tmScim' = tmScim /\ tmInvites' = tmInvites
    BY DEF TmBegin, tmWriting
  <1>2. PICK t \in TmTeams : t = tmFile.team /\ TmSingle(t) /\ TmNamed(t)
    BY DEF TmInv, TmTypeOK, TmFine, TmContents, TmBegin
  <1>3. PICK c \in TmWrites \cup TmSigns : /\ CallAt(p, c) /\ c.at \in {"write", "key"} /\ (c.at = "write" => ~c.invite)
                                           /\ TmSingle(c.team) /\ TmNamed(c.team)
    <2>1. PICK a \in TmMember, m \in TmMember, r \in TmRole :
             \/ \E u \in ChangeRole(t, a, m, r) \cup Transfer(t, a, m) : CallAt(p, Write(u, FALSE))
             \/ \E u \in RemoveMember(t, m) : CallAt(p, Write(u, FALSE))
             \/ CallAt(p, [at |-> "key", team |-> t, hadKey |-> t.pub # 0])
      BY <1>2 DEF TmBegin
    <2>2. ASSUME NEW u \in TmTeams, u.pub = t.pub, TmSingle(u), CallAt(p, Write(u, FALSE))
          PROVE  \E c \in TmWrites \cup TmSigns : /\ CallAt(p, c) /\ c.at \in {"write", "key"} /\ (c.at = "write" => ~c.invite)
                                                  /\ TmSingle(c.team) /\ TmNamed(c.team)
      <3>1. PICK c \in TmWrites : c = [at |-> "write", team |-> u, invite |-> FALSE]
        BY DEF TmWrites, TmWritten
      <3>2. c.at = "write" /\ c.team = u /\ c.invite = FALSE
        BY <3>1
      <3>3. TmNamed(u)
        BY <1>2, <2>2 DEF TmNamed
      <3> QED BY <2>2, <3>1, <3>2, <3>3 DEF Write
    <2>3. CASE CallAt(p, [at |-> "key", team |-> t, hadKey |-> t.pub # 0])
      <3>0. PICK b \in BOOLEAN : b = (t.pub # 0)
        OBVIOUS
      <3>1. PICK c \in TmSigns : c = [at |-> "key", team |-> t, hadKey |-> t.pub # 0]
        BY <1>2, <3>0 DEF TmSigns
      <3>2. c.at = "key" /\ c.team = t
        BY <3>1
      <3> QED BY <1>2, <2>3, <3>1, <3>2
    <2> QED BY <1>2, <2>1, <2>2, <2>3, TmChanges
  <1>4. TmCallInv(c)'
    BY <1>1, <1>3 DEF TmCallInv, TmNamed, TmWritten
  <1>5. c.at # "fill"
    BY <1>3
  <1>6. /\ tmCall' \in [TmCaller -> {TmIdle} \cup TmWrites \cup TmSigns]
        /\ \A d \in TmCaller : TmCallInv(tmCall[d])'
        /\ \A d, e \in TmCaller : tmCall'[d].at = "fill" /\ tmCall'[e].at = "fill" => d = e
    BY <1>1, <1>3, <1>4, <1>5, TmMoves
  <1>7. tmFile \in TmContents /\ TmFine(tmFile) /\ tmTmp \in TmContents /\ TmFine(tmTmp) /\ tmKeys \in Nat
        /\ tmOpen \in [TmCaller -> {"none", "tmp", "file", "gone"}]
    BY DEF TmInv, TmTypeOK
  <1> QED BY <1>1, <1>6, <1>7, TmKept

\* A caller in the middle of a write.
LEMMA TmInWrite ==
    ASSUME TmInv, NEW p \in TmCaller, tmCall[p].at \in TmWritten
    PROVE  /\ tmCall[p] \in TmWrites /\ tmCall[p].team \in TmTeams /\ TmGood(tmCall[p].team)
           /\ tmCall[p].invite => tmKeyFile > 1 /\ tmCall[p].team.pub = tmKeyFile
  <1>1. tmCall[p] \in TmWrites /\ TmCallInv(tmCall[p])
    BY DEF TmInv, TmTypeOK, TmIdle, TmSigns, TmWritten
  <1>2. tmCall[p].at # "idle"
    BY DEF TmWritten
  <1> QED BY <1>1, <1>2 DEF TmWrites, TmCallInv, TmGood

\* Its next step in the write.
LEMMA TmWriteOn ==
    ASSUME TmInv, NEW p \in TmCaller, tmCall[p].at \in TmWritten, NEW at \in TmWritten,
           CallAt(p, [tmCall[p] EXCEPT !.at = at]), tmKeyFile' = tmKeyFile
    PROVE  /\ tmCall' \in [TmCaller -> {TmIdle} \cup TmWrites \cup TmSigns]
           /\ \A d \in TmCaller : TmCallInv(tmCall[d])'
           /\ \A d, e \in TmCaller : tmCall'[d].at = "fill" /\ tmCall'[e].at = "fill" => d = e
  <1>1. PICK s \in TmWrites : /\ s = tmCall[p] /\ TmGood(s.team)
                              /\ s.invite => tmKeyFile > 1 /\ s.team.pub = tmKeyFile
    BY TmInWrite
  <1>2. PICK c \in TmWrites : c = [s EXCEPT !.at = at]
    BY DEF TmWrites
  <1>3. c.at = at /\ c.team = s.team /\ c.invite = s.invite
    BY <1>2 DEF TmWrites
  <1>4. c.at \notin {"key", "create", "fill", "sign", "idle"}
    BY <1>3 DEF TmWritten
  <1>5. TmCallInv(c)'
    BY <1>1, <1>3, <1>4 DEF TmCallInv, TmGood, TmNamed
  <1>6. CallAt(p, c)
    BY <1>1, <1>2
  <1> QED BY <1>4, <1>5, <1>6, TmMoves

LEMMA TmOpenInv == ASSUME TmInv, NEW p \in TmCaller, OpenTmp(p) PROVE TmInv'
  <1>1. /\ tmFile' = tmFile /\ tmTmp' = Broken("empty") /\ tmOpen' = [tmOpen EXCEPT ![p] = "tmp"] /\ tmKeyFile' = tmKeyFile
        /\ tmKeys' = tmKeys /\ tmScim' = tmScim /\ tmInvites' = tmInvites /\ tmCall[p].at \in TmWritten
        /\ CallAt(p, [tmCall[p] EXCEPT !.at = "filltmp"])
    BY DEF OpenTmp, TmWritten
  <1>2. /\ tmCall' \in [TmCaller -> {TmIdle} \cup TmWrites \cup TmSigns]
        /\ \A d \in TmCaller : TmCallInv(tmCall[d])'
        /\ \A d, e \in TmCaller : tmCall'[d].at = "fill" /\ tmCall'[e].at = "fill" => d = e
    <2>1. "filltmp" \in TmWritten
      BY DEF TmWritten
    <2> QED BY <1>1, <2>1, TmWriteOn
  <1>3. tmFile \in TmContents /\ TmFine(tmFile) /\ Broken("empty") \in TmContents /\ TmFine(Broken("empty")) /\ tmKeys \in Nat
        /\ tmOpen' \in [TmCaller -> {"none", "tmp", "file", "gone"}]
    BY <1>1, TmFiles DEF TmInv, TmTypeOK
  <1> QED BY <1>1, <1>2, <1>3, TmKept

LEMMA TmFillInv == ASSUME TmInv, NEW p \in TmCaller, FillTmp(p) PROVE TmInv'
  <1>1. /\ tmOpen' = [tmOpen EXCEPT ![p] = "none"] /\ tmKeyFile' = tmKeyFile
        /\ tmKeys' = tmKeys /\ tmScim' = tmScim /\ tmInvites' = tmInvites /\ tmCall[p].at \in TmWritten
        /\ CallAt(p, [tmCall[p] EXCEPT !.at = "rename"])
    BY DEF FillTmp, TmWritten
  <1>2. /\ tmCall' \in [TmCaller -> {TmIdle} \cup TmWrites \cup TmSigns]
        /\ \A d \in TmCaller : TmCallInv(tmCall[d])'
        /\ \A d, e \in TmCaller : tmCall'[d].at = "fill" /\ tmCall'[e].at = "fill" => d = e
    <2>1. "rename" \in TmWritten
      BY DEF TmWritten
    <2> QED BY <1>1, <2>1, TmWriteOn
  <1>3. \A old \in {tmFile, tmTmp} : \A f \in Over(old, tmCall[p].team) \cup {old} : f \in TmContents /\ TmFine(f)
    BY <1>1, TmInWrite, TmFiles DEF TmInv, TmTypeOK, Over
  <1>4. /\ tmFile' \in Over(tmFile, tmCall[p].team) \cup {tmFile}
        /\ tmTmp' \in Over(tmTmp, tmCall[p].team) \cup {tmTmp}
    BY DEF FillTmp
  <1>5. tmKeys \in Nat /\ tmOpen' \in [TmCaller -> {"none", "tmp", "file", "gone"}]
    BY <1>1 DEF TmInv, TmTypeOK
  <1> QED BY <1>1, <1>2, <1>3, <1>4, <1>5, TmKept

LEMMA TmWriteInv == ASSUME TmInv, NEW p \in TmCaller, WriteTeam(p) PROVE TmInv'
  <1>1. /\ tmFile' = tmTmp /\ tmTmp' = Broken("none") /\ tmKeyFile' = tmKeyFile
        /\ tmKeys' = tmKeys /\ tmScim' = tmScim /\ tmCall[p].at \in TmWritten /\ CallAt(p, TmIdle)
        /\ tmInvites' = tmInvites \cup (IF tmCall[p].invite THEN {tmCall[p].team.pub} ELSE {})
    BY DEF WriteTeam, TmWritten
  <1>2. /\ tmCall' \in [TmCaller -> {TmIdle} \cup TmWrites \cup TmSigns]
        /\ \A d \in TmCaller : TmCallInv(tmCall[d])'
        /\ \A d, e \in TmCaller : tmCall'[d].at = "fill" /\ tmCall'[e].at = "fill" => d = e
    BY <1>1, TmStops
  <1>3. tmTmp \in TmContents /\ TmFine(tmTmp) /\ Broken("none") \in TmContents /\ TmFine(Broken("none")) /\ tmKeys \in Nat
    BY TmFiles DEF TmInv, TmTypeOK
  <1>4. tmOpen' \in [TmCaller -> {"none", "tmp", "file", "gone"}]
    BY DEF WriteTeam, TmInv, TmTypeOK
  <1>5. \A j \in tmInvites' : j \in tmInvites \/ (tmKeyFile > 1 /\ j = tmKeyFile)
    BY <1>1, TmInWrite
  <1> QED BY <1>1, <1>2, <1>3, <1>4, <1>5, TmKept

LEMMA TmRenameFailsInv == ASSUME TmInv, NEW p \in TmCaller, RenameFails(p) PROVE TmInv'
  <1>1. /\ tmFile' = tmFile /\ tmTmp' = tmTmp /\ tmOpen' = tmOpen /\ tmKeyFile' = tmKeyFile
        /\ tmKeys' = tmKeys /\ tmScim' = tmScim /\ tmInvites' = tmInvites /\ tmCall[p].at \in TmWritten
        /\ CallAt(p, [tmCall[p] EXCEPT !.at = "remove"])
    BY DEF RenameFails, TmWritten, tmWriting
  <1>2. /\ tmCall' \in [TmCaller -> {TmIdle} \cup TmWrites \cup TmSigns]
        /\ \A d \in TmCaller : TmCallInv(tmCall[d])'
        /\ \A d, e \in TmCaller : tmCall'[d].at = "fill" /\ tmCall'[e].at = "fill" => d = e
    <2>1. "remove" \in TmWritten
      BY DEF TmWritten
    <2> QED BY <1>1, <2>1, TmWriteOn
  <1>3. tmFile \in TmContents /\ TmFine(tmFile) /\ tmTmp \in TmContents /\ TmFine(tmTmp) /\ tmKeys \in Nat
        /\ tmOpen \in [TmCaller -> {"none", "tmp", "file", "gone"}]
    BY DEF TmInv, TmTypeOK
  <1> QED BY <1>1, <1>2, <1>3, TmKept

LEMMA TmRemoveInv == ASSUME TmInv, NEW p \in TmCaller, RemoveTmp(p) PROVE TmInv'
  <1>1. /\ tmFile' = tmFile /\ tmTmp' = Broken("none") /\ tmKeyFile' = tmKeyFile
        /\ tmKeys' = tmKeys /\ tmScim' = tmScim /\ tmInvites' = tmInvites /\ CallAt(p, TmIdle)
    BY DEF RemoveTmp
  <1>2. /\ tmCall' \in [TmCaller -> {TmIdle} \cup TmWrites \cup TmSigns]
        /\ \A d \in TmCaller : TmCallInv(tmCall[d])'
        /\ \A d, e \in TmCaller : tmCall'[d].at = "fill" /\ tmCall'[e].at = "fill" => d = e
    BY <1>1, TmStops
  <1>3. tmFile \in TmContents /\ TmFine(tmFile) /\ Broken("none") \in TmContents /\ TmFine(Broken("none")) /\ tmKeys \in Nat
    BY TmFiles DEF TmInv, TmTypeOK
  <1>4. tmOpen' \in [TmCaller -> {"none", "tmp", "file", "gone"}]
    BY DEF RemoveTmp, TmInv, TmTypeOK
  <1> QED BY <1>1, <1>2, <1>3, <1>4, TmKept

LEMMA TmFailsInv == ASSUME TmInv, NEW p \in TmCaller, TmFails(p) PROVE TmInv'
  <1>1. /\ tmFile' \in {tmFile, Broken("torn")} /\ tmTmp' \in {tmTmp, Broken("torn")}
        /\ tmOpen' = [tmOpen EXCEPT ![p] = "none"] /\ tmKeyFile' = tmKeyFile
        /\ tmKeys' = tmKeys /\ tmScim' = tmScim /\ tmInvites' = tmInvites /\ CallAt(p, TmIdle)
    BY DEF TmFails
  <1>2. /\ tmCall' \in [TmCaller -> {TmIdle} \cup TmWrites \cup TmSigns]
        /\ \A d \in TmCaller : TmCallInv(tmCall[d])'
        /\ \A d, e \in TmCaller : tmCall'[d].at = "fill" /\ tmCall'[e].at = "fill" => d = e
    BY <1>1, TmStops
  <1>3. \A f \in {tmFile, tmTmp, Broken("torn")} : f \in TmContents /\ TmFine(f)
    BY TmFiles DEF TmInv, TmTypeOK
  <1>4. tmKeys \in Nat /\ tmOpen' \in [TmCaller -> {"none", "tmp", "file", "gone"}]
    BY <1>1 DEF TmInv, TmTypeOK
  <1> QED BY <1>1, <1>2, <1>3, <1>4, TmKept

\* The call of an invite at its next step, with its copy or with another key in it.
LEMMA TmSigning ==
    ASSUME TmInv, NEW p \in TmCaller, tmCall[p].at \in {"key", "create", "fill", "sign"}
    PROVE  /\ tmCall[p] \in TmSigns /\ tmCall[p].team \in TmTeams /\ TmSingle(tmCall[p].team) /\ TmCallInv(tmCall[p])
  <1>1. tmCall[p] \in TmSigns /\ TmCallInv(tmCall[p])
    BY DEF TmInv, TmTypeOK, TmIdle, TmWrites, TmWritten
  <1> QED BY <1>1 DEF TmSigns, TmCallInv

LEMMA TmAt ==
    ASSUME NEW s \in TmSigns, NEW at \in {"key", "create", "fill", "sign"}
    PROVE  \E c \in TmSigns : c = [s EXCEPT !.at = at] /\ c.at = at /\ c.team = s.team
  <1>1. PICK c \in TmSigns : c = [s EXCEPT !.at = at]
    BY DEF TmSigns
  <1> QED BY <1>1 DEF TmSigns

LEMMA TmAtWith ==
    ASSUME NEW s \in TmSigns, NEW at \in {"key", "create", "fill", "sign"}, NEW k \in Nat, TmSingle(s.team)
    PROVE  /\ WithKey(s, at, k) \in TmSigns /\ WithKey(s, at, k).at = at
           /\ WithKey(s, at, k).team.pub = k /\ TmSingle(WithKey(s, at, k).team)
  <1>1. s.team \in TmTeams
    BY DEF TmSigns
  <1>2. PICK u \in TmTeams : u = [s.team EXCEPT !.pub = k]
    BY <1>1 DEF TmTeams
  <1>3. u.pub = k /\ u.roster = s.team.roster
    BY <1>1, <1>2 DEF TmTeams
  <1>4. TmSingle(u)
    BY <1>3 DEF TmSingle, Owners, Listed
  <1>5. [s EXCEPT !.at = at, !.team.pub = k] = [s EXCEPT !.at = at, !.team = u]
    BY <1>2, Zenon
  <1>6. PICK c \in TmSigns : c = [s EXCEPT !.at = at, !.team = u]
    BY <1>2 DEF TmSigns
  <1>7. c.at = at /\ c.team = u
    BY <1>6 DEF TmSigns
  <1> QED BY <1>3, <1>4, <1>5, <1>6, <1>7, Zenon DEF WithKey

LEMMA TmWithPub ==
    ASSUME NEW s \in TmSigns, NEW at \in {"key", "create", "fill", "sign"}, NEW k \in Nat
    PROVE  WithKey(s, at, k).team.pub = k
  <1>1. s.team \in TmTeams
    BY DEF TmSigns
  <1>2. PICK u \in TmTeams : u = [s.team EXCEPT !.pub = k]
    BY <1>1 DEF TmTeams
  <1>3. u.pub = k
    BY <1>1, <1>2 DEF TmTeams
  <1>4. [s EXCEPT !.at = at, !.team.pub = k] = [s EXCEPT !.at = at, !.team = u]
    BY <1>2, Zenon
  <1>5. [s EXCEPT !.at = at, !.team = u].team = u
    BY <1>2 DEF TmSigns
  <1> QED BY <1>3, <1>4, <1>5, Zenon DEF WithKey

\* A step of an invite that leaves the files of the team alone.
LEMMA TmOfInvite ==
    ASSUME TmInv, tmFile' = tmFile, tmTmp' = tmTmp, tmOpen' = tmOpen, tmKeyFile' = tmKeyFile, tmKeys' \in Nat,
           tmScim' = tmScim, \A j \in tmInvites' : j \in tmInvites \/ (tmKeyFile > 1 /\ j = tmKeyFile),
           NEW p \in TmCaller, NEW c \in {TmIdle} \cup TmWrites \cup TmSigns,
           CallAt(p, c), TmCallInv(c)', c.at # "fill"
    PROVE  TmInv'
  <1>1. /\ tmCall' \in [TmCaller -> {TmIdle} \cup TmWrites \cup TmSigns]
        /\ \A d \in TmCaller : TmCallInv(tmCall[d])'
        /\ \A d, e \in TmCaller : tmCall'[d].at = "fill" /\ tmCall'[e].at = "fill" => d = e
    BY TmMoves
  <1>2. tmFile \in TmContents /\ TmFine(tmFile) /\ tmTmp \in TmContents /\ TmFine(tmTmp)
        /\ tmOpen \in [TmCaller -> {"none", "tmp", "file", "gone"}]
    BY DEF TmInv, TmTypeOK
  <1> QED BY <1>1, <1>2, TmKept

\* An invite that stops.
LEMMA TmGivesUp ==
    ASSUME TmInv, tmFile' = tmFile, tmTmp' = tmTmp, tmOpen' = tmOpen, tmKeyFile' = tmKeyFile, tmKeys' = tmKeys,
           tmScim' = tmScim, \A j \in tmInvites' : j \in tmInvites \/ (tmKeyFile > 1 /\ j = tmKeyFile),
           NEW p \in TmCaller, CallAt(p, TmIdle)
    PROVE  TmInv'
  <1>1. PICK c \in {TmIdle} \cup TmWrites \cup TmSigns : c = TmIdle
    OBVIOUS
  <1>2. c.at = "idle"
    BY <1>1 DEF TmIdle
  <1>3. TmCallInv(c)' /\ c.at # "fill" /\ CallAt(p, c)
    BY <1>1, <1>2 DEF TmCallInv, TmWritten
  <1>4. tmKeys' \in Nat
    BY DEF TmInv, TmTypeOK
  <1> QED BY <1>3, <1>4, TmOfInvite

LEMMA TmLoadKeyInv == ASSUME TmInv, NEW p \in TmCaller, LoadInviteKey(p) PROVE TmInv'
  <1>1. /\ tmFile' = tmFile /\ tmTmp' = tmTmp /\ tmOpen' = tmOpen /\ tmKeyFile' = tmKeyFile
        /\ tmScim' = tmScim /\ tmInvites' = tmInvites /\ tmCall[p].at = "key"
    BY DEF LoadInviteKey, tmWriting
  <1>2. tmKeyFile \in Nat /\ tmKeys \in Nat
    BY DEF TmInv, TmTypeOK
  <1>3. CASE tmKeyFile > 1 /\ tmCall[p].team.pub \in {0, tmKeyFile}
    <2>1. CallAt(p, WithKey(tmCall[p], "sign", tmKeyFile)) /\ tmKeys' = tmKeys
      BY <1>3 DEF LoadInviteKey
    <2>0. PICK s \in TmSigns : s = tmCall[p] /\ TmSingle(s.team)
      BY <1>1, TmSigning
    <2>2. PICK c \in TmSigns : /\ c = WithKey(s, "sign", tmKeyFile)
                               /\ c.at = "sign" /\ c.team.pub = tmKeyFile /\ TmSingle(c.team)
      <3>1. WithKey(s, "sign", tmKeyFile) \in TmSigns
        BY <1>2, <2>0, TmAtWith
      <3>2. WithKey(s, "sign", tmKeyFile).at = "sign"
        BY <1>2, <2>0, TmAtWith
      <3>3. WithKey(s, "sign", tmKeyFile).team.pub = tmKeyFile
        BY <1>2, <2>0, TmWithPub
      <3>4. TmSingle(WithKey(s, "sign", tmKeyFile).team)
        BY <1>2, <2>0, TmAtWith
      <3> QED BY <3>1, <3>2, <3>3, <3>4
    <2>3. TmCallInv(c)'
      BY <1>1, <1>3, <2>2 DEF TmCallInv, TmWritten
    <2>4. CallAt(p, c) /\ c.at # "fill"
      BY <2>0, <2>1, <2>2, Zenon
    <2> QED BY <1>1, <1>2, <2>1, <2>2, <2>3, <2>4, TmOfInvite
  <1>4. CASE tmKeyFile = 0 /\ tmCall[p].team.pub = 0
    <2>1. CallAt(p, WithKey(tmCall[p], "create", tmKeys + 2)) /\ tmKeys' = tmKeys + 1
      BY <1>4 DEF LoadInviteKey
    <2>2. PICK k \in Nat : k = tmKeys + 2 /\ k > 1 /\ tmKeys + 1 \in Nat
      BY <1>2
    <2>0. PICK s \in TmSigns : s = tmCall[p] /\ TmSingle(s.team)
      BY <1>1, TmSigning
    <2>3. PICK c \in TmSigns : /\ c = WithKey(s, "create", k)
                               /\ c.at = "create" /\ c.team.pub = k /\ TmSingle(c.team)
      <3>1. WithKey(s, "create", k) \in TmSigns
        BY <2>2, <2>0, TmAtWith
      <3>2. WithKey(s, "create", k).at = "create"
        BY <2>2, <2>0, TmAtWith
      <3>3. WithKey(s, "create", k).team.pub = k
        <4>1. k \in Nat
          BY <2>2
        <4> QED BY <2>0, <4>1, TmWithPub
      <3>4. TmSingle(WithKey(s, "create", k).team)
        BY <2>2, <2>0, TmAtWith
      <3> QED BY <3>1, <3>2, <3>3, <3>4
    <2>4. TmCallInv(c)'
      BY <2>2, <2>3 DEF TmCallInv, TmWritten
    <2>5. CallAt(p, c) /\ c.at # "fill"
      BY <2>0, <2>1, <2>2, <2>3, Zenon
    <2>6. tmKeys' \in Nat
      BY <2>1, <2>2
    <2> QED BY <1>1, <2>3, <2>4, <2>5, <2>6, TmOfInvite
  <1>5. CASE ~ (tmKeyFile > 1 /\ tmCall[p].team.pub \in {0, tmKeyFile}) /\ ~ (tmKeyFile = 0 /\ tmCall[p].team.pub = 0)
    <2>1. CallAt(p, TmIdle) /\ tmKeys' = tmKeys
      BY <1>5 DEF LoadInviteKey
    <2> QED BY <1>1, <2>1, TmGivesUp
  <1> QED BY <1>3, <1>4, <1>5

\* While the key file holds no key, nothing names one.
LEMMA TmNoKey ==
    ASSUME TmInv, tmKeyFile < 2
    PROVE  /\ tmInvites = {} /\ tmFile.team.pub = 0 /\ tmTmp.team.pub = 0 /\ \A t \in tmScim : t.pub = 0
           /\ \A d \in TmCaller : /\ tmCall[d].at # "sign"
                                  /\ tmCall[d].at \in TmWritten \cup {"key"} => tmCall[d].team.pub = 0
                                  /\ tmCall[d].at \in TmWritten => ~tmCall[d].invite
  <1>1. tmKeyFile \in Nat /\ ~ (tmKeyFile > 1)
    BY DEF TmInv, TmTypeOK
  <1>2. tmInvites = {} /\ tmFile.team.pub = 0 /\ tmTmp.team.pub = 0 /\ \A t \in tmScim : t.pub = 0
    BY <1>1 DEF TmInv, TmGood, TmFine, TmNamed
  <1>3. ASSUME NEW d \in TmCaller
        PROVE  /\ tmCall[d].at # "sign"
               /\ tmCall[d].at \in TmWritten \cup {"key"} => tmCall[d].team.pub = 0
               /\ tmCall[d].at \in TmWritten => ~tmCall[d].invite
    <2>1. TmCallInv(tmCall[d])
      BY DEF TmInv
    <2> QED BY <1>1, <2>1 DEF TmCallInv, TmNamed
  <1> QED BY <1>2, <1>3

\* A step that changes the key file while nothing names a key.
LEMMA TmKeyStep ==
    ASSUME TmInv, tmKeyFile < 2, tmKeyFile' \in Nat, tmFile' = tmFile, tmTmp' = tmTmp, tmOpen' = tmOpen,
           tmKeys' = tmKeys, tmScim' = tmScim, tmInvites' = tmInvites,
           tmCall' \in [TmCaller -> {TmIdle} \cup TmWrites \cup TmSigns],
           \A d \in TmCaller : TmCallInv(tmCall[d])',
           \A d, e \in TmCaller : tmCall'[d].at = "fill" /\ tmCall'[e].at = "fill" => d = e
    PROVE  TmInv'
  <1>1. tmInvites = {} /\ tmFile.team.pub = 0 /\ tmTmp.team.pub = 0 /\ \A t \in tmScim : t.pub = 0
    BY TmNoKey
  <1>2. TmFine(tmFile)' /\ TmFine(tmTmp)' /\ \A t \in tmScim' : TmGood(t)'
    BY <1>1 DEF TmInv, TmFine, TmGood, TmNamed, TmSingle
  <1>3. TmTypeOK'
    BY DEF TmInv, TmTypeOK
  <1> QED BY <1>1, <1>2, <1>3 DEF TmInv

LEMMA TmCreateKeyInv == ASSUME TmInv, NEW p \in TmCaller, CreateKeyFile(p) PROVE TmInv'
  <1>1. /\ tmFile' = tmFile /\ tmTmp' = tmTmp /\ tmOpen' = tmOpen /\ tmKeys' = tmKeys /\ tmScim' = tmScim
        /\ tmInvites' = tmInvites /\ tmCall[p].at = "create"
    BY DEF CreateKeyFile, tmWriting
  <1>2. CASE tmKeyFile = 0
    <2>1. tmKeyFile' = 1 /\ CallAt(p, [tmCall[p] EXCEPT !.at = "fill"])
      BY <1>2 DEF CreateKeyFile
    <2>2. PICK c \in TmSigns : c = [tmCall[p] EXCEPT !.at = "fill"] /\ c.at = "fill" /\ c.team = tmCall[p].team
      BY <1>1, TmSigning, TmAt
    <2>3. TmCallInv(c)'
      <3>1. TmSingle(c.team) /\ c.team.pub > 1
        BY <1>1, <2>2, TmSigning DEF TmCallInv
      <3> QED BY <2>1, <2>2, <3>1 DEF TmCallInv, TmWritten
    <2>4. ASSUME NEW d \in TmCaller
          PROVE  /\ tmCall[d].at \notin {"fill", "sign"}
                 /\ tmCall[d].at \in TmWritten \cup {"key"} => tmCall[d].team.pub = 0
                 /\ tmCall[d].at \in TmWritten => ~tmCall[d].invite
      BY <1>2, TmNoKey DEF TmInv, TmCallInv
    <2>5. CallAt(p, c)
      BY <2>1, <2>2
    <2>7. /\ tmCall' \in [TmCaller -> {TmIdle} \cup TmWrites \cup TmSigns]
          /\ \A d \in TmCaller : TmCallInv(tmCall[d])'
          /\ \A d, e \in TmCaller : tmCall'[d].at = "fill" /\ tmCall'[e].at = "fill" => d = e
      BY <2>2, <2>3, <2>4, <2>5, TmMoves
    <2> QED BY <1>1, <1>2, <2>1, <2>7, TmKeyStep
  <1>3. CASE tmKeyFile # 0
    <2>1. CallAt(p, TmIdle) /\ tmKeyFile' = tmKeyFile
      BY <1>3 DEF CreateKeyFile
    <2> QED BY <1>1, <2>1, TmGivesUp
  <1> QED BY <1>2, <1>3

LEMMA TmFillKeyInv == ASSUME TmInv, NEW p \in TmCaller, FillKeyFile(p) PROVE TmInv'
  <1>1. /\ tmFile' = tmFile /\ tmTmp' = tmTmp /\ tmOpen' = tmOpen /\ tmKeys' = tmKeys /\ tmScim' = tmScim
        /\ tmInvites' = tmInvites /\ tmCall[p].at = "fill" /\ tmKeyFile = 1 /\ tmCall[p].team.pub > 1
        /\ tmCall[p].team \in TmTeams /\ TmSingle(tmCall[p].team)
    BY TmSigning DEF FillKeyFile, TmCallInv, TmSigns, tmWriting
  <1>2. ASSUME NEW d \in TmCaller, d # p
        PROVE  /\ tmCall[d].at \notin {"fill", "sign"}
               /\ tmCall[d].at \in TmWritten \cup {"key"} => tmCall[d].team.pub = 0
               /\ tmCall[d].at \in TmWritten => ~tmCall[d].invite
    BY <1>1, <1>2, TmNoKey DEF TmInv
  <1>3. PICK c \in {TmIdle} \cup TmWrites \cup TmSigns :
           CallAt(p, c) /\ c.at # "fill" /\ TmCallInv(c)' /\ tmKeyFile' \in Nat
    <2>1. CASE tmKeyFile' = tmCall[p].team.pub /\ CallAt(p, [tmCall[p] EXCEPT !.at = "sign"])
      <3>1. PICK c \in TmSigns : c = [tmCall[p] EXCEPT !.at = "sign"] /\ c.at = "sign" /\ c.team = tmCall[p].team
        BY <1>1, TmSigning, TmAt
      <3>2. TmCallInv(c)'
        BY <1>1, <2>1, <3>1 DEF TmCallInv, TmWritten
      <3>3. CallAt(p, c) /\ c.at # "fill" /\ tmKeyFile' \in Nat
        BY <1>1, <2>1, <3>1 DEF TmTeams
      <3> QED BY <3>2, <3>3
    <2>2. CASE tmKeyFile' = 0 /\ CallAt(p, TmIdle)
      <3>1. PICK c \in {TmIdle} \cup TmWrites \cup TmSigns : c = TmIdle
        OBVIOUS
      <3>2. c.at = "idle"
        BY <3>1 DEF TmIdle
      <3>3. TmCallInv(c)'
        BY <3>2 DEF TmCallInv, TmWritten
      <3>4. CallAt(p, c) /\ c.at # "fill" /\ tmKeyFile' \in Nat
        BY <2>2, <3>1, <3>2
      <3> QED BY <3>3, <3>4
    <2> QED BY <2>1, <2>2 DEF FillKeyFile
  <1>4. /\ tmCall' \in [TmCaller -> {TmIdle} \cup TmWrites \cup TmSigns]
        /\ \A d \in TmCaller : TmCallInv(tmCall[d])'
        /\ \A d, e \in TmCaller : tmCall'[d].at = "fill" /\ tmCall'[e].at = "fill" => d = e
    BY <1>2, <1>3, TmMoves
  <1> QED BY <1>1, <1>3, <1>4, TmKeyStep

LEMMA TmSignInv == ASSUME TmInv, NEW p \in TmCaller, SignInvite(p) PROVE TmInv'
  <1>1. /\ tmFile' = tmFile /\ tmTmp' = tmTmp /\ tmOpen' = tmOpen /\ tmKeyFile' = tmKeyFile /\ tmKeys' = tmKeys
        /\ tmScim' = tmScim /\ tmCall[p].at = "sign"
    BY DEF SignInvite, tmWriting
  <1>2. /\ tmCall[p].team \in TmTeams /\ TmSingle(tmCall[p].team) /\ tmKeyFile > 1 /\ tmCall[p].team.pub = tmKeyFile
    BY <1>1, TmSigning DEF TmCallInv, TmSigns
  <1>3. CASE tmCall[p].hadKey
    <2>1. CallAt(p, TmIdle) /\ \A j \in tmInvites' : j \in tmInvites \/ (tmKeyFile > 1 /\ j = tmKeyFile)
      BY <1>2, <1>3 DEF SignInvite
    <2> QED BY <1>1, <2>1, TmGivesUp
  <1>4. CASE ~ tmCall[p].hadKey
    <2>1. CallAt(p, Write(tmCall[p].team, TRUE)) /\ tmInvites' = tmInvites
      BY <1>4 DEF SignInvite
    <2>2. PICK c \in TmWrites : c = [at |-> "write", team |-> tmCall[p].team, invite |-> TRUE]
      BY <1>2 DEF TmWrites, TmWritten
    <2>3. c.at = "write" /\ c.team = tmCall[p].team
      BY <2>2
    <2>4. TmCallInv(c)'
      BY <1>1, <1>2, <2>3 DEF TmCallInv, TmNamed
    <2>5. CallAt(p, c) /\ c.at # "fill"
      BY <2>1, <2>2, <2>3 DEF Write
    <2>6. tmKeys' \in Nat /\ \A j \in tmInvites' : j \in tmInvites \/ (tmKeyFile > 1 /\ j = tmKeyFile)
      BY <1>1, <2>1 DEF TmInv, TmTypeOK
    <2> QED BY <1>1, <2>4, <2>5, <2>6, TmOfInvite
  <1> QED BY <1>3, <1>4

\* What the SCIM server makes of its copy.
LEMMA TmOfServer ==
    ASSUME TmInv, NEW t \in tmScim, NEW m \in TmMember
    PROVE  /\ \A s \in {"active", "suspended"} :
                 m \notin Listed(t) => \A u : u = [t EXCEPT !.roster[m] = [role |-> "developer", status |-> s]]
                                              => u \in TmTeams /\ TmGood(u)
           /\ \A u \in RemoveMember(t, m) : u \in TmTeams /\ TmGood(u)
  <1>1. t \in TmTeams /\ TmGood(t) /\ "owner" \in TmRole
    BY DEF TmInv, TmTypeOK, TmRole
  <1>2. ASSUME NEW s \in {"active", "suspended"}, m \notin Listed(t),
               NEW u, u = [t EXCEPT !.roster[m] = [role |-> "developer", status |-> s]]
        PROVE  u \in TmTeams /\ TmGood(u)
    <2>1. t.roster[m].status = "absent"
      BY <1>2 DEF Listed
    <2>2. PICK e \in TmEntry : e = [role |-> "developer", status |-> s]
      BY DEF TmEntry, TmRole
    <2>3. e.role = "developer"
      BY <2>2
    <2>4. u \in TmTeams /\ u.pub = t.pub /\ Owners(u) = Owners(t)
      BY <1>1, <1>2, <2>1, <2>2, <2>3, TmOwners
    <2> QED BY <1>1, <2>4 DEF TmGood, TmSingle, TmNamed
  <1>3. ASSUME NEW u \in RemoveMember(t, m)
        PROVE  u \in TmTeams /\ TmGood(u)
    <2>1. u \in TmTeams /\ u.pub = t.pub /\ TmSingle(u)
      BY <1>1, <1>3, TmChanges DEF TmGood
    <2> QED BY <1>1, <2>1 DEF TmGood, TmNamed
  <1> QED BY <1>2, <1>3

LEMMA TmServerInv ==
    ASSUME TmInv, NewServer \/ \E m \in TmMember : CreateUser(m)
    PROVE  TmInv'
  <1>1. /\ tmKeyFile' = tmKeyFile /\ tmKeys' = tmKeys /\ tmCall' = tmCall /\ tmInvites' = tmInvites
        /\ tmFile' = tmFile /\ tmTmp' = tmTmp /\ tmOpen' = tmOpen
    BY DEF NewServer, CreateUser, tmWriting
  <1>2. \A t \in tmScim' : t \in TmTeams /\ TmGood(t)
    <2>1. CASE NewServer
      <3>1. tmScim' = {tmFile.team} /\ tmFile.is = "whole"
        BY <2>1 DEF NewServer
      <3>2. tmFile.team \in TmTeams /\ TmGood(tmFile.team)
        BY <3>1 DEF TmInv, TmTypeOK, TmContents, TmFine, TmGood
      <3> QED BY <3>1, <3>2
    <2>2. ASSUME NEW m \in TmMember, CreateUser(m) PROVE \A t \in tmScim' : t \in TmTeams /\ TmGood(t)
      BY <2>2, TmOfServer DEF CreateUser
    <2> QED BY <2>1, <2>2
  <1>3. /\ TmFine(tmFile)' /\ TmFine(tmTmp)' /\ \A t \in tmScim' : TmGood(t)'
        /\ \A c \in TmCaller : TmCallInv(tmCall[c])'
    BY <1>1, <1>2 DEF TmInv, TmCallInv, TmNamed, TmFine, TmGood, TmSingle
  <1>4. TmTypeOK'
    BY <1>1, <1>2 DEF TmInv, TmTypeOK
  <1> QED BY <1>1, <1>3, <1>4 DEF TmInv

LEMMA TmDeleteInv == ASSUME TmInv, NEW p \in TmCaller, NEW m \in TmMember, DeleteUser(p, m) PROVE TmInv'
  <1>1. /\ tmFile' = tmFile /\ tmTmp' = tmTmp /\ tmOpen' = tmOpen /\ tmKeyFile' = tmKeyFile /\ tmKeys' = tmKeys
        /\ tmInvites' = tmInvites
    BY DEF DeleteUser, tmWriting
  <1>2. PICK u \in TmTeams : TmGood(u) /\ tmScim' = {u} /\ CallAt(p, Write(u, FALSE))
    BY TmOfServer DEF DeleteUser
  <1>3. PICK c \in TmWrites : c = [at |-> "write", team |-> u, invite |-> FALSE]
    BY DEF TmWrites, TmWritten
  <1>4. c.at = "write" /\ c.team = u /\ c.invite = FALSE
    BY <1>3
  <1>5. TmCallInv(c)' /\ c.at # "fill" /\ CallAt(p, c)
    BY <1>1, <1>2, <1>3, <1>4 DEF TmCallInv, TmGood, TmNamed, Write
  <1>6. /\ tmCall' \in [TmCaller -> {TmIdle} \cup TmWrites \cup TmSigns]
        /\ \A d \in TmCaller : TmCallInv(tmCall[d])'
        /\ \A d, e \in TmCaller : tmCall'[d].at = "fill" /\ tmCall'[e].at = "fill" => d = e
    BY <1>1, <1>5, TmMoves
  <1>7. TmFine(tmFile)' /\ TmFine(tmTmp)' /\ \A t \in tmScim' : TmGood(t)'
    BY <1>1, <1>2 DEF TmInv, TmNamed, TmFine, TmGood, TmSingle
  <1>8. TmTypeOK'
    BY <1>1, <1>2, <1>6 DEF TmInv, TmTypeOK
  <1> QED BY <1>1, <1>6, <1>7, <1>8 DEF TmInv

LEMMA TmStart == TmInit => TmInv /\ TmAlone
  <1> SUFFICES ASSUME TmInit PROVE TmInv /\ TmAlone
    OBVIOUS
  <1>1. /\ tmKeyFile = 0 /\ tmKeys = 0 /\ tmScim = {} /\ tmInvites = {} /\ tmTmp = Broken("none")
        /\ tmOpen = [c \in TmCaller |-> "none"] /\ tmCall = [c \in TmCaller |-> TmIdle]
    BY DEF TmInit
  <1>2. PICK r \in TmRosters : tmFile = Whole([roster |-> r, pub |-> 0])
    BY DEF TmInit
  <1>3. /\ r \in [TmMember -> TmEntry] /\ TmOwner \in TmMember /\ r[TmOwner] = [role |-> "owner", status |-> "active"]
        /\ \A m \in TmMember \ {TmOwner} : r[m].role # "owner"
    BY TmAssumption
  <1>4. PICK t \in TmTeams : t = [roster |-> r, pub |-> 0]
    BY <1>3 DEF TmTeams
  <1>5. t.roster = r /\ t.pub = 0 /\ tmFile = Whole(t)
    BY <1>2, <1>4
  <1>6. TmSingle(t)
    <2>1. \A m \in TmMember : m \in Owners(t) <=> m = TmOwner
      BY <1>3, <1>5 DEF Owners, Listed
    <2> QED BY <1>3, <2>1 DEF TmSingle, Owners, Listed
  <1>7. tmFile \in TmContents /\ TmFine(tmFile) /\ tmTmp \in TmContents /\ TmFine(tmTmp)
    BY <1>1, <1>5, <1>6, TmFiles DEF TmGood, TmNamed
  <1>8. \A c \in TmCaller : tmCall[c].at = "idle"
    BY <1>1 DEF TmIdle
  <1>9. TmTypeOK
    BY <1>1, <1>7 DEF TmTypeOK
  <1>10. \A c \in TmCaller : TmCallInv(tmCall[c])
    BY <1>8 DEF TmCallInv, TmWritten
  <1>11. TmAlone
    BY <1>1, <1>5, <1>8 DEF TmAlone, InWrite, Whole
  <1> QED BY <1>1, <1>7, <1>8, <1>9, <1>10, <1>11 DEF TmInv

LEMMA TmStep == TmInv /\ [TmNext]_tmVars => TmInv'
  <1> SUFFICES ASSUME TmInv, [TmNext]_tmVars PROVE TmInv'
    OBVIOUS
  <1>1. ASSUME NEW c \in TmCaller, TmBegin(c) \/ TmFails(c) \/ LoadInviteKey(c)
                                  \/ CreateKeyFile(c) \/ FillKeyFile(c) \/ SignInvite(c)
        PROVE  TmInv'
    BY <1>1, TmBeginInv, TmFailsInv, TmLoadKeyInv, TmCreateKeyInv, TmFillKeyInv, TmSignInv
  <1>2. ASSUME NEW c \in TmCaller, OpenTmp(c) \/ FillTmp(c) \/ WriteTeam(c) \/ RenameFails(c) \/ RemoveTmp(c)
        PROVE  TmInv'
    BY <1>2, TmOpenInv, TmFillInv, TmWriteInv, TmRenameFailsInv, TmRemoveInv
  <1>3. ASSUME NEW c \in TmCaller, NEW m \in TmMember, DeleteUser(c, m) PROVE TmInv'
    BY <1>3, TmDeleteInv
  <1>4. CASE NewServer \/ \E m \in TmMember : CreateUser(m)
    BY <1>4, TmServerInv
  <1>5. CASE UNCHANGED tmVars
    BY <1>5 DEF tmVars, TmInv, TmTypeOK, TmGood, TmFine, TmNamed, TmSingle, TmCallInv
  <1> QED BY <1>1, <1>2, <1>3, <1>4, <1>5 DEF TmNext

\* A step of a caller that is not in the write.
LEMMA TmAside ==
    ASSUME TmTypeOK, TmAlone, NEW p \in TmCaller, ~ InWrite(p),
           \E c : CallAt(p, c) /\ c.at \notin {"filltmp", "rename", "remove"}, tmFile' = tmFile, UNCHANGED tmWriting
    PROVE  TmAlone'
  <1>1. PICK c : CallAt(p, c) /\ c.at \notin {"filltmp", "rename", "remove"}
    OBVIOUS
  <1>2. tmCall'[p] = c /\ \A d \in TmCaller : d # p => tmCall'[d] = tmCall[d]
    BY <1>1 DEF TmTypeOK, CallAt
  <1>3. tmTmp' = tmTmp /\ tmOpen' = tmOpen /\ tmOverlap' = tmOverlap
    BY DEF tmWriting
  <1> QED BY <1>1, <1>2, <1>3 DEF TmAlone, InWrite

\* A step in the write, which is the only one under way unless they have overlapped.
LEMMA TmAloneWrites ==
    ASSUME TmInv, TmAlone, NEW p \in TmCaller, OpenTmp(p) \/ FillTmp(p) \/ WriteTeam(p) \/ RenameFails(p) \/ RemoveTmp(p)
    PROVE  TmAlone'
  <1>1. tmCall \in [TmCaller -> {TmIdle} \cup TmWrites \cup TmSigns] /\ tmOpen \in [TmCaller -> {"none", "tmp", "file", "gone"}]
    BY DEF TmInv, TmTypeOK
  <1>2. tmCall[p].at \in TmWritten /\ tmCall[p] \in TmWrites
    BY TmInWrite DEF OpenTmp, FillTmp, WriteTeam, RenameFails, RemoveTmp, TmWritten
  <1>3. ASSUME NEW at \in TmWritten, CallAt(p, [tmCall[p] EXCEPT !.at = at])
        PROVE  tmCall'[p].at = at /\ \A d \in TmCaller : d # p => tmCall'[d] = tmCall[d]
    BY <1>1, <1>2, <1>3 DEF CallAt, TmWrites
  <1>4. ASSUME CallAt(p, TmIdle)
        PROVE  tmCall'[p].at = "idle" /\ \A d \in TmCaller : d # p => tmCall'[d] = tmCall[d]
    BY <1>1, <1>4 DEF CallAt, TmIdle
  <1>5. CASE OpenTmp(p)
    <2>1. tmCall'[p].at = "filltmp" /\ \A d \in TmCaller : d # p => tmCall'[d] = tmCall[d]
      BY <1>3, <1>5 DEF OpenTmp, TmWritten
    <2>2. /\ tmOpen'[p] = "tmp" /\ (\A d \in TmCaller : d # p => tmOpen'[d] = tmOpen[d])
          /\ tmTmp'.is = "empty" /\ tmFile' = tmFile
          /\ ~tmOverlap' => ~tmOverlap /\ \A d \in TmCaller \ {p} : ~InWrite(d)
      BY <1>1, <1>5 DEF OpenTmp, Broken
    <2> QED BY <2>1, <2>2 DEF TmAlone, InWrite
  <1>6. CASE FillTmp(p)
    <2>1. tmCall'[p].at = "rename" /\ (\A d \in TmCaller : d # p => tmCall'[d] = tmCall[d]) /\ InWrite(p)
      BY <1>3, <1>6 DEF FillTmp, TmWritten, InWrite
    <2>2. /\ tmOpen'[p] = "none" /\ (\A d \in TmCaller : d # p => tmOpen'[d] = tmOpen[d]) /\ tmOverlap' = tmOverlap
      BY <1>1, <1>6 DEF FillTmp
    <2>3. ASSUME ~tmOverlap PROVE tmFile' = tmFile /\ tmTmp'.is = "whole"
      <3>1. tmOpen[p] = "tmp" /\ tmTmp.is = "empty"
        BY <1>6, <2>3 DEF TmAlone, FillTmp
      <3> QED BY <1>6, <3>1 DEF FillTmp, Over, Whole
    <2> QED BY <2>1, <2>2, <2>3 DEF TmAlone, InWrite
  <1>7. CASE WriteTeam(p)
    <2>1. tmCall'[p].at = "idle" /\ (\A d \in TmCaller : d # p => tmCall'[d] = tmCall[d]) /\ InWrite(p) /\ tmCall[p].at = "rename"
      BY <1>4, <1>7 DEF WriteTeam, InWrite
    <2>2. tmFile' = tmTmp /\ tmOverlap' = tmOverlap
      BY <1>7 DEF WriteTeam
    <2>3. ASSUME ~tmOverlap, NEW d \in TmCaller PROVE tmOpen'[d] = "none"
      <3>1. tmOpen[d] = "none"
        BY <2>1, <2>3 DEF TmAlone, InWrite
      <3> QED BY <1>7, <3>1 DEF WriteTeam
    <2> QED BY <2>1, <2>2, <2>3 DEF TmAlone, InWrite
  <1>8. CASE RenameFails(p)
    <2>1. tmCall'[p].at = "remove" /\ (\A d \in TmCaller : d # p => tmCall'[d] = tmCall[d]) /\ InWrite(p) /\ tmCall[p].at = "rename"
      BY <1>3, <1>8 DEF RenameFails, TmWritten, InWrite
    <2>2. tmFile' = tmFile /\ tmTmp' = tmTmp /\ tmOpen' = tmOpen /\ tmOverlap' = tmOverlap
      BY <1>8 DEF RenameFails, tmWriting
    <2> QED BY <2>1, <2>2 DEF TmAlone, InWrite
  <1>9. CASE RemoveTmp(p)
    <2>1. tmCall'[p].at = "idle" /\ (\A d \in TmCaller : d # p => tmCall'[d] = tmCall[d]) /\ InWrite(p) /\ tmCall[p].at = "remove"
      BY <1>4, <1>9 DEF RemoveTmp, InWrite
    <2>2. tmFile' = tmFile /\ tmOverlap' = tmOverlap
      BY <1>9 DEF RemoveTmp
    <2>3. ASSUME ~tmOverlap, NEW d \in TmCaller PROVE tmOpen'[d] = "none"
      <3>1. tmOpen[d] = "none"
        BY <2>1, <2>3 DEF TmAlone, InWrite
      <3> QED BY <1>9, <3>1 DEF RemoveTmp
    <2> QED BY <2>1, <2>2, <2>3 DEF TmAlone, InWrite
  <1> QED BY <1>5, <1>6, <1>7, <1>8, <1>9

LEMMA TmAloneFails == ASSUME TmInv, TmAlone, NEW p \in TmCaller, TmFails(p) PROVE TmAlone'
  <1>1. tmCall'[p].at = "idle" /\ \A d \in TmCaller : d # p => tmCall'[d] = tmCall[d]
    BY DEF TmInv, TmTypeOK, TmFails, CallAt, TmIdle
  <1>2. /\ tmOpen'[p] = "none" /\ (\A d \in TmCaller : d # p => tmOpen'[d] = tmOpen[d]) /\ tmOverlap' = tmOverlap
    BY DEF TmInv, TmTypeOK, TmFails
  <1>3. ASSUME ~tmOverlap
        PROVE  tmFile' = tmFile /\ (InWrite(p) \/ tmTmp' = tmTmp)
    <2>1. tmOpen[p] # "none" => tmOpen[p] = "tmp" /\ InWrite(p)
      BY <1>3 DEF TmAlone, InWrite
    <2> QED BY <2>1 DEF TmFails
  <1> QED BY <1>1, <1>2, <1>3 DEF TmAlone, InWrite

LEMMA TmAloneStep == TmInv /\ TmAlone /\ [TmNext]_tmVars => TmAlone'
  <1> SUFFICES ASSUME TmInv, TmAlone, [TmNext]_tmVars PROVE TmAlone'
    OBVIOUS
  <1>0. TmTypeOK
    BY DEF TmInv
  <1>1. ASSUME NEW c \in TmCaller, TmBegin(c) PROVE TmAlone'
    <2>1. ~InWrite(c) /\ tmFile' = tmFile /\ UNCHANGED tmWriting
      BY <1>1 DEF TmBegin, InWrite
    <2>2. ASSUME NEW u PROVE Write(u, FALSE).at \notin {"filltmp", "rename", "remove"}
      BY DEF Write
    <2>3. ASSUME NEW t, NEW b PROVE [at |-> "key", team |-> t, hadKey |-> b].at \notin {"filltmp", "rename", "remove"}
      OBVIOUS
    <2>4. \/ \E u : CallAt(c, Write(u, FALSE))
          \/ CallAt(c, [at |-> "key", team |-> tmFile.team, hadKey |-> tmFile.team.pub # 0])
      BY <1>1 DEF TmBegin
    <2>5. \E x : CallAt(c, x) /\ x.at \notin {"filltmp", "rename", "remove"}
      BY <2>2, <2>3, <2>4
    <2> QED BY <1>0, <2>1, <2>5, TmAside
  <1>2. ASSUME NEW c \in TmCaller, NEW m \in TmMember, DeleteUser(c, m) PROVE TmAlone'
    <2>1. ~InWrite(c) /\ tmFile' = tmFile /\ UNCHANGED tmWriting /\ \E u : CallAt(c, Write(u, FALSE))
      BY <1>2 DEF DeleteUser, InWrite
    <2>2. ASSUME NEW u PROVE Write(u, FALSE).at \notin {"filltmp", "rename", "remove"}
      BY DEF Write
    <2> QED BY <1>0, <2>1, <2>2, TmAside
  <1>3. ASSUME NEW c \in TmCaller, LoadInviteKey(c) \/ CreateKeyFile(c) \/ FillKeyFile(c) \/ SignInvite(c)
        PROVE  TmAlone'
    <2>1. ~InWrite(c) /\ tmFile' = tmFile /\ UNCHANGED tmWriting /\ tmCall[c].at \in {"key", "create", "fill", "sign"}
      BY <1>3 DEF LoadInviteKey, CreateKeyFile, FillKeyFile, SignInvite, InWrite
    <2>2. tmCall[c] \in TmSigns /\ TmSingle(tmCall[c].team) /\ tmKeys + 2 \in Nat /\ tmKeyFile \in Nat
      BY <2>1, TmSigning DEF TmInv, TmTypeOK
    <2>3. \E x : CallAt(c, x) /\ x.at \notin {"filltmp", "rename", "remove"}
      <3>1. TmIdle.at = "idle" /\ \A u : Write(u, TRUE).at = "write"
        BY DEF TmIdle, Write
      <3>2. ASSUME NEW at \in {"key", "create", "fill", "sign"}
            PROVE  [tmCall[c] EXCEPT !.at = at].at = at /\ \A k \in Nat : WithKey(tmCall[c], at, k).at = at
        <4>1. PICK s \in TmSigns : s = tmCall[c] /\ TmSingle(s.team)
          BY <2>2
        <4>2. [s EXCEPT !.at = at].at = at
          BY DEF TmSigns
        <4>3. ASSUME NEW k \in Nat PROVE WithKey(s, at, k).at = at
          <5>1. PICK u : u = [s.team EXCEPT !.pub = k]
            OBVIOUS
          <5>2. WithKey(s, at, k) = [s EXCEPT !.at = at, !.team = u]
            BY <5>1, Zenon DEF WithKey
          <5>3. [s EXCEPT !.at = at, !.team = u].at = at
            BY DEF TmSigns
          <5> QED BY <5>2, <5>3
        <4> QED BY <4>1, <4>2, <4>3
      <3>3. CASE LoadInviteKey(c)
        <4>1. \/ CallAt(c, WithKey(tmCall[c], "sign", tmKeyFile)) \/ CallAt(c, WithKey(tmCall[c], "create", tmKeys + 2))
              \/ CallAt(c, TmIdle)
          BY <3>3 DEF LoadInviteKey
        <4> QED BY <2>2, <3>1, <3>2, <4>1
      <3>4. CASE CreateKeyFile(c)
        BY <3>1, <3>2, <3>4 DEF CreateKeyFile
      <3>5. CASE FillKeyFile(c)
        BY <3>1, <3>2, <3>5 DEF FillKeyFile
      <3>6. CASE SignInvite(c)
        BY <3>1, <3>6 DEF SignInvite
      <3> QED BY <1>3, <3>3, <3>4, <3>5, <3>6
    <2> QED BY <1>0, <2>1, <2>3, TmAside
  <1>4. ASSUME NEW c \in TmCaller, \/ OpenTmp(c) \/ FillTmp(c) \/ WriteTeam(c) \/ RenameFails(c) \/ RemoveTmp(c)
                                   \/ TmFails(c)
        PROVE  TmAlone'
    BY <1>4, TmAloneWrites, TmAloneFails
  <1>5. CASE NewServer \/ (\E m \in TmMember : CreateUser(m)) \/ UNCHANGED tmVars
    BY <1>5 DEF NewServer, CreateUser, tmVars, tmWriting, TmAlone, InWrite
  <1> QED BY <1>1, <1>2, <1>3, <1>4, <1>5 DEF TmNext

LEMMA TmPromises == TmInv /\ TmAlone => FileWhole /\ OneOwner /\ OneInviteKey
  <1> SUFFICES ASSUME TmInv, TmAlone PROVE FileWhole /\ OneOwner /\ OneInviteKey
    OBVIOUS
  <1>1. OneOwner
    <2>1. SUFFICES ASSUME tmFile.is = "whole" PROVE Cardinality(Owners(tmFile.team)) = 1
      BY DEF OneOwner
    <2>2. PICK o \in TmMember : Owners(tmFile.team) = {o}
      BY <2>1 DEF TmInv, TmFine, TmSingle
    <2> QED BY <2>2, FS_Singleton
  <1>2. OneInviteKey
    BY DEF TmInv, TmFine, TmNamed, OneInviteKey
  <1>3. FileWhole
    BY DEF TmAlone, FileWhole
  <1> QED BY <1>1, <1>2, <1>3

-----------------------------------------------------------------------------
\* Break-glass access

BgOpens == [nr : Nat, at : Nat]

\* The file tells the opens of the last day and the latest close, and the command
\* that has loaded it holds the lock.
BgInv ==
    /\ bgNow \in 0 .. BgMaxTime /\ bgClosedAt \in Nat
    /\ bgFile \in [opens : SUBSET BgOpens, lastClose : Nat]
    /\ bgGranted \subseteq BgOpens /\ IsFiniteSet(bgGranted)
    /\ DOMAIN bgCall = BgCaller /\ bgCall = [c \in BgCaller |-> bgCall[c]]
    /\ \A g \in bgGranted : g.at <= bgNow /\ g.nr <= Cardinality(bgGranted)
    /\ bgFile.opens \subseteq bgGranted
    /\ \A g \in bgGranted : g.at + BgDay > bgNow => g \in bgFile.opens
    /\ bgFile.lastClose = bgClosedAt
    /\ bgHurried = FALSE
    /\ \A c \in BgCaller : bgCall[c].at = "loaded" => bgLock = {c} /\ bgCall[c].copy = bgFile
    /\ BgRate

LEMMA BgStart == BgInit => BgInv
  <1> SUFFICES ASSUME BgInit PROVE BgInv
    OBVIOUS
  <1>1. /\ bgNow = 0 /\ bgFile = [opens |-> {}, lastClose |-> BgNever] /\ bgGranted = {} /\ bgClosedAt = BgNever
        /\ bgHurried = FALSE /\ bgCall = [c \in BgCaller |-> BgIdle] /\ BgNever \in Nat
    BY BgAssumption DEF BgInit, BgNever
  <1>2. \A c \in BgCaller : bgCall[c].at = "idle"
    BY <1>1 DEF BgIdle
  <1>3. BgRate
    <2>1. Cardinality({}) = 0
      BY FS_EmptySet
    <2>2. ASSUME NEW t \in 0 .. BgMaxTime PROVE {g \in bgGranted : g.at <= t /\ g.at + BgDay > t} = {}
      BY <1>1
    <2> QED BY <2>1, <2>2, BgAssumption DEF BgRate
  <1>4. IsFiniteSet(bgGranted)
    BY <1>1, FS_EmptySet
  <1>5. bgFile \in [opens : SUBSET BgOpens, lastClose : Nat] /\ bgFile.opens = {} /\ bgFile.lastClose = bgClosedAt
    BY <1>1
  <1> QED BY <1>1, <1>2, <1>3, <1>4, <1>5, BgAssumption DEF BgInv

\* A command that moves on to call r, with the lock it then holds.
LEMMA BgMoves ==
    ASSUME BgInv, NEW p \in BgCaller, NEW r, BgTo(p, r), bgLock' \in {bgLock, bgLock \ {p}, {p}},
           bgLock' = {p} => bgLock \subseteq {p},
           r.at = "loaded" => bgLock' = {p} /\ r.copy = bgFile'
    PROVE  /\ DOMAIN bgCall' = BgCaller /\ bgCall' = [c \in BgCaller |-> bgCall'[c]]
           /\ bgFile' = bgFile \/ bgCall[p].at = "loaded" =>
                \A c \in BgCaller : bgCall'[c].at = "loaded" => bgLock' = {c} /\ bgCall'[c].copy = bgFile'
  <1>1. /\ bgCall' = [bgCall EXCEPT ![p] = r] /\ bgCall'[p] = r /\ \A c \in BgCaller : c # p => bgCall'[c] = bgCall[c]
        /\ DOMAIN bgCall' = BgCaller /\ bgCall' = [c \in BgCaller |-> bgCall'[c]]
    BY DEF BgInv, BgTo
  <1>2. ASSUME NEW c \in BgCaller, bgCall'[c].at = "loaded", bgFile' = bgFile \/ bgCall[p].at = "loaded"
        PROVE  bgLock' = {c} /\ bgCall'[c].copy = bgFile'
    <2>1. CASE c = p
      BY <1>1, <1>2, <2>1
    <2>2. CASE c # p
      <3>1. bgLock = {c} /\ bgCall[c].copy = bgFile /\ bgCall'[c] = bgCall[c]
        BY <1>1, <1>2, <2>2 DEF BgInv
      <3>2. bgCall[p].at # "loaded"
        BY <3>1, <2>2 DEF BgInv
      <3> QED BY <1>2, <2>2, <3>1, <3>2
    <2> QED BY <2>1, <2>2
  <1> QED BY <1>1, <1>2

\* Access is opened: the file told every open of the last day.
LEMMA BgOpensOne ==
    ASSUME BgInv, OpenAllowed(bgFile), bgGranted' = bgGranted \cup {NewOpen}, bgFile' = Opened(bgFile), bgNow' = bgNow,
           bgClosedAt' = bgClosedAt
    PROVE  /\ bgFile' \in [opens : SUBSET BgOpens, lastClose : Nat]
           /\ bgGranted' \subseteq BgOpens /\ IsFiniteSet(bgGranted')
           /\ \A g \in bgGranted' : g.at <= bgNow /\ g.nr <= Cardinality(bgGranted')
           /\ bgFile'.opens \subseteq bgGranted'
           /\ \A g \in bgGranted' : g.at + BgDay > bgNow => g \in bgFile'.opens
           /\ bgFile'.lastClose = bgClosedAt
           /\ BgRate'
  <1>1. /\ bgNow \in Nat /\ bgFile \in [opens : SUBSET BgOpens, lastClose : Nat]
        /\ bgGranted \subseteq BgOpens /\ IsFiniteSet(bgGranted) /\ Cardinality(bgGranted) \in Nat
        /\ \A g \in bgGranted : g.at <= bgNow /\ g.nr <= Cardinality(bgGranted)
        /\ bgFile.opens \subseteq bgGranted
        /\ \A g \in bgGranted : g.at + BgDay > bgNow => g \in bgFile.opens
        /\ bgFile.lastClose = bgClosedAt
    BY FS_CardinalityType, BgAssumption DEF BgInv
  <1>2. PICK n \in BgOpens : n = NewOpen /\ n.at = bgNow /\ n.nr = Cardinality(bgGranted) + 1
    <2>1. PICK k \in Nat : k = Cardinality(bgGranted) + 1
      BY <1>1
    <2>2. NewOpen = [nr |-> k, at |-> bgNow]
      BY <2>1 DEF NewOpen
    <2>3. NewOpen \in BgOpens
      BY <1>1, <2>2 DEF BgOpens
    <2>4. NewOpen.at = bgNow /\ NewOpen.nr = k
      BY <2>2
    <2> QED BY <2>1, <2>3, <2>4
  <1>3. n \notin bgGranted
    BY <1>1, <1>2 DEF BgOpens
  <1>4. IsFiniteSet(bgGranted') /\ Cardinality(bgGranted') = Cardinality(bgGranted) + 1
    BY <1>1, <1>2, <1>3, FS_AddElement
  <1> DEFINE R == Recent(bgFile.opens, bgNow)
  <1>5. R \subseteq bgFile.opens /\ R \subseteq bgGranted /\ \A g \in bgGranted : g.at + BgDay > bgNow => g \in R
    BY <1>1 DEF Recent
  <1>6. bgFile' \in [opens : SUBSET BgOpens, lastClose : Nat] /\ bgFile'.opens = R \cup {n} /\ bgFile'.lastClose = bgFile.lastClose
    <2>1. PICK o \in SUBSET BgOpens : o = R \cup {n}
      BY <1>1, <1>2, <1>5
    <2>2. bgFile' = [bgFile EXCEPT !.opens = o]
      BY <1>2, <2>1 DEF Opened
    <2> QED BY <1>1, <2>1, <2>2
  <1>7. IsFiniteSet(R) /\ Cardinality(R) \in Nat /\ Cardinality(R) < BgLimit
    BY <1>1, <1>5, FS_Subset, FS_CardinalityType DEF OpenAllowed
  <1>8. IsFiniteSet(R \cup {n}) /\ Cardinality(R \cup {n}) <= BgLimit
    <2>1. IsFiniteSet(R \cup {n}) /\ Cardinality(R \cup {n}) = Cardinality(R) + 1
      BY <1>3, <1>5, <1>7, FS_AddElement
    <2> QED BY <1>7, <2>1, BgAssumption
  <1>9. ASSUME NEW t \in 0 .. BgMaxTime
        PROVE  Cardinality({g \in bgGranted' : g.at <= t /\ g.at + BgDay > t}) <= BgLimit
    <2> DEFINE W == {g \in bgGranted' : g.at <= t /\ g.at + BgDay > t}
    <2>1. CASE t < bgNow
      <3>1. W = {g \in bgGranted : g.at <= t /\ g.at + BgDay > t}
        BY <1>1, <1>2, <2>1
      <3> QED BY <3>1 DEF BgInv, BgRate
    <2>2. CASE t >= bgNow
      <3>1. W \subseteq R \cup {n}
        <4> SUFFICES ASSUME NEW g \in W, g # n PROVE g \in R
          OBVIOUS
        <4>1. g \in bgGranted /\ g.at \in Nat /\ g.at + BgDay > t
          BY <1>1, <1>2 DEF BgOpens
        <4>2. g.at + BgDay > bgNow
          BY <1>1, <2>2, <4>1, BgAssumption
        <4> QED BY <1>5, <4>1, <4>2
      <3>2. Cardinality(W) <= Cardinality(R \cup {n}) /\ IsFiniteSet(W)
        BY <1>8, <3>1, FS_Subset
      <3>3. Cardinality(W) \in Nat /\ Cardinality(R \cup {n}) \in Nat
        BY <1>8, <3>2, FS_CardinalityType
      <3> QED BY <1>8, <3>2, <3>3, BgAssumption
    <2> QED BY <1>1, <2>1, <2>2
  <1>10. \A g \in bgGranted' : g.at <= bgNow /\ g.nr <= Cardinality(bgGranted')
    BY <1>1, <1>2, <1>4 DEF BgOpens
  <1>11. \A g \in bgGranted' : g.at + BgDay > bgNow => g \in bgFile'.opens
    BY <1>2, <1>5, <1>6
  <1> QED BY <1>1, <1>2, <1>4, <1>5, <1>6, <1>9, <1>10, <1>11 DEF BgRate

LEMMA BgStep == BgInv /\ [BgNext]_bgVars => BgInv'
  <1> SUFFICES ASSUME BgInv, [BgNext]_bgVars PROVE BgInv'
    OBVIOUS
  <1>1. CASE BgTick
    <2>1. /\ bgNow < BgMaxTime /\ bgNow' = bgNow + 1 /\ bgFile' = bgFile /\ bgLock' = bgLock /\ bgCall' = bgCall
          /\ bgGranted' = bgGranted /\ bgClosedAt' = bgClosedAt /\ bgHurried' = bgHurried
      BY <1>1 DEF BgTick
    <2>2. bgNow' \in 0 .. BgMaxTime
      BY <2>1, BgAssumption DEF BgInv
    <2>3. \A g \in bgGranted : g.at <= bgNow' /\ (g.at + BgDay > bgNow' => g.at + BgDay > bgNow)
      BY <2>1, BgAssumption DEF BgInv, BgOpens
    <2>4. BgRate'
      BY <2>1 DEF BgInv, BgRate
    <2> QED BY <2>1, <2>2, <2>3, <2>4 DEF BgInv
  <1>2. ASSUME NEW p \in BgCaller, BgBegin(p) PROVE BgInv'
    <2>1. PICK what \in {"open", "close", "check"} : BgTo(p, [at |-> what])
      BY <1>2 DEF BgBegin
    <2>2. PICK r : r = [at |-> what] /\ r.at # "loaded"
      <3>1. [at |-> what].at = what /\ what # "loaded"
        OBVIOUS
      <3> QED BY <3>1
    <2>3. UNCHANGED <<bgNow, bgFile, bgLock, bgGranted, bgClosedAt, bgHurried>>
      BY <1>2 DEF BgBegin
    <2>4. /\ DOMAIN bgCall' = BgCaller /\ bgCall' = [c \in BgCaller |-> bgCall'[c]]
          /\ \A c \in BgCaller : bgCall'[c].at = "loaded" => bgLock' = {c} /\ bgCall'[c].copy = bgFile'
      <3>1. bgLock' \in {bgLock, bgLock \ {p}, {p}} /\ BgTo(p, r)
        BY <2>1, <2>2, <2>3
      <3>2. ASSUME bgCall[p].at # "idle" PROVE FALSE
        BY <1>2, <3>2 DEF BgBegin
      <3>3. bgLock' = {p} => bgLock \subseteq {p}
        BY <2>3
      <3> QED BY <2>2, <2>3, <3>1, <3>3, BgMoves
    <2> QED BY <2>3, <2>4 DEF BgInv, BgRate
  <1>3. ASSUME NEW p \in BgCaller, BgLoad(p) PROVE BgInv'
    <2>0. PICK r : r = [at |-> "loaded", what |-> bgCall[p].at, copy |-> bgFile]
      OBVIOUS
    <2>1. r.at = "loaded" /\ r.copy = bgFile
      BY <2>0
    <2>2. bgLock = {} /\ bgLock' = {p} /\ BgTo(p, r) /\ UNCHANGED <<bgNow, bgFile, bgGranted, bgClosedAt, bgHurried>>
      BY <1>3, <2>0 DEF BgLoad, FlockAcquire
    <2>3. /\ DOMAIN bgCall' = BgCaller /\ bgCall' = [c \in BgCaller |-> bgCall'[c]]
          /\ \A c \in BgCaller : bgCall'[c].at = "loaded" => bgLock' = {c} /\ bgCall'[c].copy = bgFile'
      BY <2>1, <2>2, BgMoves
    <2> QED BY <2>2, <2>3 DEF BgInv, BgRate
  <1>4. ASSUME NEW p \in BgCaller, bgLock' = bgLock \ {p}, BgTo(p, BgIdle), bgFile' = bgFile \/ bgCall[p].at = "loaded"
        PROVE  /\ DOMAIN bgCall' = BgCaller /\ bgCall' = [c \in BgCaller |-> bgCall'[c]]
               /\ \A c \in BgCaller : bgCall'[c].at = "loaded" => bgLock' = {c} /\ bgCall'[c].copy = bgFile'
    <2>0. BgIdle.at = "idle"
      BY DEF BgIdle
    <2>1. PICK r : r = BgIdle /\ r.at = "idle"
      BY <2>0
    <2>2. bgLock' # {p} /\ BgTo(p, r)
      BY <1>4, <2>1
    <2> QED BY <1>4, <2>1, <2>2, BgMoves
  <1>5. ASSUME NEW p \in BgCaller, BgStore(p) PROVE BgInv'
    <2>1. bgCall[p].at = "loaded" /\ bgNow' = bgNow /\ bgLock' = bgLock \ {p} /\ BgTo(p, BgIdle)
      BY <1>5 DEF BgStore
    <2>2. bgCall[p].copy = bgFile
      BY <2>1 DEF BgInv
    <2>3. /\ DOMAIN bgCall' = BgCaller /\ bgCall' = [c \in BgCaller |-> bgCall'[c]]
          /\ \A c \in BgCaller : bgCall'[c].at = "loaded" => bgLock' = {c} /\ bgCall'[c].copy = bgFile'
      BY <1>4, <2>1
    <2>4. \/ /\ OpenAllowed(bgFile) /\ bgFile' = Opened(bgFile) /\ bgGranted' = bgGranted \cup {NewOpen}
             /\ bgHurried' = (bgHurried \/ (bgClosedAt # BgNever /\ bgNow - bgClosedAt < 1))
             /\ bgClosedAt' = bgClosedAt
          \/ bgFile' = Closed(bgFile) /\ bgClosedAt' = bgNow /\ bgGranted' = bgGranted /\ bgHurried' = bgHurried
          \/ bgFile' = bgFile /\ bgGranted' = bgGranted /\ bgClosedAt' = bgClosedAt /\ bgHurried' = bgHurried
      BY <1>5, <2>1, <2>2 DEF BgStore
    <2>5. CASE /\ OpenAllowed(bgFile) /\ bgFile' = Opened(bgFile) /\ bgGranted' = bgGranted \cup {NewOpen}
               /\ bgHurried' = (bgHurried \/ (bgClosedAt # BgNever /\ bgNow - bgClosedAt < 1))
               /\ bgClosedAt' = bgClosedAt
      <3>1. ~(bgClosedAt # BgNever /\ bgNow - bgClosedAt < 1)
        <4>1. bgFile.lastClose = bgClosedAt /\ bgClosedAt \in Nat /\ bgNow \in Nat
          BY DEF BgInv
        <4>2. bgFile.lastClose # BgNever => bgNow - bgFile.lastClose >= 1
          BY <2>5 DEF OpenAllowed
        <4> QED BY <4>1, <4>2
      <3>2. bgHurried' = FALSE
        BY <2>5, <3>1 DEF BgInv
      <3>3. /\ bgFile' \in [opens : SUBSET BgOpens, lastClose : Nat]
            /\ bgGranted' \subseteq BgOpens /\ IsFiniteSet(bgGranted')
            /\ \A g \in bgGranted' : g.at <= bgNow /\ g.nr <= Cardinality(bgGranted')
            /\ bgFile'.opens \subseteq bgGranted'
            /\ \A g \in bgGranted' : g.at + BgDay > bgNow => g \in bgFile'.opens
            /\ bgFile'.lastClose = bgClosedAt
            /\ BgRate'
        BY <2>1, <2>5, BgOpensOne
      <3> QED BY <2>1, <2>3, <2>5, <3>2, <3>3 DEF BgInv
    <2>6. CASE bgFile' = Closed(bgFile) /\ bgClosedAt' = bgNow /\ bgGranted' = bgGranted /\ bgHurried' = bgHurried
      <3>1. bgNow \in Nat /\ bgFile \in [opens : SUBSET BgOpens, lastClose : Nat]
        BY DEF BgInv
      <3>2. bgFile' \in [opens : SUBSET BgOpens, lastClose : Nat] /\ bgFile'.opens = bgFile.opens /\ bgFile'.lastClose = bgNow
        BY <2>6, <3>1 DEF Closed
      <3>3. BgRate'
        BY <2>6 DEF BgInv, BgRate
      <3> QED BY <2>1, <2>3, <2>6, <3>1, <3>2, <3>3 DEF BgInv
    <2>7. CASE bgFile' = bgFile /\ bgGranted' = bgGranted /\ bgClosedAt' = bgClosedAt /\ bgHurried' = bgHurried
      BY <2>1, <2>3, <2>7 DEF BgInv, BgRate
    <2> QED BY <2>4, <2>5, <2>6, <2>7
  <1>6. ASSUME NEW p \in BgCaller, BgKilled(p) PROVE BgInv'
    <2>1. /\ bgLock' = bgLock \ {p} /\ BgTo(p, BgIdle) /\ bgNow' = bgNow /\ bgFile' = bgFile /\ bgGranted' = bgGranted
          /\ bgClosedAt' = bgClosedAt /\ bgHurried' = bgHurried
      BY <1>6 DEF BgKilled
    <2>2. /\ DOMAIN bgCall' = BgCaller /\ bgCall' = [c \in BgCaller |-> bgCall'[c]]
          /\ \A c \in BgCaller : bgCall'[c].at = "loaded" => bgLock' = {c} /\ bgCall'[c].copy = bgFile'
      BY <1>4, <2>1
    <2> QED BY <2>1, <2>2 DEF BgInv, BgRate
  <1>7. CASE UNCHANGED bgVars
    BY <1>7 DEF bgVars, BgInv, BgRate
  <1> QED BY <1>1, <1>2, <1>3, <1>5, <1>6, <1>7 DEF BgNext

\* For any members, callers and processes, copies of the team that were loaded long
\* ago and writes that fail or share their temporary file included: one owner and one
\* invite key, a whole team file while no two writes have overlapped, and no more
\* break-glass access than the limits allow (internal/team, internal/team/breakglass).
THEOREM TeamFilesHold == (TmInit /\ [][TmNext]_tmVars) /\ (BgInit /\ [][BgNext]_bgVars) => []TeamHolds
  <1>1. BgInv => BgRate /\ BgCooling
    BY DEF BgInv, BgCooling
  <1>2. TmInv /\ TmAlone /\ BgInv => TeamHolds
    BY <1>1, TmPromises DEF TeamHolds
  <1> QED BY <1>2, TmStart, TmStep, TmAloneStep, BgStart, BgStep, PTL

-----------------------------------------------------------------------------
\* Roots of trust

\* How often root i is among the roots s.
TrHeld(s, i) == Cardinality({n \in DOMAIN s : s[n] = i})

\* Resolve has one root at most, the one it looks at, and what was wrapped is under the
\* key of the root that wrapped it; an unwrapping that failed had another key, or none.
TrInv ==
    /\ trRoots \in Seq(DOMAIN TrChain) /\ trOpen \in [DOMAIN TrChain -> Nat]
    /\ trWrapped # <<>> => trWrapped.key = trWrapped.root /\ trWrapped.data = "dek" /\ trWrapped.root \in TrEd
    /\ trRead.got = "failed" => trWrapped # <<>>
    /\ \A i \in DOMAIN TrChain : trOpen[i] = TrHeld(trRoots, i)
    /\ UnwrapFindsKey

LEMMA TrHeldNone == \A i : TrHeld(<<>>, i) = 0
  <1> SUFFICES ASSUME NEW i PROVE TrHeld(<<>>, i) = 0
    OBVIOUS
  <1>1. {n \in DOMAIN <<>> : <<>>[n] = i} = {}
    OBVIOUS
  <1> QED BY <1>1, FS_EmptySet DEF TrHeld

LEMMA TrHeldMore ==
    ASSUME NEW S, NEW s \in Seq(S), NEW j \in S, NEW i \in S
    PROVE  /\ TrHeld(s, i) \in Nat
           /\ TrHeld(Append(s, j), i) = IF i = j THEN TrHeld(s, i) + 1 ELSE TrHeld(s, i)
  <1> DEFINE A == {n \in DOMAIN s : s[n] = i}
             B == {n \in DOMAIN Append(s, j) : Append(s, j)[n] = i}
  <1>1. Len(s) \in Nat /\ DOMAIN s = 1 .. Len(s) /\ DOMAIN Append(s, j) = 1 .. Len(s) + 1
        /\ Append(s, j)[Len(s) + 1] = j /\ \A n \in 1 .. Len(s) : Append(s, j)[n] = s[n]
    OBVIOUS
  <1>2. IsFiniteSet(1 .. Len(s))
    BY <1>1, FS_Interval
  <1>3. IsFiniteSet(A) /\ Cardinality(A) \in Nat
    BY <1>1, <1>2, FS_Subset, FS_CardinalityType
  <1>4. CASE i = j
    <2>1. B = A \cup {Len(s) + 1} /\ Len(s) + 1 \notin A
      BY <1>1, <1>4
    <2> QED BY <1>3, <1>4, <2>1, FS_AddElement DEF TrHeld
  <1>5. CASE i # j
    <2>1. B = A
      BY <1>1, <1>5
    <2> QED BY <1>3, <1>5, <2>1 DEF TrHeld
  <1> QED BY <1>4, <1>5

LEMMA TrHeldCloses ==
    ASSUME TrInv
    PROVE  TrClosed(trOpen, trRoots) = [i \in DOMAIN TrChain |-> 0]
  <1>1. \A i \in DOMAIN TrChain : trOpen[i] \in Nat /\ trOpen[i] = Cardinality({n \in DOMAIN trRoots : trRoots[n] = i})
    BY DEF TrInv, TrHeld
  <1>2. \A i \in DOMAIN TrChain : trOpen[i] - Cardinality({n \in DOMAIN trRoots : trRoots[n] = i}) = 0
    BY <1>1
  <1> QED BY <1>2 DEF TrClosed

\* A root that is opened is one that is held.
LEMMA TrOpens ==
    ASSUME TrInv, NEW i \in DOMAIN TrChain, Collected(i)
    PROVE  /\ trRoots' \in Seq(DOMAIN TrChain) /\ trOpen' \in [DOMAIN TrChain -> Nat]
           /\ \A j \in DOMAIN TrChain : trOpen'[j] = TrHeld(trRoots', j)
  <1>1. trRoots \in Seq(DOMAIN TrChain) /\ trOpen \in [DOMAIN TrChain -> Nat]
    BY DEF TrInv
  <1>2. trRoots' \in Seq(DOMAIN TrChain) /\ trOpen' \in [DOMAIN TrChain -> Nat]
    BY <1>1 DEF Collected
  <1>3. ASSUME NEW j \in DOMAIN TrChain PROVE trOpen'[j] = TrHeld(trRoots', j)
    <2>1. TrHeld(trRoots', j) = IF j = i THEN TrHeld(trRoots, j) + 1 ELSE TrHeld(trRoots, j)
      BY <1>1, TrHeldMore DEF Collected
    <2>2. trOpen[j] = TrHeld(trRoots, j) /\ trOpen'[j] = IF j = i THEN trOpen[j] + 1 ELSE trOpen[j]
      BY <1>1 DEF TrInv, Collected
    <2> QED BY <2>1, <2>2
  <1> QED BY <1>2, <1>3

\* Roots that are closed are held no longer.
LEMMA TrCloses ==
    ASSUME TrInv, AllClosed
    PROVE  /\ trRoots' \in Seq(DOMAIN TrChain) /\ trOpen' \in [DOMAIN TrChain -> Nat]
           /\ \A j \in DOMAIN TrChain : trOpen'[j] = TrHeld(trRoots', j)
  <1>1. trRoots' = <<>> /\ trOpen' = [i \in DOMAIN TrChain |-> 0]
    BY TrHeldCloses DEF AllClosed
  <1>2. trOpen' \in [DOMAIN TrChain -> Nat] /\ \A i \in DOMAIN TrChain : trOpen'[i] = 0
    BY <1>1
  <1> QED BY <1>1, <1>2, TrHeldNone

\* The steps that resolve roots and give them back.
LEMMA TrResolves ==
    ASSUME TrInv, \/ \E op : StartResolve(op)
                  \/ ResolveStep \/ ResolveCheck \/ ResolveAllStep \/ AllFound \/ Exhausted \/ CallerCloses
    PROVE  TrInv'
  <1>1. trWrapped' = trWrapped /\ trRead' = trRead
    BY DEF StartResolve, ResolveStep, ResolveCheck, ResolveAllStep, AllFound, Exhausted, CallerCloses, trUsing
  <1>2. \/ trRoots' = trRoots /\ trOpen' = trOpen
        \/ \E i \in DOMAIN TrChain : Collected(i)
        \/ AllClosed
    BY DEF StartResolve, ResolveStep, ResolveCheck, ResolveAllStep, AllFound, Exhausted, CallerCloses, Stepped
  <1>3. /\ trRoots' \in Seq(DOMAIN TrChain) /\ trOpen' \in [DOMAIN TrChain -> Nat]
        /\ \A j \in DOMAIN TrChain : trOpen'[j] = TrHeld(trRoots', j)
    <2>1. CASE trRoots' = trRoots /\ trOpen' = trOpen
      BY <2>1 DEF TrInv
    <2> QED BY <1>2, <2>1, TrOpens, TrCloses
  <1> QED BY <1>1, <1>3 DEF TrInv, UnwrapFindsKey

LEMMA TrUnwraps == ASSUME TrInv, NEW n, Unwrap(n) PROVE TrInv'
  <1>1. UNCHANGED trResolving /\ trWrapped' = trWrapped /\ trWrapped # <<>>
    BY DEF Unwrap
  <1>2. trWrapped.key = trWrapped.root /\ trWrapped.data = "dek" /\ trWrapped.root \in TrEd
    BY <1>1 DEF TrInv
  <1>3. PICK refused \in BOOLEAN :
           trRead' = [got |-> IF trPicked[n] \in TrEd /\ deriveWrapKey(n, refused) = trWrapped.key
                              THEN trWrapped.data ELSE "failed",
                      by |-> trPicked[n], agent |-> trAgent, refused |-> refused]
    BY DEF Unwrap
  <1>4. trRead'.by = trPicked[n] /\ trRead'.agent = trAgent /\ trRead'.refused = refused
    BY <1>3
  <1>5. trPicked[n] \in TrEd /\ deriveWrapKey(n, refused) = trWrapped.key => trRead'.got = "dek"
    BY <1>2, <1>3
  <1>6. trPicked[n] = trWrapped.root /\ trPicked[n] \in Range(trAgent) /\ ~refused
           => trPicked[n] \in TrEd /\ deriveWrapKey(n, refused) = trWrapped.key
    BY <1>2 DEF deriveWrapKey, SignKey
  <1>7. trRead'.got = "failed" => trRead'.by # trWrapped.root \/ trRead'.by \notin Range(trRead'.agent) \/ trRead'.refused
    BY <1>4, <1>5, <1>6
  <1> QED BY <1>1, <1>7 DEF TrInv, UnwrapFindsKey, trResolving

LEMMA TrNextInv == TrInv /\ [TrNext]_trVars => TrInv'
  <1> SUFFICES ASSUME TrInv, [TrNext]_trVars PROVE TrInv'
    OBVIOUS
  <1>1. ASSUME NEW n, Wrap(n, "dek") PROVE TrInv'
    <2>1. PICK refused \in BOOLEAN :
             /\ deriveWrapKey(n, refused) # "none"
             /\ trWrapped' = [key |-> deriveWrapKey(n, refused), data |-> "dek", root |-> trPicked[n]]
      BY <1>1 DEF Wrap
    <2>2. UNCHANGED trResolving /\ trRead' = trRead /\ trWrapped = <<>> /\ trPicked[n] \in TrEd
      BY <1>1 DEF Wrap
    <2>3. deriveWrapKey(n, refused) = trPicked[n]
      BY <2>1 DEF deriveWrapKey, SignKey
    <2>4. trWrapped'.key = trWrapped'.root /\ trWrapped'.data = "dek" /\ trWrapped'.root \in TrEd
      BY <2>1, <2>2, <2>3
    <2>5. trRead.got # "failed"
      BY <2>2 DEF TrInv
    <2> QED BY <2>2, <2>4, <2>5 DEF TrInv, UnwrapFindsKey, trResolving
  <1>2. ASSUME NEW ks, AgentChanges(ks) PROVE TrInv'
    BY <1>2 DEF AgentChanges, TrInv, UnwrapFindsKey, trResolving
  <1>3. CASE UNCHANGED trVars
    BY <1>3 DEF trVars, TrInv, UnwrapFindsKey
  <1> QED BY <1>1, <1>2, <1>3, TrResolves, TrUnwraps DEF TrNext

\* For any chain of roots, operations and agent keys that come and go: the open
\* roots are the ones the caller or the resolution holds, and a wrapped key comes
\* back through a root of the same key while the agent holds that key and signs
\* (internal/trust).
THEOREM TrustRootsHold == TrInit /\ [][TrNext]_trVars => []TrustHolds
  <1>1. TrInit => TrInv
    <2> SUFFICES ASSUME TrInit PROVE TrInv
      OBVIOUS
    <2>1. /\ trRoots = <<>> /\ trOp = <<>> /\ trWrapped = <<>> /\ trOpen = [i \in DOMAIN TrChain |-> 0]
          /\ trRead.got = "none"
      BY DEF TrInit
    <2>2. trOpen \in [DOMAIN TrChain -> Nat] /\ \A i \in DOMAIN TrChain : trOpen[i] = 0
      BY <2>1
    <2> QED BY <2>1, <2>2, TrHeldNone DEF TrInv, UnwrapFindsKey
  <1>2. TrInv => TrustHolds
    BY DEF TrInv, TrHeld, NoRootLeaked, TrustHolds
  <1> QED BY <1>1, <1>2, TrNextInv, PTL

=============================================================================
