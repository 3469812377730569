--------------------------- MODULE SignedBundles ---------------------------
(***************************************************************************)
(* The two kinds of signed bundles a team installs: the organisation's      *)
(* policy and the internal provider registry.  They share no state.         *)
(***************************************************************************)
EXTENDS Naturals, FiniteSets

(***************************************************************************)
(* The organisation's signed policy bundle (internal/team/orgpolicy): the      *)
(* first install pins the issuer's key, one file holds the active bundle and  *)
(* every process caches it.  Installs run in several processes without a      *)
(* lock.                                                                      *)
(***************************************************************************)

CONSTANTS SbBundle,   \* policy bundles on offer: [ver, exp, key, deny, ask]
          SbCapability,
          SbProc,     \* processes
          SbMaxTime   \* bound on the clock

ASSUME SbAssumption == SbMaxTime \in Nat /\ \A b \in SbBundle : b.ver \in Nat /\ b.exp \in Nat

VARIABLES sbNow,     \* the clock
          sbPin,     \* trusted-key.pub of the policy: {} or {key}
          sbActive,  \* active.json: {} or {bundle}
          sbCache,   \* process -> activeBundle: {} or {bundle}
          sbInstall, \* process -> the install in progress
          sbSaid     \* the latest decision: about what, when and from which bundle

sbVars == <<sbNow, sbPin, sbActive, sbCache, sbInstall, sbSaid>>

SbIdle    == [at |-> "idle"]
SbNothing == [made |-> FALSE]

SbInit == /\ sbNow = 0 /\ sbPin = {} /\ sbActive = {}
          /\ sbCache = [p \in SbProc |-> {}] /\ sbInstall = [p \in SbProc |-> SbIdle]
          /\ sbSaid = SbNothing

SbTo(p, step) == sbInstall' = [sbInstall EXCEPT ![p] = step]
-----------------------------------------------------------------------------
(***************************************************************************)
(* Active: the cached bundle until it expires, else the file's if the pinned  *)
(* key signed it.  An expired bundle counts as none; a file that cannot be    *)
(* trusted is an error.                                                      *)
(***************************************************************************)
Expired(b) == sbNow > b.exp

\* The cache after a call of Active in process p; what the call returns.
Refreshed(p) ==
    IF sbCache[p] # {} THEN {b \in sbCache[p] : ~Expired(b)}
    ELSE {b \in sbActive : b.key \in sbPin /\ ~Expired(b)}
ActiveErr(p) == sbCache[p] = {} /\ \E b \in sbActive : b.key \notin sbPin

ActiveStale(p) == IF sbCache[p] # {} THEN sbCache[p] ELSE {b \in sbActive : b.key \in sbPin /\ ~Expired(b)}
Active(p) == Refreshed(p)

\* Compose: the organisation's denials first, then its approvals, over the local
\* decision; without a bundle the local decision stands.
Compose(B, local, c) ==
    IF \E b \in B : c \in b.deny THEN [allow |-> FALSE, ask |-> FALSE]
    ELSE [local EXCEPT !.ask = @ \/ \E b \in B : c \in b.ask]

\* A process judges a capability (team simulate): an untrusted file stops it.
Decide(p) ==
    /\ ~ActiveErr(p) /\ sbInstall[p].at = "idle"
    /\ \E c \in SbCapability, allow, ask \in BOOLEAN :
         LET local == [allow |-> allow, ask |-> ask]
         IN  sbSaid' = [made |-> TRUE, cap |-> c, local |-> local, at |-> sbNow, used |-> Active(p),
                        result |-> Compose(Active(p), local, c)]
    /\ sbCache' = [sbCache EXCEPT ![p] = Active(p)]
    /\ UNCHANGED <<sbNow, sbPin, sbActive, sbInstall>>
-----------------------------------------------------------------------------
\* Install: the key given must be the pinned one if there is one, must have signed
\* the bundle, and the version must be above the active one's, if there is one.
InstallBegin(p, b) ==
    /\ sbInstall[p].at = "idle"
    /\ sbPin \subseteq {b.key} /\ ~Expired(b)
    /\ \A a \in Active(p) : b.ver > a.ver
    /\ SbTo(p, [at |-> "pin", bundle |-> b, pinned |-> sbPin # {}])
    /\ sbCache' = [sbCache EXCEPT ![p] = Active(p)]
    /\ UNCHANGED <<sbNow, sbPin, sbActive>> /\ sbSaid' = SbNothing

InstallPin(p) ==
    /\ sbInstall[p].at = "pin"
    /\ sbPin' = IF sbInstall[p].pinned THEN sbPin ELSE {sbInstall[p].bundle.key}
    /\ SbTo(p, [sbInstall[p] EXCEPT !.at = "write"])
    /\ UNCHANGED <<sbNow, sbActive, sbCache>> /\ sbSaid' = SbNothing

InstallWrite(p) ==
    /\ sbInstall[p].at = "write"
    /\ sbActive' = {sbInstall[p].bundle} /\ sbCache' = [sbCache EXCEPT ![p] = {sbInstall[p].bundle}]
    /\ SbTo(p, SbIdle)
    /\ UNCHANGED <<sbNow, sbPin>> /\ sbSaid' = SbNothing

\* The process ends, in the middle of an install or not; a new one takes its place.
SbRestart(p) ==
    /\ sbCache' = [sbCache EXCEPT ![p] = {}] /\ SbTo(p, SbIdle)
    /\ UNCHANGED <<sbNow, sbPin, sbActive>> /\ sbSaid' = SbNothing
-----------------------------------------------------------------------------
SbTick == /\ sbNow < SbMaxTime /\ sbNow' = sbNow + 1
          /\ UNCHANGED <<sbPin, sbActive, sbCache, sbInstall>> /\ sbSaid' = SbNothing

SbNext == \/ SbTick
          \/ \E p \in SbProc : \/ Decide(p) \/ InstallPin(p) \/ InstallWrite(p) \/ SbRestart(p)
                               \/ \E b \in SbBundle : InstallBegin(p, b)
-----------------------------------------------------------------------------
\* No decision rests on a bundle that had expired when it was made, cached or not.
DecisionNotStale == sbSaid.made => \A b \in sbSaid.used : sbSaid.at <= b.exp

\* The organisation's bundle only narrows: a decision allows nothing that the
\* bundle in force denies or the local policy denies, and drops no approval.
OrgOnlyNarrows ==
    sbSaid.made /\ sbSaid.result.allow =>
        /\ sbSaid.local.allow /\ sbSaid.local.ask => sbSaid.result.ask
        /\ sbSaid.local.allow /\ \A b \in sbSaid.used : sbSaid.cap \notin b.deny

-----------------------------------------------------------------------------
(***************************************************************************)
(* The team's internal provider registry (internal/team/registry): signed     *)
(* bundles, one file per version, the highest version counts.  The first      *)
(* install pins the issuer's key; installs run in several processes without   *)
(* a lock.                                                                    *)
(***************************************************************************)

CONSTANTS RgBundle,  \* bundles on offer: [ver, key]
          RgProc     \* processes

ASSUME RgAssumption == \A r \in RgBundle : r.ver \in Nat

VARIABLES rgPin,     \* trusted-key.pub: {} or {key}
          rgFiles,   \* the <version>.json files
          rgInstall, \* process -> the install in progress
          rgListed   \* the versions List has returned, highest and latest

rgVars == <<rgPin, rgFiles, rgInstall, rgListed>>

RgIdle == [at |-> "idle"]
RgInit == /\ rgPin = {} /\ rgFiles = {} /\ rgInstall = [p \in RgProc |-> RgIdle]
          /\ rgListed = [high |-> 0, last |-> 0]

RgTo(p, step) == rgInstall' = [rgInstall EXCEPT ![p] = step]
-----------------------------------------------------------------------------
LatestVersion(F) == CHOOSE r \in F : \A o \in F : o.ver <= r.ver

RegistryInstallBegin(p, r) ==
    /\ rgInstall[p].at = "idle"
    /\ rgPin \subseteq {r.key}
    /\ rgFiles # {} => r.ver > LatestVersion(rgFiles).ver
    /\ RgTo(p, [at |-> "pin", bundle |-> r, pinned |-> rgPin # {}])
    /\ UNCHANGED <<rgPin, rgFiles, rgListed>>

RegistryInstallPin(p) ==
    /\ rgInstall[p].at = "pin"
    /\ rgPin' = IF rgInstall[p].pinned THEN rgPin ELSE {rgInstall[p].bundle.key}
    /\ RgTo(p, [rgInstall[p] EXCEPT !.at = "write"])
    /\ UNCHANGED <<rgFiles, rgListed>>

RegistryInstallWrite(p) ==
    LET r == rgInstall[p].bundle
    IN  /\ rgInstall[p].at = "write"
        /\ rgFiles' = {o \in rgFiles : o.ver # r.ver} \cup {r}
        /\ RgTo(p, RgIdle)
        /\ UNCHANGED <<rgPin, rgListed>>

\* List serves the highest version if the pinned key signed it, and fails otherwise.
List ==
    /\ rgFiles # {} /\ LatestVersion(rgFiles).key \in rgPin
    /\ LET v == LatestVersion(rgFiles).ver
       IN  rgListed' = [high |-> IF v > rgListed.high THEN v ELSE rgListed.high, last |-> v]
    /\ UNCHANGED <<rgInstall, rgPin, rgFiles>>

\* The process is killed; what it has written stays.
RgKilled(p) == /\ rgInstall[p].at # "idle" /\ RgTo(p, RgIdle)
               /\ UNCHANGED <<rgPin, rgFiles, rgListed>>

RgNext == \/ List
          \/ \E p \in RgProc : \/ RegistryInstallPin(p) \/ RegistryInstallWrite(p) \/ RgKilled(p)
                               \/ \E r \in RgBundle : RegistryInstallBegin(p, r)
-----------------------------------------------------------------------------
\* The registry never serves an older bundle after a newer one, whichever installs
\* overlap, fail half way or race for the first key.
RegistryNeverBack == rgListed.last = rgListed.high

\* Signed bundles installed by several processes and cached in each: decisions
\* rest on bundles that are valid, narrow what is allowed, and the registry
\* never falls back.
BundlesHold == DecisionNotStale /\ OrgOnlyNarrows /\ RegistryNeverBack
=============================================================================
