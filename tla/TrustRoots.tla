----------------------------- MODULE TrustRoots -----------------------------
(***************************************************************************)
(* Roots of trust (internal/trust): the ordered chain of configured roots, the *)
(* choice of one or of several of them for an operation, the adapters, and the *)
(* wrapping of a key with a key of the SSH agent, whose contents change.       *)
(***************************************************************************)
EXTENDS Naturals, FiniteSets, Sequences, SequencesExt

CONSTANTS TrChain,   \* the configured roots in order: [id, type, status, ok, fingerprint, auth]
          TrOps,     \* operations: [cap, llm, interactive, types, all]
          TrKey,     \* keys an SSH agent may hold
          TrEd,      \* those among them that are of type Ed25519
          TrMaxOps,  \* bound on operations
          TrMaxAgent \* bound on changes of the agent

\* ok says whether what lies outside the program permits the root: a reachable
\* card daemon, an allowlisted module file, a vault address.  fingerprint is the key
\* an SSH root names, "" if it names none; auth is how a vault root signs in.
ASSUME TrAssumption ==
    /\ TrChain \in Seq([id : STRING, type : STRING, status : STRING, ok : BOOLEAN,
                        fingerprint : STRING, auth : STRING])
    /\ TrEd \subseteq TrKey
    /\ TrMaxOps \in Nat /\ TrMaxAgent \in Nat

VARIABLES trOp,     \* the operation that is resolved, <<>> when there is none
          trAt,     \* the next root of the chain to look at
          trNeed,   \* required ids not yet found
          trOpen,   \* roots that are open, with how often
          trRoots,  \* roots collected for the caller
          trPicked, \* for each of them the key it stands for, "none" if it is no SSH root
          trResult, \* "none", "ok" or "exhausted"
          trAgent,  \* the keys of the agent, in its order; <<>> also when it is unreachable
          trWrapped,\* what was wrapped, with which key, by the root of which key; or <<>>
          trRead,   \* the last unwrapping: what it gave, by the root of which key, with which agent
          trCount   \* operations and agent changes so far

trVars == <<trOp, trAt, trNeed, trOpen, trRoots, trPicked, trResult, trAgent, trWrapped, trRead, trCount>>
trResolving == <<trOp, trAt, trNeed, trOpen, trRoots, trPicked, trResult>>
trUsing == <<trAgent, trWrapped, trRead>>

NoCap == "none"
PresenceTypes == {"secure_enclave", "fido2", "gpg_card"}
requiresPresence(t) == t \in PresenceTypes
knownNonLaunchdSafe(t) == t \in PresenceTypes

\* What a type is presumed to be able to do before it is opened; the open root is
\* not asked again, so a card that cannot wrap is chosen for wrapping.
typeHasCapability(t, c) ==
    CASE c = "sign_challenge" -> t \notin {"passphrase", "encrypted_file", "bw", "op"}
      [] c = "user_presence"  -> t \in PresenceTypes
      [] c = "hardware_bound" -> t \in {"secure_enclave", "fido2", "pkcs11"}
      [] OTHER -> TRUE

\* Has(CapLaunchdSafe) of an open root: an SSH root has a socket, and a vault root
\* configured in the chain is given no client certificate.
LaunchdSafe(i) == \/ TrChain[i].type = "ssh_agent"
                  \/ TrChain[i].type = "vault_transit" /\ TrChain[i].auth \in {"approle", "k8s"}

\* The New of each adapter. The SSH agent must answer and hold a key, the one the
\* root names if it names one; a FIDO2 root is built without looking for a device;
\* no build has a secure enclave.
SshNew(i) == trAgent # <<>> /\ TrChain[i].fingerprint \in Range(trAgent) \cup {""}
FidoNew(i) == TRUE
EnclaveNew(i) == FALSE

\* The module must be on the allowlist; through the registry no signing function is
\* given, so only the built-in entries count, and they pin no hash.
PkcsNew(i) == TrChain[i].ok

\* gpgconf names the socket of the card daemon, and the daemon greets with OK.
GpgNew(i) == TrChain[i].ok

\* A vault root needs an address; nothing is asked of the server yet.
VaultNew(i) == TrChain[i].ok

\* trust.New: passphrases, keychains and password managers have no factory.
Constructs(i) ==
    LET t == TrChain[i].type IN
    \/ t = "ssh_agent" /\ SshNew(i)
    \/ t = "fido2" /\ FidoNew(i)
    \/ t = "gpg_card" /\ GpgNew(i)
    \/ t = "pkcs11" /\ PkcsNew(i)
    \/ t = "vault_transit" /\ VaultNew(i)
    \/ t = "secure_enclave" /\ EnclaveNew(i)

\* The checks before the root is opened that Resolve and ResolveAll share.
Skipped(i) ==
    LET s == TrChain[i] IN
    \/ s.status # "active"
    \/ trOp.cap # NoCap /\ ~typeHasCapability(s.type, trOp.cap)
    \/ trOp.types # {} /\ s.type \notin trOp.types
    \/ trOp.llm /\ requiresPresence(s.type)

\* New of the SSH adapter remembers the named key, or the first of the agent.
PickKey(i) == CASE TrChain[i].type # "ssh_agent" -> "none"
                [] TrChain[i].type = "ssh_agent" /\ TrChain[i].fingerprint = "" -> Head(trAgent)
                [] OTHER -> TrChain[i].fingerprint

\* An open root is collected.
Collected(i) == /\ trOpen' = [trOpen EXCEPT ![i] = @ + 1]
             /\ trRoots' = Append(trRoots, i) /\ trPicked' = Append(trPicked, PickKey(i))

TrInit ==
    /\ trOp = <<>> /\ trAt = 0 /\ trNeed = <<>> /\ trOpen = [i \in DOMAIN TrChain |-> 0] /\ trRoots = <<>> /\ trPicked = <<>>
    /\ trResult = "none" /\ trAgent = <<>> /\ trWrapped = <<>> /\ trRead = [got |-> "none"] /\ trCount = [ops |-> 0, agent |-> 0]

TrIdle == trOp = <<>>

StartResolve(op) ==
    /\ TrIdle /\ trRoots = <<>> /\ trCount.ops < TrMaxOps
    /\ trOp' = op /\ trAt' = 1 /\ trNeed' = op.all /\ trResult' = "none" /\ trCount' = [trCount EXCEPT !.ops = @ + 1]
    /\ UNCHANGED <<trOpen, trRoots, trPicked>> /\ UNCHANGED trUsing

Stepped(i) == trAt = i /\ trAt' = i + 1 /\ UNCHANGED <<trOp, trNeed, trOpen, trRoots, trPicked, trResult>>

\* What is collected is closed.
TrClosed(o, s) == [i \in DOMAIN TrChain |-> o[i] - Cardinality({n \in DOMAIN s : s[n] = i})]
AllClosed == trOpen' = TrClosed(trOpen, trRoots) /\ trRoots' = <<>> /\ trPicked' = <<>>

\* Resolve: the first root that passes every check is opened.
ResolveStep ==
    /\ ~TrIdle /\ trOp.all = <<>> /\ trAt \in DOMAIN TrChain /\ trRoots = <<>>
    /\ LET i == trAt
           early == Skipped(i) \/ (~trOp.interactive /\ knownNonLaunchdSafe(TrChain[i].type))
       IN  IF early \/ ~Constructs(i) THEN Stepped(i)
           ELSE Collected(i) /\ UNCHANGED <<trOp, trAt, trNeed, trResult>>
    /\ UNCHANGED <<trAgent, trWrapped, trRead, trCount>>

\* The open root is returned; one that turns out not to be usable without a person is
\* closed again and the next one is tried.
ResolveCheck ==
    /\ ~TrIdle /\ trOp.all = <<>> /\ trAt \in DOMAIN TrChain /\ trRoots # <<>>
    /\ IF trOp.interactive \/ LaunchdSafe(trAt)
       THEN trResult' = "ok" /\ trOp' = <<>> /\ UNCHANGED <<trAt, trNeed, trOpen, trRoots, trPicked>>
       ELSE AllClosed /\ trAt' = trAt + 1 /\ UNCHANGED <<trOp, trNeed, trResult>>
    /\ UNCHANGED <<trAgent, trWrapped, trRead, trCount>>

\* ResolveAll: for the next required id, which may name a type, the first root of the
\* chain that passes and opens. Whether a person is needed is not looked at here.
ResolveAllStep ==
    /\ ~TrIdle /\ trOp.all # <<>> /\ trNeed # <<>> /\ trAt \in DOMAIN TrChain
    /\ LET i == trAt IN
       IF Head(trNeed) \notin {TrChain[i].id, TrChain[i].type} \/ Skipped(i) \/ ~Constructs(i)
       THEN Stepped(i)
       ELSE /\ Collected(i) /\ trNeed' = Tail(trNeed) /\ trAt' = 1 /\ UNCHANGED <<trOp, trResult>>
    /\ UNCHANGED <<trAgent, trWrapped, trRead, trCount>>

AllFound ==
    /\ ~TrIdle /\ trOp.all # <<>> /\ trNeed = <<>>
    /\ trOp' = <<>> /\ trResult' = "ok" /\ UNCHANGED <<trAt, trNeed, trOpen, trRoots, trPicked, trCount>> /\ UNCHANGED trUsing

\* The chain is exhausted: what was opened on the way is closed.
Exhausted ==
    /\ ~TrIdle /\ trAt \notin DOMAIN TrChain /\ (trOp.all = <<>> \/ trNeed # <<>>)
    /\ trOp' = <<>> /\ trResult' = "exhausted" /\ AllClosed
    /\ UNCHANGED <<trAt, trNeed, trCount>> /\ UNCHANGED trUsing

CallerCloses ==
    /\ TrIdle /\ trRoots # <<>> /\ AllClosed
    /\ UNCHANGED <<trOp, trAt, trNeed, trResult, trCount>> /\ UNCHANGED trUsing

\* The caller uses the nth of its roots, an SSH root.
UsesSSH(n) == TrIdle /\ n \in DOMAIN trRoots /\ TrChain[trRoots[n]].type = "ssh_agent"

\* sign asks the agent for the key the root stands for, by its fingerprint; the agent
\* may refuse to sign.
SignKey(n, refused) == IF trPicked[n] \in Range(trAgent) /\ ~refused THEN trPicked[n] ELSE "none"
\* Mutant: the agent's first key takes the place of the one that was picked.
deriveWrapKeyFirst(n, refused) == IF trAgent # <<>> /\ ~refused THEN Head(trAgent) ELSE "none"
deriveWrapKey(n, refused) == SignKey(n, refused)

\* Only a key of type Ed25519 wraps: its signatures, which the wrapping key is made
\* from, are the same every time.
Wrap(n, d) ==
    /\ UsesSSH(n) /\ trWrapped = <<>> /\ trPicked[n] \in TrEd
    /\ \E refused \in BOOLEAN :
         /\ deriveWrapKey(n, refused) # "none"
         /\ trWrapped' = [key |-> deriveWrapKey(n, refused), data |-> d, root |-> trPicked[n]]
    /\ UNCHANGED <<trAgent, trRead, trCount>> /\ UNCHANGED trResolving

\* Unwrap: a key that is gone or refused, and a key that does not open the data, are
\* errors.
Unwrap(n) ==
    /\ UsesSSH(n) /\ trWrapped # <<>>
    /\ \E refused \in BOOLEAN :
         trRead' = [got |-> IF trPicked[n] \in TrEd /\ deriveWrapKey(n, refused) = trWrapped.key
                            THEN trWrapped.data ELSE "failed",
                    by |-> trPicked[n], agent |-> trAgent, refused |-> refused]
    /\ UNCHANGED <<trAgent, trWrapped, trCount>> /\ UNCHANGED trResolving

AgentChanges(ks) ==
    /\ trCount.agent < TrMaxAgent /\ ks # trAgent /\ trAgent' = ks /\ trCount' = [trCount EXCEPT !.agent = @ + 1]
    /\ UNCHANGED <<trWrapped, trRead>> /\ UNCHANGED trResolving

TrNext ==
    \/ \E op \in TrOps : StartResolve(op)
    \/ ResolveStep \/ ResolveCheck \/ ResolveAllStep \/ AllFound \/ Exhausted \/ CallerCloses
    \/ (\E n \in DOMAIN trRoots : Wrap(n, "dek") \/ Unwrap(n))
    \/ \E ks \in SetToSeqs(TrKey) \cup {<<>>} \cup {<<k>> : k \in TrKey} : AgentChanges(ks)
-----------------------------------------------------------------------------
\* No operation leaves a root open behind its caller's back: the roots that are open
\* are exactly the ones the caller holds or the running resolution has collected, also
\* when the third of three required roots is missing, or an open root turns out to
\* need a person.
NoRootLeaked ==
    \A i \in DOMAIN TrChain : trOpen[i] = Cardinality({n \in DOMAIN trRoots : trRoots[n] = i})

\* A key that was wrapped comes back through every root that stands for the same key
\* of the agent, if the agent holds that key then and signs: however its other keys
\* came, went or moved in between, and however often roots were closed and resolved
\* again.
UnwrapFindsKey ==
    trRead.got = "failed" =>
       trRead.by # trWrapped.root \/ trRead.by \notin Range(trRead.agent) \/ trRead.refused

\* Resolving trust roots, with devices and agent keys that come and go: no root
\* stays open behind its caller's back, and a wrapped key comes back.
TrustHolds == NoRootLeaked /\ UnwrapFindsKey
=============================================================================
