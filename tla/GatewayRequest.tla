-------------------------- MODULE GatewayRequest ---------------------------
(***************************************************************************)
(* What the gateway does with a request, and what the policy file decides   *)
(* about it.                                                                *)
(***************************************************************************)
EXTENDS Naturals, Sequences, FiniteSetsExt

(***************************************************************************)
(* internal/policy: what a policy decides about a request.  The patterns   *)
(* of a rule (actor, connection, capability, commands, directories) are    *)
(* the set of asks it fits; what is left is the order of the rules and of  *)
(* the checks around them.                                                 *)
(***************************************************************************)

\* RuntimeMode; "direct_run" stands for the removed and the planned modes
PoRuntime == {"gateway_typed", "gateway_sdk", "gateway_proxy", "direct_brokered", "direct_classic"}
ValidateRuntimeMode(s) == s \in PoRuntime

\* ruleMatches; a rule without a runtime matches any
RuleMatches(rule, req) ==
    /\ rule.runtime \in PoRuntime \cup {""}
    /\ req.ask \in rule.fits
    /\ rule.runtime \in {"", req.runtime}

\* validatePresenceProof: the rule's root requirement turns the proof down
ProofRefused(rule, req) ==
    /\ rule.root # "none" /\ req.proof # "none"
    /\ \/ rule.root = "aged" /\ req.proof = "stale"
       \/ rule.root = "two"  /\ req.proof = "rootless"

\* checkLLMSessionRuntime, then the approval the rule demands
RuleDecides(rule, req) ==
    CASE req.llm /\ rule.llm = "deny"              -> "deny"
      [] req.llm /\ rule.llm = "approval_required" -> "approve"
      [] (rule.approval \/ rule.root # "none") /\ ProofRefused(rule, req) -> "deny"
      [] rule.approval \/ rule.root # "none"       -> "approve"
      [] OTHER                                     -> "allow"

\* The first rule that matches decides; without one, default_deny does.
RulesDecide(p, req) ==
    LET M == {i \in DOMAIN p.rules : RuleMatches(p.rules[i], req)}
    IN IF M # {} THEN RuleDecides(p.rules[Min(M)], req)
       ELSE IF p.default_deny THEN "deny" ELSE "allow"

\* Policy.Check; org is what the organisation's policy says, if there is one
Check(p, req) ==
    CASE ~ValidateRuntimeMode(req.runtime)       -> "deny"
      [] req.org = "deny"                        -> "deny"
      [] req.llm /\ p.mode = "permissive"        -> "panic"
      [] req.class = "management"                -> "allow"
      [] req.llm /\ req.class = "read"           -> "deny"
      [] OTHER                                   -> RulesDecide(p, req)

\* checkPolicySafe: a panic is a denial
CheckSafe(p, req) == IF Check(p, req) = "panic" THEN "deny" ELSE Check(p, req)

-----------------------------------------------------------------------------
(***************************************************************************)
(* The gateway's request path: the middlewares, gatewayHandler with its    *)
(* checks in order, the budget counter, the static broker's lock, and the  *)
(* copies of the credential the handler makes and wipes.  Each goroutine   *)
(* serves one request at a time.  What depends on the request alone (its   *)
(* path, headers and parameters) is a choice at the step that looks at it. *)
(***************************************************************************)

CONSTANTS
    GwGoroutine,  \* goroutines of the HTTP server
    GwActor,      \* actors of tokens
    GwRoute,      \* compiled routes: records of cap, secret, strategy, deny, class, ask
    GwPolicies,   \* what policy.Load finds; kind is "policy", "absent" or "broken"
    GwLimit       \* BudgetPolicy: the configured limit of each limit type

ASSUME GwLimitAssumption == GwLimit \in [DOMAIN GwLimit -> Nat \ {0}]

\* budgetKey: actor, capability and limit type; a window for each
GwLimitType == DOMAIN GwLimit
GwKey == GwActor \X {rt.cap : rt \in GwRoute}
\* No window is open for the key.
GwClosed == 0

VARIABLES
    gwPolicy,    \* Server.policy; kind is "down" before New
    gwReq,       \* gwReq[g]: the request of goroutine g
    gwTotal,     \* gwTotal[k][w]: windowBucket.total
    gwOver,      \* gwOver[k]: the windows of k whose time is up
    gwLocked,    \* Broker.locked
    gwAdmitted   \* history: gwAdmitted[k][w]: requests let through since w opened

gwVars == <<gwPolicy, gwReq, gwTotal, gwOver, gwLocked, gwAdmitted>>

GwNone == [at |-> "idle", exchanged |-> FALSE, left |-> {}]
GwUp == gwPolicy.kind # "down"

GwInit ==
    /\ gwPolicy = [kind |-> "down"] /\ gwReq = [g \in GwGoroutine |-> GwNone]
    /\ gwTotal = [k \in GwKey |-> [w \in GwLimitType |-> GwClosed]]
    /\ gwOver = [k \in GwKey |-> {}] /\ gwLocked = FALSE
    /\ gwAdmitted = [k \in GwKey |-> [w \in GwLimitType |-> 0]]

-----------------------------------------------------------------------------
(* Starting the server *)

\* rulesWithGatewayUnsupportedFields and the refusal of permissive mode
GwUsable(p) == p.mode # "permissive" /\ ~p.commands

\* New: a policy that cannot be loaded or used stops the start; a missing one
\* lets every request pass.
GwStart(p) ==
    /\ ~GwUp /\ p.kind # "broken"
    /\ p.kind = "policy" => GwUsable(p)
    /\ gwPolicy' = p
    /\ UNCHANGED <<gwReq, gwTotal, gwOver, gwLocked, gwAdmitted>>

-----------------------------------------------------------------------------
(* The handler.  GwGo: the request goes on to the next step.  GwEnd: the    *)
(* handler returns, with an answer, a denial or an error, and its deferred  *)
(* wipe runs.                                                               *)

GwAt(g, s) == gwReq[g].at = s
GwGo(g, s) == gwReq' = [gwReq EXCEPT ![g].at = s]

\* The deferred wipe zeroes the root credential and the token.  It is registered
\* once the exchange has succeeded: an earlier return leaves the credential as it
\* is.  The string that injectAuth made for the request is never zeroed.
GwWipe(q) == IF q.exchanged THEN [q EXCEPT !.cred = "wiped", !.token = "wiped"] ELSE q

\* what is in memory of the credential when the handler has returned
GwLeft(q) == {m \in {"cred", "token", "header"} : q[m] = "live"}

GwEnd(g) ==
    gwReq' = [gwReq EXCEPT ![g] =
                 [at |-> "idle", exchanged |-> gwReq[g].exchanged, left |-> GwLeft(GwWipe(gwReq[g]))]]

gwShared == <<gwPolicy, gwTotal, gwOver, gwLocked, gwAdmitted>>

\* reserveApprovalPaths, authBlockerMiddleware, hostOverrideBlockerMiddleware:
\* a refused request never reaches the handler.
GwBlocked(g) ==
    /\ GwUp /\ GwAt(g, "idle")
    /\ gwReq' = [gwReq EXCEPT ![g] = GwNone]
    /\ UNCHANGED gwShared

\* They let it pass.
GwArrive(g, a, llm, rt) ==
    /\ GwUp /\ GwAt(g, "idle")
    /\ gwReq' = [gwReq EXCEPT ![g] =
          [at |-> "verify", actor |-> a, llm |-> llm, route |-> rt,
           cred |-> "none", token |-> "none", header |-> "none", exchanged |-> FALSE, logged |-> FALSE]]
    /\ UNCHANGED gwShared

\* Path prefix, bearer token, token.Verify, Router.Match, HasCapability
GwVerify(g) ==
    /\ GwAt(g, "verify")
    /\ GwGo(g, "session") \/ GwEnd(g)
    /\ UNCHANGED gwShared

\* What an LLM session may not do: read-class capabilities and denied routes
GwForbidden(q) == q.llm /\ (q.route.class = "read" \/ q.route.deny)

GwSession(g) ==
    /\ GwAt(g, "session")
    /\ IF GwForbidden(gwReq[g]) THEN GwEnd(g) ELSE GwGo(g, "policy")
    /\ UNCHANGED gwShared

\* The request as the policy sees it: what the token and the route say, and whether
\* its path is one of the SDK's.
GwAsk(q, sdk) == [ask |-> q.route.ask, class |-> q.route.class, llm |-> q.llm,
                  runtime |-> IF sdk THEN "gateway_sdk" ELSE "gateway_typed",
                  proof |-> "none", org |-> "none"]

\* Nothing can be approved here: what needs approval is denied.
GwCheckPolicy(g) ==
    /\ GwAt(g, "policy")
    /\ \E sdk \in BOOLEAN :
          IF gwPolicy.kind = "absent" \/ CheckSafe(gwPolicy, GwAsk(gwReq[g], sdk)) = "allow"
          THEN GwGo(g, "budget") ELSE GwEnd(g)
    /\ UNCHANGED gwShared

-----------------------------------------------------------------------------
(* budget.InMemoryBudgetCounter *)

\* relevantKeys: the windows of a request are those of its actor and capability
GwKeyOf(q) == <<q.actor, q.route.cap>>

\* windows[key] is missing or expired
GwFresh(k, w) == gwTotal[k][w] = GwClosed \/ w \in gwOver[k]
GwFits(k) == \A w \in GwLimitType : GwFresh(k, w) \/ gwTotal[k][w] + 1 <= GwLimit[w]

\* Mutant: the other limits are forgotten when one window opens anew.
GwRecordAll(k) ==
    LET new == \E w \in GwLimitType : GwFresh(k, w)
    IN /\ gwTotal' = [gwTotal EXCEPT ![k] = [w \in GwLimitType |-> IF new THEN 1 ELSE @[w] + 1]]
       /\ gwOver' = [gwOver EXCEPT ![k] = {}]

\* recordLocked
GwRecord(k) ==
    /\ gwTotal' = [gwTotal EXCEPT ![k] = [w \in GwLimitType |-> IF GwFresh(k, w) THEN 1 ELSE @[w] + 1]]
    /\ gwOver' = [gwOver EXCEPT ![k] = {}]

\* CheckAndRecord, under the counter's mutex
GwBudget(g) ==
    LET k == GwKeyOf(gwReq[g])
    IN /\ GwAt(g, "budget") /\ GwFits(k)
       /\ GwRecord(k) /\ GwGo(g, "gate")
       /\ gwAdmitted' = [gwAdmitted EXCEPT ![k] =
             [w \in GwLimitType |-> IF GwFresh(k, w) THEN 1 ELSE @[w] + 1]]
       /\ UNCHANGED <<gwPolicy, gwLocked>>

GwBudgetExceeded(g) ==
    /\ GwAt(g, "budget") /\ ~GwFits(GwKeyOf(gwReq[g]))
    /\ GwEnd(g)
    /\ UNCHANGED gwShared

\* evictExpired
GwEvict ==
    /\ \E k \in GwKey : \E w \in gwOver[k] : gwTotal[k][w] # GwClosed
    /\ gwTotal' = [k \in GwKey |-> [w \in GwLimitType |->
                     IF w \in gwOver[k] THEN GwClosed ELSE gwTotal[k][w]]]
    /\ gwOver' = [k \in GwKey |-> {}]
    /\ gwAdmitted' = [k \in GwKey |-> [w \in GwLimitType |->
                        IF w \in gwOver[k] THEN 0 ELSE gwAdmitted[k][w]]]
    /\ UNCHANGED <<gwPolicy, gwReq, gwLocked>>

\* The hour, or the day, of a window of k is over.
GwWindowEnds(k, w) ==
    /\ gwTotal[k][w] # GwClosed /\ w \notin gwOver[k]
    /\ gwOver' = [gwOver EXCEPT ![k] = @ \cup {w}]
    /\ UNCHANGED <<gwPolicy, gwReq, gwTotal, gwLocked, gwAdmitted>>

-----------------------------------------------------------------------------
(* From the gates to the answer *)

\* SSRFGate.Validate, substitution.CheckRequest, the size of the body
GwGate(g) ==
    /\ GwAt(g, "gate")
    /\ GwGo(g, "vault") \/ GwEnd(g)
    /\ UNCHANGED gwShared

\* vault.Get with the audit emitter in its context: the read is on record, or
\* the credential is not handed out.  A stored value may be empty.
GwReadVault(g) ==
    /\ GwAt(g, "vault") /\ gwReq[g].route.secret
    /\ \E c \in {"live", "empty"} :
          gwReq' = [gwReq EXCEPT ![g].at = "exchange", ![g].cred = c, ![g].logged = TRUE]
    /\ UNCHANGED gwShared

\* Mutant: a route whose secret cannot be read is forwarded without it.
GwForwardBare(g) == GwAt(g, "vault") /\ GwGo(g, "exchange") /\ UNCHANGED gwShared

\* no vault, no such secret, the store or the audit log is out of reach
GwVaultFails(g) ==
    /\ GwAt(g, "vault") /\ gwReq[g].route.secret
    /\ GwEnd(g)
    /\ UNCHANGED gwShared

GwNoSecret(g) ==
    /\ GwAt(g, "vault") /\ ~gwReq[g].route.secret
    /\ GwGo(g, "exchange")
    /\ UNCHANGED gwShared

\* Broker.Exchange, under the broker's mutex: the static strategy copies the
\* root credential, "none" hands out nothing, others are not supported.
GwExchange(g) ==
    LET q == gwReq[g]
    IN /\ GwAt(g, "exchange") /\ ~gwLocked /\ q.route.strategy \in {"static", "none"}
       /\ gwReq' = [gwReq EXCEPT ![g].at = "send", ![g].exchanged = TRUE, ![g].token =
             IF q.route.strategy = "static" /\ q.cred = "live" THEN "live" ELSE "empty"]
       /\ UNCHANGED gwShared

GwExchangeFails(g) ==
    /\ GwAt(g, "exchange") /\ (gwLocked \/ gwReq[g].route.strategy = "dynamic")
    /\ GwEnd(g)
    /\ UNCHANGED gwShared

\* injectAuth makes a string of the token for a header or the query, and nothing
\* of an empty one; client.Do sends the request.
GwSend(g) ==
    /\ GwAt(g, "send")
    /\ gwReq' = [gwReq EXCEPT ![g].at = "sent", ![g].header = gwReq[g].token]
    /\ UNCHANGED gwShared

\* The request could not be built.
GwSendFails(g) == GwAt(g, "send") /\ GwEnd(g) /\ UNCHANGED gwShared

\* client.Do or readUpstreamBody may fail; redaction, labelling and the answer
GwRespond(g) == GwAt(g, "sent") /\ GwEnd(g) /\ UNCHANGED gwShared

\* OnVaultLock, OnVaultUnlock
GwLock == GwUp /\ gwLocked' = TRUE
          /\ UNCHANGED <<gwPolicy, gwReq, gwTotal, gwOver, gwAdmitted>>
GwUnlock == GwUp /\ gwLocked' = FALSE
          /\ UNCHANGED <<gwPolicy, gwReq, gwTotal, gwOver, gwAdmitted>>

GwNext ==
    \/ \E p \in GwPolicies : GwStart(p)
    \/ \E g \in GwGoroutine :
          \/ GwBlocked(g) \/ GwVerify(g) \/ GwSession(g) \/ GwCheckPolicy(g)
          \/ GwBudget(g) \/ GwBudgetExceeded(g) \/ GwGate(g)
          \/ GwReadVault(g) \/ GwVaultFails(g) \/ GwNoSecret(g)
          \/ GwExchange(g) \/ GwExchangeFails(g)
          \/ GwSend(g) \/ GwSendFails(g) \/ GwRespond(g)
          \/ \E a \in GwActor, rt \in GwRoute, llm \in BOOLEAN : GwArrive(g, a, llm, rt)
    \/ GwEvict \/ GwLock \/ GwUnlock
    \/ \E k \in GwKey, w \in GwLimitType : GwWindowEnds(k, w)

-----------------------------------------------------------------------------
\* gatewayHandler and CheckAndRecord, with several requests of one actor and
\* windows that end at different times: while a window of an actor, a capability
\* and a limit type lasts, no more of the actor's requests with that capability get
\* past the budget than the limit, also when other windows have been renewed or
\* evicted meanwhile.  (What an actor does with all capabilities together is not
\* bounded, although the handler calls the budget one per actor.)
GwBudgetHolds == \A k \in GwKey, w \in GwLimitType : gwAdmitted[k][w] <= GwLimit[w]

\* gatewayHandler: a request of a route that has a secret goes upstream with that
\* secret, whatever failed on the way, and the read of it is on record; without
\* one only if the value stored is empty.  (The strategy "none" sends nothing on
\* purpose.)
GwNeverBare == \A g \in GwGoroutine :
    gwReq[g].at = "sent" /\ gwReq[g].route.secret /\ gwReq[g].route.strategy = "static"
      => gwReq[g].logged /\ (gwReq[g].header = "live" \/ gwReq[g].cred = "empty")

\* gatewayHandler: a request that has ended after its exchange leaves neither the
\* bytes of the credential nor those of the token, also where the upstream call or
\* its answer failed; what was never exchanged has gone nowhere.  (An exchange that
\* fails leaves the credential's bytes, and the string in the request stays for the
\* garbage collector.)
GwWiped == \A g \in GwGoroutine :
    GwAt(g, "idle") => gwReq[g].left \subseteq IF gwReq[g].exchanged THEN {"header"} ELSE {"cred"}

\* gatewayHandler, on every path through it: a request that needs a credential goes
\* out with what is stored, read on record, or not at all; and past the exchange
\* the byte slices that hold it are zeroed.
RequestHolds == GwNeverBare /\ GwWiped
=============================================================================
