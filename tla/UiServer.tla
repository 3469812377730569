------------------------------ MODULE UiServer ------------------------------
(***************************************************************************)
(* The local UI server: how `keylatch ui` and keylatchd start it, the       *)
(* one-time bootstrap token and its rate limiter, the session cookie, the   *)
(* routes a session's scope mounts, and the settings that become            *)
(* environment variables of the process (internal/ui,                       *)
(* internal/ui/session, internal/ui/csrf, internal/cli/ui_cmd.go,           *)
(* cmd/keylatchd).                                                          *)
(***************************************************************************)
EXTENDS Naturals, FiniteSets

CONSTANTS UsReq,      \* requests in flight, all of one address
          UsLaunches, \* ways to start: [cmd, llm, scope, unsafe, listen]
          UsMaxFail,  \* failures before 429 (maxFailures = 5)
          UsWindow,   \* the limiter's window
          UsTTL,      \* life of the session
          UsMaxTime,  \* bound: the clock
          UsMaxReqs   \* bound: requests sent

ASSUME UsAssumption ==
    /\ IsFiniteSet(UsReq) /\ UsMaxFail \in Nat \ {0} /\ UsWindow \in Nat \ {0} /\ UsTTL \in Nat
    /\ UsLaunches \subseteq [cmd : {"ui", "daemon", "desktop"}, llm : BOOLEAN, scope : Nat,
                          unsafe : BOOLEAN, listen : BOOLEAN]

VARIABLES usSrv, usConsumed, usLim, usFails, usReq, usTime, usSent, usServed, usEnv
usVars == <<usSrv, usConsumed, usLim, usFails, usReq, usTime, usSent, usServed, usEnv>>

UsStatusOnly == 0
UsSetup == 1
UsAdmin == 2
UsTokenMinting == 3
UsNoEntry == [failures |-> 0, resetAt |-> 0]
UsIdle == [at |-> "idle", kind |-> "none", status |-> 0]

\* usLim: the limiter's entry, UsNoEntry when there is none.  usFails: refused
\* exchanges recorded since the entry's window began, and usServed: the last operation
\* served, both for the properties only.
UsInit == /\ usSrv = [up |-> FALSE, external |-> FALSE, scope |-> UsStatusOnly, llm |-> FALSE]
          /\ usConsumed = 0 /\ usLim = UsNoEntry /\ usFails = 0
          /\ usReq = [r \in UsReq |-> UsIdle]
          /\ usTime = 1 /\ usSent = 0 /\ usServed = "none" /\ usEnv = FALSE

\* -- Start --------------------------------------------------------------------
UiBindAddr(l) == [external |-> l.unsafe \/ l.listen, allow |-> l.unsafe \/ l.listen]
\* In an LLM session the command drops the flags and the environment's address.
UiFlags(l) == IF l.llm THEN [l EXCEPT !.scope = UsStatusOnly, !.unsafe = FALSE, !.listen = FALSE]
              ELSE l
\* The server decides again for itself.
UiNew(l, bind, scope) ==
    /\ bind.external => ~l.llm /\ bind.allow
    /\ usSrv' = [up |-> TRUE, external |-> bind.external, llm |-> l.llm,
                 scope |-> IF l.llm /\ scope > UsStatusOnly THEN UsStatusOnly ELSE scope]
UiCmd(l) == /\ ~usSrv.up /\ l.cmd = "ui"
            /\ UiNew(l, UiBindAddr(UiFlags(l)), UiFlags(l).scope)
            /\ UNCHANGED <<usConsumed, usLim, usFails, usReq, usTime, usSent, usServed, usEnv>>
\* keylatchd always asks for the admin scope; from the desktop shell it does
\* not start in an LLM session.
KeylatchdCmd(l) ==
    /\ ~usSrv.up /\ l.cmd \in {"daemon", "desktop"}
    /\ l.cmd = "desktop" => ~l.llm
    /\ UiNew(l, [external |-> FALSE, allow |-> FALSE], UsAdmin)
    /\ UNCHANGED <<usConsumed, usLim, usFails, usReq, usTime, usSent, usServed, usEnv>>

\* -- Bootstrap limiter: gate, handler, verdict, each under its own lock -------
IsBlockedLate == usTime <= usLim.resetAt /\ usLim.failures > UsMaxFail
IsBlocked == usTime <= usLim.resetAt /\ usLim.failures >= UsMaxFail
UsGo(r, at, status) == usReq' = [usReq EXCEPT ![r].at = at, ![r].status = status]
Gate(r, kind) ==
    /\ usSrv.up /\ usReq[r].at = "idle" /\ usSent < UsMaxReqs
    /\ usSent' = usSent + 1
    /\ usReq' = [usReq EXCEPT ![r] = IF IsBlocked THEN UsIdle
                                     ELSE [at |-> "handle", kind |-> kind, status |-> 0]]
    /\ IF usTime > usLim.resetAt THEN usLim' = UsNoEntry /\ usFails' = 0
       ELSE UNCHANGED <<usLim, usFails>>
    /\ UNCHANGED <<usSrv, usConsumed, usTime, usServed, usEnv>>

\* The token is exchanged under the session's lock; it is gone even when the
\* CSRF token cannot be made afterwards.
ConsumeBootstrap(good) == good /\ usConsumed = 0 /\ usTime <= UsTTL
HandleBootstrap(r, good) ==
    /\ usReq[r].at = "handle" /\ usReq[r].kind = "bootstrap"
    /\ IF ConsumeBootstrap(good)
       THEN /\ usConsumed' = usConsumed + 1
            /\ UsGo(r, "record", 303) \/ UsGo(r, "record", 500)
       ELSE UsGo(r, "record", 401) /\ UNCHANGED usConsumed
    /\ UNCHANGED <<usSrv, usLim, usFails, usTime, usSent, usServed, usEnv>>
\* Anyone may fetch a CSRF token, through the same limiter.
HandleCSRF(r) ==
    /\ usReq[r].at = "handle" /\ usReq[r].kind = "csrf"
    /\ UsGo(r, "record", 200) \/ UsGo(r, "record", 500)
    /\ UNCHANGED <<usSrv, usConsumed, usLim, usFails, usTime, usSent, usServed, usEnv>>

CheckAndRecord ==
    IF usLim = UsNoEntry \/ usTime > usLim.resetAt
    THEN usLim' = [failures |-> 1, resetAt |-> usTime + UsWindow] /\ usFails' = 1
    ELSE /\ usLim' = [usLim EXCEPT !.failures = IF @ >= UsMaxFail THEN @ ELSE @ + 1]
         /\ usFails' = usFails + 1
RecordSuccess == usLim' = UsNoEntry /\ usFails' = 0
Record(r) ==
    /\ usReq[r].at = "record" /\ usReq' = [usReq EXCEPT ![r] = UsIdle]
    /\ \/ usReq[r].status = 401 /\ CheckAndRecord
       \/ usReq[r].status \in {200, 303} /\ RecordSuccess
       \/ usReq[r].status = 500 /\ UNCHANGED <<usLim, usFails>>
    /\ UNCHANGED <<usSrv, usConsumed, usTime, usSent, usServed, usEnv>>

\* -- Everything else needs the session's cookie, and a CSRF token to change ----
ValidateRequest(cookie) == cookie /\ usConsumed > 0 /\ usTime <= UsTTL
CsrfValid(token) == token
UsRead == {"status", "settings_get", "connections_get"}
UsWrite == {"settings_put", "connections_put", "mint"}
\* registerRoutes: what the scope mounts; minting asks for its scope once more.
Mounted(op) == \/ op \in {"status", "settings_get", "settings_put"}
               \/ usSrv.scope > UsStatusOnly
Allowed(op) == op = "mint" => usSrv.scope >= UsTokenMinting
ServeApi(op, cookie, token) ==
    /\ usSrv.up /\ ValidateRequest(cookie)
    /\ op \in UsWrite => CsrfValid(token)
    /\ Mounted(op) /\ Allowed(op)
    /\ usServed' = op
    \* The server that the commands start has no settings store: a PUT works on a
    \* fresh one, and only the environment variable outlives the request.
    /\ usEnv' \in IF op = "settings_put" THEN BOOLEAN ELSE {usEnv}
    /\ UNCHANGED <<usSrv, usConsumed, usLim, usFails, usReq, usTime, usSent>>

UsTick == /\ usTime < UsMaxTime /\ usTime' = usTime + 1
          /\ UNCHANGED <<usSrv, usConsumed, usLim, usFails, usReq, usSent, usServed, usEnv>>

UsNext == \/ \E l \in UsLaunches : UiCmd(l) \/ KeylatchdCmd(l)
          \/ \E r \in UsReq : \/ Gate(r, "bootstrap") \/ Gate(r, "csrf")
                              \/ \E good \in BOOLEAN : HandleBootstrap(r, good)
                              \/ HandleCSRF(r) \/ Record(r)
          \/ \E op \in UsRead \cup UsWrite, cookie, token \in BOOLEAN : ServeApi(op, cookie, token)
          \/ UsTick

\* However many requests race for it, and whatever fails after the exchange,
\* the bootstrap token opens one session (session.go:92).
BootstrapOnce == usConsumed <= 1

\* Within a window without a success the limiter lets through the permitted failures and
\* at most the requests that had passed its gate when the last of them was
\* recorded, because the gate and the count are separate critical sections
\* (ratelimit.go:122).
LimiterHolds == usFails <= UsMaxFail + Cardinality(UsReq) - 1

\* In an LLM session the server listens on the loopback interface only and
\* serves nothing that reads or changes connections or mints tokens, however
\* it was started (server.go:87, server.go:201).  The settings are the exception:
\* their page is mounted for every scope and takes a change as well (server.go:195),
\* although a status-only session is to have no write endpoint (server.go:199).
LlmConfined == usSrv.llm => /\ ~usSrv.external
                              /\ usServed \in {"none", "status", "settings_get", "settings_put"}

\* Concurrent requests to the UI server: one session from the bootstrap token,
\* a bounded number of guesses, and for an agent no more than status and settings,
\* which it may also change.
UiHolds == BootstrapOnce /\ LimiterHolds /\ LlmConfined
=============================================================================
