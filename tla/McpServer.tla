---------------------------- MODULE McpServer ----------------------------
(***************************************************************************)
(* The MCP server of `keylatch mcp` (internal/mcp): how the options choose *)
(* the transport and its connection check, the accept loops with their     *)
(* nonces and idle limits, the five tools with the limiter of              *)
(* keylatch_test and the command allowlist of keylatch_run, and the bearer *)
(* session object.  Calls of one client run concurrently; each step below  *)
(* is what one goroutine does under one lock or between two of them.       *)
(***************************************************************************)
EXTENDS Integers, FiniteSets, Sequences

CONSTANTS McConn,       \* identifiers of accepted socket connections
          McNonce,      \* values the random nonce may take
          McCall,       \* tool calls that may be under way at once
          McWindow,     \* rateLimiter.window
          McIdle,       \* bearerIdleTimeout
          McTTL,        \* life of a bearer session
          McMaxTime,    \* bound on the clock
          McProviders, McAccounts,  \* arguments of keylatch_test
          Letters,                  \* of which a command consists, the space among them
          McLines, McArrays,        \* commands given to keylatch_run
          McTemplates,              \* allowed_command_prefixes of the providers
          McMaxTests, McMaxRuns     \* bounds on the calls of the two

\* What strings.Fields, strings.Join and the templates' prefixes put between words.
Space == " "

ASSUME McAssumption ==
    /\ McWindow \in Nat \ {0} /\ McIdle \in Nat \ {0}
    /\ McTTL \in Nat \ {0} /\ McMaxTime \in Nat
    /\ 0 \notin McConn       \* 0 is nobody's number: the registry has it for a free nonce
    /\ \A l \in McLines : l \in Seq(Letters)
    \* The prefixes of the templates, "node " and the like, are words with one
    \* space between them, and at most one after them.
    /\ \A t \in McTemplates : \A p \in t :
          /\ p \in Seq(Letters)
          /\ \A i \in 1 .. Len(p) - 1 : ~(p[i] = Space /\ p[i + 1] = Space)

Never == 0 - 1

VARIABLES mcSrv,      \* "down", "stdio", "unix", "bearer" or "ended"
          mcCancel,   \* the signal context is done
          mcConns,    \* per connection: its state, its peer and its nonce
          mcNonces,   \* globalNonceRegistry: nonce -> connection
          mcCalls,    \* testCallRateLimiter.calls: key -> time
          mcTests,    \* admitted keylatch_test calls under way
          mcAdmitted, \* every admitted test: the connection tested, when
          mcRan,      \* argument vectors keylatch_run executed
          mcSess,     \* the bearer session
          mcUse,      \* what CheckAndTouch last accepted, and when
          mcNow

mcVars == <<mcSrv, mcCancel, mcConns, mcNonces, mcCalls, mcTests, mcAdmitted,
            mcRan, mcSess, mcUse, mcNow>>

--------------------------------------------------------------------------
(* Options *)

Transports == {"stdio", "tcp"}
Binds == {"empty", "loopback", "any"}
Auths == {"", "unix_peer_cred", "named_pipe_acl", "bearer_legacy"}
TTLs == {"unset", "short", "over", "bad"}
Systems == {"linux", "windows", "other"}

DefaultAuthMode(t, os) ==
    CASE t = "stdio" -> "stdio_pipe"
      [] t # "stdio" /\ os = "linux" -> "unix_peer_cred"
      [] t # "stdio" /\ os = "windows" -> "named_pipe_acl"
      [] t # "stdio" /\ os = "other" -> "bearer_legacy"

\* New refuses a wildcard address and a token where nobody would check it.
New(t, bind, token) == bind # "any" /\ ~(t = "stdio" /\ token)

\* What Serve runs.  Every mode that is not the peer check, the named pipe of
\* Windows included, is served by the bearer loop.
ServeMode(t, auth) ==
    CASE t = "stdio" -> "stdio"
      [] t # "stdio" /\ auth = "unix_peer_cred" -> "unix"
      [] OTHER -> "bearer"

\* The TTL is only looked at by the transport that uses it.
TTLAccepted(mode, ttl) == mode = "bearer" => ttl \in {"unset", "short"}

StartServer(t, bind, token, auth0, ttl, os) ==
    LET auth == IF auth0 = "" THEN DefaultAuthMode(t, os) ELSE auth0
        mode == ServeMode(t, auth)
    IN  /\ mcSrv = "down"
        /\ New(t, bind, token)
        /\ TTLAccepted(mode, ttl)
        /\ mcSrv' = mode
        /\ UNCHANGED <<mcCancel, mcConns, mcNonces, mcCalls, mcTests,
                       mcAdmitted, mcRan, mcSess, mcUse, mcNow>>

StartRefused(t, bind, token, auth0, ttl, os) ==
    LET auth == IF auth0 = "" THEN DefaultAuthMode(t, os) ELSE auth0
    IN  /\ mcSrv = "down"
        /\ ~New(t, bind, token) \/ ~TTLAccepted(ServeMode(t, auth), ttl)
        /\ mcSrv' = "ended"
        /\ UNCHANGED <<mcCancel, mcConns, mcNonces, mcCalls, mcTests,
                       mcAdmitted, mcRan, mcSess, mcUse, mcNow>>

--------------------------------------------------------------------------
(* The accept loops *)

\* getPeerUID answers -1 when the platform or the call does not say.
PeerUIDs == {"server", "someone_else", "unknown"}

ValidatePeerUID(uid) == uid = "server"

NonceInUse(n) == mcNonces[n] # 0

\* register keeps the first connection a nonce was given to, for ever.
Register(n, c) ==
    IF NonceInUse(n) THEN mcNonces ELSE [mcNonces EXCEPT ![n] = c]


Registered(n, c) == Register(n, c)[n] = c

\* One turn of the loop of serveUnixPeerCred: Accept, the check of the peer,
\* the nonce and the goroutine that holds the connection.  A loop that waits
\* in Accept has already looked at the context, so it may take one more
\* connection after it is done; handleUnixConn then closes it at once.
AcceptUnix(c, uid, n) ==
    /\ mcSrv = "unix" /\ mcConns[c].st = "none"
    /\ \A d \in McConn : d < c => mcConns[d].st # "none"
    /\ LET ok == ValidatePeerUID(uid)
       IN  /\ mcNonces' = IF ok THEN Register(n, c) ELSE mcNonces
           /\ mcConns' = [mcConns EXCEPT ![c] =
                 [st |-> IF ok /\ Registered(n, c) THEN "open" ELSE "closed",
                  uid |-> uid, nonce |-> n]]
    /\ mcSrv' = IF mcCancel THEN "ended" ELSE mcSrv
    /\ UNCHANGED <<mcCancel, mcCalls, mcTests, mcAdmitted, mcRan, mcSess,
                   mcUse, mcNow>>

\* serveBearerLegacy takes a connection, never reads from it, and wakes up
\* every second, so that it sees a cancelled context.
AcceptBearer(c, n) ==
    /\ mcSrv = "bearer" /\ ~mcCancel /\ mcConns[c].st = "none"
    /\ \A d \in McConn : d < c => mcConns[d].st # "none"
    /\ mcConns' = [mcConns EXCEPT ![c] =
                      [st |-> "open", uid |-> "unknown", nonce |-> n]]
    /\ UNCHANGED <<mcSrv, mcCancel, mcNonces, mcCalls, mcTests, mcAdmitted,
                   mcRan, mcSess, mcUse, mcNow>>

\* The idle timer, or the context, closes a held connection.
CloseConn(c) ==
    /\ mcConns[c].st = "open"
    /\ mcConns' = [mcConns EXCEPT ![c].st = "closed"]
    /\ UNCHANGED <<mcSrv, mcCancel, mcNonces, mcCalls, mcTests, mcAdmitted,
                   mcRan, mcSess, mcUse, mcNow>>

Cancel ==
    /\ mcSrv \in {"stdio", "unix", "bearer"} /\ ~mcCancel
    /\ mcCancel' = TRUE
    /\ UNCHANGED <<mcSrv, mcConns, mcNonces, mcCalls, mcTests, mcAdmitted,
                   mcRan, mcSess, mcUse, mcNow>>

\* The transport of stdio and the bearer loop return by themselves; the
\* process ends, and with it what it holds.
ServeReturns ==
    /\ mcSrv \in {"stdio", "bearer"} /\ mcCancel
    /\ mcSrv' = "ended"
    /\ mcConns' = [c \in McConn |-> IF mcConns[c].st = "open"
                   THEN [mcConns[c] EXCEPT !.st = "closed"] ELSE mcConns[c]]
    /\ mcTests' = [k \in McCall |-> <<>>]
    /\ UNCHANGED <<mcCancel, mcNonces, mcCalls, mcAdmitted, mcRan, mcSess,
                   mcUse, mcNow>>

--------------------------------------------------------------------------
(* The tools *)

\* An argument of a call: its value, "" for the empty string, "none" when it
\* is absent and "number" when it is not a string.
GetString(v) == IF v \in {"none", "number"} THEN "" ELSE v

OrDefault(v) == IF v = "" THEN "default" ELSE v

\* The key of the limiter: namespace, provider and account as
\* connections.Test will read them.

RateLimitKeyRaw(provider, account, namespace) ==
    <<namespace, provider, account>>
RateLimitKey(provider, account, namespace) ==
    <<OrDefault(namespace), provider, OrDefault(account)>>

\* The connection connections.Test really contacts.
Tested(provider, account, namespace) ==
    <<OrDefault(namespace), provider, OrDefault(account)>>

LastTest(key) == IF key \in DOMAIN mcCalls THEN mcCalls[key] ELSE Never

Allow(key) == LastTest(key) = Never \/ mcNow - LastTest(key) >= McWindow

\* keylatch_test with the arguments p, a, n: refused without a provider or
\* within the window, else the limiter remembers the time and the test runs
\* outside the lock.
CallTest(k, p, a, n) ==
    LET provider == GetString(p)
        key == RateLimitKey(provider, GetString(a), GetString(n))
    IN  /\ mcSrv = "stdio" /\ mcTests[k] = <<>>
        /\ provider # "" /\ Allow(key)
        /\ mcCalls' = [x \in DOMAIN mcCalls \cup {key} |->
                          IF x = key THEN mcNow ELSE mcCalls[x]]
        /\ mcTests' = [mcTests EXCEPT ![k] =
                          Tested(provider, GetString(a), GetString(n))]
        /\ mcAdmitted' = Append(mcAdmitted,
              [conn |-> Tested(provider, GetString(a), GetString(n)),
               at |-> mcNow])
        /\ UNCHANGED <<mcSrv, mcCancel, mcConns, mcNonces, mcRan, mcSess,
                       mcUse, mcNow>>

\* connections.Test answers, within the ten seconds of its client or with an
\* error that sanitizeError has gone over.
TestAnswers(k) ==
    /\ mcTests[k] # <<>>
    /\ mcTests' = [mcTests EXCEPT ![k] = <<>>]
    /\ UNCHANGED <<mcSrv, mcCancel, mcConns, mcNonces, mcCalls, mcAdmitted,
                   mcRan, mcSess, mcUse, mcNow>>

\* Command lines and prefixes are sequences of letters.
HasPrefix(line, prefix) ==
    Len(prefix) <= Len(line) /\ SubSeq(line, 1, Len(prefix)) = prefix

CommandMatchesAllowlist(line, prefixes) ==
    \E p \in prefixes : HasPrefix(line, p)

\* strings.Fields: the maximal runs of letters other than the space.
WordStart(line, i) == line[i] # Space /\ (i = 1 \/ line[i - 1] = Space)
WordEnd(line, i) ==
    CHOOSE j \in i .. Len(line) :
        /\ \A m \in i .. j : line[m] # Space
        /\ j = Len(line) \/ line[j + 1] = Space
WordStarts(line) == {i \in 1 .. Len(line) : WordStart(line, i)}
\* How many words of line start at i or before, and where the w-th one does.
Rank(line, i) == Cardinality({j \in WordStarts(line) : j <= i})
NthStart(line, w) == CHOOSE i \in WordStarts(line) : Rank(line, i) = w
Fields(line) ==
    [w \in 1 .. Cardinality(WordStarts(line)) |->
        SubSeq(line, NthStart(line, w), WordEnd(line, NthStart(line, w)))]

\* strings.TrimSpace.
TrimSpace(line) ==
    LET at == {i \in 1 .. Len(line) : line[i] # Space}
    IN  IF at = {} THEN <<>>
        ELSE SubSeq(line, CHOOSE i \in at : \A j \in at : i <= j,
                    CHOOSE i \in at : \A j \in at : i >= j)

\* strings.Join(words, " ").
JoinWords(words) ==
    LET join[n \in 0 .. Len(words)] ==
          IF n = 0 THEN <<>>
          ELSE IF n = 1 THEN words[1]
          ELSE join[n - 1] \o <<Space>> \o words[n]
    IN  join[Len(words)]

\* A string is checked as it was typed, without its outer spaces; an array as
\* the line its strings would make (items that are no strings are dropped).
RunAllowed(kind, raw, words, prefixes) ==
    IF kind = "string" THEN CommandMatchesAllowlist(TrimSpace(raw), prefixes)
                       ELSE CommandMatchesAllowlist(JoinWords(words), prefixes)


\* keylatch_run: what runs is the fields of a string, or the array itself;
\* no credential is handed to it, and its output passes the template's
\* redaction rules.
CallRun(kind, raw, words, prefixes) ==
    LET command == IF kind = "string" THEN Fields(TrimSpace(raw)) ELSE words
    IN  /\ mcSrv = "stdio"
        /\ command # <<>>
        /\ RunAllowed(kind, raw, words, prefixes)
        /\ mcRan' = mcRan \cup {[argv |-> command, allowed |-> prefixes]}
        /\ UNCHANGED <<mcSrv, mcCancel, mcConns, mcNonces, mcCalls, mcTests,
                       mcAdmitted, mcSess, mcUse, mcNow>>

--------------------------------------------------------------------------
(* The bearer session *)

NewBearerSession ==
    /\ mcSrv = "bearer" /\ mcSess.issued = Never
    /\ mcSess' = [issued |-> mcNow, expires |-> mcNow + McTTL, last |-> mcNow]
    /\ mcUse' = [at |-> mcNow, before |-> mcNow]
    /\ UNCHANGED <<mcSrv, mcCancel, mcConns, mcNonces, mcCalls, mcTests,
                   mcAdmitted, mcRan, mcNow>>

SessionAccepts(match) ==
    match /\ mcNow <= mcSess.expires /\ mcNow - mcSess.last <= McIdle

\* lastUsedAt moves only when everything was in order.
TouchedAt(match) == IF SessionAccepts(match) THEN mcNow ELSE mcSess.last


CheckAndTouch(match) ==
    /\ mcSess.issued # Never
    /\ mcSess' = [mcSess EXCEPT !.last = TouchedAt(match)]
    /\ mcUse' = IF SessionAccepts(match)
                THEN [at |-> mcNow, before |-> mcUse.at] ELSE mcUse
    /\ UNCHANGED <<mcSrv, mcCancel, mcConns, mcNonces, mcCalls, mcTests,
                   mcAdmitted, mcRan, mcNow>>

McTick ==
    /\ mcNow < McMaxTime
    /\ mcSrv \in {"stdio", "bearer"}
    /\ mcNow' = mcNow + 1
    /\ UNCHANGED <<mcSrv, mcCancel, mcConns, mcNonces, mcCalls, mcTests,
                   mcAdmitted, mcRan, mcSess, mcUse>>

--------------------------------------------------------------------------

McInit ==
    /\ mcSrv = "down" /\ mcCancel = FALSE
    /\ mcConns = [c \in McConn |-> [st |-> "none", uid |-> "unknown",
                                    nonce |-> CHOOSE n \in McNonce : TRUE]]
    /\ mcNonces = [n \in McNonce |-> 0]
    /\ mcCalls = <<>> /\ mcTests = [k \in McCall |-> <<>>]
    /\ mcAdmitted = <<>> /\ mcRan = {}
    /\ mcSess = [issued |-> Never, expires |-> Never, last |-> Never]
    /\ mcUse = [at |-> Never, before |-> Never]
    /\ mcNow = 0



\* Bounds on how often the two tools are called; they share nothing, so a
\* behaviour calls one of them.
TestStep(k, p, a, n) ==
    mcRan = {} /\ Len(mcAdmitted) < McMaxTests /\ CallTest(k, p, a, n)
RunStep(kind, raw, words, prefixes) ==
    /\ mcAdmitted = <<>> /\ mcNow = 0 /\ Cardinality(mcRan) < McMaxRuns
    /\ CallRun(kind, raw, words, prefixes)

McNext ==
    \/ \E t \in Transports, b \in Binds, tok \in BOOLEAN, a \in Auths,
          l \in TTLs, os \in Systems :
          StartServer(t, b, tok, a, l, os) \/ StartRefused(t, b, tok, a, l, os)
    \/ \E c \in McConn, n \in McNonce :
          \/ \E uid \in PeerUIDs : AcceptUnix(c, uid, n)
          \/ AcceptBearer(c, n)
    \/ \E c \in McConn : CloseConn(c)
    \/ Cancel \/ ServeReturns \/ McTick \/ NewBearerSession
    \/ \E m \in BOOLEAN : CheckAndTouch(m)
    \/ \E k \in McCall : \/ TestAnswers(k)
                         \/ \E p \in McProviders, a, n \in McAccounts :
                               TestStep(k, p, a, n)
    \/ \E t \in McTemplates : \/ \E l \in McLines : RunStep("string", l, <<>>, t)
                            \/ \E w \in McArrays : RunStep("array", <<>>, w, t)

McSpec == McInit /\ [][McNext]_mcVars

--------------------------------------------------------------------------
(* Properties *)

\* However the arguments of keylatch_test spell it (an absent, empty or
\* "default" account or namespace), a connection is contacted at most once
\* per window of the limiter, whatever calls run at the same time.
TestsSpaced ==
    \A i, j \in 1 .. Len(mcAdmitted) :
        i < j /\ mcAdmitted[i].conn = mcAdmitted[j].conn
            => mcAdmitted[j].at - mcAdmitted[i].at >= McWindow

\* Connections the Unix socket holds are the server's own user's, and no two
\* connections, not even one that is gone, were given the same nonce: a nonce
\* that comes up again closes the newcomer and stays with its first owner.
NonceBinds ==
    \A c \in McConn : mcSrv = "unix" /\ mcConns[c].st = "open" =>
        /\ mcConns[c].uid = "server"
        /\ mcNonces[mcConns[c].nonce] = c

\* What keylatch_run executes starts, written as one line, with a prefix the
\* provider's template allows, whichever of the two forms it was asked in.
RunsAllowedLines ==
    \A r \in mcRan : CommandMatchesAllowlist(JoinWords(r.argv), r.allowed)

\* A bearer session is accepted only within its life and within the idle
\* limit of its last accepted use: a wrong token never keeps it alive.
SessionWindow ==
    mcSess.issued # Never =>
        /\ mcUse.at - mcUse.before <= McIdle
        /\ mcUse.at <= mcSess.issued + McTTL

\* The MCP server under calls and connections that overlap: tests are spaced,
\* a nonce belongs to one connection, only allowed lines are run, and a session
\* ends when its life or its idle limit does.
McpHolds == TestsSpaced /\ NonceBinds /\ RunsAllowedLines /\ SessionWindow
==========================================================================
