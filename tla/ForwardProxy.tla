--------------------------- MODULE ForwardProxy ---------------------------
(***************************************************************************)
(* The intercepting proxy (internal/proxy): who may use it, which requests *)
(* it lets through, where the credential of a route is added and where it  *)
(* may go, the tunnels of CONNECT and the certificates made for them.      *)
(* Several requests are under way at once; they share the token, the       *)
(* secrets of the vault and the certificate cache.                         *)
(***************************************************************************)
EXTENDS Integers, FiniteSets, Sequences

CONSTANTS PxReq,       \* requests that may be under way
          PxHost,      \* host names
          PxAllowed,   \* Profile.Hosts
          PxSub,       \* <<h, s>>: s is a subdomain of h
          PxRoutes,    \* Profile.Routes, in order
          PxHeaders,   \* sets of headers that clients send
          PxPath,      \* request paths, as sequences of segments
          PxMaxRounds, \* bound on the number of requests
          PxLeafLife,  \* life of a leaf certificate
          PxMaxCerts,  \* the cache is thrown away above this size
          PxMaxTime

ASSUME PxAssumption ==
    /\ PxAllowed \subseteq PxHost
    /\ PxMaxRounds \in Nat /\ PxLeafLife \in Nat \ {0} /\ PxMaxCerts \in Nat
    /\ Len(PxRoutes) \in Nat

VARIABLES pxUp,     \* Serve has passed its checks
          pxToken,  \* the caller token has been made
          pxReq,    \* per request: its phase, what it asks, what was found
          pxRounds, \* requests so far
          pxSent,   \* what went to upstream hosts
          pxCA,     \* the certificate authority is there
          pxCerts,  \* certificate cache: host -> expiry
          pxServed, \* leaf certificates handed to clients: host, expiry, time
          pxNow

pxVars == <<pxUp, pxToken, pxReq, pxRounds, pxSent, pxCA, pxCerts,
            pxServed, pxNow>>

\* A wrong token is refused like a missing one.
Auth == {"right", "wrong"}

\* A request: the host of its address, its path, the headers that matter.
NoRequest == [phase |-> "none"]

\* Serve refuses an address that is not a loopback and makes the token before
\* the first connection can arrive.
StartProxy(loopback) ==
    /\ ~pxUp /\ loopback
    /\ pxUp' = TRUE /\ pxToken' = TRUE
    /\ UNCHANGED <<pxReq, pxRounds, pxSent, pxCA, pxCerts,
                   pxServed, pxNow>>

CheckCallerAuth(auth) == ~pxToken \/ auth = "right"

HostAllowed(h) == h \in PxAllowed

\* matchRoute: the first route whose method fits and whose path is a prefix.
Prefix(p, path) == Len(p) <= Len(path) /\ SubSeq(path, 1, Len(p)) = p
RouteFits(r, method, path) ==
    r.method \in {"", method} /\ Prefix(r.path, path)
MatchRouteLast(method, path) ==
    LET fits == {i \in 1 .. Len(PxRoutes) : RouteFits(PxRoutes[i], method, path)}
    IN  IF fits = {} THEN 0 ELSE CHOOSE i \in fits : \A j \in fits : i >= j
MatchRoute(method, path) ==
    LET fits == {i \in 1 .. Len(PxRoutes) : RouteFits(PxRoutes[i], method, path)}
    IN  IF fits = {} THEN 0 ELSE CHOOSE i \in fits : \A j \in fits : i <= j


\* A refused request is audited and answered; nothing of it is left.
Deny(q) == pxReq' = [pxReq EXCEPT ![q] = NoRequest]

--------------------------------------------------------------------------
(* Requests *)

\* A request of a client: host h, the method, the path, how it authenticates
\* to the proxy, and its headers; the token comes in one of them.
TokenIn(auth) == IF auth = "right" THEN {"proxy-authorization"} ELSE {}
Arrive(q, connect, h, method, path, auth, headers) ==
    /\ pxUp /\ pxReq[q] = NoRequest /\ pxRounds < PxMaxRounds
    /\ pxRounds' = pxRounds + 1
    /\ IF CheckCallerAuth(auth)
       THEN pxReq' = [pxReq EXCEPT ![q] =
                 [phase |-> IF connect THEN "connect" ELSE "route",
                  dial |-> h, host |-> h, method |-> method, path |-> path,
                  auth |-> auth, route |-> 0, got |-> FALSE,
                  headers |-> headers \cup TokenIn(auth)]]
       ELSE Deny(q)
    /\ UNCHANGED <<pxUp, pxToken, pxSent, pxCA, pxCerts, pxServed, pxNow>>

\* routeHandler up to the choice of the route: the host, what it resolves to,
\* the caller's Authorization header dropped, the route.
Route(q, resolved) ==
    LET x == pxReq[q]
        r == MatchRoute(x.method, x.path)
    IN  /\ x.phase = "route"
        /\ IF ~HostAllowed(x.host) THEN Deny(q)
           ELSE IF resolved # "public" THEN Deny(q)
           ELSE IF r = 0 THEN Deny(q)
           ELSE pxReq' = [pxReq EXCEPT ![q] =
                    [x EXCEPT !.phase = "fetch", !.route = r,
                              !.headers = x.headers \ {"authorization"}]]
        /\ UNCHANGED <<pxUp, pxToken, pxRounds, pxSent, pxCA, pxCerts,
                       pxServed, pxNow>>

\* Vault.Get of the route's secret reference; a value without one goes on
\* without a credential, and so does a stored value that is empty; a failure
\* answers 503.
Fetched == {"value", "empty", "failed"}
Fetch(q, got) ==
    LET s == PxRoutes[pxReq[q].route].secret
    IN  /\ pxReq[q].phase = "fetch"
        /\ pxReq' = [pxReq EXCEPT ![q] =
              IF s # "none" /\ got = "failed" THEN NoRequest
              ELSE [@ EXCEPT !.phase = "send", !.got = (s # "none" /\ got = "value")]]
        /\ UNCHANGED <<pxUp, pxToken, pxRounds, pxSent, pxCA,
                       pxCerts, pxServed, pxNow>>

\* The headers copied to the upstream request: not authorization, not
\* proxy-authorization, no x-keylatch-*.
ForwardedAll(x) == x.headers
Forwarded(x) == x.headers \ {"authorization", "proxy-authorization", "x-keylatch"}

Outgoing(q, to, creds) ==
    [to |-> to, from |-> pxReq[q].dial, headers |-> Forwarded(pxReq[q]), cred |-> creds,
     by |-> pxReq[q].auth, route |-> pxReq[q].route,
     method |-> pxReq[q].method, path |-> pxReq[q].path]

Credential(q) ==
    IF pxReq[q].got THEN {PxRoutes[pxReq[q].route].secret} ELSE {}

\* The HTTP client has no policy of its own and follows a redirection to any
\* host: the Authorization header (bearer and basic) goes along to the same host
\* and to its subdomains, a header with a name of its own always, and a query
\* parameter in the Referer, unless the target is no longer https or the
\* client has sent a Referer itself.
RedirectKeeps(q, to, refers) ==
    LET placement == PxRoutes[pxReq[q].route].placement
    IN  \/ to = pxReq[q].dial
        \/ placement \in {"bearer", "basic"} /\ <<pxReq[q].dial, to>> \in PxSub
        \/ placement = "header"
        \/ placement = "query" /\ refers

PxSend(q, redirect, refers) ==
    LET x == pxReq[q]
        first == Outgoing(q, x.dial, Credential(q))
        next == Outgoing(q, redirect,
                         IF RedirectKeeps(q, redirect, refers) THEN Credential(q) ELSE {})
    IN  /\ x.phase = "send"
        /\ pxSent' = pxSent \cup {first}
                            \cup (IF redirect = x.dial THEN {} ELSE {next})
        /\ pxReq' = [pxReq EXCEPT ![q] = NoRequest]
        /\ UNCHANGED <<pxUp, pxToken, pxRounds, pxCA, pxCerts,
                       pxServed, pxNow>>

--------------------------------------------------------------------------
(* CONNECT *)

\* handleCONNECT: the host and what it resolves to; then a certificate for
\* it, or a tunnel the proxy does not look into.
PxConnect(q, resolved) ==
    LET x == pxReq[q]
    IN  /\ x.phase = "connect"
        /\ IF ~HostAllowed(x.host) THEN Deny(q)
           ELSE IF resolved # "public" THEN Deny(q)
           ELSE pxReq' = [pxReq EXCEPT ![q] =
                      IF pxCA THEN [@ EXCEPT !.phase = "leaf"]
                              ELSE [@ EXCEPT !.phase = "tunnel"]]
        /\ UNCHANGED <<pxUp, pxToken, pxRounds, pxSent, pxCA, pxCerts,
                       pxServed, pxNow>>

\* CertForHost, under the lock: an unexpired leaf from the cache, else a new
\* one; a full cache is thrown away first.
LeafUsable(h) == h \in DOMAIN pxCerts /\ pxNow < pxCerts[h]


KeptCerts ==
    IF Cardinality(DOMAIN pxCerts) > PxMaxCerts THEN {} ELSE DOMAIN pxCerts

CertForHost(q) ==
    LET h == pxReq[q].host
        until == IF LeafUsable(h) THEN pxCerts[h] ELSE pxNow + PxLeafLife
        kept == IF LeafUsable(h) THEN DOMAIN pxCerts ELSE KeptCerts \cup {h}
    IN  /\ pxReq[q].phase = "leaf"
        /\ pxCerts' = [c \in kept |-> IF c = h THEN until ELSE pxCerts[c]]
        /\ pxServed' = pxServed \cup {[host |-> h, until |-> until, at |-> pxNow]}
        /\ pxReq' = [pxReq EXCEPT ![q].phase = "inside"]
        /\ UNCHANGED <<pxUp, pxToken, pxRounds, pxSent, pxCA, pxNow>>

\* The request inside the tunnel names its host itself, in its Host header;
\* it is sent to the host of the CONNECT whatever that says.
Inner(q, h, method, path, headers) ==
    /\ pxReq[q].phase = "inside"
    /\ pxReq' = [pxReq EXCEPT ![q] =
          [@ EXCEPT !.phase = "route", !.host = h, !.method = method,
                    !.path = path, !.headers = headers]]
    /\ UNCHANGED <<pxUp, pxToken, pxRounds, pxSent, pxCA, pxCerts,
                   pxServed, pxNow>>

\* The tunnel without a certificate copies bytes, or the handshake fails, the
\* client goes away: the request is over.
Close(q) ==
    /\ pxReq[q].phase \in {"tunnel", "inside"}
    /\ pxReq' = [pxReq EXCEPT ![q] = NoRequest]
    /\ UNCHANGED <<pxUp, pxToken, pxRounds, pxSent, pxCA, pxCerts,
                   pxServed, pxNow>>

\* The clock matters only to the cache.
PxTick ==
    /\ DOMAIN pxCerts # {} /\ pxNow < PxMaxTime /\ pxNow' = pxNow + 1
    /\ UNCHANGED <<pxUp, pxToken, pxReq, pxRounds, pxSent, pxCA,
                   pxCerts, pxServed>>

--------------------------------------------------------------------------

PxInit ==
    /\ pxUp = FALSE /\ pxToken = FALSE
    /\ pxReq = [q \in PxReq |-> NoRequest]
    /\ pxRounds = 0 /\ pxSent = {}
    /\ pxCA = FALSE /\ pxCerts = <<>> /\ pxServed = {} /\ pxNow = 0

\* LoadOrCreateCA before Serve.
LoadOrCreateCA ==
    /\ ~pxUp /\ ~pxCA /\ pxCA' = TRUE
    /\ UNCHANGED <<pxUp, pxToken, pxReq, pxRounds, pxSent, pxCerts,
                   pxServed, pxNow>>

PxNext ==
    \/ LoadOrCreateCA \/ PxTick
    \/ \E l \in BOOLEAN : StartProxy(l)
    \/ \E q \in PxReq :
          \/ \E h \in PxHost, a \in Auth :
                \/ Arrive(q, TRUE, h, "CONNECT", <<>>, a, {})
                \/ \E m \in {"GET", "POST"}, p \in PxPath, hs \in PxHeaders :
                      Arrive(q, FALSE, h, m, p, a, hs)
          \/ \E d \in {"public", "private"} :
                Route(q, d) \/ PxConnect(q, d)
          \/ \E got \in Fetched : Fetch(q, got)
          \/ \E h \in PxHost, refers \in BOOLEAN : PxSend(q, h, refers)
          \/ CertForHost(q) \/ Close(q)
          \/ \E h \in PxHost, m \in {"GET", "POST"}, p \in PxPath, hs \in PxHeaders :
                Inner(q, h, m, p, hs)

PxSpec == PxInit /\ [][PxNext]_pxVars
--------------------------------------------------------------------------
(* Properties *)

\* A credential is added only to a request of a caller that presented the
\* proxy's token, is the secret of the first route that fits the request,
\* inside a tunnel as well as outside, and goes to a host of the profile,
\* whatever host the inner request named.  The exception is a redirection,
\* which takes it to a host that the profile need not allow: the code sets no
\* policy for redirections (server.go:541), although a credential is not to
\* leave the allowed hosts (redirect_masking_security_test.go:60).  What the
\* property says of them is that a credential in the Authorization header stays
\* with the host of the profile it was meant for and the subdomains of that one.
CredentialConfined ==
    \A m \in pxSent : m.cred # {} =>
        /\ m.by = "right"
        /\ m.route = MatchRoute(m.method, m.path)
        /\ m.cred = {PxRoutes[m.route].secret}
        /\ \A i \in 1 .. m.route - 1 : ~RouteFits(PxRoutes[i], m.method, m.path)
        /\ m.from \in PxAllowed
        /\ \/ m.to = m.from \/ <<m.from, m.to>> \in PxSub
           \/ PxRoutes[m.route].placement \in {"header", "query"}

\* What the caller presents to the proxy, and what it would like to tell the
\* origin in the credential's place, never leaves the proxy, on a route without
\* a credential and over a redirection as well (server.go:241, server.go:289).
CallerSecretsKept ==
    \A m \in pxSent : m.headers \cap {"authorization", "proxy-authorization", "x-keylatch"} = {}

\* A client is never shown a leaf that has expired, however long the cache has
\* held it, and the cache stays within its bound.
LeafValid ==
    /\ \A l \in pxServed : l.at < l.until
    /\ Cardinality(DOMAIN pxCerts) <= PxMaxCerts + 1

\* The forward proxy, inside tunnels, over redirections and with a cache of
\* leaves: a credential goes only to its route's host and where redirections take
\* it from there, nothing of the caller's goes along, and no expired leaf is shown.
ProxyHolds == CredentialConfined /\ CallerSecretsKept /\ LeafValid
==========================================================================
