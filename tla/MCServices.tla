----------------------------- MODULE MCServices -----------------------------
(***************************************************************************)
(* One run for the services and commands that share no state: the variable  *)
(* part picks the component of a behaviour, and only that component moves.  *)
(***************************************************************************)
EXTENDS RunCommand,
        MintToken,
        Team,
        SignedBundles,
        CiIdentity,
        EventBuffers,
        TrustRoots,
        Connections,
        UiServer,
        Masking,
        McpServer,
        ForwardProxy,
        BwSession,
        Doctor, TLC

VARIABLE part   \* the component this behaviour is about

CONSTANTS c1, nobody, org, other, repo1, repo2, owner, m1, m2, u1, u2, cap1, keyA, keyB, nokid, p1, p2

\* run
SvRun == [cmd |-> "run", mode |-> "gateway_typed", dry |-> FALSE, llm |-> TRUE, allow |-> FALSE, listed |-> TRUE,
          bootstrapped |-> TRUE, connected |-> TRUE, registered |-> TRUE, optIn |-> TRUE, clean |-> FALSE,
          extra |-> {}, canary |-> FALSE, rules |-> {"KEY", "KEY2", "ID"}, preferred |-> "gateway_sdk",
          supported |-> RnModes, manifest |-> RnModes]
SvRequests ==
    {[SvRun EXCEPT !.mode = m, !.clean = c, !.extra = e] :
        m \in RnModes, c \in BOOLEAN, e \in {{}, {"KEY", "ID", "CFG"}}}
    \cup {[SvRun EXCEPT !.canary = TRUE], [SvRun EXCEPT !.dry = TRUE], [SvRun EXCEPT !.mode = "direct_classic", !.dry = TRUE],
          [SvRun EXCEPT !.bootstrapped = FALSE], [SvRun EXCEPT !.connected = FALSE], [SvRun EXCEPT !.mode = "unknown"],
          [SvRun EXCEPT !.optIn = FALSE, !.mode = "direct_brokered"], [SvRun EXCEPT !.allow = TRUE],
          [SvRun EXCEPT !.registered = FALSE], [SvRun EXCEPT !.listed = FALSE],
          [SvRun EXCEPT !.supported = {"gateway_sdk"}], [SvRun EXCEPT !.manifest = {"gateway_sdk"}],
          [SvRun EXCEPT !.cmd = "call"], [SvRun EXCEPT !.cmd = "call", !.connected = FALSE],
          [SvRun EXCEPT !.cmd = "call", !.registered = FALSE]}

\* mint
SvAsks == [caller : {"agent", "host", "human"}, owner : {org, other}, repo : {repo1}, level : {"read", "write"}]
SvMintPolicies ==
    {[kind |-> "none"]} \cup
    [kind : {"policy"}, callers : {{}, {"human"}, {"agent", "host"}}, deny : {{}, {other}}, allow : {{org}, {org, other}},
     ceiling : {"read", "write"}, max : {0, 1, 3}]
SvReplies == [repos : {{repo1}, {repo2}, {repo1, repo2}}, level : {"read", "write", "admin"}, ttl : 0 .. 3]

\* team
\* callers that do the same: of team and break-glass, verifications, commands,
\* requests of the UI and of the proxy
Interchangeable == Permutations({u1, u2})

\* orgpolicy
SvBundles == {[ver |-> 1, exp |-> 0, key |-> keyA, deny |-> {cap1}, ask |-> {}],
              [ver |-> 2, exp |-> 1, key |-> keyA, deny |-> {}, ask |-> {cap1}],
              [ver |-> 3, exp |-> 2, key |-> keyB, deny |-> {cap1}, ask |-> {}]}

\* teamregistry
SvRegistry == {[ver |-> 9, key |-> keyA], [ver |-> 10, key |-> keyA], [ver |-> 10, key |-> keyB], [ver |-> 11, key |-> keyB]}

\* trust
MCTrChain == << [id |-> "se", type |-> "secure_enclave", status |-> "active", ok |-> TRUE, fingerprint |-> "", auth |-> ""],
                [id |-> "old", type |-> "ssh_agent", status |-> "retired", ok |-> TRUE, fingerprint |-> "", auth |-> ""],
                [id |-> "card", type |-> "gpg_card", status |-> "active", ok |-> TRUE, fingerprint |-> "", auth |-> ""],
                [id |-> "hsm", type |-> "pkcs11", status |-> "active", ok |-> TRUE, fingerprint |-> "", auth |-> ""],
                [id |-> "ssh", type |-> "ssh_agent", status |-> "active", ok |-> TRUE, fingerprint |-> "", auth |-> ""],
                [id |-> "ssh2", type |-> "ssh_agent", status |-> "active", ok |-> TRUE, fingerprint |-> "k2", auth |-> ""],
                [id |-> "vlt", type |-> "vault_transit", status |-> "active", ok |-> TRUE, fingerprint |-> "", auth |-> "token"] >>
MCTrOps == [cap : {"none", "user_presence"}, llm : BOOLEAN, interactive : BOOLEAN, types : {{}, {"pkcs11", "ssh_agent"}},
            all : {<<>>, <<"hsm", "ssh", "old">>, <<"ssh_agent", "ssh2">>}]

\* team: it starts with an admin beside the owner; the third joins through SCIM
SvRoster(r) == [m \in TmMember |-> IF m \in DOMAIN r THEN [role |-> r[m], status |-> "active"] ELSE Absent]
SvRosters == {SvRoster(owner :> "owner" @@ m1 :> "admin")}

\* connections
MCCnSecret == <<"extra", "key">>
MCCnConfig == <<"base">>
MCCnAsks == {[field |-> {"extra", "key"}, env |-> {}, ref |-> {}, empty |-> {}, argv |-> FALSE, test |-> TRUE],
             [field |-> {"base", "extra"}, env |-> {"key"}, ref |-> {"inst"}, empty |-> {"extra", "base"}, argv |-> FALSE, test |-> FALSE],
             [field |-> {"extra"}, env |-> {}, ref |-> {}, empty |-> {}, argv |-> FALSE, test |-> TRUE],
             [field |-> {"key"}, env |-> {"extra"}, ref |-> {"key"}, empty |-> {}, argv |-> FALSE, test |-> TRUE],
             [field |-> {"key"}, env |-> {}, ref |-> {}, empty |-> {}, argv |-> TRUE, test |-> TRUE]}

\* ui
MCUsLaunches == [cmd : {"ui"}, llm : BOOLEAN, scope : {2, 3}, unsafe : BOOLEAN, listen : BOOLEAN]
    \cup [cmd : {"daemon", "desktop"}, llm : BOOLEAN, scope : {2}, unsafe : {FALSE}, listen : {FALSE}]

\* masking
MCMkNone == [sfx |-> FALSE, word |-> FALSE, ident |-> FALSE, page |-> FALSE, content |-> FALSE]
MCMkName == [token |-> [MCMkNone EXCEPT !.sfx = TRUE],
             secret_id |-> [MCMkNone EXCEPT !.word = TRUE, !.ident = TRUE],
             my_secret_x |-> [MCMkNone EXCEPT !.word = TRUE],
             page_token |-> [MCMkNone EXCEPT !.sfx = TRUE, !.page = TRUE],
             body |-> [MCMkNone EXCEPT !.content = TRUE],
             x |-> MCMkNone]
MCMkField == DOMAIN MCMkName \cup {"label", "name", "value"}
MCMkLeaves == {MkLeaf(v) : v \in {"plain", "api_key", "long_token", "true"}}
MCMkObj(ds) == {[t |-> "obj", e |-> {[k |-> k, d |-> d]}] : k \in DOMAIN MCMkName, d \in ds}
MCMkPair(k, d) == [t |-> "obj", e |-> {[k |-> "name", d |-> MkLeaf(k)], [k |-> "value", d |-> d]}]
MCMkPairs == {MCMkPair(k, d) : k \in DOMAIN MCMkName, d \in MCMkLeaves}
MCMkArr(ds) == {[t |-> "arr", e |-> {MkLeaf("plain"), d}] : d \in ds}
MCMkFlat == MCMkObj(MCMkLeaves) \cup MCMkPairs
MCMkDeep == MCMkArr(MCMkPairs) \cup MCMkObj({MkLeaf("plain"), MkLeaf("pem")})
MCMkBodies == [json : {TRUE}, doc : MCMkFlat \cup MCMkArr(MCMkFlat) \cup MCMkObj(MCMkDeep)]
    \cup [json : {FALSE}, doc : {{[k |-> k, v |-> v]} : k \in DOMAIN MCMkName, v \in {"plain", "pem", "api_key"}}]
MCMkPolicies == [gateway : {FALSE}, level : {"basic", "strict", "unset"}, allow : {{"x"}}, untrusted : {TRUE}, handling : {"label", "strip", "summarize"}, patterns : {{}}]
    \cup [gateway : {FALSE}, level : {"metadata_only", "block_body", "other"}, allow : {{}, {"x", "body"}}, untrusted : {TRUE}, handling : {"label", "strip"}, patterns : {{}}]
    \cup [gateway : {TRUE}, level : {"unset", "basic", "strict", "metadata_only", "other"}, allow : {{}}, untrusted : {FALSE}, handling : {"label"}, patterns : {{}, {"api_key"}}]

\* mcp
\* Every string and every array of at most two items of these lengths.
Allowlists == {{<<"g", " ", "s">>}, {<<"g", " ">>}, {}}
Lines == UNION {[1 .. n -> Letters] : n \in 0 .. 5}
Words == {<<"g">>, <<"s">>, <<"g", " ", "s">>, <<"s", "g">>, <<>>}
Arrays == UNION {[1 .. n -> Words] : n \in 0 .. 3}

\* proxy
ProxyRoutes == <<[method |-> "GET", path |-> <<"v1", "me">>, secret |-> "none", placement |-> "bearer"],
                 [method |-> "GET", path |-> <<"v1">>, secret |-> "s1", placement |-> "bearer"],
                 [method |-> "POST", path |-> <<"v1", "me">>, secret |-> "s3", placement |-> "query"],
                 [method |-> "", path |-> <<>>, secret |-> "s2", placement |-> "header"]>>
ProxySub == {<<"cdn", "other">>}
ProxyHeaders == {{"plain", "authorization", "proxy-authorization", "x-keylatch"}}
ProxyPaths == {<<"v1">>, <<"v1", "me">>}

\* doctor
DoctorFacts ==
  [os |-> {"other"}, conf |-> {"absent", "rejected"}, backend |-> {"file", "keychain", "bw", "unknown"},
   mode |-> {"bad"}, docker |-> {TRUE}, keyring |-> {"absent", "empty"}, confdir |-> {"loose"},
   vault |-> {"absent", "loose", "plainfile"}, audit |-> {"absent", "sealed", "dirsealed"},
   kek |-> {"both", "acknowledged", "plain", "none"}, ageEnv |-> {TRUE}, llm |-> {TRUE},
   op |-> {"absent", "error"}, bw |-> {"found"}, keeper |-> {"error"}, ksm |-> {"error"},
   sops |-> {"error"}, cosign |-> {"absent"}, security |-> {"absent"}, opToken |-> {FALSE},
   opSignedIn |-> {FALSE}, bwSession |-> {"cached"}, refs |-> {TRUE}, db |-> {"absent", "loose"},
   acl |-> {"broken"}, aws |-> {"broken"}, guard |-> {FALSE}, gateway |-> {"stale"}, ui |-> {"retained"}]

SvParts == {"run", "mint", "team", "breakglass", "orgpolicy", "teamregistry", "ci", "siem", "trust", "connections", "ui", "streams", "mux", "masking", "mcp", "proxy", "bwsession", "doctor"}

SvInit ==
    /\ part \in SvParts
    /\ RnInit
    /\ MtInit
    /\ TmInit
    /\ BgInit
    /\ SbInit
    /\ RgInit
    /\ CiInit
    /\ SxInit
    /\ TrInit
    /\ CnInit
    /\ UsInit
    /\ EsInit
    /\ MxInit
    /\ MkInit
    /\ McInit
    /\ PxInit
    /\ BsInit
    /\ DrInit

SvNext ==
  \/ part = "run" /\ RnNext
     /\ UNCHANGED <<part, mtVars, tmVars, bgVars, sbVars, rgVars, ciVars, sxVars, trVars, cnVars, usVars, esVars, mxVars, mkVars, mcVars, pxVars, bsVars, drVars>>
  \/ part = "mint" /\ MtNext
     /\ UNCHANGED <<part, rnVars, tmVars, bgVars, sbVars, rgVars, ciVars, sxVars, trVars, cnVars, usVars, esVars, mxVars, mkVars, mcVars, pxVars, bsVars, drVars>>
  \/ part = "team" /\ TmNext
     /\ UNCHANGED <<part, rnVars, mtVars, bgVars, sbVars, rgVars, ciVars, sxVars, trVars, cnVars, usVars, esVars, mxVars, mkVars, mcVars, pxVars, bsVars, drVars>>
  \/ part = "breakglass" /\ BgNext
     /\ UNCHANGED <<part, rnVars, mtVars, tmVars, sbVars, rgVars, ciVars, sxVars, trVars, cnVars, usVars, esVars, mxVars, mkVars, mcVars, pxVars, bsVars, drVars>>
  \/ part = "orgpolicy" /\ SbNext
     /\ UNCHANGED <<part, rnVars, mtVars, tmVars, bgVars, rgVars, ciVars, sxVars, trVars, cnVars, usVars, esVars, mxVars, mkVars, mcVars, pxVars, bsVars, drVars>>
  \/ part = "teamregistry" /\ RgNext
     /\ UNCHANGED <<part, rnVars, mtVars, tmVars, bgVars, sbVars, ciVars, sxVars, trVars, cnVars, usVars, esVars, mxVars, mkVars, mcVars, pxVars, bsVars, drVars>>
  \/ part = "ci" /\ CiNext
     /\ UNCHANGED <<part, rnVars, mtVars, tmVars, bgVars, sbVars, rgVars, sxVars, trVars, cnVars, usVars, esVars, mxVars, mkVars, mcVars, pxVars, bsVars, drVars>>
  \/ part = "siem" /\ SxNext
     /\ UNCHANGED <<part, rnVars, mtVars, tmVars, bgVars, sbVars, rgVars, ciVars, trVars, cnVars, usVars, esVars, mxVars, mkVars, mcVars, pxVars, bsVars, drVars>>
  \/ part = "trust" /\ TrNext
     /\ UNCHANGED <<part, rnVars, mtVars, tmVars, bgVars, sbVars, rgVars, ciVars, sxVars, cnVars, usVars, esVars, mxVars, mkVars, mcVars, pxVars, bsVars, drVars>>
  \/ part = "connections" /\ CnNext
     /\ UNCHANGED <<part, rnVars, mtVars, tmVars, bgVars, sbVars, rgVars, ciVars, sxVars, trVars, usVars, esVars, mxVars, mkVars, mcVars, pxVars, bsVars, drVars>>
  \/ part = "ui" /\ UsNext
     /\ UNCHANGED <<part, rnVars, mtVars, tmVars, bgVars, sbVars, rgVars, ciVars, sxVars, trVars, cnVars, esVars, mxVars, mkVars, mcVars, pxVars, bsVars, drVars>>
  \/ part = "streams" /\ EsNext
     /\ UNCHANGED <<part, rnVars, mtVars, tmVars, bgVars, sbVars, rgVars, ciVars, sxVars, trVars, cnVars, usVars, mxVars, mkVars, mcVars, pxVars, bsVars, drVars>>
  \/ part = "mux" /\ MxNext
     /\ UNCHANGED <<part, rnVars, mtVars, tmVars, bgVars, sbVars, rgVars, ciVars, sxVars, trVars, cnVars, usVars, esVars, mkVars, mcVars, pxVars, bsVars, drVars>>
  \/ part = "masking" /\ MkNext
     /\ UNCHANGED <<part, rnVars, mtVars, tmVars, bgVars, sbVars, rgVars, ciVars, sxVars, trVars, cnVars, usVars, esVars, mxVars, mcVars, pxVars, bsVars, drVars>>
  \/ part = "mcp" /\ McNext
     /\ UNCHANGED <<part, rnVars, mtVars, tmVars, bgVars, sbVars, rgVars, ciVars, sxVars, trVars, cnVars, usVars, esVars, mxVars, mkVars, pxVars, bsVars, drVars>>
  \/ part = "proxy" /\ PxNext
     /\ UNCHANGED <<part, rnVars, mtVars, tmVars, bgVars, sbVars, rgVars, ciVars, sxVars, trVars, cnVars, usVars, esVars, mxVars, mkVars, mcVars, bsVars, drVars>>
  \/ part = "bwsession" /\ BsNext
     /\ UNCHANGED <<part, rnVars, mtVars, tmVars, bgVars, sbVars, rgVars, ciVars, sxVars, trVars, cnVars, usVars, esVars, mxVars, mkVars, mcVars, pxVars, drVars>>
  \/ part = "doctor" /\ DrNext
     /\ UNCHANGED <<part, rnVars, mtVars, tmVars, bgVars, sbVars, rgVars, ciVars, sxVars, trVars, cnVars, usVars, esVars, mxVars, mkVars, mcVars, pxVars, bsVars>>

SvVars == <<part, rnVars, mtVars, tmVars, bgVars, sbVars, rgVars, ciVars, sxVars, trVars, cnVars, usVars, esVars, mxVars, mkVars, mcVars, pxVars, bsVars, drVars>>
SvSpec == SvInit /\ [][SvNext]_SvVars
=============================================================================
