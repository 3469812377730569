----------------------------- MODULE RunCommand -----------------------------
(***************************************************************************)
(* `keylatch run` and `keylatch call`: a command is checked, dispatched to  *)
(* the driver of its runtime mode, and a child process is started in an     *)
(* environment the driver builds (internal/cli/root.go, cmd_call.go,        *)
(* internal/runner, internal/runtime, internal/sandbox).  Commands run side *)
(* by side with the gateway, the proxy and the daemon, which come and go.   *)
(*                                                                         *)
(* An environment is a function from names to values.  The names stand for  *)
(* classes of variables:                                                   *)
(*   KEY         the variable of the template's first injection rule,       *)
(*   KEY2, ID    those of its other rules; KEY and KEY2 are named like      *)
(*               credentials, ID is not (an account id, a URL),             *)
(*   CFG         a KEYLATCH_* setting of the caller,                        *)
(*   TOKEN, URL, RUNTIME   KEYLATCH_GATEWAY_TOKEN, _URL, KEYLATCH_RUNTIME,  *)
(*   SESSION     KEYLATCH_SESSION_TOKEN, the proxy's caller token,          *)
(*   BASE, CANARY   <PROVIDER>_BASE_URL, the canary credential,             *)
(*   PATH        a variable every child keeps,                              *)
(*   OTHER       any other, the session of a password manager among them.   *)
(* A value is a record [of, by]: what it is, and the command it belongs to. *)
(***************************************************************************)
EXTENDS Integers, Sequences, FiniteSets

CONSTANTS RnProc,      \* the commands running side by side
          RnRequest,   \* what a command may be started with
          NoProc       \* the owner of a value the commands did not make

ASSUME RnAssumption == NoProc \notin RnProc /\ \A r \in RnRequest : r.rules \subseteq {"KEY", "KEY2", "ID"}

VARIABLES rnAt,     \* where each command is
          rnReq,    \* its request
          rnEnv,    \* the environment it built for the child
          rnMem,    \* the credential bytes it holds
          rnChild,  \* its child or its call: "none", "ok", "failed"
          rnExit,   \* its exit code, or -1
          rnUp      \* the services that are running

rnVars == <<rnAt, rnReq, rnEnv, rnMem, rnChild, rnExit, rnUp>>

RnModes == {"gateway_typed", "gateway_sdk", "direct_brokered", "gateway_proxy",
            "direct_classic_sandboxed"}
RnNames == {"KEY", "KEY2", "ID", "CFG", "TOKEN", "URL", "RUNTIME", "SESSION", "BASE", "CANARY", "PATH", "OTHER"}
RnKeylatch == {"CFG", "TOKEN", "URL", "RUNTIME", "SESSION"}
NoEnv == [n \in {} |-> NoProc]
Value(what, p) == [of |-> what, by |-> p]

RnSet(env, n, v) == [m \in DOMAIN env \cup {n} |-> IF m = n THEN v ELSE env[m]]
RnKeep(env, names) == [n \in DOMAIN env \cap names |-> env[n]]

RnInit == /\ rnAt = [p \in RnProc |-> "idle"]
          /\ rnReq = [p \in RnProc |-> CHOOSE r \in RnRequest : TRUE]
          /\ rnEnv = [p \in RnProc |-> NoEnv]
          /\ rnMem = [p \in RnProc |-> {}]
          /\ rnChild = [p \in RnProc |-> "none"]
          /\ rnExit = [p \in RnProc |-> -1]
          /\ rnUp = {}
-----------------------------------------------------------------------------
(***************************************************************************)
(* What a command is refused for.  Each list is in the order of the code;   *)
(* the first reason that holds decides the exit code.                       *)
(***************************************************************************)
Refusal(reasons) == LET hold == SelectSeq(reasons, LAMBDA c : c[1])
                    IN  IF hold = <<>> THEN 0 ELSE hold[1][2]

IsRawCredentialMode(mode) == mode \in {"direct_brokered", "direct_classic_sandboxed"}

\* In an agent session every known mode is let through.
GuardRuntime(r) == r.llm /\ r.mode \notin RnModes

RunRefusal(r) ==
    Refusal(<< <<r.mode = "direct_classic", 5>>,
               <<~r.bootstrapped, 7>>,
               <<r.registered /\ ~r.connected, 6>>,
               <<IsRawCredentialMode(r.mode) /\ ~r.optIn, 2>>,
               <<r.mode \notin RnModes, 1>>,
               <<GuardRuntime(r), 2>>,
               <<r.allow /\ r.llm, 2>> >>)

\* The mode the dispatcher settles on, "" when the provider supports none; an
\* empty request asks for the preferred mode or the first of the hierarchy.
RnResolve(r) ==
    LET hierarchy == <<"gateway_typed", "gateway_sdk", "direct_brokered", "gateway_proxy">>
        fallback  == SelectSeq(hierarchy, LAMBDA m : m \in r.supported)
    IN  CASE r.mode # "" -> IF r.mode \in r.supported THEN r.mode ELSE ""
          [] r.mode = "" /\ r.preferred \in r.supported -> r.preferred
          [] OTHER -> IF fallback = <<>> THEN "" ELSE fallback[1]

DispatchRefusal(r) ==
    Refusal(<< <<~r.registered, 1>>,
               <<GuardRuntime(r), 2>>,
               <<~(r.allow \/ r.listed), 2>>,
               <<RnResolve(r) = "", 5>>,
               <<RnResolve(r) \notin r.manifest, 5>> >>)
-----------------------------------------------------------------------------
(***************************************************************************)
(* The environments.                                                       *)
(***************************************************************************)
RnParent == [n \in {"KEY", "KEY2", "ID", "CFG", "TOKEN", "PATH", "OTHER"} |-> Value("parent", NoProc)]

FilterChildEnv(env, keep) == RnKeep(env, (RnNames \ RnKeylatch) \cup keep)
CleanBaseEnv(env, extra) == RnKeep(env, {"PATH"} \cup extra)

ChildBase(env, r, keep) == IF r.clean THEN CleanBaseEnv(env, r.extra) ELSE FilterChildEnv(env, keep)
RnStrippedNone(r) == RnParent
RnStripped(r) == RnKeep(RnParent, RnNames \ r.rules)

WithCanary(env, r, p) == IF r.canary THEN RnSet(env, "CANARY", Value("canary", p)) ELSE env

GatewayChildEnv(r, p, urlVar) ==
    LET base   == ChildBase(RnStripped(r), r, {"TOKEN", "RUNTIME", urlVar})
        routed == RnSet(RnSet(RnSet(base, urlVar, Value("url", NoProc)),
                              "TOKEN", Value("token", p)),
                        "RUNTIME", Value("mode", p))
    IN  WithCanary(routed, r, p)

\* The ephemeral token goes to the first rule's variable, the others are emptied.
BrokeredChildEnv(r, p) ==
    LET injected == [n \in DOMAIN RnParent |->
                        IF n = "KEY" THEN Value("ephemeral", p)
                        ELSE IF n \in r.rules THEN Value("empty", p) ELSE RnParent[n]]
    IN  RnSet(ChildBase(injected, r, {}), "RUNTIME", Value("mode", p))

\* The proxy driver does not look at the template: it withholds of --extra what is
\* named like a credential, by a list of names and by the word a name ends in.
CredentialShaped == {"KEY", "KEY2", "TOKEN"}
ProxyChildEnv(r, p) ==
    LET base == RnKeep(RnParent, {"PATH"} \cup (r.extra \ CredentialShaped))
    IN  RnSet(RnSet(RnSet(base, "URL", Value("url", NoProc)), "SESSION", Value("token", p)),
              "RUNTIME", Value("mode", p))

DriverEnv(mode, r, p) ==
    CASE mode = "gateway_typed" -> GatewayChildEnv(r, p, "URL")
      [] mode = "gateway_sdk" -> GatewayChildEnv(r, p, "BASE")
      [] mode = "direct_brokered" -> BrokeredChildEnv(r, p)
      [] mode = "gateway_proxy" -> ProxyChildEnv(r, p)
-----------------------------------------------------------------------------
Goto(p, at) == rnAt' = [rnAt EXCEPT ![p] = at]

\* A driver returns: what it deferred runs, the exit code is set.
Exit(p, code) ==
    /\ Goto(p, "exited")
    /\ rnExit' = [rnExit EXCEPT ![p] = code]
    /\ rnMem' = [rnMem EXCEPT ![p] = {}]

ExitKeeping(p, code) ==
    /\ Goto(p, "exited")
    /\ rnExit' = [rnExit EXCEPT ![p] = code]
    /\ UNCHANGED rnMem

\* `run --dry-run` prints the plan before any check but the removed mode.
RunDryRun(p, r) ==
    /\ r.dry /\ r.mode # "direct_classic"
    /\ rnReq' = [rnReq EXCEPT ![p] = r]
    /\ Exit(p, IF r.registered THEN 0 ELSE 6)
    /\ UNCHANGED <<rnEnv, rnChild, rnUp>>

RunStart(p, r) ==
    /\ rnAt[p] = "idle" /\ r.cmd = "run"
    /\ \/ RunDryRun(p, r)
       \/ /\ ~r.dry \/ r.mode = "direct_classic"
          /\ rnReq' = [rnReq EXCEPT ![p] = r]
          /\ IF RunRefusal(r) # 0 THEN ExitKeeping(p, RunRefusal(r))
                                  ELSE Goto(p, "daemon") /\ UNCHANGED <<rnExit, rnMem>>
          /\ UNCHANGED <<rnEnv, rnChild, rnUp>>

\* The daemon is started when it is not running; if that fails the command ends.
RunDaemon(p) ==
    /\ rnAt[p] = "daemon"
    /\ \/ Goto(p, IF rnReq[p].cmd = "run" THEN "dispatch" ELSE "read") /\ rnUp' = rnUp \cup {"daemon"} /\ UNCHANGED <<rnExit, rnMem>>
       \/ "daemon" \notin rnUp /\ ExitKeeping(p, 5) /\ UNCHANGED rnUp
    /\ UNCHANGED <<rnReq, rnEnv, rnChild>>

RunDispatch(p) ==
    /\ rnAt[p] = "dispatch"
    /\ LET refused == DispatchRefusal(rnReq[p])
       IN  IF refused # 0 THEN Exit(p, refused) ELSE Goto(p, "alive") /\ UNCHANGED <<rnExit, rnMem>>
    /\ UNCHANGED <<rnReq, rnEnv, rnChild, rnUp>>

\* The gateway's or the proxy's PID is looked at once; it may stop right after.
DriverAlive(p) ==
    LET mode  == RnResolve(rnReq[p])
        needs == CASE mode \in {"gateway_typed", "gateway_sdk"} -> {"gateway"}
                   [] mode = "gateway_proxy" -> {"proxy"}
                   [] OTHER -> {}
    IN  /\ rnAt[p] = "alive"
        /\ IF needs \subseteq rnUp
           THEN Goto(p, "credential") /\ UNCHANGED <<rnExit, rnMem>>
           ELSE Exit(p, 5)
        /\ UNCHANGED <<rnReq, rnEnv, rnChild, rnUp>>

\* gateway and proxy drivers mint a token of their own; it may not be recorded.
DriverMint(p) ==
    LET mode == RnResolve(rnReq[p])
    IN  /\ rnAt[p] = "credential" /\ mode \in {"gateway_typed", "gateway_sdk", "gateway_proxy"}
        /\ \/ /\ Goto(p, "start") /\ UNCHANGED <<rnExit, rnMem>>
              /\ rnEnv' = [rnEnv EXCEPT ![p] = DriverEnv(mode, rnReq[p], p)]
           \/ Exit(p, 5) /\ UNCHANGED rnEnv
        /\ UNCHANGED <<rnReq, rnChild, rnUp>>

\* direct_brokered reads the root credential first, and wipes it on return.
BrokeredRead(p) ==
    /\ rnAt[p] = "credential" /\ RnResolve(rnReq[p]) = "direct_brokered"
    /\ \/ /\ Goto(p, "exchange") /\ UNCHANGED rnExit
          /\ rnMem' = [rnMem EXCEPT ![p] = {"root"}]
       \/ \E code \in {3, 5} : Exit(p, code)
    /\ UNCHANGED <<rnReq, rnEnv, rnChild, rnUp>>

BrokeredExchange(p) ==
    /\ rnAt[p] = "exchange"
    /\ \/ /\ Goto(p, "start") /\ UNCHANGED rnExit
          /\ rnMem' = [rnMem EXCEPT ![p] = @ \cup {"ephemeral"}]
          /\ rnEnv' = [rnEnv EXCEPT ![p] = DriverEnv("direct_brokered", rnReq[p], p)]
       \/ Exit(p, 5) /\ UNCHANGED rnEnv
    /\ UNCHANGED <<rnReq, rnChild, rnUp>>

\* The sandbox driver needs a feature flag that `run` never sets.
SandboxedRun(p) ==
    /\ rnAt[p] = "credential" /\ RnResolve(rnReq[p]) = "direct_classic_sandboxed"
    /\ Exit(p, 5)
    /\ UNCHANGED <<rnReq, rnEnv, rnChild, rnUp>>

\* cmd.Run: the child ends by itself with a code, or cannot be started at all.
ChildOutcome == {<<0, "ok">>, <<3, "failed">>, <<5, "none">>}

ChildRun(p) ==
    /\ rnAt[p] = "start"
    /\ \E o \in ChildOutcome : Exit(p, o[1]) /\ rnChild' = [rnChild EXCEPT ![p] = o[2]]
    /\ UNCHANGED <<rnReq, rnEnv, rnUp>>
-----------------------------------------------------------------------------
(***************************************************************************)
(* `keylatch call`: one HTTP action of the provider's catalogue.            *)
(***************************************************************************)
CallStart(p, r) ==
    /\ rnAt[p] = "idle" /\ r.cmd = "call"
    /\ rnReq' = [rnReq EXCEPT ![p] = r]
    /\ Goto(p, "daemon")
    /\ UNCHANGED <<rnEnv, rnMem, rnChild, rnExit, rnUp>>

CallRead(p) ==
    /\ rnAt[p] = "read"
    /\ CASE ~rnReq[p].registered -> ExitKeeping(p, 1)
         [] rnReq[p].registered /\ ~rnReq[p].connected -> ExitKeeping(p, 3)
         [] OTHER -> Goto(p, "call") /\ rnMem' = [rnMem EXCEPT ![p] = {"root"}] /\ UNCHANGED rnExit
    /\ UNCHANGED <<rnReq, rnEnv, rnChild, rnUp>>

\* executeAction: the provider answers in 200..299, answers otherwise, or the
\* request cannot be built, sent or read.
ActionOutcome == {<<0, "ok">>, <<1, "failed">>, <<5, "none">>}

\* The credential is wiped before the result is looked at.
CallAction(p) ==
    /\ rnAt[p] = "call"
    /\ \E o \in ActionOutcome : Exit(p, o[1]) /\ rnChild' = [rnChild EXCEPT ![p] = o[2]]
    /\ UNCHANGED <<rnReq, rnEnv, rnUp>>

\* The services the drivers depend on start and stop.
ServiceChanges ==
    /\ \E s \in {"gateway", "proxy", "daemon"} : rnUp' = (rnUp \cup {s}) \ (rnUp \cap {s})
    /\ UNCHANGED <<rnAt, rnReq, rnEnv, rnMem, rnChild, rnExit>>

RnNext ==
    \/ \E p \in RnProc, r \in RnRequest : RunStart(p, r) \/ CallStart(p, r)
    \/ \E p \in RnProc : \/ RunDaemon(p) \/ RunDispatch(p) \/ DriverAlive(p) \/ DriverMint(p)
                         \/ BrokeredRead(p) \/ BrokeredExchange(p) \/ SandboxedRun(p)
                         \/ ChildRun(p) \/ CallRead(p) \/ CallAction(p)
    \/ ServiceChanges

RnSpec == RnInit /\ [][RnNext]_rnVars
-----------------------------------------------------------------------------
(***************************************************************************)
(* Properties.                                                             *)
(***************************************************************************)
\* What the caller can hand to a child of the given mode although a rule names it.
Granted(mode, r) == IF mode = "gateway_proxy" THEN r.extra \cap {"ID"} ELSE {}

\* What the drivers must keep from the child.  A gateway child never has a variable
\* of the injection rules, whatever the caller's environment and --extra say, and a
\* proxy child only one that is not named like a credential and that --extra asked
\* for; the token a gateway child has is the one minted for this command, also when
\* the command itself runs inside the child of another; a brokered child has the
\* ephemeral token and no root key in any variable of the injection rules; and
\* no KEYLATCH_* setting gets through that --extra did not ask for.
RnChildClean ==
    \A p \in RnProc : rnEnv[p] # NoEnv =>
        LET env  == rnEnv[p]
            mode == RnResolve(rnReq[p])
        IN  /\ mode # "direct_brokered" => DOMAIN env \cap rnReq[p].rules \subseteq Granted(mode, rnReq[p])
            /\ mode \in {"gateway_typed", "gateway_sdk"} => env["TOKEN"] = Value("token", p)
            /\ \A n \in DOMAIN env : env[n].of = "parent" =>
                   n \notin rnReq[p].rules \ Granted(mode, rnReq[p]) /\ (n \in RnKeylatch => n \in rnReq[p].extra)

\* A command reports success only for a child or a call that ended well (or a
\* plan that was asked for): every refusal, failed start and failed exchange
\* ends with another code, and nothing was started behind it.
RnExitHonest ==
    \A p \in RnProc :
        /\ rnExit[p] = 0 => rnChild[p] = "ok" \/ rnReq[p].dry
        /\ rnChild[p] = "ok" => rnExit[p] = 0

\* When a command has ended, on whichever path, no credential it read or
\* exchanged is left in its buffers.
RnWiped == \A p \in RnProc : rnAt[p] = "exited" => rnMem[p] = {}

\* run and call in every mode, nested commands included: the child sees what
\* the mode allows, the exit code tells what happened, and nothing read is left.
RunHolds == RnChildClean /\ RnExitHonest /\ RnWiped
=============================================================================
