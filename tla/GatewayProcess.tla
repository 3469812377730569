--------------------------- MODULE GatewayProcess ---------------------------
(***************************************************************************)
(* The processes behind `keylatch gateway up` and `gateway down`: the PID    *)
(* file, the check that its PID is a live keylatch process, the address the  *)
(* gateway binds and the signal that stops it (internal/cli/gateway_cmd.go,  *)
(* internal/gateway/pid.go, pid_identity.go, bind_resolve.go).              *)
(*                                                                         *)
(* PIDs are reused once their process has ended, except while a `down` is    *)
(* between its identity check and its signal (assumption: the kernel does    *)
(* not hand out a PID again within milliseconds).                            *)
(***************************************************************************)
EXTENDS Naturals, FiniteSets

CONSTANT GpPid   \* process identifiers; 0 is the absent PID

ASSUME GpAssumption == 0 \notin GpPid

VARIABLES gpHost,   \* the machine; "renamed" is a unix on which ps shows keylatch under another name
          gpProc,   \* PID -> the process
          gpFile,   \* the PID in gateway.pid, 0 when there is no file
          gpDown,   \* the `gateway down` in progress
          gpStruck  \* a `down` without --force has signalled another program

gpVars == <<gpHost, gpProc, gpFile, gpDown, gpStruck>>

GpFree   == [kind |-> "free", at |-> "none", llm |-> FALSE, bind |-> "none", shared |-> FALSE]
GpNoDown == [at |-> "idle", force |-> FALSE]

GpHosts == {"unix", "renamed", "windows"}

GpInit == /\ gpHost \in GpHosts
          /\ gpProc = [p \in GpPid |-> GpFree]
          /\ gpFile = 0 /\ gpDown = GpNoDown /\ gpStruck = FALSE

GpGateways == {p \in GpPid : gpProc[p].kind = "gateway"}
-----------------------------------------------------------------------------
\* IsRunning: the file names a process that exists, whatever it is.
IsRunning == gpFile # 0 /\ gpProc[gpFile].kind # "free"

\* VerifyProcessIdentity asks ps for the command line and takes its first field for
\* the executable.  ps may be missing or fail; every keylatch command has the
\* gateway's name, unless its path has a space or the binary was renamed.
Identities(p) ==
    {"unknown", IF gpProc[p].kind = "other" \/ gpHost = "renamed" THEN "mismatch" ELSE "matched"}

\* On Windows nobody is asked.
ResolveUpAction(id, force) ==
    CASE ~force \/ gpHost = "windows" -> "refuse"
      [] id = "mismatch"              -> "recover"
      [] OTHER                        -> "refuse"

ResolveDownActionTidy(id, force) ==
    CASE gpHost = "windows" \/ id = "matched" -> "proceed" [] id = "unknown" /\ force -> "proceed" [] OTHER -> "stale"
ResolveDownAction(id, force) ==
    CASE gpHost = "windows"         -> "proceed"
      [] id = "matched"             -> "proceed"
      [] id = "mismatch"            -> "stale"
      [] id = "unknown" /\ force    -> "proceed"
      [] id = "unknown" /\ ~force   -> "refuse"

\* ResolveBindAddr: --listen, then the variable, then --unsafe-bind-all.
ResolveBindAddr(listen, unsafe, envListen) ==
    IF listen \/ envListen \/ unsafe THEN "external" ELSE "loopback"

\* In an agent session none of the three may widen the address.
UpBind(llm, listen, unsafe, envListen) ==
    ResolveBindAddr(listen /\ ~llm, unsafe /\ ~llm, envListen /\ ~llm)
-----------------------------------------------------------------------------
(***************************************************************************)
(* gateway up.  `shared` marks a gateway whose life overlapped with another  *)
(* `up`, or whose start overlapped with a `down`.                            *)
(***************************************************************************)
NewGateway(p, at, llm, bind) ==
    [q \in GpPid |->
        IF q = p THEN [kind |-> "gateway", at |-> at, llm |-> llm, bind |-> bind,
                       shared |-> GpGateways # {} \/ gpDown.at # "idle"]
        ELSE IF q \in GpGateways THEN [gpProc[q] EXCEPT !.shared = TRUE] ELSE gpProc[q]]

UpStart(p) ==
    /\ gpProc[p].kind = "free"
    /\ \E llm \in BOOLEAN : \E bind \in {UpBind(llm, l, u, e) : l, u, e \in BOOLEAN} :
         \/ ~IsRunning /\ gpProc' = NewGateway(p, "starting", llm, bind)
         \/ /\ IsRunning
            /\ \E force \in BOOLEAN, id \in Identities(gpFile) : ResolveUpAction(id, force) = "recover"
            /\ gpProc' = NewGateway(p, "recover", llm, bind)
    /\ UNCHANGED <<gpFile, gpDown, gpStruck>>

Becomes(p, at) == gpProc' = [gpProc EXCEPT ![p].at = at]
Ends(p)        == gpProc' = [gpProc EXCEPT ![p] = GpFree]

UpRecover(p) ==
    /\ gpProc[p].at = "recover"
    /\ gpFile' = 0 /\ Becomes(p, "starting")
    /\ UNCHANGED <<gpDown, gpStruck>>

\* No signing key, a key of another length, a bad address, a vault or an audit log
\* that cannot be opened: the command ends before the PID file is written.
UpFails(p) ==
    /\ gpProc[p].at = "starting"
    /\ Ends(p) /\ UNCHANGED <<gpFile, gpDown, gpStruck>>

\* The PID file is written before the port is bound.
UpWritePID(p) ==
    /\ gpProc[p].at = "starting"
    /\ gpFile' = p /\ Becomes(p, "written")
    /\ UNCHANGED <<gpDown, gpStruck>>

\* Serve: the port is free, or the command ends; --with-proxy always ends it, as
\* the manifest does not ship the proxy.  The deferred removal does not look
\* whose PID the file holds.
UpServe(p) ==
    /\ gpProc[p].at = "written"
    /\ \/ /\ \A q \in GpPid : gpProc[q].at # "serving"
          /\ Becomes(p, "serving") /\ UNCHANGED gpFile
       \/ Ends(p) /\ gpFile' = 0
    /\ UNCHANGED <<gpDown, gpStruck>>

\* After the signal the listener is closed; the process ends when its open
\* connections have, or after five seconds.
UpEnd(p) ==
    /\ gpProc[p].at = "closing"
    /\ Ends(p) /\ gpFile' = 0
    /\ UNCHANGED <<gpDown, gpStruck>>

\* SIGTERM: handled from the time the gateway has a context for it, deadly before;
\* terminateProcess on Windows kills.
Signalled(p) ==
    IF gpProc[p].at \in {"written", "serving", "closing"} /\ gpHost # "windows" THEN [gpProc EXCEPT ![p].at = "closing"]
    ELSE [gpProc EXCEPT ![p] = GpFree]

\* Serve sees the end of its context: an interrupt at the terminal.
UpInterrupted(p) ==
    /\ gpProc[p].at \in {"written", "serving"}
    /\ Becomes(p, "closing") /\ UNCHANGED <<gpFile, gpDown, gpStruck>>
-----------------------------------------------------------------------------
\* Processes that come and go: other programs, other keylatch commands, a gateway
\* that is killed and leaves its PID file behind.
OtherStart(p) ==
    /\ gpProc[p].kind = "free" /\ gpDown.at = "idle"
    /\ \E k \in {"other", "command"} : gpProc' = [gpProc EXCEPT ![p] = [GpFree EXCEPT !.kind = k]]
    /\ UNCHANGED <<gpFile, gpDown, gpStruck>>

GpKilled(p) ==
    /\ gpProc[p].kind # "free"
    /\ Ends(p) /\ UNCHANGED <<gpFile, gpDown, gpStruck>>
-----------------------------------------------------------------------------
(***************************************************************************)
(* gateway down.                                                           *)
(***************************************************************************)
DownStart ==
    /\ gpDown.at = "idle" /\ IsRunning
    /\ \E force \in BOOLEAN, id \in Identities(gpFile) :
         LET act == ResolveDownAction(id, force)
         IN  /\ act # "refuse"
             /\ gpDown' = [at |-> act, force |-> force]
    /\ gpProc' = [p \in GpPid |-> [gpProc[p] EXCEPT !.shared = @ \/ gpProc[p].at \in {"recover", "starting"}]]
    /\ UNCHANGED <<gpFile, gpStruck>>

DownStale ==
    /\ gpDown.at = "stale"
    /\ gpFile' = 0 /\ gpDown' = GpNoDown
    /\ UNCHANGED <<gpProc, gpStruck>>

\* SendTerm reads the file again, signals and removes the file in every case.
SendTerm ==
    /\ gpDown.at = "proceed"
    /\ IF gpFile = 0 \/ gpProc[gpFile].kind = "free"
       THEN UNCHANGED <<gpProc, gpStruck>>
       ELSE /\ gpProc' = Signalled(gpFile)
            /\ gpStruck' = (gpStruck \/ (~gpDown.force /\ gpProc[gpFile].kind = "other"))
    /\ gpFile' = 0 /\ gpDown' = GpNoDown

GpNext ==
    /\ UNCHANGED gpHost
    /\ \/ \E p \in GpPid : \/ UpStart(p) \/ UpRecover(p) \/ UpFails(p) \/ UpWritePID(p) \/ UpServe(p)
                            \/ UpEnd(p) \/ UpInterrupted(p) \/ OtherStart(p) \/ GpKilled(p)
       \/ DownStart \/ DownStale \/ SendTerm
-----------------------------------------------------------------------------
\* `down` without --force never signals a program that is not keylatch, whatever
\* became of the PID in the file since the gateway wrote it.  (On Windows `down`
\* terminates whatever has that PID: there is no identity check.)
NoStrangerSignalled == gpHost # "windows" => ~gpStruck

\* A gateway that serves and was alone all its life is the one the PID file names,
\* so that `down` finds it: no refused or stale `up` or `down` costs it its file.
\* (Where ps shows keylatch under another name, `down` takes a live gateway's file
\* for a stale one and removes it.)
GatewayFindable ==
    \A p \in GpPid : gpHost # "renamed" /\ gpProc[p].at = "serving" /\ ~gpProc[p].shared => gpFile = p

\* A gateway started in an agent session listens on the loopback address only.
LoopbackInSession ==
    \A p \in GpPid : gpProc[p].at \in {"serving", "closing"} /\ gpProc[p].llm => gpProc[p].bind = "loopback"

\* up, down and status of the gateway with a PID file that anyone may find
\* stale: down hits the gateway and nothing else, and a running gateway is found.
ProcessHolds == NoStrangerSignalled /\ GatewayFindable /\ LoopbackInSession
=============================================================================
