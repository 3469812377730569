------------------------------- MODULE Doctor -------------------------------
(***************************************************************************)
(* keylatch doctor (src/internal/doctor, cli/doctor_cmd.go and             *)
(* cli/doctor_repair.go).  Thirty-five checks look, one after the other,   *)
(* at config.json, files, tools and services; the verdicts make a report,  *)
(* --repair may mend the keychain ACL and run everything again, and the    *)
(* report makes the exit code and the summary.  The machine is a record of *)
(* facts with what is out of order in it; other commands change            *)
(* config.json while doctor runs, and it is read anew by every check that  *)
(* needs it: a step is one such check and the checks up to the next one.   *)
(***************************************************************************)
EXTENDS Naturals, Sequences, FiniteSets, SequencesExt

CONSTANTS DrFact,        \* DrFact[f]: the values of fact f worth telling apart
          DrOther,       \* values other commands give to config.json's backend meanwhile
          DrMaxFaults    \* bound: facts that differ from a bootstrapped machine, and
                         \* changes of config.json while doctor runs, together

VARIABLES drM,       \* the machine
          drFaults, drChanges,
          drCmd      \* the doctor command
drVars == <<drM, drFaults, drChanges, drCmd>>

\* What bootstrap leaves on a Linux machine with an OS keyring.
Bootstrapped ==
  [os |-> "linux", conf |-> "ok", backend |-> "file", mode |-> "ok", docker |-> FALSE, keyring |-> "ok",
   confdir |-> "ok", vault |-> "ok", audit |-> "ok", kek |-> "keyring", ageEnv |-> FALSE, llm |-> FALSE,
   op |-> "absent", bw |-> "absent", pass |-> "absent", keeper |-> "absent", ksm |-> "absent",
   lpass |-> "absent", dockerBin |-> "absent", sops |-> "absent", aws |-> "absent", hvault |-> "absent",
   cosign |-> "found", security |-> "absent", opToken |-> FALSE, opSignedIn |-> FALSE, bwSession |-> "none",
   refs |-> FALSE, db |-> "absent", acl |-> "ok", guard |-> TRUE, hook |-> "ok", gateway |-> "none",
   ui |-> "none", cwd |-> "ok"]

\* What setup leaves on a Mac, and with 1Password.
BootstrappedMac ==
  [Bootstrapped EXCEPT !.os = "darwin", !.backend = "keychain", !.security = "found", !.db = "private"]
BootstrappedOP ==
  [Bootstrapped EXCEPT !.backend = "op", !.op = "found", !.opToken = TRUE, !.opSignedIn = TRUE]

DrIdle == [at |-> "idle", next |-> 1, scope |-> "all",
           report |-> {}, mended |-> FALSE, repaired |-> FALSE, exit |-> 0, printed |-> 0]

DrInit == drM = Bootstrapped /\ drFaults = 0 /\ drChanges = 0 /\ drCmd = DrIdle

\* What can be the matter with the audit directory and the log in it.
AuditState == {"ok", "absent", "loose", "error", "sealed", "dirsealed"}
ASSUME DoctorAssumption ==
  /\ DOMAIN DrFact \subseteq DOMAIN Bootstrapped
  /\ "audit" \in DOMAIN DrFact => DrFact["audit"] \subseteq AuditState

(* ---- the checks, in the files' order ---- *)

\* config.Load, or the defaults when it fails
Loads(m)   == m.conf = "ok"
Backend(m) == IF Loads(m) THEN m.backend ELSE "file"
Known(b)   == b # "unknown"
WarnIf(c)  == IF c THEN "warn" ELSE "ok"
FailIf(c)  == IF c THEN "fail" ELSE "ok"

CheckBackendSelected(m) == FailIf(~Known(Backend(m)) \/ (Backend(m) = "keychain" /\ m.os # "darwin"))
CheckBackendKeychain(m) == WarnIf(m.os = "darwin" /\ (m.security # "found" \/ m.db = "absent"))
CheckBackendOP(m) ==
  IF m.op = "error" THEN "fail" ELSE WarnIf(m.op = "found" /\ Backend(m) = "op")
CheckBackendBW(m) ==
  IF m.bw = "error" THEN "fail" ELSE WarnIf(m.bw = "found" /\ Backend(m) = "bw")
CheckBackendOPAuth(m) ==
  IF Backend(m) # "op" THEN "ok"
  ELSE IF ~m.opToken \/ m.op # "found" THEN "warn" ELSE FailIf(~m.opSignedIn)
CheckBackendBWSession(m) ==
  WarnIf(Backend(m) = "bw" /\ (m.bwSession \in {"none", "expired"} \/ m.bw # "found"))
CheckBackendProtonPass(m) == FailIf(m.pass = "error")
CheckBackendKeeper(m)     == FailIf(m.keeper = "error" \/ (m.keeper = "absent" /\ m.ksm = "error"))
CheckBackendLastPass(m)   == FailIf(m.lpass = "error")
CheckBackendFile(m)       == FailIf(m.vault \notin {"ok", "loose"})
CheckPlaintextKEK(m) ==
  IF Loads(m) /\ Known(m.backend) /\ m.backend # "file" THEN "ok"
  ELSE IF m.ageEnv THEN "warn"
  ELSE IF m.kek \in {"error", "both", "plain"} THEN "fail" ELSE WarnIf(m.kek = "acknowledged")

CheckExternalDocker(m)      == FailIf(Loads(m) /\ m.docker /\ m.dockerBin # "found")
CheckExternalSOPS(m)        == WarnIf(m.sops = "error")
CheckACLKeychainUnlock(m)   == WarnIf(m.os = "darwin" /\ m.db # "absent" /\ m.acl # "ok")
CheckKeychainDBPermissions(m) == "ok"     \* loose modes are named, and no more
CheckAgentGuard(m)          == WarnIf(~m.guard)
CheckHookPreToolUse(m)      == WarnIf(m.hook # "ok")
CheckNoConnections(m)       == "ok"
CheckGatewayRunning(m)      == WarnIf(m.gateway \in {"stale", "garbage"})
CheckCosignInstalled(m)     == WarnIf(m.cosign # "found")
CheckPlaintextRetention(m)  == IF m.ui = "retained" THEN "fail" ELSE WarnIf(m.ui = "garbage")

\* Mutant: a file that is there is a keyring.
CheckBootstrapKeyringPresent(m) ==
  IF Loads(m) /\ Known(m.backend) /\ m.backend # "file" THEN "ok" ELSE FailIf(m.keyring \in {"absent", "error"})

CheckBootstrapKeyring(m) ==
  IF Loads(m) /\ Known(m.backend) /\ m.backend # "file" THEN "ok" ELSE FailIf(m.keyring # "ok")
\* any JSON object will do: one that config.Load rejects passes
CheckBootstrapConfig(m) == FailIf(m.conf \in {"absent", "unreadable", "badjson"})

ExternalTool(m, tool, then) == IF ~m.refs THEN "ok" ELSE IF tool # "found" THEN "fail" ELSE then
CheckExternalOP(m)         == ExternalTool(m, m.op, WarnIf(~m.opSignedIn))
\* a tool that does not tell its version is there
CheckExternalAWSSM(m) ==
  IF m.refs /\ m.aws = "broken" THEN "warn" ELSE ExternalTool(m, m.aws, "ok")
CheckExternalHashiVault(m) ==
  IF m.refs /\ m.hvault = "broken" THEN "warn" ELSE ExternalTool(m, m.hvault, "ok")

CheckIntegrationMarkers(m) == WarnIf(m.cwd # "ok")
CheckOperatingMode(m)      == FailIf(Loads(m) /\ m.mode = "bad")
CheckVersionBinary(m)      == "ok"
CheckPlatform(m)           == FailIf(m.os = "other")
CheckLLMSession(m)         == WarnIf(m.llm)
\* AssertSafeModes: a directory of mode 0700 or a file of mode 0600, of this user
PathSafe(p)                == FailIf(p \in {"absent", "loose", "error"})
CheckPathsConfig(m)        == PathSafe(m.confdir)
CheckPathsVault(m)         == PathSafe(m.vault)
CheckPathsAudit(m)         == PathSafe(m.audit)
CheckAuditWritable(m) ==
  IF m.audit \in {"sealed", "error"} THEN "fail" ELSE WarnIf(m.audit = "dirsealed")

\* gatherChecks
GatherChecks(m) ==
  LET row(s, v) == [section |-> s, name |-> "other", verdict |-> v]
      e(v) == row("environment", v)
      b(v) == row("backends", v)
      d(v) == row("daemon", v)
      x(v) == row("external", v)
      p(v) == row("providers", v)
  IN << e(CheckBootstrapKeyring(m)), e(CheckBootstrapConfig(m)), e(CheckVersionBinary(m)),
        e(CheckPlatform(m)), e(CheckLLMSession(m)), e(CheckAgentGuard(m)), e(CheckPathsConfig(m)),
        e(CheckPathsVault(m)), e(CheckPathsAudit(m)), e(CheckAuditWritable(m)), e(CheckOperatingMode(m)),
        b(CheckBackendSelected(m)), b(CheckBackendKeychain(m)), b(CheckBackendOP(m)),
        b(CheckBackendOPAuth(m)), b(CheckBackendBW(m)), b(CheckBackendBWSession(m)),
        b(CheckBackendProtonPass(m)), b(CheckBackendKeeper(m)), b(CheckBackendLastPass(m)),
        b(CheckBackendFile(m)), b(CheckPlaintextKEK(m)), d(CheckExternalDocker(m)), d(CheckExternalSOPS(m)),
        x(CheckExternalOP(m)), x(CheckExternalAWSSM(m)), x(CheckExternalHashiVault(m)),
        [section |-> "providers", name |-> "acl.keychain_unlock", verdict |-> CheckACLKeychainUnlock(m)], p(CheckKeychainDBPermissions(m)),
        e(CheckHookPreToolUse(m)), e(CheckCosignInstalled(m)), p(CheckNoConnections(m)),
        d(CheckGatewayRunning(m)), d(CheckPlaintextRetention(m)), e(CheckIntegrationMarkers(m)) >>
Total == 35

\* The checks that read config.json begin a step; where the bound leaves no
\* change of it, the rest is one step.
ReadsConfig == {1, 2, 11, 12, 14, 15, 16, 17, 22, 23}
Block(k) ==
  {i \in k..Total : drFaults + drChanges < DrMaxFaults => \A j \in (k + 1)..i : j \notin ReadsConfig}

(* ---- the command ---- *)

DrAt(at) == drCmd.at = at
OnlyCmd == UNCHANGED <<drM, drFaults, drChanges>>

\* The machine is as it is before doctor starts.
Fault(f, v) ==
  /\ DrAt("idle") /\ drFaults < DrMaxFaults /\ drM[f] # v
  /\ drM' = [drM EXCEPT ![f] = v] /\ drFaults' = drFaults + 1
  /\ UNCHANGED <<drChanges, drCmd>>

OtherMachine ==
  /\ DrAt("idle") /\ drM = Bootstrapped /\ drM' \in {BootstrappedMac, BootstrappedOP}
  /\ UNCHANGED <<drFaults, drChanges, drCmd>>

\* Another command sets the backend while doctor runs.
ConfigChanges(v) ==
  /\ drCmd.at \notin {"idle", "done"} /\ drFaults + drChanges < DrMaxFaults /\ drM.backend # v
  /\ drM' = [drM EXCEPT !.backend = v, !.conf = "ok"] /\ drChanges' = drChanges + 1
  /\ UNCHANGED <<drFaults, drCmd>>

\* scope: --category.  The other flags count where they are used.
StartDoctor(scope) ==
  /\ DrAt("idle") /\ OnlyCmd
  /\ drCmd' = [DrIdle EXCEPT !.at = "run", !.scope = scope]

InScope(c, scope) == scope = "all" \/ c.section = scope

\* Run: the next checks of the scope
RunChecks ==
  /\ DrAt("run") /\ OnlyCmd
  /\ LET b == Block(drCmd.next)
         checks == GatherChecks(drM)
         found == {checks[i] : i \in b}
         last == Total \in b
     IN drCmd' = [drCmd EXCEPT
          !.report = @ \cup {c \in found : InScope(c, drCmd.scope)},
          !.next = IF last THEN 1 ELSE @ + Cardinality(b),
          !.at = IF ~last THEN "run" ELSE IF drCmd.repaired THEN "exit" ELSE "repair"]

Verdicts(report) == {c.verdict : c \in report}

\* Checks of the report unless it is verbose
Shown(report) == {c \in report : c.verdict # "ok"}

\* keychainACLRepairApplies
RepairApplies ==
  /\ drM.os = "darwin" /\ Backend(drM) = "keychain"
  /\ \E c \in Shown(drCmd.report) : c.name = "acl.keychain_unlock"

\* --repair was not given, or the human declines: nothing is mended.
NoRepair ==
  /\ drCmd.at \in {"repair", "ask"} /\ OnlyCmd
  /\ drCmd' = [drCmd EXCEPT !.at = "exit"]

\* The human is asked and agrees; with --yes at once.
Repair ==
  /\ OnlyCmd
  /\ \/ DrAt("repair") /\ RepairApplies /\ drCmd' = [drCmd EXCEPT !.at = "ask"]
     \/ DrAt("ask") /\ drCmd' = [drCmd EXCEPT !.at = "mend"]

\* repairKeychainACL, whatever the config says by now, in two steps: RepairACL
\* issues the ACL of the unlock item anew; when it fails, nothing is changed and
\* the old report stays.
RepairACL ==
  /\ DrAt("mend") /\ UNCHANGED <<drFaults, drChanges>>
  /\ \/ drM' = [drM EXCEPT !.acl = "ok"] /\ drCmd' = [drCmd EXCEPT !.at = "items", !.mended = TRUE]
     \/ UNCHANGED drM /\ drCmd' = [drCmd EXCEPT !.at = "exit"]

\* RepairItemACLs does the items of the manifest, which no check looks at; then
\* doctor.Run again, with every category.  When it fails, the old report stays
\* although the unlock item has been repaired.
RepairItemACLs ==
  /\ DrAt("items") /\ OnlyCmd
  /\ \/ drCmd' = [drCmd EXCEPT !.at = "run", !.scope = "all", !.repaired = TRUE, !.report = {}]
     \/ drCmd' = [drCmd EXCEPT !.at = "exit"]

ExitCode(verdicts) == IF "fail" \in verdicts THEN 2 ELSE IF "warn" \in verdicts THEN 1 ELSE 0

\* printDoctorReport, buildDoctorJSONV1: counted over the checks of the report
Summary(checks) == ExitCode(Verdicts(checks))

\* A report made again after a repair is verbose; otherwise --verbose and --json say so.
Finish(verbose) ==
  /\ DrAt("exit") /\ OnlyCmd /\ (drCmd.repaired => verbose)
  /\ drCmd' = [drCmd EXCEPT !.at = "done", !.exit = ExitCode(Verdicts(drCmd.report)),
       !.printed = Summary(IF verbose THEN drCmd.report ELSE Shown(drCmd.report))]

DrNext ==
  \/ \E f \in DOMAIN DrFact : \E v \in DrFact[f] : Fault(f, v)
  \/ OtherMachine \/ \E v \in DrOther : ConfigChanges(v)
  \/ \E scope \in {"all", "providers"} : StartDoctor(scope)
  \/ RunChecks \/ Repair \/ NoRepair \/ RepairACL \/ RepairItemACLs \/ \E verbose \in BOOLEAN : Finish(verbose)

DrSpec == DrInit /\ [][DrNext]_drVars

(* ---- properties ---- *)

Ended(exit) == DrAt("done") /\ drCmd.exit <= exit /\ drChanges = 0

\* A full doctor that finds nothing blocking is right about the selected
\* backend: the file vault has a keyring, a private directory and no unaccepted
\* plaintext key; the audit log, without which no secret is handed out, takes
\* events; the keychain is there on this platform, and at exit code 0 it is
\* initialised and its ACL is in order.
HealthyMeansUsable ==
  /\ Ended(1) /\ drCmd.scope = "all" /\ Loads(drM) =>
       /\ Known(drM.backend) /\ drM.audit \in {"ok", "dirsealed"} /\ drM.vault = "ok"
       /\ drM.backend = "file" => drM.keyring = "ok" /\ (drM.ageEnv \/ drM.kek \notin {"plain", "both"})
       /\ drM.backend = "keychain" => drM.os = "darwin"
       /\ drM.backend = "op" /\ drM.opToken /\ drM.op = "found" => drM.opSignedIn
  /\ Ended(0) /\ drCmd.scope = "all" /\ Loads(drM) /\ drM.backend = "keychain" =>
       drM.security = "found" /\ drM.db # "absent" /\ drM.acl = "ok"

\* With nothing else at work, the exit code is the one the machine deserves
\* when doctor ends, a repair it has made included.  A repair that failed after it
\* had mended the unlock item leaves the old report, although the report and the
\* exit code are to show the state after a repair (doctor_cmd.go:142,
\* doctor_repair.go:42): the code is then that of the machine before, not 0 and
\* never better than the machine deserves.
ExitTrue ==
  Ended(2) =>
    LET deserved == ExitCode({c.verdict : c \in {c \in Range(GatherChecks(drM)) : InScope(c, drCmd.scope)}})
    IN IF drCmd.mended => drCmd.repaired THEN drCmd.exit = deserved ELSE drCmd.exit # 0 /\ drCmd.exit >= deserved

\* The summary, counted over the checks that are shown, names the exit code,
\* whatever changes while doctor runs and with or without --verbose.
SummaryNamesExit == DrAt("done") => drCmd.printed = drCmd.exit

\* What doctor reports is true of the machine, its own repairs and changes by
\* others included: healthy means usable, and summary and exit code agree.
DoctorTrue == HealthyMeansUsable /\ ExitTrue /\ SummaryNamesExit
=============================================================================
