------------------------------- MODULE Setup -------------------------------
(***************************************************************************)
(* keylatch setup (internal/cli/setup_cmd.go) on config.json: detecting,    *)
(* choosing and bootstrapping a backend with its fallbacks, persisting the  *)
(* choice, and the steps after it; with keylatch config set, an editor and  *)
(* permissions that change the file at any time.  config.json is read and   *)
(* replaced without a lock.                                                 *)
(***************************************************************************)
EXTENDS Naturals

CONSTANTS StBackend,   \* backends a user can choose
          StMac,       \* the machine has the macOS keychain
          StMaxCmds, StMaxEdits   \* bounds: setups run, edits of the file

VARIABLES stConf,    \* config.json
          stLocked,  \* it cannot be read
          stReady,   \* backends whose bootstrap succeeded
          stCmd,     \* the setup that runs
          stCmds, stEdits,
          stMoved,   \* history: the file was changed by another while this setup ran
          stSilent,  \* history: a configured backend was replaced without consent
          stLost     \* history: setup destroyed content it had not read and kept
stVars == <<stConf, stLocked, stReady, stCmd, stCmds, stEdits, stMoved, stSilent, stLost>>

\* own: the user's own settings are in the file.
StDefault(b) == [kind |-> "ok", backend |-> b, pref |-> FALSE, ref |-> FALSE, own |-> FALSE]
StAbsent == [StDefault("") EXCEPT !.kind = "none"]
StIdle == [at |-> "idle", flag |-> "", advanced |-> FALSE, configured |-> "", chosen |-> "",
           consent |-> FALSE, cfg |-> StAbsent]
StInit == /\ stConf = StAbsent /\ stLocked = FALSE /\ stReady = {} /\ stCmd = StIdle
          /\ stCmds = 0 /\ stEdits = 0 /\ stMoved = FALSE /\ stSilent = FALSE /\ stLost = FALSE

StHist == <<stMoved, stSilent, stLost>>
StAt(at) == stCmd' = [stCmd EXCEPT !.at = at]
StQuit == stCmd' = StIdle
StOnlyCmd == UNCHANGED <<stConf, stLocked, stReady, stCmds, stEdits, StHist>>
Platform == IF StMac THEN "keychain" ELSE "file"

----------------------------------------------------------------------------
\* Another program writes the file, breaks it, or changes its permissions.
EditConfig(b) ==
    /\ stEdits < StMaxEdits /\ stEdits' = stEdits + 1
    /\ stConf' \in {[StDefault(b) EXCEPT !.own = TRUE], [stConf EXCEPT !.kind = "bad", !.own = TRUE]}
    /\ stMoved' = (stMoved \/ stCmd.at # "idle")
    /\ UNCHANGED <<stLocked, stReady, stCmd, stCmds, stSilent, stLost>>
ChangeMode ==
    /\ stEdits < StMaxEdits /\ stEdits' = stEdits + 1 /\ stLocked' = ~stLocked /\ stConf.kind # "none"
    /\ UNCHANGED <<stConf, stReady, stCmd, stCmds, StHist>>
\* config set starts from the defaults when the file cannot be loaded.
ConfigSet(b) ==
    /\ stEdits < StMaxEdits /\ stEdits' = stEdits + 1
    /\ stConf' = IF stConf.kind = "ok" /\ ~stLocked THEN [stConf EXCEPT !.backend = b] ELSE StDefault(b)
    /\ stLocked' = FALSE
    /\ stMoved' = (stMoved \/ stCmd.at # "idle")
    /\ UNCHANGED <<stReady, stCmd, stCmds, stSilent, stLost>>

----------------------------------------------------------------------------
\* Bootstrap writes a config that is absent first, and may then fail.
StBootConf(b) == IF stConf.kind = "none" THEN StDefault(b) ELSE stConf
BootRun(b, ok) ==
    /\ stConf' = IF b = "keychain" /\ ~StMac THEN stConf ELSE StBootConf(b)
    /\ stReady' = IF ok THEN stReady \cup {b} ELSE stReady
BootMay(b) == IF b = "keychain" /\ ~StMac THEN {FALSE}
              ELSE IF b = "file" /\ b \notin stReady THEN BOOLEAN ELSE {TRUE}

StartSetup(flag, adv) ==
    /\ stCmd.at = "idle" /\ stCmds < StMaxCmds /\ stCmds' = stCmds + 1
    /\ stCmd' = [StIdle EXCEPT !.at = "branch", !.flag = flag, !.advanced = adv]
    /\ stMoved' = FALSE
    /\ UNCHANGED <<stConf, stLocked, stReady, stEdits, stSilent, stLost>>
\* --non-interactive stops at a config that loads; --headless goes on.
SetupUnattended(b, headless, force) ==
    /\ stCmd.at = "idle" /\ stCmds < StMaxCmds /\ stCmds' = stCmds + 1
    /\ IF ~headless /\ ~force /\ stConf.kind = "ok" /\ ~stLocked THEN UNCHANGED <<stConf, stReady>>
       ELSE \E ok \in BootMay(b) : BootRun(b, ok)
    /\ UNCHANGED <<stLocked, stCmd, stEdits, StHist>>

PromptStorageBranch ==
    /\ stCmd.at = "branch" /\ (StAt("detect") \/ StAt("ref") \/ StQuit) /\ StOnlyCmd
\* loadConfiguredBackend: a file that cannot be read stops setup.
Configured == IF stConf.kind = "ok" THEN stConf.backend ELSE ""
Step1DetectPlatform ==
    /\ stCmd.at = "detect"
    /\ IF stLocked THEN StQuit
       ELSE stCmd' = [stCmd EXCEPT !.at = "choose",
                                   !.chosen = IF Configured # "" THEN Configured ELSE Platform]
    /\ StOnlyCmd

\* What the flag, the advanced menu or the questions may lead to; a machine
\* without a keychain is given the file backend for it.
StChoices == IF stCmd.flag # "" THEN {stCmd.flag}
           ELSE IF stCmd.advanced THEN StBackend
           ELSE {stCmd.chosen} \cup {IF b = "keychain" /\ ~StMac THEN "file" ELSE b :
                                       b \in StBackend \cap {"file", "keychain", "op", "bw"}}
\* A switch away from the configured backend needs the word typed; anything
\* else keeps it.
Step2Choose ==
    /\ stCmd.at = "choose"
    /\ IF stLocked THEN StQuit
       ELSE \E b \in StChoices, typed \in BOOLEAN :
              LET keep == stCmd.flag = "" /\ Configured # "" /\ b # Configured /\ ~typed IN
              stCmd' = [stCmd EXCEPT !.at = "boot", !.configured = Configured,
                                     !.chosen = IF keep THEN Configured ELSE b,
                                     !.consent = (stCmd.flag # "" \/ typed \/ Configured = "")]
    /\ StOnlyCmd
Step2Bootstrap ==
    /\ stCmd.at = "boot"
    /\ \E ok \in BootMay(stCmd.chosen) :
         /\ IF stCmd.chosen = "keychain" THEN BootRun("keychain", FALSE) ELSE BootRun(stCmd.chosen, ok)
         /\ IF ok THEN StAt("prepare") ELSE StQuit
    /\ UNCHANGED <<stLocked, stCmds, stEdits, StHist>>

\* The backend's own preparation (keychain init, Bitwarden unlock, 1Password
\* sign-in) works, or the user is offered the file backend.  Declining stops
\* setup, except for 1Password, where it is only a warning.
PrepareNeeded == \/ stCmd.chosen = "keychain"
                 \/ stCmd.chosen \in {"op", "bw"} /\ stCmd.chosen # stCmd.configured
Prepared ==
    /\ stCmd.at = "prepare" /\ StAt("load")
    /\ stReady' = IF stCmd.chosen = "keychain" THEN stReady \cup {"keychain"} ELSE stReady
    /\ UNCHANGED <<stConf, stLocked, stCmds, stEdits, StHist>>
PrepareDeclined ==
    /\ stCmd.at = "prepare" /\ PrepareNeeded
    /\ IF stCmd.chosen = "op" THEN StAt("load") ELSE StQuit
    /\ StOnlyCmd
FallBackUnbooted ==
    /\ stCmd.at = "prepare" /\ PrepareNeeded
    /\ stCmd' = [stCmd EXCEPT !.at = "load", !.chosen = "file", !.consent = TRUE]
    /\ UNCHANGED <<stConf, stReady, stLocked, stCmds, stEdits, StHist>>
FallBack ==
    /\ stCmd.at = "prepare" /\ PrepareNeeded
    /\ \E ok \in BootMay("file") :
         /\ BootRun("file", ok)
         /\ IF ok THEN stCmd' = [stCmd EXCEPT !.at = "load", !.chosen = "file", !.consent = TRUE]
            ELSE StQuit
    /\ UNCHANGED <<stLocked, stCmds, stEdits, StHist>>

----------------------------------------------------------------------------
\* Absent gives the defaults, unreadable stops, unusable is copied aside (if
\* that works) and gives the defaults.
LoadConfigOrWarn(next) ==
    IF stLocked THEN StQuit
    ELSE stCmd' = [stCmd EXCEPT !.at = next,
                                !.cfg = IF stConf.kind = "ok" THEN stConf ELSE StDefault("file")]
\* config.Save replaces the file whole.
StSave(c) ==
    /\ stConf' = c /\ stLocked' = FALSE
    /\ stLost' = (stLost \/ (~stMoved /\ stConf.own /\ ~c.own /\ stConf.kind # "bad"))
    /\ stSilent' = (stSilent \/ (/\ ~stMoved /\ ~stCmd.consent
                                 /\ stConf.kind = "ok" /\ c.backend # stConf.backend))

PersistLoad == stCmd.at = "load" /\ LoadConfigOrWarn("save") /\ StOnlyCmd
PersistSave ==
    /\ stCmd.at = "save" /\ StSave([stCmd.cfg EXCEPT !.backend = stCmd.chosen])
    /\ StAt("configured") /\ UNCHANGED <<stReady, stCmds, stEdits, stMoved>>
\* The telemetry answer and the operating mode: one more read and save.
ModeLoad == /\ stCmd.at = "configured" /\ (LoadConfigOrWarn("mode") \/ StAt("gateway"))
            /\ StOnlyCmd
ModeSave ==
    /\ stCmd.at = "mode" /\ StSave([stCmd.cfg EXCEPT !.pref = TRUE])
    /\ StAt("gateway") /\ UNCHANGED <<stReady, stCmds, stEdits, stMoved>>
\* Gateway, first provider and UI are commands of their own; setup only runs
\* them, and their failure is reported.
Step3SpawnDaemon    == stCmd.at = "gateway" /\ StAt("connect") /\ StOnlyCmd
Step4ConnectProvider == stCmd.at = "connect" /\ StAt("ui") /\ StOnlyCmd
Step5OpenApp        == stCmd.at = "ui" /\ StQuit /\ StOnlyCmd

\* Reference mode: a URI that is refused stops setup; one that does not resolve
\* is kept with a warning.
RefLoad == stCmd.at = "ref" /\ (LoadConfigOrWarn("refsave") \/ StQuit) /\ StOnlyCmd
RefSave ==
    /\ stCmd.at = "refsave" /\ StSave([stCmd.cfg EXCEPT !.ref = TRUE])
    /\ StQuit /\ UNCHANGED <<stReady, stCmds, stEdits, stMoved>>
StCrash == stCmd.at # "idle" /\ StQuit /\ StOnlyCmd

StNext ==
    \/ \E b \in StBackend : EditConfig(b) \/ ConfigSet(b)
    \/ ChangeMode
    \/ \E f \in StBackend \cup {""}, adv \in BOOLEAN : StartSetup(f, adv)
    \/ \E b \in StBackend, h, f \in BOOLEAN : SetupUnattended(b, h, f)
    \/ PromptStorageBranch \/ Step1DetectPlatform \/ Step2Choose \/ Step2Bootstrap
    \/ Prepared \/ PrepareDeclined \/ FallBack
    \/ PersistLoad \/ PersistSave \/ ModeLoad \/ ModeSave
    \/ Step3SpawnDaemon \/ Step4ConnectProvider \/ Step5OpenApp
    \/ RefLoad \/ RefSave \/ StCrash

----------------------------------------------------------------------------
\* When setup says that a backend is configured, config.json names it and it
\* was bootstrapped, whichever question, flag or fallback led to it
\* (setup_cmd.go:572), unless another program changed the file meanwhile.
DoneMeansReady ==
    stCmd.at = "configured" /\ ~stMoved =>
        stConf.kind = "ok" /\ stConf.backend = stCmd.chosen /\ stCmd.chosen \in stReady

\* No way through the wizard replaces the backend of a usable config without a
\* flag, the typed word or an accepted fallback (setup_cmd.go:429: "Require an
\* explicit typed confirmation before persisting the switch").
SwitchByConsent == ~stSilent

\* Settings in a config that setup could use, or could not even read, survive
\* every setup, failed and interrupted ones included (setup_cmd.go:664).
UserSettingsKept == ~stLost

\* Every way through setup, failures and interruptions included, ends with a
\* backend that works if it says so, replaces none without consent, and keeps
\* the user's other settings.
\* The parts name the exceptions.
SetupHolds == DoneMeansReady /\ SwitchByConsent /\ UserSettingsKept
=============================================================================
