---------------------------- MODULE GuardInstall ----------------------------
(***************************************************************************)
(* keylatch install-guard (internal/guard/install.go): the guard script is  *)
(* written, the agent's settings are read, changed and replaced.  The       *)
(* agent and its user change the same settings; nobody takes a lock.        *)
(* A behaviour is about one agent.                                          *)
(***************************************************************************)
EXTENDS FiniteSets, Naturals

CONSTANTS GiProc,      \* install-guard commands
          GiEvented, GiBare,   \* the user's hook entries, with and without an event
          GiMaxCmds    \* bound: commands started

VARIABLES giAgent, giScript, giSet, giAt, giHeld, giCmds,
          giUser,   \* history: entries the user put into the settings
          giRaced   \* history: the user saved while a command held its copy
giVars == <<giAgent, giScript, giSet, giAt, giHeld, giCmds, giUser, giRaced>>

\* Settings: kind is "none" (no hooks), "array" or "object"; the user's entries
\* among the hooks and among the parked ones (hooksLegacy), and how many hooks are
\* the guard's.  Their order does not matter to anyone.
GiEmpty == [kind |-> "none", hooks |-> {}, guards |-> 0, parked |-> {}]
GiInit == /\ giAgent = "none" /\ giScript = FALSE /\ giSet = GiEmpty
          /\ giAt = [p \in GiProc |-> "idle"] /\ giHeld = [p \in GiProc |-> GiEmpty]
          /\ giCmds = 0 /\ giUser = {} /\ giRaced = FALSE

\* The settings as the agent and its user left them: Claude Code's hooks are an
\* object, and an array where an older keylatch wrote them; the other agents' are
\* an array (cursor, codex, gemini), a list of plugins or a line of a file.
Agents == {"claude-code", "cursor", "opencode", "aider"}
Kinds(a) == IF a = "claude-code" THEN {"object", "array"} ELSE {"array"}
FoundSettings(a, k, s) ==
    /\ giAgent = "none" /\ giAgent' = a /\ k \in Kinds(a)
    /\ (k = "object" => s \cap GiBare = {}) /\ (a = "aider" => Cardinality(s) <= 1)
    /\ giSet' = [GiEmpty EXCEPT !.kind = IF s = {} THEN "none" ELSE k, !.hooks = s]
    /\ giUser' = s
    /\ UNCHANGED <<giScript, giAt, giHeld, giCmds, giRaced>>
UserAdds(e) ==
    /\ giAgent \in {"claude-code", "cursor", "opencode"} /\ e \notin giUser
    /\ (giSet.kind # "array" /\ giAgent = "claude-code" => e \notin GiBare)
    /\ giSet' = [giSet EXCEPT !.hooks = @ \cup {e},
                              !.kind = IF @ # "none" THEN @
                                       ELSE IF giAgent = "claude-code" THEN "object" ELSE "array"]
    /\ giUser' = giUser \cup {e}
    /\ giRaced' = (giRaced \/ \E p \in GiProc : giAt[p] = "save")
    /\ UNCHANGED <<giAgent, giScript, giAt, giHeld, giCmds>>

----------------------------------------------------------------------------
\* migrateLegacyClaudeCodeHooks: entries without an event have no place in the
\* object and are parked.
MigrateDropping(s) ==
    IF s.kind # "array" THEN s ELSE [s EXCEPT !.kind = "object", !.hooks = @ \ GiBare]
MigrateLegacyHooks(s) ==
    IF s.kind # "array" THEN s
    ELSE [s EXCEPT !.kind = "object", !.hooks = @ \ GiBare,
                   !.parked = IF s.hooks \cap GiBare = {} THEN @ ELSE s.hooks \cap GiBare]
HookAlreadyInstalled(s) == s.guards > 0
\* Hooks of another kind than the one to be written are replaced.
AppendHook(s, k) == IF s.kind \in {k, "none"} THEN [s EXCEPT !.kind = k, !.guards = @ + 1]
                    ELSE [s EXCEPT !.kind = k, !.guards = 1, !.hooks = {}]
\* What is saved; equal to what was read when nothing is.  Aider is left alone
\* when it has any hook.
Changed(s) ==
    CASE giAgent = "claude-code" ->
           LET m == MigrateLegacyHooks(s) IN
           IF HookAlreadyInstalled(m) THEN m ELSE AppendHook(m, "object")
      [] giAgent = "aider" -> IF s.kind # "none" THEN s ELSE AppendHook(s, "array")
      [] OTHER -> IF HookAlreadyInstalled(s) THEN s ELSE AppendHook(s, "array")

InstallStart(p) ==
    /\ giAgent # "none" /\ giAt[p] = "idle" /\ giCmds < GiMaxCmds /\ giCmds' = giCmds + 1
    /\ giAt' = [giAt EXCEPT ![p] = "script"]
    /\ UNCHANGED <<giAgent, giScript, giSet, giHeld, giUser, giRaced>>
WriteGuardScript(p) ==
    /\ giAt[p] = "script" /\ giScript' = TRUE /\ giAt' = [giAt EXCEPT ![p] = "load"]
    /\ UNCHANGED <<giAgent, giSet, giHeld, giCmds, giUser, giRaced>>
LoadSettings(p) ==
    /\ giAt[p] = "load" /\ giHeld' = [giHeld EXCEPT ![p] = Changed(giSet)]
    /\ giAt' = [giAt EXCEPT ![p] = IF Changed(giSet) = giSet THEN "idle" ELSE "save"]
    /\ UNCHANGED <<giAgent, giScript, giSet, giCmds, giUser, giRaced>>
\* One rename; for Aider one append.
SaveSettings(p) ==
    /\ giAt[p] = "save" /\ giAt' = [giAt EXCEPT ![p] = "idle"]
    /\ giSet' = IF giAgent = "aider" THEN AppendHook(giSet, "array") ELSE giHeld[p]
    /\ UNCHANGED <<giAgent, giScript, giHeld, giCmds, giUser, giRaced>>
\* The command dies, or one of its writes or reads fails.
InstallFails(p) ==
    /\ giAt[p] # "idle" /\ giAt' = [giAt EXCEPT ![p] = "idle"]
    /\ UNCHANGED <<giAgent, giScript, giSet, giHeld, giCmds, giUser, giRaced>>

GiEntries == GiEvented \cup GiBare
GiNext ==
    \/ \E a \in Agents, k \in {"object", "array"}, s \in SUBSET GiEntries :
            Cardinality(s) <= 2 /\ FoundSettings(a, k, s)
    \/ \E e \in GiEntries : UserAdds(e)
    \/ \E p \in GiProc : \/ InstallStart(p) \/ WriteGuardScript(p) \/ LoadSettings(p)
                         \/ SaveSettings(p) \/ InstallFails(p)

----------------------------------------------------------------------------
\* Repeated, concurrent and interrupted installs, and the migration of the old
\* format, keep every hook of the user, in force or parked, unless the user saved
\* between a command's read and its write (install.go:701: "Park them under a
\* backup key instead of silently dropping them").
UserHooksKept == ~giRaced => giUser \subseteq giSet.hooks \cup giSet.parked

\* However often and from wherever it is installed, the agent runs the guard at
\* most once a call, and the settings never name a script that is not there
\* (install.go:239).  Two commands at once may both append Aider's line.
GuardOnce ==
    (giAgent # "aider" => giSet.guards <= 1) /\ (giSet.guards > 0 => giScript)

\* Installs, migrations and removals of the hook in a file that the user and
\* the agent also write: the user's hooks stay, the guard is there once.
GuardHolds == UserHooksKept /\ GuardOnce
=============================================================================
