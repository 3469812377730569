---------------------------- MODULE AgentSession ----------------------------
(***************************************************************************)
(* `keylatch launch` and the classification of agent sessions: a launcher   *)
(* signs a ticket bound to its own process, starts a harness in a process   *)
(* group of its own and kills the group when the harness ends; every        *)
(* keylatch command looks for agent signals in its environment, its         *)
(* ancestors' names and the ticket (internal/cli/launch_cmd.go,             *)
(* launch_process_unix.go, internal/llmcontext).                            *)
(*                                                                         *)
(* A process is a PID, which is reused after the process has ended; a start *)
(* time tells two owners of a PID apart (assumptions: a PID is not reused   *)
(* within one clock tick of /proc/<pid>/stat, and the clock is not set      *)
(* back).                                                                   *)
(***************************************************************************)
EXTENDS Naturals, FiniteSets

CONSTANTS LsPid,        \* process identifiers other than init
          LsMaxStart,   \* bound: processes started
          LsMaxKey,     \* bound: ticket keys generated
          LsInit1       \* PID 1, the parent of orphans

ASSUME LsAssumption == LsInit1 \notin LsPid /\ LsMaxStart \in Nat /\ LsMaxKey \in Nat

VARIABLES lsProc,    \* the live processes: PID -> record
          lsStarts,  \* processes started so far
          lsKeyFile, \* the ticket key file: 0 none, n the key n, LsMaxKey + 1 a short file
          lsKeys,    \* keys generated so far
          lsLaunch,  \* the launchers: PID -> step
          lsExpired  \* the start times of the launchers whose ticket is older than TicketTTL

lsVars == <<lsProc, lsStarts, lsKeyFile, lsKeys, lsLaunch, lsExpired>>

NoTicket == [pid |-> LsInit1, start |-> 0, key |-> 0]
Ended    == [alive |-> FALSE, start |-> 0, parent |-> LsInit1, group |-> 0, named |-> FALSE,
             label |-> FALSE, ticket |-> NoTicket]
Idle     == [at |-> "none", key |-> 0, child |-> 0]

LsStartInit == /\ lsProc = [p \in LsPid |-> Ended]
               /\ lsStarts = 0 /\ lsKeyFile = 0 /\ lsKeys = 0
               /\ lsLaunch = [p \in LsPid |-> Idle] /\ lsExpired = {}

Alive(p) == p \in LsPid /\ lsProc[p].alive
-----------------------------------------------------------------------------
(***************************************************************************)
(* Classification.                                                         *)
(***************************************************************************)
\* The process and its ancestors, up to init.
ProcessChain(p) ==
    LET up[S \in SUBSET LsPid] ==
            LET more == S \cup ({lsProc[q].parent : q \in S} \cap LsPid)
            IN  IF more = S THEN S ELSE up[more]
    IN  up[{p}]

\* The signature and the expiry, 12 hours after the launcher issued it.
VerifyTicket(t) == t.key # 0 /\ t.key = lsKeyFile /\ t.start \notin lsExpired

VerifyBoundTicketPidOnly(p) ==
    LET t == lsProc[p].ticket
    IN  VerifyTicket(t) /\ \E q \in ProcessChain(p) : q = t.pid
VerifyBoundTicket(p) ==
    LET t == lsProc[p].ticket
    IN  VerifyTicket(t) /\ \E q \in ProcessChain(p) : q = t.pid /\ lsProc[q].start = t.start

\* A harness's executable is recognised by name anywhere in the ancestry.
AncestrySignal(p) == \E q \in ProcessChain(p) : lsProc[q].named

\* A variable that a harness sets for its children, or a manual label.
EnvironmentSignal(p) == lsProc[p].label

Classify(p) == EnvironmentSignal(p) \/ AncestrySignal(p) \/ VerifyBoundTicket(p)
-----------------------------------------------------------------------------
NewProc(parent, group, named, env) ==
    [alive |-> TRUE, start |-> lsStarts + 1, parent |-> parent, group |-> group,
     named |-> named, label |-> env.label, ticket |-> env.ticket]

Env(l, t) == [label |-> l, ticket |-> t]

\* A terminal starts a process outside every session; it may carry a label, and a
\* ticket that some session's environment held (an exported variable, a saved
\* script).
LsShell(p, l, t) ==
    /\ ~Alive(p) /\ lsStarts < LsMaxStart
    /\ lsProc' = [lsProc EXCEPT ![p] = NewProc(LsInit1, 0, FALSE, Env(l, t))]
    /\ lsStarts' = lsStarts + 1
    /\ UNCHANGED <<lsKeyFile, lsKeys, lsLaunch, lsExpired>>

\* A process forks: the child is in its group or in one of its own (setsid), and
\* inherits the environment, gets a label with it (from a harness, or by hand) or
\* starts with a cleared one.
Environments(p) ==
    {Env(FALSE, NoTicket), Env(lsProc[p].label, lsProc[p].ticket), Env(TRUE, lsProc[p].ticket)}

LsFork(p, q) ==
    /\ Alive(p) /\ ~Alive(q) /\ lsStarts < LsMaxStart /\ lsLaunch[p].at = "none"
    /\ \E g \in {0, lsProc[p].group}, env \in Environments(p) :
          lsProc' = [lsProc EXCEPT ![q] = NewProc(p, g, FALSE, env)]
    /\ lsStarts' = lsStarts + 1
    /\ UNCHANGED <<lsKeyFile, lsKeys, lsLaunch, lsExpired>>

\* Processes end, a launcher may be killed at any step; their children become
\* init's.
Without(gone) == [p \in LsPid |-> IF p \in gone THEN Ended
                                  ELSE IF lsProc[p].parent \in gone
                                       THEN [lsProc[p] EXCEPT !.parent = LsInit1]
                                       ELSE lsProc[p]]

LsEnd(p) ==
    /\ Alive(p)
    /\ lsProc' = Without({p})
    /\ lsLaunch' = [lsLaunch EXCEPT ![p] = Idle]
    /\ UNCHANGED <<lsStarts, lsKeyFile, lsKeys, lsExpired>>

\* TicketTTL has passed since a ticket that some process carries was issued.
TicketExpires(p) ==
    /\ lsProc[p].ticket # NoTicket
    /\ lsExpired' = lsExpired \cup {lsProc[p].ticket.start}
    /\ UNCHANGED <<lsProc, lsStarts, lsKeyFile, lsKeys, lsLaunch>>
-----------------------------------------------------------------------------
(***************************************************************************)
(* launch.                                                                 *)
(***************************************************************************)
At(p, step) == lsLaunch' = [lsLaunch EXCEPT ![p] = step]

\* launch refuses to run inside an agent session.
LaunchBegin(p) ==
    /\ Alive(p) /\ lsLaunch[p].at = "none" /\ ~Classify(p)
    /\ At(p, [Idle EXCEPT !.at = "key"])
    /\ UNCHANGED <<lsProc, lsStarts, lsKeyFile, lsKeys, lsExpired>>

\* loadOrCreateTicketKey: an existing key is read, a short file is corrupt.
ReadTicketKey(p) ==
    /\ lsLaunch[p].at \in {"key", "exists"} /\ lsKeyFile # 0
    /\ At(p, IF lsKeyFile = LsMaxKey + 1 THEN Idle ELSE [Idle EXCEPT !.at = "issue", !.key = lsKeyFile])
    /\ UNCHANGED <<lsProc, lsStarts, lsKeyFile, lsKeys, lsExpired>>

\* No key yet: the read found none, and the file is created exclusively later.
MissTicketKey(p) ==
    /\ lsLaunch[p].at = "key" /\ lsKeyFile = 0 /\ lsKeys < LsMaxKey
    /\ At(p, [Idle EXCEPT !.at = "create", !.key = lsKeys + 1])
    /\ lsKeys' = lsKeys + 1
    /\ UNCHANGED <<lsProc, lsStarts, lsKeyFile, lsExpired>>

\* O_EXCL: the second creator reads the first one's file.  The created file is
\* empty until it is written: LsMaxKey + 1 stands for a short file.
CreateTicketKey(p) ==
    /\ lsLaunch[p].at = "create"
    /\ IF lsKeyFile = 0
       THEN At(p, [lsLaunch[p] EXCEPT !.at = "write"]) /\ lsKeyFile' = LsMaxKey + 1
       ELSE At(p, [Idle EXCEPT !.at = "exists"]) /\ UNCHANGED lsKeyFile
    /\ UNCHANGED <<lsProc, lsStarts, lsKeys, lsExpired>>

\* The write succeeds, or fails and the file is removed.
WriteTicketKey(p) ==
    /\ lsLaunch[p].at = "write"
    /\ \/ lsKeyFile' = lsLaunch[p].key /\ At(p, [lsLaunch[p] EXCEPT !.at = "issue"])
       \/ lsKeyFile' = 0 /\ At(p, Idle)
    /\ UNCHANGED <<lsProc, lsStarts, lsKeys, lsExpired>>

\* The ticket names this process; the harness gets it in place of any other
\* ticket, in a process group of its own.
IssueLaunchTicket(p, q) ==
    LET t == [pid |-> p, start |-> lsProc[p].start, key |-> lsLaunch[p].key]
    IN  /\ lsLaunch[p].at = "issue" /\ ~Alive(q) /\ lsStarts < LsMaxStart
        /\ \E named \in BOOLEAN :
              lsProc' = [lsProc EXCEPT ![q] = NewProc(p, lsStarts + 1, named, Env(lsProc[p].label, t))]
        /\ lsStarts' = lsStarts + 1
        /\ At(p, [lsLaunch[p] EXCEPT !.at = "wait", !.child = lsStarts + 1])
        /\ UNCHANGED <<lsKeyFile, lsKeys, lsExpired>>

Group(g) == {r \in LsPid : Alive(r) /\ lsProc[r].group = g}

\* The harness has ended, or the launcher is interrupted: SIGKILL to the group,
\* and to the launchers in it.
SuperviseLaunch(p) ==
    LET g == Group(lsLaunch[p].child)
    IN  /\ lsLaunch[p].at = "wait"
        /\ lsProc' = Without(g)
        /\ lsLaunch' = [q \in LsPid |->
              IF q = p THEN [Idle EXCEPT !.at = "done", !.child = lsLaunch[p].child]
              ELSE IF q \in g THEN Idle ELSE lsLaunch[q]]
        /\ UNCHANGED <<lsStarts, lsKeyFile, lsKeys, lsExpired>>

\* The launcher exits with the harness's code.
LaunchExit(p) ==
    /\ lsLaunch[p].at = "done"
    /\ lsProc' = Without({p}) /\ At(p, Idle)
    /\ UNCHANGED <<lsStarts, lsKeyFile, lsKeys, lsExpired>>

LsNext ==
    \/ \E p \in LsPid, l \in BOOLEAN, t \in {NoTicket} \cup {lsProc[q].ticket : q \in LsPid} : LsShell(p, l, t)
    \/ \E p, q \in LsPid : LsFork(p, q) \/ IssueLaunchTicket(p, q)
    \/ \E p \in LsPid : \/ LsEnd(p) \/ TicketExpires(p) \/ LaunchBegin(p) \/ ReadTicketKey(p) \/ MissTicketKey(p)
                        \/ CreateTicketKey(p) \/ WriteTicketKey(p) \/ SuperviseLaunch(p) \/ LaunchExit(p)

LsSpec == LsStartInit /\ [][LsNext]_lsVars
-----------------------------------------------------------------------------
(***************************************************************************)
(* Properties.                                                             *)
(***************************************************************************)
\* A launched session is recognised for the 12 hours of its ticket: a process that
\* carries the ticket and still has the launcher among its ancestors is classified
\* as an agent, whatever other launchers do to the key file meanwhile (readers of a
\* half-written key fail instead of signing with it, a second creator never
\* replaces the key).  A process started with a cleared environment carries none.
SessionRecognised ==
    \A p \in LsPid :
        LET t == lsProc[p].ticket
        IN  (Alive(p) /\ t # NoTicket /\ t.start \notin lsExpired /\ \E q \in ProcessChain(p) : q = t.pid /\ lsProc[q].start = t.start)
                => Classify(p)

\* No one else is: a process is classified only if its own environment says so (a
\* harness's variable or a label, which anyone may set), or a launcher that is now
\* supervising a session is among its ancestors, or a harness is; a ticket that
\* outlived its launcher marks nobody, also when the launcher's PID is reused.
OnlySessionsRecognised ==
    \A p \in LsPid : Alive(p) /\ Classify(p) =>
        \/ lsProc[p].label
        \/ \E q \in ProcessChain(p) : lsProc[q].named
        \/ \E q \in ProcessChain(p) :
              lsLaunch[q].at \in {"wait", "done"} /\ lsProc[p].ticket.start = lsProc[q].start

\* When launch returns nothing of the harness's process group is left running.
GroupStopped == \A p \in LsPid : lsLaunch[p].at = "done" => Group(lsLaunch[p].child) = {}

\* Launchers that race for the ticket key, die and have their PIDs reused: the
\* sessions that are running are recognised, nothing else is, and launch leaves
\* no process of its harness behind.
SessionsHold == SessionRecognised /\ OnlySessionsRecognised /\ GroupStopped
=============================================================================
