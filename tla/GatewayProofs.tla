----------------------------- MODULE GatewayProofs -----------------------------
(***************************************************************************)
(* Proofs about the gateway's handler and budget, the processes of gateway *)
(* up and down, agent sessions, approvals, and the masking of responses,   *)
(* for every number of requests, actors, processes, contents and keys,     *)
(* every length of the time windows and every document.                    *)
(***************************************************************************)
EXTENDS GatewayRequest, AgentSession, GatewayProcess, Approval, Masking, WellFoundedInduction, TLAPS

-----------------------------------------------------------------------------
\* Agent sessions

LsTicket == [pid : LsPid \cup {LsInit1}, start : Nat, key : Nat]
LsRecord == [alive : BOOLEAN, start : Nat, parent : LsPid \cup {LsInit1}, group : Nat, named : BOOLEAN,
             label : BOOLEAN, ticket : LsTicket]
LsStep == {"none", "key", "exists", "create", "write", "issue", "wait", "done"}
LsState == [at : LsStep, key : Nat, child : Nat]

LsTypeOK ==
    /\ lsProc \in [LsPid -> LsRecord] /\ lsLaunch \in [LsPid -> LsState]
    /\ lsStarts \in Nat /\ lsKeys \in 0..LsMaxKey /\ lsKeyFile \in 0..LsMaxKey + 1

\* A process that is dead has no start time, launches nothing and carries nothing.
LsLiveInv ==
    \A p \in LsPid :
        /\ lsProc[p].start <= lsStarts /\ lsProc[p].group <= lsStarts /\ lsProc[p].ticket.start <= lsStarts
        /\ lsProc[p].alive => lsProc[p].start # 0
        /\ ~lsProc[p].alive => lsProc[p] = Ended /\ lsLaunch[p].at = "none"

\* The file is short while one launcher writes it; a key that a launcher signs
\* with, or has signed a ticket with, is the one in the file, which never changes.
LsKeyInv ==
    /\ \A p \in LsPid :
          /\ lsLaunch[p].at = "write" => lsKeyFile = LsMaxKey + 1
          /\ lsLaunch[p].at \in {"create", "write"} => lsLaunch[p].key \in 1..LsMaxKey
          /\ lsLaunch[p].at = "issue" => lsLaunch[p].key = lsKeyFile /\ lsKeyFile \in 1..LsMaxKey
          /\ lsProc[p].ticket # NoTicket =>
                /\ lsProc[p].ticket.key = lsKeyFile /\ lsKeyFile \in 1..LsMaxKey
                /\ lsProc[p].ticket.pid \in LsPid /\ lsProc[p].ticket.start # 0
    /\ \A p, q \in LsPid : lsLaunch[p].at = "write" /\ lsLaunch[q].at = "write" => p = q

\* The process that a ticket names by PID and start time is supervising a session.
LsBoundInv ==
    \A p, q \in LsPid :
        lsProc[p].ticket # NoTicket /\ lsProc[p].ticket.pid = q /\ lsProc[q].start = lsProc[p].ticket.start =>
            lsLaunch[q].at \in {"wait", "done"}

\* A harness's group is its own, without its launcher, and empty once the launcher has killed it.
LsGroupInv ==
    \A p \in LsPid :
        /\ lsLaunch[p].at \in {"wait", "done"} => lsLaunch[p].child \in 1..lsStarts /\ lsProc[p].group # lsLaunch[p].child
        /\ lsLaunch[p].at = "done" => \A r \in LsPid : lsProc[r].alive => lsProc[r].group # lsLaunch[p].child

LsInv == LsTypeOK /\ LsLiveInv /\ LsKeyInv /\ LsBoundInv /\ LsGroupInv

\* An environment is its label and its ticket.
LEMMA LsEnvFields == ASSUME NEW l, NEW t PROVE Env(l, t).label = l /\ Env(l, t).ticket = t
  BY DEF Env

\* The records of one process and its launcher.
LEMMA LsProcType ==
    ASSUME LsTypeOK, NEW p \in LsPid
    PROVE  /\ lsProc[p] \in LsRecord /\ lsProc[p].ticket \in LsTicket /\ lsProc[p].start \in Nat /\ lsProc[p].group \in Nat
           /\ lsProc[p].alive \in BOOLEAN /\ lsProc[p].ticket.start \in Nat /\ lsProc[p].ticket.key \in Nat
           /\ lsLaunch[p] \in LsState /\ lsLaunch[p].key \in Nat /\ lsLaunch[p].child \in Nat /\ lsLaunch[p].at \in LsStep
           /\ lsProc[p].label \in BOOLEAN
  BY DEF LsTypeOK, LsRecord, LsState, LsTicket

\* The fields of the records that stand for nothing.
LEMMA LsNothing ==
    /\ NoTicket \in LsTicket /\ NoTicket.key = 0 /\ NoTicket.start = 0 /\ NoTicket.pid = LsInit1
    /\ Ended \in LsRecord /\ ~Ended.alive /\ Ended.start = 0 /\ Ended.group = 0 /\ Ended.ticket = NoTicket
    /\ Idle \in LsState /\ Idle.at = "none" /\ Idle.key = 0 /\ Idle.child = 0
  BY DEF NoTicket, LsTicket, Ended, LsRecord, Idle, LsState, LsStep

\* A process starts: with a new start time, and a group and a ticket that another
\* has or none.
LEMMA LsSpawn ==
    ASSUME LsInv, NEW q \in LsPid, ~lsProc[q].alive, NEW r \in LsRecord, r.alive, r.start = lsStarts + 1,
           r.group = 0 \/ \E s \in LsPid : lsProc[s].alive /\ r.group = lsProc[s].group,
           r.ticket = NoTicket \/ \E s \in LsPid : r.ticket = lsProc[s].ticket,
           lsProc' = [lsProc EXCEPT ![q] = r], lsStarts' = lsStarts + 1, UNCHANGED <<lsKeyFile, lsKeys, lsLaunch>>
    PROVE  LsInv'
  <1>1. /\ lsProc'[q] = r /\ \A s \in LsPid : s # q => lsProc'[s] = lsProc[s]
        /\ lsStarts \in Nat /\ lsLaunch[q].at = "none"
    BY DEF LsInv, LsTypeOK, LsLiveInv
  <1>2. LsTypeOK'
    BY DEF LsInv, LsTypeOK
  <1>3. \A s \in LsPid : /\ lsProc[s].start \in Nat /\ lsProc[s].group \in Nat /\ lsProc[s].ticket.start \in Nat
                         /\ lsProc[s].start <= lsStarts /\ lsProc[s].group <= lsStarts /\ lsProc[s].ticket.start <= lsStarts
    BY LsProcType DEF LsInv, LsLiveInv
  <1>4. r.ticket.start \in Nat /\ r.ticket.start <= lsStarts /\ r.group \in Nat /\ r.group <= lsStarts
    BY <1>1, <1>3, LsNothing
  <1>5. LsLiveInv'
    BY <1>1, <1>3, <1>4 DEF LsInv, LsLiveInv
  <1>6. LsKeyInv'
    BY <1>1 DEF LsInv, LsKeyInv
  <1>7. LsBoundInv'
    <2> SUFFICES ASSUME NEW s \in LsPid, NEW v \in LsPid, lsProc'[s].ticket # NoTicket, lsProc'[s].ticket.pid = v,
                        lsProc'[v].start = lsProc'[s].ticket.start
                 PROVE  lsLaunch[v].at \in {"wait", "done"}
      BY DEF LsBoundInv, NoTicket
    <2>1. PICK w \in LsPid : lsProc'[s].ticket = lsProc[w].ticket
      BY <1>1
    <2>2. v # q
      BY <1>1, <1>3, <2>1
    <2> QED BY <1>1, <2>1, <2>2 DEF LsInv, LsBoundInv
  <1>8. LsGroupInv'
    <2>1. ASSUME NEW s \in LsPid, lsLaunch[s].at \in {"wait", "done"} PROVE lsLaunch[s].child \in 1..lsStarts + 1 /\ lsLaunch[s].child # 0
      BY <1>1, <2>1 DEF LsInv, LsGroupInv
    <2>2. ASSUME NEW s \in LsPid, lsLaunch[s].at = "done", NEW v \in LsPid, lsProc'[v].alive PROVE lsProc'[v].group # lsLaunch[s].child
      BY <1>1, <2>1, <2>2 DEF LsInv, LsGroupInv
    <2>3. ASSUME NEW s \in LsPid, lsLaunch[s].at \in {"wait", "done"} PROVE lsProc'[s].group # lsLaunch[s].child
      BY <1>1, <2>3 DEF LsInv, LsGroupInv
    <2> QED BY <2>1, <2>2, <2>3 DEF LsGroupInv
  <1> QED BY <1>2, <1>5, <1>6, <1>7, <1>8 DEF LsInv

\* Processes end, and what they launched with them; their children get another parent.
LEMMA LsKill ==
    ASSUME LsInv, NEW gone \in SUBSET LsPid, lsProc' = Without(gone), UNCHANGED <<lsStarts, lsKeyFile, lsKeys>>,
           lsLaunch' \in [LsPid -> LsState],
           \A s \in gone : lsLaunch'[s] = Idle,
           \A s \in LsPid \ gone :
              \/ lsLaunch'[s] = lsLaunch[s]
              \/ /\ lsProc[s].alive /\ lsLaunch[s].at = "wait" /\ lsLaunch'[s].at = "done"
                 /\ lsLaunch'[s].child = lsLaunch[s].child
                 /\ gone = Group(lsLaunch[s].child)
    PROVE  LsInv'
  <1>1. \A s \in LsPid :
          /\ s \in gone => lsProc'[s] = Ended
          /\ s \notin gone => /\ lsProc'[s] \in LsRecord /\ lsProc'[s].alive = lsProc[s].alive /\ lsProc'[s].start = lsProc[s].start
                              /\ lsProc'[s].group = lsProc[s].group /\ lsProc'[s].ticket = lsProc[s].ticket
    BY LsProcType DEF Without, LsInv, LsRecord
  <1>2. lsProc' \in [LsPid -> LsRecord]
    <2>1. lsProc' = [s \in LsPid |-> lsProc'[s]]
      BY DEF Without
    <2>2. \A s \in LsPid : lsProc'[s] \in LsRecord
      BY <1>1, LsNothing
    <2> QED BY <2>1, <2>2
  <1>3. LsTypeOK'
    BY <1>2 DEF LsInv, LsTypeOK
  <1>4. LsLiveInv'
    <2> SUFFICES ASSUME NEW s \in LsPid
                 PROVE  /\ lsProc'[s].start <= lsStarts /\ lsProc'[s].group <= lsStarts /\ lsProc'[s].ticket.start <= lsStarts
                        /\ lsProc'[s].alive => lsProc'[s].start # 0
                        /\ ~lsProc'[s].alive => lsProc'[s] = Ended /\ lsLaunch'[s].at = "none"
      BY DEF LsLiveInv, Ended, NoTicket
    <2>1. CASE s \in gone
      BY <1>1, <2>1, LsNothing DEF LsInv, LsLiveInv, LsTypeOK
    <2>2. CASE s \notin gone
      <3>1. /\ lsProc[s].start <= lsStarts /\ lsProc[s].group <= lsStarts /\ lsProc[s].ticket.start <= lsStarts
            /\ lsProc[s].alive => lsProc[s].start # 0
            /\ ~lsProc[s].alive => lsProc[s] = Ended /\ lsLaunch[s].at = "none"
        BY DEF LsInv, LsLiveInv
      <3>2. ~lsProc[s].alive => lsProc'[s] = Ended
        <4>1. ASSUME ~lsProc[s].alive PROVE lsProc[s].parent \notin gone
          BY <3>1, <4>1, LsAssumption DEF Ended
        <4> QED BY <2>2, <3>1, <4>1 DEF Without
      <3> QED BY <1>1, <2>2, <3>1, <3>2
    <2> QED BY <2>1, <2>2
  <1>5. LsKeyInv'
    BY <1>1, LsNothing DEF LsInv, LsKeyInv, LsLiveInv
  <1>6. LsBoundInv'
    <2> SUFFICES ASSUME NEW s \in LsPid, NEW v \in LsPid, lsProc'[s].ticket # NoTicket, lsProc'[s].ticket.pid = v,
                        lsProc'[v].start = lsProc'[s].ticket.start
                 PROVE  lsLaunch'[v].at \in {"wait", "done"}
      BY DEF LsBoundInv, NoTicket
    <2>1. s \notin gone /\ lsProc[s].ticket # NoTicket /\ lsProc[s].ticket = lsProc'[s].ticket
      BY <1>1, LsNothing
    <2>2. v \notin gone
      BY <1>1, <2>1, LsNothing DEF LsInv, LsKeyInv
    <2>3. lsLaunch[v].at \in {"wait", "done"}
      BY <1>1, <2>1, <2>2 DEF LsInv, LsBoundInv
    <2> QED BY <2>2, <2>3
  <1>7. LsGroupInv'
    <2>1. ASSUME NEW s \in LsPid, lsLaunch'[s].at \in {"wait", "done"} PROVE s \notin gone /\ lsLaunch'[s].child \in 1..lsStarts
      BY <2>1, LsNothing DEF LsInv, LsGroupInv, LsLiveInv
    <2>2. ASSUME NEW s \in LsPid, lsLaunch'[s].at = "done", NEW v \in LsPid, lsProc'[v].alive PROVE lsProc'[v].group # lsLaunch'[s].child
      <3>1. v \notin gone /\ lsProc[v].alive /\ lsProc'[v].group = lsProc[v].group
        BY <1>1, <2>2, LsNothing
      <3> QED BY <2>1, <2>2, <3>1 DEF LsInv, LsGroupInv, Group, Alive
    <2>3. ASSUME NEW s \in LsPid, lsLaunch'[s].at \in {"wait", "done"} PROVE lsProc'[s].group # lsLaunch'[s].child
      BY <1>1, <2>1, <2>3 DEF LsInv, LsGroupInv
    <2> QED BY <2>1, <2>2, <2>3 DEF LsGroupInv
  <1> QED BY <1>3, <1>4, <1>5, <1>6, <1>7 DEF LsInv

\* A launcher moves on: it changes neither processes nor sessions.
LEMMA LsMove ==
    ASSUME LsInv, NEW p \in LsPid, lsProc[p].alive, NEW s \in LsState, lsLaunch' = [lsLaunch EXCEPT ![p] = s],
           lsLaunch[p].at \notin {"wait", "done"}, s.at \notin {"wait", "done"},
           UNCHANGED <<lsProc, lsStarts>>, lsKeys' \in 0..LsMaxKey, lsKeyFile' \in 0..LsMaxKey + 1, LsKeyInv'
    PROVE  LsInv'
  <1>1. lsLaunch'[p] = s /\ \A q \in LsPid : q # p => lsLaunch'[q] = lsLaunch[q]
    BY DEF LsInv, LsTypeOK
  <1>2. LsTypeOK'
    BY DEF LsInv, LsTypeOK
  <1>3. LsLiveInv'
    BY <1>1 DEF LsInv, LsLiveInv, Ended, NoTicket
  <1>4. LsBoundInv'
    BY <1>1 DEF LsInv, LsBoundInv, NoTicket
  <1>5. LsGroupInv'
    BY <1>1 DEF LsInv, LsGroupInv
  <1> QED BY <1>2, <1>3, <1>4, <1>5 DEF LsInv

\* No process runs before the first one starts.
LEMMA LsInitInv == LsStartInit => LsInv
  <1> SUFFICES ASSUME LsStartInit PROVE LsInv
    OBVIOUS
  <1>1. LsTypeOK
    BY LsNothing, LsAssumption DEF LsStartInit, LsTypeOK
  <1>2. \A p \in LsPid : lsProc[p] = Ended /\ lsLaunch[p] = Idle
    BY DEF LsStartInit
  <1>3. LsLiveInv
    BY <1>2, LsNothing DEF LsLiveInv, LsStartInit
  <1>4. LsKeyInv /\ LsBoundInv /\ LsGroupInv
    BY <1>2, LsNothing DEF LsKeyInv, LsBoundInv, LsGroupInv
  <1> QED BY <1>1, <1>3, <1>4 DEF LsInv

\* The harness starts: its ticket names the launcher and is signed with the key
\* in the file.
LEMMA LsIssue ==
    ASSUME LsInv, NEW p \in LsPid, NEW q \in LsPid, IssueLaunchTicket(p, q)
    PROVE  LsInv'
  <1> DEFINE t == [pid |-> p, start |-> lsProc[p].start, key |-> lsLaunch[p].key]
  <1>0. PICK named \in BOOLEAN : lsProc' = [lsProc EXCEPT ![q] = NewProc(p, lsStarts + 1, named, Env(lsProc[p].label, t))]
    BY DEF IssueLaunchTicket
  <1> DEFINE r == NewProc(p, lsStarts + 1, named, Env(lsProc[p].label, t))
  <1>1. /\ lsLaunch[p].at = "issue" /\ ~lsProc[q].alive /\ lsStarts' = lsStarts + 1 /\ UNCHANGED <<lsKeyFile, lsKeys>>
        /\ lsLaunch' = [lsLaunch EXCEPT ![p] = [lsLaunch[p] EXCEPT !.at = "wait", !.child = lsStarts + 1]]
    BY DEF IssueLaunchTicket, At, Alive
  <1>2. /\ lsStarts \in Nat /\ lsProc[p].alive /\ p # q /\ lsProc[p].start # 0 /\ lsLaunch[q].at = "none"
        /\ lsProc[p].start \in Nat /\ lsProc[p].start <= lsStarts /\ lsProc[p].group \in Nat /\ lsProc[p].group <= lsStarts
        /\ lsLaunch[p] \in LsState /\ lsLaunch[p].key = lsKeyFile /\ lsKeyFile \in 1..LsMaxKey
    BY <1>1, LsProcType DEF LsInv, LsTypeOK, LsLiveInv, LsKeyInv
  <1>b. PICK b \in LsState : b = lsLaunch[p]
    BY <1>2
  <1>n. PICK n \in Nat : n = lsStarts + 1
    BY <1>2
  <1>3. t \in LsTicket /\ t.pid = p /\ t.start = lsProc[p].start /\ t.key = lsKeyFile
    BY <1>2, LsAssumption DEF LsTicket
  <1>4. r \in LsRecord /\ r.alive /\ r.start = lsStarts + 1 /\ r.group = lsStarts + 1 /\ r.ticket = t
    <2>1. Env(lsProc[p].label, t).label = lsProc[p].label /\ Env(lsProc[p].label, t).ticket = t
      BY LsEnvFields
    <2>2. lsProc[p].label \in BOOLEAN
      BY LsProcType DEF LsInv
    <2> HIDE DEF t
    <2> QED BY <1>2, <1>3, <2>1, <2>2 DEF NewProc, LsRecord
  <1>5. /\ lsProc'[q] = r /\ \A s \in LsPid : s # q => lsProc'[s] = lsProc[s]
        /\ lsLaunch'[p] \in LsState /\ lsLaunch'[p].at = "wait" /\ lsLaunch'[p].child = lsStarts + 1
        /\ \A s \in LsPid : s # p => lsLaunch'[s] = lsLaunch[s]
    <2>1. lsLaunch' = [lsLaunch EXCEPT ![p] = [b EXCEPT !.at = "wait", !.child = n]]
      BY <1>1, <1>b, <1>n
    <2>2. /\ [b EXCEPT !.at = "wait", !.child = n] \in LsState /\ [b EXCEPT !.at = "wait", !.child = n].at = "wait"
          /\ [b EXCEPT !.at = "wait", !.child = n].child = n
      BY DEF LsState, LsStep
    <2> QED BY <1>0, <1>n, <2>1, <2>2 DEF LsInv, LsTypeOK
  <1>6. lsProc' \in [LsPid -> LsRecord]
    BY <1>0, <1>4 DEF LsInv, LsTypeOK
  <1>7. lsLaunch' \in [LsPid -> LsState]
    <2>1. lsLaunch' = [lsLaunch EXCEPT ![p] = [b EXCEPT !.at = "wait", !.child = n]]
      BY <1>1, <1>b, <1>n
    <2>2. [b EXCEPT !.at = "wait", !.child = n] \in LsState
      BY DEF LsState, LsStep
    <2> QED BY <2>1, <2>2 DEF LsInv, LsTypeOK
  <1> HIDE DEF r, t
  <1>8. LsTypeOK'
    BY <1>1, <1>2, <1>6, <1>7 DEF LsInv, LsTypeOK
  <1>9. \A s \in LsPid : /\ lsProc[s].start \in Nat /\ lsProc[s].group \in Nat /\ lsProc[s].ticket.start \in Nat
                         /\ lsProc[s].start <= lsStarts /\ lsProc[s].group <= lsStarts /\ lsProc[s].ticket.start <= lsStarts
    BY LsProcType DEF LsInv, LsLiveInv
  <1>10. LsLiveInv'
    BY <1>1, <1>2, <1>3, <1>4, <1>5, <1>9 DEF LsInv, LsLiveInv
  <1>11. LsKeyInv'
    BY <1>1, <1>2, <1>3, <1>4, <1>5 DEF LsInv, LsKeyInv
  <1>12. LsBoundInv'
    <2> SUFFICES ASSUME NEW s \in LsPid, NEW v \in LsPid, lsProc'[s].ticket # NoTicket, lsProc'[s].ticket.pid = v,
                        lsProc'[v].start = lsProc'[s].ticket.start
                 PROVE  lsLaunch'[v].at \in {"wait", "done"}
      BY DEF LsBoundInv, NoTicket
    <2>1. CASE v = p
      BY <1>5, <2>1
    <2>2. CASE v # p
      <3>1. s # q
        BY <1>3, <1>4, <1>5, <2>2
      <3>2. v # q
        BY <1>4, <1>5, <1>9, <3>1, <1>2
      <3> QED BY <1>5, <2>2, <3>1, <3>2 DEF LsInv, LsBoundInv
    <2> QED BY <2>1, <2>2
  <1>13. LsGroupInv'
    <2>1. ASSUME NEW s \in LsPid, lsLaunch'[s].at \in {"wait", "done"}
          PROVE  lsLaunch'[s].child \in 1..lsStarts + 1 /\ lsProc'[s].group # lsLaunch'[s].child
      BY <1>2, <1>5, <2>1 DEF LsInv, LsGroupInv
    <2>2. ASSUME NEW s \in LsPid, lsLaunch'[s].at = "done", NEW v \in LsPid, lsProc'[v].alive
          PROVE  lsProc'[v].group # lsLaunch'[s].child
      <3>1. s # p /\ lsLaunch[s].at = "done" /\ lsLaunch'[s].child = lsLaunch[s].child /\ lsLaunch[s].child \in 1..lsStarts
        BY <1>5, <2>2 DEF LsInv, LsGroupInv
      <3> QED BY <1>2, <1>4, <1>5, <2>2, <3>1 DEF LsInv, LsGroupInv
    <2> QED BY <1>1, <2>1, <2>2 DEF LsGroupInv
  <1> QED BY <1>8, <1>10, <1>11, <1>12, <1>13 DEF LsInv

\* Every step of processes, launchers and the key file preserves the invariant.
LEMMA LsNextInv == ASSUME LsInv, [LsNext]_lsVars PROVE LsInv'
  <1>1. ASSUME NEW p \in LsPid, NEW l \in BOOLEAN, NEW t \in {NoTicket} \cup {lsProc[q].ticket : q \in LsPid}, LsShell(p, l, t)
        PROVE  LsInv'
    <2>1. t \in LsTicket
      BY <1>1, LsNothing, LsProcType DEF LsInv
    <2>2. NewProc(LsInit1, 0, FALSE, Env(l, t)) \in LsRecord
      BY <2>1 DEF NewProc, LsRecord, LsInv, LsTypeOK, Env
    <2> QED BY <1>1, <2>1, <2>2, LsSpawn DEF LsShell, NewProc, Alive, Env
  <1>2. ASSUME NEW p \in LsPid, NEW q \in LsPid, LsFork(p, q) PROVE LsInv'
    <2>1. PICK g \in {0, lsProc[p].group}, env \in Environments(p) : lsProc' = [lsProc EXCEPT ![q] = NewProc(p, g, FALSE, env)]
      BY <1>2 DEF LsFork
    <2> DEFINE r == NewProc(p, g, FALSE, env)
    <2>5. env.label \in BOOLEAN /\ env.ticket \in {NoTicket, lsProc[p].ticket} /\ lsProc[p] \in LsRecord /\ lsProc[p].ticket \in LsTicket
      <3>1. lsProc[p].label \in BOOLEAN /\ lsProc[p] \in LsRecord /\ lsProc[p].ticket \in LsTicket
        BY LsProcType DEF LsInv
      <3>2. /\ Env(FALSE, NoTicket).label = FALSE /\ Env(FALSE, NoTicket).ticket = NoTicket
            /\ Env(TRUE, lsProc[p].ticket).label = TRUE /\ Env(TRUE, lsProc[p].ticket).ticket = lsProc[p].ticket
            /\ Env(lsProc[p].label, lsProc[p].ticket).label = lsProc[p].label
            /\ Env(lsProc[p].label, lsProc[p].ticket).ticket = lsProc[p].ticket
        BY LsEnvFields
      <3> QED BY <3>1, <3>2, Zenon DEF Environments
    <2>2. r \in LsRecord
      BY <2>5, LsNothing DEF NewProc, LsRecord, LsInv, LsTypeOK
    <2>3. r.alive /\ r.start = lsStarts + 1 /\ r.group \in {0, lsProc[p].group} /\ r.ticket \in {NoTicket, lsProc[p].ticket}
      BY <2>5 DEF NewProc
    <2>4. /\ lsProc[p].alive /\ ~lsProc[q].alive /\ lsStarts' = lsStarts + 1 /\ UNCHANGED <<lsKeyFile, lsKeys, lsLaunch>>
          /\ lsProc' = [lsProc EXCEPT ![q] = r]
      BY <1>2, <2>1 DEF LsFork, Alive
    <2> HIDE DEF r
    <2> QED BY <2>2, <2>3, <2>4, LsSpawn
  <1>3. ASSUME NEW p \in LsPid, NEW q \in LsPid, IssueLaunchTicket(p, q) PROVE LsInv'
    BY <1>3, LsIssue
  <1>4. ASSUME NEW p \in LsPid, LsEnd(p) \/ LaunchExit(p) PROVE LsInv'
    <2>1. lsProc' = Without({p}) /\ lsLaunch' = [lsLaunch EXCEPT ![p] = Idle] /\ UNCHANGED <<lsStarts, lsKeyFile, lsKeys>>
      BY <1>4 DEF LsEnd, LaunchExit, At
    <2>2. lsLaunch' \in [LsPid -> LsState] /\ lsLaunch'[p] = Idle /\ \A s \in LsPid : s # p => lsLaunch'[s] = lsLaunch[s]
      BY <2>1, LsNothing DEF LsInv, LsTypeOK
    <2> DEFINE gone == {p}
    <2>3. gone \in SUBSET LsPid /\ lsProc' = Without(gone) /\ (\A s \in gone : lsLaunch'[s] = Idle)
          /\ \A s \in LsPid \ gone : lsLaunch'[s] = lsLaunch[s]
      BY <2>1, <2>2
    <2> HIDE DEF gone
    <2>4. lsLaunch' \in [LsPid -> LsState]
      BY <2>2
    <2>6. \A s \in LsPid \ gone :
              \/ lsLaunch'[s] = lsLaunch[s]
              \/ /\ lsProc[s].alive /\ lsLaunch[s].at = "wait" /\ lsLaunch'[s].at = "done"
                 /\ lsLaunch'[s].child = lsLaunch[s].child
                 /\ gone = Group(lsLaunch[s].child)
      BY <2>3
    <2> QED BY <2>1, <2>3, <2>4, <2>6, LsKill, Zenon
  <1>5. ASSUME NEW p \in LsPid, SuperviseLaunch(p) PROVE LsInv'
    <2> DEFINE g == Group(lsLaunch[p].child)
    <2>1. /\ lsLaunch[p].at = "wait" /\ lsProc' = Without(g) /\ UNCHANGED <<lsStarts, lsKeyFile, lsKeys>>
          /\ lsLaunch' = [q \in LsPid |-> IF q = p THEN [Idle EXCEPT !.at = "done", !.child = lsLaunch[p].child]
                                          ELSE IF q \in g THEN Idle ELSE lsLaunch[q]]
      BY <1>5 DEF SuperviseLaunch
    <2>2. g \in SUBSET LsPid /\ p \notin g /\ lsProc[p].alive /\ lsLaunch[p] \in LsState
      BY <2>1, LsProcType DEF Group, LsInv, LsGroupInv, LsLiveInv
    <2>3. [Idle EXCEPT !.at = "done", !.child = lsLaunch[p].child] \in LsState
      BY <2>2, LsNothing DEF LsState, LsStep
    <2>4. lsLaunch'[p].at = "done" /\ lsLaunch'[p].child = lsLaunch[p].child
      BY <2>1 DEF Idle
    <2>5. lsLaunch' \in [LsPid -> LsState]
      BY <2>1, <2>3, LsNothing DEF LsInv, LsTypeOK
    <2>6. /\ \A s \in g : lsLaunch'[s] = Idle
          /\ \A s \in LsPid \ g : s # p => lsLaunch'[s] = lsLaunch[s]
      BY <2>1, <2>2
    <2> DEFINE gone == g
    <2>7. gone = Group(lsLaunch[p].child) /\ gone = g
      OBVIOUS
    <2> HIDE DEF g, gone
    <2>8. \A s \in LsPid \ gone :
              \/ lsLaunch'[s] = lsLaunch[s]
              \/ /\ lsProc[s].alive /\ lsLaunch[s].at = "wait" /\ lsLaunch'[s].at = "done"
                 /\ lsLaunch'[s].child = lsLaunch[s].child /\ gone = Group(lsLaunch[s].child)
      BY <2>1, <2>2, <2>4, <2>6, <2>7
    <2>9. gone \in SUBSET LsPid /\ lsProc' = Without(gone) /\ \A s \in gone : lsLaunch'[s] = Idle
      BY <2>1, <2>2, <2>6, <2>7
    <2> QED BY <2>1, <2>5, <2>8, <2>9, LsKill, Zenon
  <1>6. ASSUME NEW p \in LsPid, NEW s \in LsState, lsLaunch' = [lsLaunch EXCEPT ![p] = s]
        PROVE  lsLaunch'[p] = s /\ \A q \in LsPid : q # p => lsLaunch'[q] = lsLaunch[q]
    BY <1>6 DEF LsInv, LsTypeOK
  <1>7. ASSUME NEW p \in LsPid, LaunchBegin(p) PROVE LsInv'
    <2> DEFINE s == [Idle EXCEPT !.at = "key"]
    <2>1. s \in LsState /\ s.at = "key"
      BY DEF Idle, LsState, LsStep
    <2>2. /\ lsProc[p].alive /\ lsLaunch[p].at = "none" /\ lsLaunch' = [lsLaunch EXCEPT ![p] = s]
          /\ UNCHANGED <<lsProc, lsStarts, lsKeyFile, lsKeys>>
      BY <1>7 DEF LaunchBegin, At, Alive
    <2> HIDE DEF s
    <2>3. LsKeyInv'
      BY <1>6, <2>1, <2>2 DEF LsInv, LsKeyInv, NoTicket
    <2> QED BY <2>1, <2>2, <2>3, LsMove DEF LsInv, LsTypeOK
  <1>8. ASSUME NEW p \in LsPid, ReadTicketKey(p) PROVE LsInv'
    <2> DEFINE s == IF lsKeyFile = LsMaxKey + 1 THEN Idle ELSE [Idle EXCEPT !.at = "issue", !.key = lsKeyFile]
    <2>1. /\ lsLaunch[p].at \in {"key", "exists"} /\ lsKeyFile # 0 /\ lsLaunch' = [lsLaunch EXCEPT ![p] = s]
          /\ UNCHANGED <<lsProc, lsStarts, lsKeyFile, lsKeys>>
      BY <1>8 DEF ReadTicketKey, At
    <2>2. lsProc[p].alive /\ lsKeyFile \in 1..LsMaxKey + 1 /\ lsKeyFile \in Nat
      BY <2>1, LsAssumption DEF LsInv, LsLiveInv, LsTypeOK
    <2>3. s \in LsState /\ (s.at = "none" \/ (s.at = "issue" /\ s.key = lsKeyFile /\ lsKeyFile \in 1..LsMaxKey))
      <3>1. CASE lsKeyFile = LsMaxKey + 1
        <4>1. s = Idle
          BY <3>1
        <4>2. Idle \in LsState /\ Idle.at = "none"
          BY LsNothing
        <4> HIDE DEF s
        <4> QED BY <4>1, <4>2
      <3>2. CASE lsKeyFile # LsMaxKey + 1
        <4>1. lsKeyFile \in 1..LsMaxKey
          BY <2>2, <3>2, LsAssumption
        <4>2. Idle \in LsState
          BY LsNothing
        <4>3. /\ [Idle EXCEPT !.at = "issue", !.key = lsKeyFile] \in LsState
              /\ [Idle EXCEPT !.at = "issue", !.key = lsKeyFile].at = "issue"
              /\ [Idle EXCEPT !.at = "issue", !.key = lsKeyFile].key = lsKeyFile
          BY <2>2, <4>2 DEF LsState, LsStep
        <4> QED BY <3>2, <4>1, <4>3
      <3> QED BY <3>1, <3>2
    <2> HIDE DEF s
    <2>4. LsKeyInv'
      BY <1>6, <2>1, <2>2, <2>3 DEF LsInv, LsKeyInv, NoTicket
    <2> QED BY <2>1, <2>2, <2>3, <2>4, LsMove DEF LsInv, LsTypeOK
  <1>9. ASSUME NEW p \in LsPid, MissTicketKey(p) PROVE LsInv'
    <2> DEFINE s == [Idle EXCEPT !.at = "create", !.key = lsKeys + 1]
    <2>1. /\ lsLaunch[p].at = "key" /\ lsKeyFile = 0 /\ lsKeys < LsMaxKey /\ lsLaunch' = [lsLaunch EXCEPT ![p] = s]
          /\ lsKeys' = lsKeys + 1 /\ UNCHANGED <<lsProc, lsStarts, lsKeyFile>>
      BY <1>9 DEF MissTicketKey, At
    <2>2. lsProc[p].alive /\ lsKeys \in Nat /\ lsKeys + 1 \in 1..LsMaxKey
      BY <2>1, LsAssumption DEF LsInv, LsLiveInv, LsTypeOK
    <2>3. s \in LsState /\ s.at = "create" /\ s.key \in 1..LsMaxKey
      <3>1. Idle \in LsState
        BY LsNothing
      <3>2. PICK n \in Nat : n = lsKeys + 1
        BY <2>2
      <3>3. /\ [Idle EXCEPT !.at = "create", !.key = n] \in LsState
            /\ [Idle EXCEPT !.at = "create", !.key = n].at = "create" /\ [Idle EXCEPT !.at = "create", !.key = n].key = n
        BY <3>1 DEF LsState, LsStep
      <3> QED BY <2>2, <3>2, <3>3
    <2> HIDE DEF s
    <2>4. LsKeyInv'
      BY <1>6, <2>1, <2>2, <2>3 DEF LsInv, LsKeyInv, NoTicket
    <2>5. lsKeys' \in 0..LsMaxKey /\ lsKeyFile' \in 0..LsMaxKey + 1
      BY <2>1, <2>2, LsAssumption DEF LsInv, LsTypeOK
    <2> QED BY <2>1, <2>2, <2>3, <2>4, <2>5, LsMove
  <1>10. ASSUME NEW p \in LsPid, CreateTicketKey(p) PROVE LsInv'
    <2> DEFINE s == IF lsKeyFile = 0 THEN [lsLaunch[p] EXCEPT !.at = "write"] ELSE [Idle EXCEPT !.at = "exists"]
    <2>1. /\ lsLaunch[p].at = "create" /\ lsLaunch' = [lsLaunch EXCEPT ![p] = s]
          /\ UNCHANGED <<lsProc, lsStarts, lsKeys>>
          /\ IF lsKeyFile = 0 THEN lsKeyFile' = LsMaxKey + 1 ELSE UNCHANGED lsKeyFile
      BY <1>10 DEF CreateTicketKey, At
    <2>2. /\ lsProc[p].alive /\ lsLaunch[p] \in LsState /\ lsLaunch[p].key \in 1..LsMaxKey
          /\ lsKeyFile' \in 0..LsMaxKey + 1
      BY <2>1, LsProcType, LsAssumption DEF LsInv, LsLiveInv, LsTypeOK, LsKeyInv
    <2>3. s \in LsState /\ s.at = (IF lsKeyFile = 0 THEN "write" ELSE "exists") /\ (lsKeyFile = 0 => s.key = lsLaunch[p].key)
      BY <2>2 DEF Idle, LsState, LsStep
    <2> HIDE DEF s
    <2>4. LsKeyInv'
      <3>1. CASE lsKeyFile = 0
        <4>1. \A q \in LsPid : lsProc[q].ticket = NoTicket /\ lsLaunch[q].at \notin {"write", "issue"}
          BY <3>1, LsAssumption DEF LsInv, LsKeyInv
        <4> QED BY <1>6, <2>1, <2>2, <2>3, <3>1, <4>1 DEF LsInv, LsKeyInv, NoTicket
      <3>2. CASE lsKeyFile # 0
        BY <1>6, <2>1, <2>2, <2>3, <3>2 DEF LsInv, LsKeyInv, NoTicket
      <3> QED BY <3>1, <3>2
    <2> QED BY <2>1, <2>2, <2>3, <2>4, LsMove DEF LsInv, LsTypeOK
  <1>11. ASSUME NEW p \in LsPid, WriteTicketKey(p) PROVE LsInv'
    <2>1. /\ lsLaunch[p].at = "write" /\ UNCHANGED <<lsProc, lsStarts, lsKeys>>
          /\ \/ lsKeyFile' = lsLaunch[p].key /\ lsLaunch' = [lsLaunch EXCEPT ![p] = [lsLaunch[p] EXCEPT !.at = "issue"]]
             \/ lsKeyFile' = 0 /\ lsLaunch' = [lsLaunch EXCEPT ![p] = Idle]
      BY <1>11 DEF WriteTicketKey, At
    <2>2. /\ lsProc[p].alive /\ lsLaunch[p] \in LsState /\ lsLaunch[p].key \in 1..LsMaxKey
          /\ lsKeyFile' \in 0..LsMaxKey + 1 /\ lsKeyFile = LsMaxKey + 1
      BY <2>1, LsProcType, LsAssumption DEF LsInv, LsLiveInv, LsTypeOK, LsKeyInv
    <2>3. PICK s \in LsState : /\ lsLaunch' = [lsLaunch EXCEPT ![p] = s]
                               /\ \/ s.at = "issue" /\ s.key = lsLaunch[p].key /\ lsKeyFile' = lsLaunch[p].key
                                  \/ s.at = "none"
      <3>1. Idle \in LsState /\ Idle.at = "none"
        BY LsNothing
      <3>2. [lsLaunch[p] EXCEPT !.at = "issue"] \in LsState /\ [lsLaunch[p] EXCEPT !.at = "issue"].at = "issue"
            /\ [lsLaunch[p] EXCEPT !.at = "issue"].key = lsLaunch[p].key
        BY <2>2 DEF LsState, LsStep
      <3> QED BY <2>1, <3>1, <3>2
    <2>4. \A q \in LsPid : /\ lsProc[q].ticket = NoTicket /\ lsLaunch[q].at # "issue"
                           /\ q # p => lsLaunch[q].at # "write"
      BY <2>1, <2>2, LsAssumption DEF LsInv, LsKeyInv
    <2>5. LsKeyInv'
      <3>1. lsLaunch'[p] = s /\ \A q \in LsPid : q # p => lsLaunch'[q] = lsLaunch[q]
        BY <1>6, <2>3
      <3> QED BY <2>1, <2>2, <2>3, <2>4, <3>1 DEF LsInv, LsKeyInv, NoTicket
    <2> QED BY <2>1, <2>2, <2>3, <2>5, LsMove DEF LsInv, LsTypeOK
  <1>12. ASSUME UNCHANGED <<lsProc, lsStarts, lsKeyFile, lsKeys, lsLaunch>> PROVE LsInv'
    BY <1>12 DEF LsInv, LsTypeOK, LsLiveInv, LsKeyInv, LsBoundInv, LsGroupInv, NoTicket, Ended
  <1>13. ASSUME NEW p \in LsPid, TicketExpires(p) PROVE LsInv'
    BY <1>12, <1>13 DEF TicketExpires
  <1>14. CASE UNCHANGED lsVars
    BY <1>12, <1>14 DEF lsVars
  <1> QED BY <1>1, <1>2, <1>3, <1>4, <1>5, <1>7, <1>8, <1>9, <1>10, <1>11, <1>13, <1>14 DEF LsNext

\* Launchers that race for the ticket key, die and have their PIDs reused, in
\* any number: every running session is recognised while its ticket is valid,
\* nothing else is but what carries a harness's variable or a label or descends
\* from a harness, and launch leaves nothing of its harness's group running.
THEOREM AgentSessionsHold == LsSpec => []SessionsHold
  <1>1. LsSpec => []LsInv
    BY LsInitInv, LsNextInv, PTL DEF LsSpec
  <1>2. LsInv => SessionsHold
    <2> SUFFICES ASSUME LsInv PROVE SessionsHold
      OBVIOUS
    <2>1. SessionRecognised
      <3> SUFFICES ASSUME NEW p \in LsPid, lsProc[p].ticket # NoTicket, lsProc[p].ticket.start \notin lsExpired,
                          NEW q \in ProcessChain(p), q = lsProc[p].ticket.pid, lsProc[q].start = lsProc[p].ticket.start
                   PROVE  Classify(p)
        BY DEF SessionRecognised
      <3>1. VerifyTicket(lsProc[p].ticket)
        BY LsAssumption DEF LsInv, LsKeyInv, VerifyTicket
      <3>2. VerifyBoundTicket(p)
        BY <3>1 DEF VerifyBoundTicket
      <3> QED BY <3>2 DEF Classify
    <2>2. OnlySessionsRecognised
      <3> SUFFICES ASSUME NEW p \in LsPid, VerifyBoundTicket(p)
                   PROVE  \E q \in ProcessChain(p) :
                             lsLaunch[q].at \in {"wait", "done"} /\ lsProc[p].ticket.start = lsProc[q].start
        BY DEF OnlySessionsRecognised, Classify, AncestrySignal, EnvironmentSignal
      <3>1. lsProc[p].ticket.key # 0
        BY DEF VerifyBoundTicket, VerifyTicket
      <3>2. PICK q \in ProcessChain(p) : q = lsProc[p].ticket.pid /\ lsProc[q].start = lsProc[p].ticket.start
        BY DEF VerifyBoundTicket
      <3>3. lsProc[p].ticket # NoTicket
        BY <3>1, LsNothing
      <3>4. q \in LsPid
        BY <3>2, <3>3 DEF LsInv, LsKeyInv
      <3>5. lsLaunch[q].at \in {"wait", "done"}
        BY <3>2, <3>3, <3>4 DEF LsInv, LsBoundInv
      <3> QED BY <3>2, <3>5
    <2>3. GroupStopped
      BY DEF GroupStopped, Group, Alive, LsInv, LsGroupInv
    <2> QED BY <2>1, <2>2, <2>3 DEF SessionsHold
  <1> QED BY <1>1, <1>2, PTL

-----------------------------------------------------------------------------
\* gateway up and gateway down

GpStep == {"none", "recover", "starting", "written", "serving", "closing"}
GpRecord == [kind : {"free", "gateway", "other", "command"}, at : GpStep, llm : BOOLEAN,
             bind : {"none", "loopback", "external"}, shared : BOOLEAN]

GpTypeOK ==
    /\ gpHost \in GpHosts
    /\ gpProc \in [GpPid -> GpRecord] /\ gpFile \in GpPid \cup {0}
    /\ gpDown \in [at : {"idle", "stale", "proceed"}, force : BOOLEAN] /\ gpStruck \in BOOLEAN

\* Only gateways have a step, and those of an agent session bind the loopback address.
GpKindInv ==
    \A p \in GpPid : /\ gpProc[p].kind = "gateway" <=> gpProc[p].at # "none"
                     /\ gpProc[p].kind = "gateway" /\ gpProc[p].llm => gpProc[p].bind = "loopback"

\* A gateway that was alone all its life is alone, and the file names it from the
\* time it has written it until it closes.
GpAloneInv ==
    \A p \in GpPid : gpProc[p].kind = "gateway" /\ ~gpProc[p].shared =>
        /\ \A q \in GpPid : gpProc[q].kind = "gateway" => q = p
        /\ gpHost # "renamed" /\ gpProc[p].at \in {"written", "serving"} => gpFile = p

\* While a `down` is under way no gateway that starts is alone; one that removes
\* a stale file met no gateway that was alone, if it knows keylatch by its name; one
\* that signals without --force, where there is a check, has seen that the process
\* in the file is keylatch, and it still is or is gone.
GpDownInv ==
    /\ gpDown.at # "idle" => \A p \in GpPid : gpProc[p].at \in {"recover", "starting"} => gpProc[p].shared
    /\ gpDown.at = "stale" /\ gpHost # "renamed" => \A p \in GpPid : gpProc[p].at \in {"written", "serving"} => gpProc[p].shared
    /\ gpDown.at = "proceed" /\ ~gpDown.force /\ gpHost # "windows" /\ gpFile # 0 => gpProc[gpFile].kind # "other"

GpInv == GpTypeOK /\ GpKindInv /\ GpAloneInv /\ GpDownInv /\ NoStrangerSignalled

\* The record of a process that there is not.
LEMMA GpFreeType ==
    GpFree \in GpRecord /\ GpFree.kind = "free" /\ GpFree.at = "none" /\ ~GpFree.shared
  BY DEF GpFree, GpRecord, GpStep

\* The fields of the record of one process.
LEMMA GpProcType ==
    ASSUME GpTypeOK, NEW p \in GpPid
    PROVE  /\ gpProc[p] \in GpRecord /\ gpProc[p].kind \in {"free", "gateway", "other", "command"}
           /\ gpProc[p].at \in GpStep /\ gpProc[p].llm \in BOOLEAN /\ gpProc[p].shared \in BOOLEAN
  BY DEF GpTypeOK, GpRecord

\* A gateway moves on from one step to the next, and the PID file stays, is
\* removed or names it.
LEMMA GpBecomes ==
    ASSUME GpInv, NEW p \in GpPid, NEW a \in GpStep \ {"none"}, gpProc[p].at # "none", Becomes(p, a),
           UNCHANGED <<gpHost, gpDown, gpStruck>>,
           gpFile' \in {gpFile, 0, p},
           a \in {"recover", "starting"} => gpProc[p].at \in {"recover", "starting"},
           a \in {"written", "serving"} =>
              (gpFile' = p \/ (gpFile' = gpFile /\ gpProc[p].at \in {"written", "serving"})),
           a \in {"written", "serving"} => gpProc[p].at # "closing"
    PROVE  GpInv'
  <1>1. /\ gpProc' \in [GpPid -> GpRecord] /\ \A q \in GpPid : q # p => gpProc'[q] = gpProc[q]
        /\ gpProc'[p].kind = gpProc[p].kind /\ gpProc'[p].at = a /\ gpProc'[p].llm = gpProc[p].llm
        /\ gpProc'[p].bind = gpProc[p].bind /\ gpProc'[p].shared = gpProc[p].shared
    BY DEF Becomes, GpInv, GpTypeOK, GpRecord
  <1>2. GpTypeOK'
    BY <1>1 DEF GpInv, GpTypeOK
  <1>3. GpKindInv'
    BY <1>1 DEF GpInv, GpKindInv
  <1>4. GpAloneInv'
    <2>1. gpProc[p].kind = "gateway"
      BY DEF GpInv, GpKindInv
    <2> QED BY <1>1, <2>1 DEF GpInv, GpAloneInv
  <1>5. GpDownInv'
    <2>1. gpProc[p].kind = "gateway"
      BY DEF GpInv, GpKindInv
    <2>2. gpProc[p].at \in GpStep
      BY GpProcType DEF GpInv
    <2>3. ASSUME gpDown.at # "idle", NEW q \in GpPid, gpProc'[q].at \in {"recover", "starting"} PROVE gpProc'[q].shared
      BY <1>1, <2>3 DEF GpInv, GpDownInv
    <2>4. ASSUME gpDown.at = "stale", gpHost # "renamed", NEW q \in GpPid, gpProc'[q].at \in {"written", "serving"} PROVE gpProc'[q].shared
      BY <1>1, <2>2, <2>4 DEF GpInv, GpDownInv, GpStep
    <2>5. ASSUME gpDown.at = "proceed", ~gpDown.force, gpHost # "windows", gpFile' # 0 PROVE gpProc'[gpFile'].kind # "other"
      <3>1. gpFile' = p \/ (gpFile' = gpFile /\ gpFile \in GpPid /\ gpFile # 0)
        BY <2>5 DEF GpInv, GpTypeOK
      <3> QED BY <1>1, <2>1, <2>5, <3>1 DEF GpInv, GpDownInv
    <2> QED BY <2>3, <2>4, <2>5 DEF GpDownInv
  <1> QED BY <1>2, <1>3, <1>4, <1>5 DEF GpInv, NoStrangerSignalled

\* A process ends; a gateway that does may remove the PID file.
LEMMA GpEnds ==
    ASSUME GpInv, NEW p \in GpPid, Ends(p), UNCHANGED <<gpHost, gpDown, gpStruck>>,
           gpFile' = gpFile \/ (gpFile' = 0 /\ gpProc[p].kind = "gateway")
    PROVE  GpInv'
  <1>1. /\ gpProc' \in [GpPid -> GpRecord] /\ (\A q \in GpPid : q # p => gpProc'[q] = gpProc[q]) /\ gpProc'[p] = GpFree
    BY GpFreeType DEF Ends, GpInv, GpTypeOK
  <1>2. GpTypeOK'
    BY <1>1 DEF GpInv, GpTypeOK
  <1>3. GpKindInv'
    BY <1>1, GpFreeType DEF GpInv, GpKindInv
  <1>4. GpAloneInv'
    BY <1>1, GpFreeType DEF GpInv, GpAloneInv
  <1>5. GpDownInv'
    BY <1>1, GpFreeType DEF GpInv, GpDownInv, GpTypeOK
  <1> QED BY <1>2, <1>3, <1>4, <1>5 DEF GpInv, NoStrangerSignalled

\* A gateway starts.
LEMMA GpUpStart ==
    ASSUME GpInv, NEW p \in GpPid, gpProc[p].kind = "free", NEW a \in {"starting", "recover"}, NEW llm \in BOOLEAN,
           NEW bind \in {"loopback", "external"}, llm => bind = "loopback",
           gpProc' = NewGateway(p, a, llm, bind), UNCHANGED <<gpHost, gpFile, gpDown, gpStruck>>
    PROVE  GpInv'
  <1>1. /\ gpProc'[p] = [kind |-> "gateway", at |-> a, llm |-> llm, bind |-> bind,
                         shared |-> GpGateways # {} \/ gpDown.at # "idle"]
        /\ \A q \in GpPid : q # p => gpProc'[q] = IF gpProc[q].kind = "gateway" THEN [gpProc[q] EXCEPT !.shared = TRUE] ELSE gpProc[q]
        /\ gpProc' = [q \in GpPid |-> gpProc'[q]]
    BY DEF NewGateway, GpGateways
  <1>2. \A q \in GpPid : q # p => /\ gpProc'[q] \in GpRecord /\ gpProc'[q].kind = gpProc[q].kind /\ gpProc'[q].at = gpProc[q].at
                                  /\ gpProc'[q].llm = gpProc[q].llm /\ gpProc'[q].bind = gpProc[q].bind
                                  /\ gpProc'[q].shared = IF gpProc[q].kind = "gateway" THEN TRUE ELSE gpProc[q].shared
    <2> SUFFICES ASSUME NEW q \in GpPid, q # p
                 PROVE  /\ gpProc'[q] \in GpRecord /\ gpProc'[q].kind = gpProc[q].kind /\ gpProc'[q].at = gpProc[q].at
                        /\ gpProc'[q].llm = gpProc[q].llm /\ gpProc'[q].bind = gpProc[q].bind
                        /\ gpProc'[q].shared = IF gpProc[q].kind = "gateway" THEN TRUE ELSE gpProc[q].shared
      BY Zenon
    <2>1. PICK b \in GpRecord : b = gpProc[q]
      BY GpProcType DEF GpInv
    <2>2. CASE b.kind = "gateway"
      <3>1. gpProc'[q] = [b EXCEPT !.shared = TRUE]
        BY <1>1, <2>1, <2>2
      <3>2. /\ [b EXCEPT !.shared = TRUE] \in GpRecord /\ [b EXCEPT !.shared = TRUE].shared = TRUE
            /\ [b EXCEPT !.shared = TRUE].kind = b.kind /\ [b EXCEPT !.shared = TRUE].at = b.at
            /\ [b EXCEPT !.shared = TRUE].llm = b.llm /\ [b EXCEPT !.shared = TRUE].bind = b.bind
        BY DEF GpRecord
      <3> QED BY <2>1, <2>2, <3>1, <3>2
    <2>3. CASE b.kind # "gateway"
      <3>1. gpProc'[q] = b
        BY <1>1, <2>1, <2>3
      <3> QED BY <2>1, <2>3, <3>1
    <2> QED BY <2>2, <2>3
  <1>3. /\ gpProc'[p] \in GpRecord /\ gpProc'[p].kind = "gateway" /\ gpProc'[p].at = a /\ gpProc'[p].llm = llm
        /\ gpProc'[p].bind = bind /\ gpProc'[p].shared = (GpGateways # {} \/ gpDown.at # "idle")
    BY <1>1 DEF GpRecord, GpStep
  <1>4. GpTypeOK'
    <2>1. \A q \in GpPid : gpProc'[q] \in GpRecord
      BY <1>2, <1>3
    <2>2. gpProc' \in [GpPid -> GpRecord]
      BY <1>1, <2>1
    <2> QED BY <2>2 DEF GpInv, GpTypeOK
  <1>5. GpKindInv'
    <2>1. gpProc'[p].kind = "gateway" /\ gpProc'[p].at # "none" /\ (gpProc'[p].llm => gpProc'[p].bind = "loopback")
      BY <1>3
    <2>2. ASSUME NEW q \in GpPid, q # p
          PROVE  /\ gpProc'[q].kind = "gateway" <=> gpProc'[q].at # "none"
                 /\ gpProc'[q].kind = "gateway" /\ gpProc'[q].llm => gpProc'[q].bind = "loopback"
      <3>1. /\ gpProc[q].kind = "gateway" <=> gpProc[q].at # "none"
            /\ gpProc[q].kind = "gateway" /\ gpProc[q].llm => gpProc[q].bind = "loopback"
        BY DEF GpInv, GpKindInv
      <3>2. /\ gpProc'[q].kind = gpProc[q].kind /\ gpProc'[q].at = gpProc[q].at
            /\ gpProc'[q].llm = gpProc[q].llm /\ gpProc'[q].bind = gpProc[q].bind
        BY <1>2, <2>2
      <3> QED BY <3>1, <3>2
    <2> QED BY <2>1, <2>2, Zenon DEF GpKindInv
  <1>6. GpAloneInv'
    <2> SUFFICES ASSUME NEW q \in GpPid, gpProc'[q].kind = "gateway", ~gpProc'[q].shared
                 PROVE  /\ \A s \in GpPid : gpProc'[s].kind = "gateway" => s = q
                        /\ gpHost' # "renamed" /\ gpProc'[q].at \in {"written", "serving"} => gpFile' = q
      BY Zenon DEF GpAloneInv
    <2>1. q = p
      BY <1>2
    <2>2. GpGateways = {}
      BY <1>3, <2>1
    <2>3. \A s \in GpPid : gpProc[s].kind # "gateway"
      BY <2>2 DEF GpGateways
    <2> QED BY <1>2, <1>3, <2>1, <2>3
  <1>7. GpDownInv'
    <2>1. gpDown.at # "idle" => gpProc'[p].shared
      BY <1>3
    <2>2. ASSUME NEW q \in GpPid, gpProc[q].at # "none", q # p PROVE gpProc'[q].shared
      BY <1>2, <2>2 DEF GpInv, GpKindInv
    <2> QED BY <1>2, <1>3, <2>1, <2>2 DEF GpInv, GpDownInv, GpTypeOK
  <1> QED BY <1>4, <1>5, <1>6, <1>7 DEF GpInv, NoStrangerSignalled

\* In an agent session up binds the loopback address.
LEMMA GpBind ==
    ASSUME NEW llm \in BOOLEAN, NEW listen \in BOOLEAN, NEW unsafe \in BOOLEAN, NEW envListen \in BOOLEAN
    PROVE  /\ UpBind(llm, listen, unsafe, envListen) \in {"loopback", "external"}
           /\ llm => UpBind(llm, listen, unsafe, envListen) = "loopback"
  BY DEF UpBind, ResolveBindAddr

\* A `down` begins.
LEMMA GpDownStart == ASSUME GpInv, DownStart, UNCHANGED gpHost PROVE GpInv'
  <1>1. PICK force \in BOOLEAN, id \in Identities(gpFile) :
            ResolveDownAction(id, force) # "refuse" /\ gpDown' = [at |-> ResolveDownAction(id, force), force |-> force]
    BY DEF DownStart
  <1>2. /\ gpDown.at = "idle" /\ gpFile \in GpPid /\ UNCHANGED <<gpFile, gpStruck>>
        /\ gpProc' = [p \in GpPid |-> [gpProc[p] EXCEPT !.shared = @ \/ gpProc[p].at \in {"recover", "starting"}]]
    BY DEF DownStart, IsRunning, GpInv, GpTypeOK
  <1>3. /\ id \in {"unknown", "mismatch", "matched"} /\ gpDown'.at \in {"stale", "proceed"} /\ gpDown'.force = force
        /\ gpDown'.at = "stale" /\ gpHost # "renamed" => gpProc[gpFile].kind = "other"
        /\ gpDown'.at = "proceed" /\ ~force /\ gpHost # "windows" => gpProc[gpFile].kind # "other"
    <2>1. id = "unknown" \/ id = IF gpProc[gpFile].kind = "other" \/ gpHost = "renamed" THEN "mismatch" ELSE "matched"
      BY DEF Identities
    <2>2. gpDown'.at = ResolveDownAction(id, force) /\ gpDown'.force = force
      BY <1>1
    <2>3. CASE id = "unknown"
      BY <1>1, <2>2, <2>3 DEF ResolveDownAction
    <2>4. CASE id = "mismatch"
      BY <1>1, <2>1, <2>2, <2>4 DEF ResolveDownAction
    <2>5. CASE id = "matched"
      BY <1>1, <2>1, <2>2, <2>5 DEF ResolveDownAction
    <2> QED BY <2>1, <2>3, <2>4, <2>5
  <1>4. \A p \in GpPid : /\ gpProc'[p] \in GpRecord /\ gpProc'[p].kind = gpProc[p].kind /\ gpProc'[p].at = gpProc[p].at
                         /\ gpProc'[p].llm = gpProc[p].llm /\ gpProc'[p].bind = gpProc[p].bind
                         /\ gpProc'[p].shared = (gpProc[p].shared \/ gpProc[p].at \in {"recover", "starting"})
    BY <1>2, GpProcType, ZenonT(60) DEF GpInv, GpRecord
  <1>5. GpTypeOK'
    <2>1. gpProc' = [p \in GpPid |-> gpProc'[p]]
      BY <1>2
    <2>2. gpProc' \in [GpPid -> GpRecord]
      BY <1>4, <2>1
    <2>3. gpDown' \in [at : {"idle", "stale", "proceed"}, force : BOOLEAN]
      BY <1>1, <1>3
    <2> QED BY <1>2, <2>2, <2>3 DEF GpInv, GpTypeOK
  <1>6. GpKindInv'
    BY <1>4 DEF GpInv, GpKindInv
  <1>7. GpAloneInv'
    <2> SUFFICES ASSUME NEW p \in GpPid, gpProc'[p].kind = "gateway", ~gpProc'[p].shared
                 PROVE  /\ \A q \in GpPid : gpProc'[q].kind = "gateway" => q = p
                        /\ gpHost' # "renamed" /\ gpProc'[p].at \in {"written", "serving"} => gpFile' = p
      BY Zenon DEF GpAloneInv
    <2>1. gpProc[p].kind = "gateway" /\ ~gpProc[p].shared
      BY <1>4
    <2>2. /\ \A q \in GpPid : gpProc[q].kind = "gateway" => q = p
          /\ gpHost # "renamed" /\ gpProc[p].at \in {"written", "serving"} => gpFile = p
      BY <2>1 DEF GpInv, GpAloneInv
    <2> QED BY <1>2, <1>4, <2>2
  <1>8. GpDownInv'
    <2>1. ASSUME gpDown'.at = "stale", gpHost # "renamed", NEW p \in GpPid, gpProc'[p].at \in {"written", "serving"} PROVE gpProc'[p].shared
      <3>1. gpProc[p].kind = "gateway" /\ (~gpProc[p].shared => gpFile = p)
        BY <1>4, <2>1 DEF GpInv, GpKindInv, GpAloneInv
      <3> QED BY <1>3, <1>4, <2>1, <3>1
    <2>2. ASSUME NEW p \in GpPid, gpProc'[p].at \in {"recover", "starting"} PROVE gpProc'[p].shared
      BY <1>4, <2>2
    <2>3. ASSUME gpDown'.at = "proceed", ~gpDown'.force, gpHost # "windows", gpFile' # 0 PROVE gpProc'[gpFile'].kind # "other"
      BY <1>2, <1>3, <1>4, <2>3
    <2> QED BY <2>1, <2>2, <2>3, Zenon DEF GpDownInv
  <1> QED BY <1>2, <1>5, <1>6, <1>7, <1>8 DEF GpInv, NoStrangerSignalled

\* SendTerm signals the process in the file and removes the file.
LEMMA GpSendTerm == ASSUME GpInv, SendTerm, UNCHANGED gpHost PROVE GpInv'
  <1>1. /\ gpDown.at = "proceed" /\ gpFile' = 0 /\ gpDown' = GpNoDown /\ gpFile \in GpPid \cup {0}
        /\ IF gpFile = 0 \/ gpProc[gpFile].kind = "free" THEN UNCHANGED <<gpProc, gpStruck>>
           ELSE gpProc' = Signalled(gpFile) /\ gpStruck' = (gpStruck \/ (~gpDown.force /\ gpProc[gpFile].kind = "other"))
    BY DEF SendTerm, GpInv, GpTypeOK
  <1>2. gpDown'.at = "idle" /\ gpDown' \in [at : {"idle", "stale", "proceed"}, force : BOOLEAN]
    BY <1>1 DEF GpNoDown
  <1>3. NoStrangerSignalled' /\ gpStruck' \in BOOLEAN
    <2>1. gpFile # 0 /\ ~gpDown.force /\ gpHost # "windows" => gpProc[gpFile].kind # "other"
      BY <1>1 DEF GpInv, GpDownInv
    <2> QED BY <1>1, <2>1 DEF GpInv, GpTypeOK, NoStrangerSignalled
  <1>4. /\ gpProc' \in [GpPid -> GpRecord] /\ \A q \in GpPid : q # gpFile => gpProc'[q] = gpProc[q]
        /\ gpFile # 0 => \/ gpProc'[gpFile] = GpFree
                         \/ /\ gpProc'[gpFile].at = "closing" /\ gpProc'[gpFile].kind = gpProc[gpFile].kind
                            /\ gpProc[gpFile].at # "none" /\ gpProc'[gpFile].llm = gpProc[gpFile].llm
                            /\ gpProc'[gpFile].bind = gpProc[gpFile].bind /\ gpProc'[gpFile].shared = gpProc[gpFile].shared
                         \/ gpProc' = gpProc /\ gpProc[gpFile].kind = "free"
    <2>1. CASE gpFile = 0 \/ gpProc[gpFile].kind = "free"
      BY <1>1, <2>1 DEF GpInv, GpTypeOK
    <2>2. CASE gpFile \in GpPid /\ gpProc[gpFile].kind # "free"
      <3>1. gpProc' = Signalled(gpFile) /\ gpProc[gpFile] \in GpRecord
        BY <1>1, <2>2, GpAssumption, GpProcType DEF GpInv
      <3>2. CASE gpProc[gpFile].at \in {"written", "serving", "closing"} /\ gpHost # "windows"
        <4>1. gpProc' = [gpProc EXCEPT ![gpFile].at = "closing"]
          BY <3>1, <3>2 DEF Signalled
        <4> QED BY <2>2, <3>1, <3>2, <4>1 DEF GpInv, GpTypeOK, GpRecord, GpStep
      <3>3. CASE ~(gpProc[gpFile].at \in {"written", "serving", "closing"} /\ gpHost # "windows")
        <4>1. gpProc' = [gpProc EXCEPT ![gpFile] = GpFree]
          BY <3>1, <3>3 DEF Signalled
        <4> QED BY <2>2, <4>1, GpFreeType DEF GpInv, GpTypeOK
      <3> QED BY <3>2, <3>3
    <2> QED BY <1>1, <2>1, <2>2
  <1>5. GpTypeOK'
    BY <1>1, <1>2, <1>3, <1>4 DEF GpInv, GpTypeOK
  <1>6. GpKindInv'
    BY <1>1, <1>4, GpFreeType DEF GpInv, GpKindInv
  <1>7. GpAloneInv'
    BY <1>1, <1>4, GpFreeType, GpAssumption DEF GpInv, GpAloneInv, GpKindInv
  <1>8. GpDownInv'
    BY <1>2 DEF GpDownInv
  <1> QED BY <1>3, <1>5, <1>6, <1>7, <1>8 DEF GpInv

\* Every step of gateways, other programs and `down` preserves the invariant.
LEMMA GpNextInv == ASSUME GpInv, [GpNext]_gpVars PROVE GpInv'
  <1>0. UNCHANGED gpHost
    BY DEF GpNext, gpVars
  <1>1. ASSUME NEW p \in GpPid, UpStart(p) PROVE GpInv'
    <2>1. PICK llm \in BOOLEAN : \E bind \in {UpBind(llm, l, u, e) : l, u, e \in BOOLEAN} :
             gpProc' = NewGateway(p, "starting", llm, bind) \/ gpProc' = NewGateway(p, "recover", llm, bind)
      BY <1>0, <1>1 DEF UpStart
    <2>5. PICK bind \in {UpBind(llm, l, u, e) : l, u, e \in BOOLEAN} :
             gpProc' = NewGateway(p, "starting", llm, bind) \/ gpProc' = NewGateway(p, "recover", llm, bind)
      BY <2>1
    <2>2. gpProc[p].kind = "free" /\ UNCHANGED <<gpFile, gpDown, gpStruck>>
      BY <1>0, <1>1 DEF UpStart
    <2>3. bind \in {"loopback", "external"} /\ (llm => bind = "loopback")
      BY <2>5, GpBind
    <2>4. PICK a \in {"starting", "recover"} : gpProc' = NewGateway(p, a, llm, bind)
      BY <2>5
    <2> QED BY <1>0, <2>2, <2>3, <2>4, GpUpStart
  <1>2. ASSUME NEW p \in GpPid, UpRecover(p) PROVE GpInv'
    BY <1>0, <1>2, GpBecomes DEF UpRecover, GpStep
  <1>3. ASSUME NEW p \in GpPid, UpFails(p) PROVE GpInv'
    BY <1>0, <1>3, GpEnds DEF UpFails
  <1>4. ASSUME NEW p \in GpPid, UpWritePID(p) PROVE GpInv'
    BY <1>0, <1>4, GpBecomes DEF UpWritePID, GpStep
  <1>5. ASSUME NEW p \in GpPid, UpServe(p) PROVE GpInv'
    <2>1. CASE Becomes(p, "serving") /\ UNCHANGED gpFile
      BY <1>0, <1>5, <2>1, GpBecomes DEF UpServe, GpStep
    <2>2. CASE Ends(p) /\ gpFile' = 0
      BY <1>0, <1>5, <2>2, GpEnds DEF UpServe, GpInv, GpKindInv
    <2> QED BY <1>0, <1>5, <2>1, <2>2 DEF UpServe
  <1>6. ASSUME NEW p \in GpPid, UpEnd(p) PROVE GpInv'
    BY <1>0, <1>6, GpEnds DEF UpEnd, GpInv, GpKindInv
  <1>7. ASSUME NEW p \in GpPid, UpInterrupted(p) PROVE GpInv'
    <2>1. Becomes(p, "closing")
      BY <1>0, <1>7 DEF UpInterrupted
    <2> QED BY <1>0, <1>7, <2>1, GpBecomes DEF UpInterrupted, GpStep
  <1>8. ASSUME NEW p \in GpPid, OtherStart(p) PROVE GpInv'
    <2>1. PICK k \in {"other", "command"} : gpProc' = [gpProc EXCEPT ![p] = [GpFree EXCEPT !.kind = k]]
      BY <1>0, <1>8 DEF OtherStart
    <2>2. gpProc[p].kind = "free" /\ gpDown.at = "idle" /\ UNCHANGED <<gpFile, gpDown, gpStruck>>
      BY <1>0, <1>8 DEF OtherStart
    <2>3. /\ [GpFree EXCEPT !.kind = k] \in GpRecord /\ [GpFree EXCEPT !.kind = k].kind = k
          /\ [GpFree EXCEPT !.kind = k].at = "none"
      BY GpFreeType DEF GpRecord
    <2>4. /\ gpProc' \in [GpPid -> GpRecord] /\ \A q \in GpPid : q # p => gpProc'[q] = gpProc[q]
          /\ gpProc'[p].kind = k /\ gpProc'[p].at = "none"
      BY <2>1, <2>3 DEF GpInv, GpTypeOK
    <2>5. GpTypeOK' /\ GpKindInv' /\ GpAloneInv' /\ GpDownInv'
      BY <1>0, <2>2, <2>4 DEF GpInv, GpTypeOK, GpKindInv, GpAloneInv, GpDownInv
    <2> QED BY <1>0, <2>2, <2>5 DEF GpInv, NoStrangerSignalled
  <1>9. ASSUME NEW p \in GpPid, GpKilled(p) PROVE GpInv'
    BY <1>0, <1>9, GpEnds DEF GpKilled
  <1>10. CASE DownStart
    BY <1>0, <1>10, GpDownStart
  <1>11. CASE DownStale
    <2>1. /\ gpDown.at = "stale" /\ gpFile' = 0 /\ gpDown'.at = "idle" /\ UNCHANGED <<gpProc, gpStruck>>
          /\ gpDown' \in [at : {"idle", "stale", "proceed"}, force : BOOLEAN]
      BY <1>0, <1>11 DEF DownStale, GpNoDown
    <2>2. GpTypeOK' /\ GpKindInv'
      BY <1>0, <2>1 DEF GpInv, GpTypeOK, GpKindInv
    <2>3. GpAloneInv'
      BY <1>0, <2>1 DEF GpInv, GpAloneInv, GpDownInv
    <2> QED BY <1>0, <2>1, <2>2, <2>3 DEF GpInv, GpDownInv, NoStrangerSignalled
  <1>12. CASE SendTerm
    BY <1>0, <1>12, GpSendTerm
  <1>13. CASE UNCHANGED gpVars
    BY <1>0, <1>13 DEF gpVars, GpInv, GpTypeOK, GpKindInv, GpAloneInv, GpDownInv, NoStrangerSignalled
  <1> QED BY <1>0, <1>1, <1>2, <1>3, <1>4, <1>5, <1>6, <1>7, <1>8, <1>9, <1>10, <1>11, <1>12, <1>13 DEF GpNext

\* gateway up and gateway down by any number of processes, with a PID file that
\* may be stale: `down` without --force hits no other program, a gateway that was
\* alone is the one the file names, and a session's gateway is on the loopback
\* address.
THEOREM GatewayProcessHolds == GpInit /\ [][GpNext]_gpVars => []ProcessHolds
  <1>1. GpInit => GpInv
    <2> SUFFICES ASSUME GpInit PROVE GpInv
      OBVIOUS
    <2>1. /\ \A p \in GpPid : gpProc[p] = GpFree
          /\ gpDown.at = "idle" /\ gpFile = 0
      BY DEF GpInit, GpNoDown
    <2>2. GpTypeOK
      BY GpFreeType DEF GpInit, GpTypeOK, GpNoDown
    <2>3. GpKindInv /\ GpAloneInv /\ GpDownInv
      BY <2>1, GpFreeType DEF GpKindInv, GpAloneInv, GpDownInv
    <2> QED BY <2>2, <2>3 DEF GpInv, GpInit, NoStrangerSignalled
  <1>2. GpInv => ProcessHolds
    BY DEF GpInv, GpKindInv, GpAloneInv, ProcessHolds, NoStrangerSignalled, GatewayFindable, LoopbackInSession
  <1> QED BY <1>1, <1>2, GpNextInv, PTL

-----------------------------------------------------------------------------
\* The handler and the budget

GwStage == {"verify", "session", "policy", "budget", "gate", "vault", "exchange", "send", "sent"}
GwCred  == {"none", "live", "empty"}
GwToken == {"none", "live", "empty"}

\* A goroutine between two requests: past the exchange the string of the upstream
\* request is all that is left of a credential, before it the credential itself is.
GwResting == {q \in [at : {"idle"}, exchanged : BOOLEAN, left : SUBSET {"cred", "token", "header"}] :
                 q.left \subseteq IF q.exchanged THEN {"header"} ELSE {"cred"}}

\* A request under way: there is a token from the exchange on and a string of it once
\* it is sent, a route's secret has been read, on record, before the exchange, and
\* a static token is a copy of it.
GwServed == {q \in [at : GwStage, actor : GwActor, llm : BOOLEAN, route : GwRoute,
                    cred : GwCred, token : GwToken, header : GwToken, exchanged : BOOLEAN, logged : BOOLEAN] :
                /\ q.at \notin {"send", "sent"} => q.token = "none" /\ ~q.exchanged
                /\ q.at \in {"send", "sent"} => q.exchanged
                /\ q.at # "sent" => q.header = "none"
                /\ q.at = "exchange" /\ q.route.secret => q.cred \in {"live", "empty"} /\ q.logged
                /\ q.at \in {"send", "sent"} /\ q.route.secret /\ q.route.strategy = "static"
                     => q.logged /\ (q.token = "live" \/ q.cred = "empty")
                /\ q.at = "sent" => q.header = q.token}

GwReqInv == gwReq \in [GwGoroutine -> GwResting \cup GwServed]

\* What has been let through since a window opened is what the counter says, as
\* long as the counter has the window, and never more than the limit.
GwCountInv ==
    /\ gwTotal \in [GwKey -> [GwLimitType -> Nat]] /\ gwAdmitted \in [GwKey -> [GwLimitType -> Nat]]
    /\ \A k \in GwKey, w \in GwLimitType :
          /\ gwAdmitted[k][w] <= GwLimit[w]
          /\ gwTotal[k][w] # GwClosed => gwAdmitted[k][w] = gwTotal[k][w]

\* A request that is not idle is under way.
LEMMA GwBusy ==
    ASSUME GwReqInv, NEW g \in GwGoroutine, gwReq[g].at # "idle"
    PROVE  gwReq[g] \in GwServed /\ GwKeyOf(gwReq[g]) \in GwKey
  <1>1. gwReq[g] \in GwServed
    BY DEF GwReqInv, GwResting
  <1> QED BY <1>1 DEF GwServed, GwKeyOf, GwKey

\* A request goes on to a step that asks nothing of it.
LEMMA GwGoes ==
    ASSUME GwReqInv, NEW g \in GwGoroutine, NEW s \in GwStage, gwReq[g].at # "idle", GwGo(g, s),
           \/ s \notin {"exchange", "send", "sent"} /\ gwReq[g].at \notin {"send", "sent"}
           \/ s = "exchange" /\ gwReq[g].at = "vault" /\ ~gwReq[g].route.secret
    PROVE  GwReqInv'
  <1>1. PICK b \in GwServed : b = gwReq[g]
    BY GwBusy
  <1>2. [b EXCEPT !.at = s] \in GwServed
    BY <1>1 DEF GwServed
  <1>3. gwReq' = [gwReq EXCEPT ![g] = [b EXCEPT !.at = s]]
    BY <1>1 DEF GwGo
  <1> QED BY <1>2, <1>3 DEF GwReqInv

\* A request ends, on whatever path.
LEMMA GwReturns == ASSUME GwReqInv, NEW g \in GwGoroutine, gwReq[g].at # "idle", GwEnd(g) PROVE GwReqInv'
  <1>1. PICK b \in GwServed : b = gwReq[g]
    BY GwBusy
  <1> DEFINE e == [at |-> "idle", exchanged |-> b.exchanged, left |-> GwLeft(GwWipe(b))]
  <1>2. b.exchanged \in BOOLEAN /\ (~b.exchanged => b.token = "none" /\ b.header = "none")
    BY DEF GwServed
  <1>3. GwLeft(GwWipe(b)) \subseteq IF b.exchanged THEN {"header"} ELSE {"cred"}
    <2>1. CASE b.exchanged
      <3>1. GwWipe(b) = [b EXCEPT !.cred = "wiped", !.token = "wiped"]
        BY <2>1 DEF GwWipe
      <3>2. GwWipe(b)["cred"] = "wiped" /\ GwWipe(b)["token"] = "wiped"
        BY <3>1 DEF GwServed
      <3> QED BY <2>1, <3>2 DEF GwLeft
    <2>2. CASE ~b.exchanged
      BY <1>2, <2>2 DEF GwWipe, GwLeft
    <2> QED BY <2>1, <2>2
  <1>4. gwReq' = [gwReq EXCEPT ![g] = e]
    BY <1>1 DEF GwEnd
  <1>5. GwLeft(GwWipe(b)) \subseteq {"cred", "token", "header"}
    BY DEF GwLeft
  <1>6. e \in GwResting
    BY <1>2, <1>3, <1>5 DEF GwResting
  <1> HIDE DEF e
  <1> QED BY <1>4, <1>6 DEF GwReqInv

\* Every step of the handler leaves the requests as they should be.
LEMMA GwReqNext == ASSUME GwReqInv, [GwNext]_gwVars PROVE GwReqInv'
  <1>1. ASSUME NEW g \in GwGoroutine, GwBlocked(g) PROVE GwReqInv'
    <2>1. GwNone \in GwResting
      BY DEF GwNone, GwResting
    <2> QED BY <1>1, <2>1 DEF GwBlocked, GwReqInv
  <1>2. ASSUME NEW g \in GwGoroutine, NEW a \in GwActor, NEW rt \in GwRoute, NEW llm \in BOOLEAN,
               GwArrive(g, a, llm, rt)
        PROVE  GwReqInv'
    <2> DEFINE q == [at |-> "verify", actor |-> a, llm |-> llm, route |-> rt,
                     cred |-> "none", token |-> "none", header |-> "none", exchanged |-> FALSE, logged |-> FALSE]
    <2>1. q \in GwServed
      BY DEF GwServed, GwCred, GwToken, GwStage
    <2>2. gwReq' = [gwReq EXCEPT ![g] = q]
      BY <1>2 DEF GwArrive
    <2> HIDE DEF q
    <2> QED BY <2>1, <2>2 DEF GwReqInv
  <1>3. ASSUME NEW g \in GwGoroutine, GwVerify(g) PROVE GwReqInv'
    BY <1>3, GwGoes, GwReturns DEF GwVerify, GwAt, GwStage
  <1>4. ASSUME NEW g \in GwGoroutine, GwSession(g) PROVE GwReqInv'
    BY <1>4, GwGoes, GwReturns DEF GwSession, GwAt, GwStage
  <1>5. ASSUME NEW g \in GwGoroutine, GwCheckPolicy(g) PROVE GwReqInv'
    BY <1>5, GwGoes, GwReturns DEF GwCheckPolicy, GwAt, GwStage
  <1>6. ASSUME NEW g \in GwGoroutine, GwBudget(g) PROVE GwReqInv'
    BY <1>6, GwGoes DEF GwBudget, GwAt, GwStage
  <1>7. ASSUME NEW g \in GwGoroutine, GwBudgetExceeded(g) PROVE GwReqInv'
    BY <1>7, GwReturns DEF GwBudgetExceeded, GwAt
  <1>8. ASSUME NEW g \in GwGoroutine, GwGate(g) PROVE GwReqInv'
    BY <1>8, GwGoes, GwReturns DEF GwGate, GwAt, GwStage
  <1>9. ASSUME NEW g \in GwGoroutine, GwReadVault(g) PROVE GwReqInv'
    <2>1. gwReq[g].at = "vault" /\ gwReq[g].route.secret
      BY <1>9 DEF GwReadVault, GwAt
    <2>2. PICK b \in GwServed : b = gwReq[g]
      BY <2>1, GwBusy
    <2>3. PICK c \in {"live", "empty"} :
             gwReq' = [gwReq EXCEPT ![g].at = "exchange", ![g].cred = c, ![g].logged = TRUE]
      BY <1>9 DEF GwReadVault
    <2>4. [b EXCEPT !.at = "exchange", !.cred = c, !.logged = TRUE] \in GwServed
      BY <2>1, <2>2 DEF GwServed, GwCred, GwStage
    <2>5. gwReq' = [gwReq EXCEPT ![g] = [b EXCEPT !.at = "exchange", !.cred = c, !.logged = TRUE]]
      BY <2>2, <2>3 DEF GwReqInv
    <2> QED BY <2>4, <2>5 DEF GwReqInv
  <1>10. ASSUME NEW g \in GwGoroutine, GwVaultFails(g) PROVE GwReqInv'
    BY <1>10, GwReturns DEF GwVaultFails, GwAt
  <1>11. ASSUME NEW g \in GwGoroutine, GwNoSecret(g) PROVE GwReqInv'
    BY <1>11, GwGoes DEF GwNoSecret, GwAt, GwStage
  <1>12. ASSUME NEW g \in GwGoroutine, GwExchange(g) PROVE GwReqInv'
    <2>1. gwReq[g].at = "exchange"
      BY <1>12 DEF GwExchange, GwAt
    <2>2. PICK b \in GwServed : b = gwReq[g]
      BY <2>1, GwBusy
    <2>3. PICK k \in GwToken : k = IF b.route.strategy = "static" /\ b.cred = "live" THEN "live" ELSE "empty"
      BY DEF GwToken
    <2>4. [b EXCEPT !.at = "send", !.exchanged = TRUE, !.token = k] \in GwServed
      BY <2>1, <2>2, <2>3 DEF GwServed, GwStage
    <2>5. gwReq' = [gwReq EXCEPT ![g] = [b EXCEPT !.at = "send", !.exchanged = TRUE, !.token = k]]
      BY <1>12, <2>2, <2>3 DEF GwExchange, GwReqInv
    <2> QED BY <2>4, <2>5 DEF GwReqInv
  <1>13. ASSUME NEW g \in GwGoroutine, GwExchangeFails(g) PROVE GwReqInv'
    BY <1>13, GwReturns DEF GwExchangeFails, GwAt
  <1>14. ASSUME NEW g \in GwGoroutine, GwSend(g) PROVE GwReqInv'
    <2>1. PICK b \in GwServed : b = gwReq[g] /\ b.at = "send"
      BY <1>14, GwBusy DEF GwSend, GwAt
    <2>2. [b EXCEPT !.at = "sent", !.header = b.token] \in GwServed
      BY <2>1 DEF GwServed, GwStage
    <2>3. gwReq' = [gwReq EXCEPT ![g] = [b EXCEPT !.at = "sent", !.header = b.token]]
      BY <1>14, <2>1 DEF GwSend, GwReqInv
    <2> QED BY <2>2, <2>3 DEF GwReqInv
  <1>15. ASSUME NEW g \in GwGoroutine, GwSendFails(g) \/ GwRespond(g) PROVE GwReqInv'
    BY <1>15, GwReturns DEF GwSendFails, GwRespond, GwAt
  <1>16. ASSUME \/ \E p \in GwPolicies : GwStart(p)
                \/ GwEvict \/ GwLock \/ GwUnlock
                \/ \E k \in GwKey, w \in GwLimitType : GwWindowEnds(k, w)
                \/ UNCHANGED gwVars
         PROVE  GwReqInv'
    <2>1. UNCHANGED gwReq
      BY <1>16 DEF GwStart, GwEvict, GwLock, GwUnlock, GwWindowEnds, gwVars
    <2> QED BY <2>1 DEF GwReqInv
  <1> QED BY <1>1, <1>2, <1>3, <1>4, <1>5, <1>6, <1>7, <1>8, <1>9, <1>10, <1>11, <1>12, <1>13, <1>14, <1>15, <1>16 DEF GwNext

\* A step that leaves the counter and the history alone.
LEMMA GwCountSame == ASSUME GwCountInv, UNCHANGED <<gwTotal, gwAdmitted>> PROVE GwCountInv'
  BY DEF GwCountInv

\* Every step keeps the counter and what has been let through in step.
LEMMA GwCountNext == ASSUME GwReqInv, GwCountInv, [GwNext]_gwVars PROVE GwCountInv'
  <1>1. ASSUME NEW g \in GwGoroutine, GwBudget(g) PROVE GwCountInv'
    <2>1. PICK k \in GwKey : k = GwKeyOf(gwReq[g])
      BY <1>1, GwBusy DEF GwBudget, GwAt
    <2>2. /\ gwTotal' = [gwTotal EXCEPT ![k] = [w \in GwLimitType |-> IF GwFresh(k, w) THEN 1 ELSE gwTotal[k][w] + 1]]
          /\ gwAdmitted' = [gwAdmitted EXCEPT ![k] = [w \in GwLimitType |-> IF GwFresh(k, w) THEN 1 ELSE gwAdmitted[k][w] + 1]]
          /\ \A w \in GwLimitType : GwFresh(k, w) \/ gwTotal[k][w] + 1 <= GwLimit[w]
      BY <1>1, <2>1 DEF GwBudget, GwRecord, GwFits
    <2>3. gwTotal' \in [GwKey -> [GwLimitType -> Nat]] /\ gwAdmitted' \in [GwKey -> [GwLimitType -> Nat]]
      BY <2>2 DEF GwCountInv
    <2>4. ASSUME NEW c \in GwKey, NEW w \in GwLimitType
          PROVE  /\ gwAdmitted'[c][w] <= GwLimit[w]
                 /\ gwTotal'[c][w] # GwClosed => gwAdmitted'[c][w] = gwTotal'[c][w]
      <3>1. GwLimit[w] \in Nat \ {0} /\ gwTotal[c][w] \in Nat /\ gwAdmitted[c][w] \in Nat
        BY GwLimitAssumption DEF GwLimitType, GwCountInv
      <3>2. CASE c # k
        BY <2>2, <3>2 DEF GwCountInv
      <3>3. CASE c = k /\ GwFresh(k, w)
        <4>1. gwTotal'[k][w] = 1 /\ gwAdmitted'[k][w] = 1
          BY <2>2, <3>3 DEF GwCountInv
        <4> QED BY <3>1, <3>3, <4>1
      <3>4. CASE c = k /\ ~GwFresh(k, w)
        <4>1. gwTotal[k][w] # GwClosed
          BY <3>4 DEF GwFresh
        <4>2. gwAdmitted[k][w] = gwTotal[k][w] /\ gwTotal'[k][w] = gwTotal[k][w] + 1 /\ gwAdmitted'[k][w] = gwAdmitted[k][w] + 1
          BY <2>2, <3>4, <4>1 DEF GwCountInv
        <4>3. gwTotal[k][w] + 1 <= GwLimit[w]
          BY <2>2, <3>4
        <4> QED BY <3>4, <4>2, <4>3
      <3> QED BY <3>2, <3>3, <3>4
    <2> QED BY <2>3, <2>4 DEF GwCountInv
  <1>2. CASE GwEvict
    <2>1. /\ gwAdmitted' = [k \in GwKey |-> [w \in GwLimitType |-> IF w \in gwOver[k] THEN 0 ELSE gwAdmitted[k][w]]]
          /\ gwTotal' = [k \in GwKey |-> [w \in GwLimitType |-> IF w \in gwOver[k] THEN GwClosed ELSE gwTotal[k][w]]]
      BY <1>2 DEF GwEvict
    <2>2. gwTotal' \in [GwKey -> [GwLimitType -> Nat]] /\ gwAdmitted' \in [GwKey -> [GwLimitType -> Nat]]
      BY <2>1 DEF GwCountInv, GwClosed
    <2>3. \A k \in GwKey, w \in GwLimitType :
             \/ gwTotal'[k][w] = GwClosed /\ gwAdmitted'[k][w] = 0
             \/ gwTotal'[k][w] = gwTotal[k][w] /\ gwAdmitted'[k][w] = gwAdmitted[k][w]
      BY <2>1
    <2>4. \A w \in GwLimitType : GwLimit[w] \in Nat
      BY GwLimitAssumption DEF GwLimitType
    <2> QED BY <2>2, <2>3, <2>4 DEF GwCountInv
  <1>3. ASSUME \/ \E p \in GwPolicies : GwStart(p)
               \/ GwLock \/ GwUnlock
               \/ \E k \in GwKey, w \in GwLimitType : GwWindowEnds(k, w)
               \/ UNCHANGED gwVars
        PROVE  GwCountInv'
    BY <1>3, GwCountSame DEF GwStart, GwLock, GwUnlock, GwWindowEnds, gwVars
  <1>4. ASSUME NEW g \in GwGoroutine,
               \/ GwBlocked(g) \/ GwVerify(g) \/ GwSession(g) \/ GwCheckPolicy(g)
               \/ GwBudgetExceeded(g) \/ GwGate(g) \/ GwReadVault(g) \/ GwVaultFails(g) \/ GwNoSecret(g)
               \/ GwExchange(g) \/ GwExchangeFails(g) \/ GwSend(g) \/ GwSendFails(g) \/ GwRespond(g)
               \/ \E a \in GwActor, rt \in GwRoute, llm \in BOOLEAN : GwArrive(g, a, llm, rt)
        PROVE  GwCountInv'
    <2>1. UNCHANGED <<gwTotal, gwAdmitted>>
      BY <1>4 DEF GwBlocked, GwVerify, GwSession, GwCheckPolicy, GwBudgetExceeded, GwGate, GwReadVault, GwVaultFails,
                  GwNoSecret, GwExchange, GwExchangeFails, GwSend, GwSendFails, GwRespond, GwArrive, gwShared
    <2> QED BY <2>1, GwCountSame
  <1> QED BY <1>1, <1>2, <1>3, <1>4 DEF GwNext

\* Both invariants of the gateway's requests.
LEMMA GwInvariant == GwInit /\ [][GwNext]_gwVars => [](GwReqInv /\ GwCountInv)
  <1>1. GwInit => GwReqInv /\ GwCountInv
    <2> SUFFICES ASSUME GwInit PROVE GwReqInv /\ GwCountInv
      OBVIOUS
    <2>1. GwNone \in GwResting
      BY DEF GwNone, GwResting
    <2>2. GwReqInv
      BY <2>1 DEF GwInit, GwReqInv
    <2>3. GwCountInv
      BY GwLimitAssumption DEF GwInit, GwCountInv, GwClosed, GwLimitType
    <2> QED BY <2>2, <2>3
  <1> QED BY <1>1, GwReqNext, GwCountNext, PTL

\* CheckAndRecord with any number of requests, actors, capabilities and limit types:
\* while a window of an actor, a capability and a limit type lasts, no more requests
\* get past the budget than the limit.
THEOREM GatewayBudgetHolds == GwInit /\ [][GwNext]_gwVars => []GwBudgetHolds
  <1>1. GwReqInv /\ GwCountInv => GwBudgetHolds
    BY DEF GwCountInv, GwBudgetHolds
  <1> QED BY <1>1, GwInvariant, PTL

\* gatewayHandler on every path, for any number of requests, routes and policies:
\* a request that needs a credential goes out with what is stored, read on record,
\* or not at all, and past the exchange the byte slices that hold it are zeroed.
THEOREM GatewayRequestHolds == GwInit /\ [][GwNext]_gwVars => []RequestHolds
  <1>1. GwReqInv => GwNeverBare
    <2> SUFFICES ASSUME GwReqInv, NEW g \in GwGoroutine, gwReq[g].at = "sent", gwReq[g].route.secret,
                        gwReq[g].route.strategy = "static"
                 PROVE  gwReq[g].logged /\ (gwReq[g].header = "live" \/ gwReq[g].cred = "empty")
      BY DEF GwNeverBare
    <2>1. gwReq[g] \in GwServed
      BY GwBusy
    <2> QED BY <2>1 DEF GwServed
  <1>2. GwReqInv => GwWiped
    BY DEF GwReqInv, GwWiped, GwAt, GwResting, GwServed, GwStage
  <1> QED BY <1>1, <1>2, GwInvariant, PTL DEF RequestHolds

-----------------------------------------------------------------------------
\* Approvals

USE DEF PC, Status

\* The record of a request that was never made.
LEMMA NoRecordType == NoFields \in Fields /\ NoRecord \in Record
  BY TimeAssumption DEF NoFields, NoRecord, Fields, Record, Time

\* The lifetime of a request is capped.
LEMMA TTLBound ==
    ASSUME NEW ttl \in {0, MaxTTL + 2}
    PROVE  TTL(ttl) \in 0..MaxTTL
  BY TimeAssumption DEF TTL

\* What a record holds, and what replacing its fields does.
LEMMA RecordParts ==
    ASSUME NEW x \in Record
    PROVE  /\ x.fields \in Fields /\ x.key \in Key \cup {None} /\ x.signed \in Fields
           /\ x.fields.content \in Content \cup {None}
           /\ \A f \in Fields : [x EXCEPT !.fields = f] \in Record
  BY DEF Record, Fields

\* Editing, deciding and expiring give fields again.
LEMMA FieldsChange ==
    ASSUME NEW f \in Fields
    PROVE  /\ \A c \in Content, e \in 0..(MaxTime + MaxTTL + 1) :
                 [f EXCEPT !.content = c, !.expires = e] \in Fields
           /\ \A s \in Status, t \in Time :
                 [f EXCEPT !.status = s, !.decided = t] \in Fields
           /\ \A s \in Status : [f EXCEPT !.status = s] \in Fields
  BY DEF Fields

\* The types hold initially.
LEMMA InitType == Init => TypeOK
  BY NoRecordType, TimeAssumption DEF Init, TypeOK, Time

\* A call that returns leaves the call variables in their types.
LEMMA ReturnType ==
    ASSUME TypeOK, NEW th \in Thread, NEW b \in BOOLEAN, Return(th, b)
    PROVE  /\ pc' \in [Thread -> PC] /\ req' \in [Thread -> Request \cup {None}]
           /\ \A t \in Thread : pc'[t] \notin {"idle", "listed", "loop"} => req'[t] \in Request
           /\ op' \in [Thread -> Status]
           /\ shown' \in [Thread -> Record] /\ copy' \in [Thread -> Record]
           /\ key' \in [Thread -> Key \cup {None}]
           /\ todo' \in [Thread -> SUBSET Request]
           /\ listed' \in [Thread -> [Request -> Record]]
  BY NoRecordType DEF Return, TypeOK

\* Every step keeps the types.
LEMMA NextType == TypeOK /\ [Next]_vars => TypeOK'
  <1> SUFFICES ASSUME TypeOK, [Next]_vars PROVE TypeOK'
    OBVIOUS
  <1> USE DEF fileVars, callVars, histVars
  <1>1. ASSUME NEW r \in Request, NEW c \in Content, NEW ttl \in {0, MaxTTL + 2}, RequestNew(r, c, ttl) PROVE TypeOK'
    <2> DEFINE f == [content |-> c, status |-> "pending", created |-> now,
                     expires |-> now + TTL(ttl), decided |-> 0]
    <2>a. now + TTL(ttl) \in 0..(MaxTime + MaxTTL + 1) /\ now \in Time /\ 0 \in Time
      <3>1. TTL(ttl) \in 0..MaxTTL /\ now \in Time
        BY TTLBound DEF TypeOK
      <3> QED BY <3>1, TimeAssumption DEF Time
    <2>1. f \in Fields
      BY <2>a DEF Fields
    <2>2. rec' = [rec EXCEPT ![r] = [rec[r] EXCEPT !.fields = f]]
      BY <1>1 DEF RequestNew
    <2> HIDE DEF f
    <2>3. [rec[r] EXCEPT !.fields = f] \in Record
      BY <2>1, RecordParts DEF TypeOK
    <2>4. rec' \in [Request -> Record]
      BY <2>2, <2>3 DEF TypeOK
    <2> QED BY <1>1, <2>4 DEF TypeOK, RequestNew
  <1>2. ASSUME NEW r \in Request, NEW c \in Content, NEW e \in {rec[r].fields.expires, MaxTime + MaxTTL + 1}, RequesterEdits(r, c, e) PROVE TypeOK'
    <2> DEFINE f == [rec[r].fields EXCEPT !.content = c, !.expires = e]
    <2>a. rec[r] \in Record /\ rec[r].fields \in Fields
      BY RecordParts DEF TypeOK
    <2>b. e \in 0..(MaxTime + MaxTTL + 1)
      BY <2>a, TimeAssumption DEF Fields
    <2>1. f \in Fields
      BY <2>a, <2>b, FieldsChange
    <2>3. rec' = [rec EXCEPT ![r] = [rec[r] EXCEPT !.fields = f]]
      BY <1>2 DEF RequesterEdits, TypeOK
    <2> HIDE DEF f
    <2>2. [rec[r] EXCEPT !.fields = f] \in Record
      BY <2>1, <2>a, RecordParts
    <2>4. rec' \in [Request -> Record]
      BY <2>2, <2>3 DEF TypeOK
    <2> QED BY <1>2, <2>4 DEF TypeOK, RequesterEdits
  <1>3. ASSUME Tick PROVE TypeOK'
    BY <1>3, TimeAssumption DEF TypeOK, Time, Tick
  <1>4. ASSUME NEW k \in Key, ChangeKey(k) PROVE TypeOK'
    BY <1>4 DEF TypeOK, ChangeKey
  <1>5. ASSUME NEW th \in Thread, NEW r \in Request, NEW d \in {"approved", "denied"}, Show(th, r, d) PROVE TypeOK'
    BY <1>5 DEF TypeOK, Show
  <1>6. ASSUME NEW th \in Thread, ListAll(th) PROVE TypeOK'
    BY <1>6 DEF TypeOK, ListAll
  <1>7. ASSUME NEW th \in Thread, Unlock(th) PROVE TypeOK'
    BY <1>7 DEF TypeOK, Unlock
  <1>8. ASSUME NEW th \in Thread, NEW r \in Request, DenyNext(th, r) PROVE TypeOK'
    BY <1>8 DEF TypeOK, DenyNext
  <1>9. ASSUME NEW th \in Thread, DecideLoad(th) PROVE TypeOK'
    <2> DEFINE f == [rec[req[th]].fields EXCEPT !.status = op[th], !.decided = now]
    <2>1. req[th] \in Request
      BY <1>9 DEF TypeOK, DecideLoad
    <2>2. f \in Fields
      BY <2>1, RecordParts, FieldsChange DEF TypeOK
    <2>3. [fields |-> f, key |-> key[th], signed |-> f] \in Record
      BY <2>2 DEF TypeOK, Record
    <2>4. copy' \in [Thread -> Record]
      BY <1>9, <2>3 DEF TypeOK, DecideLoad
    <2>5. shown[th].fields.content \in Content \cup {None}
      BY DEF TypeOK, Record, Fields
    <2>6. agreed' \in [Request -> SUBSET (Content \cup {None})]
      BY <1>9, <2>5 DEF TypeOK, DecideLoad
    <2> QED BY <1>9, <2>4, <2>6 DEF TypeOK, DecideLoad
  <1>10. ASSUME NEW th \in Thread, DecideRefuse(th) PROVE TypeOK'
    <2> DEFINE b == Answer(th) \in {"ErrAlreadyActed", "ErrExpiredTTL", "ErrNotFound"}
    <2>1. b \in BOOLEAN
      OBVIOUS
    <2>2. Return(th, b) /\ UNCHANGED <<fileVars, histVars>>
      BY <1>10 DEF DecideRefuse
    <2> HIDE DEF b
    <2> QED BY <2>1, <2>2, ReturnType DEF TypeOK
  <1>11. ASSUME NEW th \in Thread, GiveUp(th) PROVE TypeOK'
    BY <1>11, ReturnType, NoRecordType DEF TypeOK, GiveUp
  <1>12. ASSUME NEW th \in Thread, NEW r \in Request, SweepLoad(th, r) PROVE TypeOK'
    <2> DEFINE f == [rec[r].fields EXCEPT !.status = "expired"]
    <2>a. rec[r] \in Record /\ f \in Fields
      BY RecordParts, FieldsChange DEF TypeOK
    <2>b. [rec[r] EXCEPT !.fields.status = "expired"] = [rec[r] EXCEPT !.fields = f]
      BY <2>a DEF Record, Fields
    <2>1. [rec[r] EXCEPT !.fields.status = "expired"] \in Record
      BY <2>a, <2>b, RecordParts
    <2> QED BY <1>12, <2>1 DEF TypeOK, SweepLoad
  <1>13. ASSUME NEW th \in Thread, WriteTmp(th) PROVE TypeOK'
    BY <1>13 DEF TypeOK, WriteTmp
  <1>14. ASSUME NEW th \in Thread, Rename(th) PROVE TypeOK'
    BY <1>14, ReturnType, NoRecordType DEF TypeOK, Rename
  <1>15. ASSUME NEW th \in Thread, WriteFails(th) PROVE TypeOK'
    BY <1>15, ReturnType, NoRecordType DEF TypeOK, WriteFails
  <1>16. ASSUME NEW th \in Thread, NEW r \in Request, NEW c \in Content, Verify(th, r, c) PROVE TypeOK'
    BY <1>16 DEF TypeOK, Verify
  <1>17. ASSUME NEW th \in Thread, Consume(th) PROVE TypeOK'
    <2>1. copy[th].fields.content \in Content \cup {None}
      BY DEF TypeOK, Record, Fields
    <2>2. Return(th, FALSE)
      BY <1>17 DEF Consume
    <2>r. req[th] \in Request
      BY <1>17 DEF TypeOK, Consume
    <2>s. served' \in [Request -> SUBSET (Content \cup {None})]
      BY <1>17, <2>1, <2>r DEF TypeOK, Consume
    <2>3. accepts' \in [Request -> Nat] /\ used' \subseteq Request
      BY <1>17, <2>r DEF TypeOK, Consume
    <2>4. UNCHANGED <<rec, tmp, pub, now, agreed>>
      BY <1>17 DEF Consume
    <2> QED BY <2>2, <2>s, <2>3, <2>4, ReturnType DEF TypeOK
  <1>18. ASSUME NEW th \in Thread, ConsumeRefuse(th) PROVE TypeOK'
    BY <1>18, ReturnType, NoRecordType DEF TypeOK, ConsumeRefuse
  <1>19. CASE UNCHANGED vars
    BY <1>19 DEF TypeOK, vars
  <1> QED
    BY <1>1, <1>2, <1>3, <1>4, <1>5, <1>6, <1>7, <1>8, <1>9, <1>10, <1>11, <1>12,
       <1>13, <1>14, <1>15, <1>16, <1>17, <1>18, <1>19 DEF Next

\* Type correctness: records, temporary files and every call in progress.
THEOREM TypeCorrect == Spec => []TypeOK
  BY InitType, NextType, PTL DEF Spec

-----------------------------------------------------------------------------
\* One use

\* Every step keeps the markers and the count of accepted uses together.
LEMMA NextUsed == TypeOK /\ UsedInv /\ [Next]_vars => UsedInv'
  <1> SUFFICES ASSUME TypeOK, UsedInv, [Next]_vars PROVE UsedInv'
    OBVIOUS
  <1> USE DEF fileVars, callVars, histVars
  <1>1. ASSUME NEW r \in Request, NEW c \in Content, NEW ttl \in {0, MaxTTL + 2}, RequestNew(r, c, ttl) PROVE UsedInv'
    BY <1>1 DEF UsedInv, RequestNew
  <1>2. ASSUME NEW r \in Request, NEW c \in Content, NEW e \in {rec[r].fields.expires, MaxTime + MaxTTL + 1}, RequesterEdits(r, c, e) PROVE UsedInv'
    BY <1>2 DEF UsedInv, RequesterEdits
  <1>3. ASSUME Tick PROVE UsedInv'
    BY <1>3 DEF UsedInv, Tick
  <1>4. ASSUME NEW k \in Key, ChangeKey(k) PROVE UsedInv'
    BY <1>4 DEF UsedInv, ChangeKey
  <1>5. ASSUME NEW th \in Thread, NEW r \in Request, NEW d \in {"approved", "denied"}, Show(th, r, d) PROVE UsedInv'
    BY <1>5 DEF UsedInv, Show
  <1>6. ASSUME NEW th \in Thread, ListAll(th) PROVE UsedInv'
    BY <1>6 DEF UsedInv, ListAll
  <1>7. ASSUME NEW th \in Thread, Unlock(th) PROVE UsedInv'
    BY <1>7 DEF UsedInv, Unlock
  <1>8. ASSUME NEW th \in Thread, NEW r \in Request, DenyNext(th, r) PROVE UsedInv'
    BY <1>8 DEF UsedInv, DenyNext
  <1>9. ASSUME NEW th \in Thread, DecideLoad(th) PROVE UsedInv'
    BY <1>9 DEF UsedInv, DecideLoad
  <1>10. ASSUME NEW th \in Thread, DecideRefuse(th) PROVE UsedInv'
    BY <1>10 DEF UsedInv, DecideRefuse
  <1>11. ASSUME NEW th \in Thread, GiveUp(th) PROVE UsedInv'
    BY <1>11 DEF UsedInv, GiveUp
  <1>12. ASSUME NEW th \in Thread, NEW r \in Request, SweepLoad(th, r) PROVE UsedInv'
    BY <1>12 DEF UsedInv, SweepLoad
  <1>13. ASSUME NEW th \in Thread, WriteTmp(th) PROVE UsedInv'
    BY <1>13 DEF UsedInv, WriteTmp
  <1>14. ASSUME NEW th \in Thread, Rename(th) PROVE UsedInv'
    BY <1>14 DEF UsedInv, Rename
  <1>15. ASSUME NEW th \in Thread, WriteFails(th) PROVE UsedInv'
    BY <1>15 DEF UsedInv, WriteFails
  <1>16. ASSUME NEW th \in Thread, NEW r \in Request, NEW c \in Content, Verify(th, r, c) PROVE UsedInv'
    BY <1>16 DEF UsedInv, Verify
  <1>17. ASSUME NEW th \in Thread, Consume(th) PROVE UsedInv'
    BY <1>17 DEF TypeOK, UsedInv, Consume, MarkerFree
  <1>18. ASSUME NEW th \in Thread, ConsumeRefuse(th) PROVE UsedInv'
    BY <1>18 DEF UsedInv, ConsumeRefuse
  <1>19. CASE UNCHANGED vars
    BY <1>19 DEF UsedInv, vars
  <1> QED
    BY <1>1, <1>2, <1>3, <1>4, <1>5, <1>6, <1>7, <1>8, <1>9, <1>10, <1>11, <1>12,
       <1>13, <1>14, <1>15, <1>16, <1>17, <1>18, <1>19 DEF Next

\* No approval is used twice: the exclusive creation of the marker decides
\* between verifiers that passed every check at the same time.
THEOREM OneUse == Spec => []SingleUse
  <1>1. Init => UsedInv
    BY DEF Init, UsedInv
  <1>2. UsedInv => SingleUse
    BY DEF UsedInv, SingleUse
  <1> QED BY <1>1, <1>2, InitType, NextType, NextUsed, PTL DEF Spec

-----------------------------------------------------------------------------
\* Only what a human saw

\* A step that writes no record, moves nobody into a decision, a write or a
\* verification, and takes back no agreement.
SignedCalm ==
    /\ UNCHANGED <<rec, tmp, agreed>>
    /\ \A t \in Thread : \/ pc'[t] = pc[t] /\ req'[t] = req[t] /\ copy'[t] = copy[t]
                         \/ pc'[t] \in {"idle", "loop", "listed"}

LEMMA SignedFrame ==
    ASSUME SignedInv, SignedCalm
    PROVE  SignedInv'
  BY DEF SignedInv, SignedCalm, Honest

\* Every step keeps SignedInv.
LEMMA NextSigned == TypeOK /\ SignedInv /\ [Next]_vars => SignedInv'
  <1> SUFFICES ASSUME TypeOK, SignedInv, [Next]_vars PROVE SignedInv'
    OBVIOUS
  <1> USE DEF fileVars, callVars, histVars
  <1>a. ASSUME NEW th \in Thread, NEW b, Return(th, b)
        PROVE  \A t \in Thread : \/ pc'[t] = pc[t] /\ req'[t] = req[t] /\ copy'[t] = copy[t]
                                \/ pc'[t] \in {"idle", "loop", "listed"}
    BY <1>a DEF Return, TypeOK
  <1>1. ASSUME NEW r \in Request, NEW c \in Content, NEW ttl \in {0, MaxTTL + 2}, RequestNew(r, c, ttl) PROVE SignedInv'
    <2>1. \A q \in Request : rec'[q].key = rec[q].key /\ rec'[q].signed = rec[q].signed
      BY <1>1 DEF RequestNew, TypeOK, Record
    <2> QED BY <1>1, <2>1 DEF RequestNew, SignedInv, Honest
  <1>2. ASSUME NEW r \in Request, NEW c \in Content, NEW e \in {rec[r].fields.expires, MaxTime + MaxTTL + 1}, RequesterEdits(r, c, e) PROVE SignedInv'
    <2>1. \A q \in Request : rec'[q].key = rec[q].key /\ rec'[q].signed = rec[q].signed
      BY <1>2 DEF RequesterEdits, TypeOK, Record
    <2> QED BY <1>2, <2>1 DEF RequesterEdits, SignedInv, Honest
  <1>3. ASSUME Tick PROVE SignedInv'
    BY <1>3, SignedFrame DEF Tick, SignedCalm, TypeOK
  <1>4. ASSUME NEW k \in Key, ChangeKey(k) PROVE SignedInv'
    BY <1>4, SignedFrame DEF ChangeKey, SignedCalm, TypeOK
  <1>5. ASSUME NEW th \in Thread, NEW r \in Request, NEW d \in {"approved", "denied"}, Show(th, r, d) PROVE SignedInv'
    BY <1>5 DEF Show, SignedInv, Honest, TypeOK
  <1>6. ASSUME NEW th \in Thread, ListAll(th) PROVE SignedInv'
    BY <1>6, SignedFrame DEF ListAll, SignedCalm, TypeOK
  <1>7. ASSUME NEW th \in Thread, Unlock(th) PROVE SignedInv'
    BY <1>7 DEF Unlock, SignedInv, Honest, TypeOK
  <1>8. ASSUME NEW th \in Thread, NEW r \in Request, DenyNext(th, r) PROVE SignedInv'
    BY <1>8 DEF DenyNext, SignedInv, Honest, TypeOK
  <1>9. ASSUME NEW th \in Thread, DecideLoad(th) PROVE SignedInv'
    <2> DEFINE f == [rec[req[th]].fields EXCEPT !.status = op[th], !.decided = now]
    <2>1. req[th] \in Request
      BY <1>9 DEF TypeOK, DecideLoad
    <2>2. rec[req[th]] = shown[th]
      BY <1>9 DEF DecideLoad, Answer
    <2>3. f.content = shown[th].fields.content /\ f.status = op[th]
      BY <2>1, <2>2 DEF TypeOK, Record, Fields
    <2>4. \A q \in Request : agreed[q] \subseteq agreed'[q]
      BY <1>9, <2>1 DEF DecideLoad, TypeOK
    <2>5. copy'[th] = [fields |-> f, key |-> key[th], signed |-> f]
      BY <1>9 DEF DecideLoad, TypeOK
    <2>6. op[th] = "approved" => f.content \in agreed'[req[th]]
      BY <1>9, <2>1, <2>3 DEF DecideLoad, TypeOK
    <2>7. Honest(copy[th], req[th])'
      <3>1. copy'[th].signed.content = f.content /\ copy'[th].signed.status = op[th]
        <4> HIDE DEF f
        <4> QED BY <2>3, <2>5
      <3>2. req' = req
        BY <1>9 DEF DecideLoad
      <3> QED BY <2>6, <3>1, <3>2 DEF Honest
    <2>8. \A t \in Thread \ {th} : pc'[t] = pc[t] /\ req'[t] = req[t] /\ copy'[t] = copy[t]
      BY <1>9 DEF DecideLoad, TypeOK
    <2>9. pc'[th] = "write" /\ req' = req /\ rec' = rec /\ tmp' = tmp
      BY <1>9 DEF DecideLoad, TypeOK
    <2> QED BY <2>1, <2>4, <2>7, <2>8, <2>9 DEF SignedInv, Honest
  <1>10. ASSUME NEW th \in Thread, DecideRefuse(th) PROVE SignedInv'
    BY <1>10, <1>a, SignedFrame DEF DecideRefuse, SignedCalm
  <1>11. ASSUME NEW th \in Thread, GiveUp(th) PROVE SignedInv'
    BY <1>11, <1>a, SignedFrame DEF GiveUp, SignedCalm
  <1>12. ASSUME NEW th \in Thread, NEW r \in Request, SweepLoad(th, r) PROVE SignedInv'
    <2>1. copy'[th].key = rec[r].key /\ copy'[th].signed = rec[r].signed
      BY <1>12 DEF SweepLoad, TypeOK, Record
    <2> QED BY <1>12, <2>1 DEF SweepLoad, SignedInv, Honest, TypeOK
  <1>13. ASSUME NEW th \in Thread, WriteTmp(th) PROVE SignedInv'
    <2>1. \A q \in Request : Honest(rec[q], q)' /\ Honest(tmp[q], q)'
      BY <1>13 DEF WriteTmp, SignedInv, Honest, TypeOK
    <2> QED BY <1>13, <2>1 DEF WriteTmp, SignedInv, Honest, TypeOK
  <1>14. ASSUME NEW th \in Thread, Rename(th) PROVE SignedInv'
    <2>1. req[th] \in Request
      BY <1>14 DEF Rename, SignedInv
    <2>2. \A q \in Request : Honest(rec[q], q)' /\ Honest(tmp[q], q)'
      BY <1>14, <2>1 DEF Rename, SignedInv, Honest, TypeOK, NoRecord
    <2> QED BY <1>14, <1>a, <2>2 DEF Rename, SignedInv, Honest
  <1>15. ASSUME NEW th \in Thread, WriteFails(th) PROVE SignedInv'
    <2>1. \A q \in Request : Honest(rec[q], q)' /\ Honest(tmp[q], q)'
      BY <1>15 DEF WriteFails, SignedInv, Honest, TypeOK, NoRecord
    <2> QED BY <1>15, <1>a, <2>1 DEF WriteFails, SignedInv, Honest
  <1>16. ASSUME NEW th \in Thread, NEW r \in Request, NEW c \in Content, Verify(th, r, c) PROVE SignedInv'
    <2>1. rec[r].fields.content \in agreed[r]
      BY <1>16 DEF Verify, SignatureValid, SignedInv, Honest
    <2> QED BY <1>16, <2>1 DEF Verify, SignedInv, Honest, TypeOK
  <1>17. ASSUME NEW th \in Thread, Consume(th) PROVE SignedInv'
    BY <1>17, <1>a, SignedFrame DEF Consume, SignedCalm
  <1>18. ASSUME NEW th \in Thread, ConsumeRefuse(th) PROVE SignedInv'
    BY <1>18, <1>a, SignedFrame DEF ConsumeRefuse, SignedCalm
  <1>19. CASE UNCHANGED vars
    BY <1>19, SignedFrame DEF SignedCalm, vars
  <1> QED
    BY <1>1, <1>2, <1>3, <1>4, <1>5, <1>6, <1>7, <1>8, <1>9, <1>10, <1>11, <1>12,
       <1>13, <1>14, <1>15, <1>16, <1>17, <1>18, <1>19 DEF Next

\* A step that leaves what was served alone keeps ServedWasShown, because an
\* agreement is never taken back; Consume serves what SignedInv vouches for.
LEMMA NextServed ==
    TypeOK /\ SignedInv /\ ServedWasShown /\ [Next]_vars => ServedWasShown'
  <1> SUFFICES ASSUME TypeOK, SignedInv, ServedWasShown, [Next]_vars PROVE ServedWasShown'
    OBVIOUS
  <1> USE DEF fileVars, callVars, histVars
  <1>1. ASSUME NEW r \in Request, NEW c \in Content, NEW ttl \in {0, MaxTTL + 2}, RequestNew(r, c, ttl) PROVE ServedWasShown'
    BY <1>1 DEF ServedWasShown, RequestNew
  <1>2. ASSUME NEW r \in Request, NEW c \in Content, NEW e \in {rec[r].fields.expires, MaxTime + MaxTTL + 1}, RequesterEdits(r, c, e) PROVE ServedWasShown'
    BY <1>2 DEF ServedWasShown, RequesterEdits
  <1>3. ASSUME Tick PROVE ServedWasShown'
    BY <1>3 DEF ServedWasShown, Tick
  <1>4. ASSUME NEW k \in Key, ChangeKey(k) PROVE ServedWasShown'
    BY <1>4 DEF ServedWasShown, ChangeKey
  <1>5. ASSUME NEW th \in Thread, NEW r \in Request, NEW d \in {"approved", "denied"}, Show(th, r, d) PROVE ServedWasShown'
    BY <1>5 DEF ServedWasShown, Show
  <1>6. ASSUME NEW th \in Thread, ListAll(th) PROVE ServedWasShown'
    BY <1>6 DEF ServedWasShown, ListAll
  <1>7. ASSUME NEW th \in Thread, Unlock(th) PROVE ServedWasShown'
    BY <1>7 DEF ServedWasShown, Unlock
  <1>8. ASSUME NEW th \in Thread, NEW r \in Request, DenyNext(th, r) PROVE ServedWasShown'
    BY <1>8 DEF ServedWasShown, DenyNext
  <1>9. ASSUME NEW th \in Thread, DecideLoad(th) PROVE ServedWasShown'
    BY <1>9 DEF TypeOK, ServedWasShown, DecideLoad
  <1>10. ASSUME NEW th \in Thread, DecideRefuse(th) PROVE ServedWasShown'
    BY <1>10 DEF ServedWasShown, DecideRefuse
  <1>11. ASSUME NEW th \in Thread, GiveUp(th) PROVE ServedWasShown'
    BY <1>11 DEF ServedWasShown, GiveUp
  <1>12. ASSUME NEW th \in Thread, NEW r \in Request, SweepLoad(th, r) PROVE ServedWasShown'
    BY <1>12 DEF ServedWasShown, SweepLoad
  <1>13. ASSUME NEW th \in Thread, WriteTmp(th) PROVE ServedWasShown'
    BY <1>13 DEF ServedWasShown, WriteTmp
  <1>14. ASSUME NEW th \in Thread, Rename(th) PROVE ServedWasShown'
    BY <1>14 DEF ServedWasShown, Rename
  <1>15. ASSUME NEW th \in Thread, WriteFails(th) PROVE ServedWasShown'
    BY <1>15 DEF ServedWasShown, WriteFails
  <1>16. ASSUME NEW th \in Thread, NEW r \in Request, NEW c \in Content, Verify(th, r, c) PROVE ServedWasShown'
    BY <1>16 DEF ServedWasShown, Verify
  <1>17. ASSUME NEW th \in Thread, Consume(th) PROVE ServedWasShown'
    BY <1>17 DEF TypeOK, SignedInv, ServedWasShown, Consume
  <1>18. ASSUME NEW th \in Thread, ConsumeRefuse(th) PROVE ServedWasShown'
    BY <1>18 DEF ServedWasShown, ConsumeRefuse
  <1>19. CASE UNCHANGED vars
    BY <1>19 DEF ServedWasShown, vars
  <1> QED
    BY <1>1, <1>2, <1>3, <1>4, <1>5, <1>6, <1>7, <1>8, <1>9, <1>10, <1>11, <1>12,
       <1>13, <1>14, <1>15, <1>16, <1>17, <1>18, <1>19 DEF Next

\* Whatever the requester writes into its file and whenever it does, Verify
\* accepts only what a human was shown and approved.
THEOREM OnlyShownIsServed == Spec => []ServedWasShown
  <1>1. Init => SignedInv
    BY DEF Init, SignedInv, Honest, NoRecord
  <1>2. Init => ServedWasShown
    BY DEF Init, ServedWasShown
  <1> QED BY <1>1, <1>2, InitType, NextType, NextSigned, NextServed, PTL DEF Spec

-----------------------------------------------------------------------------
\* The refinement

\* A step of the files is a step of Consent or invisible there: a decision to
\* approve is an agreement, the creation of the marker spends the request.
LEMMA StepConsents ==
    TypeOK /\ UsedInv /\ SignedInv /\ [Next]_vars => [C!ConsentNext]_(C!consentVars)
  <1> SUFFICES ASSUME TypeOK, UsedInv, SignedInv, [Next]_vars
               PROVE  C!ConsentNext \/ UNCHANGED histVars
    BY DEF C!consentVars, histVars
  <1> USE DEF fileVars, callVars, histVars
  <1>1. ASSUME NEW r \in Request, NEW c \in Content, NEW ttl \in {0, MaxTTL + 2}, RequestNew(r, c, ttl) PROVE UNCHANGED histVars
    BY <1>1 DEF RequestNew
  <1>2. ASSUME NEW r \in Request, NEW c \in Content, NEW e \in {rec[r].fields.expires, MaxTime + MaxTTL + 1}, RequesterEdits(r, c, e) PROVE UNCHANGED histVars
    BY <1>2 DEF RequesterEdits
  <1>3. ASSUME Tick PROVE UNCHANGED histVars
    BY <1>3 DEF Tick
  <1>4. ASSUME NEW k \in Key, ChangeKey(k) PROVE UNCHANGED histVars
    BY <1>4 DEF ChangeKey
  <1>5. ASSUME NEW th \in Thread, NEW r \in Request, NEW d \in {"approved", "denied"}, Show(th, r, d) PROVE UNCHANGED histVars
    BY <1>5 DEF Show
  <1>6. ASSUME NEW th \in Thread, ListAll(th) PROVE UNCHANGED histVars
    BY <1>6 DEF ListAll
  <1>7. ASSUME NEW th \in Thread, Unlock(th) PROVE UNCHANGED histVars
    BY <1>7 DEF Unlock
  <1>8. ASSUME NEW th \in Thread, NEW r \in Request, DenyNext(th, r) PROVE UNCHANGED histVars
    BY <1>8 DEF DenyNext
  <1>9. ASSUME NEW th \in Thread, DecideLoad(th) PROVE C!ConsentNext \/ UNCHANGED histVars
    <2> DEFINE c == shown[th].fields.content
    <2>1. req[th] \in Request /\ c \in Content \cup {None}
      BY <1>9 DEF TypeOK, DecideLoad, Record, Fields
    <2>2. CASE op[th] = "approved"
      <3>1. agreed' = [agreed EXCEPT ![req[th]] = @ \cup {c}] /\ UNCHANGED <<accepts, served>>
        BY <1>9, <2>2 DEF DecideLoad
      <3>2. C!Agree(req[th], c)
        BY <3>1 DEF C!Agree
      <3> QED BY <2>1, <3>2 DEF C!ConsentNext
    <2>3. CASE op[th] # "approved"
      BY <1>9, <2>3 DEF DecideLoad
    <2> QED BY <2>2, <2>3
  <1>10. ASSUME NEW th \in Thread, DecideRefuse(th) PROVE UNCHANGED histVars
    BY <1>10 DEF DecideRefuse
  <1>11. ASSUME NEW th \in Thread, GiveUp(th) PROVE UNCHANGED histVars
    BY <1>11 DEF GiveUp
  <1>12. ASSUME NEW th \in Thread, NEW r \in Request, SweepLoad(th, r) PROVE UNCHANGED histVars
    BY <1>12 DEF SweepLoad
  <1>13. ASSUME NEW th \in Thread, WriteTmp(th) PROVE UNCHANGED histVars
    BY <1>13 DEF WriteTmp
  <1>14. ASSUME NEW th \in Thread, Rename(th) PROVE UNCHANGED histVars
    BY <1>14 DEF Rename
  <1>15. ASSUME NEW th \in Thread, WriteFails(th) PROVE UNCHANGED histVars
    BY <1>15 DEF WriteFails
  <1>16. ASSUME NEW th \in Thread, NEW r \in Request, NEW c \in Content, Verify(th, r, c) PROVE UNCHANGED histVars
    BY <1>16 DEF Verify
  <1>17. ASSUME NEW th \in Thread, Consume(th) PROVE C!ConsentNext
    <2> DEFINE c == copy[th].fields.content
    <2>1. req[th] \in Request /\ c \in agreed[req[th]]
      BY <1>17 DEF SignedInv, Consume
    <2>2. accepts[req[th]] = 0
      BY <1>17, <2>1 DEF UsedInv, Consume, MarkerFree
    <2>3. accepts' = [accepts EXCEPT ![req[th]] = 1]
      BY <1>17, <2>2 DEF Consume
    <2>4. served' = [served EXCEPT ![req[th]] = @ \cup {c}] /\ UNCHANGED agreed
      BY <1>17 DEF Consume
    <2>5. C!Spend(req[th], c)
      BY <2>1, <2>2, <2>3, <2>4 DEF C!Spend
    <2>6. c \in Content \cup {None}
      BY <2>1 DEF TypeOK
    <2> QED BY <2>1, <2>5, <2>6 DEF C!ConsentNext
  <1>18. ASSUME NEW th \in Thread, ConsumeRefuse(th) PROVE UNCHANGED histVars
    BY <1>18 DEF ConsumeRefuse
  <1>19. CASE UNCHANGED vars
    BY <1>19 DEF vars
  <1> QED
    BY <1>1, <1>2, <1>3, <1>4, <1>5, <1>6, <1>7, <1>8, <1>9, <1>10, <1>11, <1>12,
       <1>13, <1>14, <1>15, <1>16, <1>17, <1>18, <1>19 DEF Next

\* Approval records that anybody rewrites, decisions that race and markers
\* implement Consent: spent once, on what was agreed to before.
THEOREM RefinesConsent == Spec => ImplementsConsent
  <1>1. Init => C!ConsentInit
    BY DEF Init, C!ConsentInit
  <1>2. Init => UsedInv /\ SignedInv
    BY DEF Init, UsedInv, SignedInv, Honest, NoRecord
  <1> QED
    BY <1>1, <1>2, InitType, NextType, NextUsed, NextSigned, StepConsents, PTL
       DEF Spec, ImplementsConsent, C!ConsentSpec

-----------------------------------------------------------------------------
\* What masking leaves of a document

\* A nonempty set of natural numbers has a least element.
LEMMA LeastNatural ==
    ASSUME NEW T \in SUBSET Nat, T # {}
    PROVE  \E n \in T : \A m \in T : n <= m
  <1> DEFINE R == {ss \in Nat \X Nat : ss[1] < ss[2]}
  <1>1. OpToRel(<, Nat) = R
    BY Zenon DEF OpToRel
  <1>2. IsWellFoundedOn(R, Nat)
    BY <1>1, NatLessThanWellFounded, Zenon
  <1>3. PICK n \in T : \A m \in T : ~(<<m, n>> \in R)
    BY <1>2, WFMin, Zenon
  <1>4. ASSUME NEW m \in T PROVE n <= m
    <2>1. <<m, n>> \in Nat \X Nat /\ <<m, n>>[1] = m /\ <<m, n>>[2] = n
      OBVIOUS
    <2>2. ~(m < n)
      BY <1>3, <2>1, Zenon
    <2> QED BY <2>2
  <1> QED BY <1>4

\* What holds of no level, and of the next one with every level, holds of them all.
LEMMA EveryLevel ==
    ASSUME NEW n \in Nat, NEW S, 0 \in S, \A k \in 0 .. n - 1 : k \in S => k + 1 \in S
    PROVE  \A k \in 0 .. n : k \in S
  <1> DEFINE missing == {k \in 0 .. n : k \notin S}
  <1> SUFFICES ASSUME missing # {} PROVE FALSE
    OBVIOUS
  <1>1. missing \in SUBSET Nat
    OBVIOUS
  <1>2. PICK k \in missing : \A j \in missing : k <= j
    BY <1>1, LeastNatural
  <1>3. k \in 0 .. n /\ k \notin S /\ k # 0
    OBVIOUS
  <1>4. k - 1 \in 0 .. n - 1 /\ k - 1 \in 0 .. n /\ (k - 1) + 1 = k /\ ~(k <= k - 1)
    BY <1>3
  <1>5. k - 1 \in S
    BY <1>2, <1>4
  <1> QED BY <1>3, <1>4, <1>5

\* There are levels, and the placeholders are leaves.
LEMMA Levels ==
    /\ MkTop \in Nat /\ MkDepth \in 0 .. MkTop /\ 0 \in 0 .. MkTop
    /\ MkDepth + 1 \in 0 .. MkTop /\ MkDepth + 2 \in 0 .. MkTop /\ MkDepth + 3 = MkTop
    /\ "redacted" \in MkValue /\ "stripped" \in MkValue /\ "label" \in MkField
  BY MaskingAssumption DEF MkTop

\* The documents of the next level are leaves, and objects and arrays of those below.
LEMMA Trees ==
    /\ MkTree[0] = MkLeafs
    /\ \A k \in 0 .. MkTop - 1 : MkTree[k + 1] = MkLeafs \cup MkOver(MkTree[k])
  <1> DEFINE Of(F, n) == IF n = 0 THEN MkLeafs ELSE MkLeafs \cup MkOver(F[n - 1])
             Is(F, k) == F = [n \in 0 .. k |-> Of(F, n)]
             Has(k) == \E F : Is(F, k)
             S == {k \in 0 .. MkTop : Has(k)}
  <1>0. MkTop \in Nat
    BY Levels
  <1>1. Has(0)
    <2>1. Is([n \in 0 .. 0 |-> MkLeafs], 0)
      OBVIOUS
    <2> QED BY <2>1
  <1>2. ASSUME NEW k \in 0 .. MkTop - 1, NEW F, Is(F, k) PROVE Has(k + 1)
    <2> DEFINE H == [n \in 0 .. k + 1 |-> IF n <= k THEN F[n] ELSE Of(F, n)]
    <2>1. ASSUME NEW n \in 0 .. k + 1 PROVE H[n] = Of(H, n)
      <3>1. n # 0 => H[n - 1] = F[n - 1]
        BY <1>0
      <3>2. Of(H, n) = Of(F, n)
        BY <3>1
      <3>3. n \in 0 .. k => F[n] = Of(F, n)
        BY <1>2, Zenon
      <3>4. H[n] = IF n <= k THEN F[n] ELSE Of(F, n)
        OBVIOUS
      <3>5. n <= k => n \in 0 .. k
        BY <1>0
      <3> HIDE DEF Of, H
      <3> QED BY <3>2, <3>3, <3>4, <3>5
    <2>2. H = [n \in 0 .. k + 1 |-> Of(H, n)]
      BY <2>1
    <2>3. Is(H, k + 1)
      BY <2>2
    <2> QED BY <2>3
  <1>3. \A k \in 0 .. MkTop - 1 : Has(k) => Has(k + 1)
    BY <1>2, Zenon
  <1> HIDE DEF Has
  <1>4. 0 \in S /\ \A k \in 0 .. MkTop - 1 : k \in S => k + 1 \in S
    BY <1>0, <1>1, <1>3
  <1> HIDE DEF S
  <1>5. \A k \in 0 .. MkTop : k \in S
    BY <1>0, <1>4, EveryLevel
  <1> USE DEF S
  <1>6. Has(MkTop)
    BY <1>0, <1>5
  <1>7. MkTree = CHOOSE F : Is(F, MkTop)
    BY DEF MkTree
  <1>8. \E F : Is(F, MkTop)
    BY <1>6, Zenon DEF Has
  <1> HIDE DEF Is
  <1>9. Is(MkTree, MkTop)
    BY <1>7, <1>8, Zenon
  <1> USE DEF Is
  <1>10. ASSUME NEW n \in 0 .. MkTop PROVE MkTree[n] = Of(MkTree, n)
    <2>1. MkTree = [i \in 0 .. MkTop |-> Of(MkTree, i)]
      BY <1>9
    <2> HIDE DEF Of
    <2> QED BY <2>1, Zenon
  <1>11. MkTree[0] = MkLeafs
    <2>1. 0 \in 0 .. MkTop
      BY <1>0
    <2>2. MkTree[0] = Of(MkTree, 0)
      BY <1>10, <2>1, Zenon
    <2> QED BY <2>2
  <1>12. ASSUME NEW k \in 0 .. MkTop - 1 PROVE MkTree[k + 1] = MkLeafs \cup MkOver(MkTree[k])
    <2>1. k + 1 \in 0 .. MkTop /\ k + 1 # 0 /\ (k + 1) - 1 = k
      BY <1>0
    <2>2. MkTree[k + 1] = Of(MkTree, k + 1)
      BY <1>10, <2>1, Zenon
    <2> QED BY <2>1, <2>2
  <1> QED BY <1>11, <1>12

\* What is of a level is a leaf, or made of what is of the level below.
LEMMA Kinds ==
    ASSUME NEW n \in 0 .. MkTop, NEW d \in MkTree[n]
    PROVE  \/ d.t = "leaf" /\ d \in MkLeafs
           \/ n # 0 /\ n - 1 \in 0 .. MkTop /\ d.t = "obj" /\ d.e \in SUBSET [k : MkField, d : MkTree[n - 1]]
           \/ n # 0 /\ n - 1 \in 0 .. MkTop /\ d.t = "arr" /\ d.e \in SUBSET MkTree[n - 1]
  <1>1. CASE n = 0
    BY <1>1, Trees DEF MkLeafs
  <1>2. CASE n # 0
    <2>1. MkTop \in Nat
      BY Levels
    <2>2. n - 1 \in 0 .. MkTop - 1 /\ n - 1 \in 0 .. MkTop /\ (n - 1) + 1 = n
      BY <1>2, <2>1
    <2>3. MkTree[n] = MkLeafs \cup MkOver(MkTree[n - 1])
      BY <2>2, Trees
    <2> QED BY <1>2, <2>2, <2>3 DEF MkOver, MkLeafs
  <1> QED BY <1>1, <1>2

\* Every level holds the leaves and the levels below it.
LEMMA Growing ==
    ASSUME NEW n \in 0 .. MkTop
    PROVE  /\ MkLeafs \subseteq MkTree[n] /\ MkTree[n] \subseteq MkDoc
           /\ n + 1 \in 0 .. MkTop => MkTree[n] \subseteq MkTree[n + 1]
  <1>0. MkTop \in Nat
    BY Levels
  <1>1. ASSUME NEW k \in 0 .. MkTop PROVE MkLeafs \subseteq MkTree[k]
    <2>1. CASE k = 0
      BY <2>1, Trees
    <2>2. CASE k # 0
      <3>1. k - 1 \in 0 .. MkTop - 1 /\ (k - 1) + 1 = k
        BY <1>0, <2>2
      <3>2. MkTree[k] = MkLeafs \cup MkOver(MkTree[k - 1])
        BY <3>1, Trees
      <3> QED BY <3>2
    <2> QED BY <2>1, <2>2
  <1> DEFINE S == {k \in 0 .. MkTop : k + 1 \in 0 .. MkTop => MkTree[k] \subseteq MkTree[k + 1]}
  <1>2. 0 \in S
    <2>1. 1 \in 0 .. MkTop => MkLeafs \subseteq MkTree[1]
      BY <1>1
    <2>2. 0 \in 0 .. MkTop /\ 0 + 1 = 1
      BY <1>0
    <2> QED BY <2>1, <2>2, Trees
  <1>3. ASSUME NEW k \in 0 .. MkTop - 1, k \in S PROVE k + 1 \in S
    <2>1. k + 1 \in 0 .. MkTop /\ k \in 0 .. MkTop
      BY <1>0
    <2>2. MkTree[k] \subseteq MkTree[k + 1]
      BY <1>3, <2>1
    <2>3. ASSUME (k + 1) + 1 \in 0 .. MkTop PROVE MkTree[k + 1] \subseteq MkTree[(k + 1) + 1]
      <3>1. k + 1 \in 0 .. MkTop - 1
        BY <1>0, <2>3
      <3>2. /\ MkTree[k + 1] = MkLeafs \cup MkOver(MkTree[k])
            /\ MkTree[(k + 1) + 1] = MkLeafs \cup MkOver(MkTree[k + 1])
        BY <3>1, Trees
      <3>3. MkOver(MkTree[k]) \subseteq MkOver(MkTree[k + 1])
        BY <2>2 DEF MkOver
      <3> QED BY <3>2, <3>3
    <2> QED BY <2>1, <2>3
  <1> HIDE DEF S
  <1>4. \A k \in 0 .. MkTop : k \in S
    <2>1. \A k \in 0 .. MkTop - 1 : k \in S => k + 1 \in S
      BY <1>3
    <2> QED BY <1>0, <1>2, <2>1, EveryLevel
  <1> DEFINE T == {j \in Nat : j <= MkTop => MkTree[MkTop - j] \subseteq MkDoc}
  <1>5. 0 \in T
    <2>1. MkTop - 0 = MkTop
      BY <1>0
    <2> QED BY <2>1 DEF MkDoc
  <1>6. ASSUME NEW j \in 0 .. MkTop - 1, j \in T PROVE j + 1 \in T
    <2>1. /\ MkTop - (j + 1) \in 0 .. MkTop /\ (MkTop - (j + 1)) + 1 = MkTop - j
          /\ MkTop - j \in 0 .. MkTop /\ j + 1 \in Nat /\ j \in Nat /\ j <= MkTop
      BY <1>0
    <2>2. MkTree[MkTop - (j + 1)] \subseteq MkTree[MkTop - j]
      BY <1>4, <2>1 DEF S
    <2>3. MkTree[MkTop - j] \subseteq MkDoc
      BY <1>6, <2>1
    <2> QED BY <2>1, <2>2, <2>3
  <1> HIDE DEF T
  <1>7. \A j \in 0 .. MkTop : j \in T
    <2>1. \A j \in 0 .. MkTop - 1 : j \in T => j + 1 \in T
      BY <1>6
    <2> QED BY <1>0, <1>5, <2>1, EveryLevel
  <1>8. MkTree[n] \subseteq MkDoc
    <2>1. MkTop - n \in 0 .. MkTop /\ MkTop - (MkTop - n) = n /\ MkTop - n <= MkTop
      BY <1>0
    <2>2. MkTop - n \in T
      BY <1>7, <2>1
    <2> QED BY <2>1, <2>2 DEF T
  <1>9. n + 1 \in 0 .. MkTop => MkTree[n] \subseteq MkTree[n + 1]
    BY <1>4 DEF S
  <1> QED BY <1>1, <1>8, <1>9

\* What is made of documents of one level is of the next.
LEMMA Made ==
    ASSUME NEW n \in 0 .. MkTop, n + 1 \in 0 .. MkTop
    PROVE  /\ \A e \in SUBSET [k : MkField, d : MkTree[n]] : [t |-> "obj", e |-> e] \in MkTree[n + 1]
           /\ \A e \in SUBSET MkTree[n] : [t |-> "arr", e |-> e] \in MkTree[n + 1]
  <1>1. n \in 0 .. MkTop - 1
    BY Levels
  <1>2. MkTree[n + 1] = MkLeafs \cup MkOver(MkTree[n])
    BY <1>1, Trees
  <1> QED BY <1>2 DEF MkOver

\* The placeholder is a document of every level.
LEMMA PlaceholderBelow ==
    ASSUME NEW n \in 0 .. MkTop, n # 0
    PROVE  MkRedacted \in MkTree[n - 1]
  <1>1. n - 1 \in 0 .. MkTop
    BY Levels
  <1>2. MkRedacted \in MkLeafs
    BY Levels DEF MkRedacted, MkLeaf, MkLeafs
  <1> QED BY <1>1, <1>2, Growing

\* What the leaves of a document are.
LEMMA Leaves ==
    \A d \in MkDoc :
             MkLeaves[d] = CASE d.t = "obj" -> UNION {MkUnder(MkLeaves[x.d], x, d.e) : x \in d.e}
                            [] d.t = "arr" -> UNION {MkLeaves[x] : x \in d.e}
                            [] OTHER -> {[above |-> {}, by |-> {}, v |-> d.v]}
  <1> DEFINE Of(F, d) == CASE d.t = "obj" -> UNION {MkUnder(F[x.d], x, d.e) : x \in d.e}
                               [] d.t = "arr" -> UNION {F[x] : x \in d.e}
                               [] OTHER -> {[above |-> {}, by |-> {}, v |-> d.v]}
             Is(F, D) == F = [d \in D |-> Of(F, d)]
             Has(k) == \E F : Is(F, MkTree[k])
             S == {k \in 0 .. MkTop : Has(k)}
  <1>0. MkTop \in Nat
    BY Levels
  <1>1. ASSUME NEW d, NEW F, d.t = "leaf" PROVE Of(F, d) = {[above |-> {}, by |-> {}, v |-> d.v]}
    BY <1>1
  <1>2. ASSUME NEW n \in 0 .. MkTop, n # 0, NEW d \in MkTree[n], NEW F, NEW G, \A x \in MkTree[n - 1] : F[x] = G[x]
        PROVE  Of(F, d) = Of(G, d)
    <2>1. CASE d.t = "leaf"
      BY <2>1, <1>1
    <2>2. CASE d.t = "obj"
      <3>1. d.e \in SUBSET [k : MkField, d : MkTree[n - 1]]
        BY <2>2, Kinds
      <3>2. \A x \in d.e : F[x.d] = G[x.d]
        BY <1>2, <3>1
      <3>3. {MkUnder(F[x.d], x, d.e) : x \in d.e} = {MkUnder(G[x.d], x, d.e) : x \in d.e}
        BY <3>2
      <3> QED BY <2>2, <3>3
    <2>3. CASE d.t = "arr"
      <3>1. d.e \in SUBSET MkTree[n - 1]
        BY <2>3, Kinds
      <3>2. \A x \in d.e : F[x] = G[x]
        BY <1>2, <3>1
      <3>3. {F[x] : x \in d.e} = {G[x] : x \in d.e}
        BY <3>2
      <3> QED BY <2>3, <3>3
    <2> QED BY <2>1, <2>2, <2>3, Kinds
  <1>3. 0 \in S
    <2>1. \A d \in MkTree[0] : d.t = "leaf"
      BY Trees DEF MkLeafs
    <2> DEFINE F == [d \in MkTree[0] |-> {[above |-> {}, by |-> {}, v |-> d.v]}]
    <2>2. \A d \in MkTree[0] : Of(F, d) = {[above |-> {}, by |-> {}, v |-> d.v]}
      BY <1>1, <2>1
    <2> HIDE DEF Of
    <2>3. F = [d \in MkTree[0] |-> Of(F, d)]
      BY <2>2
    <2>4. Has(0)
      BY <2>3, Zenon
    <2> QED BY <1>0, <2>4
  <1> HIDE DEF Of
  <1>4. ASSUME NEW k \in 0 .. MkTop - 1, k \in S PROVE k + 1 \in S
    <2>1. k \in 0 .. MkTop /\ k + 1 \in 0 .. MkTop /\ k + 1 # 0 /\ (k + 1) - 1 = k
      BY <1>0
    <2>2. PICK F : Is(F, MkTree[k])
      BY <1>4, Zenon
    <2>3. MkTree[k] \subseteq MkTree[k + 1]
      BY <2>1, Growing
    <2> DEFINE H == [d \in MkTree[k + 1] |-> Of(F, d)]
    <2>4. \A x \in MkTree[k] : F[x] = H[x]
      <3>1. F = [d \in MkTree[k] |-> Of(F, d)]
        BY <2>2
      <3>2. ASSUME NEW x \in MkTree[k] PROVE F[x] = Of(F, x)
        BY <3>1, Zenon
      <3> QED BY <2>3, <3>2
    <2> HIDE DEF H
    <2>5. \A d \in MkTree[k + 1] : Of(F, d) = Of(H, d)
      <3>1. \A x \in MkTree[(k + 1) - 1] : F[x] = H[x]
        BY <2>1, <2>4
      <3> QED BY <1>2, <2>1, <3>1
    <2>6. H = [d \in MkTree[k + 1] |-> Of(H, d)]
      BY <2>5 DEF H
    <2>7. Has(k + 1)
      BY <2>6, Zenon
    <2> QED BY <2>1, <2>7
  <1> HIDE DEF S, Has
  <1>5. MkTop \in S
    <2>1. \A k \in 0 .. MkTop - 1 : k \in S => k + 1 \in S
      BY <1>4
    <2>2. \A k \in 0 .. MkTop : k \in S
      BY <1>0, <1>3, <2>1, EveryLevel
    <2> QED BY <1>0, <2>2
  <1>6. \E F : Is(F, MkDoc)
    <2>1. Has(MkTop)
      BY <1>5 DEF S
    <2> QED BY <2>1, Zenon DEF Has, MkDoc
  <1>7. MkLeaves = CHOOSE F : Is(F, MkDoc)
    BY DEF MkLeaves, Of
  <1> HIDE DEF Is
  <1>8. Is(MkLeaves, MkDoc)
    BY <1>6, <1>7, Zenon
  <1>9. MkLeaves = [d \in MkDoc |-> Of(MkLeaves, d)]
    BY <1>8 DEF Is
  <1>10. ASSUME NEW d \in MkDoc PROVE MkLeaves[d] = Of(MkLeaves, d)
    BY <1>9, Zenon
  <1> QED BY <1>10 DEF Of
\* How a document is redacted by the names of its fields (redactValue).
LEMMA Redacted ==
    \A d \in MkDoc :
             RedactValue[d] = CASE d.t = "obj" -> [t |-> "obj", e |-> {RedactField(x, RedactValue[x.d]) : x \in RedactNameValuePair(d.e)}]
                            [] d.t = "arr" -> [t |-> "arr", e |-> {RedactValue[x] : x \in d.e}]
                            [] OTHER -> d
  <1> DEFINE Of(F, d) == CASE d.t = "obj" -> [t |-> "obj", e |-> {RedactField(x, F[x.d]) : x \in RedactNameValuePair(d.e)}]
                               [] d.t = "arr" -> [t |-> "arr", e |-> {F[x] : x \in d.e}]
                               [] OTHER -> d
             Is(F, D) == F = [d \in D |-> Of(F, d)]
             Has(k) == \E F : Is(F, MkTree[k])
             S == {k \in 0 .. MkTop : Has(k)}
  <1>0. MkTop \in Nat
    BY Levels
  <1>1. ASSUME NEW d, NEW F, d.t = "leaf" PROVE Of(F, d) = d
    BY <1>1
  <1>2. ASSUME NEW n \in 0 .. MkTop, n # 0, NEW d \in MkTree[n], NEW F, NEW G, \A x \in MkTree[n - 1] : F[x] = G[x]
        PROVE  Of(F, d) = Of(G, d)
    <2>1. CASE d.t = "leaf"
      BY <2>1, <1>1
    <2>2. CASE d.t = "obj"
      <3>1. d.e \in SUBSET [k : MkField, d : MkTree[n - 1]]
        BY <2>2, Kinds
      <3>2. \A x \in d.e : F[x.d] = G[x.d]
        BY <1>2, <3>1
      <3>3. \A x \in RedactNameValuePair(d.e) : x.d = MkRedacted \/ x \in d.e
        BY DEF RedactNameValuePair
      <3>4. MkRedacted \in MkTree[n - 1]
        BY <1>2, PlaceholderBelow
      <3>5. \A x \in RedactNameValuePair(d.e) : F[x.d] = G[x.d]
        BY <1>2, <3>2, <3>3, <3>4
      <3>6. {RedactField(x, F[x.d]) : x \in RedactNameValuePair(d.e)}
            = {RedactField(x, G[x.d]) : x \in RedactNameValuePair(d.e)}
        BY <3>5
      <3> QED BY <2>2, <3>6
    <2>3. CASE d.t = "arr"
      <3>1. d.e \in SUBSET MkTree[n - 1]
        BY <2>3, Kinds
      <3>2. \A x \in d.e : F[x] = G[x]
        BY <1>2, <3>1
      <3> QED BY <2>3, <3>2
    <2> QED BY <2>1, <2>2, <2>3, Kinds
  <1>3. 0 \in S
    <2>1. \A d \in MkTree[0] : d.t = "leaf"
      BY Trees DEF MkLeafs
    <2> DEFINE F == [d \in MkTree[0] |-> d]
    <2>2. \A d \in MkTree[0] : Of(F, d) = d
      BY <1>1, <2>1
    <2> HIDE DEF Of
    <2>3. F = [d \in MkTree[0] |-> Of(F, d)]
      BY <2>2
    <2>4. Has(0)
      BY <2>3, Zenon
    <2> QED BY <1>0, <2>4
  <1> HIDE DEF Of
  <1>4. ASSUME NEW k \in 0 .. MkTop - 1, k \in S PROVE k + 1 \in S
    <2>1. k \in 0 .. MkTop /\ k + 1 \in 0 .. MkTop /\ k + 1 # 0 /\ (k + 1) - 1 = k
      BY <1>0
    <2>2. PICK F : Is(F, MkTree[k])
      BY <1>4, Zenon
    <2>3. MkTree[k] \subseteq MkTree[k + 1]
      BY <2>1, Growing
    <2> DEFINE H == [d \in MkTree[k + 1] |-> Of(F, d)]
    <2>4. \A x \in MkTree[k] : F[x] = H[x]
      <3>1. F = [d \in MkTree[k] |-> Of(F, d)]
        BY <2>2
      <3>2. ASSUME NEW x \in MkTree[k] PROVE F[x] = Of(F, x)
        BY <3>1, Zenon
      <3> QED BY <2>3, <3>2
    <2> HIDE DEF H
    <2>5. \A d \in MkTree[k + 1] : Of(F, d) = Of(H, d)
      <3>1. \A x \in MkTree[(k + 1) - 1] : F[x] = H[x]
        BY <2>1, <2>4
      <3> QED BY <1>2, <2>1, <3>1
    <2>6. H = [d \in MkTree[k + 1] |-> Of(H, d)]
      BY <2>5 DEF H
    <2>7. Has(k + 1)
      BY <2>6, Zenon
    <2> QED BY <2>1, <2>7
  <1> HIDE DEF S, Has
  <1>5. MkTop \in S
    <2>1. \A k \in 0 .. MkTop - 1 : k \in S => k + 1 \in S
      BY <1>4
    <2>2. \A k \in 0 .. MkTop : k \in S
      BY <1>0, <1>3, <2>1, EveryLevel
    <2> QED BY <1>0, <2>2
  <1>6. \E F : Is(F, MkDoc)
    <2>1. Has(MkTop)
      BY <1>5 DEF S
    <2> QED BY <2>1, Zenon DEF Has, MkDoc
  <1>7. RedactValue = CHOOSE F : Is(F, MkDoc)
    BY DEF RedactValue, Of
  <1> HIDE DEF Is
  <1>8. Is(RedactValue, MkDoc)
    BY <1>6, <1>7, Zenon
  <1>9. RedactValue = [d \in MkDoc |-> Of(RedactValue, d)]
    BY <1>8 DEF Is
  <1>10. ASSUME NEW d \in MkDoc PROVE RedactValue[d] = Of(RedactValue, d)
    BY <1>9, Zenon
  <1> QED BY <1>10 DEF Of
\* How content fields are removed (stripFields).
LEMMA Stripped ==
    \A d \in MkDoc :
             StripFields[d] = CASE d.t = "obj" -> [t |-> "obj", e |-> {[k |-> x.k, d |-> StripFields[x.d]] : x \in {y \in d.e : ~IsContentField(y.k)}}]
                            [] d.t = "arr" -> [t |-> "arr", e |-> {StripFields[x] : x \in d.e}]
                            [] OTHER -> d
  <1> DEFINE Of(F, d) == CASE d.t = "obj" -> [t |-> "obj", e |-> {[k |-> x.k, d |-> F[x.d]] : x \in {y \in d.e : ~IsContentField(y.k)}}]
                               [] d.t = "arr" -> [t |-> "arr", e |-> {F[x] : x \in d.e}]
                               [] OTHER -> d
             Is(F, D) == F = [d \in D |-> Of(F, d)]
             Has(k) == \E F : Is(F, MkTree[k])
             S == {k \in 0 .. MkTop : Has(k)}
  <1>0. MkTop \in Nat
    BY Levels
  <1>1. ASSUME NEW d, NEW F, d.t = "leaf" PROVE Of(F, d) = d
    BY <1>1
  <1>2. ASSUME NEW n \in 0 .. MkTop, n # 0, NEW d \in MkTree[n], NEW F, NEW G, \A x \in MkTree[n - 1] : F[x] = G[x]
        PROVE  Of(F, d) = Of(G, d)
    <2>1. CASE d.t = "leaf"
      BY <2>1, <1>1
    <2>2. CASE d.t = "obj"
      <3>1. d.e \in SUBSET [k : MkField, d : MkTree[n - 1]]
        BY <2>2, Kinds
      <3>2. \A x \in d.e : F[x.d] = G[x.d]
        BY <1>2, <3>1
      <3> QED BY <2>2, <3>2
    <2>3. CASE d.t = "arr"
      <3>1. d.e \in SUBSET MkTree[n - 1]
        BY <2>3, Kinds
      <3>2. \A x \in d.e : F[x] = G[x]
        BY <1>2, <3>1
      <3> QED BY <2>3, <3>2
    <2> QED BY <2>1, <2>2, <2>3, Kinds
  <1>3. 0 \in S
    <2>1. \A d \in MkTree[0] : d.t = "leaf"
      BY Trees DEF MkLeafs
    <2> DEFINE F == [d \in MkTree[0] |-> d]
    <2>2. \A d \in MkTree[0] : Of(F, d) = d
      BY <1>1, <2>1
    <2> HIDE DEF Of
    <2>3. F = [d \in MkTree[0] |-> Of(F, d)]
      BY <2>2
    <2>4. Has(0)
      BY <2>3, Zenon
    <2> QED BY <1>0, <2>4
  <1> HIDE DEF Of
  <1>4. ASSUME NEW k \in 0 .. MkTop - 1, k \in S PROVE k + 1 \in S
    <2>1. k \in 0 .. MkTop /\ k + 1 \in 0 .. MkTop /\ k + 1 # 0 /\ (k + 1) - 1 = k
      BY <1>0
    <2>2. PICK F : Is(F, MkTree[k])
      BY <1>4, Zenon
    <2>3. MkTree[k] \subseteq MkTree[k + 1]
      BY <2>1, Growing
    <2> DEFINE H == [d \in MkTree[k + 1] |-> Of(F, d)]
    <2>4. \A x \in MkTree[k] : F[x] = H[x]
      <3>1. F = [d \in MkTree[k] |-> Of(F, d)]
        BY <2>2
      <3>2. ASSUME NEW x \in MkTree[k] PROVE F[x] = Of(F, x)
        BY <3>1, Zenon
      <3> QED BY <2>3, <3>2
    <2> HIDE DEF H
    <2>5. \A d \in MkTree[k + 1] : Of(F, d) = Of(H, d)
      <3>1. \A x \in MkTree[(k + 1) - 1] : F[x] = H[x]
        BY <2>1, <2>4
      <3> QED BY <1>2, <2>1, <3>1
    <2>6. H = [d \in MkTree[k + 1] |-> Of(H, d)]
      BY <2>5 DEF H
    <2>7. Has(k + 1)
      BY <2>6, Zenon
    <2> QED BY <2>1, <2>7
  <1> HIDE DEF S, Has
  <1>5. MkTop \in S
    <2>1. \A k \in 0 .. MkTop - 1 : k \in S => k + 1 \in S
      BY <1>4
    <2>2. \A k \in 0 .. MkTop : k \in S
      BY <1>0, <1>3, <2>1, EveryLevel
    <2> QED BY <1>0, <2>2
  <1>6. \E F : Is(F, MkDoc)
    <2>1. Has(MkTop)
      BY <1>5 DEF S
    <2> QED BY <2>1, Zenon DEF Has, MkDoc
  <1>7. StripFields = CHOOSE F : Is(F, MkDoc)
    BY DEF StripFields, Of
  <1> HIDE DEF Is
  <1>8. Is(StripFields, MkDoc)
    BY <1>6, <1>7, Zenon
  <1>9. StripFields = [d \in MkDoc |-> Of(StripFields, d)]
    BY <1>8 DEF Is
  <1>10. ASSUME NEW d \in MkDoc PROVE StripFields[d] = Of(StripFields, d)
    BY <1>9, Zenon
  <1> QED BY <1>10 DEF Of
\* How content fields are labelled (labelFields).
LEMMA Labelled ==
    \A d \in MkDoc :
             LabelFields[d] = CASE d.t = "obj" -> [t |-> "obj", e |-> {IF IsContentField(x.k) THEN [k |-> "label", d |-> x.d] ELSE [k |-> x.k, d |-> LabelFields[x.d]] : x \in d.e}]
                            [] d.t = "arr" -> [t |-> "arr", e |-> {LabelFields[x] : x \in d.e}]
                            [] OTHER -> d
  <1> DEFINE Of(F, d) == CASE d.t = "obj" -> [t |-> "obj", e |-> {IF IsContentField(x.k) THEN [k |-> "label", d |-> x.d] ELSE [k |-> x.k, d |-> F[x.d]] : x \in d.e}]
                               [] d.t = "arr" -> [t |-> "arr", e |-> {F[x] : x \in d.e}]
                               [] OTHER -> d
             Is(F, D) == F = [d \in D |-> Of(F, d)]
             Has(k) == \E F : Is(F, MkTree[k])
             S == {k \in 0 .. MkTop : Has(k)}
  <1>0. MkTop \in Nat
    BY Levels
  <1>1. ASSUME NEW d, NEW F, d.t = "leaf" PROVE Of(F, d) = d
    BY <1>1
  <1>2. ASSUME NEW n \in 0 .. MkTop, n # 0, NEW d \in MkTree[n], NEW F, NEW G, \A x \in MkTree[n - 1] : F[x] = G[x]
        PROVE  Of(F, d) = Of(G, d)
    <2>1. CASE d.t = "leaf"
      BY <2>1, <1>1
    <2>2. CASE d.t = "obj"
      <3>1. d.e \in SUBSET [k : MkField, d : MkTree[n - 1]]
        BY <2>2, Kinds
      <3>2. \A x \in d.e : F[x.d] = G[x.d]
        BY <1>2, <3>1
      <3> QED BY <2>2, <3>2
    <2>3. CASE d.t = "arr"
      <3>1. d.e \in SUBSET MkTree[n - 1]
        BY <2>3, Kinds
      <3>2. \A x \in d.e : F[x] = G[x]
        BY <1>2, <3>1
      <3> QED BY <2>3, <3>2
    <2> QED BY <2>1, <2>2, <2>3, Kinds
  <1>3. 0 \in S
    <2>1. \A d \in MkTree[0] : d.t = "leaf"
      BY Trees DEF MkLeafs
    <2> DEFINE F == [d \in MkTree[0] |-> d]
    <2>2. \A d \in MkTree[0] : Of(F, d) = d
      BY <1>1, <2>1
    <2> HIDE DEF Of
    <2>3. F = [d \in MkTree[0] |-> Of(F, d)]
      BY <2>2
    <2>4. Has(0)
      BY <2>3, Zenon
    <2> QED BY <1>0, <2>4
  <1> HIDE DEF Of
  <1>4. ASSUME NEW k \in 0 .. MkTop - 1, k \in S PROVE k + 1 \in S
    <2>1. k \in 0 .. MkTop /\ k + 1 \in 0 .. MkTop /\ k + 1 # 0 /\ (k + 1) - 1 = k
      BY <1>0
    <2>2. PICK F : Is(F, MkTree[k])
      BY <1>4, Zenon
    <2>3. MkTree[k] \subseteq MkTree[k + 1]
      BY <2>1, Growing
    <2> DEFINE H == [d \in MkTree[k + 1] |-> Of(F, d)]
    <2>4. \A x \in MkTree[k] : F[x] = H[x]
      <3>1. F = [d \in MkTree[k] |-> Of(F, d)]
        BY <2>2
      <3>2. ASSUME NEW x \in MkTree[k] PROVE F[x] = Of(F, x)
        BY <3>1, Zenon
      <3> QED BY <2>3, <3>2
    <2> HIDE DEF H
    <2>5. \A d \in MkTree[k + 1] : Of(F, d) = Of(H, d)
      <3>1. \A x \in MkTree[(k + 1) - 1] : F[x] = H[x]
        BY <2>1, <2>4
      <3> QED BY <1>2, <2>1, <3>1
    <2>6. H = [d \in MkTree[k + 1] |-> Of(H, d)]
      BY <2>5 DEF H
    <2>7. Has(k + 1)
      BY <2>6, Zenon
    <2> QED BY <2>1, <2>7
  <1> HIDE DEF S, Has
  <1>5. MkTop \in S
    <2>1. \A k \in 0 .. MkTop - 1 : k \in S => k + 1 \in S
      BY <1>4
    <2>2. \A k \in 0 .. MkTop : k \in S
      BY <1>0, <1>3, <2>1, EveryLevel
    <2> QED BY <1>0, <2>2
  <1>6. \E F : Is(F, MkDoc)
    <2>1. Has(MkTop)
      BY <1>5 DEF S
    <2> QED BY <2>1, Zenon DEF Has, MkDoc
  <1>7. LabelFields = CHOOSE F : Is(F, MkDoc)
    BY DEF LabelFields, Of
  <1> HIDE DEF Is
  <1>8. Is(LabelFields, MkDoc)
    BY <1>6, <1>7, Zenon
  <1>9. LabelFields = [d \in MkDoc |-> Of(LabelFields, d)]
    BY <1>8 DEF Is
  <1>10. ASSUME NEW d \in MkDoc PROVE LabelFields[d] = Of(LabelFields, d)
    BY <1>9, Zenon
  <1> QED BY <1>10 DEF Of
\* How what looks like a secret is redacted wherever it is (redactInlineSecrets, applyClasses).
LEMMA Inline ==
    ASSUME NEW kinds
    PROVE  \A d \in MkDoc :
             RedactInline(d, kinds) = CASE d.t = "obj" -> [t |-> "obj", e |-> {[k |-> x.k, d |-> RedactInline(x.d, kinds)] : x \in d.e}]
                                    [] d.t = "arr" -> [t |-> "arr", e |-> {RedactInline(x, kinds) : x \in d.e}]
                                    [] OTHER -> IF d.v \in kinds THEN MkRedacted ELSE d
  <1> DEFINE Of(F, d) == CASE d.t = "obj" -> [t |-> "obj", e |-> {[k |-> x.k, d |-> F[x.d]] : x \in d.e}]
                               [] d.t = "arr" -> [t |-> "arr", e |-> {F[x] : x \in d.e}]
                               [] OTHER -> IF d.v \in kinds THEN MkRedacted ELSE d
             Is(F, D) == F = [d \in D |-> Of(F, d)]
             Has(k) == \E F : Is(F, MkTree[k])
             S == {k \in 0 .. MkTop : Has(k)}
  <1>0. MkTop \in Nat
    BY Levels
  <1>1. ASSUME NEW d, NEW F, d.t = "leaf" PROVE Of(F, d) = (IF d.v \in kinds THEN MkRedacted ELSE d)
    BY <1>1
  <1>2. ASSUME NEW n \in 0 .. MkTop, n # 0, NEW d \in MkTree[n], NEW F, NEW G, \A x \in MkTree[n - 1] : F[x] = G[x]
        PROVE  Of(F, d) = Of(G, d)
    <2>1. CASE d.t = "leaf"
      BY <2>1, <1>1
    <2>2. CASE d.t = "obj"
      <3>1. d.e \in SUBSET [k : MkField, d : MkTree[n - 1]]
        BY <2>2, Kinds
      <3>2. \A x \in d.e : F[x.d] = G[x.d]
        BY <1>2, <3>1
      <3> QED BY <2>2, <3>2
    <2>3. CASE d.t = "arr"
      <3>1. d.e \in SUBSET MkTree[n - 1]
        BY <2>3, Kinds
      <3>2. \A x \in d.e : F[x] = G[x]
        BY <1>2, <3>1
      <3> QED BY <2>3, <3>2
    <2> QED BY <2>1, <2>2, <2>3, Kinds
  <1>3. 0 \in S
    <2>1. \A d \in MkTree[0] : d.t = "leaf"
      BY Trees DEF MkLeafs
    <2> DEFINE F == [d \in MkTree[0] |-> (IF d.v \in kinds THEN MkRedacted ELSE d)]
    <2>2. \A d \in MkTree[0] : Of(F, d) = (IF d.v \in kinds THEN MkRedacted ELSE d)
      BY <1>1, <2>1
    <2> HIDE DEF Of
    <2>3. F = [d \in MkTree[0] |-> Of(F, d)]
      BY <2>2
    <2>4. Has(0)
      BY <2>3, Zenon
    <2> QED BY <1>0, <2>4
  <1> HIDE DEF Of
  <1>4. ASSUME NEW k \in 0 .. MkTop - 1, k \in S PROVE k + 1 \in S
    <2>1. k \in 0 .. MkTop /\ k + 1 \in 0 .. MkTop /\ k + 1 # 0 /\ (k + 1) - 1 = k
      BY <1>0
    <2>2. PICK F : Is(F, MkTree[k])
      BY <1>4, Zenon
    <2>3. MkTree[k] \subseteq MkTree[k + 1]
      BY <2>1, Growing
    <2> DEFINE H == [d \in MkTree[k + 1] |-> Of(F, d)]
    <2>4. \A x \in MkTree[k] : F[x] = H[x]
      <3>1. F = [d \in MkTree[k] |-> Of(F, d)]
        BY <2>2
      <3>2. ASSUME NEW x \in MkTree[k] PROVE F[x] = Of(F, x)
        BY <3>1, Zenon
      <3> QED BY <2>3, <3>2
    <2> HIDE DEF H
    <2>5. \A d \in MkTree[k + 1] : Of(F, d) = Of(H, d)
      <3>1. \A x \in MkTree[(k + 1) - 1] : F[x] = H[x]
        BY <2>1, <2>4
      <3> QED BY <1>2, <2>1, <3>1
    <2>6. H = [d \in MkTree[k + 1] |-> Of(H, d)]
      BY <2>5 DEF H
    <2>7. Has(k + 1)
      BY <2>6, Zenon
    <2> QED BY <2>1, <2>7
  <1> HIDE DEF S, Has
  <1>5. MkTop \in S
    <2>1. \A k \in 0 .. MkTop - 1 : k \in S => k + 1 \in S
      BY <1>4
    <2>2. \A k \in 0 .. MkTop : k \in S
      BY <1>0, <1>3, <2>1, EveryLevel
    <2> QED BY <1>0, <2>2
  <1>6. \E F : Is(F, MkDoc)
    <2>1. Has(MkTop)
      BY <1>5 DEF S
    <2> QED BY <2>1, Zenon DEF Has, MkDoc
  <1> DEFINE R == CHOOSE F : Is(F, MkDoc)
  <1>7. \A doc : RedactInline(doc, kinds) = R[doc]
    BY DEF RedactInline, Of
  <1> HIDE DEF Is
  <1>8. Is(R, MkDoc)
    BY <1>6, Zenon
  <1> HIDE DEF R
  <1>9. R = [d \in MkDoc |-> Of(R, d)]
    BY <1>8 DEF Is
  <1>10. ASSUME NEW d \in MkDoc PROVE R[d] = Of(R, d)
    BY <1>9, Zenon
  <1>11. \A d : /\ {[k |-> x.k, d |-> R[x.d]] : x \in d.e} = {[k |-> x.k, d |-> RedactInline(x.d, kinds)] : x \in d.e}
               /\ {R[x] : x \in d.e} = {RedactInline(x, kinds) : x \in d.e}
    BY <1>7
  <1> QED BY <1>7, <1>10, <1>11 DEF Of

\* A leaf whose names hide a secret, and a leaf that comes from another: no name that
\* hides a secret is new, and the value is as it was or redacted.
MkSecret(l) == MkSensitive(l.above \cup l.by)
MkFrom(l2, l1) == (MkSecret(l2) => MkSecret(l1)) /\ l2.v \in {l1.v, "redacted"}
MkDescends(d2, d1) == \A l2 \in MkLeaves[d2] : \E l1 \in MkLeaves[d1] : MkFrom(l2, l1)
\* What the fields of an object must be for the object to come from another.
MkComes(x2, x1) == /\ x2.k \in {x1.k, "label"} /\ MkDescends(x2.d, x1.d)
                   /\ x2.d.t = "leaf" => x1.d.t = "leaf" /\ x2.d.v \in {x1.d.v, "redacted"}
\* The names that a field of an object puts above its value, or next to it.
MkCalled(x, fields) == MkSensitive({x.k}) \/ (x.k = "value" /\ MkSensitive(MkNames(fields)))
MkClean(d) == \A l \in MkLeaves[d] : MkSecret(l) => l.v \in MkSafe
MkFree(d, kinds) == \A l \in MkLeaves[d] : l.v \notin kinds
MkMarked(d) == \A l \in MkLeaves[d] : (\E k \in l.above : IsContentField(k)) => "label" \in l.above

\* Names hide a secret when one of them does.
LEMMA SensitiveParts ==
    ASSUME NEW A, NEW B
    PROVE  MkSensitive(A \cup B) <=> MkSensitive(A) \/ MkSensitive(B)
  BY DEF MkSensitive

\* The label and the placeholder are no such names.
LEMMA NotSensitive == ~MkSensitive({}) /\ ~MkSensitive({"label"}) /\ ~MkSensitive({"redacted"})
  <1>1. \A n \in {"redacted", "label"} \cap DOMAIN MkName : ~IsSensitiveKey(n)
    BY MaskingAssumption
  <1> QED BY <1>1 DEF MkSensitive, IsSensitiveKey

\* A leaf of an object hides a secret by the names above it in its field, by the name of
\* the field, or by the name the object gives its value.
LEMMA UnderField ==
    ASSUME NEW L, NEW x, NEW fields, NEW l \in MkUnder(L, x, fields)
    PROVE  \E m \in L : /\ l.v = m.v /\ l.above = m.above \cup {x.k}
                        /\ MkSecret(l) <=> MkSecret(m) \/ MkCalled(x, fields)
  <1> DEFINE by == IF x.k = "value" THEN MkNames(fields) ELSE {}
  <1>1. PICK m \in L : l = [above |-> m.above \cup {x.k}, by |-> m.by \cup by, v |-> m.v]
    BY DEF MkUnder
  <1>2. MkSensitive(by) <=> x.k = "value" /\ MkSensitive(MkNames(fields))
    BY NotSensitive
  <1> HIDE DEF by
  <1>3. l.above \cup l.by = (m.above \cup m.by) \cup ({x.k} \cup by)
    BY <1>1
  <1>4. MkSecret(l) <=> MkSensitive(m.above \cup m.by) \/ MkSensitive({x.k} \cup by)
    BY <1>3, SensitiveParts DEF MkSecret
  <1>5. MkSensitive({x.k} \cup by) <=> MkSensitive({x.k}) \/ MkSensitive(by)
    BY SensitiveParts
  <1> QED BY <1>1, <1>2, <1>4, <1>5 DEF MkSecret, MkCalled

\* And the other way round: every leaf of a field is one of the object.
LEMMA FieldUnder ==
    ASSUME NEW L, NEW x, NEW fields, NEW m \in L
    PROVE  \E l \in MkUnder(L, x, fields) :
              /\ l.v = m.v /\ l.above = m.above \cup {x.k}
              /\ MkSecret(l) <=> MkSecret(m) \/ MkCalled(x, fields)
  <1> DEFINE by == IF x.k = "value" THEN MkNames(fields) ELSE {}
             l == [above |-> m.above \cup {x.k}, by |-> m.by \cup by, v |-> m.v]
  <1>1. l \in MkUnder(L, x, fields) /\ l.v = m.v /\ l.above = m.above \cup {x.k}
    BY DEF MkUnder
  <1>2. MkSensitive(by) <=> x.k = "value" /\ MkSensitive(MkNames(fields))
    BY NotSensitive
  <1>3. l.above \cup l.by = (m.above \cup m.by) \cup ({x.k} \cup by)
    OBVIOUS
  <1> HIDE DEF by, l
  <1>4. MkSecret(l) <=> MkSensitive(m.above \cup m.by) \/ MkSensitive({x.k} \cup by)
    BY <1>3, SensitiveParts DEF MkSecret
  <1>5. MkSensitive({x.k} \cup by) <=> MkSensitive({x.k}) \/ MkSensitive(by)
    BY SensitiveParts
  <1> QED BY <1>1, <1>2, <1>4, <1>5 DEF MkSecret, MkCalled

\* The leaves of an object, of an array, of a leaf.
LEMMA LeavesOf ==
    ASSUME NEW d \in MkDoc
    PROVE  /\ d.t = "obj" => MkLeaves[d] = UNION {MkUnder(MkLeaves[x.d], x, d.e) : x \in d.e}
           /\ d.t = "arr" => MkLeaves[d] = UNION {MkLeaves[x] : x \in d.e}
           /\ d.t = "leaf" => MkLeaves[d] = {[above |-> {}, by |-> {}, v |-> d.v]}
  BY Leaves

\* No object gives its values names that hide a secret, unless the one it comes from did.
LEMMA NamesCome ==
    ASSUME NEW e1, NEW e2, \A x2 \in e2 : \E x1 \in e1 : MkComes(x2, x1), MkSensitive(MkNames(e2))
    PROVE  MkSensitive(MkNames(e1))
  <1>1. PICK n \in MkNames(e2) : MkSensitive({n})
    BY DEF MkSensitive
  <1>2. PICK x2 \in e2 : x2.k = "name" /\ x2.d.t = "leaf" /\ n = x2.d.v
    BY DEF MkNames
  <1>3. PICK x1 \in e1 : MkComes(x2, x1)
    OBVIOUS
  <1>4. x1.k = "name" /\ x1.d.t = "leaf" /\ x1.d.v = n
    BY <1>1, <1>2, <1>3, NotSensitive DEF MkComes
  <1>5. n \in MkNames(e1)
    BY <1>4 DEF MkNames
  <1> QED BY <1>1, <1>5 DEF MkSensitive

\* An object comes from another when its fields do.
LEMMA ObjectDescends ==
    ASSUME NEW d1 \in MkDoc, NEW d2 \in MkDoc, d1.t = "obj", d2.t = "obj",
           \A x2 \in d2.e : \E x1 \in d1.e : MkComes(x2, x1)
    PROVE  MkDescends(d2, d1)
  <1> SUFFICES ASSUME NEW l2 \in MkLeaves[d2] PROVE \E l1 \in MkLeaves[d1] : MkFrom(l2, l1)
    BY DEF MkDescends
  <1>1. PICK x2 \in d2.e : l2 \in MkUnder(MkLeaves[x2.d], x2, d2.e)
    BY LeavesOf
  <1>2. PICK m2 \in MkLeaves[x2.d] :
             /\ l2.v = m2.v /\ l2.above = m2.above \cup {x2.k}
             /\ MkSecret(l2) <=> MkSecret(m2) \/ MkCalled(x2, d2.e)
    BY <1>1, UnderField
  <1>3. PICK x1 \in d1.e : MkComes(x2, x1)
    OBVIOUS
  <1>4. PICK m1 \in MkLeaves[x1.d] : MkFrom(m2, m1)
    BY <1>3 DEF MkComes, MkDescends
  <1>5. PICK l1 \in MkUnder(MkLeaves[x1.d], x1, d1.e) :
             /\ l1.v = m1.v
             /\ MkSecret(l1) <=> MkSecret(m1) \/ MkCalled(x1, d1.e)
    BY FieldUnder
  <1>6. l1 \in MkLeaves[d1]
    BY LeavesOf
  <1>7. MkSensitive(MkNames(d2.e)) => MkSensitive(MkNames(d1.e))
    BY NamesCome
  <1>8. MkSensitive({x2.k}) => x2.k = x1.k
    BY <1>3, NotSensitive DEF MkComes
  <1>9. x2.k = "value" => x2.k = x1.k
    BY <1>3 DEF MkComes
  <1>10. MkFrom(l2, l1)
    BY <1>2, <1>4, <1>5, <1>7, <1>8, <1>9 DEF MkFrom, MkCalled
  <1> QED BY <1>6, <1>10

\* An array comes from another when its items do.
LEMMA ArrayDescends ==
    ASSUME NEW d1 \in MkDoc, NEW d2 \in MkDoc, d1.t = "arr", d2.t = "arr",
           \A x2 \in d2.e : \E x1 \in d1.e : MkDescends(x2, x1)
    PROVE  MkDescends(d2, d1)
  <1> SUFFICES ASSUME NEW l2 \in MkLeaves[d2] PROVE \E l1 \in MkLeaves[d1] : MkFrom(l2, l1)
    BY DEF MkDescends
  <1>1. PICK x2 \in d2.e : l2 \in MkLeaves[x2]
    BY LeavesOf
  <1>2. PICK x1 \in d1.e : MkDescends(x2, x1)
    OBVIOUS
  <1>3. PICK l1 \in MkLeaves[x1] : MkFrom(l2, l1)
    BY <1>1, <1>2 DEF MkDescends
  <1>4. l1 \in MkLeaves[d1]
    BY LeavesOf
  <1> QED BY <1>3, <1>4

\* A document comes from itself.
LEMMA DescendsItself == \A d : MkDescends(d, d)
  BY DEF MkDescends, MkFrom

\* What comes from a clean document is clean, and has no more secrets of a known format.
LEMMA DescendsClean ==
    ASSUME NEW d1, NEW d2, MkDescends(d2, d1), NEW kinds, "redacted" \notin kinds
    PROVE  (MkClean(d1) => MkClean(d2)) /\ (MkFree(d1, kinds) => MkFree(d2, kinds))
  BY DEF MkDescends, MkClean, MkFree, MkFrom, MkSafe

\* The value of a document that is a leaf is the value of its only leaf.
LEMMA LeafValue ==
    ASSUME NEW d \in MkDoc, d.t = "leaf", NEW l \in MkLeaves[d]
    PROVE  l.v = d.v /\ ~MkSecret(l)
  <1>1. l = [above |-> {}, by |-> {}, v |-> d.v]
    BY LeavesOf
  <1>2. l.v = d.v /\ l.above \cup l.by = {}
    BY <1>1
  <1> QED BY <1>2, NotSensitive DEF MkSecret

\* What redaction of a known format leaves of a document.
LEMMA InlineLeaves ==
    ASSUME NEW kinds, "redacted" \notin kinds, NEW n \in 0 .. MkTop, NEW d \in MkTree[n]
    PROVE  /\ RedactInline(d, kinds) \in MkTree[n] /\ MkDescends(RedactInline(d, kinds), d)
           /\ MkFree(RedactInline(d, kinds), kinds)
  <1> DEFINE R(x) == RedactInline(x, kinds)
             Good(x, k) == /\ R(x) \in MkTree[k] /\ MkDescends(R(x), x) /\ MkFree(R(x), kinds)
                           /\ R(x).t = "leaf" => x.t = "leaf" /\ R(x).v \in {x.v, "redacted"}
             S == {k \in 0 .. MkTop : \A x \in MkTree[k] : Good(x, k)}
  <1>0. MkTop \in Nat
    BY Levels
  <1>1. ASSUME NEW k \in 0 .. MkTop, NEW x \in MkTree[k], x.t = "leaf" PROVE Good(x, k)
    <2>1. x \in MkLeafs /\ x \in MkDoc /\ MkLeafs \subseteq MkTree[k] /\ MkTree[k] \subseteq MkDoc
      BY <1>1, Kinds, Growing
    <2>2. R(x) = IF x.v \in kinds THEN MkRedacted ELSE x
      BY <1>1, <2>1, Inline
    <2>3. R(x) \in MkLeafs /\ R(x).t = "leaf" /\ R(x).v = IF x.v \in kinds THEN "redacted" ELSE x.v
      BY <1>1, <2>1, <2>2, Levels DEF MkLeafs, MkRedacted, MkLeaf
    <2> HIDE DEF R
    <2>4. /\ MkLeaves[R(x)] = {[above |-> {}, by |-> {}, v |-> R(x).v]}
          /\ MkLeaves[x] = {[above |-> {}, by |-> {}, v |-> x.v]}
      BY <1>1, <2>1, <2>3, LeavesOf
    <2>5. MkDescends(R(x), x)
      <3>1. \A l \in MkLeaves[R(x)] : l.v = R(x).v /\ ~MkSecret(l)
        BY <1>1, <2>1, <2>3, LeafValue
      <3>2. \E l \in MkLeaves[x] : l.v = x.v
        BY <2>4
      <3> QED BY <2>3, <3>1, <3>2 DEF MkDescends, MkFrom
    <2>6. MkFree(R(x), kinds)
      BY <2>3, <2>4 DEF MkFree
    <2> QED BY <1>1, <2>1, <2>3, <2>5, <2>6
  <1>2. 0 \in S
    <2>1. \A x \in MkTree[0] : x.t = "leaf"
      BY Trees DEF MkLeafs
    <2>2. 0 \in 0 .. MkTop
      BY <1>0
    <2> HIDE DEF Good
    <2> QED BY <1>1, <2>1, <2>2
  <1>3. ASSUME NEW k \in 0 .. MkTop - 1, k \in S PROVE k + 1 \in S
    <2>1. k \in 0 .. MkTop /\ k + 1 \in 0 .. MkTop /\ k + 1 # 0 /\ (k + 1) - 1 = k
      BY <1>0
    <2>2. \A x \in MkTree[k] : Good(x, k)
      BY <1>3
    <2>3. ASSUME NEW x \in MkTree[k + 1], x.t = "obj" PROVE Good(x, k + 1)
      <3>1. x \in MkDoc /\ x.e \in SUBSET [k : MkField, d : MkTree[k]]
        <4>1. x.e \in SUBSET [k : MkField, d : MkTree[(k + 1) - 1]]
          BY <2>1, <2>3, Kinds
        <4> QED BY <2>1, <4>1, Growing
      <3> DEFINE e2 == {[k |-> y.k, d |-> R(y.d)] : y \in x.e}
      <3>2. R(x) = [t |-> "obj", e |-> e2]
        BY <2>3, <3>1, Inline
      <3>3. \A y \in x.e : y.d \in MkTree[k] /\ Good(y.d, k)
        BY <2>2, <3>1
      <3>4. e2 \in SUBSET [k : MkField, d : MkTree[k]]
        BY <3>1, <3>3
      <3>5. R(x) \in MkTree[k + 1] /\ R(x) \in MkDoc
        <4>1. [t |-> "obj", e |-> e2] \in MkTree[k + 1]
          <5> HIDE DEF e2
          <5> QED BY <2>1, <3>4, Made
        <4>2. MkTree[k + 1] \subseteq MkDoc
          BY <2>1, Growing
        <4>3. R(x) \in MkTree[k + 1]
          BY <3>2, <4>1, Zenon
        <4> QED BY <4>2, <4>3, Zenon
      <3>6. \A y2 \in e2 : \E y \in x.e : MkComes(y2, y) /\ MkFree(y2.d, kinds)
        BY <3>3 DEF MkComes
      <3>7. R(x).t = "obj" /\ R(x).e = e2
        BY <3>2
      <3> HIDE DEF R, e2
      <3>8. MkDescends(R(x), x)
        BY <2>3, <3>1, <3>5, <3>6, <3>7, ObjectDescends
      <3>9. MkFree(R(x), kinds)
        <4> SUFFICES ASSUME NEW l \in MkLeaves[R(x)] PROVE l.v \notin kinds
          BY DEF MkFree
        <4>1. PICK y2 \in e2 : l \in MkUnder(MkLeaves[y2.d], y2, e2)
          BY <3>5, <3>7, LeavesOf
        <4>2. PICK m \in MkLeaves[y2.d] : l.v = m.v
          BY <4>1, UnderField
        <4> QED BY <3>6, <4>2 DEF MkFree
      <3> QED BY <3>5, <3>7, <3>8, <3>9
    <2>4. ASSUME NEW x \in MkTree[k + 1], x.t = "arr" PROVE Good(x, k + 1)
      <3>1. x \in MkDoc /\ x.e \in SUBSET MkTree[k]
        <4>1. x.e \in SUBSET MkTree[(k + 1) - 1]
          BY <2>1, <2>4, Kinds
        <4> QED BY <2>1, <4>1, Growing
      <3> DEFINE e2 == {R(y) : y \in x.e}
      <3>2. R(x) = [t |-> "arr", e |-> e2]
        BY <2>4, <3>1, Inline
      <3>3. \A y \in x.e : y \in MkTree[k] /\ Good(y, k)
        BY <2>2, <3>1
      <3>4. e2 \in SUBSET MkTree[k]
        BY <3>3
      <3>5. R(x) \in MkTree[k + 1] /\ R(x) \in MkDoc
        <4>1. [t |-> "arr", e |-> e2] \in MkTree[k + 1]
          <5> HIDE DEF e2
          <5> QED BY <2>1, <3>4, Made
        <4>2. MkTree[k + 1] \subseteq MkDoc
          BY <2>1, Growing
        <4>3. R(x) \in MkTree[k + 1]
          BY <3>2, <4>1, Zenon
        <4> QED BY <4>2, <4>3, Zenon
      <3>6. \A y2 \in e2 : \E y \in x.e : MkDescends(y2, y) /\ MkFree(y2, kinds)
        BY <3>3
      <3>7. R(x).t = "arr" /\ R(x).e = e2
        BY <3>2
      <3> HIDE DEF R, e2
      <3>8. MkDescends(R(x), x)
        BY <2>4, <3>1, <3>5, <3>6, <3>7, ArrayDescends
      <3>9. MkFree(R(x), kinds)
        BY <3>5, <3>6, <3>7, LeavesOf DEF MkFree
      <3> QED BY <3>5, <3>7, <3>8, <3>9
    <2> HIDE DEF Good
    <2>5. ASSUME NEW x \in MkTree[k + 1] PROVE Good(x, k + 1)
      BY <1>1, <2>1, <2>3, <2>4, Kinds
    <2> QED BY <2>1, <2>5
  <1> HIDE DEF S
  <1>4. n \in S
    <2>1. \A k \in 0 .. MkTop - 1 : k \in S => k + 1 \in S
      BY <1>3
    <2> QED BY <1>0, <1>2, <2>1, EveryLevel
  <1> QED BY <1>4 DEF S

\* An object whose fields are labels, or hold content only below a label.
LEMMA ObjectMarked ==
    ASSUME NEW d \in MkDoc, d.t = "obj",
           \A x \in d.e : x.k = "label" \/ (~IsContentField(x.k) /\ MkMarked(x.d))
    PROVE  MkMarked(d)
  <1> SUFFICES ASSUME NEW l \in MkLeaves[d], NEW k \in l.above, IsContentField(k) PROVE "label" \in l.above
    BY DEF MkMarked
  <1>1. PICK x \in d.e : l \in MkUnder(MkLeaves[x.d], x, d.e)
    BY LeavesOf
  <1>2. PICK m \in MkLeaves[x.d] : l.above = m.above \cup {x.k}
    BY <1>1, UnderField
  <1>3. CASE x.k = "label"
    BY <1>2, <1>3
  <1>4. CASE ~IsContentField(x.k) /\ MkMarked(x.d)
    BY <1>2, <1>4 DEF MkMarked
  <1> QED BY <1>3, <1>4

\* What is left of a document without its content fields.
LEMMA StripLeaves ==
    ASSUME NEW n \in 0 .. MkTop, NEW d \in MkTree[n]
    PROVE  /\ StripFields[d] \in MkTree[n] /\ MkDescends(StripFields[d], d)
           /\ MkMarked(StripFields[d])
  <1> DEFINE R(x) == StripFields[x]
             Good(x, k) == /\ R(x) \in MkTree[k] /\ MkDescends(R(x), x) /\ MkMarked(R(x))
                           /\ R(x).t = "leaf" => x.t = "leaf" /\ R(x).v \in {x.v, "redacted"}
             S == {k \in 0 .. MkTop : \A x \in MkTree[k] : Good(x, k)}
  <1>0. MkTop \in Nat
    BY Levels
  <1>1. ASSUME NEW k \in 0 .. MkTop, NEW x \in MkTree[k], x.t = "leaf" PROVE Good(x, k)
    <2>1. x \in MkLeafs /\ x \in MkDoc /\ MkLeafs \subseteq MkTree[k] /\ MkTree[k] \subseteq MkDoc
      BY <1>1, Kinds, Growing
    <2>3. R(x) = x
      BY <1>1, <2>1, Stripped
    <2> HIDE DEF R
    <2>4. /\ MkLeaves[R(x)] = {[above |-> {}, by |-> {}, v |-> R(x).v]}
          /\ MkLeaves[x] = {[above |-> {}, by |-> {}, v |-> x.v]}
      BY <1>1, <2>1, <2>3, LeavesOf
    <2>5. MkDescends(R(x), x)
      BY <2>3, DescendsItself
    <2>6. MkMarked(R(x))
      BY <2>3, <2>4 DEF MkMarked
    <2> QED BY <1>1, <2>1, <2>3, <2>5, <2>6
  <1>2. 0 \in S
    <2>1. \A x \in MkTree[0] : x.t = "leaf"
      BY Trees DEF MkLeafs
    <2>2. 0 \in 0 .. MkTop
      BY <1>0
    <2> HIDE DEF Good
    <2> QED BY <1>1, <2>1, <2>2
  <1>3. ASSUME NEW k \in 0 .. MkTop - 1, k \in S PROVE k + 1 \in S
    <2>1. k \in 0 .. MkTop /\ k + 1 \in 0 .. MkTop /\ k + 1 # 0 /\ (k + 1) - 1 = k
      BY <1>0
    <2>2. \A x \in MkTree[k] : Good(x, k)
      BY <1>3
    <2>3. ASSUME NEW x \in MkTree[k + 1], x.t = "obj" PROVE Good(x, k + 1)
      <3>1. x \in MkDoc /\ x.e \in SUBSET [k : MkField, d : MkTree[k]]
        <4>1. x.e \in SUBSET [k : MkField, d : MkTree[(k + 1) - 1]]
          BY <2>1, <2>3, Kinds
        <4> QED BY <2>1, <4>1, Growing
      <3> DEFINE e2 == {[k |-> y.k, d |-> R(y.d)] : y \in {z \in x.e : ~IsContentField(z.k)}}
      <3>2. R(x) = [t |-> "obj", e |-> e2]
        BY <2>3, <3>1, Stripped
      <3>3. \A y \in x.e : y.d \in MkTree[k] /\ Good(y.d, k)
        BY <2>2, <3>1
      <3>4. e2 \in SUBSET [k : MkField, d : MkTree[k]]
        BY <3>1, <3>3
      <3>5. R(x) \in MkTree[k + 1] /\ R(x) \in MkDoc
        <4>1. [t |-> "obj", e |-> e2] \in MkTree[k + 1]
          <5> HIDE DEF e2
          <5> QED BY <2>1, <3>4, Made
        <4>2. MkTree[k + 1] \subseteq MkDoc
          BY <2>1, Growing
        <4>3. R(x) \in MkTree[k + 1]
          BY <3>2, <4>1, Zenon
        <4> QED BY <4>2, <4>3, Zenon
      <3>6. \A y2 \in e2 : /\ \E y \in x.e : MkComes(y2, y)
                           /\ y2.k = "label" \/ (~IsContentField(y2.k) /\ MkMarked(y2.d))
        BY <3>3 DEF MkComes
      <3>7. R(x).t = "obj" /\ R(x).e = e2
        BY <3>2
      <3> HIDE DEF R, e2
      <3>8. MkDescends(R(x), x)
        BY <2>3, <3>1, <3>5, <3>6, <3>7, ObjectDescends
      <3>9. MkMarked(R(x))
        BY <3>5, <3>6, <3>7, ObjectMarked
      <3> QED BY <3>5, <3>7, <3>8, <3>9
    <2>4. ASSUME NEW x \in MkTree[k + 1], x.t = "arr" PROVE Good(x, k + 1)
      <3>1. x \in MkDoc /\ x.e \in SUBSET MkTree[k]
        <4>1. x.e \in SUBSET MkTree[(k + 1) - 1]
          BY <2>1, <2>4, Kinds
        <4> QED BY <2>1, <4>1, Growing
      <3> DEFINE e2 == {R(y) : y \in x.e}
      <3>2. R(x) = [t |-> "arr", e |-> e2]
        BY <2>4, <3>1, Stripped
      <3>3. \A y \in x.e : y \in MkTree[k] /\ Good(y, k)
        BY <2>2, <3>1
      <3>4. e2 \in SUBSET MkTree[k]
        BY <3>3
      <3>5. R(x) \in MkTree[k + 1] /\ R(x) \in MkDoc
        <4>1. [t |-> "arr", e |-> e2] \in MkTree[k + 1]
          <5> HIDE DEF e2
          <5> QED BY <2>1, <3>4, Made
        <4>2. MkTree[k + 1] \subseteq MkDoc
          BY <2>1, Growing
        <4>3. R(x) \in MkTree[k + 1]
          BY <3>2, <4>1, Zenon
        <4> QED BY <4>2, <4>3, Zenon
      <3>6. \A y2 \in e2 : \E y \in x.e : MkDescends(y2, y) /\ MkMarked(y2)
        BY <3>3
      <3>7. R(x).t = "arr" /\ R(x).e = e2
        BY <3>2
      <3> HIDE DEF R, e2
      <3>8. MkDescends(R(x), x)
        BY <2>4, <3>1, <3>5, <3>6, <3>7, ArrayDescends
      <3>9. MkMarked(R(x))
        BY <3>5, <3>6, <3>7, LeavesOf DEF MkMarked
      <3> QED BY <3>5, <3>7, <3>8, <3>9
    <2> HIDE DEF Good
    <2>5. ASSUME NEW x \in MkTree[k + 1] PROVE Good(x, k + 1)
      BY <1>1, <2>1, <2>3, <2>4, Kinds
    <2> QED BY <2>1, <2>5
  <1> HIDE DEF S
  <1>4. n \in S
    <2>1. \A k \in 0 .. MkTop - 1 : k \in S => k + 1 \in S
      BY <1>3
    <2> QED BY <1>0, <1>2, <2>1, EveryLevel
  <1> QED BY <1>4 DEF S

\* What is left of a document whose content fields are labelled.
LEMMA LabelLeaves ==
    ASSUME NEW n \in 0 .. MkTop, NEW d \in MkTree[n]
    PROVE  /\ LabelFields[d] \in MkTree[n] /\ MkDescends(LabelFields[d], d)
           /\ MkMarked(LabelFields[d])
  <1> DEFINE R(x) == LabelFields[x]
             Good(x, k) == /\ R(x) \in MkTree[k] /\ MkDescends(R(x), x) /\ MkMarked(R(x))
                           /\ R(x).t = "leaf" => x.t = "leaf" /\ R(x).v \in {x.v, "redacted"}
             S == {k \in 0 .. MkTop : \A x \in MkTree[k] : Good(x, k)}
  <1>0. MkTop \in Nat
    BY Levels
  <1>1. ASSUME NEW k \in 0 .. MkTop, NEW x \in MkTree[k], x.t = "leaf" PROVE Good(x, k)
    <2>1. x \in MkLeafs /\ x \in MkDoc /\ MkLeafs \subseteq MkTree[k] /\ MkTree[k] \subseteq MkDoc
      BY <1>1, Kinds, Growing
    <2>3. R(x) = x
      BY <1>1, <2>1, Labelled
    <2> HIDE DEF R
    <2>4. /\ MkLeaves[R(x)] = {[above |-> {}, by |-> {}, v |-> R(x).v]}
          /\ MkLeaves[x] = {[above |-> {}, by |-> {}, v |-> x.v]}
      BY <1>1, <2>1, <2>3, LeavesOf
    <2>5. MkDescends(R(x), x)
      BY <2>3, DescendsItself
    <2>6. MkMarked(R(x))
      BY <2>3, <2>4 DEF MkMarked
    <2> QED BY <1>1, <2>1, <2>3, <2>5, <2>6
  <1>2. 0 \in S
    <2>1. \A x \in MkTree[0] : x.t = "leaf"
      BY Trees DEF MkLeafs
    <2>2. 0 \in 0 .. MkTop
      BY <1>0
    <2> HIDE DEF Good
    <2> QED BY <1>1, <2>1, <2>2
  <1>3. ASSUME NEW k \in 0 .. MkTop - 1, k \in S PROVE k + 1 \in S
    <2>1. k \in 0 .. MkTop /\ k + 1 \in 0 .. MkTop /\ k + 1 # 0 /\ (k + 1) - 1 = k
      BY <1>0
    <2>2. \A x \in MkTree[k] : Good(x, k)
      BY <1>3
    <2>3. ASSUME NEW x \in MkTree[k + 1], x.t = "obj" PROVE Good(x, k + 1)
      <3>1. x \in MkDoc /\ x.e \in SUBSET [k : MkField, d : MkTree[k]]
        <4>1. x.e \in SUBSET [k : MkField, d : MkTree[(k + 1) - 1]]
          BY <2>1, <2>3, Kinds
        <4> QED BY <2>1, <4>1, Growing
      <3> DEFINE e2 == {IF IsContentField(y.k) THEN [k |-> "label", d |-> y.d] ELSE [k |-> y.k, d |-> R(y.d)] : y \in x.e}
      <3>2. R(x) = [t |-> "obj", e |-> e2]
        BY <2>3, <3>1, Labelled
      <3>3. \A y \in x.e : y.d \in MkTree[k] /\ Good(y.d, k)
        BY <2>2, <3>1
      <3>4. e2 \in SUBSET [k : MkField, d : MkTree[k]]
        BY <3>1, <3>3, Levels
      <3>5. R(x) \in MkTree[k + 1] /\ R(x) \in MkDoc
        <4>1. [t |-> "obj", e |-> e2] \in MkTree[k + 1]
          <5> HIDE DEF e2
          <5> QED BY <2>1, <3>4, Made
        <4>2. MkTree[k + 1] \subseteq MkDoc
          BY <2>1, Growing
        <4>3. R(x) \in MkTree[k + 1]
          BY <3>2, <4>1, Zenon
        <4> QED BY <4>2, <4>3, Zenon
      <3>6. \A y2 \in e2 : /\ \E y \in x.e : MkComes(y2, y)
                           /\ y2.k = "label" \/ (~IsContentField(y2.k) /\ MkMarked(y2.d))
        BY <3>3, DescendsItself DEF MkComes
      <3>7. R(x).t = "obj" /\ R(x).e = e2
        BY <3>2
      <3> HIDE DEF R, e2
      <3>8. MkDescends(R(x), x)
        BY <2>3, <3>1, <3>5, <3>6, <3>7, ObjectDescends
      <3>9. MkMarked(R(x))
        BY <3>5, <3>6, <3>7, ObjectMarked
      <3> QED BY <3>5, <3>7, <3>8, <3>9
    <2>4. ASSUME NEW x \in MkTree[k + 1], x.t = "arr" PROVE Good(x, k + 1)
      <3>1. x \in MkDoc /\ x.e \in SUBSET MkTree[k]
        <4>1. x.e \in SUBSET MkTree[(k + 1) - 1]
          BY <2>1, <2>4, Kinds
        <4> QED BY <2>1, <4>1, Growing
      <3> DEFINE e2 == {R(y) : y \in x.e}
      <3>2. R(x) = [t |-> "arr", e |-> e2]
        BY <2>4, <3>1, Labelled
      <3>3. \A y \in x.e : y \in MkTree[k] /\ Good(y, k)
        BY <2>2, <3>1
      <3>4. e2 \in SUBSET MkTree[k]
        BY <3>3
      <3>5. R(x) \in MkTree[k + 1] /\ R(x) \in MkDoc
        <4>1. [t |-> "arr", e |-> e2] \in MkTree[k + 1]
          <5> HIDE DEF e2
          <5> QED BY <2>1, <3>4, Made
        <4>2. MkTree[k + 1] \subseteq MkDoc
          BY <2>1, Growing
        <4>3. R(x) \in MkTree[k + 1]
          BY <3>2, <4>1, Zenon
        <4> QED BY <4>2, <4>3, Zenon
      <3>6. \A y2 \in e2 : \E y \in x.e : MkDescends(y2, y) /\ MkMarked(y2)
        BY <3>3
      <3>7. R(x).t = "arr" /\ R(x).e = e2
        BY <3>2
      <3> HIDE DEF R, e2
      <3>8. MkDescends(R(x), x)
        BY <2>4, <3>1, <3>5, <3>6, <3>7, ArrayDescends
      <3>9. MkMarked(R(x))
        BY <3>5, <3>6, <3>7, LeavesOf DEF MkMarked
      <3> QED BY <3>5, <3>7, <3>8, <3>9
    <2> HIDE DEF Good
    <2>5. ASSUME NEW x \in MkTree[k + 1] PROVE Good(x, k + 1)
      BY <1>1, <2>1, <2>3, <2>4, Kinds
    <2> QED BY <2>1, <2>5
  <1> HIDE DEF S
  <1>4. n \in S
    <2>1. \A k \in 0 .. MkTop - 1 : k \in S => k + 1 \in S
      BY <1>3
    <2> QED BY <1>0, <1>2, <2>1, EveryLevel
  <1> QED BY <1>4 DEF S

\* A name/value pair loses the value whose name hides a secret and nothing else.
LEMMA PairRedacted ==
    ASSUME NEW e, NEW y \in RedactNameValuePair(e)
    PROVE  /\ \E z \in e : y = z \/ (y.k = z.k /\ y.k = "value" /\ y.d = MkRedacted)
           /\ y.k = "name" => y \in e
           /\ MkSensitive(MkNames(e)) /\ y.k = "value" => y.d = MkRedacted \/ ~RedactableValue(y.d)
  <1>1. (\E n \in MkNames(e) \cap DOMAIN MkName : IsSensitiveKey(n)) <=> MkSensitive(MkNames(e))
    BY DEF MkSensitive, IsSensitiveKey
  <1>2. CASE MkSensitive(MkNames(e))
    <2>1. PICK z \in e : y = IF z.k = "value" /\ RedactableValue(z.d) THEN [k |-> z.k, d |-> MkRedacted] ELSE z
      BY <1>1, <1>2 DEF RedactNameValuePair
    <2> QED BY <2>1
  <1>3. CASE ~MkSensitive(MkNames(e))
    BY <1>1, <1>3 DEF RedactNameValuePair
  <1> QED BY <1>2, <1>3

\* What redaction by name leaves of a document: nothing redactable whose name hides a
\* secret.
LEMMA RedactedLeaves ==
    ASSUME NEW n \in 0 .. MkTop, NEW d \in MkTree[n]
    PROVE  RedactValue[d] \in MkTree[n] /\ MkClean(RedactValue[d])
  <1> DEFINE R(x) == RedactValue[x]
             Good(x, k) == R(x) \in MkTree[k] /\ MkClean(R(x)) /\ R(x).t = x.t /\ (x.t = "leaf" => R(x) = x)
             S == {k \in 0 .. MkTop : \A x \in MkTree[k] : Good(x, k)}
  <1>0. MkTop \in Nat
    BY Levels
  <1>1. ASSUME NEW k \in 0 .. MkTop, NEW x \in MkTree[k], x.t = "leaf" PROVE Good(x, k)
    <2>1. x \in MkDoc
      BY Growing
    <2>2. R(x) = x
      BY <1>1, <2>1, Redacted
    <2>3. MkClean(x)
      BY <1>1, <2>1, LeafValue DEF MkClean
    <2> QED BY <2>2, <2>3
  <1>2. 0 \in S
    <2>1. \A x \in MkTree[0] : x.t = "leaf"
      BY Trees DEF MkLeafs
    <2>2. 0 \in 0 .. MkTop
      BY <1>0
    <2> HIDE DEF Good
    <2> QED BY <1>1, <2>1, <2>2
  <1>3. ASSUME NEW k \in 0 .. MkTop - 1, k \in S PROVE k + 1 \in S
    <2>1. k \in 0 .. MkTop /\ k + 1 \in 0 .. MkTop /\ k + 1 # 0 /\ (k + 1) - 1 = k
      BY <1>0
    <2>2. \A x \in MkTree[k] : Good(x, k)
      BY <1>3
    <2>3. MkRedacted \in MkTree[k] /\ MkRedacted \in MkDoc /\ MkRedacted.t = "leaf" /\ MkRedacted.v = "redacted"
      <3>1. MkRedacted \in MkLeafs
        BY Levels DEF MkRedacted, MkLeaf, MkLeafs
      <3>2. MkLeafs \subseteq MkTree[k] /\ MkTree[k] \subseteq MkDoc
        BY <2>1, Growing
      <3> QED BY <3>1, <3>2 DEF MkRedacted, MkLeaf
    <2>4. ASSUME NEW x \in MkTree[k + 1], x.t = "obj" PROVE Good(x, k + 1)
      <3>1. x \in MkDoc /\ x.e \in SUBSET [k : MkField, d : MkTree[k]]
        <4>1. x.e \in SUBSET [k : MkField, d : MkTree[(k + 1) - 1]]
          BY <2>1, <2>4, Kinds
        <4> QED BY <2>1, <4>1, Growing
      <3> DEFINE e1 == RedactNameValuePair(x.e)
                 e2 == {RedactField(y, R(y.d)) : y \in e1}
      <3>2. R(x) = [t |-> "obj", e |-> e2]
        BY <2>4, <3>1, Redacted
      <3>3. ASSUME NEW y \in e1 PROVE y.k \in MkField /\ y.d \in MkTree[k] /\ Good(y.d, k)
        <4>1. PICK z \in x.e : y = z \/ (y.k = z.k /\ y.d = MkRedacted)
          BY PairRedacted
        <4>2. y.k \in MkField /\ y.d \in MkTree[k]
          BY <2>3, <3>1, <4>1
        <4> QED BY <2>2, <4>2
      <3> HIDE DEF e1
      <3>4. e2 \in SUBSET [k : MkField, d : MkTree[k]]
        BY <2>3, <3>3 DEF RedactField
      <3>5. R(x) \in MkTree[k + 1] /\ R(x) \in MkDoc
        <4>1. [t |-> "obj", e |-> e2] \in MkTree[k + 1]
          <5> HIDE DEF e2
          <5> QED BY <2>1, <3>4, Made
        <4>2. MkTree[k + 1] \subseteq MkDoc
          BY <2>1, Growing
        <4>3. R(x) \in MkTree[k + 1]
          BY <3>2, <4>1, Zenon
        <4> QED BY <4>2, <4>3, Zenon
      <3>6. ASSUME NEW y2 \in e2
            PROVE  \E y \in e1 : /\ y2.k = y.k
                                 /\ \/ y2.d = MkRedacted
                                    \/ /\ y2.d = R(y.d)
                                       /\ MkSensitive({y.k}) => ~RedactableValue(y.d)
        <4>1. PICK y \in e1 : y2 = RedactField(y, R(y.d))
          OBVIOUS
        <4>2. MkSensitive({y.k}) => y.k \in DOMAIN MkName /\ IsSensitiveKey(y.k)
          BY DEF MkSensitive, IsSensitiveKey
        <4> QED BY <4>1, <4>2 DEF RedactField
      <3>7. R(x).t = "obj" /\ R(x).e = e2
        BY <3>2
      <3>8. MkSensitive(MkNames(e2)) => MkSensitive(MkNames(x.e))
        <4> SUFFICES ASSUME MkSensitive(MkNames(e2)) PROVE MkSensitive(MkNames(x.e))
          OBVIOUS
        <4>1. PICK m \in MkNames(e2) : MkSensitive({m})
          BY DEF MkSensitive
        <4>2. PICK y2 \in e2 : y2.k = "name" /\ y2.d.t = "leaf" /\ m = y2.d.v
          BY DEF MkNames
        <4>3. PICK y \in e1 : y2.k = y.k /\ (y2.d = MkRedacted \/ y2.d = R(y.d))
          BY <3>6
        <4>4. y2.d # MkRedacted
          BY <2>3, <4>1, <4>2, NotSensitive
        <4>5. y.k = "name" /\ y.d.t = "leaf" /\ y.d.v = m
          BY <3>3, <4>2, <4>3, <4>4
        <4>6. y \in x.e
          BY <4>5, PairRedacted DEF e1
        <4>7. m \in MkNames(x.e)
          BY <4>5, <4>6 DEF MkNames
        <4> QED BY <4>1, <4>7 DEF MkSensitive
      <3> HIDE DEF R, e2
      <3>9. MkClean(R(x))
        <4> SUFFICES ASSUME NEW l \in MkLeaves[R(x)], MkSecret(l) PROVE l.v \in MkSafe
          BY DEF MkClean
        <4>1. PICK y2 \in e2 : l \in MkUnder(MkLeaves[y2.d], y2, e2)
          BY <3>5, <3>7, LeavesOf
        <4>2. PICK m \in MkLeaves[y2.d] : l.v = m.v /\ (MkSecret(l) <=> MkSecret(m) \/ MkCalled(y2, e2))
          BY <4>1, UnderField
        <4>3. PICK y \in e1 : /\ y2.k = y.k
                              /\ \/ y2.d = MkRedacted
                                 \/ /\ y2.d = R(y.d)
                                    /\ MkSensitive({y.k}) => ~RedactableValue(y.d)
          BY <3>6
        <4>4. CASE y2.d = MkRedacted
          BY <2>3, <4>2, <4>4, LeafValue DEF MkSafe
        <4>5. CASE y2.d = R(y.d) /\ MkSecret(m)
          BY <3>3, <4>2, <4>5 DEF MkClean
        <4>6. CASE y2.d = R(y.d) /\ y2.d # MkRedacted /\ MkCalled(y2, e2)
          <5>1. y.d # MkRedacted
            BY <2>3, <3>3, <4>6
          <5>2. MkSensitive({y.k}) \/ (y.k = "value" /\ MkSensitive(MkNames(x.e)))
            BY <3>8, <4>3, <4>6 DEF MkCalled
          <5>3. y.k = "value" /\ MkSensitive(MkNames(x.e)) => ~RedactableValue(y.d)
            BY <5>1, PairRedacted DEF e1
          <5>4. ~RedactableValue(y.d)
            BY <4>3, <4>6, <5>2, <5>3
          <5>5. y.d.t = "leaf" /\ y.d.v \in {"true", "null"} /\ R(y.d) = y.d
            BY <3>3, <5>4 DEF RedactableValue
          <5>6. y.d \in MkDoc
            BY <2>1, <3>3, Growing
          <5> QED BY <4>2, <4>6, <5>5, <5>6, LeafValue DEF MkSafe
        <4> QED BY <4>2, <4>3, <4>4, <4>5, <4>6
      <3> QED BY <2>4, <3>5, <3>7, <3>9
    <2>5. ASSUME NEW x \in MkTree[k + 1], x.t = "arr" PROVE Good(x, k + 1)
      <3>1. x \in MkDoc /\ x.e \in SUBSET MkTree[k]
        <4>1. x.e \in SUBSET MkTree[(k + 1) - 1]
          BY <2>1, <2>5, Kinds
        <4> QED BY <2>1, <4>1, Growing
      <3> DEFINE e2 == {R(y) : y \in x.e}
      <3>2. R(x) = [t |-> "arr", e |-> e2]
        BY <2>5, <3>1, Redacted
      <3>3. \A y \in x.e : y \in MkTree[k] /\ Good(y, k)
        BY <2>2, <3>1
      <3>4. e2 \in SUBSET MkTree[k]
        BY <3>3
      <3>5. R(x) \in MkTree[k + 1] /\ R(x) \in MkDoc
        <4>1. [t |-> "arr", e |-> e2] \in MkTree[k + 1]
          <5> HIDE DEF e2
          <5> QED BY <2>1, <3>4, Made
        <4>2. MkTree[k + 1] \subseteq MkDoc
          BY <2>1, Growing
        <4>3. R(x) \in MkTree[k + 1]
          BY <3>2, <4>1, Zenon
        <4> QED BY <4>2, <4>3, Zenon
      <3>6. \A y2 \in e2 : MkClean(y2)
        BY <3>3
      <3>7. R(x).t = "arr" /\ R(x).e = e2
        BY <3>2
      <3> HIDE DEF R, e2
      <3>8. MkClean(R(x))
        BY <3>5, <3>6, <3>7, LeavesOf DEF MkClean
      <3> QED BY <2>5, <3>5, <3>7, <3>8
    <2> HIDE DEF Good
    <2>6. ASSUME NEW x \in MkTree[k + 1] PROVE Good(x, k + 1)
      BY <1>1, <2>1, <2>4, <2>5, Kinds
    <2> QED BY <2>1, <2>6
  <1> HIDE DEF S
  <1>4. n \in S
    <2>1. \A k \in 0 .. MkTop - 1 : k \in S => k + 1 \in S
      BY <1>3
    <2> QED BY <1>0, <1>2, <2>1, EveryLevel
  <1> QED BY <1>4 DEF S

\* The bodies there are between two steps of the masking.
MkPairs == [k : MkField, v : MkValue]
MkIsBody(b) == b \in [json : {TRUE}, doc : MkTree[MkDepth + 1]] \cup [json : {FALSE}, doc : SUBSET MkPairs]

\* A response is a body.
LEMMA BodiesAre == \A b \in MkBodies : MkIsBody(b)
  <1>1. MkBodies \subseteq [json : {TRUE}, doc : MkTree[MkDepth]] \cup [json : {FALSE}, doc : SUBSET MkPairs]
    BY MaskingAssumption DEF MkPairs
  <1>2. MkTree[MkDepth] \subseteq MkTree[MkDepth + 1]
    BY Levels, Growing
  <1> QED BY <1>1, <1>2 DEF MkIsBody

\* A body with another document is of the same kind.
LEMMA WithDoc ==
    ASSUME NEW b, MkIsBody(b), NEW x
    PROVE  [b EXCEPT !.doc = x] = [json |-> b.json, doc |-> x] /\ b.json \in BOOLEAN
  <1>1. ASSUME NEW J, NEW D, b \in [json : J, doc : D]
        PROVE  [b EXCEPT !.doc = x] = [json |-> b.json, doc |-> x] /\ b.json \in J
    BY <1>1
  <1>2. \A J, D : b \in [json : J, doc : D] => [b EXCEPT !.doc = x] = [json |-> b.json, doc |-> x] /\ b.json \in J
    BY <1>1
  <1>3. \/ b \in [json : {TRUE}, doc : MkTree[MkDepth + 1]]
        \/ b \in [json : {FALSE}, doc : SUBSET MkPairs]
    BY DEF MkIsBody
  <1>4. [b EXCEPT !.doc = x] = [json |-> b.json, doc |-> x]
    BY <1>2, <1>3, Zenon
  <1>5. b.json \in {TRUE} \/ b.json \in {FALSE}
    BY <1>2, <1>3, Zenon
  <1> QED BY <1>4, <1>5

\* An empty object is a body without leaves.
LEMMA EmptyBody ==
    /\ MkIsBody([json |-> TRUE, doc |-> MkEmpty]) /\ MkEmpty \in MkDoc
    /\ MkLeaves[MkEmpty] = {}
  <1>1. MkEmpty \in MkTree[MkDepth + 1]
    BY Levels, Made DEF MkEmpty
  <1>2. MkEmpty \in MkDoc
    BY <1>1, Levels, Growing
  <1>3. MkLeaves[MkEmpty] = {}
    BY <1>2, LeavesOf DEF MkEmpty
  <1> QED BY <1>1, <1>2, <1>3 DEF MkIsBody

\* A text as a document: a leaf for every pair, under the pair's name.
LEMMA TextLeaves ==
    ASSUME NEW pairs \in SUBSET MkPairs
    PROVE  /\ MkText(pairs) \in MkTree[MkDepth + 2] /\ MkText(pairs) \in MkDoc
           /\ \A l \in MkLeaves[MkText(pairs)] :
                \E p \in pairs : l.v = p.v /\ (MkSecret(l) <=> MkSensitive({p.k}))
  <1> DEFINE O(p) == [t |-> "obj", e |-> {[k |-> p.k, d |-> MkLeaf(p.v)]}]
  <1>1. ASSUME NEW p \in pairs PROVE O(p) \in MkTree[MkDepth + 1] /\ MkLeaf(p.v) \in MkDoc
    <2>1. MkLeaf(p.v) \in MkLeafs
      BY DEF MkLeaf, MkLeafs, MkPairs
    <2>2. MkLeaf(p.v) \in MkTree[MkDepth] /\ MkLeaf(p.v) \in MkDoc
      BY <2>1, Levels, Growing
    <2>3. {[k |-> p.k, d |-> MkLeaf(p.v)]} \in SUBSET [k : MkField, d : MkTree[MkDepth]]
      BY <2>2 DEF MkPairs
    <2> QED BY <2>2, <2>3, Levels, Made
  <1>2. {O(p) : p \in pairs} \in SUBSET MkTree[MkDepth + 1]
    BY <1>1
  <1>3. MkText(pairs) \in MkTree[MkDepth + 2]
    <2>1. MkDepth + 1 \in 0 .. MkTop /\ (MkDepth + 1) + 1 = MkDepth + 2 /\ MkDepth + 2 \in 0 .. MkTop
      BY Levels
    <2>2. MkText(pairs) = [t |-> "arr", e |-> {O(p) : p \in pairs}]
      BY DEF MkText
    <2> HIDE DEF O
    <2> QED BY <1>2, <2>1, <2>2, Made
  <1>4. MkText(pairs) \in MkDoc
    BY <1>3, Levels, Growing
  <1>5. ASSUME NEW l \in MkLeaves[MkText(pairs)]
        PROVE  \E p \in pairs : l.v = p.v /\ (MkSecret(l) <=> MkSensitive({p.k}))
    <2>1. MkText(pairs).t = "arr" /\ MkText(pairs).e = {O(p) : p \in pairs}
      BY DEF MkText
    <2>2. PICK p \in pairs : l \in MkLeaves[O(p)]
      <3> HIDE DEF O
      <3>1. MkLeaves[MkText(pairs)] = UNION {MkLeaves[y] : y \in {O(p) : p \in pairs}}
        BY <1>4, <2>1, LeavesOf
      <3> QED BY <3>1
    <2> DEFINE x == [k |-> p.k, d |-> MkLeaf(p.v)]
    <2>3. O(p) \in MkDoc /\ O(p).t = "obj" /\ O(p).e = {x}
      BY <1>1, Levels, Growing
    <2>4. l \in MkUnder(MkLeaves[x.d], x, {x})
      <3> HIDE DEF x, O
      <3>1. MkLeaves[O(p)] = UNION {MkUnder(MkLeaves[y.d], y, O(p).e) : y \in O(p).e}
        BY <2>3, LeavesOf
      <3> QED BY <2>2, <2>3, <3>1
    <2>5. PICK m \in MkLeaves[x.d] : l.v = m.v /\ (MkSecret(l) <=> MkSecret(m) \/ MkCalled(x, {x}))
      <3> HIDE DEF x
      <3> QED BY <2>4, UnderField
    <2>6. x.d \in MkDoc /\ x.d.t = "leaf" /\ x.d.v = p.v /\ x.k = p.k
      BY <1>1 DEF MkLeaf
    <2> HIDE DEF x
    <2>7. m.v = p.v /\ ~MkSecret(m)
      BY <2>6, LeafValue
    <2>8. MkCalled(x, {x}) <=> MkSensitive({p.k})
      <3>1. x.k = "value" => MkNames({x}) = {}
        BY DEF MkNames
      <3> QED BY <2>6, <3>1, NotSensitive DEF MkCalled
    <2> QED BY <2>5, <2>7, <2>8
  <1> QED BY <1>3, <1>4, <1>5

\* And for every pair there is a leaf.
LEMMA TextHolds ==
    ASSUME NEW pairs \in SUBSET MkPairs, NEW p \in pairs
    PROVE  \E l \in MkLeaves[MkText(pairs)] : l.v = p.v /\ (MkSecret(l) <=> MkSensitive({p.k}))
  <1> DEFINE x == [k |-> p.k, d |-> MkLeaf(p.v)]
             O == [t |-> "obj", e |-> {x}]
  <1>1. MkLeaf(p.v) \in MkLeafs /\ x.d = MkLeaf(p.v) /\ x.k = p.k /\ x.d.t = "leaf" /\ x.d.v = p.v
    BY DEF MkLeaf, MkLeafs, MkPairs
  <1>2. x.d \in MkTree[MkDepth] /\ x.d \in MkDoc
    BY <1>1, Levels, Growing
  <1>3. O \in MkDoc
    <2>1. {x} \in SUBSET [k : MkField, d : MkTree[MkDepth]]
      BY <1>2 DEF MkPairs
    <2> HIDE DEF x
    <2>2. O \in MkTree[MkDepth + 1]
      BY <2>1, Levels, Made
    <2> HIDE DEF O
    <2> QED BY <2>2, Levels, Growing
  <1>4. O \in MkText(pairs).e /\ MkText(pairs).t = "arr"
    BY DEF MkText
  <1>5. MkText(pairs) \in MkDoc
    BY TextLeaves
  <1>6. O.t = "obj" /\ O.e = {x}
    OBVIOUS
  <1> HIDE DEF x, O
  <1>7. MkLeaves[x.d] = {[above |-> {}, by |-> {}, v |-> x.d.v]}
    BY <1>1, <1>2, LeavesOf
  <1>8. PICK m \in MkLeaves[x.d] : m.v = p.v /\ ~MkSecret(m)
    BY <1>1, <1>2, <1>7, LeafValue
  <1>9. PICK l \in MkUnder(MkLeaves[x.d], x, {x}) :
             l.v = m.v /\ (MkSecret(l) <=> MkSecret(m) \/ MkCalled(x, {x}))
    BY FieldUnder
  <1>10. l \in MkLeaves[O]
    <2>1. MkLeaves[O] = UNION {MkUnder(MkLeaves[y.d], y, O.e) : y \in O.e}
      BY <1>3, <1>6, LeavesOf
    <2> QED BY <1>6, <1>9, <2>1
  <1>11. l \in MkLeaves[MkText(pairs)]
    BY <1>4, <1>5, <1>10, LeavesOf
  <1>12. MkCalled(x, {x}) <=> MkSensitive({p.k})
    <2>1. x.k = "value" => MkNames({x}) = {}
      BY DEF MkNames
    <2> QED BY <1>1, <2>1, NotSensitive DEF MkCalled
  <1> QED BY <1>8, <1>9, <1>11, <1>12

\* What a body is as a document.
LEMMA Wholes ==
    ASSUME NEW b, MkIsBody(b)
    PROVE  /\ MkWhole(b) \in MkTree[MkDepth + 2] /\ MkWhole(b) \in MkDoc
           /\ b.json \in BOOLEAN /\ b.json => b.doc \in MkTree[MkDepth + 1] /\ b.doc \in MkDoc
           /\ ~b.json => b.doc \in SUBSET MkPairs
  <1>1. CASE b \in [json : {TRUE}, doc : MkTree[MkDepth + 1]]
    <2>1. b.json = TRUE /\ b.doc \in MkTree[MkDepth + 1]
      BY <1>1
    <2>2. (MkDepth + 1) + 1 = MkDepth + 2
      BY Levels
    <2>3. b.doc \in MkTree[MkDepth + 2] /\ b.doc \in MkDoc
      BY <2>1, <2>2, Levels, Growing
    <2> QED BY <2>1, <2>3 DEF MkWhole
  <1>2. CASE b \in [json : {FALSE}, doc : SUBSET MkPairs]
    <2>1. b.json = FALSE /\ b.doc \in SUBSET MkPairs
      BY <1>2
    <2> QED BY <2>1, TextLeaves DEF MkWhole
  <1> QED BY <1>1, <1>2 DEF MkIsBody

\* The text patterns do to the pairs what the walk does to a document.
LEMMA PairsRedacted ==
    ASSUME NEW kinds, "redacted" \notin kinds, NEW pairs \in SUBSET MkPairs
    PROVE  /\ RedactPairs(pairs, kinds) \in SUBSET MkPairs /\ RedactTextSecretFields(pairs) \in SUBSET MkPairs
           /\ \A q \in RedactPairs(pairs, kinds) :
                q.v \notin kinds /\ \E p \in pairs : q.k = p.k /\ q.v \in {p.v, "redacted"}
           /\ \A q \in RedactTextSecretFields(pairs) : MkSensitive({q.k}) => q.v = "redacted"
  <1>1. ASSUME NEW p \in pairs
        PROVE  /\ [p EXCEPT !.v = "redacted"] \in MkPairs /\ p \in MkPairs
               /\ [p EXCEPT !.v = "redacted"].v = "redacted" /\ [p EXCEPT !.v = "redacted"].k = p.k
    BY Levels DEF MkPairs
  <1>2. \A k : MkSensitive({k}) <=> k \in DOMAIN MkName /\ IsSensitiveKey(k)
    BY DEF MkSensitive, IsSensitiveKey
  <1>3. ASSUME NEW q \in RedactPairs(pairs, kinds)
        PROVE  q \in MkPairs /\ q.v \notin kinds /\ \E p \in pairs : q.k = p.k /\ q.v \in {p.v, "redacted"}
    BY <1>1 DEF RedactPairs
  <1>4. ASSUME NEW q \in RedactTextSecretFields(pairs)
        PROVE  q \in MkPairs /\ (MkSensitive({q.k}) => q.v = "redacted")
    BY <1>1, <1>2 DEF RedactTextSecretFields
  <1> QED BY <1>3, <1>4

\* What redaction by name and of secrets without a name makes of a body.
LEMMA SecretFieldsRedacted ==
    ASSUME NEW b, MkIsBody(b)
    PROVE  /\ MkIsBody(RedactSecretFields(b)) /\ MkClean(MkWhole(RedactSecretFields(b)))
           /\ MkFree(MkWhole(RedactSecretFields(b)), InlineSecrets)
  <1> DEFINE r == RedactSecretFields(b)
  <1>0. "redacted" \notin InlineSecrets
    BY DEF InlineSecrets
  <1>1. CASE b.json
    <2>1. b.doc \in MkTree[MkDepth + 1] /\ MkDepth + 1 \in 0 .. MkTop
      BY <1>1, Wholes, Levels
    <2>2. RedactValue[b.doc] \in MkTree[MkDepth + 1] /\ MkClean(RedactValue[b.doc])
      BY <2>1, RedactedLeaves
    <2> DEFINE out == RedactInline(RedactValue[b.doc], InlineSecrets)
    <2>3. /\ out \in MkTree[MkDepth + 1] /\ MkDescends(out, RedactValue[b.doc])
          /\ MkFree(out, InlineSecrets)
      BY <1>0, <2>1, <2>2, InlineLeaves
    <2>4. MkClean(out)
      BY <1>0, <2>2, <2>3, DescendsClean
    <2>5. r = [json |-> TRUE, doc |-> out]
      <3>1. r = [b EXCEPT !.doc = out]
        BY <1>1 DEF RedactSecretFields
      <3> HIDE DEF r, out
      <3> QED BY <1>1, <3>1, WithDoc
    <2> HIDE DEF out, r
    <2>6. MkIsBody(r) /\ MkWhole(r) = out
      BY <2>3, <2>5 DEF MkIsBody, MkWhole
    <2> QED BY <2>3, <2>4, <2>6 DEF r
  <1>2. CASE ~b.json
    <2>1. b.doc \in SUBSET MkPairs
      BY <1>2, Wholes
    <2> DEFINE named == RedactTextSecretFields(b.doc)
               out == RedactPairs(named, InlineSecrets)
    <2>2. named \in SUBSET MkPairs /\ \A q \in named : MkSensitive({q.k}) => q.v = "redacted"
      BY <1>0, <2>1, PairsRedacted
    <2> HIDE DEF named
    <2>3. /\ out \in SUBSET MkPairs
          /\ \A q \in out : q.v \notin InlineSecrets /\ \E p \in named : q.k = p.k /\ q.v \in {p.v, "redacted"}
      BY <1>0, <2>2, PairsRedacted
    <2>4. r = [json |-> FALSE, doc |-> out]
      <3>1. r = [b EXCEPT !.doc = out]
        BY <1>2 DEF RedactSecretFields, named
      <3> HIDE DEF r, out
      <3> QED BY <1>2, <3>1, WithDoc
    <2> HIDE DEF out, r
    <2>5. MkIsBody(r) /\ MkWhole(r) = MkText(out)
      BY <2>3, <2>4 DEF MkIsBody, MkWhole
    <2>6. \A l \in MkLeaves[MkText(out)] : \E p \in out : l.v = p.v /\ (MkSecret(l) <=> MkSensitive({p.k}))
      BY <2>3, TextLeaves
    <2>7. MkFree(MkText(out), InlineSecrets)
      BY <2>3, <2>6 DEF MkFree
    <2>8. \A q \in out : MkSensitive({q.k}) => q.v = "redacted"
      BY <2>2, <2>3
    <2>9. MkClean(MkText(out))
      BY <2>6, <2>8 DEF MkClean, MkSafe
    <2> QED BY <2>5, <2>7, <2>9 DEF r
  <1> QED BY <1>1, <1>2

\* What redaction of known formats makes of a body.
LEMMA ClassesApplied ==
    ASSUME NEW b, MkIsBody(b), NEW kinds, "redacted" \notin kinds, MkClean(MkWhole(b)),
           NEW marks, "redacted" \notin marks, MkFree(MkWhole(b), marks)
    PROVE  LET r == ApplyClasses(b, kinds)
           IN  MkIsBody(r) /\ MkClean(MkWhole(r)) /\ MkFree(MkWhole(r), marks \cup kinds)
  <1> DEFINE r == ApplyClasses(b, kinds)
  <1> SUFFICES MkIsBody(r) /\ MkClean(MkWhole(r)) /\ MkFree(MkWhole(r), marks) /\ MkFree(MkWhole(r), kinds)
    BY DEF MkFree
  <1>1. CASE b.json
    <2>1. b.doc \in MkTree[MkDepth + 1] /\ MkDepth + 1 \in 0 .. MkTop /\ MkWhole(b) = b.doc
      BY <1>1, Wholes, Levels DEF MkWhole
    <2> DEFINE out == RedactInline(b.doc, kinds)
    <2>2. out \in MkTree[MkDepth + 1] /\ MkDescends(out, b.doc) /\ MkFree(out, kinds)
      BY <2>1, InlineLeaves
    <2>3. MkClean(out) /\ MkFree(out, marks)
      BY <2>1, <2>2, DescendsClean
    <2>4. r = [json |-> TRUE, doc |-> out]
      <3>1. r = [b EXCEPT !.doc = out]
        BY <1>1 DEF ApplyClasses
      <3> HIDE DEF r, out
      <3> QED BY <1>1, <3>1, WithDoc
    <2> HIDE DEF out, r
    <2>5. MkIsBody(r) /\ MkWhole(r) = out
      BY <2>2, <2>4 DEF MkIsBody, MkWhole
    <2> QED BY <2>2, <2>3, <2>5
  <1>2. CASE ~b.json
    <2>1. b.doc \in SUBSET MkPairs /\ MkWhole(b) = MkText(b.doc)
      BY <1>2, Wholes DEF MkWhole
    <2> DEFINE out == RedactPairs(b.doc, kinds)
    <2>2. /\ out \in SUBSET MkPairs
          /\ \A q \in out : q.v \notin kinds /\ \E p \in b.doc : q.k = p.k /\ q.v \in {p.v, "redacted"}
      BY <2>1, PairsRedacted
    <2>3. r = [json |-> FALSE, doc |-> out]
      <3>1. r = [b EXCEPT !.doc = out]
        BY <1>2 DEF ApplyClasses
      <3> HIDE DEF r, out
      <3> QED BY <1>2, <3>1, WithDoc
    <2> HIDE DEF out, r
    <2>4. MkIsBody(r) /\ MkWhole(r) = MkText(out)
      BY <2>2, <2>3 DEF MkIsBody, MkWhole
    <2>5. \A l \in MkLeaves[MkText(out)] : \E q \in out : l.v = q.v /\ (MkSecret(l) <=> MkSensitive({q.k}))
      BY <2>2, TextLeaves
    <2>6. \A p \in b.doc : \E l \in MkLeaves[MkText(b.doc)] : l.v = p.v /\ (MkSecret(l) <=> MkSensitive({p.k}))
      BY <2>1, TextHolds
    <2>7. MkDescends(MkText(out), MkText(b.doc))
      <3> SUFFICES ASSUME NEW l2 \in MkLeaves[MkText(out)]
                   PROVE  \E l1 \in MkLeaves[MkText(b.doc)] : MkFrom(l2, l1)
        BY DEF MkDescends
      <3>1. PICK q \in out : l2.v = q.v /\ (MkSecret(l2) <=> MkSensitive({q.k}))
        BY <2>5
      <3>2. PICK p \in b.doc : q.k = p.k /\ q.v \in {p.v, "redacted"}
        BY <2>2
      <3>3. PICK l1 \in MkLeaves[MkText(b.doc)] : l1.v = p.v /\ (MkSecret(l1) <=> MkSensitive({p.k}))
        BY <2>6
      <3>4. MkFrom(l2, l1)
        BY <3>1, <3>2, <3>3 DEF MkFrom
      <3> QED BY <3>4
    <2>8. MkClean(MkText(out)) /\ MkFree(MkText(out), marks)
      BY <2>1, <2>7, DescendsClean
    <2>9. MkFree(MkText(out), kinds)
      BY <2>2, <2>5 DEF MkFree
    <2> QED BY <2>4, <2>8, <2>9
  <1> QED BY <1>1, <1>2

\* A body that no secret is left in.
MkKept(b, kinds) == MkIsBody(b) /\ MkClean(MkWhole(b)) /\ MkFree(MkWhole(b), InlineSecrets \cup kinds)

\* Each level that passes a body on keeps it clean.
LEMMA LevelsKeep ==
    ASSUME NEW b, MkIsBody(b), NEW kinds, "redacted" \notin kinds
    PROVE  /\ MkKept(ApplyClasses(RedactSecretFields(b), kinds), kinds)
           /\ MkKept([json |-> TRUE, doc |-> MkEmpty], kinds)
  <1> DEFINE r == RedactSecretFields(b)
  <1>1. "redacted" \notin InlineSecrets
    BY DEF InlineSecrets
  <1>2. MkIsBody(r) /\ MkClean(MkWhole(r)) /\ MkFree(MkWhole(r), InlineSecrets)
    BY SecretFieldsRedacted
  <1> HIDE DEF r
  <1>3. LET a == ApplyClasses(r, kinds)
        IN  MkIsBody(a) /\ MkClean(MkWhole(a)) /\ MkFree(MkWhole(a), InlineSecrets \cup kinds)
    BY <1>1, <1>2, ClassesApplied
  <1>4. MkKept([json |-> TRUE, doc |-> MkEmpty], kinds)
    <2>1. MkWhole([json |-> TRUE, doc |-> MkEmpty]) = MkEmpty
      BY DEF MkWhole
    <2> QED BY <2>1, EmptyBody DEF MkKept, MkClean, MkFree
  <1> QED BY <1>3, <1>4 DEF MkKept, r

\* What every level of masking makes of a body.
LEMMA MaskedBody ==
    ASSUME NEW b, MkIsBody(b), NEW p \in MkPolicies
    PROVE  /\ MkIsBody(Redact(b, p))
           /\ ~p.gateway /\ p.level # "metadata_only" => MkKept(Redact(b, p), MkFormats(p))
           /\ p.gateway => MkKept(Body(b, p), MkFormats(p))
  <1> DEFINE empty == [json |-> TRUE, doc |-> MkEmpty]
             all == BasicClasses \cup StrictClasses \cup StrictTokenRe
             basic == ApplyClasses(RedactSecretFields(b), BasicClasses)
             strict == ApplyClasses(RedactSecretFields(b), all)
  <1>0. /\ "redacted" \notin p.patterns /\ "redacted" \notin p.patterns \cup StrictTokenRe
        /\ "redacted" \notin BasicClasses /\ "redacted" \notin all /\ "redacted" \notin MkFormats(p)
    BY MaskingAssumption DEF BasicClasses, StrictClasses, StrictTokenRe, MkFormats
  <1>1. MkKept(basic, BasicClasses) /\ MkKept(strict, all) /\ \A kinds : "redacted" \notin kinds => MkKept(empty, kinds)
    <2> HIDE DEF all
    <2> QED BY <1>0, LevelsKeep
  <1>2. ASSUME p.gateway PROVE MkKept(Body(b, p), MkFormats(p))
    <2>1. CASE p.level = "metadata_only"
      <3>1. Body(b, p) = empty
        BY <2>1 DEF Body, Profile
      <3> HIDE DEF empty
      <3> QED BY <1>0, <1>1, <3>1
    <2>2. CASE p.level \in {"basic", "unset"}
      <3>1. Body(b, p) = ApplyClasses(RedactSecretFields(b), p.patterns) /\ MkFormats(p) = p.patterns
        BY <1>2, <2>2 DEF Body, Profile, MkFormats, MkStrict
      <3> QED BY <1>0, <3>1, LevelsKeep
    <2>3. CASE p.level \notin {"basic", "unset", "metadata_only"}
      <3>1. /\ Profile(p.level) = "strict"
            /\ MkFormats(p) = p.patterns \cup StrictTokenRe
        BY <1>2, <2>3 DEF Profile, MkFormats, MkStrict
      <3>2. Body(b, p) = ApplyClasses(RedactSecretFields(b), p.patterns \cup StrictTokenRe)
        BY <3>1 DEF Body
      <3> QED BY <1>0, <3>1, <3>2, LevelsKeep
    <2> QED BY <2>1, <2>2, <2>3
  <1>3. p.level # "metadata_only" => Redact(b, p) \in {basic, empty} \/ (p.level = "strict" /\ Redact(b, p) = strict)
    BY DEF Redact
  <1>31. p.level = "strict" => Redact(b, p) = strict
    BY DEF Redact
  <1>4. MkIsBody(RedactToAllowFields(b, p.allow))
    <2>1. CASE ~b.json \/ p.allow = {} \/ b.doc.t # "obj"
      BY <2>1, EmptyBody DEF RedactToAllowFields
    <2>2. CASE ~(~b.json \/ p.allow = {} \/ b.doc.t # "obj")
      <3> DEFINE out == [t |-> "obj", e |-> {x \in b.doc.e : x.k \in p.allow}]
      <3>1. b.doc \in MkTree[MkDepth + 1] /\ b.doc.t = "obj" /\ b.json = TRUE
        BY <2>2, Wholes
      <3>2. MkDepth + 1 \in 0 .. MkTop /\ (MkDepth + 1) - 1 = MkDepth
        BY Levels, MaskingAssumption
      <3>3. b.doc.e \in SUBSET [k : MkField, d : MkTree[MkDepth]]
        BY <3>1, <3>2, Kinds
      <3>4. out \in MkTree[MkDepth + 1]
        <4>1. {x \in b.doc.e : x.k \in p.allow} \in SUBSET [k : MkField, d : MkTree[MkDepth]]
          BY <3>3
        <4> QED BY <4>1, Levels, Made
      <3>5. RedactToAllowFields(b, p.allow) = [b EXCEPT !.doc = out]
        BY <2>2 DEF RedactToAllowFields
      <3> HIDE DEF out
      <3>6. RedactToAllowFields(b, p.allow) = [json |-> TRUE, doc |-> out]
        BY <3>1, <3>5, WithDoc
      <3> QED BY <3>4, <3>6 DEF MkIsBody
    <2> QED BY <2>1, <2>2
  <1>5. p.level = "metadata_only" => Redact(b, p) = RedactToAllowFields(b, p.allow)
    BY DEF Redact
  <1>6. p.level # "metadata_only" => \E kinds : MkKept(Redact(b, p), kinds)
    <2> HIDE DEF basic, strict, empty, all
    <2> QED BY <1>0, <1>1, <1>3
  <1>7. MkIsBody(Redact(b, p))
    BY <1>4, <1>5, <1>6 DEF MkKept
  <1>8. ASSUME ~p.gateway, p.level # "metadata_only" PROVE MkKept(Redact(b, p), MkFormats(p))
    <2>1. CASE p.level = "strict"
      <3>1. MkFormats(p) \subseteq all
        BY <1>8 DEF MkFormats
      <3> HIDE DEF strict, all
      <3> QED BY <1>1, <1>31, <2>1, <3>1 DEF MkKept, MkFree
    <2>2. CASE p.level # "strict"
      <3>1. MkFormats(p) = BasicClasses
        BY <1>8, <2>2 DEF MkFormats, MkStrict
      <3> HIDE DEF basic, strict, empty
      <3> QED BY <1>0, <1>1, <1>3, <1>8, <2>2, <3>1
    <2> QED BY <2>1, <2>2
  <1> QED BY <1>2, <1>7, <1>8

\* A document below a label.
LEMMA WholeLabelled ==
    ASSUME NEW d \in MkTree[MkDepth + 2], d \in MkDoc
    PROVE  MkLabel(d) \in MkDoc /\ MkDescends(MkLabel(d), d) /\ MkMarked(MkLabel(d))
  <1> DEFINE x == [k |-> "label", d |-> d]
  <1>1. MkLabel(d) = [t |-> "obj", e |-> {x}] /\ x.k = "label" /\ x.d = d
    BY DEF MkLabel
  <1>2. {x} \in SUBSET [k : MkField, d : MkTree[MkDepth + 2]]
    BY Levels
  <1> HIDE DEF x
  <1>3. MkLabel(d) \in MkDoc
    <2>1. (MkDepth + 2) + 1 = MkTop /\ MkDepth + 2 \in 0 .. MkTop /\ MkTop \in 0 .. MkTop
      BY Levels, MaskingAssumption
    <2>2. [t |-> "obj", e |-> {x}] \in MkTree[(MkDepth + 2) + 1]
      BY <1>2, <2>1, Made
    <2> QED BY <1>1, <2>1, <2>2 DEF MkDoc
  <1>4. MkLabel(d).t = "obj" /\ MkLabel(d).e = {x}
    BY <1>1
  <1>5. MkMarked(MkLabel(d))
    BY <1>1, <1>3, <1>4, ObjectMarked
  <1>6. MkDescends(MkLabel(d), d)
    <2> SUFFICES ASSUME NEW l2 \in MkLeaves[MkLabel(d)] PROVE \E l1 \in MkLeaves[d] : MkFrom(l2, l1)
      BY DEF MkDescends
    <2>1. MkLeaves[MkLabel(d)] = UNION {MkUnder(MkLeaves[y.d], y, MkLabel(d).e) : y \in MkLabel(d).e}
      BY <1>3, <1>4, LeavesOf
    <2>2. l2 \in MkUnder(MkLeaves[x.d], x, {x})
      BY <1>4, <2>1
    <2>3. PICK m \in MkLeaves[x.d] : l2.v = m.v /\ (MkSecret(l2) <=> MkSecret(m) \/ MkCalled(x, {x}))
      BY <2>2, UnderField
    <2>4. ~MkCalled(x, {x})
      BY <1>1, NotSensitive DEF MkCalled
    <2> QED BY <1>1, <2>3, <2>4 DEF MkFrom
  <1> QED BY <1>3, <1>5, <1>6

\* What is passed on of a body: content of an untrusted provider below a label or gone,
\* and nothing that was not there.
LEMMA LabelledBody ==
    ASSUME NEW b, MkIsBody(b), NEW p, NEW formats, "redacted" \notin formats, "stripped" \notin formats
    PROVE  LET r == LabelResponse(b, p)
           IN  /\ p.untrusted => r.json /\ MkMarked(r.doc)
               /\ MkKept(b, formats) => MkClean(MkWhole(r)) /\ MkFree(MkWhole(r), InlineSecrets \cup formats)
  <1> DEFINE r == LabelResponse(b, p)
             kinds == InlineSecrets \cup formats
             Told(d) == MkMarked(d) /\ (MkKept(b, formats) => MkClean(d) /\ MkFree(d, kinds))
  <1>0. "redacted" \notin kinds /\ "stripped" \notin kinds
    BY DEF InlineSecrets
  <1>1. CASE ~p.untrusted
    <2>1. r = b
      BY <1>1 DEF LabelResponse
    <2> HIDE DEF r, kinds
    <2> QED BY <1>1, <2>1 DEF MkKept, kinds, r
  <1>2. ASSUME NEW d, r = [json |-> TRUE, doc |-> d], Told(d)
        PROVE  r.json /\ MkMarked(r.doc) /\ (MkKept(b, formats) => MkClean(MkWhole(r)) /\ MkFree(MkWhole(r), kinds))
    <2>1. r.json /\ r.doc = d /\ MkWhole(r) = d
      BY <1>2 DEF MkWhole
    <2> HIDE DEF r, kinds
    <2> QED BY <1>2, <2>1
  <1> HIDE DEF kinds
  <1>3. ASSUME NEW d, MkDescends(d, MkWhole(b)), MkMarked(d) PROVE Told(d)
    BY <1>0, <1>3, DescendsClean DEF MkKept, kinds
  <1>4. Told(MkEmpty)
    BY EmptyBody DEF MkClean, MkFree, MkMarked
  <1>5. Told(MkLeaf("stripped"))
    <2>1. MkLeaf("stripped") \in MkLeafs /\ MkLeaf("stripped").t = "leaf" /\ MkLeaf("stripped").v = "stripped"
      BY Levels DEF MkLeaf, MkLeafs
    <2>2. MkLeaf("stripped") \in MkDoc
      BY <2>1, Levels, Growing
    <2>3. MkLeaves[MkLeaf("stripped")] = {[above |-> {}, by |-> {}, v |-> "stripped"]}
      BY <2>1, <2>2, LeavesOf
    <2> QED BY <1>0, <2>3 DEF MkClean, MkFree, MkMarked, MkSafe
  <1>6. b.json => b.doc \in MkTree[MkDepth + 1] /\ MkWhole(b) = b.doc
    BY Wholes DEF MkWhole
  <1>7. b.json => Told(StripFields[b.doc]) /\ Told(LabelFields[b.doc])
    <2> SUFFICES ASSUME b.json PROVE Told(StripFields[b.doc]) /\ Told(LabelFields[b.doc])
      OBVIOUS
    <2>1. MkDepth + 1 \in 0 .. MkTop /\ b.doc \in MkTree[MkDepth + 1] /\ MkWhole(b) = b.doc
      BY <1>6, Levels
    <2>2. MkDescends(StripFields[b.doc], b.doc) /\ MkMarked(StripFields[b.doc])
      BY <2>1, StripLeaves
    <2>3. MkDescends(LabelFields[b.doc], b.doc) /\ MkMarked(LabelFields[b.doc])
      BY <2>1, LabelLeaves
    <2> HIDE DEF Told
    <2> QED BY <1>3, <2>1, <2>2, <2>3
  <1>8. Told(MkLabel(MkWhole(b)))
    <2>1. MkWhole(b) \in MkTree[MkDepth + 2] /\ MkWhole(b) \in MkDoc
      BY Wholes
    <2>2. MkDescends(MkLabel(MkWhole(b)), MkWhole(b)) /\ MkMarked(MkLabel(MkWhole(b)))
      BY <2>1, WholeLabelled
    <2> HIDE DEF Told
    <2> QED BY <1>3, <2>2
  <1>9. ASSUME p.untrusted
        PROVE  \/ r = [json |-> TRUE, doc |-> MkEmpty] \/ r = [json |-> TRUE, doc |-> MkLeaf("stripped")]
               \/ r = [json |-> TRUE, doc |-> MkLabel(MkWhole(b))]
               \/ b.json /\ (\/ r = [json |-> TRUE, doc |-> StripFields[b.doc]]
                             \/ r = [json |-> TRUE, doc |-> LabelFields[b.doc]])
    <2>1. \A x : b.json => [b EXCEPT !.doc = x] = [json |-> TRUE, doc |-> x]
      BY WithDoc
    <2>2. \/ r = [json |-> TRUE, doc |-> MkEmpty] \/ r = [json |-> TRUE, doc |-> MkLeaf("stripped")]
          \/ r = [json |-> TRUE, doc |-> MkLabel(MkWhole(b))]
          \/ b.json /\ (\/ r = [b EXCEPT !.doc = StripFields[b.doc]]
                        \/ r = [b EXCEPT !.doc = LabelFields[b.doc]])
      BY <1>9 DEF LabelResponse
    <2> HIDE DEF r
    <2> QED BY <2>1, <2>2
  <1>10. CASE p.untrusted
    <2> HIDE DEF r, Told
    <2>1. \E d : r = [json |-> TRUE, doc |-> d] /\ Told(d)
      BY <1>4, <1>5, <1>7, <1>8, <1>9, <1>10
    <2> QED BY <1>2, <2>1 DEF r, kinds
  <1> QED BY <1>1, <1>10

\* For any responses, policies, names and depth of documents, an object naming its value
\* once: what masking leaves of a document has no value whose name hides a secret, at any
\* depth, by its field or by the name next to it, none of a format that is to be masked,
\* and no content of an untrusted provider without its label (masking/secret_fields.go:168, content_labeler.go:21,
\* gateway/redact/redact.go:119).
THEOREM MaskingLeavesNothing == MkInit /\ [][MkNext]_mkVars => []MaskingHolds
  <1>1. MkInit => MaskingHolds
    BY DEF MkInit, MaskingHolds, NothingSensitiveLeft, ContentMarked
  <1>2. MaskingHolds /\ [MkNext]_mkVars => MaskingHolds'
    <2> SUFFICES ASSUME MaskingHolds, [MkNext]_mkVars PROVE MaskingHolds'
      OBVIOUS
    <2>1. CASE UNCHANGED mkVars
      BY <2>1 DEF mkVars, MaskingHolds, NothingSensitiveLeft, ContentMarked
    <2>2. ASSUME NEW b \in MkBodies, NEW p \in MkPolicies, MkRespond(b, p) PROVE MaskingHolds'
      <3>1. /\ mkPolicy' = p
            /\ mkOut' = IF p.gateway THEN Body(b, p) ELSE LabelResponse(Redact(b, p), p)
        BY <2>2 DEF MkRespond
      <3>2. MkIsBody(b)
        BY BodiesAre
      <3>3. /\ MkIsBody(Redact(b, p))
            /\ ~p.gateway /\ p.level # "metadata_only" => MkKept(Redact(b, p), MkFormats(p))
            /\ p.gateway => MkKept(Body(b, p), MkFormats(p))
        BY <3>2, MaskedBody
      <3>31. ~p.gateway => "redacted" \notin MkFormats(p) /\ "stripped" \notin MkFormats(p)
        BY DEF MkFormats, BasicClasses, StrictTokenRe
      <3> DEFINE r == LabelResponse(Redact(b, p), p)
      <3>4. ~p.gateway =>
              /\ p.untrusted => r.json /\ MkMarked(r.doc)
              /\ MkKept(Redact(b, p), MkFormats(p)) => /\ MkClean(MkWhole(r))
                                                       /\ MkFree(MkWhole(r), InlineSecrets \cup MkFormats(p))
        BY <3>3, <3>31, LabelledBody
      <3> HIDE DEF r
      <3>5. ContentMarked'
        BY <3>1, <3>4 DEF ContentMarked, MkMarked, r
      <3>6. NothingSensitiveLeft'
        <4>1. SUFFICES ASSUME p.level = "metadata_only" => p.gateway
                       PROVE  /\ MkClean(MkWhole(mkOut'))
                              /\ MkFree(MkWhole(mkOut'), InlineSecrets \cup MkFormats(p))
          BY <3>1 DEF NothingSensitiveLeft, MkClean, MkFree, MkSecret, MkWhole
        <4>2. CASE p.gateway
          <5>1. mkOut' = Body(b, p)
            BY <3>1, <4>2
          <5> QED BY <3>3, <4>2, <5>1 DEF MkKept
        <4>3. CASE ~p.gateway
          <5>1. mkOut' = r
            BY <3>1, <4>3 DEF r
          <5> QED BY <3>3, <3>4, <4>1, <4>3, <5>1
        <4> QED BY <4>2, <4>3
      <3> QED BY <3>5, <3>6 DEF MaskingHolds
    <2>3. CASE MkNext
      BY <2>2, <2>3 DEF MkNext
    <2> QED BY <2>1, <2>3
  <1> QED BY <1>1, <1>2, PTL
=============================================================================
