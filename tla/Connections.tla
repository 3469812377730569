---------------------------- MODULE Connections -----------------------------
(***************************************************************************)
(* Connections to providers: `keylatch connect` with its test and rollback, *)
(* `disconnect`, the pages of the UI that create, edit, rotate, test,       *)
(* delete and clear connections, and the setup wizard                       *)
(* (internal/connections, internal/cli/cmd_connect.go and                   *)
(* disconnect_cmd.go, internal/ui/api/connections.go and wizard.go).        *)
(*                                                                         *)
(* A connection is a handful of separate entries of the secret store, and   *)
(* each of them is written or deleted by a call of its own that may fail;   *)
(* the process may be killed between two calls.  A command is the list of   *)
(* the calls it still has to make.                                          *)
(***************************************************************************)
EXTENDS Naturals, Sequences, FiniteSets, SequencesExt

CONSTANTS CnProc,      \* the command lines and UI requests that run
          CnSecret,    \* the template's secret fields, in order
          CnRequired,  \* those that must be given
          CnConfig,    \* the template's configuration fields, in order
          CnDefault,   \* those with a default value
          CnPrefixed,  \* fields stored under the template's prefix
          CnAsks,      \* the arguments of the commands that connect; those in empty are given without a value
          CnMaxCmds    \* bound: commands started

VARIABLES cnStore, cnCmd, cnTodo, cnErrs, cnRes, cnBegun, cnAlone, cnDirty
cnVars == <<cnStore, cnCmd, cnTodo, cnErrs, cnRes, cnBegun, cnAlone, cnDirty>>

ASSUME ConnectionsAssumption ==
  /\ CnSecret \in Seq(Range(CnSecret)) /\ CnSecret # <<>> /\ CnConfig \in Seq(Range(CnConfig))
  /\ CnRequired \subseteq Range(CnSecret) /\ Range(CnSecret) \cap {"meta", "custom"} = {}
  /\ IsFiniteSet(CnPrefixed) /\ "none" \notin CnProc

CnPath == Range(CnSecret) \cup Range(CnConfig) \cup CnPrefixed
            \cup {"meta", "fieldmodes", "policy", "custom", "custom_meta"}

\* cnStore: who wrote an entry.  cnAlone[p]: no other command ran since p's
\* last one began.  cnDirty: a deletion failed, was killed or ran beside
\* another command (both are recorded for the properties only).
CnInit == /\ cnStore = [e \in CnPath |-> "none"]
          /\ cnCmd = [p \in CnProc |-> "idle"] /\ cnTodo = [p \in CnProc |-> <<>>]
          /\ cnErrs = [p \in CnProc |-> FALSE] /\ cnRes = [p \in CnProc |-> "none"]
          /\ cnBegun = 0 /\ cnAlone = [p \in CnProc |-> FALSE] /\ cnDirty = FALSE

CnOp(op, e) == [op |-> op, e |-> e]
CnEach(op, es) == [i \in DOMAIN es |-> CnOp(op, es[i])]

\* -- Connect: existence check, secrets, configuration, the metadata last ----
\* Every field of the template has its turn: only a required one that is not given
\* is missed, and only one that has a value is stored.  A required field that is
\* given empty is neither.
SecretOps(given, empty) ==
    [i \in DOMAIN CnSecret |->
        CnOp(CASE CnSecret[i] \in given \ empty -> "set"
               [] CnSecret[i] \in CnRequired \ given -> "missing"
               [] OTHER -> "skip", CnSecret[i])]
ConfigOps(given) ==
    [i \in DOMAIN CnConfig |->
        CnOp(IF CnConfig[i] \in given \cup CnDefault THEN "set" ELSE "skip", CnConfig[i])]
StorePrefixedConfig(given) == CnEach("set", SetToSeq(given \cap CnPrefixed))
ConnectMetaFirst(given, empty) ==
    <<CnOp("absent", "meta"), CnOp("set", "meta")>> \o SecretOps(given, empty)
        \o ConfigOps(given \ empty) \o StorePrefixedConfig(given \ empty)
Connect(given, empty) ==
    <<CnOp("absent", "meta")>> \o SecretOps(given, empty) \o ConfigOps(given \ empty)
        \o StorePrefixedConfig(given \ empty) \o <<CnOp("set", "meta")>>

\* -- Delete: everything, the metadata last, and no stop at an error ---------
Delete == CnEach("del", CnSecret) \o CnEach("del", CnConfig)
            \o <<CnOp("delprefix", "prefix"), CnOp("del", "meta")>>

\* -- Test: metadata, provider call, then LastTested is written back ---------
TestOps == <<CnOp("load", "meta"), CnOp("http", "meta"), CnOp("reread", "meta")>>

CnActive(p) == cnCmd[p] # "idle"
CnDeleting(p) == \E i \in DOMAIN cnTodo[p] : cnTodo[p][i].op \in {"del", "delprefix"}
CnOthers(p) == CnProc \ {p}

CnStart(p, cmd, todo) ==
    /\ ~CnActive(p) /\ cnBegun < CnMaxCmds
    /\ cnBegun' = cnBegun + 1
    /\ cnCmd' = [cnCmd EXCEPT ![p] = cmd] /\ cnTodo' = [cnTodo EXCEPT ![p] = todo]
    /\ cnErrs' = [cnErrs EXCEPT ![p] = FALSE] /\ cnRes' = [cnRes EXCEPT ![p] = "none"]
    /\ cnAlone' = [q \in CnProc |-> q = p /\ \A r \in CnOthers(p) : ~CnActive(r)]
    /\ cnDirty' = (cnDirty \/ \E r \in CnOthers(p) : CnDeleting(r))
    /\ UNCHANGED cnStore

CnEnd(p, res) == /\ cnCmd' = [cnCmd EXCEPT ![p] = "idle"]
                 /\ cnTodo' = [cnTodo EXCEPT ![p] = <<>>]
                 /\ cnRes' = [cnRes EXCEPT ![p] = res]

\* -- Command line -----------------------------------------------------------
\* Fields come from --field, the environment and --provider-ref; a secret in
\* argv and a field given twice are refused before anything is stored.  A field
\* without a value counts as given.
ResolveProviderRefs(ask) == ask.ref \cap (ask.field \cup ask.env) = {}
GivenFields(ask) == ask.field \cup ask.env \cup ask.ref
ConnectCmd(p, ask) ==
    /\ ~ask.argv /\ ResolveProviderRefs(ask)
    /\ CnRequired \subseteq GivenFields(ask)
    /\ CnStart(p, IF ask.test THEN "connect" ELSE "connect_notest", Connect(GivenFields(ask), ask.empty))
ConnectCustomCmd(p) ==
    CnStart(p, "custom", <<CnOp("set", "custom"), CnOp("set", "custom_meta")>>)
DisconnectCmd(p) == CnStart(p, "delete", Delete)

\* -- UI ---------------------------------------------------------------------
UiCreate(p, ask) ==
    CnStart(p, "create", Connect(GivenFields(ask), ask.empty) \o <<CnOp("trymodes", "fieldmodes")>>)
WizardConnect(p) == CnStart(p, "wizard", Connect({Head(CnSecret)}, {}))
UiDelete(p) == CnStart(p, "delete", Delete)
UiTest(p) == CnStart(p, "test", TestOps)
\* The field is stored whether or not there is such a connection.
RotateField(p, f) == CnStart(p, "rotate", <<CnOp("set", f)>>)
\* Modes first, then the fields of mode direct, then the approval policy.
UiUpdate(p, direct, policy) ==
    CnStart(p, "update", <<CnOp("need", "meta"), CnOp("set", "fieldmodes")>>
              \o CnEach("set", direct)
              \o IF policy THEN <<CnOp("set", "policy")>> ELSE <<>>)
\* Everything listed is deleted; a custom connection has no template, so its
\* turn ends the request with an error.
ClearConnections(p) ==
    LET listed == IF cnStore["meta"] = "none" THEN <<>> ELSE Delete
        stuck == <<CnOp("notemplate", "custom_meta")>>
    IN  IF cnStore["custom_meta"] = "none" THEN CnStart(p, "clear", listed)
        ELSE CnStart(p, "clear", stuck) \/ CnStart(p, "clear", listed \o stuck)

\* -- One call of the store ---------------------------------------------------
CnAdvance(p) == /\ cnTodo' = [cnTodo EXCEPT ![p] = Tail(@)]
                /\ UNCHANGED <<cnCmd, cnRes>>
CnPut(e, v) == cnStore' = [cnStore EXCEPT ![e] = v]
CnKeep == UNCHANGED <<cnStore, cnErrs, cnBegun, cnAlone, cnDirty>>
CnHead(p, ops) == cnTodo[p] # <<>> /\ Head(cnTodo[p]).op \in ops
CnAt(p) == Head(cnTodo[p]).e

\* A read that fails counts as an absent connection.
AbsentCheck(p) ==
    /\ CnHead(p, {"absent"})
    /\ \/ CnAdvance(p)
       \/ cnStore["meta"] # "none" /\ CnEnd(p, IF cnCmd[p] = "wizard" THEN "ok" ELSE "exists")
    /\ CnKeep

MissingField(p) ==
    /\ CnHead(p, {"missing", "notemplate"})
    /\ CnEnd(p, "failed") /\ CnKeep

SkipField(p) == CnHead(p, {"skip"}) /\ CnAdvance(p) /\ CnKeep

\* `connect custom` takes its field back when the metadata cannot be written.
StoreSet(p) ==
    /\ CnHead(p, {"set"})
    /\ \/ CnPut(CnAt(p), p) /\ CnAdvance(p)
       \/ /\ UNCHANGED cnStore
          /\ IF cnCmd[p] = "custom" /\ CnAt(p) = "custom_meta"
             THEN /\ cnTodo' = [cnTodo EXCEPT ![p] = <<CnOp("del", "custom")>>]
                  /\ cnCmd' = [cnCmd EXCEPT ![p] = "undo"] /\ UNCHANGED cnRes
             ELSE CnEnd(p, "failed")
    /\ UNCHANGED <<cnErrs, cnBegun, cnAlone, cnDirty>>

SaveFieldModes(p) ==
    /\ CnHead(p, {"trymodes"}) /\ CnAdvance(p)
    /\ \/ CnPut("fieldmodes", p)
       \/ UNCHANGED cnStore
    /\ UNCHANGED <<cnErrs, cnBegun, cnAlone, cnDirty>>

StoreDelete(p) ==
    /\ CnHead(p, {"del", "delprefix"}) /\ CnAdvance(p)
    /\ LET gone == IF Head(cnTodo[p]).op = "delprefix" THEN CnPrefixed ELSE {CnAt(p)}
       IN  \/ /\ cnStore' = [e \in CnPath |-> IF e \in gone THEN "none" ELSE cnStore[e]]
              /\ UNCHANGED cnErrs
              /\ cnDirty' = (cnDirty \/ \E q \in CnOthers(p) : CnActive(q))
           \/ /\ cnErrs' = [cnErrs EXCEPT ![p] = TRUE] /\ cnDirty' = TRUE
              /\ UNCHANGED cnStore
    /\ UNCHANGED <<cnBegun, cnAlone>>

\* -- connections.Test ---------------------------------------------------------
\* A failed test makes `connect` take everything back.
TestFailed(p, res) ==
    IF cnCmd[p] = "testing"
    THEN /\ cnTodo' = [cnTodo EXCEPT ![p] = Delete]
         /\ cnCmd' = [cnCmd EXCEPT ![p] = "rollback"] /\ UNCHANGED cnRes
    ELSE CnEnd(p, res)
LoadConnection(p) ==
    /\ CnHead(p, {"load", "need"})
    /\ \/ cnStore["meta"] # "none" /\ CnAdvance(p)
       \/ TestFailed(p, "missing")
    /\ CnKeep
\* The provider answers: connected, a refusal (LastTested is set all the same
\* and the verdict kept), or no answer at all.
ExecuteTestStrategy(p) ==
    /\ CnHead(p, {"http"})
    /\ \/ CnAdvance(p) /\ UNCHANGED cnErrs
       \/ CnAdvance(p) /\ cnErrs' = [cnErrs EXCEPT ![p] = TRUE]
       \/ TestFailed(p, "failed") /\ UNCHANGED cnErrs
    /\ UNCHANGED <<cnStore, cnBegun, cnAlone, cnDirty>>
\* The metadata is read again, and what was read is written back: the writer is
\* kept in the call that follows.
UpdateLastTested(p) ==
    /\ CnHead(p, {"reread"})
    /\ cnTodo' = [cnTodo EXCEPT ![p] =
                    IF cnStore["meta"] = "none" THEN <<>>
                    ELSE <<[op |-> "writeback", e |-> "meta", v |-> cnStore["meta"]]>>]
    /\ UNCHANGED <<cnCmd, cnRes>> /\ CnKeep
WriteLastTested(p) ==
    /\ CnHead(p, {"writeback"}) /\ CnAdvance(p)
    /\ CnPut("meta", Head(cnTodo[p]).v) \/ UNCHANGED cnStore
    /\ UNCHANGED <<cnErrs, cnBegun, cnAlone, cnDirty>>

\* -- The command has made its last call --------------------------------------
CnFinish(p) ==
    /\ CnActive(p) /\ cnTodo[p] = <<>>
    /\ \/ /\ cnCmd[p] = "connect"
          /\ cnCmd' = [cnCmd EXCEPT ![p] = "testing"]
          /\ cnTodo' = [cnTodo EXCEPT ![p] = TestOps] /\ UNCHANGED cnRes
       \/ /\ cnCmd[p] = "testing"
          /\ IF cnErrs[p] THEN TestFailed(p, "failed") ELSE CnEnd(p, "connected")
       \/ /\ cnCmd[p] \in {"connect_notest", "create", "wizard", "custom"}
          /\ CnEnd(p, "connected")
       \/ cnCmd[p] = "delete" /\ CnEnd(p, IF cnErrs[p] THEN "failed" ELSE "deleted")
       \/ cnCmd[p] = "clear" /\ CnEnd(p, IF cnErrs[p] THEN "failed" ELSE "cleared")
       \/ cnCmd[p] = "rollback" /\ CnEnd(p, IF cnErrs[p] THEN "failed" ELSE "rolled_back")
       \/ cnCmd[p] \in {"update", "rotate", "test"} /\ CnEnd(p, "ok")
       \/ cnCmd[p] = "undo" /\ CnEnd(p, "failed")
    /\ cnErrs' = [cnErrs EXCEPT ![p] = FALSE]
    /\ UNCHANGED <<cnStore, cnBegun, cnAlone, cnDirty>>

\* The process is killed.
CnKill(p) == /\ CnActive(p) /\ CnEnd(p, "killed")
             /\ cnDirty' = (cnDirty \/ CnDeleting(p))
             /\ UNCHANGED <<cnStore, cnErrs, cnBegun, cnAlone>>

CnCall(p) == \/ AbsentCheck(p) \/ MissingField(p) \/ SkipField(p) \/ StoreSet(p) \/ SaveFieldModes(p)
             \/ StoreDelete(p) \/ LoadConnection(p) \/ ExecuteTestStrategy(p)
             \/ UpdateLastTested(p) \/ WriteLastTested(p) \/ CnFinish(p) \/ CnKill(p)
CnNext == \E p \in CnProc :
    \/ \E ask \in CnAsks : ConnectCmd(p, ask) \/ UiCreate(p, ask)
    \/ ConnectCustomCmd(p) \/ DisconnectCmd(p) \/ WizardConnect(p) \/ UiDelete(p) \/ UiTest(p)
    \/ \E f \in Range(CnSecret) : RotateField(p, f)
    \/ \E d \in {<<>>, <<Head(CnSecret)>>}, policy \in BOOLEAN : UiUpdate(p, d, policy)
    \/ ClearConnections(p)
    \/ CnCall(p)

\* A connection that is listed has the fields it cannot work without, however
\* a command that connects fails or is killed and whatever else connects,
\* tests, edits or rotates beside it: the metadata is written last
\* (connect.go:36).  It is not claimed once a deletion failed, was killed, or
\* ran beside another command, nor of a field that some command gives without a
\* value: that passes the checks for a required field and is not stored
\* (connect.go:84-93).
CnNeeded == CnRequired \ UNION {ask.empty : ask \in CnAsks}
ListedComplete ==
    ~cnDirty /\ (\A p \in CnProc : ~CnDeleting(p))
        => (cnStore["meta"] # "none" => \A f \in CnNeeded : cnStore[f] # "none")

\* When `disconnect`, the rollback of `connect` or the UI reports a deletion
\* without error and nothing else ran, none of the entries that Connect writes
\* is left, whatever earlier commands left behind (connect.go:235).
DeletedMeansGone ==
    \A p \in CnProc : cnAlone[p] /\ cnRes[p] \in {"deleted", "rolled_back"} =>
        \A e \in Range(CnSecret) \cup Range(CnConfig) \cup CnPrefixed \cup {"meta"} :
            cnStore[e] = "none"

\* connect, disconnect, rotate and the UI on one connection, failing or killed
\* between two of its entries: what is listed has the required fields that no
\* command gives empty, what is deleted is gone.
\* The parts name the exceptions.
ConnectionsHold == ListedComplete /\ DeletedMeansGone
=============================================================================
