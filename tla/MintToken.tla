----------------------------- MODULE MintToken ------------------------------
(***************************************************************************)
(* `keylatch mint`: a GitHub App installation token for one repository,     *)
(* checked against the operator's policy, issued by GitHub, compared with   *)
(* the request, recorded in the audit log and only then printed             *)
(* (internal/cli/mint_cmd.go, internal/policy/mint,                         *)
(* internal/broker/strategies/github_app.go).                               *)
(***************************************************************************)
EXTENDS Naturals

CONSTANTS MtAsk,      \* requests: [caller, owner, repo, level]
          MtPolicy,   \* the operator's policies, and the record [kind |-> "none"]
          MtReply     \* replies of GitHub: [repos, level, ttl]

VARIABLES mtAt, mtAsk, mtPolicy, mtReply, mtToken, mtLine, mtResult
mtVars == <<mtAt, mtAsk, mtPolicy, mtReply, mtToken, mtLine, mtResult>>

\* mtToken: "none", "live" or "revoked", at GitHub; mtLine: the audit line.
MtInit == /\ mtAt = "start" /\ mtToken = "none" /\ mtLine = "none" /\ mtResult = "none"
          /\ mtAsk = CHOOSE r \in MtAsk : TRUE
          /\ mtPolicy = CHOOSE p \in MtPolicy : TRUE
          /\ mtReply = CHOOSE r \in MtReply : TRUE

LevelRank(l) == CASE l = "read" -> 1 [] l = "write" -> 2 [] l = "admin" -> 3 [] OTHER -> 0
MaxTTL == 2   \* MaxGitHubAppTokenLifetime, in half hours
MaxLifetime(p) == IF p.max = 0 THEN MaxTTL ELSE p.max

\* An agent never mints, and a policy that names agents is invalid as a whole.
ValidPolicy(p) == p.max <= MaxTTL /\ "agent" \notin p.callers

CheckGitHubApp(p, r) ==
    /\ r.caller # "agent" /\ p.kind = "policy" /\ ValidPolicy(p)
    /\ r.caller \in IF p.callers = {} THEN {"service", "host"} ELSE p.callers
    /\ r.owner \notin p.deny /\ r.owner \in p.allow
    /\ LevelRank(r.level) \in 1 .. LevelRank(p.ceiling)

VerifyReply(r, reply, max) ==
    reply.repos = {r.repo} /\ reply.level = r.level /\ reply.ttl \in 1 .. max

MtEnd(why) == mtAt' = "ended" /\ mtResult' = why

\* The policy is checked before the key is read; the audit log must be ready.
MintCheck(p, r) ==
    /\ mtAt = "start"
    /\ mtAsk' = r /\ mtPolicy' = p
    /\ IF ~CheckGitHubApp(p, r) THEN MtEnd("refused")
       ELSE \/ mtAt' = "post" /\ UNCHANGED mtResult
            \/ \E why \in {"not_ready", "no_credential"} : MtEnd(why)
    /\ UNCHANGED <<mtReply, mtToken, mtLine>>

\* GitHub refuses, or issues the token; the reply may be lost or unreadable, and
\* then nobody knows the token that was issued.
PostAccessToken ==
    /\ mtAt = "post"
    /\ \/ MtEnd("github_error") /\ mtLine' = "error" /\ UNCHANGED mtToken
       \/ MtEnd("github_error") /\ mtLine' = "error" /\ mtToken' = "live"
       \/ mtAt' = "verify" /\ mtToken' = "live" /\ UNCHANGED <<mtLine, mtResult>>
    /\ mtReply' \in MtReply
    /\ UNCHANGED <<mtAsk, mtPolicy>>

\* Revoke, the reason for it, and what the command reports.
MtRevoke(line, done, failed) ==
    /\ mtLine' = line
    /\ \/ mtToken' = "revoked" /\ MtEnd(done)
       \/ UNCHANGED mtToken /\ MtEnd(failed)

\* A token that is not exactly what was asked for is revoked at once.
MintScoped ==
    /\ mtAt = "verify"
    /\ IF VerifyReply(mtAsk, mtReply, MaxLifetime(mtPolicy))
       THEN mtAt' = "audit" /\ UNCHANGED <<mtToken, mtLine, mtResult>>
       ELSE MtRevoke("error", "mismatch", "mismatch_unrevoked")
    /\ UNCHANGED <<mtAsk, mtPolicy, mtReply>>

\* Without its audit line the token is revoked.
MintAuditForget ==
    /\ mtAt = "audit"
    /\ \/ mtAt' = "print" /\ mtLine' = "ok" /\ UNCHANGED <<mtToken, mtResult>>
       \/ MtEnd("unaudited") /\ UNCHANGED <<mtToken, mtLine>>
    /\ UNCHANGED <<mtAsk, mtPolicy, mtReply>>
MintAudit ==
    /\ mtAt = "audit"
    /\ \/ mtAt' = "print" /\ mtLine' = "ok" /\ UNCHANGED <<mtToken, mtResult>>
       \/ MtRevoke("none", "unaudited", "unaudited_unrevoked")
    /\ UNCHANGED <<mtAsk, mtPolicy, mtReply>>

MintPrint ==
    /\ mtAt = "print"
    /\ MtEnd("printed") \/ MtEnd("write_failed")
    /\ UNCHANGED <<mtAsk, mtPolicy, mtReply, mtToken, mtLine>>

MtNext == \/ \E p \in MtPolicy, r \in MtAsk : MintCheck(p, r)
         \/ PostAccessToken \/ MintScoped \/ MintAudit \/ MintPrint
MtSpec == MtInit /\ [][MtNext]_mtVars
-----------------------------------------------------------------------------
\* A token that reaches the caller is the one the operator's policy allows: one
\* repository of an allowed owner, no level above the ceiling even when GitHub's
\* reply grants more, no longer life than max_ttl, no agent, and an audit line.
PrintedWithinPolicy ==
    mtResult = "printed" =>
        /\ mtAsk.caller # "agent" /\ mtAsk.owner \in mtPolicy.allow \ mtPolicy.deny
        /\ mtReply.repos = {mtAsk.repo}
        /\ LevelRank(mtReply.level) \in 1 .. LevelRank(mtPolicy.ceiling)
        /\ mtReply.ttl \in 1 .. MaxLifetime(mtPolicy)
        /\ mtLine = "ok"

\* A mint that fails leaves no usable token behind, unless GitHub's reply never
\* arrived, the revocation itself failed or the result could not be written.
FailedMintRevoked ==
    mtAt = "ended" /\ mtToken = "live" =>
        mtResult \in {"printed", "github_error", "mismatch_unrevoked", "unaudited_unrevoked", "write_failed"}

\* github mint, whatever GitHub replies and whichever step fails: the caller
\* gets a token within the policy, or none that is still valid is left behind.
\* The parts name the exceptions.
MintHolds == PrintedWithinPolicy /\ FailedMintRevoked
=============================================================================
