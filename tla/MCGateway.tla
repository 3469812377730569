----------------------------- MODULE MCGateway -----------------------------
(***************************************************************************)
(* Approvals, agent sessions and the process of the gateway.  They share    *)
(* no state: the variable part picks the component of a behaviour, and only *)
(* that component moves.                                                    *)
(***************************************************************************)
EXTENDS Approval,
        AgentSession,
        GatewayProcess, TLC

VARIABLE part   \* the component this behaviour is about

CONSTANTS a1, a2, a3, p1, p2, p3, init1

\* approval
ApprovalSymm == Permutations(Thread) \cup Permutations(Content) \cup Permutations(Key)

GatewayParts == {"approval", "session", "gatewayproc"}

GatewayInit ==
    /\ part \in GatewayParts
    /\ Init
    /\ LsStartInit
    /\ GpInit /\ (part # "gatewayproc" => gpHost = "unix")

GatewayNext ==
  \/ part = "approval" /\ Next
     /\ UNCHANGED <<part, lsVars, gpVars>>
  \/ part = "session" /\ LsNext
     /\ UNCHANGED <<part, vars, gpVars>>
  \/ part = "gatewayproc" /\ GpNext
     /\ UNCHANGED <<part, vars, lsVars>>

GatewayVars == <<part, vars, lsVars, gpVars>>
GatewaySpec == GatewayInit /\ [][GatewayNext]_GatewayVars
=============================================================================
