------------------------------ MODULE Consent ------------------------------
(***************************************************************************)
(* What human approval promises, without files, processes or clocks: a     *)
(* human agrees to contents of a request, and a request is spent at most   *)
(* once, on a content that somebody agreed to before.  Agreements are      *)
(* never taken back.  Approval implements it.                              *)
(***************************************************************************)
EXTENDS Naturals

CONSTANTS Requests, Contents

VARIABLES consent,   \* consent[r]: the contents somebody agreed to
          times,     \* times[r]: how often r was spent
          given      \* given[r]: the contents r was spent on

consentVars == <<consent, times, given>>

ConsentInit ==
    /\ consent = [r \in Requests |-> {}]
    /\ times = [r \in Requests |-> 0] /\ given = [r \in Requests |-> {}]

Agree(r, c) ==
    /\ consent' = [consent EXCEPT ![r] = @ \cup {c}]
    /\ UNCHANGED <<times, given>>

Spend(r, c) ==
    /\ c \in consent[r] /\ times[r] = 0
    /\ times' = [times EXCEPT ![r] = 1]
    /\ given' = [given EXCEPT ![r] = @ \cup {c}]
    /\ UNCHANGED consent

ConsentNext == \E r \in Requests, c \in Contents : Agree(r, c) \/ Spend(r, c)

ConsentSpec == ConsentInit /\ [][ConsentNext]_consentVars
=============================================================================
