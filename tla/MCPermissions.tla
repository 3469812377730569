--------------------------- MODULE MCPermissions ---------------------------
(* What a request is checked against and served from: gateway tokens,       *)
(* grants, the cache of brokered credentials, and the request path with its *)
(* policy and budget.  They share no state: the variable part picks the one *)
(* that moves, so that TLC explores their state spaces side by side and not *)
(* their product.                                                           *)
EXTENDS GatewayToken, Grants, Broker, GatewayRequest, TLC

CONSTANTS Parts,   \* the components that a run explores
          p1, p2, g1, g2, g3, t1, t2, n1, n2, k1, k2, actor, r1, r2, a1
VARIABLE part

\* tokens: two goroutines of p1, one of p2; t2 is a limited, bound child of t1
TwoAndOne == g1 :> p1 @@ g2 :> p1 @@ g3 :> p2
ChildOf1 == t1 :> None @@ t2 :> t1
Limits == t1 :> 0 @@ t2 :> 2
Bound == t1 :> None @@ t2 :> n1

\* grants: r1 allows two uses, r2 any number
Uses    == (r1 :> 2) @@ (r2 :> 0)
FitsAll == a1 :> {r1, r2}

\* broker: two keys of two sessions and one actor
AllKeys     == {{k1, k2}}
TwoSessions == {{k1}, {k2}}

\* request path: two capabilities, three routes, and policy files of every kind
Limits1And2 == ("spend_per_hour" :> 1) @@ ("spend_per_day" :> 2)

Routes == {[cap |-> k1, secret |-> TRUE,  strategy |-> "static",  deny |-> FALSE, class |-> "plain", ask |-> k1],
           [cap |-> k2, secret |-> TRUE,  strategy |-> "dynamic", deny |-> TRUE,  class |-> "plain", ask |-> k2],
           [cap |-> k2, secret |-> FALSE, strategy |-> "none",    deny |-> FALSE, class |-> "read",  ask |-> k2]}

Rule(fits, runtime, llm, approval) ==
    [fits |-> fits, runtime |-> runtime, llm |-> llm, approval |-> approval, root |-> "none"]
TwoRules == [kind |-> "policy", mode |-> "enforcing", commands |-> FALSE, default_deny |-> TRUE,
             rules |-> <<Rule({k1}, "", "approval_required", FALSE), Rule({k1, k2}, "gateway_sdk", "none", FALSE)>>]
PolicyFiles == {[kind |-> "absent"], [kind |-> "broken"], TwoRules,
          [TwoRules EXCEPT !.mode = "permissive"], [TwoRules EXCEPT !.commands = TRUE]}

\* g1 and g2 do the same in every part: two goroutines of p1, two processes
\* that check grants, two callers of the broker, two requests
Interchangeable == Permutations({g1, g2})

PermInit ==
    /\ part \in Parts
    /\ Init /\ GrInit /\ BkInit /\ GwInit
PermNext ==
    /\ UNCHANGED part
    /\ \/ part = "token"   /\ Next   /\ UNCHANGED <<grVars, bkVars, gwVars>>
       \/ part = "grant"   /\ GrNext /\ UNCHANGED <<vars, bkVars, gwVars>>
       \/ part = "broker"  /\ BkNext /\ UNCHANGED <<vars, grVars, gwVars>>
       \/ part = "request" /\ GwNext /\ UNCHANGED <<vars, grVars, bkVars>>
       \* grants may all be unused for good, and a gateway without requests
       \/ part \in {"grant", "request"} /\ UNCHANGED <<vars, grVars, bkVars, gwVars>>
PermSpec == PermInit /\ [][PermNext]_<<part, vars, grVars, bkVars, gwVars>>
=============================================================================
