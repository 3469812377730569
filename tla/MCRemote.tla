------------------------------ MODULE MCRemote ------------------------------
(* Instances of RemoteStore for TLC: a goroutine that reads and writes and   *)
(* one that reads, over each backend in turn.                                *)
EXTENDS RemoteStore, TLC

CONSTANTS g1, g2, s1, s2

SecretSymm == Permutations(Secret)
=============================================================================
