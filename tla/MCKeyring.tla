----------------------------- MODULE MCKeyring -----------------------------
(* Instances of Keyring for TLC: one thread per process, or two threads of  *)
(* one process.                                                             *)
EXTENDS Keyring, TLC

CONSTANTS p1, p2, k1, k2

OneThreadEach == [th \in {p1, p2} |-> th]
TwoThreads    == [th \in {p1, p2} |-> p1]
Symm == Permutations({p1, p2})
=============================================================================
