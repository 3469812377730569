----------------------------- MODULE MCAuditLog -----------------------------
\* Instances of AuditLog for TLC.
EXTENDS AuditLog, TLC

CONSTANTS p1, p2

Symm == Permutations(Proc)
=============================================================================
