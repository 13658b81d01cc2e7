-------------------------- MODULE MCMaintenanceLock --------------------------
EXTENDS MaintenanceLockProofs, TLC

CONSTANTS p1, p2, p3, p4

\* p1 and p3 run under the same pid, one after the other.
ReusedPid == [p \in Proc |-> IF p = p3 THEN p1 ELSE p]

\* Processes that share their pid or share none can be exchanged.
Alike == Permutations({p1, p3}) \cup Permutations({p2, p4})
=============================================================================
