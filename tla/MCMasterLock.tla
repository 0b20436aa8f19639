---------------------------- MODULE MCMasterLock ----------------------------
(* Model-checking instances of MasterLock: threads t1 and t2 share process   *)
(* p1 (and its local_mutex), t3 runs alone in p2.                            *)
EXTENDS MasterLock

CONSTANTS p1, p2, t1, t2, t3

MCProcs == {p1, p2}
MCThreads == {t1, t2, t3}
MCProcOf == [t \in MCThreads |-> IF t = t3 THEN p2 ELSE p1]

MCTwoThreads == {t1, t3}
MCTwoProcOf == [t \in MCTwoThreads |-> IF t = t3 THEN p2 ELSE p1]

AnyWait == BOOLEAN
BoundedWait == {TRUE}
BlockingWait == {FALSE}
=============================================================================
