---------------------------- MODULE WorkerPoolMC ----------------------------
(* Small instances of WorkerPool for TLC. *)
EXTENDS WorkerPool

CONSTANTS t1, t2, t3

OneUrgent == [t \in Tasks |-> IF t = t3 THEN 5 ELSE 3]
NoneLong == {}
OneLong == {t1}
=============================================================================
