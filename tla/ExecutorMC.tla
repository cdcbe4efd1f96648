----------------------------- MODULE ExecutorMC -----------------------------
(* Two agents that escalate to one another, for TLC: the worst case for the *)
(* depth limit.  The lead is reached through a transport.                    *)
EXTENDS Executor

CONSTANTS worker, lead

Mutual == [a \in Agents |-> IF a = worker THEN lead ELSE worker]
Ranks == [a \in Agents |-> IF a = worker THEN "worker" ELSE "manager"]
NobodyLate == {}
LeadOnly == {lead}
=============================================================================
