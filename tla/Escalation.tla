----------------------------- MODULE Escalation -----------------------------
(***************************************************************************)
(* The escalation manager of core/escalation.ts: a circuit breaker per     *)
(* agent, kept in memory and written through to the store, and the gates   *)
(* in front of the high tiers.  Every method is synchronous, so one action *)
(* is one call; time passes between calls.                                 *)
(*                                                                         *)
(* Left out: reasons, recommendations and the count of escalations that    *)
(* reached a gated tier, which nothing but getStats reads.                 *)
(***************************************************************************)
EXTENDS Integers, FiniteSets

CONSTANTS
    Agents, NoAgent,
    EscalationTarget,   \* agent -> the registered agent above it, or NoAgent
    Tier,               \* agent -> tier
    Threshold, Window,  \* circuitBreakerThreshold, circuitBreakerWindow
    Late,               \* agents registered only after loadFromStore
    MaxTime             \* bound: the clock stops here

ASSUME EscalationAssumption ==
    /\ NoAgent \notin Agents /\ {"broken", "none"} \cap Agents = {}
    /\ EscalationTarget \in [Agents -> Agents \cup {NoAgent}]
    /\ Late \subseteq Agents
    /\ Threshold \in Nat \ {0} /\ Window \in Nat /\ MaxTime \in Nat /\ Window < MaxTime

VARIABLES
    now,        \* Date.now()
    records,    \* this.records: agent -> record or NoRecord
    stored,     \* the escalation_records table
    recent      \* history: per agent, the escalations routed in the last window

escVars == <<now, records, stored, recent>>

Priorities == 1..5
Outcomes == {"broken", "none"} \cup Agents
NoRecord == [count |-> 0, last |-> 0]

\* Date.now() is far from 0, so a lastEscalation of 0 is always out of the
\* window: a missing record and a fresh or a reset one are the same.
StartTime == Window + 1

Record == [count : 0..Threshold, last : 0..MaxTime]

\* An escalation that was routed: when, and which of that instant.
Routing == [at : StartTime..MaxTime, nth : Nat \ {0}]

EscTypeOK ==
    /\ now \in StartTime..MaxTime
    /\ records \in [Agents -> Record] /\ stored \in [Agents -> Record]
    /\ recent \in [Agents -> SUBSET Routing]

EscInit ==
    /\ now = StartTime
    /\ records = [a \in Agents |-> NoRecord]
    /\ stored = [a \in Agents |-> NoRecord]
    /\ recent = [a \in Agents |-> {}]

-----------------------------------------------------------------------------
Elapsed(rec) == now - rec.last > Window

NeverBroken(rec) == FALSE                              \* seeded fault: breaker ignored
\* isCircuitBroken(): the window restarts with every recorded escalation.
CircuitBroken(rec) == ~Elapsed(rec) /\ rec.count >= Threshold

\* The gates in front of master and sentinel; other tiers have none.
GateSources(tier) ==
    CASE tier = "master" -> {"manager", "forge", "sentinel"}
      [] tier = "sentinel" -> {"master", "forge"}
      [] OTHER -> {}
CanPassTierGate(a, p, tier) ==
    \/ tier \notin {"master", "sentinel"}
    \/ p >= 4
    \/ Tier[a] \in GateSources(tier)

\* The first agent of getEscalationChain, which skips the agent itself; the
\* walk in escalate() always ends at that one.
FirstTarget(a) == IF EscalationTarget[a] = a THEN NoAgent ELSE EscalationTarget[a]

Route(a, p) ==
    LET t == FirstTarget(a)
    IN IF t # NoAgent /\ CanPassTierGate(a, p, Tier[t]) THEN t ELSE "none"

TripLate(rec) == rec.count > Threshold                 \* seeded fault: off by one
Trips(rec) == rec.count >= Threshold

KeepStored(a, rec) == stored                           \* seeded fault: no write-through
Saved(a, rec) == [stored EXCEPT ![a] = rec]

NextRouting(a) == [at |-> now, nth |-> Cardinality({e \in recent[a] : e.at = now}) + 1]

\* escalate(): a call on an open breaker changes nothing; any other is
\* recorded, saved and then either trips the breaker or is routed.
Escalate(a, p, outcome) ==
    LET base == IF Elapsed(records[a]) THEN [records[a] EXCEPT !.count = 0] ELSE records[a]
        next == [count |-> base.count + 1, last |-> now]
    IN /\ \/ /\ CircuitBroken(base)
             /\ outcome = "broken"
             /\ UNCHANGED <<records, stored, recent>>
          \/ /\ ~CircuitBroken(base)
             /\ outcome = IF Trips(next) THEN "broken" ELSE Route(a, p)
             /\ records' = [records EXCEPT ![a] = next]
             /\ stored' = Saved(a, next)
             /\ recent' = IF outcome \in Agents THEN [recent EXCEPT ![a] = @ \cup {NextRouting(a)}]
                          ELSE recent
       /\ UNCHANGED now

\* resetCircuit(): a human has reviewed the agent; its history starts anew.
ResetCircuit(a) ==
    /\ records' = [records EXCEPT ![a] = NoRecord]
    /\ stored' = [stored EXCEPT ![a] = NoRecord]
    /\ recent' = [recent EXCEPT ![a] = {}]
    /\ UNCHANGED now

PruneAll == records' = [a \in Agents |-> NoRecord]     \* seeded fault: window ignored
PruneStale == records' = [a \in Agents |-> IF Elapsed(records[a]) THEN NoRecord ELSE records[a]]

\* prune() drops records from memory only.
Prune == PruneStale /\ UNCHANGED <<now, stored, recent>>

\* A new process: loadFromStore() asks for the agents registered by then.
Restart ==
    /\ records' = [a \in Agents |-> IF a \in Late THEN NoRecord ELSE stored[a]]
    /\ UNCHANGED <<now, stored, recent>>

Tick ==
    /\ now < MaxTime
    /\ now' = now + 1
    /\ recent' = [a \in Agents |-> {e \in recent[a] : now' - e.at <= Window}]
    /\ UNCHANGED <<records, stored>>

EscNext ==
    \/ \E a \in Agents, p \in Priorities, o \in Outcomes : Escalate(a, p, o)
    \/ \E a \in Agents : ResetCircuit(a)
    \/ Prune \/ Restart \/ Tick

EscSpec == EscInit /\ [][EscNext]_escVars

-----------------------------------------------------------------------------
(* Properties *)

\* A restart cannot open or close a breaker: memory and store agree on every
\* agent that is registered when the records are loaded, also after prune(),
\* which the store never hears of.
BreakerSurvivesRestart ==
    \A a \in Agents \ Late : CircuitBroken(records[a]) = CircuitBroken(stored[a])

\* Between two reviews by a human an agent gets fewer than Threshold
\* escalations through in any window, over restarts and prunes: the module's
\* "prevents runaway escalation loops" (escalation.ts:4).
RateBound ==
    \A a \in Agents \ Late : Cardinality(recent[a]) < Threshold
=============================================================================
