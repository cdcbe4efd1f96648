--------------------------- MODULE ServicesProofs ---------------------------
(***************************************************************************)
(* Proofs about the services: the breakers of the escalation manager, the  *)
(* fleet and the installer of powers, the limits of reactions, providers   *)
(* and batches, and what the router and the retrieval index answer from    *)
(* their caches.                                                           *)
(* A behaviour moves one part, so each component has its own inductive     *)
(* invariant, and the theorems put them together.                          *)
(***************************************************************************)
EXTENDS ServicesCore, FiniteSetTheorems, SequenceTheorems, TLAPS

-----------------------------------------------------------------------------
(* The escalation manager *)

\* Memory and store agree on an agent, or memory has forgotten a record that no longer
\* counts; what was routed was recorded, in the window of the record and under its count.
BreakerOf(a) ==
    /\ records[a] = stored[a] \/ (records[a] = NoRecord /\ Elapsed(stored[a]))
    /\ Elapsed(stored[a]) => recent[a] = {}
    /\ Cardinality(recent[a]) <= stored[a].count /\ Cardinality(recent[a]) < Threshold
EscInv ==
    /\ EscTypeOK
    /\ \A a \in Agents : /\ IsFiniteSet(recent[a])
                         /\ stored[a].last <= now
                         /\ \A e \in recent[a] : e.at <= stored[a].last
    /\ \A a \in Agents \ Late : BreakerOf(a)

LEMMA TimeFacts == /\ StartTime \in Nat /\ StartTime = Window + 1 /\ StartTime <= MaxTime
                   /\ MaxTime \in Nat /\ Window \in Nat /\ Threshold \in Nat \ {0}
                   /\ NoRecord \in Record /\ NoRecord.count = 0 /\ NoRecord.last = 0
  BY EscalationAssumption DEF StartTime, NoRecord, Record

LEMMA EscInitInv == EscInit => EscInv
<1> SUFFICES ASSUME EscInit PROVE EscInv
  OBVIOUS
<1>1. Cardinality({}) = 0 /\ IsFiniteSet({})
  BY FS_EmptySet
<1>2. EscTypeOK
  BY TimeFacts DEF EscInit, EscTypeOK
<1> QED BY <1>1, <1>2, TimeFacts DEF EscInit, EscInv, BreakerOf, Elapsed

LEMMA EscalateInv ==
    ASSUME EscInv, NEW a \in Agents, NEW p \in Priorities, NEW o \in Outcomes, Escalate(a, p, o)
    PROVE  EscInv'
<1> DEFINE base == IF Elapsed(records[a]) THEN [records[a] EXCEPT !.count = 0] ELSE records[a]
           noted == [count |-> base.count + 1, last |-> now]
<1>1. /\ records \in [Agents -> Record] /\ stored \in [Agents -> Record] /\ now \in StartTime..MaxTime
      /\ recent \in [Agents -> SUBSET Routing] /\ now' = now
      /\ records[a] \in Record
  BY DEF EscInv, EscTypeOK, Escalate
<1>2. CASE UNCHANGED <<records, stored, recent>>
  BY <1>1, <1>2 DEF EscInv, EscTypeOK, BreakerOf, Elapsed
<1>3. CASE /\ ~CircuitBroken(base)
           /\ o = IF Trips(noted) THEN "broken" ELSE Route(a, p)
           /\ records' = [records EXCEPT ![a] = noted]
           /\ stored' = Saved(a, noted)
           /\ recent' = IF o \in Agents THEN [recent EXCEPT ![a] = @ \cup {NextRouting(a)}] ELSE recent
  <2>1. /\ base \in Record /\ base.count \in 0..Threshold /\ base.last = records[a].last
        /\ base.count = IF Elapsed(records[a]) THEN 0 ELSE records[a].count
    BY <1>1, TimeFacts DEF Record
  <2>2. base.count < Threshold
    BY <1>3, <2>1, TimeFacts DEF CircuitBroken, Elapsed
  <2> HIDE DEF base
  <2>3. noted \in Record /\ noted.count = base.count + 1 /\ noted.last = now
    BY <1>1, <2>1, <2>2, TimeFacts DEF Record
  <2>4. o \in Agents => noted.count < Threshold
    BY <1>3, <2>3, EscalationAssumption DEF Trips, Record
  <2> HIDE DEF noted
  <2>5. stored' = [stored EXCEPT ![a] = noted]
    BY <1>3 DEF Saved
  <2> DEFINE S == recent[a]
             e == NextRouting(a)
  <2>6. IsFiniteSet(S) /\ Cardinality(S) \in Nat
    BY FS_CardinalityType DEF EscInv
  <2>7. e \in Routing /\ e.at = now
    <3>1. Cardinality({x \in S : x.at = now}) \in Nat
      BY <2>6, FS_Subset, FS_CardinalityType
    <3> QED BY <1>1, <3>1 DEF NextRouting, Routing
  <2> HIDE DEF e
  <2>8. IsFiniteSet(S \cup {e}) /\ Cardinality(S \cup {e}) \in Nat /\ Cardinality(S \cup {e}) <= Cardinality(S) + 1
    BY <2>6, FS_AddElement, FS_CardinalityType
  <2>9. recent'[a] = IF o \in Agents THEN S \cup {e} ELSE S
    BY <1>1, <1>3 DEF e
  <2>10. EscTypeOK'
    BY <1>1, <1>3, <2>3, <2>5, <2>7 DEF EscTypeOK, e
  <2>11. \A b \in Agents : b # a => UNCHANGED <<records[b], stored[b], recent[b]>>
    BY <1>1, <1>3, <2>5
  <2>12. records'[a] = noted /\ stored'[a] = noted
    BY <1>1, <1>3, <2>5
  <2>13. /\ \A b \in Agents : IsFiniteSet(recent'[b]) /\ stored'[b].last <= now'
         /\ \A b \in Agents : \A x \in recent'[b] : x.at <= stored'[b].last
    <3>1. \A x \in S : x.at \in Nat /\ x.at <= stored[a].last /\ stored[a].last \in Nat /\ stored[a].last <= now
      BY <1>1, TimeFacts DEF EscInv, Routing, Record
    <3>2. IsFiniteSet(recent'[a]) /\ stored'[a].last <= now' /\ \A x \in recent'[a] : x.at <= stored'[a].last
      BY <1>1, <2>3, <2>6, <2>7, <2>8, <2>9, <2>12, <3>1, TimeFacts
    <3> QED BY <1>1, <2>11, <3>2 DEF EscInv
  <2>14. ASSUME NEW b \in Agents \ Late PROVE BreakerOf(b)'
    <3>1. CASE b # a
      BY <1>1, <2>11, <2>14, <3>1 DEF EscInv, BreakerOf, Elapsed
    <3>2. CASE b = a
      <4>1. ~(now' - stored'[a].last > Window)
        BY <1>1, <2>3, <2>12, TimeFacts
      <4>2. Cardinality(S) <= base.count
        <5>1. Elapsed(records[a]) => Elapsed(stored[a])
          BY <2>14, <3>2 DEF EscInv, BreakerOf
        <5>2. ~Elapsed(records[a]) => records[a] = stored[a]
          BY <1>1, <2>14, <3>2, TimeFacts DEF EscInv, BreakerOf, Elapsed
        <5>3. Elapsed(stored[a]) => Cardinality(S) = 0
          BY <2>14, <3>2, FS_EmptySet DEF EscInv, BreakerOf
        <5> QED BY <2>1, <2>14, <3>2, <5>1, <5>2, <5>3 DEF EscInv, BreakerOf
      <4>3. Cardinality(S) < Threshold
        BY <2>14, <3>2 DEF EscInv, BreakerOf
      <4>4. Cardinality(recent'[a]) <= noted.count /\ Cardinality(recent'[a]) < Threshold
        BY <2>1, <2>3, <2>4, <2>6, <2>8, <2>9, <4>2, <4>3, TimeFacts
      <4> QED BY <2>12, <3>2, <4>1, <4>4 DEF BreakerOf, Elapsed
    <3> QED BY <3>1, <3>2
  <2> QED BY <2>10, <2>13, <2>14 DEF EscInv
<1> QED BY <1>2, <1>3 DEF Escalate

LEMMA ResetInv == ASSUME EscInv, NEW a \in Agents, ResetCircuit(a) PROVE EscInv'
<1>1. /\ records \in [Agents -> Record] /\ stored \in [Agents -> Record] /\ now' = now /\ now \in Nat
      /\ recent \in [Agents -> SUBSET Routing]
      /\ records' = [records EXCEPT ![a] = NoRecord] /\ stored' = [stored EXCEPT ![a] = NoRecord]
      /\ recent' = [recent EXCEPT ![a] = {}]
  BY TimeFacts DEF EscInv, EscTypeOK, ResetCircuit
<1>2. Cardinality({}) = 0 /\ IsFiniteSet({})
  BY FS_EmptySet
<1>3. EscTypeOK'
  BY <1>1, TimeFacts DEF EscInv, EscTypeOK
<1>4. \A b \in Agents \ Late : BreakerOf(b)'
  BY <1>1, <1>2, TimeFacts DEF EscInv, BreakerOf, Elapsed
<1> QED BY <1>1, <1>2, <1>3, <1>4, TimeFacts DEF EscInv

LEMMA PruneInv == ASSUME EscInv, Prune PROVE EscInv'
<1>1. /\ records \in [Agents -> Record] /\ UNCHANGED <<now, stored, recent>>
      /\ records' = [b \in Agents |-> IF Elapsed(records[b]) THEN NoRecord ELSE records[b]]
  BY DEF EscInv, EscTypeOK, Prune, PruneStale
<1>2. EscTypeOK'
  BY <1>1, TimeFacts DEF EscInv, EscTypeOK
<1>3. ASSUME NEW b \in Agents \ Late PROVE BreakerOf(b)'
  <2>1. records'[b] = records[b] \/ (records'[b] = NoRecord /\ Elapsed(records[b]))
    BY <1>1
  <2> QED BY <1>1, <2>1 DEF EscInv, BreakerOf, Elapsed
<1> QED BY <1>1, <1>2, <1>3 DEF EscInv

LEMMA RestartInv == ASSUME EscInv, Restart PROVE EscInv'
<1>1. /\ UNCHANGED <<now, stored, recent>>
      /\ records' = [b \in Agents |-> IF b \in Late THEN NoRecord ELSE stored[b]]
  BY DEF Restart
<1>2. EscTypeOK'
  BY <1>1, TimeFacts DEF EscInv, EscTypeOK
<1>3. ASSUME NEW b \in Agents \ Late PROVE BreakerOf(b)'
  <2>1. records'[b] = stored[b]
    BY <1>1
  <2> QED BY <1>1, <2>1 DEF EscInv, BreakerOf, Elapsed
<1> QED BY <1>1, <1>2, <1>3 DEF EscInv

LEMMA TickInv == ASSUME EscInv, Tick PROVE EscInv'
<1>1. /\ now \in Nat /\ now' = now + 1 /\ now' \in StartTime..MaxTime /\ UNCHANGED <<records, stored>>
      /\ recent' = [b \in Agents |-> {e \in recent[b] : now' - e.at <= Window}]
      /\ stored \in [Agents -> Record] /\ recent \in [Agents -> SUBSET Routing]
  BY TimeFacts DEF EscInv, EscTypeOK, Tick
<1>2. \A b \in Agents : recent'[b] \subseteq recent[b] /\ \A e \in recent'[b] : now' - e.at <= Window
  BY <1>1
<1>3. EscTypeOK'
  BY <1>1, <1>2 DEF EscInv, EscTypeOK
<1>4. \A b \in Agents : stored[b].last \in Nat /\ stored[b].count \in Nat /\ \A e \in recent[b] : e.at \in Nat
  BY <1>1, TimeFacts DEF Record, Routing
<1>5. \A b \in Agents : /\ IsFiniteSet(recent[b]) /\ IsFiniteSet(recent'[b])
                        /\ Cardinality(recent'[b]) <= Cardinality(recent[b])
                        /\ Cardinality(recent[b]) \in Nat /\ Cardinality(recent'[b]) \in Nat
  BY <1>2, FS_Subset, FS_CardinalityType DEF EscInv
<1>6. ASSUME NEW b \in Agents \ Late PROVE BreakerOf(b)'
  <2>1. records[b] = stored[b] \/ (records[b] = NoRecord /\ Elapsed(stored[b])')
    BY <1>1, <1>4, TimeFacts DEF EscInv, BreakerOf, Elapsed
  <2>2. Elapsed(stored[b])' => recent'[b] = {}
    <3>1. \A e \in recent'[b] : e.at <= stored[b].last
      BY <1>2 DEF EscInv
    <3>2. \A e \in recent'[b] : now' - e.at <= Window /\ e.at \in Nat
      BY <1>2, <1>4
    <3> QED BY <1>1, <1>4, <3>1, <3>2, TimeFacts DEF Elapsed
  <2>3. Cardinality(recent'[b]) <= stored[b].count /\ Cardinality(recent'[b]) < Threshold
    BY <1>4, <1>5, TimeFacts DEF EscInv, BreakerOf
  <2> QED BY <1>1, <2>1, <2>2, <2>3 DEF BreakerOf, Elapsed
<1>7. \A b \in Agents : stored'[b].last <= now' /\ \A e \in recent'[b] : e.at <= stored'[b].last
  BY <1>1, <1>2, <1>4 DEF EscInv
<1> QED BY <1>3, <1>5, <1>6, <1>7 DEF EscInv

LEMMA EscStep == EscInv /\ [EscNext]_escVars => EscInv'
<1> SUFFICES ASSUME EscInv, [EscNext]_escVars PROVE EscInv'
  OBVIOUS
<1>1. CASE EscNext
  BY <1>1, EscalateInv, ResetInv, PruneInv, RestartInv, TickInv DEF EscNext
<1>2. CASE UNCHANGED escVars
  BY <1>2 DEF escVars, EscInv, EscTypeOK, BreakerOf, Elapsed
<1> QED BY <1>1, <1>2

LEMMA EscHolds == EscInv => EscTypeOK /\ BreakerSurvivesRestart /\ RateBound
<1> SUFFICES ASSUME EscInv PROVE BreakerSurvivesRestart /\ RateBound
  BY DEF EscInv
<1>1. RateBound
  BY DEF EscInv, BreakerOf, RateBound
<1>2. ASSUME NEW a \in Agents \ Late PROVE CircuitBroken(records[a]) = CircuitBroken(stored[a])
  <2>1. now \in Nat /\ now >= StartTime
    BY TimeFacts DEF EscInv, EscTypeOK
  <2> QED BY <2>1, TimeFacts DEF EscInv, BreakerOf, CircuitBroken, Elapsed
<1> QED BY <1>1, <1>2 DEF BreakerSurvivesRestart

-----------------------------------------------------------------------------
(* Reactions *)

\* The messages that fired rule r, or passed it.
Past(r) == {m \in Signals : position[m] > r \/ (position[m] = r /\ m \in awaiting)}

\* The counters are those of the firings so far: the last one is the time remembered, and
\* each was of another message.
CountersOf(r) ==
    /\ fireCount[r] = Len(fires[r]) /\ lastFiredAt[r] <= instant
    /\ IF fires[r] = <<>> THEN lastFiredAt[r] = 0 ELSE lastFiredAt[r] = fires[r][Len(fires[r])]
LimitsOf(r) ==
    /\ MaxFires > 0 => Len(fires[r]) <= MaxFires
    /\ \A i \in 1..Len(fires[r]) - 1 : fires[r][i + 1] - fires[r][i] >= CooldownMs
    /\ Len(fires[r]) <= Cardinality(Past(r))
ReactInv ==
    /\ Reactions!ReactTypeOK
    /\ \A m \in awaiting : position[m] \in 1..RuleCount
    /\ \A r \in 1..RuleCount : CountersOf(r) /\ LimitsOf(r)

LEMMA ReactFacts == /\ RuleCount \in Nat /\ CooldownMs \in Nat /\ MaxFires \in Nat /\ MaxInstant \in Nat \ {0}
                    /\ IsFiniteSet(Signals) /\ Cardinality(Signals) \in Nat
                    /\ Reactions!Cardinality(Signals) = Cardinality(Signals)
  BY ServicesAssumption, FS_CardinalityType DEF Reactions!Cardinality, Cardinality

LEMMA PastFacts == ASSUME NEW r PROVE /\ IsFiniteSet(Past(r)) /\ Cardinality(Past(r)) \in Nat
                                      /\ Cardinality(Past(r)) <= Cardinality(Signals)
<1>1. Past(r) \subseteq Signals
  BY DEF Past
<1> QED BY <1>1, ReactFacts, FS_Subset, FS_CardinalityType

LEMMA ReactInitInv == Reactions!ReactInit => ReactInv
<1> SUFFICES ASSUME Reactions!ReactInit PROVE ReactInv
  OBVIOUS
<1>1. Reactions!ReactTypeOK
  <2>1. 0 \in 0..Reactions!Cardinality(Signals) /\ 0 \in 0..MaxInstant /\ 1 \in 1..MaxInstant
        /\ 0 \in 0..RuleCount + 1 /\ <<>> \in Seq(1..MaxInstant)
    BY ReactFacts
  <2> QED BY <2>1 DEF Reactions!ReactInit, Reactions!ReactTypeOK, Reactions!Rules
<1>2. ASSUME NEW r \in 1..RuleCount PROVE CountersOf(r) /\ LimitsOf(r)
  <2>1. fires[r] = <<>> /\ Len(fires[r]) = 0 /\ fireCount[r] = 0 /\ lastFiredAt[r] = 0 /\ instant = 1
    BY DEF Reactions!ReactInit, Reactions!Rules
  <2> QED BY <2>1, ReactFacts, PastFacts DEF CountersOf, LimitsOf
<1> QED BY <1>1, <1>2 DEF Reactions!ReactInit, ReactInv

\* What leaves the counters alone keeps the invariant when no message returns to an earlier rule.
LEMMA KeepsCounters ==
    ASSUME ReactInv, Reactions!ReactTypeOK', UNCHANGED <<lastFiredAt, fireCount, fires>>, instant' >= instant,
           \A m \in awaiting' : position'[m] \in 1..RuleCount,
           \A r \in 1..RuleCount : Past(r) \subseteq Past(r)'
    PROVE  ReactInv'
<1>1. \A r \in 1..RuleCount : CountersOf(r)'
  BY ReactFacts DEF ReactInv, CountersOf, Reactions!ReactTypeOK, Reactions!Rules
<1>2. ASSUME NEW r \in 1..RuleCount PROVE LimitsOf(r)'
  <2>1. Past(r)' \subseteq Signals
    BY DEF Past
  <2>2. Cardinality(Past(r)) <= Cardinality(Past(r)') /\ Cardinality(Past(r)') \in Nat /\ Cardinality(Past(r)) \in Nat
    BY <2>1, ReactFacts, PastFacts, FS_Subset, FS_CardinalityType
  <2>3. Len(fires[r]) <= Cardinality(Past(r)) /\ Len(fires[r]) \in Nat
    BY DEF ReactInv, LimitsOf, Reactions!ReactTypeOK, Reactions!Rules
  <2>4. Len(fires'[r]) <= Cardinality(Past(r)')
    BY <2>2, <2>3
  <2> QED BY <2>4 DEF ReactInv, LimitsOf
<1> QED BY <1>1, <1>2 DEF ReactInv

\* A message goes on to the next rule.
LEMMA GoesOn ==
    ASSUME ReactInv, NEW m \in Signals, position[m] \in 0..RuleCount,
           position' = [position EXCEPT ![m] = @ + 1],
           UNCHANGED <<subscribed, ruleEnabled, lastFiredAt, fireCount, instant, fires>>,
           \/ m \notin awaiting /\ awaiting' = awaiting
           \/ m \in awaiting /\ awaiting' = awaiting \ {m}
    PROVE  ReactInv'
<1> USE DEF Reactions!Rules
<1>1. /\ position \in [Signals -> 0..RuleCount + 1] /\ instant \in 1..MaxInstant /\ awaiting \subseteq Signals
      /\ \A n \in awaiting : position[n] \in 1..RuleCount
  BY DEF ReactInv, Reactions!ReactTypeOK
<1>2. position[m] + 1 \in 0..RuleCount + 1
  BY ReactFacts
<1>3. Reactions!ReactTypeOK'
  BY <1>1, <1>2 DEF ReactInv, Reactions!ReactTypeOK
<1>4. \A n \in awaiting' : n # m /\ n \in awaiting /\ position'[n] = position[n]
  BY <1>1
<1>5. ASSUME NEW r \in 1..RuleCount PROVE Past(r) \subseteq Past(r)'
  BY <1>1, ReactFacts DEF Past
<1> QED BY <1>1, <1>3, <1>4, <1>5, KeepsCounters

LEMMA ReactMoves ==
    ASSUME ReactInv,
           \/ Reactions!StartEngine \/ Reactions!StopEngine \/ Reactions!InstantPasses
           \/ \E r \in Reactions!Rules : Reactions!SetRuleEnabled(r)
           \/ \E m \in Signals : Reactions!Receives(m) \/ Reactions!Skips(m) \/ Reactions!HandlerEnds(m)
    PROVE  ReactInv'
<1> USE DEF Reactions!Rules
<1>1. /\ position \in [Signals -> 0..RuleCount + 1] /\ instant \in 1..MaxInstant /\ awaiting \subseteq Signals
      /\ \A m \in awaiting : position[m] \in 1..RuleCount
  BY DEF ReactInv, Reactions!ReactTypeOK
<1>2. CASE UNCHANGED <<position, awaiting>>
  <2>1. UNCHANGED <<lastFiredAt, fireCount, fires>>
    BY DEF Reactions!StartEngine, Reactions!StopEngine, Reactions!InstantPasses,
           Reactions!SetRuleEnabled, Reactions!Receives, Reactions!Skips, Reactions!HandlerEnds
  <2>2. instant' \in 1..MaxInstant /\ instant' >= instant
    BY <1>1, ReactFacts
       DEF Reactions!StartEngine, Reactions!StopEngine, Reactions!InstantPasses,
           Reactions!SetRuleEnabled, Reactions!Receives, Reactions!Skips, Reactions!HandlerEnds
  <2>3. subscribed' \in BOOLEAN /\ ruleEnabled' \in [1..RuleCount -> BOOLEAN]
    BY DEF ReactInv, Reactions!ReactTypeOK, Reactions!StartEngine, Reactions!StopEngine, Reactions!InstantPasses,
           Reactions!SetRuleEnabled, Reactions!Receives, Reactions!Skips, Reactions!HandlerEnds
  <2>4. Reactions!ReactTypeOK'
    BY <1>2, <2>1, <2>2, <2>3 DEF ReactInv, Reactions!ReactTypeOK
  <2>5. \A q : Past(q) = Past(q)'
    BY <1>2 DEF Past
  <2> QED BY <1>1, <1>2, <2>1, <2>2, <2>4, <2>5, KeepsCounters
<1>4. ASSUME NEW m \in Signals, Reactions!Receives(m) PROVE ReactInv'
  <2>1. position[m] = 0 /\ m \notin awaiting /\ position' = [position EXCEPT ![m] = @ + 1]
    BY <1>1, <1>4, ReactFacts DEF Reactions!Receives
  <2>2. UNCHANGED <<subscribed, ruleEnabled, lastFiredAt, fireCount, instant, fires, awaiting>>
    BY <1>4 DEF Reactions!Receives
  <2>3. position[m] \in 0..RuleCount
    BY <2>1, ReactFacts
  <2> QED BY <2>1, <2>2, <2>3, GoesOn
<1>5. ASSUME NEW m \in Signals, Reactions!Skips(m) PROVE ReactInv'
  <2>1. position[m] \in 0..RuleCount /\ m \notin awaiting /\ position' = [position EXCEPT ![m] = @ + 1]
    BY <1>5, ReactFacts DEF Reactions!Skips, Reactions!Considers, Reactions!At
  <2>2. UNCHANGED <<subscribed, ruleEnabled, lastFiredAt, fireCount, instant, fires, awaiting>>
    BY <1>5 DEF Reactions!Skips
  <2> QED BY <2>1, <2>2, GoesOn
<1>6. ASSUME NEW m \in Signals, Reactions!HandlerEnds(m) PROVE ReactInv'
  <2>1. /\ position[m] \in 0..RuleCount /\ m \in awaiting /\ awaiting' = awaiting \ {m}
        /\ position' = [position EXCEPT ![m] = @ + 1]
    BY <1>1, <1>6, ReactFacts DEF Reactions!HandlerEnds
  <2>2. UNCHANGED <<subscribed, ruleEnabled, lastFiredAt, fireCount, instant, fires>>
    BY <1>6 DEF Reactions!HandlerEnds
  <2> QED BY <2>1, <2>2, GoesOn
<1> QED
  BY <1>2, <1>4, <1>5, <1>6
     DEF Reactions!StartEngine, Reactions!StopEngine, Reactions!InstantPasses, Reactions!SetRuleEnabled

\* A rule fires: the message was not counted for it, and the rule is neither cooling nor spent.
LEMMA FiresInv == ASSUME ReactInv, NEW m \in Signals, Reactions!Fires(m) PROVE ReactInv'
<1> USE DEF Reactions!Rules
<1>0. PICK r \in 1..RuleCount : r = position[m]
  BY DEF Reactions!Fires, Reactions!Considers, Reactions!At
<1>1. /\ m \notin awaiting /\ ~Reactions!Cooling(r) /\ ~Reactions!Spent(r)
      /\ lastFiredAt' = [lastFiredAt EXCEPT ![r] = instant]
      /\ fireCount' = [fireCount EXCEPT ![r] = @ + 1]
      /\ fires' = [fires EXCEPT ![r] = Append(@, instant)]
      /\ awaiting' = awaiting \cup {m} /\ UNCHANGED <<subscribed, ruleEnabled, position, instant>>
  BY <1>0 DEF Reactions!Fires, Reactions!Considers, Reactions!At, Reactions!Counts
<1>2. /\ lastFiredAt \in [1..RuleCount -> 0..MaxInstant] /\ fires \in [1..RuleCount -> Seq(1..MaxInstant)]
      /\ fireCount \in [1..RuleCount -> 0..Cardinality(Signals)] /\ instant \in 1..MaxInstant
      /\ fires[r] \in Seq(1..MaxInstant) /\ Len(fires[r]) \in Nat
      /\ CountersOf(r) /\ LimitsOf(r)
  <2>1. /\ lastFiredAt \in [1..RuleCount -> 0..MaxInstant] /\ fires \in [1..RuleCount -> Seq(1..MaxInstant)]
        /\ fireCount \in [1..RuleCount -> 0..Cardinality(Signals)] /\ instant \in 1..MaxInstant
    BY ReactFacts DEF ReactInv, Reactions!ReactTypeOK
  <2>2. CountersOf(r) /\ LimitsOf(r)
    BY DEF ReactInv
  <2> QED BY <2>1, <2>2
<1>3. /\ fires'[r] = Append(fires[r], instant) /\ Len(fires'[r]) = Len(fires[r]) + 1
      /\ fires'[r][Len(fires[r]) + 1] = instant /\ \A i \in 1..Len(fires[r]) : fires'[r][i] = fires[r][i]
      /\ fires'[r] \in Seq(1..MaxInstant) /\ fires'[r] # <<>>
  BY <1>1, <1>2
<1>4. Past(r)' = Past(r) \cup {m} /\ m \notin Past(r)
  <2>1. position \in [Signals -> 0..RuleCount + 1]
    BY DEF ReactInv, Reactions!ReactTypeOK
  <2> QED BY <1>0, <1>1, <2>1, ReactFacts DEF Past
<1>5. /\ Cardinality(Past(r)') = Cardinality(Past(r)) + 1 /\ Cardinality(Past(r)) \in Nat
      /\ Cardinality(Past(r)') <= Cardinality(Signals)
  <2>1. Past(r)' \subseteq Signals
    BY DEF Past
  <2> QED BY <1>4, <2>1, PastFacts, FS_AddElement, FS_Subset, ReactFacts
<1>6. Len(fires'[r]) <= Cardinality(Past(r)') /\ fireCount'[r] = Len(fires'[r])
  BY <1>1, <1>2, <1>3, <1>5 DEF LimitsOf, CountersOf
<1>7. MaxFires > 0 => Len(fires'[r]) <= MaxFires
  BY <1>1, <1>2, <1>3, ReactFacts DEF Reactions!Spent, CountersOf
<1>8. \A i \in 1..Len(fires'[r]) - 1 : fires'[r][i + 1] - fires'[r][i] >= CooldownMs
  <2>1. ASSUME Len(fires[r]) > 0 PROVE instant - fires[r][Len(fires[r])] >= CooldownMs
    <3>1. fires[r] # <<>> /\ fires[r][Len(fires[r])] \in 1..MaxInstant
      <4>1. Len(fires[r]) \in 1..Len(fires[r])
        BY <1>2, <2>1
      <4>3. Len(<<>>) = 0
        OBVIOUS
      <4>4. fires[r][Len(fires[r])] \in 1..MaxInstant
        BY <1>2, <4>1, ElementOfSeq
      <4> QED BY <2>1, <4>3, <4>4
    <3>2. lastFiredAt[r] = fires[r][Len(fires[r])] /\ lastFiredAt[r] <= instant
      BY <1>2, <3>1 DEF CountersOf
    <3>3. CooldownMs > 0 => ~(instant - lastFiredAt[r] < CooldownMs)
      BY <1>1, <3>1, <3>2, ReactFacts DEF Reactions!Cooling
    <3> QED BY <1>2, <3>1, <3>2, <3>3, ReactFacts, SMTT(30)
  <2> SUFFICES ASSUME NEW i \in 1..Len(fires'[r]) - 1 PROVE fires'[r][i + 1] - fires'[r][i] >= CooldownMs
    OBVIOUS
  <2>2. CASE i = Len(fires[r])
    BY <1>2, <1>3, <2>1, <2>2
  <2>3. CASE i # Len(fires[r])
    <3>1. i \in 1..Len(fires[r]) - 1 /\ i + 1 \in 1..Len(fires[r]) /\ i \in 1..Len(fires[r])
      BY <1>2, <1>3, <2>3
    <3> QED BY <1>3, <1>2, <3>1 DEF LimitsOf
  <2> QED BY <2>2, <2>3
<1>9. Reactions!ReactTypeOK'
  <2>1. fireCount'[r] \in 0..Cardinality(Signals)
    BY <1>2, <1>3, <1>5, <1>6, ReactFacts
  <2>2. fireCount' \in [1..RuleCount -> 0..Reactions!Cardinality(Signals)]
    BY <1>1, <1>2, <2>1, ReactFacts
  <2>3. lastFiredAt' \in [1..RuleCount -> 0..MaxInstant] /\ fires' \in [1..RuleCount -> Seq(1..MaxInstant)]
    BY <1>1, <1>2, <1>3
  <2> QED BY <1>1, <2>2, <2>3 DEF ReactInv, Reactions!ReactTypeOK
<1>10. ASSUME NEW q \in 1..RuleCount PROVE CountersOf(q)' /\ LimitsOf(q)'
  <2>1. CASE q = r
    <3>1. CountersOf(r)'
      BY <1>1, <1>2, <1>3, <1>6 DEF CountersOf
    <3>2. LimitsOf(r)'
      BY <1>6, <1>7, <1>8 DEF LimitsOf
    <3> QED BY <2>1, <3>1, <3>2
  <2>2. CASE q # r
    <3>1. UNCHANGED <<fires[q], fireCount[q], lastFiredAt[q], instant>>
      BY <1>1, <1>2, <2>2
    <3>2. Past(q)' = Past(q)
      BY <1>0, <1>1, <2>2 DEF Past
    <3> QED BY <3>1, <3>2 DEF ReactInv, CountersOf, LimitsOf
  <2> QED BY <2>1, <2>2
<1>11. \A n \in awaiting' : position'[n] \in 1..RuleCount
  BY <1>0, <1>1 DEF ReactInv
<1> QED BY <1>9, <1>10, <1>11 DEF ReactInv

LEMMA ResetCountersInv == ASSUME ReactInv, Reactions!ResetCounters PROVE ReactInv'
<1> USE DEF Reactions!Rules
<1>1. /\ lastFiredAt' = [r \in 1..RuleCount |-> 0] /\ fireCount' = [r \in 1..RuleCount |-> 0]
      /\ fires' = [r \in 1..RuleCount |-> <<>>]
      /\ UNCHANGED <<subscribed, ruleEnabled, position, awaiting, instant>>
  BY DEF Reactions!ResetCounters
<1>2. Reactions!ReactTypeOK'
  <2>1. 0 \in 0..Reactions!Cardinality(Signals) /\ 0 \in 0..MaxInstant /\ <<>> \in Seq(1..MaxInstant)
    BY ReactFacts
  <2> QED BY <1>1, <2>1 DEF ReactInv, Reactions!ReactTypeOK
<1>3. ASSUME NEW r \in 1..RuleCount PROVE CountersOf(r)' /\ LimitsOf(r)'
  <2>1. /\ fires'[r] = <<>> /\ Len(fires'[r]) = 0 /\ fireCount'[r] = 0 /\ lastFiredAt'[r] = 0
        /\ instant' \in Nat
    BY <1>1, ReactFacts DEF ReactInv, Reactions!ReactTypeOK
  <2>2. Past(r)' = Past(r)
    BY <1>1 DEF Past
  <2> QED BY <2>1, <2>2, ReactFacts, PastFacts DEF CountersOf, LimitsOf
<1> QED BY <1>1, <1>2, <1>3 DEF ReactInv

LEMMA ReactStep == ReactInv /\ [Reactions!ReactNext]_reactVars => ReactInv'
<1> SUFFICES ASSUME ReactInv, [Reactions!ReactNext]_reactVars PROVE ReactInv'
  OBVIOUS
<1>1. CASE Reactions!ReactNext
  BY <1>1, ReactMoves, FiresInv, ResetCountersInv DEF Reactions!ReactNext
<1>2. CASE UNCHANGED reactVars
  BY <1>2 DEF reactVars, ReactInv, Reactions!ReactTypeOK, CountersOf, LimitsOf, Past
<1> QED BY <1>1, <1>2

LEMMA ReactHolds == ReactInv => Reactions!ReactTypeOK /\ Reactions!FiringsLimited
<1>1. \A r : Reactions!Cardinality(Past(r)) = Cardinality(Past(r))
  BY DEF Reactions!Cardinality, Cardinality
<1> QED BY <1>1 DEF ReactInv, LimitsOf, Reactions!FiringsLimited, Reactions!Rules, Past

-----------------------------------------------------------------------------
(* The fleet *)

\* Whoever is in the registry, of the tier the forge fills.
Filled == {i \in Crew : crew[i] # "absent"} \ Monitors

FleetInv ==
    /\ Fleet!FleetTypeOK /\ Fleet!FleetAgrees
    /\ ~restarted => /\ Cardinality(Filled) <= MaxAgents
                    /\ \A i \in Crew : crew[i] = "offline" => paused /\ i \notin Monitors

LEMMA FilledFacts == /\ IsFiniteSet(Filled) /\ Cardinality(Filled) \in Nat
                     /\ Fleet!Cardinality(Filled) = Cardinality(Filled)
                     /\ Fleet!Crewed \ Monitors = Filled /\ Fleet!Crewed = {i \in Crew : crew[i] # "absent"}
<1>1. Filled \subseteq Crew
  BY DEF Filled
<1>2. IsFiniteSet(Filled) /\ Cardinality(Filled) \in Nat
  BY <1>1, ServicesAssumption, FS_Subset, FS_CardinalityType
<1> QED BY <1>2 DEF Filled, Fleet!Crewed, Fleet!Cardinality, Cardinality

LEMMA FleetInitInv == Fleet!FleetInit => FleetInv
<1> SUFFICES ASSUME Fleet!FleetInit PROVE FleetInv
  OBVIOUS
<1>1. Filled = agentFiles \ Monitors /\ Fleet!Cardinality(agentFiles \ Monitors) <= MaxAgents
  BY DEF Fleet!FleetInit, Filled
<1>2. Cardinality(Filled) <= MaxAgents
  BY <1>1, FilledFacts
<1>3. Fleet!FleetTypeOK /\ Fleet!FleetAgrees
  BY DEF Fleet!FleetInit, Fleet!FleetTypeOK, Fleet!FleetAgrees, Fleet!Crewed, Fleet!Statuses
<1>4. \A i \in Crew : crew[i] # "offline"
  BY DEF Fleet!FleetInit
<1> QED BY <1>2, <1>3, <1>4 DEF FleetInv

\* The registry and its rows are set together: they stay equal, and nobody is added.
LEMMA SetsKeeps ==
    ASSUME FleetInv, NEW S \in SUBSET Crew, NEW s \in Fleet!Statuses, Fleet!Sets(S, s)
    PROVE  /\ crew' \in [Crew -> Fleet!Statuses] /\ agentRow' = crew'
           /\ \A i \in Crew : crew'[i] = IF i \in S THEN s ELSE crew[i]
  BY DEF FleetInv, Fleet!FleetTypeOK, Fleet!FleetAgrees, Fleet!Sets

LEMMA SmallerTier ==
    ASSUME FleetInv, \A i \in Crew : crew[i] = "absent" => crew'[i] = "absent",
           Cardinality(Filled) <= MaxAgents
    PROVE  Cardinality(Filled') <= MaxAgents
<1>1. Filled' \subseteq Filled
  BY DEF Filled
<1>2. Cardinality(Filled') <= Cardinality(Filled) /\ Cardinality(Filled') \in Nat
  BY <1>1, FilledFacts, FS_Subset, FS_CardinalityType
<1> QED BY <1>2, FilledFacts, ServicesAssumption

LEMMA SpawnInv ==
    ASSUME FleetInv, NEW i \in Crew, NEW b \in BOOLEAN, Fleet!SpawnAgent(i, b) PROVE FleetInv'
<1>1. /\ crew[i] = "absent" /\ i \notin Monitors /\ Fleet!TierHasRoom /\ Fleet!Sets({i}, "idle")
      /\ agentFiles' = agentFiles \cup {i} /\ spawned' = spawned \cup {i}
      /\ ephemeral' = IF b THEN ephemeral \cup {i} ELSE ephemeral
      /\ UNCHANGED <<paused, working, restarted>>
  BY DEF Fleet!SpawnAgent
<1>2. /\ crew' \in [Crew -> Fleet!Statuses] /\ agentRow' = crew'
      /\ \A j \in Crew : crew'[j] = IF j = i THEN "idle" ELSE crew[j]
  BY <1>1, SetsKeeps DEF Fleet!Statuses
<1>3. Cardinality(Filled') <= MaxAgents
  <2>1. Filled' = Filled \cup {i} /\ i \notin Filled
    BY <1>1, <1>2 DEF Filled
  <2>2. Cardinality(Filled) < MaxAgents
    BY <1>1, FilledFacts DEF Fleet!TierHasRoom
  <2>3. Cardinality(Filled') = Cardinality(Filled) + 1
    BY <2>1, FilledFacts, FS_AddElement
  <2> QED BY <2>2, <2>3, FilledFacts, ServicesAssumption
<1>4. Fleet!FleetTypeOK'
  BY <1>1, <1>2 DEF FleetInv, Fleet!FleetTypeOK
<1>5. Fleet!FleetAgrees'
  BY <1>1, <1>2 DEF FleetInv, Fleet!FleetAgrees, Fleet!Crewed
<1> QED BY <1>1, <1>2, <1>3, <1>4, <1>5 DEF FleetInv

\* The agents of gone leave registry, rows and what the forge remembers.
LEMMA GoneInv ==
    ASSUME FleetInv, NEW gone \in SUBSET Crew, Fleet!Sets(gone, "absent"),
           agentFiles' \in {agentFiles, agentFiles \ gone},
           ephemeral' = ephemeral \ gone, spawned' = spawned \ gone, UNCHANGED <<paused, working, restarted>>
    PROVE  FleetInv'
<1>1. /\ crew' \in [Crew -> Fleet!Statuses] /\ agentRow' = crew'
      /\ \A j \in Crew : crew'[j] = IF j \in gone THEN "absent" ELSE crew[j]
  BY SetsKeeps DEF Fleet!Statuses
<1>2. Fleet!FleetTypeOK' /\ Fleet!FleetAgrees'
  BY <1>1 DEF FleetInv, Fleet!FleetTypeOK, Fleet!FleetAgrees, Fleet!Crewed
<1>3. Cardinality(Filled) <= MaxAgents => Cardinality(Filled') <= MaxAgents
  BY <1>1, SmallerTier
<1> QED BY <1>1, <1>2, <1>3 DEF FleetInv

\* Agents that are there change their status.
LEMMA StatusInv ==
    ASSUME FleetInv, NEW S \in SUBSET Crew, NEW s \in Fleet!Statuses \ {"absent"}, Fleet!Sets(S, s),
           \A i \in S : crew[i] # "absent",
           ~restarted => \A i \in Crew : crew'[i] = "offline" => paused' /\ i \notin Monitors,
           working' \subseteq Crew, paused' \in BOOLEAN,
           UNCHANGED <<agentFiles, ephemeral, spawned, restarted>>
    PROVE  FleetInv'
<1>1. /\ crew' \in [Crew -> Fleet!Statuses] /\ agentRow' = crew'
      /\ \A j \in Crew : crew'[j] = IF j \in S THEN s ELSE crew[j]
  BY SetsKeeps
<1>2. Fleet!FleetTypeOK' /\ Fleet!FleetAgrees'
  BY <1>1 DEF FleetInv, Fleet!FleetTypeOK, Fleet!FleetAgrees, Fleet!Crewed
<1>3. Cardinality(Filled) <= MaxAgents => Cardinality(Filled') <= MaxAgents
  BY <1>1, SmallerTier
<1> QED BY <1>1, <1>2, <1>3 DEF FleetInv

LEMMA FleetRestartInv == ASSUME FleetInv, Fleet!RestartsFleet PROVE FleetInv'
<1>1. PICK extra \in {{}} \cup {{i} : i \in Crew \ Monitors} :
        /\ agentFiles' = agentFiles \cup extra
        /\ crew' = [i \in Crew |-> IF i \notin agentFiles' THEN "absent"
                                   ELSE IF agentRow[i] = "absent" THEN "idle" ELSE agentRow[i]]
        /\ agentRow' = crew'
        /\ ephemeral' = {} /\ paused' = FALSE /\ working' = {} /\ spawned' = {} /\ restarted' = TRUE
  BY DEF Fleet!RestartsFleet
<1>2. agentFiles' \subseteq Crew
  BY <1>1 DEF FleetInv, Fleet!FleetTypeOK
<1>3. crew' \in [Crew -> Fleet!Statuses] /\ \A i \in Crew : i \notin agentFiles' => crew'[i] = "absent"
  BY <1>1 DEF FleetInv, Fleet!FleetTypeOK, Fleet!Statuses
<1>4. Fleet!FleetTypeOK' /\ Fleet!FleetAgrees'
  BY <1>1, <1>2, <1>3 DEF Fleet!FleetTypeOK, Fleet!FleetAgrees, Fleet!Crewed
<1> QED BY <1>1, <1>4 DEF FleetInv

LEMMA FleetMoves ==
    ASSUME FleetInv,
           \/ Fleet!PauseSwarm \/ Fleet!ResumeSwarm
           \/ \E i \in Crew : Fleet!StartsWork(i) \/ Fleet!EndsWork(i) \/ Fleet!ForceKillAgent(i)
    PROVE  FleetInv'
<1> USE DEF Fleet!Statuses
<1>1. /\ crew \in [Crew -> Fleet!Statuses] /\ working \subseteq Crew /\ paused \in BOOLEAN
      /\ ~restarted => \A i \in Crew : crew[i] = "offline" => paused /\ i \notin Monitors
  BY DEF FleetInv, Fleet!FleetTypeOK
<1>2. CASE Fleet!PauseSwarm
  <2>1. /\ Fleet!Sets(Filled, "offline") /\ paused' = TRUE
        /\ UNCHANGED <<agentFiles, ephemeral, working, spawned, restarted>>
    BY <1>2, FilledFacts DEF Fleet!PauseSwarm
  <2>2. Filled \in SUBSET Crew /\ \A i \in Filled : crew[i] # "absent" /\ i \notin Monitors
    BY DEF Filled
  <2>3. ~restarted => \A i \in Crew : crew'[i] = "offline" => paused' /\ i \notin Monitors
    BY <1>1, <2>1, <2>2, SetsKeeps
  <2> QED BY <1>1, <2>1, <2>2, <2>3, StatusInv
<1>3. CASE Fleet!ResumeSwarm
  <2> DEFINE S == {i \in Crew : crew[i] = "offline"}
  <2>1. /\ Fleet!Sets(S, "idle") /\ paused' = FALSE
        /\ UNCHANGED <<agentFiles, ephemeral, working, spawned, restarted>>
    BY <1>3 DEF Fleet!ResumeSwarm
  <2>2. \A i \in Crew : crew'[i] # "offline"
    BY <1>1, <2>1, SetsKeeps
  <2>3. S \in SUBSET Crew /\ \A i \in S : crew[i] # "absent"
    OBVIOUS
  <2> HIDE DEF S
  <2> QED BY <1>1, <2>1, <2>2, <2>3, StatusInv
<1>4. ASSUME NEW i \in Crew, NEW s \in {"idle", "busy", "error"}, crew[i] # "absent", Fleet!Sets({i}, s),
             working' \subseteq Crew, UNCHANGED <<paused, agentFiles, ephemeral, spawned, restarted>>
      PROVE  FleetInv'
  <2>1. ~restarted => \A j \in Crew : crew'[j] = "offline" => paused' /\ j \notin Monitors
    BY <1>1, <1>4, SetsKeeps
  <2> QED BY <1>1, <1>4, <2>1, StatusInv
<1>5. ASSUME NEW i \in Crew, Fleet!StartsWork(i) PROVE FleetInv'
  BY <1>1, <1>4, <1>5 DEF Fleet!StartsWork
<1>6. ASSUME NEW i \in Crew, Fleet!ForceKillAgent(i) PROVE FleetInv'
  BY <1>1, <1>4, <1>6 DEF Fleet!ForceKillAgent
<1>7. ASSUME NEW i \in Crew, Fleet!EndsWork(i) PROVE FleetInv'
  <2>1. working' \subseteq Crew /\ UNCHANGED <<paused, agentFiles, ephemeral, spawned, restarted>>
    BY <1>1, <1>7 DEF Fleet!EndsWork
  <2>2. CASE UNCHANGED <<crew, agentRow>>
    BY <2>1, <2>2 DEF FleetInv, Fleet!FleetTypeOK, Fleet!FleetAgrees, Fleet!Crewed, Filled
  <2>3. CASE crew[i] # "absent" /\ Fleet!Sets({i}, "idle")
    BY <1>4, <2>1, <2>3
  <2> QED BY <1>7, <2>2, <2>3 DEF Fleet!EndsWork
<1> QED BY <1>2, <1>3, <1>5, <1>6, <1>7

LEMMA FleetStep == FleetInv /\ [Fleet!FleetNext]_fleetVars => FleetInv'
<1> SUFFICES ASSUME FleetInv, [Fleet!FleetNext]_fleetVars PROVE FleetInv'
  OBVIOUS
<1>1. ASSUME NEW i \in Crew, NEW b \in BOOLEAN, Fleet!RetireAgent(i, b) PROVE FleetInv'
  BY <1>1, GoneInv DEF Fleet!RetireAgent
<1>2. CASE Fleet!RetireEphemeralAgents
  <2> DEFINE gone == {i \in ephemeral : crew[i] # "absent"}
  <2>1. gone \in SUBSET Crew
    BY DEF FleetInv, Fleet!FleetTypeOK
  <2> QED BY <1>2, <2>1, GoneInv DEF Fleet!RetireEphemeralAgents
<1>3. CASE Fleet!FleetNext
  BY <1>1, <1>2, <1>3, SpawnInv, FleetMoves, FleetRestartInv DEF Fleet!FleetNext
<1>4. CASE UNCHANGED fleetVars
  BY <1>4 DEF fleetVars, FleetInv, Fleet!FleetTypeOK, Fleet!FleetAgrees, Fleet!Crewed, Filled
<1> QED BY <1>3, <1>4

LEMMA FleetHolds == FleetInv => Fleet!FleetTypeOK /\ Fleet!FleetAgrees /\ Fleet!FleetBounded
  BY FilledFacts DEF FleetInv, Fleet!FleetBounded

-----------------------------------------------------------------------------
(* The installer of powers *)

Call == [what : {"install", "remove"}, name : PowerNames, read : SUBSET PowerNames,
         at : {"check", "copy", "copying", "delete", "read", "write", "rollback"}]
\* A call for an installation does not delete, one for a removal does not copy; none has read
\* any rows before it writes.
InPlace(k) ==
    /\ IF k.what = "install" THEN k.at # "delete" ELSE k.at \in {"delete", "read", "write"}
    /\ k.at \in {"write", "rollback"} \/ k.read = {}

Runs(c) == call[c] # Installer!Idle
RunsFor(c, n) == Runs(c) /\ call[c].name = n

\* How far a call k for a power has brought its directory.
FolderAt(k, dir) ==
    CASE k.at = "copying" -> dir = "partial"
      [] k.at = "check" -> dir # "partial"
      [] k.at = "delete" -> dir = "whole"
      [] k.at = "copy" -> dir = "none"
      [] OTHER -> dir = IF k.what = "install" THEN "whole" ELSE "none"
\* The row of the power is written last.
RowAt(k, inRows, dir) ==
    IF k.at \in {"check", "delete"} THEN inRows <=> dir = "whole" ELSE inRows <=> k.what = "remove"

\* The call for an undisturbed power is the only one, and its directory is as far as it is.
FolderFollows(n) ==
    /\ \A c, d \in Callers : RunsFor(c, n) /\ RunsFor(d, n) => c = d
    /\ (\A c \in Callers : ~RunsFor(c, n)) => folder[n] # "partial"
    /\ \A c \in Callers : RunsFor(c, n) => FolderAt(call[c], folder[n])

\* Without overlaps its row is as far, too, and in the rows that a call has read.
RowFollows(n) ==
    /\ \A c \in Callers : call[c].at = "write" => (n \in call[c].read <=> n \in rows)
    /\ (\A c \in Callers : ~RunsFor(c, n)) => (n \in rows <=> folder[n] = "whole")
    /\ \A c \in Callers : RunsFor(c, n) => RowAt(call[c], n \in rows, folder[n])

PowersInv ==
    /\ Installer!PowersTypeOK
    /\ \A c \in Callers : Runs(c) => InPlace(call[c])
    /\ \A n \in PowerNames \ disturbed : FolderFollows(n)
    /\ ~overlapped => /\ \A c, d \in Callers : Runs(c) /\ Runs(d) => c = d
                     /\ \A n \in PowerNames \ disturbed : RowFollows(n)

LEMMA PowersInitInv == Installer!PowersInit => PowersInv
<1> SUFFICES ASSUME Installer!PowersInit PROVE PowersInv
  OBVIOUS
<1>1. Installer!PowersTypeOK
  <2>1. 0 \in 0..MaxMishaps
    BY ServicesAssumption
  <2>2. call \in [Callers -> {Installer!Idle}]
    BY DEF Installer!PowersInit
  <2>3. call \in [Callers -> {Installer!Idle} \cup Call]
    BY <2>2
  <2> QED BY <2>1, <2>3 DEF Installer!PowersInit, Installer!PowersTypeOK, Call
<1>2. \A c \in Callers : ~Runs(c) /\ call[c].at = "done"
  BY DEF Installer!PowersInit, Runs, Installer!Idle
<1>3. \A n \in PowerNames : folder[n] = "none" /\ n \notin rows
  BY DEF Installer!PowersInit
<1>4. \A n \in PowerNames : FolderFollows(n) /\ RowFollows(n)
  BY <1>2, <1>3 DEF FolderFollows, RowFollows, RunsFor
<1> QED BY <1>1, <1>2, <1>4 DEF PowersInv

LEMMA CallTypes ==
    ASSUME PowersInv
    PROVE  /\ call \in [Callers -> {Installer!Idle} \cup Call]
           /\ folder \in [PowerNames -> {"none", "partial", "whole"}] /\ rows \subseteq PowerNames
           /\ mishaps \in 0..MaxMishaps /\ MaxMishaps \in Nat /\ overlapped \in BOOLEAN /\ disturbed \subseteq PowerNames
           /\ \A c \in Callers : Runs(c) => call[c] \in Call /\ call[c].name \in PowerNames
           /\ \A c \in Callers : ~Runs(c) => call[c].at = "done" /\ call[c].what = "none"
  BY ServicesAssumption DEF PowersInv, Installer!PowersTypeOK, Call, Runs, Installer!Idle

\* The call of c for n goes on as k, or ends.
LEMMA CallGoesOn ==
    ASSUME PowersInv, NEW c \in Callers, Runs(c), NEW n \in PowerNames, call[c].name = n,
           NEW k \in {Installer!Idle} \cup Call, call' = [call EXCEPT ![c] = k],
           k # Installer!Idle => k.name = n /\ InPlace(k),
           folder' \in [PowerNames -> {"none", "partial", "whole"}],
           \A m \in PowerNames \ {n} : folder'[m] = folder[m],
           rows' \subseteq PowerNames, disturbed \subseteq disturbed', disturbed' \subseteq PowerNames,
           mishaps' \in 0..MaxMishaps, overlapped' = overlapped,
           n \notin disturbed' => IF k = Installer!Idle THEN folder'[n] # "partial" ELSE FolderAt(k, folder'[n]),
           ~overlapped =>
             /\ k.at = "write" => \A m \in PowerNames \ disturbed' : m \in k.read <=> m \in rows'
             /\ \A m \in PowerNames \ disturbed' : m # n => (m \in rows' <=> m \in rows)
             /\ n \notin disturbed' => IF k = Installer!Idle THEN n \in rows' <=> folder'[n] = "whole"
                                     ELSE RowAt(k, n \in rows', folder'[n])
    PROVE  PowersInv'
<1>1. /\ \A d \in Callers : d # c => (Runs(d)' <=> Runs(d)) /\ call'[d] = call[d]
      /\ call'[c] = k /\ (Runs(c)' <=> k # Installer!Idle)
  BY CallTypes DEF Runs
<1>2. Installer!PowersTypeOK'
  BY CallTypes DEF Installer!PowersTypeOK, Call
<1>3. \A d \in Callers : Runs(d)' => InPlace(call'[d])
  BY <1>1 DEF PowersInv
<1>4. ASSUME NEW m \in PowerNames \ disturbed' PROVE FolderFollows(m)'
  <2>1. FolderFollows(m)
    BY <1>4 DEF PowersInv
  <2>2. CASE m # n
    <3>1. folder'[m] = folder[m] /\ \A d \in Callers : RunsFor(d, m)' <=> RunsFor(d, m)
      BY <1>1, <2>2 DEF RunsFor
    <3>2. \A d \in Callers : RunsFor(d, m) => call'[d] = call[d]
      BY <1>1, <2>2 DEF RunsFor
    <3> QED BY <2>1, <3>1, <3>2 DEF FolderFollows
  <2>3. CASE m = n
    <3>1. \A d \in Callers : RunsFor(d, n)' <=> d = c /\ k # Installer!Idle
      BY <1>1, <2>1, <2>3 DEF FolderFollows, RunsFor
    <3> QED BY <1>1, <1>4, <2>3, <3>1 DEF FolderFollows
  <2> QED BY <2>2, <2>3
<1>5. ASSUME ~overlapped'
      PROVE  /\ \A d, e \in Callers : Runs(d)' /\ Runs(e)' => d = e
             /\ \A m \in PowerNames \ disturbed' : RowFollows(m)'
  <2>1. \A d \in Callers : d # c => ~Runs(d) /\ ~Runs(d)' /\ call'[d].at = "done"
    BY <1>1, <1>5, CallTypes DEF PowersInv
  <2>2. ASSUME NEW m \in PowerNames \ disturbed' PROVE RowFollows(m)'
    <3>1. RowFollows(m)
      BY <1>5, <2>2 DEF PowersInv
    <3>2. \A d \in Callers : call'[d].at = "write" => (m \in call'[d].read <=> m \in rows')
      BY <1>1, <1>5, <2>1, <2>2
    <3>3. CASE m # n
      <4>1. \A d \in Callers : ~RunsFor(d, m) /\ ~RunsFor(d, m)'
        BY <1>1, <2>1, <3>3 DEF RunsFor
      <4>2. folder'[m] = folder[m] /\ (m \in rows' <=> m \in rows)
        BY <1>5, <2>2, <3>3
      <4> QED BY <3>1, <3>2, <4>1, <4>2 DEF RowFollows
    <3>4. CASE m = n
      <4>1. \A d \in Callers : RunsFor(d, n)' <=> d = c /\ k # Installer!Idle
        BY <1>1, <2>1, <3>4 DEF RunsFor
      <4> QED BY <1>1, <1>5, <2>2, <3>2, <3>4, <4>1 DEF RowFollows
    <3> QED BY <3>3, <3>4
  <2> QED BY <2>1, <2>2
<1> QED BY <1>2, <1>3, <1>4, <1>5 DEF PowersInv

\* What a call has in common before any of its steps.
LEMMA CallFacts ==
    ASSUME PowersInv, NEW c \in Callers, Runs(c)
    PROVE  /\ call[c] \in Call /\ InPlace(call[c]) /\ call[c].name \in PowerNames
           /\ call[c].name \notin disturbed => FolderAt(call[c], folder[call[c].name])
           /\ ~overlapped /\ call[c].name \notin disturbed =>
                RowAt(call[c], call[c].name \in rows, folder[call[c].name])
<1>1. call[c] \in Call /\ call[c].name \in PowerNames /\ RunsFor(c, call[c].name)
  BY CallTypes DEF RunsFor
<1> QED BY <1>1 DEF PowersInv, FolderFollows, RowFollows

LEMMA BeginInv ==
    ASSUME PowersInv, NEW c \in Callers, NEW what \in {"install", "remove"}, NEW n \in PowerNames,
           Installer!Begin(c, what, n)
    PROVE  PowersInv'
<1> DEFINE k == [what |-> what, name |-> n, read |-> {}, at |-> IF what = "install" THEN "check" ELSE "delete"]
<1>1. /\ ~Runs(c) /\ call' = [call EXCEPT ![c] = k] /\ UNCHANGED <<folder, rows, mishaps>>
      /\ what = "remove" => folder[n] # "none"
      /\ overlapped' = (overlapped \/ \E d \in Callers \ {c} : Runs(d))
      /\ disturbed' = IF \E d \in Callers \ {c} : RunsFor(d, n) THEN disturbed \cup {n} ELSE disturbed
  BY DEF Installer!Begin, Runs, RunsFor
<1>2. /\ k \in Call /\ k # Installer!Idle /\ InPlace(k) /\ k.name = n
      /\ k.at = IF what = "install" THEN "check" ELSE "delete"
  BY DEF Call, Installer!Idle, InPlace
<1> HIDE DEF k
<1>3. /\ call'[c] = k /\ Runs(c)'
      /\ \A d \in Callers : d # c => call'[d] = call[d] /\ (Runs(d)' <=> Runs(d))
  BY <1>1, <1>2, CallTypes DEF Runs
<1>4. \A m : RunsFor(c, m)' <=> m = n
  BY <1>2, <1>3 DEF RunsFor
<1>5. \A m : \A d \in Callers : d # c => (RunsFor(d, m)' <=> RunsFor(d, m))
  BY <1>3 DEF RunsFor
<1>6. Installer!PowersTypeOK' /\ disturbed \subseteq disturbed'
  <2>1. call' \in [Callers -> {Installer!Idle} \cup Call]
    BY <1>1, <1>2, CallTypes
  <2>2. overlapped' \in BOOLEAN /\ disturbed' \subseteq PowerNames /\ disturbed \subseteq disturbed'
    BY <1>1, CallTypes
  <2> QED BY <1>1, <2>1, <2>2, CallTypes DEF Installer!PowersTypeOK, Call
<1>7. \A d \in Callers : Runs(d)' => InPlace(call'[d])
  BY <1>2, <1>3 DEF PowersInv
<1>8. ASSUME NEW m \in PowerNames \ disturbed' PROVE FolderFollows(m)'
  <2>1. FolderFollows(m) /\ ~RunsFor(c, m)
    BY <1>1, <1>6, <1>8 DEF PowersInv, RunsFor
  <2>2. CASE m # n
    BY <1>1, <1>3, <1>4, <1>5, <2>1, <2>2 DEF FolderFollows
  <2>3. CASE m = n
    <3>1. \A d \in Callers : ~RunsFor(d, n)
      BY <1>1, <1>8, <2>1, <2>3
    <3>2. folder'[n] # "partial"
      BY <1>1, <2>1, <2>3, <3>1 DEF FolderFollows
    <3>3. \A d \in Callers : RunsFor(d, n)' <=> d = c
      BY <1>4, <1>5, <3>1
    <3>4. FolderAt(call'[c], folder'[n])
      BY <1>1, <1>2, <1>3, <3>2, CallTypes DEF FolderAt
    <3> QED BY <2>3, <3>3, <3>4 DEF FolderFollows
  <2> QED BY <2>2, <2>3
<1>9. ASSUME ~overlapped'
      PROVE  /\ \A d, e \in Callers : Runs(d)' /\ Runs(e)' => d = e
             /\ \A m \in PowerNames \ disturbed' : RowFollows(m)'
  <2>1. ~overlapped /\ \A d \in Callers : ~Runs(d)
    BY <1>1, <1>9
  <2>2. \A d \in Callers : Runs(d)' => d = c
    BY <1>3, <2>1
  <2>3. ASSUME NEW m \in PowerNames \ disturbed' PROVE RowFollows(m)'
    <3>1. m \in rows' <=> folder'[m] = "whole"
      <4>1. RowFollows(m) /\ \A d \in Callers : ~RunsFor(d, m)
        BY <1>6, <2>1, <2>3 DEF PowersInv, RunsFor
      <4> QED BY <1>1, <4>1 DEF RowFollows
    <3>2. \A d \in Callers : call'[d].at # "write"
      BY <1>2, <1>3, <2>1, CallTypes
    <3>3. \A d \in Callers : RunsFor(d, m)' => RowAt(call'[d], m \in rows', folder'[m])
      BY <1>2, <1>3, <2>2, <3>1 DEF RowAt, RunsFor
    <3> QED BY <3>1, <3>2, <3>3 DEF RowFollows
  <2> QED BY <2>2, <2>3
<1> QED BY <1>6, <1>7, <1>8, <1>9 DEF PowersInv

\* The next place of a call.
LEMMA PlaceFacts ==
    ASSUME PowersInv, NEW c \in Callers, Runs(c),
           NEW place \in {"check", "copy", "copying", "delete", "read", "write", "rollback"},
           Installer!Goes(c, place)
    PROVE  \E k \in Call : /\ k.name = call[c].name /\ k.what = call[c].what /\ k.read = call[c].read
                          /\ k.at = place /\ k # Installer!Idle /\ call' = [call EXCEPT ![c] = k]
<1> DEFINE k == [call[c] EXCEPT !.at = place]
<1>1. call[c] \in Call
  BY CallFacts
<1>2. /\ k \in Call /\ k.name = call[c].name /\ k.what = call[c].what /\ k.read = call[c].read
      /\ k.at = place
  BY <1>1 DEF Call
<1>3. call' = [call EXCEPT ![c] = k]
  BY CallTypes DEF Installer!Goes
<1>4. k # Installer!Idle
  BY <1>2 DEF Installer!Idle
<1> HIDE DEF k
<1> QED BY <1>2, <1>3, <1>4

LEMMA CheckInv == ASSUME PowersInv, NEW c \in Callers, Installer!Check(c) PROVE PowersInv'
<1>1. /\ call[c].what = "install" /\ call[c].at = "check" /\ UNCHANGED <<folder, rows, mishaps, disturbed, overlapped>>
      /\ IF folder[call[c].name] # "none" THEN Installer!Ends(c) ELSE Installer!Goes(c, "copy")
  BY DEF Installer!Check, Installer!At
<1>2. Runs(c)
  BY <1>1, CallTypes
<1>3. PICK n \in PowerNames : n = call[c].name /\ call[c].read = {}
  BY <1>1, <1>2, CallFacts DEF InPlace
<1>4. /\ n \notin disturbed => folder[n] # "partial"
      /\ ~overlapped /\ n \notin disturbed => (n \in rows <=> folder[n] = "whole")
  BY <1>1, <1>2, <1>3, CallFacts DEF FolderAt, RowAt
<1>5. CASE folder[n] # "none"
  <2>1. call' = [call EXCEPT ![c] = Installer!Idle]
    BY <1>1, <1>3, <1>5 DEF Installer!Ends
  <2>2. Installer!Idle.at # "write"
    BY DEF Installer!Idle
  <2> QED BY <1>1, <1>2, <1>3, <1>4, <2>1, <2>2, CallTypes, CallGoesOn
<1>6. CASE folder[n] = "none"
  <2>1. PICK k \in Call : /\ k.name = n /\ k.what = "install" /\ k.at = "copy" /\ k # Installer!Idle /\ k.read = {}
                         /\ call' = [call EXCEPT ![c] = k]
    BY <1>1, <1>2, <1>3, <1>6, PlaceFacts
  <2>2. InPlace(k) /\ FolderAt(k, folder'[n]) /\ (RowAt(k, n \in rows', folder'[n]) <=> n \notin rows)
    BY <1>1, <1>6, <2>1 DEF InPlace, FolderAt, RowAt
  <2> QED BY <1>1, <1>2, <1>3, <1>4, <1>6, <2>1, <2>2, CallTypes, CallGoesOn
<1> QED BY <1>5, <1>6

LEMMA StartCopyInv == ASSUME PowersInv, NEW c \in Callers, Installer!StartCopy(c) PROVE PowersInv'
<1>1. /\ call[c].what = "install" /\ call[c].at = "copy" /\ UNCHANGED <<rows, mishaps, disturbed, overlapped>>
      /\ Installer!Goes(c, "copying")
      /\ folder' = [folder EXCEPT ![call[c].name] = IF @ = "none" THEN "partial" ELSE @]
  BY DEF Installer!StartCopy, Installer!At
<1>2. Runs(c)
  BY <1>1, CallTypes
<1>3. PICK n \in PowerNames : n = call[c].name /\ call[c].read = {}
  BY <1>1, <1>2, CallFacts DEF InPlace
<1>4. /\ n \notin disturbed => folder[n] = "none"
      /\ ~overlapped /\ n \notin disturbed => n \notin rows
  BY <1>1, <1>2, <1>3, CallFacts DEF FolderAt, RowAt
<1>5. PICK k \in Call : /\ k.name = n /\ k.what = "install" /\ k.at = "copying" /\ k # Installer!Idle /\ k.read = {}
                       /\ call' = [call EXCEPT ![c] = k]
  BY <1>1, <1>2, <1>3, PlaceFacts
<1>6. /\ folder' \in [PowerNames -> {"none", "partial", "whole"}]
      /\ \A m \in PowerNames \ {n} : folder'[m] = folder[m]
      /\ n \notin disturbed => folder'[n] = "partial"
  BY <1>1, <1>3, <1>4, CallTypes
<1>7. /\ InPlace(k) /\ (FolderAt(k, folder'[n]) <=> folder'[n] = "partial")
      /\ (RowAt(k, n \in rows', folder'[n]) <=> n \notin rows)
  BY <1>1, <1>5 DEF InPlace, FolderAt, RowAt
<1> QED BY <1>1, <1>2, <1>3, <1>4, <1>5, <1>6, <1>7, CallTypes, CallGoesOn

\* A call that ends disturbed says nothing about its power any more.
LEMMA EndsDisturbed ==
    ASSUME PowersInv, NEW c \in Callers, Runs(c), Installer!Ends(c), Installer!Mishap, UNCHANGED overlapped,
           NEW n \in PowerNames, call[c].name = n,
           folder' \in [PowerNames -> {"none", "partial", "whole"}],
           \A m \in PowerNames \ {n} : folder'[m] = folder[m],
           rows' \subseteq rows, disturbed' \subseteq PowerNames,
           disturbed \cup (rows \ rows') \cup {n} \subseteq disturbed'
    PROVE  PowersInv'
<1>1. mishaps' \in 0..MaxMishaps
  BY CallTypes DEF Installer!Mishap
<1>2. call' = [call EXCEPT ![c] = Installer!Idle] /\ Installer!Idle.at # "write"
  BY DEF Installer!Ends, Installer!Idle
<1>3. rows' \subseteq PowerNames /\ \A m \in PowerNames \ disturbed' : m \in rows' <=> m \in rows
  BY CallTypes
<1> QED BY <1>1, <1>2, <1>3, CallGoesOn

LEMMA CopyInv == ASSUME PowersInv, NEW c \in Callers, Installer!Copy(c) PROVE PowersInv'
<1>1. call[c].what = "install" /\ call[c].at = "copying" /\ UNCHANGED <<rows, overlapped>>
  BY DEF Installer!Copy, Installer!At
<1>2. Runs(c)
  BY <1>1, CallTypes
<1>3. PICK n \in PowerNames : n = call[c].name /\ call[c].read = {}
  BY <1>1, <1>2, CallFacts DEF InPlace
<1>4. /\ n \notin disturbed => folder[n] = "partial"
      /\ ~overlapped /\ n \notin disturbed => n \notin rows
  BY <1>1, <1>2, <1>3, CallFacts DEF FolderAt, RowAt
<1>5. CASE /\ folder' = [folder EXCEPT ![n] = IF @ = "none" THEN "partial" ELSE "whole"]
           /\ Installer!Goes(c, "read") /\ UNCHANGED <<mishaps, disturbed>>
  <2>1. PICK k \in Call : /\ k.name = n /\ k.what = "install" /\ k.at = "read" /\ k # Installer!Idle /\ k.read = {}
                         /\ call' = [call EXCEPT ![c] = k]
    BY <1>1, <1>2, <1>3, <1>5, PlaceFacts
  <2>2. /\ folder' \in [PowerNames -> {"none", "partial", "whole"}]
        /\ \A m \in PowerNames \ {n} : folder'[m] = folder[m]
        /\ n \notin disturbed => folder'[n] = "whole"
    BY <1>4, <1>5, CallTypes
  <2>3. /\ InPlace(k) /\ (FolderAt(k, folder'[n]) <=> folder'[n] = "whole")
        /\ (RowAt(k, n \in rows', folder'[n]) <=> n \notin rows)
    BY <1>1, <2>1 DEF InPlace, FolderAt, RowAt
  <2> QED BY <1>1, <1>2, <1>3, <1>4, <1>5, <2>1, <2>2, <2>3, CallTypes, CallGoesOn
<1>6. CASE Installer!Mishap /\ Installer!Ends(c) /\ disturbed' = disturbed \cup {n} /\ UNCHANGED folder
  BY <1>1, <1>2, <1>3, <1>6, CallTypes, EndsDisturbed
<1> QED BY <1>3, <1>5, <1>6 DEF Installer!Copy

LEMMA DeleteInv == ASSUME PowersInv, NEW c \in Callers, Installer!Delete(c) PROVE PowersInv'
<1>1. call[c].what = "remove" /\ call[c].at = "delete" /\ UNCHANGED <<rows, overlapped>>
  BY DEF Installer!Delete, Installer!At
<1>2. Runs(c)
  BY <1>1, CallTypes
<1>3. PICK n \in PowerNames : n = call[c].name /\ call[c].read = {}
  BY <1>1, <1>2, CallFacts DEF InPlace
<1>4. ~overlapped /\ n \notin disturbed => n \in rows
  BY <1>1, <1>2, <1>3, CallFacts DEF FolderAt, RowAt
<1>5. CASE /\ folder' = [folder EXCEPT ![n] = "none"]
           /\ Installer!Goes(c, "read") /\ UNCHANGED <<mishaps, disturbed>>
  <2>1. PICK k \in Call : /\ k.name = n /\ k.what = "remove" /\ k.at = "read" /\ k # Installer!Idle /\ k.read = {}
                         /\ call' = [call EXCEPT ![c] = k]
    BY <1>1, <1>2, <1>3, <1>5, PlaceFacts
  <2>2. /\ folder' \in [PowerNames -> {"none", "partial", "whole"}]
        /\ \A m \in PowerNames \ {n} : folder'[m] = folder[m]
        /\ folder'[n] = "none"
    BY <1>5, CallTypes
  <2>3. /\ InPlace(k) /\ FolderAt(k, folder'[n])
        /\ (RowAt(k, n \in rows', folder'[n]) <=> n \in rows)
    BY <1>1, <2>1, <2>2 DEF InPlace, FolderAt, RowAt
  <2> QED BY <1>1, <1>2, <1>3, <1>4, <1>5, <2>1, <2>2, <2>3, CallTypes, CallGoesOn
<1>6. CASE /\ Installer!Mishap /\ Installer!Ends(c) /\ disturbed' = disturbed \cup {n}
           /\ folder' = [folder EXCEPT ![n] = "partial"]
  <2>1. /\ folder' \in [PowerNames -> {"none", "partial", "whole"}]
        /\ \A m \in PowerNames \ {n} : folder'[m] = folder[m]
    BY <1>6, CallTypes
  <2> QED BY <1>1, <1>2, <1>3, <1>6, <2>1, CallTypes, EndsDisturbed
<1> QED BY <1>3, <1>5, <1>6 DEF Installer!Delete

LEMMA ReadInv == ASSUME PowersInv, NEW c \in Callers, Installer!Read(c) PROVE PowersInv'
<1>1. call[c].at = "read" /\ UNCHANGED <<folder, rows, overlapped>>
  BY DEF Installer!Read
<1>2. Runs(c)
  BY <1>1, CallTypes
<1>3. PICK n \in PowerNames : n = call[c].name
  BY <1>2, CallFacts
<1>4. call[c] \in Call /\ InPlace(call[c])
  BY <1>2, CallFacts
<1>5. /\ n \notin disturbed => folder[n] = IF call[c].what = "install" THEN "whole" ELSE "none"
      /\ ~overlapped /\ n \notin disturbed => (n \in rows <=> call[c].what = "remove")
  BY <1>1, <1>2, <1>3, CallFacts DEF FolderAt, RowAt
<1>6. PICK S \in SUBSET PowerNames :
        /\ call' = [call EXCEPT ![c] = [call[c] EXCEPT !.at = "write", !.read = S]]
        /\ mishaps' \in 0..MaxMishaps /\ disturbed \subseteq disturbed' /\ disturbed' \subseteq PowerNames
        /\ \A m \in PowerNames \ disturbed' : m \in S <=> m \in rows
  <2>1. CASE call' = [call EXCEPT ![c].at = "write", ![c].read = rows] /\ UNCHANGED <<mishaps, disturbed>>
    <3>1. call' = [call EXCEPT ![c] = [call[c] EXCEPT !.at = "write", !.read = rows]]
      BY <2>1, CallTypes
    <3> QED BY <2>1, <3>1, CallTypes
  <2>2. CASE Installer!Mishap /\ call' = [call EXCEPT ![c].at = "write"] /\ disturbed' = disturbed \cup rows
    <3>1. call' = [call EXCEPT ![c] = [call[c] EXCEPT !.at = "write", !.read = call[c].read]]
      BY <1>4, <2>2, CallTypes DEF Call
    <3>2. mishaps' \in 0..MaxMishaps
      BY <2>2, CallTypes DEF Installer!Mishap
    <3>3. call[c].read = {}
      BY <1>1, <1>4 DEF InPlace
    <3> QED BY <2>2, <3>1, <3>2, <3>3, CallTypes
  <2> QED BY <2>1, <2>2 DEF Installer!Read
<1>7. PICK k \in Call : /\ k.name = n /\ k.what = call[c].what /\ k.at = "write" /\ k.read = S
                       /\ k # Installer!Idle /\ call' = [call EXCEPT ![c] = k]
  <2>1. PICK k : k = [call[c] EXCEPT !.at = "write", !.read = S]
    OBVIOUS
  <2>2. k \in Call /\ k.name = n /\ k.what = call[c].what /\ k.at = "write" /\ k.read = S
    BY <1>3, <1>4, <2>1 DEF Call
  <2>3. k # Installer!Idle
    BY <2>2 DEF Installer!Idle
  <2> QED BY <1>6, <2>1, <2>2, <2>3
<1>8. /\ InPlace(k)
      /\ FolderAt(k, folder'[n]) <=> folder[n] = IF call[c].what = "install" THEN "whole" ELSE "none"
      /\ RowAt(k, n \in rows', folder'[n]) <=> (n \in rows <=> call[c].what = "remove")
  BY <1>1, <1>4, <1>7 DEF InPlace, FolderAt, RowAt
<1> QED BY <1>1, <1>2, <1>3, <1>5, <1>6, <1>7, <1>8, CallTypes, CallGoesOn, ZenonT(40)

LEMMA WriteInv == ASSUME PowersInv, NEW c \in Callers, Installer!Write(c) PROVE PowersInv'
<1>1. call[c].at = "write" /\ UNCHANGED <<folder, overlapped>>
  BY DEF Installer!Write
<1>2. Runs(c)
  BY <1>1, CallTypes
<1>3. PICK n \in PowerNames : n = call[c].name
  BY <1>2, CallFacts
<1>4. call[c] \in Call /\ call[c].what \in {"install", "remove"} /\ call[c].read \subseteq PowerNames
  BY <1>2, CallFacts DEF Call
<1>5. /\ n \notin disturbed => folder[n] = IF call[c].what = "install" THEN "whole" ELSE "none"
      /\ ~overlapped /\ n \notin disturbed => (n \in rows <=> call[c].what = "remove")
  BY <1>1, <1>2, <1>3, CallFacts DEF FolderAt, RowAt
<1>6. ~overlapped => \A m \in PowerNames \ disturbed : m \in call[c].read <=> m \in rows
  BY <1>1 DEF PowersInv, RowFollows
<1>7. CASE rows' = Installer!NewRows(c) /\ Installer!Ends(c) /\ UNCHANGED <<mishaps, disturbed>>
  <2>1. call' = [call EXCEPT ![c] = Installer!Idle] /\ Installer!Idle.at # "write"
    BY <1>7 DEF Installer!Ends, Installer!Idle
  <2>2. rows' = IF call[c].what = "install" THEN call[c].read \cup {n} ELSE call[c].read \ {n}
    BY <1>3, <1>7 DEF Installer!NewRows
  <2>3. /\ rows' \subseteq PowerNames
        /\ \A m \in PowerNames : m # n => (m \in rows' <=> m \in call[c].read)
        /\ n \in rows' <=> call[c].what = "install"
    BY <1>4, <2>2
  <2>4. /\ n \notin disturbed' => folder'[n] # "partial"
        /\ ~overlapped /\ n \notin disturbed' => (n \in rows' <=> folder'[n] = "whole")
    BY <1>1, <1>4, <1>5, <1>7, <2>3
  <2>5. ~overlapped => \A m \in PowerNames \ disturbed' : m # n => (m \in rows' <=> m \in rows)
    BY <1>6, <1>7, <2>3
  <2> QED BY <1>1, <1>2, <1>3, <1>7, <2>1, <2>3, <2>4, <2>5, CallTypes, CallGoesOn
<1>8. CASE Installer!Mishap /\ rows' \in {rows, {}} /\ Installer!WriteFails(c)
  <2>1. rows' \subseteq rows
    BY <1>8
  <2>2. CASE call[c].what = "install"
    <3>1. Installer!Goes(c, "rollback") /\ disturbed' = disturbed \cup (rows \ rows')
      BY <1>8, <2>2 DEF Installer!WriteFails
    <3>2. PICK k \in Call : /\ k.name = n /\ k.what = "install" /\ k.at = "rollback" /\ k # Installer!Idle
                           /\ call' = [call EXCEPT ![c] = k]
      BY <1>2, <1>3, <2>2, <3>1, PlaceFacts
    <3>3. /\ InPlace(k) /\ (FolderAt(k, folder'[n]) <=> folder'[n] = "whole")
          /\ (RowAt(k, n \in rows', folder'[n]) <=> n \notin rows')
      BY <3>2 DEF InPlace, FolderAt, RowAt
    <3>4. /\ n \notin disturbed' => folder'[n] = "whole"
          /\ ~overlapped /\ n \notin disturbed' => n \notin rows'
      BY <1>1, <1>5, <2>1, <2>2, <3>1
    <3>5. \A m \in PowerNames \ disturbed' : m \in rows' <=> m \in rows
      BY <2>1, <3>1
    <3>6. mishaps' \in 0..MaxMishaps
      BY <1>8, CallTypes DEF Installer!Mishap
    <3>7. rows' \subseteq PowerNames /\ disturbed \subseteq disturbed' /\ disturbed' \subseteq PowerNames
      BY <2>1, <3>1, CallTypes
    <3> QED BY <1>1, <1>2, <1>3, <3>2, <3>3, <3>4, <3>5, <3>6, <3>7, CallTypes, CallGoesOn
  <2>3. CASE call[c].what # "install"
    <3>1. Installer!Ends(c) /\ disturbed' = disturbed \cup (rows \ rows') \cup {n}
      BY <1>3, <1>8, <2>3 DEF Installer!WriteFails
    <3>2. disturbed' \subseteq PowerNames
      BY <3>1, CallTypes
    <3> QED BY <1>1, <1>2, <1>3, <1>8, <2>1, <3>1, <3>2, CallTypes, EndsDisturbed
  <2> QED BY <2>2, <2>3
<1> QED BY <1>7, <1>8 DEF Installer!Write

LEMMA RollbackInv == ASSUME PowersInv, NEW c \in Callers, Installer!Rollback(c) PROVE PowersInv'
<1>1. /\ call[c].what = "install" /\ call[c].at = "rollback" /\ Installer!Ends(c)
      /\ UNCHANGED <<rows, overlapped>>
  BY DEF Installer!Rollback, Installer!At
<1>2. Runs(c)
  BY <1>1, CallTypes
<1>3. PICK n \in PowerNames : n = call[c].name
  BY <1>2, CallFacts
<1>4. ~overlapped /\ n \notin disturbed => n \notin rows
  BY <1>1, <1>2, <1>3, CallFacts DEF RowAt
<1>5. CASE folder' = [folder EXCEPT ![n] = "none"] /\ UNCHANGED <<mishaps, disturbed>>
  <2>1. call' = [call EXCEPT ![c] = Installer!Idle] /\ Installer!Idle.at # "write"
    BY <1>1 DEF Installer!Ends, Installer!Idle
  <2>2. /\ folder' \in [PowerNames -> {"none", "partial", "whole"}] /\ folder'[n] = "none"
        /\ \A m \in PowerNames \ {n} : folder'[m] = folder[m]
    BY <1>5, CallTypes
  <2> QED BY <1>1, <1>2, <1>3, <1>4, <1>5, <2>1, <2>2, CallTypes, CallGoesOn
<1>6. CASE Installer!Mishap /\ UNCHANGED folder /\ disturbed' = disturbed \cup {n}
  BY <1>1, <1>2, <1>3, <1>6, CallTypes, EndsDisturbed
<1> QED BY <1>3, <1>5, <1>6 DEF Installer!Rollback

\* What a crash cuts short is disturbed; every other call has changed nothing yet.
LEMMA CrashInv == ASSUME PowersInv, Installer!Crash PROVE PowersInv'
<1>1. /\ Installer!Mishap /\ UNCHANGED overlapped /\ call' = [c \in Callers |-> Installer!Idle]
      /\ rows' \in {rows, {}}
      /\ disturbed' = disturbed \cup Installer!Cut({"copying", "delete", "read", "write", "rollback"}) \cup (rows \ rows')
  BY DEF Installer!Crash
<1>2. PICK left \in {"none", "partial", "whole"} :
        folder' = [n \in PowerNames |-> IF n \in Installer!Cut({"copying", "delete"}) THEN left ELSE folder[n]]
  BY DEF Installer!Crash
<1>3. \A c \in Callers : ~Runs(c)' /\ call'[c].at = "done"
  BY <1>1 DEF Runs, Installer!Idle
<1>4. \A c \in Callers : call[c].at \in {"copying", "delete", "read", "write", "rollback"} =>
        call[c].name \in disturbed'
  BY <1>1 DEF Installer!Cut
<1>5. Installer!PowersTypeOK'
  <2>1. mishaps' \in 0..MaxMishaps
    BY <1>1, CallTypes DEF Installer!Mishap
  <2>2. call' \in [Callers -> {Installer!Idle} \cup Call]
    BY <1>1
  <2>3. folder' \in [PowerNames -> {"none", "partial", "whole"}] /\ rows' \subseteq PowerNames
    BY <1>1, <1>2, CallTypes
  <2>4. disturbed' \subseteq PowerNames
    <3>1. Installer!Cut({"copying", "delete", "read", "write", "rollback"}) \subseteq PowerNames
      BY CallTypes DEF Installer!Cut
    <3> QED BY <1>1, <3>1, CallTypes
  <2> QED BY <1>1, <2>1, <2>2, <2>3, <2>4, CallTypes DEF Installer!PowersTypeOK, Call
<1>6. ASSUME NEW m \in PowerNames \ disturbed'
      PROVE  /\ m \notin disturbed /\ folder'[m] = folder[m] /\ (m \in rows' <=> m \in rows)
             /\ \A c \in Callers : RunsFor(c, m) =>
                  call[c].at \in {"check", "copy"} /\ call[c].what = "install"
  <2>1. m \notin disturbed /\ (m \in rows' <=> m \in rows)
    BY <1>1, <1>6
  <2>2. m \notin Installer!Cut({"copying", "delete"})
    BY <1>4, <1>6 DEF Installer!Cut
  <2>3. folder'[m] = folder[m]
    BY <1>2, <2>2
  <2>4. ASSUME NEW c \in Callers, RunsFor(c, m)
        PROVE call[c].at \in {"check", "copy"} /\ call[c].what = "install"
    <3>1. call[c] \in Call /\ InPlace(call[c])
      BY <2>4, CallFacts DEF RunsFor
    <3>2. call[c].at \in {"check", "copy"}
      BY <1>4, <1>6, <2>4, <3>1 DEF RunsFor, Call
    <3> QED BY <3>1, <3>2 DEF InPlace, Call
  <2> QED BY <2>1, <2>3, <2>4
<1>7. ASSUME NEW m \in PowerNames \ disturbed' PROVE FolderFollows(m)' /\ (~overlapped' => RowFollows(m)')
  <2>1. FolderFollows(m) /\ (~overlapped => RowFollows(m))
    BY <1>6, <1>7 DEF PowersInv
  <2>2. folder[m] # "partial"
    <3>1. CASE \A c \in Callers : ~RunsFor(c, m)
      BY <2>1, <3>1 DEF FolderFollows
    <3>2. CASE \E c \in Callers : RunsFor(c, m)
      BY <1>6, <1>7, <2>1, <3>2 DEF FolderFollows, FolderAt
    <3> QED BY <3>1, <3>2
  <2>3. ~overlapped => (m \in rows <=> folder[m] = "whole")
    <3>1. CASE \A c \in Callers : ~RunsFor(c, m)
      BY <2>1, <3>1 DEF RowFollows
    <3>2. CASE \E c \in Callers : RunsFor(c, m)
      <4>1. PICK c \in Callers : RunsFor(c, m)
        BY <3>2
      <4>2. call[c].at \in {"check", "copy"} /\ call[c].what = "install" /\ FolderAt(call[c], folder[m])
        BY <1>6, <1>7, <2>1, <4>1 DEF FolderFollows
      <4>3. ~overlapped => RowAt(call[c], m \in rows, folder[m])
        BY <2>1, <4>1 DEF RowFollows
      <4> QED BY <4>2, <4>3 DEF FolderAt, RowAt
    <3> QED BY <3>1, <3>2
  <2>4. folder'[m] = folder[m] /\ (m \in rows' <=> m \in rows) /\ overlapped' = overlapped
    BY <1>1, <1>6, <1>7
  <2> QED BY <1>3, <2>2, <2>3, <2>4 DEF FolderFollows, RowFollows, RunsFor
<1> QED BY <1>3, <1>5, <1>7 DEF PowersInv

LEMMA PowersStep == PowersInv /\ [Installer!PowersNext]_powerVars => PowersInv'
<1> SUFFICES ASSUME PowersInv, [Installer!PowersNext]_powerVars PROVE PowersInv'
  OBVIOUS
<1>1. CASE UNCHANGED powerVars
  BY <1>1 DEF powerVars, PowersInv, Installer!PowersTypeOK, FolderFollows, RowFollows, Runs, RunsFor
<1>2. ASSUME NEW c \in Callers, NEW what \in {"install", "remove"}, NEW n \in PowerNames, Installer!Begin(c, what, n)
      PROVE  PowersInv'
  BY <1>2, BeginInv
<1>3. ASSUME NEW c \in Callers, Installer!Check(c) \/ Installer!StartCopy(c) \/ Installer!Copy(c)
      PROVE  PowersInv'
  BY <1>3, CheckInv, StartCopyInv, CopyInv
<1>4. ASSUME NEW c \in Callers,
             Installer!Delete(c) \/ Installer!Read(c) \/ Installer!Write(c) \/ Installer!Rollback(c)
      PROVE  PowersInv'
  BY <1>4, DeleteInv, ReadInv, WriteInv, RollbackInv
<1>5. CASE Installer!Crash
  BY <1>5, CrashInv
<1> QED BY <1>1, <1>2, <1>3, <1>4, <1>5 DEF Installer!PowersNext

LEMMA PowersHolds ==
    PowersInv => Installer!PowersTypeOK /\ Installer!RowsFollowFolders /\ Installer!FoldersWhole
<1> SUFFICES ASSUME PowersInv
             PROVE  Installer!PowersTypeOK /\ Installer!RowsFollowFolders /\ Installer!FoldersWhole
  OBVIOUS
<1>1. ASSUME \A c \in Callers : call[c] = Installer!Idle, NEW n \in PowerNames \ disturbed
      PROVE  folder[n] # "partial" /\ (~overlapped => (n \in rows <=> folder[n] = "whole"))
  <2>1. FolderFollows(n) /\ (~overlapped => RowFollows(n)) /\ \A c \in Callers : ~RunsFor(c, n)
    BY <1>1 DEF PowersInv, RunsFor, Runs
  <2> QED BY <2>1 DEF FolderFollows, RowFollows
<1>2. Installer!FoldersWhole
  BY <1>1 DEF Installer!FoldersWhole
<1>3. ASSUME \A c \in Callers : call[c] = Installer!Idle, ~overlapped, NEW n \in PowerNames \ disturbed,
             NEW partly \in BOOLEAN
      PROVE  n \in rows <=> n \in Installer!Installed(partly)
  BY <1>1, <1>3 DEF Installer!Installed
<1>4. Installer!RowsFollowFolders
  BY <1>3 DEF Installer!RowsFollowFolders
<1> QED BY <1>2, <1>4 DEF PowersInv

-----------------------------------------------------------------------------
(* Batches *)

ItemStates == {"none", "running", "checked", "limited", "backoff", "fulfilled", "rejected"}

\* How many results there are before the running batch.
Before == CASE batch = 0 -> 0 [] batch = Items + 1 -> Items [] OTHER -> (batch - 1) * BatchSize

\* The items before the running batch are settled and have their results, those after it
\* have not begun, and one that backs off has an attempt left.
ItemFollows(i) ==
    /\ i <= Len(results) => item[i] \in Batches!Settled /\ results[i] = (item[i] = "fulfilled")
    /\ i > Len(results) /\ ~(batch \in 1..Items /\ i \in Batches!BatchOf(batch)) => item[i] = "none"
    /\ item[i] = "backoff" => attempt[i] < MaxRetries

BatchInv ==
    /\ batch \in 0..Items + 1 /\ item \in [1..Items -> ItemStates] /\ attempt \in [1..Items -> 0..MaxRetries]
    /\ results \in Seq(BOOLEAN) /\ Len(results) = Before
    /\ batch \in 1..Items => (batch - 1) * BatchSize < Items
    /\ \A i \in 1..Items : ItemFollows(i)

\* Where a batch begins and ends.
LEMMA BatchFacts ==
    /\ Items \in Nat /\ BatchSize \in Nat /\ BatchSize >= 1 /\ MaxRetries \in Nat
    /\ \A b \in Nat \ {0} :
         /\ (b - 1) * BatchSize \in Nat /\ b * BatchSize \in Nat /\ b <= b * BatchSize
         /\ b * BatchSize = (b - 1) * BatchSize + BatchSize
<1>1. Items \in Nat /\ BatchSize \in Nat /\ BatchSize >= 1 /\ MaxRetries \in Nat
  BY ServicesAssumption
<1>2. ASSUME NEW b \in Nat \ {0}
      PROVE  /\ (b - 1) * BatchSize \in Nat /\ b * BatchSize \in Nat /\ b <= b * BatchSize
             /\ b * BatchSize = (b - 1) * BatchSize + BatchSize
  <2>1. b * BatchSize \in Nat /\ (b - 1) * BatchSize \in Nat
    BY <1>1
  <2>2. b * BatchSize = (b - 1) * BatchSize + BatchSize
    BY <1>1
  <2>3. b <= b * BatchSize
    BY <1>1
  <2> QED BY <2>1, <2>2, <2>3
<1> QED BY <1>1, <1>2

LEMMA BatchInitInv == Batches!BatchInit => BatchInv
<1> SUFFICES ASSUME Batches!BatchInit PROVE BatchInv
  OBVIOUS
<1>1. batch = 0 /\ results = <<>> /\ Items \in Nat /\ MaxRetries \in Nat
  BY BatchFacts DEF Batches!BatchInit
<1>2. item \in [1..Items -> ItemStates] /\ \A i \in 1..Items : item[i] = "none"
  BY DEF Batches!BatchInit, ItemStates
<1>3. attempt \in [1..Items -> 0..MaxRetries]
  BY <1>1 DEF Batches!BatchInit
<1>4. results \in Seq(BOOLEAN) /\ Len(results) = 0 /\ Before = 0
  BY <1>1 DEF Before
<1>5. \A i \in 1..Items : ItemFollows(i)
  BY <1>1, <1>2, <1>4 DEF ItemFollows
<1> QED BY <1>1, <1>2, <1>3, <1>4, <1>5 DEF BatchInv

\* An item that works goes on, and nothing else changes.
LEMMA ItemGoesOn ==
    ASSUME BatchInv, NEW i \in 1..Items, item[i] \in {"running", "checked", "limited", "backoff"},
           NEW w \in ItemStates \ {"none"}, Batches!Becomes(i, w), UNCHANGED <<batch, results>>,
           attempt' \in [1..Items -> 0..MaxRetries],
           \A j \in 1..Items : j # i => attempt'[j] = attempt[j],
           w = "backoff" => attempt'[i] < MaxRetries
    PROVE  BatchInv'
<1>1. /\ item' \in [1..Items -> ItemStates] /\ item'[i] = w
      /\ \A j \in 1..Items : j # i => item'[j] = item[j]
  BY DEF BatchInv, Batches!Becomes
<1>2. ASSUME NEW j \in 1..Items PROVE ItemFollows(j)'
  <2>1. ItemFollows(j)
    BY DEF BatchInv
  <2>2. CASE j # i
    <3>1. item'[j] = item[j] /\ attempt'[j] = attempt[j]
      BY <1>1, <2>2
    <3> QED BY <2>1, <3>1 DEF ItemFollows, Batches!Settled, Batches!BatchOf, Batches!Last
  <2>3. CASE j = i
    <3>1. /\ ~(i <= Len(results))
          /\ batch \in 1..Items /\ i \in Batches!BatchOf(batch)
      <4>1. Len(results) \in Nat /\ i \in Nat
        BY DEF BatchInv
      <4> QED BY <2>1, <2>3, <4>1 DEF ItemFollows, Batches!Settled
    <3> QED BY <1>1, <2>3, <3>1 DEF ItemFollows, Batches!Settled, Batches!BatchOf, Batches!Last
  <2> QED BY <2>2, <2>3
<1>3. Before' = Before
  BY DEF Before
<1> QED BY <1>1, <1>2, <1>3 DEF BatchInv

LEMMA WorksInv == ASSUME BatchInv, NEW i \in 1..Items, Batches!Works(i) PROVE BatchInv'
<1>1. attempt \in [1..Items -> 0..MaxRetries] /\ ItemFollows(i) /\ MaxRetries \in Nat
  BY BatchFacts DEF BatchInv
<1>2. CASE Batches!Responds(i) \/ Batches!Checked(i) \/ Batches!LimitResets(i)
  <2>1. PICK w \in {"checked", "fulfilled", "limited"} : Batches!Becomes(i, w)
    BY <1>2 DEF Batches!Responds, Batches!Checked, Batches!LimitResets
  <2>2. item[i] \in {"running", "checked", "limited", "backoff"} /\ UNCHANGED <<batch, results, attempt>>
    BY <1>2 DEF Batches!Responds, Batches!Checked, Batches!LimitResets
  <2>3. w \in ItemStates \ {"none"} /\ w # "backoff"
    BY <2>1 DEF ItemStates
  <2> QED BY <1>1, <2>1, <2>2, <2>3, ItemGoesOn
<1>3. CASE Batches!Fails(i)
  <2>1. item[i] = "running" /\ UNCHANGED <<batch, results, attempt>>
    BY <1>3 DEF Batches!Fails
  <2>2. CASE Batches!Becomes(i, "rejected")
    <3>1. "rejected" \in ItemStates \ {"none"}
      BY DEF ItemStates
    <3> QED BY <1>1, <2>1, <2>2, <3>1, ItemGoesOn
  <2>3. CASE attempt[i] # MaxRetries /\ Batches!Becomes(i, "backoff")
    <3>1. "backoff" \in ItemStates \ {"none"}
      BY DEF ItemStates
    <3>2. attempt[i] < MaxRetries
      BY <1>1, <2>3
    <3> QED BY <1>1, <2>1, <2>3, <3>1, <3>2, ItemGoesOn
  <2> QED BY <1>3, <2>2, <2>3 DEF Batches!Fails, Batches!LastAttempt
<1>4. CASE Batches!Retry(i)
  <2>1. /\ item[i] = "backoff" /\ Batches!Becomes(i, "running") /\ UNCHANGED <<batch, results>>
        /\ attempt' = [attempt EXCEPT ![i] = attempt[i] + 1]
    BY <1>4 DEF Batches!Retry
  <2>2. attempt[i] \in 0..MaxRetries /\ attempt[i] < MaxRetries
    BY <1>1, <2>1 DEF ItemFollows
  <2>3. attempt[i] + 1 \in 0..MaxRetries
    BY <1>1, <2>2
  <2>4. "running" \in ItemStates \ {"none"}
    BY DEF ItemStates
  <2> QED BY <1>1, <2>1, <2>3, <2>4, ItemGoesOn
<1> QED BY <1>2, <1>3, <1>4 DEF Batches!Works

LEMMA StartInv == ASSUME BatchInv, Batches!Start PROVE BatchInv'
<1>1. /\ batch = 0 /\ batch' = 1 /\ UNCHANGED <<attempt, results>>
      /\ item' = [i \in 1..Items |-> IF i \in Batches!BatchOf(1) THEN "running" ELSE item[i]]
  BY DEF Batches!Start, Batches!StartBatch
<1>2. Len(results) = 0 /\ Items \in Nat /\ (1 - 1) * BatchSize = 0 /\ MaxRetries \in Nat
  BY <1>1, BatchFacts DEF BatchInv, Before
<1>3. item' \in [1..Items -> ItemStates]
  BY <1>1 DEF BatchInv, ItemStates
<1>4. Before' = 0
  BY <1>1, <1>2 DEF Before
<1>5. batch' \in 0..Items + 1 /\ (batch' \in 1..Items => (batch' - 1) * BatchSize < Items)
  BY <1>1, <1>2
<1>6. ASSUME NEW i \in 1..Items PROVE ItemFollows(i)'
  <2>1. item[i] = "none" /\ batch' \in 1..Items
    BY <1>1, <1>2 DEF BatchInv, ItemFollows
  <2>2. i \in Batches!BatchOf(batch)' <=> i \in Batches!BatchOf(1)
    BY <1>1 DEF Batches!BatchOf, Batches!Last
  <2>3. item'[i] = IF i \in Batches!BatchOf(1) THEN "running" ELSE "none"
    BY <1>1, <2>1
  <2> QED BY <1>1, <1>2, <2>1, <2>2, <2>3 DEF ItemFollows
<1> QED BY <1>1, <1>2, <1>3, <1>4, <1>5, <1>6 DEF BatchInv

\* The batch that ends adds a result for each of its items, in their order.
LEMMA ResultsAdded ==
    ASSUME BatchInv, Batches!EndBatch
    PROVE  /\ results' \in Seq(BOOLEAN) /\ Len(results') = Batches!Last(batch)
           /\ batch \in Nat \ {0} /\ Batches!Last(batch) \in Nat
           /\ \A i \in 1..Batches!Last(batch) :
                i \in 1..Items /\ item[i] \in Batches!Settled /\ results'[i] = (item[i] = "fulfilled")
<1>1. batch \in 1..Items /\ \A i \in Batches!BatchOf(batch) : item[i] \in Batches!Settled
  BY DEF Batches!EndBatch, Batches!AllSettled
<1>2. /\ Items \in Nat /\ BatchSize \in Nat \ {0} /\ batch \in Nat \ {0} /\ batch # Items + 1
      /\ (batch - 1) * BatchSize \in Nat /\ batch * BatchSize \in Nat
      /\ batch * BatchSize = (batch - 1) * BatchSize + BatchSize
  BY <1>1, BatchFacts
<1> DEFINE start == (batch - 1) * BatchSize
           end == Batches!Last(batch)
<1>3. start \in Nat /\ end \in Nat /\ start < end /\ end <= Items
  BY <1>1, <1>2 DEF BatchInv, Batches!Last
<1>4. Len(results) = start /\ results \in Seq(BOOLEAN)
  BY <1>1, <1>2 DEF BatchInv, Before
<1>5. Batches!Cardinality(Batches!BatchOf(batch)) = end - start
  <2>1. Batches!Cardinality(Batches!BatchOf(batch)) = Cardinality(Batches!BatchOf(batch))
    BY DEF Batches!Cardinality, Cardinality
  <2>2. Batches!BatchOf(batch) = (start + 1)..end
    BY DEF Batches!BatchOf
  <2>3. Cardinality((start + 1)..end) = end - (start + 1) + 1
    BY <1>3, FS_Interval
  <2> QED BY <1>3, <2>1, <2>2, <2>3
<1> DEFINE added == [k \in 1..(end - start) |-> item[start + k] = "fulfilled"]
<1>6. results' = results \o added
  BY <1>5 DEF Batches!EndBatch
<1>7. added \in Seq(BOOLEAN) /\ Len(added) = end - start
  <2>1. end - start \in Nat /\ added \in [1..(end - start) -> BOOLEAN]
    BY <1>3
  <2> HIDE DEF added
  <2>2. added \in Seq(BOOLEAN)
    BY <2>1
  <2> QED BY <2>1, <2>2, LenProperties
<1>8. results' \in Seq(BOOLEAN) /\ Len(results') = end
  <2> HIDE DEF added, start, end
  <2>1. results \o added \in Seq(BOOLEAN) /\ Len(results \o added) = Len(results) + Len(added)
    BY <1>4, <1>7, ConcatProperties
  <2> QED BY <1>3, <1>4, <1>6, <1>7, <2>1
<1>9. ASSUME NEW i \in 1..end
      PROVE  i \in 1..Items /\ item[i] \in Batches!Settled /\ results'[i] = (item[i] = "fulfilled")
  <2>1. i \in 1..Items
    <3> HIDE DEF start, end
    <3> QED BY <1>2, <1>3, <1>9
  <2>2. CASE i <= start
    <3>1. item[i] \in Batches!Settled /\ results[i] = (item[i] = "fulfilled")
      BY <1>4, <2>1, <2>2 DEF BatchInv, ItemFollows
    <3>2. results'[i] = results[i]
      BY <1>3, <1>4, <1>6, <1>7, <2>2
    <3> QED BY <2>1, <3>1, <3>2
  <2>3. CASE i > start
    <3>1. i \in Batches!BatchOf(batch)
      BY <1>3, <2>3 DEF Batches!BatchOf
    <3>2. i - start \in 1..(end - start) /\ start + (i - start) = i
      BY <1>3, <2>3
    <3>3. added[i - start] = (item[i] = "fulfilled")
      BY <3>2
    <3>4. results'[i] = added[i - start]
      BY <1>3, <1>4, <1>6, <1>7, <2>3
    <3> QED BY <1>1, <2>1, <3>1, <3>3, <3>4
  <2> QED BY <1>3, <2>2, <2>3
<1> HIDE DEF start, end, added
<1> QED BY <1>2, <1>3, <1>8, <1>9 DEF end

LEMMA EndBatchInv == ASSUME BatchInv, Batches!EndBatch PROVE BatchInv'
<1>1. /\ batch \in 1..Items /\ UNCHANGED attempt
      /\ IF batch * BatchSize < Items THEN Batches!StartBatch(batch + 1) ELSE batch' = Items + 1 /\ UNCHANGED item
  BY DEF Batches!EndBatch
<1>2. /\ Items \in Nat /\ BatchSize \in Nat \ {0} /\ batch \in Nat \ {0}
      /\ batch * BatchSize \in Nat /\ batch <= batch * BatchSize
  BY <1>1, BatchFacts
<1>3. \A i \in 1..Items : item[i] = "backoff" => attempt[i] < MaxRetries
  BY DEF BatchInv, ItemFollows
<1>4. CASE batch * BatchSize < Items
  <2>1. /\ batch' = batch + 1
        /\ item' = [i \in 1..Items |-> IF i \in Batches!BatchOf(batch + 1) THEN "running" ELSE item[i]]
    BY <1>1, <1>4 DEF Batches!StartBatch
  <2>2. batch' \in 1..Items /\ batch' - 1 = batch /\ batch' # Items + 1 /\ batch' # 0
    BY <1>2, <1>4, <2>1
  <2>3. Batches!Last(batch) = batch * BatchSize
    BY <1>4 DEF Batches!Last
  <2>4. Before' = batch * BatchSize /\ (batch' - 1) * BatchSize < Items
    BY <1>4, <2>2 DEF Before
  <2>5. item' \in [1..Items -> ItemStates]
    BY <2>1 DEF BatchInv, ItemStates
  <2>6. ASSUME NEW i \in 1..Items PROVE ItemFollows(i)'
    <3>1. i \in Batches!BatchOf(batch)' <=> i \in Batches!BatchOf(batch + 1)
      BY <2>1 DEF Batches!BatchOf, Batches!Last
    <3>2. CASE i \in Batches!BatchOf(batch + 1)
      <4>1. item'[i] = "running" /\ ~(i <= batch * BatchSize)
        BY <1>2, <2>1, <3>2 DEF Batches!BatchOf
      <4> QED BY <2>2, <2>3, <3>1, <3>2, <4>1, ResultsAdded DEF ItemFollows
    <3>3. CASE i \notin Batches!BatchOf(batch + 1)
      <4>1. item'[i] = item[i]
        BY <2>1, <3>3
      <4>2. i > batch * BatchSize => item[i] = "none"
        <5>1. ASSUME i > batch * BatchSize PROVE i \notin Batches!BatchOf(batch) /\ i > Len(results)
          <6>1. i \notin Batches!BatchOf(batch)
            BY <1>2, <2>3, <5>1 DEF Batches!BatchOf
          <6>2. Len(results) = (batch - 1) * BatchSize
            BY <1>1, <1>2 DEF BatchInv, Before
          <6>3. (batch - 1) * BatchSize \in Nat /\ (batch - 1) * BatchSize <= batch * BatchSize
            BY <1>2, BatchFacts
          <6> QED BY <1>2, <5>1, <6>1, <6>2, <6>3
        <5> QED BY <5>1 DEF BatchInv, ItemFollows
      <4>3. i <= batch * BatchSize => i \in 1..Batches!Last(batch)
        BY <1>2, <2>3
      <4> QED BY <1>1, <1>3, <2>3, <4>1, <4>2, <4>3, ResultsAdded DEF ItemFollows, Batches!Settled
    <3> QED BY <3>2, <3>3
  <2>7. batch' \in 0..Items + 1
    BY <1>2, <2>2
  <2> QED BY <1>1, <2>2, <2>3, <2>4, <2>5, <2>6, <2>7, ResultsAdded DEF BatchInv
<1>5. CASE ~(batch * BatchSize < Items)
  <2>1. batch' = Items + 1 /\ item' = item /\ batch' \notin 1..Items /\ Items + 1 # 0
    BY <1>1, <1>2, <1>5
  <2>2. Batches!Last(batch) = Items
    BY <1>5 DEF Batches!Last
  <2>3. Before' = Items
    BY <2>1 DEF Before
  <2>4. ASSUME NEW i \in 1..Items PROVE ItemFollows(i)'
    <3>1. i \in 1..Batches!Last(batch) /\ i <= Items /\ ~(i > Items)
      BY <1>2, <2>2
    <3> QED BY <1>1, <1>3, <2>1, <2>2, <3>1, ResultsAdded DEF ItemFollows, Batches!Settled
  <2>5. batch' \in 0..Items + 1
    BY <1>2, <2>1
  <2> QED BY <1>1, <2>1, <2>2, <2>3, <2>4, <2>5, ResultsAdded DEF BatchInv
<1> QED BY <1>4, <1>5

LEMMA BatchStep == BatchInv /\ [Batches!BatchNext]_batchVars => BatchInv'
<1> SUFFICES ASSUME BatchInv, [Batches!BatchNext]_batchVars PROVE BatchInv'
  OBVIOUS
<1>1. CASE UNCHANGED batchVars
  BY <1>1 DEF batchVars, BatchInv, ItemFollows, Before, Batches!Settled, Batches!BatchOf, Batches!Last
<1>2. CASE Batches!Start
  BY <1>2, StartInv
<1>3. CASE Batches!EndBatch
  BY <1>3, EndBatchInv
<1>4. ASSUME NEW i \in 1..Items, Batches!Works(i) PROVE BatchInv'
  BY <1>4, WorksInv
<1> QED BY <1>1, <1>2, <1>3, <1>4 DEF Batches!BatchNext

LEMMA BatchHolds == BatchInv => Batches!BatchesInOrder
<1> SUFFICES ASSUME BatchInv PROVE Batches!BatchesInOrder
  OBVIOUS
<1>1. /\ Items \in Nat /\ MaxRetries \in Nat /\ Len(results) \in Nat /\ \A i \in 1..Items : ItemFollows(i)
      /\ attempt \in [1..Items -> 0..MaxRetries]
  BY BatchFacts DEF BatchInv
<1>2. \A i \in 1..Items : item[i] \notin Batches!Settled \cup {"none"} => batch \in 1..Items /\ i \in Batches!BatchOf(batch)
  BY <1>1 DEF ItemFollows
<1>3. Len(results) <= Items
  <2>1. CASE batch = 0 \/ batch = Items + 1
    BY <1>1, <2>1 DEF BatchInv, Before
  <2>2. CASE batch \in 1..Items
    BY <1>1, <2>2, BatchFacts DEF BatchInv, Before
  <2> QED BY <1>1, <2>1, <2>2 DEF BatchInv
<1>4. \A i \in 1..Len(results) : item[i] \in Batches!Settled /\ results[i] = (item[i] = "fulfilled")
  BY <1>1, <1>3 DEF ItemFollows
<1>5. batch = Items + 1 => Len(results) = Items
  BY <1>1 DEF BatchInv, Before
<1>6. \A i \in 1..Items : attempt[i] <= MaxRetries
  BY <1>1
<1> QED BY <1>2, <1>4, <1>5, <1>6 DEF Batches!BatchesInOrder

-----------------------------------------------------------------------------
(* Providers and fallback chains *)

Keys == Cardinality(configured)
Asked(p, m) == \E i \in 1..Len(asked) : asked[i] = <<p, m>>
\* The providers with a key among the first k - 1.
Tried(k) == {p \in configured : \E j \in 1..k - 1 : Names[j] = p}

\* A request asks for its own model last.
Ordered == \A i \in 1..Len(asked) : asked[i][2] # "own" => \A j \in 1..Len(asked) : asked[j][2] = "own" => i < j
OnlyModels == \A i \in 1..Len(asked) : asked[i][2] # "own"

\* Every provider with a key was asked for every model before the running one.
ModelsAsked(m) == \A p \in configured, i \in 1..m - 1 : Asked(p, using[i])
PrimaryAsked == Primary \in configured => Asked(Primary, "own")
FallbacksAsked(k) == \A j \in 1..k - 1 : fallbacks[j] \in configured => Asked(fallbacks[j], "own")

InChain ==
    /\ model \in 1..Len(using) /\ next \in 1..Len(Names) /\ OnlyModels /\ ModelsAsked(model)
    /\ \A p \in Tried(next) : Asked(p, using[model])
    /\ Len(asked) <= (model - 1) * Keys + Cardinality(Tried(next))
AtPrimary == OnlyModels /\ ModelsAsked(Len(using) + 1) /\ Len(asked) <= Len(using) * Keys
InFallback ==
    /\ next \in 1..Len(fallbacks) + 1 /\ ModelsAsked(Len(using) + 1) /\ PrimaryAsked /\ FallbacksAsked(next)
    /\ Len(asked) <= Len(using) * Keys + next

ProvidersInv ==
    /\ configured \subseteq Range(Names) /\ chain \in Providers!Chains /\ using \in Seq(Models)
    /\ fallbacks \in Seq(Range(Names)) /\ asked \in Seq(Range(Names) \X (Models \cup {"own"}))
    /\ Ordered /\ Len(asked) <= Len(using) * Keys + 1 + Len(fallbacks)
    /\ stage = "none" => asked = <<>>
    /\ stage = "chain" => InChain
    /\ stage = "primary" => AtPrimary
    /\ stage = "fallback" => InFallback
    /\ stage = "failed" =>
         ModelsAsked(Len(using) + 1) /\ PrimaryAsked /\ FallbacksAsked(Len(fallbacks) + 1)

LEMMA NamesFacts ==
    /\ Names \in Seq(Range(Names)) /\ Len(Names) \in Nat \ {0} /\ IsFiniteSet(Range(Names))
    /\ \A p : p \in Range(Names) <=> \E j \in 1..Len(Names) : Names[j] = p
    /\ \A j, k \in 1..Len(Names) : Names[j] = Names[k] => j = k
    /\ "own" \notin Models
<1>1. Names \in Seq(Range(Names)) /\ Len(Names) \in Nat \ {0} /\ DOMAIN Names = 1..Len(Names)
  BY ServicesAssumption, LenProperties
<1>2. \A p : p \in Range(Names) <=> \E j \in 1..Len(Names) : Names[j] = p
  BY <1>1 DEF Range
<1>3. IsFiniteSet(Range(Names))
  BY <1>1, <1>2 DEF IsFiniteSet
<1>4. \A j, k \in 1..Len(Names) : Names[j] = Names[k] => j = k
  BY <1>1, ServicesAssumption DEF IsInjective
<1> QED BY <1>1, <1>2, <1>3, <1>4, ServicesAssumption

\* Counting the providers with a key.
LEMMA TriedFacts ==
    ASSUME configured \subseteq Range(Names)
    PROVE  /\ IsFiniteSet(configured) /\ Keys \in Nat /\ Tried(1) = {} /\ Cardinality(Tried(1)) = 0
           /\ Tried(Len(Names) + 1) = configured
           /\ \A k \in 1..Len(Names) :
                /\ Tried(k + 1) = IF Names[k] \in configured THEN Tried(k) \cup {Names[k]} ELSE Tried(k)
                /\ Cardinality(Tried(k)) \in Nat
                /\ Cardinality(Tried(k + 1)) =
                     Cardinality(Tried(k)) + (IF Names[k] \in configured THEN 1 ELSE 0)
<1>1. IsFiniteSet(configured) /\ Keys \in Nat
  BY NamesFacts, FS_Subset, FS_CardinalityType DEF Keys
<1>2. Tried(1) = {} /\ Cardinality(Tried(1)) = 0
  BY FS_EmptySet DEF Tried
<1>3. Tried(Len(Names) + 1) = configured
  <2>1. \A p \in configured : \E j \in 1..Len(Names) : Names[j] = p
    BY NamesFacts
  <2>2. (Len(Names) + 1) - 1 = Len(Names)
    BY NamesFacts
  <2> QED BY <2>1, <2>2 DEF Tried
<1>4. ASSUME NEW k \in 1..Len(Names)
      PROVE  /\ Tried(k + 1) = IF Names[k] \in configured THEN Tried(k) \cup {Names[k]} ELSE Tried(k)
             /\ Cardinality(Tried(k)) \in Nat
             /\ Cardinality(Tried(k + 1)) = Cardinality(Tried(k)) + (IF Names[k] \in configured THEN 1 ELSE 0)
  <2>1. k \in Nat /\ Len(Names) \in Nat /\ k - 1 \in Nat /\ (k + 1) - 1 = k
    BY <1>4, NamesFacts
  <2>2. \A j : j \in 1..k <=> j \in 1..k - 1 \/ j = k
    BY <1>4, <2>1
  <2>3. Tried(k + 1) = IF Names[k] \in configured THEN Tried(k) \cup {Names[k]} ELSE Tried(k)
    BY <2>1, <2>2 DEF Tried
  <2>4. Names[k] \notin Tried(k)
    <3>1. \A j \in 1..k - 1 : j \in 1..Len(Names) /\ j # k
      BY <1>4, <2>1
    <3> QED BY <1>4, <3>1, NamesFacts DEF Tried
  <2>5. IsFiniteSet(Tried(k)) /\ Cardinality(Tried(k)) \in Nat
    <3>1. Tried(k) \subseteq configured
      BY DEF Tried
    <3> QED BY <1>1, <3>1, FS_Subset, FS_CardinalityType
  <2>6. Cardinality(Tried(k) \cup {Names[k]}) = Cardinality(Tried(k)) + 1
    BY <2>4, <2>5, FS_AddElement
  <2>7. Cardinality(Tried(k + 1)) = Cardinality(Tried(k)) + (IF Names[k] \in configured THEN 1 ELSE 0)
    BY <2>3, <2>5, <2>6
  <2> QED BY <2>3, <2>5, <2>7
<1> QED BY <1>1, <1>2, <1>3, <1>4

\* Asking for m models of the n of a chain.
LEMMA KeysTimes ==
    ASSUME configured \subseteq Range(Names), NEW n \in Nat, NEW m \in 1..n
    PROVE  /\ m * Keys \in Nat /\ n * Keys \in Nat /\ (m - 1) * Keys \in Nat
           /\ m * Keys = (m - 1) * Keys + Keys /\ m * Keys <= n * Keys
<1>1. Keys \in Nat /\ m \in Nat /\ m - 1 \in Nat /\ n - m \in Nat
  BY TriedFacts
<1>2. m * Keys \in Nat /\ n * Keys \in Nat /\ (m - 1) * Keys \in Nat /\ (n - m) * Keys \in Nat
  BY <1>1
<1>3. m * Keys = (m - 1) * Keys + Keys
  BY <1>1
<1>4. n * Keys = m * Keys + (n - m) * Keys
  BY <1>1
<1> QED BY <1>2, <1>3, <1>4

LEMMA ProvidersInitInv == Providers!ProvidersInit => ProvidersInv
<1> SUFFICES ASSUME Providers!ProvidersInit PROVE ProvidersInv
  OBVIOUS
<1>1. configured \subseteq Range(Names)
  <2>1. Providers!ToSet(Names) = Range(Names)
    BY DEF Providers!ToSet, Range
  <2> QED BY <2>1 DEF Providers!ProvidersInit
<1>2. fallbacks \in Seq(Range(Names)) /\ Len(fallbacks) \in Nat
  <2>1. PICK i \in 0..Len(Names), j \in 0..Len(Names) : fallbacks = SubSeq(Names, i + 1, j)
    BY DEF Providers!ProvidersInit, Providers!SubSeqs
  <2>2. i + 1 \in Int /\ j \in Int /\ \A k \in (i + 1)..j : k \in 1..Len(Names)
    BY <2>1, NamesFacts
  <2>3. \A k \in (i + 1)..j : Names[k] \in Range(Names)
    BY <2>2, NamesFacts
  <2>4. fallbacks \in Seq(Range(Names))
    BY <2>1, <2>2, <2>3, SubSeqProperties
  <2> QED BY <2>4
<1>3. using = <<>> /\ asked = <<>> /\ stage = "none" /\ chain \in Providers!Chains
  BY DEF Providers!ProvidersInit
<1>4. Len(using) = 0 /\ Len(asked) = 0 /\ Keys \in Nat /\ 0 * Keys = 0
  BY <1>1, <1>3, TriedFacts
<1>5. Ordered
  BY <1>4 DEF Ordered
<1> QED BY <1>1, <1>2, <1>3, <1>4, <1>5 DEF ProvidersInv

LEMMA SendInv == ASSUME ProvidersInv, Providers!SendForTier PROVE ProvidersInv'
<1>1. /\ asked = <<>> /\ asked' = <<>> /\ UNCHANGED <<configured, chain, fallbacks>>
      /\ model' = 1 /\ next' = 1 /\ using' = IF chained THEN chain ELSE <<>>
      /\ stage' = IF chained /\ chain # <<>> THEN "chain" ELSE "primary"
  BY DEF ProvidersInv, Providers!SendForTier, Providers!At, Providers!settings
<1>2. /\ configured' \subseteq Range(Names) /\ Keys' = Keys /\ Keys \in Nat
      /\ Len(fallbacks) \in Nat /\ Len(Names) \in Nat \ {0} /\ \A k : Tried(k)' = Tried(k)
  BY <1>1, TriedFacts, NamesFacts, SMTT(30) DEF ProvidersInv, Keys, Tried
<1>3. using' \in Seq(Models) /\ Len(using') \in Nat
  <2>1. PICK n \in 0..2 : chain \in [1..n -> Models]
    BY DEF ProvidersInv, Providers!Chains
  <2>2. chain \in Seq(Models)
    BY <2>1
  <2>3. <<>> \in Seq(Models)
    BY EmptySeq
  <2> QED BY <1>1, <2>2, <2>3
<1>4. Len(asked') = 0 /\ Ordered' /\ OnlyModels'
  BY <1>1 DEF Ordered, OnlyModels
<1>5. Len(using') * Keys \in Nat
  BY <1>2, <1>3
<1>6. /\ configured' \subseteq Range(Names) /\ chain' \in Providers!Chains /\ fallbacks' \in Seq(Range(Names))
      /\ asked' \in Seq(Range(Names) \X (Models \cup {"own"}))
      /\ Len(asked') <= Len(using') * Keys' + 1 + Len(fallbacks')
  BY <1>1, <1>2, <1>4, <1>5 DEF ProvidersInv
<1>7. CASE chained /\ chain # <<>>
  <2>1. using' # <<>> /\ stage' = "chain"
    BY <1>1, <1>7
  <2>2. 1 \in 1..Len(using') /\ 1 \in 1..Len(Names)
    BY <1>2, <1>3, <2>1, EmptySeq
  <2>3. ModelsAsked(model)'
    BY <1>1 DEF ModelsAsked
  <2>4. Tried(next)' = {}
    BY <1>1, TriedFacts DEF ProvidersInv, Tried
  <2>5. Cardinality(Tried(next)') = 0 /\ (1 - 1) * Keys = 0
    BY <1>2, <2>4, FS_EmptySet
  <2>6. InChain'
    BY <1>1, <1>2, <1>4, <2>2, <2>3, <2>4, <2>5 DEF InChain
  <2> QED BY <1>1, <1>3, <1>4, <1>6, <2>1, <2>6 DEF ProvidersInv
<1>8. CASE ~(chained /\ chain # <<>>)
  <2>1. using' = <<>> /\ Len(using') = 0 /\ stage' = "primary"
    BY <1>1, <1>8
  <2>2. ModelsAsked(Len(using) + 1)'
    BY <2>1 DEF ModelsAsked
  <2>3. AtPrimary'
    BY <1>2, <1>4, <1>5, <2>2 DEF AtPrimary
  <2> QED BY <1>1, <1>3, <1>4, <1>6, <2>1, <2>3 DEF ProvidersInv
<1> QED BY <1>7, <1>8

\* What asking, or skipping, a provider does to what was asked.
LEMMA TurnFacts ==
    ASSUME ProvidersInv, Providers!Skip \/ Providers!Ask
    PROVE  /\ stage \in {"chain", "primary", "fallback"} /\ ~Providers!Exhausted
           /\ UNCHANGED <<configured, chain, fallbacks, using>>
           /\ asked' \in Seq(Range(Names) \X (Models \cup {"own"}))
           /\ Len(asked') = Len(asked) + (IF Providers!Provider \in configured THEN 1 ELSE 0)
           /\ \A p, m : Asked(p, m) => Asked(p, m)'
           /\ \A m : \A p \in configured : p = Providers!Provider /\ m = Providers!Model => Asked(p, m)'
           /\ \A i \in 1..Len(asked') :
                \/ i \in 1..Len(asked) /\ asked'[i] = asked[i]
                \/ i = Len(asked) + 1 /\ asked'[i] = <<Providers!Provider, Providers!Model>>
           /\ Len(asked) \in Nat /\ Len(asked') \in Nat
           /\ stage = "chain" => Providers!Provider = Names[next] /\ Providers!Model = using[model]
           /\ stage = "primary" => Providers!Provider = Primary /\ Providers!Model = "own"
           /\ stage = "fallback" => Providers!Provider = fallbacks[next] /\ Providers!Model = "own"
<1>1. stage \in {"chain", "primary", "fallback"} /\ ~Providers!Exhausted /\ UNCHANGED <<configured, chain, fallbacks, using>>
  BY DEF Providers!Skip, Providers!Ask, Providers!Providing, Providers!settings
<1>2. /\ stage = "chain" => Providers!Provider = Names[next] /\ Providers!Model = using[model]
      /\ stage = "primary" => Providers!Provider = Primary /\ Providers!Model = "own"
      /\ stage = "fallback" => Providers!Provider = fallbacks[next] /\ Providers!Model = "own"
  BY DEF Providers!Provider, Providers!Model
<1>3. asked \in Seq(Range(Names) \X (Models \cup {"own"})) /\ Len(asked) \in Nat
  BY DEF ProvidersInv
<1>4. CASE Providers!Skip
  <2>1. asked' = asked /\ Providers!Provider \notin configured
    BY <1>4 DEF Providers!Skip
  <2> QED BY <1>1, <1>2, <1>3, <2>1 DEF Asked
<1>5. CASE Providers!Ask
  <2>1. asked' = Append(asked, <<Providers!Provider, Providers!Model>>) /\ Providers!Provider \in configured
    BY <1>5 DEF Providers!Ask
  <2>2. <<Providers!Provider, Providers!Model>> \in Range(Names) \X (Models \cup {"own"})
    <3>1. Providers!Provider \in Range(Names)
      BY <2>1 DEF ProvidersInv
    <3>2. Providers!Model \in Models \cup {"own"}
      <4>1. CASE stage = "chain"
        <5>1. using[model] \in Models
          BY <4>1, ElementOfSeq DEF ProvidersInv, InChain
        <5> QED BY <1>2, <4>1, <5>1
      <4>2. CASE stage # "chain"
        BY <1>1, <1>2, <4>2
      <4> QED BY <4>1, <4>2
    <3> QED BY <3>1, <3>2
  <2>3. /\ asked' \in Seq(Range(Names) \X (Models \cup {"own"})) /\ Len(asked') = Len(asked) + 1
        /\ \A i \in 1..Len(asked) : asked'[i] = asked[i]
        /\ asked'[Len(asked) + 1] = <<Providers!Provider, Providers!Model>>
    BY <1>3, <2>1, <2>2, AppendProperties
  <2>4. \A i \in 1..Len(asked) : i \in 1..Len(asked')
    BY <1>3, <2>3
  <2>5. Len(asked) + 1 \in 1..Len(asked') /\ Len(asked') \in Nat
    BY <1>3, <2>3
  <2>6. \A i \in 1..Len(asked') : i \in 1..Len(asked) \/ i = Len(asked) + 1
    BY <1>3, <2>3
  <2>7. \A p, m : Asked(p, m) => Asked(p, m)'
    BY <2>3, <2>4 DEF Asked
  <2>8. \A p, m : p = Providers!Provider /\ m = Providers!Model => Asked(p, m)'
    BY <2>3, <2>5 DEF Asked
  <2>9. /\ Len(asked') = Len(asked) + (IF Providers!Provider \in configured THEN 1 ELSE 0)
        /\ \A i \in 1..Len(asked') :
             \/ i \in 1..Len(asked) /\ asked'[i] = asked[i]
             \/ i = Len(asked) + 1 /\ asked'[i] = <<Providers!Provider, Providers!Model>>
    BY <2>1, <2>3, <2>6
  <2> QED BY <1>1, <1>2, <1>3, <2>3, <2>5, <2>7, <2>8, <2>9
<1> QED BY <1>4, <1>5

LEMMA TurnKeeps ==
    ASSUME ProvidersInv, Providers!Skip \/ Providers!Ask
    PROVE  /\ Keys' = Keys /\ Keys \in Nat /\ \A k : Tried(k)' = Tried(k)
           /\ Len(using) \in Nat /\ Len(fallbacks) \in Nat /\ Len(using) * Keys \in Nat
           /\ \A k : ModelsAsked(k) => ModelsAsked(k)'
           /\ PrimaryAsked => PrimaryAsked'
           /\ \A k : FallbacksAsked(k) => FallbacksAsked(k)'
           /\ Providers!Model = "own" \/ OnlyModels => Ordered'
           /\ Providers!Model # "own" /\ OnlyModels => OnlyModels'
<1>1. UNCHANGED <<configured, using, fallbacks>> /\ \A p, m : Asked(p, m) => Asked(p, m)'
  BY TurnFacts
<1>2. Keys' = Keys /\ Keys \in Nat /\ \A k : Tried(k)' = Tried(k)
  BY <1>1, TriedFacts DEF ProvidersInv, Keys, Tried
<1>3. Len(using) \in Nat /\ Len(fallbacks) \in Nat
  BY DEF ProvidersInv
<1>4. Len(using) * Keys \in Nat
  BY <1>2, <1>3
<1>5. /\ \A k : ModelsAsked(k) => ModelsAsked(k)'
      /\ PrimaryAsked => PrimaryAsked'
      /\ \A k : FallbacksAsked(k) => FallbacksAsked(k)'
  BY <1>1 DEF ModelsAsked, PrimaryAsked, FallbacksAsked
<1>6. /\ Len(asked) \in Nat
      /\ \A i \in 1..Len(asked') :
           \/ i \in 1..Len(asked) /\ asked'[i] = asked[i]
           \/ i = Len(asked) + 1 /\ asked'[i][2] = Providers!Model
  BY TurnFacts
<1>7. ASSUME Providers!Model = "own" \/ OnlyModels,
             NEW i \in 1..Len(asked'), asked'[i][2] # "own", NEW j \in 1..Len(asked'), asked'[j][2] = "own"
      PROVE  i < j
  <2>1. CASE i \in 1..Len(asked) /\ asked'[i] = asked[i]
    <3>1. j \in 1..Len(asked) /\ asked'[j] = asked[j] => i < j
      BY <1>7, <2>1 DEF ProvidersInv, Ordered
    <3>2. j = Len(asked) + 1 => i < j
      BY <1>6, <2>1
    <3> QED BY <1>6, <3>1, <3>2
  <2>2. CASE i = Len(asked) + 1 /\ asked'[i][2] = Providers!Model
    <3>1. OnlyModels /\ i # j
      BY <1>7, <2>2
    <3>2. j \in 1..Len(asked) /\ asked'[j] = asked[j]
      BY <1>6, <2>2, <3>1
    <3> QED BY <1>7, <3>1, <3>2 DEF OnlyModels
  <2> QED BY <1>6, <2>1, <2>2
<1>8. Providers!Model = "own" \/ OnlyModels => Ordered'
  BY <1>7 DEF Ordered
<1>9. Providers!Model # "own" /\ OnlyModels => OnlyModels'
  BY <1>6 DEF OnlyModels
<1> QED BY <1>2, <1>3, <1>4, <1>5, <1>8, <1>9

\* After a turn in the chain the provider counts as tried.
LEMMA ChainTurn ==
    ASSUME ProvidersInv, stage = "chain", Providers!Skip \/ Providers!Ask
    PROVE  /\ model \in 1..Len(using) /\ next \in 1..Len(Names)
           /\ OnlyModels' /\ Ordered' /\ ModelsAsked(model)
           /\ \A k : k = model => ModelsAsked(k)'
           /\ \A m : \A p \in Tried(next + 1) : m = using[model] => Asked(p, m)'
           /\ Len(asked') <= (model - 1) * Keys + Cardinality(Tried(next + 1))
           /\ Cardinality(Tried(next + 1)) \in Nat
<1>1. InChain
  BY DEF ProvidersInv
<1>2. model \in 1..Len(using) /\ next \in 1..Len(Names) /\ OnlyModels /\ ModelsAsked(model)
  BY <1>1 DEF InChain
<1>3. Providers!Provider = Names[next] /\ Providers!Model = using[model]
  BY TurnFacts
<1>4. using[model] # "own"
  <2>1. using[model] \in Models
    BY <1>2, ElementOfSeq DEF ProvidersInv
  <2> QED BY <2>1, NamesFacts
<1>5. OnlyModels' /\ Ordered' /\ \A k : k = model => ModelsAsked(k)'
  BY <1>2, <1>3, <1>4, TurnKeeps
<1>6. /\ Tried(next + 1) = IF Names[next] \in configured THEN Tried(next) \cup {Names[next]} ELSE Tried(next)
      /\ Cardinality(Tried(next)) \in Nat
      /\ Cardinality(Tried(next + 1)) = Cardinality(Tried(next)) + (IF Names[next] \in configured THEN 1 ELSE 0)
  BY <1>2, TriedFacts DEF ProvidersInv
<1>7. \A m : \A p \in Tried(next + 1) : m = using[model] => Asked(p, m)'
  <2>1. ASSUME NEW p \in Tried(next + 1), NEW m, m = using[model] PROVE Asked(p, m)'
    <3>1. CASE p \in Tried(next)
      <4>1. Asked(p, m)
        BY <1>1, <2>1, <3>1 DEF InChain
      <4> QED BY <4>1, TurnFacts
    <3>2. CASE p \notin Tried(next)
      <4>1. p = Names[next] /\ p \in configured
        BY <1>6, <2>1, <3>2
      <4> QED BY <1>3, <2>1, <4>1, TurnFacts
    <3> QED BY <3>1, <3>2
  <2> QED BY <2>1
<1>8. Len(asked') = Len(asked) + (IF Names[next] \in configured THEN 1 ELSE 0) /\ Len(asked) \in Nat
  BY <1>3, TurnFacts
<1>9. (model - 1) * Keys \in Nat
  BY <1>2, KeysTimes, TurnKeeps DEF ProvidersInv
<1>10. Len(asked') <= (model - 1) * Keys + Cardinality(Tried(next + 1))
  BY <1>1, <1>6, <1>8, <1>9 DEF InChain
<1>11. Cardinality(Tried(next + 1)) \in Nat
  BY <1>6
<1> QED BY <1>2, <1>5, <1>7, <1>10, <1>11

\* What a turn keeps wherever the request goes next.
LEMMA TurnCommon ==
    ASSUME ProvidersInv, Providers!Skip \/ Providers!Ask
    PROVE  /\ configured' = configured /\ using' = using /\ fallbacks' = fallbacks /\ chain' = chain
           /\ configured' \subseteq Range(Names) /\ chain' \in Providers!Chains /\ using' \in Seq(Models)
           /\ fallbacks' \in Seq(Range(Names)) /\ asked' \in Seq(Range(Names) \X (Models \cup {"own"}))
  BY TurnFacts DEF ProvidersInv

\* How much has been asked when the turn is done, by the stage it was in.
LEMMA TurnBounds ==
    ASSUME ProvidersInv, Providers!Skip \/ Providers!Ask
    PROVE  /\ Ordered' /\ Len(asked') <= Len(using) * Keys + 1 + Len(fallbacks)
           /\ stage = "chain" => Len(asked') <= model * Keys /\ model * Keys <= Len(using) * Keys
           /\ stage = "primary" => Len(asked') <= Len(using) * Keys + 1
           /\ stage = "fallback" => next \in 1..Len(fallbacks) /\ Len(asked') <= Len(using) * Keys + next + 1
<1>1. /\ Len(using) \in Nat /\ Len(fallbacks) \in Nat /\ Len(using) * Keys \in Nat /\ Keys \in Nat
      /\ Len(asked) \in Nat /\ Len(asked') \in Nat /\ Len(asked') <= Len(asked) + 1
      /\ stage \in {"chain", "primary", "fallback"}
  BY TurnFacts, TurnKeeps
<1>2. CASE stage = "chain"
  <2>1. Tried(next + 1) \subseteq configured /\ IsFiniteSet(configured)
    BY TriedFacts DEF Tried, ProvidersInv
  <2>2. Cardinality(Tried(next + 1)) <= Keys
    BY <2>1, FS_Subset DEF Keys
  <2>3. model \in 1..Len(using) /\ Ordered' /\ Cardinality(Tried(next + 1)) \in Nat
        /\ Len(asked') <= (model - 1) * Keys + Cardinality(Tried(next + 1))
    BY <1>2, ChainTurn
  <2>4. /\ model * Keys \in Nat /\ (model - 1) * Keys \in Nat
        /\ model * Keys = (model - 1) * Keys + Keys /\ model * Keys <= Len(using) * Keys
    BY <1>1, <2>3, KeysTimes DEF ProvidersInv
  <2>5. Len(asked') <= model * Keys
    BY <1>1, <2>2, <2>3, <2>4
  <2>6. Len(asked') <= Len(using) * Keys + 1 + Len(fallbacks)
    BY <1>1, <2>4, <2>5
  <2> QED BY <1>2, <2>3, <2>4, <2>5, <2>6
<1>3. CASE stage = "primary"
  <2>1. AtPrimary /\ Providers!Model = "own"
    BY <1>3, TurnFacts DEF ProvidersInv
  <2>2. Ordered'
    BY <2>1, TurnKeeps
  <2>3. Len(asked') <= Len(using) * Keys + 1
    BY <1>1, <2>1 DEF AtPrimary
  <2> QED BY <1>1, <1>3, <2>2, <2>3
<1>4. CASE stage = "fallback"
  <2>1. InFallback /\ Providers!Model = "own" /\ ~(next > Len(fallbacks))
    BY <1>4, TurnFacts DEF ProvidersInv, Providers!Exhausted
  <2>2. Ordered'
    BY <2>1, TurnKeeps
  <2>3. next \in 1..Len(fallbacks) /\ Len(asked') <= Len(using) * Keys + next + 1
    BY <1>1, <2>1 DEF InFallback
  <2> QED BY <1>1, <1>4, <2>2, <2>3
<1> QED BY <1>1, <1>2, <1>3, <1>4

LEMMA AnsweredInv == ASSUME ProvidersInv, Providers!Ask, Providers!At("answered", 1, 1) PROVE ProvidersInv'
<1>1. stage' = "answered"
  BY DEF Providers!At
<1>2. Len(asked') <= Len(using') * Keys' + 1 + Len(fallbacks') /\ Ordered'
  BY TurnBounds, TurnCommon, TurnKeeps
<1> QED BY <1>1, <1>2, TurnCommon DEF ProvidersInv

LEMMA ChainOnwardInv ==
    ASSUME ProvidersInv, stage = "chain", Providers!Skip \/ Providers!Ask, Providers!NextModel PROVE ProvidersInv'
<1>1. /\ model \in 1..Len(using) /\ next \in 1..Len(Names) /\ OnlyModels'
      /\ Len(using) \in Nat /\ Len(Names) \in Nat /\ Keys' = Keys /\ Keys \in Nat /\ Len(asked') \in Nat
  BY ChainTurn, TurnKeeps, NamesFacts, TurnFacts
<1>2. Len(asked') <= Len(using') * Keys' + 1 + Len(fallbacks') /\ Ordered'
  BY TurnBounds, TurnCommon, TurnKeeps
<1>3. CASE next < Len(Names)
  <2>1. stage' = "chain" /\ model' = model /\ next' = next + 1
    BY <1>3 DEF Providers!NextModel, Providers!At
  <2>2. Tried(next)' = Tried(next + 1)
    BY <2>1, TurnCommon DEF Tried
  <2>3. model' \in 1..Len(using') /\ next' \in 1..Len(Names)
    BY <1>1, <1>3, <2>1, TurnCommon
  <2>4. ModelsAsked(model)'
    BY <2>1, ChainTurn DEF ModelsAsked
  <2>5. \A p \in Tried(next)' : Asked(p, using[model])'
    BY <2>1, <2>2, ChainTurn, TurnCommon DEF Asked
  <2>6. Len(asked') <= (model' - 1) * Keys' + Cardinality(Tried(next)')
    BY <1>1, <2>1, <2>2, ChainTurn
  <2>7. InChain'
    BY <1>1, <2>3, <2>4, <2>5, <2>6 DEF InChain
  <2> QED BY <1>2, <2>1, <2>7, TurnCommon DEF ProvidersInv
<1>4. CASE ~(next < Len(Names))
  <2>1. next = Len(Names)
    BY <1>1, <1>4
  <2>2. Tried(next + 1) = configured
    BY <2>1, TriedFacts DEF ProvidersInv
  <2>3. \A k : k = model + 1 => ModelsAsked(k)'
    <3>1. ASSUME NEW p \in configured, NEW i \in 1..model PROVE Asked(p, using[i])'
      <4>1. CASE i = model
        <5>1. PICK m : m = using[model]
          OBVIOUS
        <5>2. Asked(p, m)'
          BY <2>2, <3>1, <5>1, ChainTurn
        <5> QED BY <4>1, <5>1, <5>2, TurnCommon DEF Asked
      <4>2. CASE i # model
        <5>1. i \in 1..model - 1
          BY <1>1, <3>1, <4>2
        <5>2. PICK k : k = model
          OBVIOUS
        <5>3. ModelsAsked(k)'
          BY <5>2, ChainTurn
        <5> QED BY <5>1, <5>2, <5>3, TurnCommon DEF ModelsAsked
      <4> QED BY <4>1, <4>2
    <3>2. (model + 1) - 1 = model
      BY <1>1
    <3> QED BY <3>1, <3>2, TurnCommon DEF ModelsAsked
  <2>4. CASE model < Len(using)
    <3>1. stage' = "chain" /\ model' = model + 1 /\ next' = 1
      BY <1>4, <2>4 DEF Providers!NextModel, Providers!At
    <3>2. Tried(next)' = {}
      BY <3>1 DEF Tried
    <3>3. model' \in 1..Len(using') /\ next' \in 1..Len(Names)
      BY <1>1, <2>1, <2>4, <3>1, TurnCommon
    <3>4. ModelsAsked(model)'
      BY <2>3, <3>1 DEF ModelsAsked
    <3>5. Len(asked') <= (model' - 1) * Keys' + Cardinality(Tried(next)')
      <4>1. model' - 1 = model /\ Cardinality(Tried(next)') = 0 /\ model * Keys \in Nat
        BY <1>1, <3>1, <3>2, FS_EmptySet
      <4>2. Len(asked') <= model * Keys
        BY TurnBounds
      <4> QED BY <1>1, <4>1, <4>2
    <3>6. InChain'
      BY <1>1, <3>2, <3>3, <3>4, <3>5 DEF InChain
    <3> QED BY <1>2, <3>1, <3>6, TurnCommon DEF ProvidersInv
  <2>5. CASE ~(model < Len(using))
    <3>1. stage' = "primary" /\ model = Len(using)
      BY <1>1, <1>4, <2>5 DEF Providers!NextModel, Providers!At
    <3>2. ModelsAsked(Len(using) + 1)'
      BY <2>3, <3>1, TurnCommon DEF ModelsAsked
    <3>3. Len(asked') <= Len(using') * Keys'
      BY <1>1, <3>1, TurnBounds, TurnCommon
    <3>4. AtPrimary'
      BY <1>1, <3>2, <3>3 DEF AtPrimary
    <3> QED BY <1>2, <3>1, <3>4, TurnCommon DEF ProvidersInv
  <2> QED BY <2>4, <2>5
<1> QED BY <1>3, <1>4

LEMMA FallbackOnwardInv ==
    ASSUME ProvidersInv, stage \in {"primary", "fallback"}, Providers!Skip \/ Providers!Ask, Providers!NextFallback
    PROVE  ProvidersInv'
<1>1. /\ stage' = "fallback" /\ next' = IF stage = "primary" THEN 1 ELSE next + 1
      /\ stage = "primary" => AtPrimary
      /\ stage = "fallback" => InFallback
  BY DEF ProvidersInv, Providers!NextFallback, Providers!At
<1>2. Len(asked') <= Len(using') * Keys' + 1 + Len(fallbacks') /\ Ordered'
  BY TurnBounds, TurnCommon, TurnKeeps
<1>3. ModelsAsked(Len(using) + 1)'
  <2>1. PICK k : k = Len(using) + 1
    OBVIOUS
  <2>2. ModelsAsked(k)'
    BY <1>1, <2>1, TurnKeeps DEF AtPrimary, InFallback
  <2> QED BY <2>1, <2>2, TurnCommon DEF ModelsAsked
<1>4. /\ Len(using) \in Nat /\ Len(fallbacks) \in Nat /\ Len(using) * Keys \in Nat /\ Keys' = Keys
      /\ Len(asked') \in Nat
  BY TurnKeeps, TurnFacts
<1>5. CASE stage = "primary"
  <2>1. next' = 1 /\ FallbacksAsked(next)'
    BY <1>1, <1>5 DEF FallbacksAsked
  <2>2. PrimaryAsked'
    BY <1>5, TurnFacts, TurnCommon DEF PrimaryAsked
  <2>3. next' \in 1..Len(fallbacks') + 1 /\ Len(asked') <= Len(using') * Keys' + next'
    BY <1>4, <1>5, <2>1, TurnBounds, TurnCommon
  <2>4. InFallback'
    BY <1>3, <2>1, <2>2, <2>3 DEF InFallback
  <2> QED BY <1>1, <1>2, <2>4, TurnCommon DEF ProvidersInv
<1>6. CASE stage = "fallback"
  <2>1. next' = next + 1 /\ next \in 1..Len(fallbacks) /\ PrimaryAsked'
    BY <1>1, <1>6, TurnKeeps, TurnBounds DEF InFallback
  <2>2. FallbacksAsked(next)'
    <3>1. ASSUME NEW j \in 1..next, fallbacks[j] \in configured PROVE Asked(fallbacks[j], "own")'
      <4>1. CASE j = next
        <5>1. PICK p \in configured : p = fallbacks[next]
          BY <3>1, <4>1
        <5>2. Asked(p, "own")'
          BY <1>6, <5>1, TurnFacts
        <5> QED BY <4>1, <5>1, <5>2, TurnCommon DEF Asked
      <4>2. CASE j # next
        <5>1. j \in 1..next - 1
          BY <1>4, <2>1, <3>1, <4>2
        <5>2. PICK k : k = next
          OBVIOUS
        <5>3. FallbacksAsked(k)'
          BY <1>1, <1>6, <5>2, TurnKeeps DEF InFallback
        <5> QED BY <3>1, <5>1, <5>2, <5>3, TurnCommon DEF FallbacksAsked
      <4> QED BY <4>1, <4>2
    <3>2. next' - 1 = next
      BY <1>4, <2>1
    <3> QED BY <3>1, <3>2, TurnCommon DEF FallbacksAsked
  <2>3. next' \in 1..Len(fallbacks') + 1 /\ Len(asked') <= Len(using') * Keys' + next'
    BY <1>4, <1>6, <2>1, TurnBounds, TurnCommon
  <2>4. InFallback'
    BY <1>3, <2>1, <2>2, <2>3 DEF InFallback
  <2> QED BY <1>1, <1>2, <2>4, TurnCommon DEF ProvidersInv
<1> QED BY <1>5, <1>6

LEMMA GiveUpInv == ASSUME ProvidersInv, Providers!GiveUp PROVE ProvidersInv'
<1>1. /\ stage = "fallback" /\ next > Len(fallbacks) /\ stage' = "failed"
      /\ UNCHANGED <<configured, chain, fallbacks, using, asked>>
  BY DEF Providers!GiveUp, Providers!Exhausted, Providers!At, Providers!settings
<1>2. InFallback /\ Len(fallbacks) \in Nat
  BY <1>1 DEF ProvidersInv
<1>3. next = Len(fallbacks) + 1
  BY <1>1, <1>2 DEF InFallback
<1>4. ModelsAsked(Len(using) + 1)' /\ PrimaryAsked' /\ FallbacksAsked(Len(fallbacks) + 1)'
  BY <1>1, <1>2, <1>3 DEF InFallback, ModelsAsked, PrimaryAsked, FallbacksAsked, Asked
<1> QED BY <1>1, <1>4 DEF ProvidersInv, Ordered, Keys

LEMMA ProvidersStep == ProvidersInv /\ [Providers!ProvidersNext]_providerVars => ProvidersInv'
<1> SUFFICES ASSUME ProvidersInv, [Providers!ProvidersNext]_providerVars PROVE ProvidersInv'
  OBVIOUS
<1>1. CASE chain' \in Providers!Chains /\ UNCHANGED <<configured, fallbacks, using, stage, model, next, asked>>
  <2>1. /\ Keys' = Keys /\ Ordered' = Ordered /\ OnlyModels' = OnlyModels /\ PrimaryAsked' = PrimaryAsked
        /\ \A k : Tried(k)' = Tried(k)
        /\ \A p, m : Asked(p, m)' = Asked(p, m)
    BY <1>1 DEF Ordered, Keys, OnlyModels, PrimaryAsked, Asked, Tried
  <2>2. \A m : m = Len(using) + 1 \/ m = model => ModelsAsked(m)' = ModelsAsked(m)
    BY <1>1, <2>1 DEF ModelsAsked
  <2>3. \A k : k = Len(fallbacks) + 1 \/ k = next => FallbacksAsked(k)' = FallbacksAsked(k)
    BY <1>1, <2>1 DEF FallbacksAsked
  <2>4. ModelsAsked(Len(using) + 1)' = ModelsAsked(Len(using) + 1) /\ ModelsAsked(model)' = ModelsAsked(model)
    BY <1>1, <2>2
  <2>5. /\ FallbacksAsked(Len(fallbacks) + 1)' = FallbacksAsked(Len(fallbacks) + 1)
        /\ FallbacksAsked(next)' = FallbacksAsked(next)
    BY <1>1, <2>3
  <2>6. InChain' = InChain /\ AtPrimary' = AtPrimary /\ InFallback' = InFallback
    BY <1>1, <2>1, <2>4, <2>5 DEF InChain, AtPrimary, InFallback, Asked, Tried, Keys
  <2> QED BY <1>1, <2>1, <2>4, <2>5, <2>6 DEF ProvidersInv
<1>2. CASE UNCHANGED providerVars
  BY <1>1, <1>2 DEF providerVars, ProvidersInv
<1>3. CASE Providers!SendForTier
  BY <1>3, SendInv
<1>4. CASE Providers!Skip
  BY <1>4, TurnFacts, ChainOnwardInv, FallbackOnwardInv DEF Providers!Skip, Providers!Onward
<1>5. CASE Providers!Ask
  BY <1>5, TurnFacts, AnsweredInv, ChainOnwardInv, FallbackOnwardInv DEF Providers!Ask, Providers!Onward
<1>6. CASE Providers!GiveUp
  BY <1>6, GiveUpInv
<1>7. CASE Providers!SetChain
  BY <1>1, <1>7 DEF Providers!SetChain
<1> QED BY <1>2, <1>3, <1>4, <1>5, <1>6, <1>7 DEF Providers!ProvidersNext

LEMMA ProvidersHolds == ProvidersInv => Providers!GivesUpLast
<1> SUFFICES ASSUME ProvidersInv PROVE Providers!GivesUpLast
  OBVIOUS
<1>1. /\ Len(using) \in Nat /\ Len(fallbacks) \in Nat /\ DOMAIN asked = 1..Len(asked)
      /\ DOMAIN fallbacks = 1..Len(fallbacks) /\ (Len(using) + 1) - 1 = Len(using)
      /\ (Len(fallbacks) + 1) - 1 = Len(fallbacks)
  BY LenProperties DEF ProvidersInv
<1>2. \A p, m : Asked(p, m) => <<p, m>> \in Providers!ToSet(asked)
  BY <1>1 DEF Asked, Providers!ToSet
<1>3. ASSUME stage = "failed"
      PROVE  /\ \A p \in configured, i \in 1..Len(using) : <<p, using[i]>> \in Providers!ToSet(asked)
             /\ \A p \in configured \cap ({Primary} \cup Providers!ToSet(fallbacks)) :
                  <<p, "own">> \in Providers!ToSet(asked)
  <2>1. ModelsAsked(Len(using) + 1) /\ PrimaryAsked /\ FallbacksAsked(Len(fallbacks) + 1)
    BY <1>3 DEF ProvidersInv
  <2>2. \A p \in configured, i \in 1..Len(using) : Asked(p, using[i])
    BY <1>1, <2>1 DEF ModelsAsked
  <2>3. ASSUME NEW p \in configured \cap ({Primary} \cup Providers!ToSet(fallbacks)) PROVE Asked(p, "own")
    <3>1. CASE p = Primary
      BY <2>1, <2>3, <3>1 DEF PrimaryAsked
    <3>2. CASE p \in Providers!ToSet(fallbacks)
      <4>1. PICK j \in 1..Len(fallbacks) : p = fallbacks[j]
        BY <1>1, <3>2 DEF Providers!ToSet
      <4> QED BY <1>1, <2>1, <2>3, <4>1 DEF FallbacksAsked
    <3> QED BY <2>3, <3>1, <3>2
  <2> QED BY <1>2, <2>2, <2>3
<1>4. Providers!Cardinality(configured) = Keys
  BY DEF Providers!Cardinality, Cardinality, Keys
<1> QED BY <1>3, <1>4 DEF Providers!GivesUpLast, ProvidersInv, Ordered

-----------------------------------------------------------------------------
(* What is kept of a sequence *)

\* Induction in the form the provers can use, without an operator parameter:
\* a nonempty set of natural numbers has a least element.
LEMMA LeastElement ==
    ASSUME NEW S \in SUBSET Nat, S # {}
    PROVE  \E m \in S : \A n \in S : m <= n
<1> DEFINE R == StrictSubsetOrdering(Nat)
           F == FiniteSubsetsOf(Nat)
           T == {0..n : n \in S}
<1>1. IsWellFoundedOn(R, F)
  BY FS_StrictSubsetOrderingWellFounded
<1>2. T \subseteq F /\ T # {}
  <2>1. ASSUME NEW n \in S PROVE 0..n \in F
    <3>1. n \in Nat /\ IsFiniteSet(0..n)
      BY FS_Interval
    <3> QED BY <3>1 DEF FiniteSubsetsOf
  <2> HIDE DEF F
  <2> QED BY <2>1
<1>3. \E x \in T : \A y \in T : ~(<<y, x>> \in R)
  <2> HIDE DEF R, F, T
  <2> QED BY <1>1, <1>2, WFMin
<1>4. PICK m \in S : \A n \in S : ~(<<0..n, 0..m>> \in R)
  <2> HIDE DEF R
  <2> QED BY <1>3
<1>5. ASSUME NEW n \in S, n < m PROVE FALSE
  <2>1. 0..n \subseteq 0..m /\ 0..n # 0..m /\ 0..n \subseteq Nat /\ 0..m \subseteq Nat
    <3>1. m \in 0..m /\ m \notin 0..n
      BY <1>5
    <3>2. 0..n \subseteq 0..m /\ 0..n \subseteq Nat /\ 0..m \subseteq Nat
      BY <1>5
    <3> QED BY ONLY <3>1, <3>2
  <2>2. <<0..n, 0..m>> \in R
    <3> DEFINE a == 0..n
               b == 0..m
    <3> HIDE DEF a, b
    <3>1. a \subseteq b /\ a # b /\ a \subseteq Nat /\ b \subseteq Nat
      BY <2>1 DEF a, b
    <3>2. <<a, b>> \in R
      BY <3>1 DEF StrictSubsetOrdering
    <3> QED BY <3>2 DEF a, b
  <2> QED BY <2>2, <1>4
<1> QED BY <1>5

\* A set of numbers up to N that holds 0 and each successor holds them all.
LEMMA CountUp ==
    ASSUME NEW N \in Nat, NEW S, 0 \in S, \A k \in 1..N : k - 1 \in S => k \in S
    PROVE  0..N \subseteq S
<1> DEFINE Out == {k \in 0..N : k \notin S}
<1>1. ASSUME Out # {} PROVE FALSE
  <2>1. Out \in SUBSET Nat
    OBVIOUS
  <2>2. PICK m \in Out : \A n \in Out : m <= n
    BY <1>1, <2>1, LeastElement
  <2>3. m # 0 /\ m \in 1..N /\ m - 1 \in 0..N
    BY <2>2
  <2>4. m - 1 \in S
    BY <2>2, <2>3
  <2> QED BY <2>2, <2>3, <2>4
<1> QED BY <1>1

\* f is the function of what is kept of the first entries of s.
AreKept(f, s, S, N) ==
    f = [i \in 0..N |-> IF i = 0 THEN <<>> ELSE IF s[i] \in S THEN Append(f[i - 1], s[i]) ELSE f[i - 1]]

\* The function that Kept defines by recursion exists,
LEMMA KeptDefined == ASSUME NEW s, NEW S, NEW N \in Nat PROVE \E f : AreKept(f, s, S, N)
<1> DEFINE Step(g, i) == IF s[i] \in S THEN Append(g[i - 1], s[i]) ELSE g[i - 1]
           Is(f, n) == AreKept(f, s, S, n)
           Done == {n \in Nat : \E f : Is(f, n)}
<1>1. 0 \in Done
  <2> DEFINE f == [i \in 0..0 |-> <<>>]
  <2>1. Is(f, 0)
    BY DEF AreKept
  <2> QED BY <2>1
<1>2. ASSUME NEW n \in 1..N, n - 1 \in Done PROVE n \in Done
  <2>1. PICK f : Is(f, n - 1)
    BY <1>2
  <2> DEFINE g == [i \in 0..n |-> IF i = n THEN Step(f, n) ELSE f[i]]
             h == [i \in 0..n |-> IF i = 0 THEN <<>> ELSE Step(g, i)]
  <2>2. ASSUME NEW i \in 0..n PROVE g[i] = IF i = 0 THEN <<>> ELSE Step(g, i)
    <3>1. CASE i = n
      <4>1. i # 0 /\ i - 1 \in 0..n /\ i - 1 # n
        BY <3>1
      <4>2. g[i - 1] = f[i - 1]
        BY <4>1
      <4> QED BY <3>1, <4>1, <4>2
    <3>2. CASE i # n
      <4>1. i \in 0..(n - 1) /\ (i # 0 => i - 1 \in 0..n /\ i - 1 # n)
        BY <3>2
      <4>2. g[i] = f[i] /\ (i # 0 => g[i - 1] = f[i - 1])
        BY <3>2, <4>1
      <4>3. f[i] = IF i = 0 THEN <<>> ELSE Step(f, i)
        BY <2>1, <4>1 DEF AreKept
      <4> QED BY <4>2, <4>3
    <3> QED BY <3>1, <3>2
  <2>3. Is(g, n)
    <3>1. g = h
      BY <2>2
    <3>2. h = [i \in 0..n |-> IF i = 0 THEN <<>> ELSE IF s[i] \in S THEN Append(g[i - 1], s[i]) ELSE g[i - 1]]
      OBVIOUS
    <3> HIDE DEF g, h
    <3> QED BY <3>1, <3>2 DEF AreKept
  <2> HIDE DEF g
  <2>4. \E f1 : Is(f1, n)
    BY <2>3
  <2> QED BY <2>4
<1>3. N \in Done
  <2> HIDE DEF Done
  <2>1. 0..N \subseteq Done
    BY <1>1, <1>2, CountUp
  <2> QED BY <2>1
<1> QED BY <1>3

\* and its last value is what is kept of s.
LEMMA KeptUnfolds ==
    ASSUME NEW T, NEW s \in Seq(T), NEW S
    PROVE  \E f : AreKept(f, s, S, Len(s)) /\ Router!Kept(s, S) = f[Len(s)] /\ Rag!Kept(s, S) = f[Len(s)]
<1>1. Len(s) \in Nat
  BY LenProperties
<1> DEFINE F == CHOOSE f : AreKept(f, s, S, Len(s))
<1>2. AreKept(F, s, S, Len(s))
  BY <1>1, KeptDefined
<1>3. Router!Kept(s, S) = F[Len(s)] /\ Rag!Kept(s, S) = F[Len(s)]
  BY Zenon DEF Router!Kept, Rag!Kept, AreKept
<1> QED BY <1>2, <1>3

\* r has the entries of s that are in S, in their order: h says where they were.
Picks(h, r, s, S) ==
    /\ h \in [1..Len(r) -> 1..Len(s)]
    /\ \A i, j \in 1..Len(r) : i < j => h[i] < h[j]
    /\ \A i \in 1..Len(r) : r[i] = s[h[i]] /\ s[h[i]] \in S
    /\ \A k \in 1..Len(s) : s[k] \in S => \E i \in 1..Len(r) : h[i] = k

LEMMA KeptIsPicked ==
    ASSUME NEW T, NEW s \in Seq(T), NEW S
    PROVE  LET r == Router!Kept(s, S)
           IN /\ Rag!Kept(s, S) = r /\ r \in Seq(T)
              /\ Len(r) <= Len(s) /\ (Len(r) = Len(s) => \A k \in 1..Len(s) : s[k] \in S)
              /\ \E h : Picks(h, r, s, S)
<1> DEFINE N == Len(s)
<1>1. N \in Nat /\ \A i \in 1..N : s[i] \in T
  BY LenProperties, ElementOfSeq
<1>2. PICK f : AreKept(f, s, S, N) /\ Router!Kept(s, S) = f[N] /\ Rag!Kept(s, S) = f[N]
  BY KeptUnfolds
<1>3. f[0] = <<>> /\ \A i \in 1..N : f[i] = IF s[i] \in S THEN Append(f[i - 1], s[i]) ELSE f[i - 1]
  <2>1. \A i \in 0..N : f[i] = IF i = 0 THEN <<>> ELSE IF s[i] \in S THEN Append(f[i - 1], s[i]) ELSE f[i - 1]
    <3> HIDE DEF N
    <3> QED BY <1>1, <1>2, Zenon DEF AreKept
  <2> HIDE DEF N
  <2> QED BY <1>1, <2>1
<1> DEFINE First(h, n) ==
             /\ f[n] \in Seq(T) /\ Len(f[n]) <= n
             /\ Len(f[n]) = n => \A k \in 1..n : s[k] \in S
             /\ h \in [1..Len(f[n]) -> 1..n]
             /\ \A i, j \in 1..Len(f[n]) : i < j => h[i] < h[j]
             /\ \A i \in 1..Len(f[n]) : f[n][i] = s[h[i]] /\ s[h[i]] \in S
             /\ \A k \in 1..n : s[k] \in S => \E i \in 1..Len(f[n]) : h[i] = k
           Good == {n \in 0..N : \E h : First(h, n)}
<1>4. 0 \in Good
  <2> DEFINE h == [i \in 1..0 |-> 0]
  <2>1. First(h, 0)
    BY <1>3, EmptySeq, LenProperties
  <2> QED BY <1>1, <2>1
<1>5. ASSUME NEW n \in 1..N, n - 1 \in Good PROVE n \in Good
  <2>1. PICK g : First(g, n - 1)
    BY <1>5
  <2> DEFINE q == f[n - 1]
             m == Len(q)
  <2>2. /\ q \in Seq(T) /\ m \in Nat /\ m <= n - 1 /\ g \in [1..m -> 1..(n - 1)]
        /\ (m = n - 1 => \A k \in 1..(n - 1) : s[k] \in S)
        /\ \A i, j \in 1..m : i < j => g[i] < g[j]
        /\ \A i \in 1..m : q[i] = s[g[i]] /\ s[g[i]] \in S
        /\ \A k \in 1..(n - 1) : s[k] \in S => \E i \in 1..m : g[i] = k
    BY <2>1, LenProperties
  <2>3. CASE s[n] \in S
    <3> DEFINE p == Append(q, s[n])
               h == [i \in 1..(m + 1) |-> IF i = m + 1 THEN n ELSE g[i]]
    <3>1. f[n] = p
      BY <1>3, <2>3
    <3>2. p \in Seq(T) /\ Len(p) = m + 1 /\ (\A i \in 1..m : p[i] = q[i]) /\ p[m + 1] = s[n]
      BY <1>1, <2>2, AppendProperties
    <3> HIDE DEF p, q, m
    <3>3. h \in [1..(m + 1) -> 1..n]
      <4>1. ASSUME NEW i \in 1..(m + 1) PROVE (IF i = m + 1 THEN n ELSE g[i]) \in 1..n
        BY <2>2, <4>1
      <4> QED BY <4>1
    <3>4. ASSUME NEW i \in 1..(m + 1), NEW j \in 1..(m + 1), i < j PROVE h[i] < h[j]
      <4>1. i \in 1..m /\ h[i] = g[i] /\ g[i] \in 1..(n - 1)
        BY <2>2, <3>4
      <4>2. CASE j = m + 1
        BY <4>1, <4>2
      <4>3. CASE j # m + 1
        BY <2>2, <3>4, <4>1, <4>3
      <4> QED BY <4>2, <4>3
    <3>5. ASSUME NEW i \in 1..(m + 1) PROVE p[i] = s[h[i]] /\ s[h[i]] \in S
      BY <2>2, <2>3, <3>2
    <3>6. ASSUME NEW k \in 1..n, s[k] \in S PROVE \E i \in 1..(m + 1) : h[i] = k
      <4>1. CASE k = n
        <5>1. m + 1 \in 1..(m + 1) /\ h[m + 1] = k
          BY <2>2, <4>1
        <5> QED BY <5>1
      <4>2. CASE k # n
        <5>1. PICK i \in 1..m : g[i] = k
          BY <2>2, <3>6, <4>2
        <5>2. i \in 1..(m + 1) /\ h[i] = k
          BY <2>2, <5>1
        <5> QED BY <5>2
      <4> QED BY <4>1, <4>2
    <3> HIDE DEF h
    <3>8. m + 1 = n => \A k \in 1..n : s[k] \in S
      BY <2>2, <2>3
    <3>7. First(h, n)
      BY <2>2, <3>1, <3>2, <3>3, <3>4, <3>5, <3>6, <3>8
    <3>9. \E g1 : First(g1, n)
      BY <3>7, Zenon
    <3> HIDE DEF First
    <3> QED BY <1>1, <3>9
  <2>4. CASE s[n] \notin S
    <3>1. f[n] = q
      BY <1>3, <2>4
    <3> HIDE DEF q
    <3>2. g \in [1..m -> 1..n]
      BY <2>2
    <3>3. \A k \in 1..n : s[k] \in S => k \in 1..(n - 1)
      BY <2>4
    <3> HIDE DEF m
    <3>4. First(g, n)
      BY <2>2, <3>1, <3>2, <3>3 DEF m
    <3>5. \E h : First(h, n)
      BY <3>4, Zenon
    <3> HIDE DEF First
    <3> QED BY <1>1, <3>5
  <2> QED BY <2>3, <2>4
<1>6. N \in Good
  <2> HIDE DEF Good
  <2>1. 0..N \subseteq Good
    BY <1>1, <1>4, <1>5, CountUp
  <2> QED BY <1>1, <2>1
<1>7. PICK h : First(h, N)
  BY <1>6
<1> QED BY <1>2, <1>7 DEF Picks

-----------------------------------------------------------------------------
(* The router *)

RouteEntry == [ctx : RouteContexts, task : Topics, agent : Routed, was : Router!Status, disturbed : BOOLEAN]
RouteRequest == [step : {"none", "direct", "cached", "chosen", "first", "second"}, task : Topics \cup {NoAgent},
                 candidates : SUBSET Routed, was : [Routed -> Router!Status], agent : Routed \cup {NoAgent},
                 disturbed : BOOLEAN]

\* The cache has one entry for a key, and its size.
RoutesShaped(c) ==
    /\ c \in Seq(RouteEntry) /\ Len(c) <= RouteCacheSize
    /\ \A i, j \in 1..Len(c) : Router!Fits(c[i], c[j].ctx, c[j].task) => i = j

\* An entry is of the active context, and holds unless its request was disturbed; so does
\* what an open request read.
RouteHolds(e) ==
    /\ e.ctx = activeContext
    /\ ~e.disturbed => e.agent \in contexts[activeContext] \/ fallback
RequestHolds(q) ==
    q.step \in Router!Open =>
        /\ q.task \in Topics
        /\ ~q.disturbed => (q.candidates \subseteq contexts[activeContext] \/ fallback)

RouterInv ==
    /\ fallback \in BOOLEAN /\ contexts \in [RouteContexts -> SUBSET Routed] /\ activeContext \in RouteContexts
    /\ agentStatus \in [Routed -> Router!Status]
    /\ RoutesShaped(cache) /\ \A i \in 1..Len(cache) : RouteHolds(cache[i])
    /\ req \in [Requests -> RouteRequest] /\ \A r \in Requests : RequestHolds(req[r])

LEMMA RouterFacts ==
    /\ Configured \in [RouteContexts -> SUBSET Routed] /\ NoAgent \notin Routed
    /\ RouteCacheSize \in Nat /\ RouteCacheSize >= 1
  BY ServicesAssumption

LEMMA RouterInitInv == Router!RouterInit => RouterInv
<1> SUFFICES ASSUME Router!RouterInit PROVE RouterInv
  OBVIOUS
<1>1. /\ fallback \in BOOLEAN /\ contexts = Configured /\ activeContext \in RouteContexts /\ cache = <<>>
      /\ agentStatus = [a \in Routed |-> "idle"] /\ req = [r \in Requests |-> Router!NoRequest]
  BY DEF Router!RouterInit
<1>2. RoutesShaped(cache) /\ \A i \in 1..Len(cache) : RouteHolds(cache[i])
  <2>1. cache \in Seq(RouteEntry) /\ Len(cache) = 0
    BY <1>1, EmptySeq
  <2> QED BY <2>1, RouterFacts DEF RoutesShaped
<1>3. Router!NoRequest \in RouteRequest /\ Router!NoRequest.step = "none"
  BY DEF Router!NoRequest, RouteRequest, Router!Status
<1> QED BY <1>1, <1>2, <1>3, RouterFacts DEF RouterInv, RequestHolds, Router!Open, Router!Status

\* What is kept of the cache keeps its shape, and is smaller when an entry goes.
LEMMA RoutesKept ==
    ASSUME RoutesShaped(cache), NEW S
    PROVE  LET r == Router!Kept(cache, S)
           IN /\ RoutesShaped(r)
              /\ \A i \in 1..Len(r) : r[i] \in S /\ \E k \in 1..Len(cache) : r[i] = cache[k]
              /\ Len(r) <= Len(cache)
              /\ (\E k \in 1..Len(cache) : cache[k] \notin S) => Len(r) < Len(cache)
<1> DEFINE r == Router!Kept(cache, S)
<1>1. cache \in Seq(RouteEntry) /\ Len(cache) \in Nat /\ Len(cache) <= RouteCacheSize /\ RouteCacheSize \in Nat
  BY RouterFacts, LenProperties DEF RoutesShaped
<1>2. /\ r \in Seq(RouteEntry) /\ Len(r) <= Len(cache) /\ Len(r) \in Nat
      /\ (Len(r) = Len(cache) => \A k \in 1..Len(cache) : cache[k] \in S)
      /\ \E h : Picks(h, r, cache, S)
  BY <1>1, KeptIsPicked, LenProperties
<1> HIDE DEF r
<1>3. PICK h : Picks(h, r, cache, S)
  BY <1>2
<1>4. /\ \A i \in 1..Len(r) : h[i] \in 1..Len(cache) /\ r[i] = cache[h[i]] /\ r[i] \in S
      /\ \A i, j \in 1..Len(r) : i < j => h[i] < h[j]
  BY <1>3 DEF Picks
<1>5. ASSUME NEW i \in 1..Len(r), NEW j \in 1..Len(r), Router!Fits(r[i], r[j].ctx, r[j].task) PROVE i = j
  <2>1. h[i] = h[j]
    BY <1>4, <1>5 DEF RoutesShaped
  <2> QED BY <1>2, <1>4, <2>1
<1>6. RoutesShaped(r)
  BY <1>1, <1>2, <1>5 DEF RoutesShaped
<1>7. (\E k \in 1..Len(cache) : cache[k] \notin S) => Len(r) < Len(cache)
  BY <1>1, <1>2
<1>8. \A i \in 1..Len(r) : r[i] \in S /\ \E k \in 1..Len(cache) : r[i] = cache[k]
  BY <1>4
<1> QED BY <1>2, <1>6, <1>7, <1>8 DEF r

\* An entry that none of the same key is left of goes to the young end.
LEMMA RouteAppended ==
    ASSUME NEW c, RoutesShaped(c), Len(c) < RouteCacheSize, NEW e \in RouteEntry,
           \A i \in 1..Len(c) : ~Router!Fits(c[i], e.ctx, e.task)
    PROVE  LET r == Append(c, e)
           IN RoutesShaped(r) /\ Len(r) = Len(c) + 1 /\ (\A i \in 1..Len(c) : r[i] = c[i]) /\ r[Len(c) + 1] = e
<1> DEFINE r == Append(c, e)
<1>1. c \in Seq(RouteEntry) /\ Len(c) \in Nat /\ RouteCacheSize \in Nat
  BY RouterFacts, LenProperties DEF RoutesShaped
<1>2. r \in Seq(RouteEntry) /\ Len(r) = Len(c) + 1 /\ (\A i \in 1..Len(c) : r[i] = c[i]) /\ r[Len(c) + 1] = e
  BY <1>1, AppendProperties
<1> HIDE DEF r
<1>3. ASSUME NEW i \in 1..Len(r), NEW j \in 1..Len(r), Router!Fits(r[i], r[j].ctx, r[j].task) PROVE i = j
  <2>1. CASE i \in 1..Len(c) /\ j \in 1..Len(c)
    BY <1>2, <1>3, <2>1 DEF RoutesShaped
  <2>2. CASE i = Len(c) + 1 /\ j \in 1..Len(c)
    <3>1. Router!Fits(c[j], e.ctx, e.task)
      BY <1>2, <1>3, <2>2 DEF Router!Fits
    <3> QED BY <2>2, <3>1
  <2>3. CASE i \in 1..Len(c) /\ j = Len(c) + 1
    <3>1. Router!Fits(c[i], e.ctx, e.task)
      BY <1>2, <1>3, <2>3
    <3> QED BY <2>3, <3>1
  <2> QED BY <1>1, <1>2, <2>1, <2>2, <2>3
<1>4. RoutesShaped(r)
  BY <1>1, <1>2, <1>3 DEF RoutesShaped
<1> QED BY <1>2, <1>4 DEF r

\* set() makes room and replaces what has the key.
LEMMA RouteSet ==
    ASSUME RoutesShaped(cache), NEW e \in RouteEntry
    PROVE  LET r == Router!Set(e)
           IN RoutesShaped(r) /\ \A i \in 1..Len(r) : r[i] = e \/ \E k \in 1..Len(cache) : r[i] = cache[k]
<1> DEFINE c == IF Len(cache) >= RouteCacheSize THEN Tail(cache) ELSE cache
           same == {i \in 1..Len(c) : Router!Fits(c[i], e.ctx, e.task)}
           r == Router!Set(e)
<1>1. cache \in Seq(RouteEntry) /\ Len(cache) \in Nat /\ Len(cache) <= RouteCacheSize /\ RouteCacheSize \in Nat /\ RouteCacheSize >= 1
  BY RouterFacts, LenProperties DEF RoutesShaped
<1>2. RoutesShaped(c) /\ Len(c) < RouteCacheSize /\ \A i \in 1..Len(c) : \E k \in 1..Len(cache) : c[i] = cache[k]
  <2>1. CASE Len(cache) >= RouteCacheSize
    <3> DEFINE t == Tail(cache)
    <3>1. /\ t \in Seq(RouteEntry) /\ Len(t) = Len(cache) - 1
          /\ \A i \in 1..Len(t) : i + 1 \in 1..Len(cache) /\ t[i] = cache[i + 1]
      <4>1. cache # <<>>
        BY <1>1, <2>1, EmptySeq
      <4> QED BY <1>1, <4>1, HeadTailProperties
    <3>2. c = t
      BY <2>1
    <3> HIDE DEF t, c
    <3>3. ASSUME NEW i \in 1..Len(t), NEW j \in 1..Len(t), Router!Fits(t[i], t[j].ctx, t[j].task) PROVE i = j
      <4>1. Router!Fits(cache[i + 1], cache[j + 1].ctx, cache[j + 1].task) /\ i + 1 \in 1..Len(cache) /\ j + 1 \in 1..Len(cache)
        BY <3>1, <3>3
      <4>2. i + 1 = j + 1
        BY <4>1 DEF RoutesShaped
      <4> QED BY <4>2
    <3>4. RoutesShaped(t)
      BY <1>1, <3>1, <3>3 DEF RoutesShaped
    <3>5. \A i \in 1..Len(t) : \E k \in 1..Len(cache) : t[i] = cache[k]
      BY <3>1
    <3> QED BY <1>1, <3>1, <3>2, <3>4, <3>5
  <2>2. CASE ~(Len(cache) >= RouteCacheSize)
    <3>1. c = cache
      BY <2>2
    <3> QED BY <1>1, <2>2, <3>1
  <2> QED BY <2>1, <2>2
<1>3. r = IF same = {} THEN Append(c, e) ELSE [i \in 1..Len(c) |-> IF i \in same THEN e ELSE c[i]]
  BY DEF Router!Set
<1>4. CASE same = {}
  <2>1. \A i \in 1..Len(c) : ~Router!Fits(c[i], e.ctx, e.task)
    BY <1>4
  <2>2. r = Append(c, e)
    BY <1>3, <1>4
  <2> HIDE DEF c, r
  <2>3. RoutesShaped(r) /\ Len(r) = Len(c) + 1 /\ (\A i \in 1..Len(c) : r[i] = c[i]) /\ r[Len(c) + 1] = e
    BY <1>2, <2>1, <2>2, RouteAppended
  <2>4. Len(c) \in Nat
    BY <1>2, LenProperties DEF RoutesShaped
  <2>5. ASSUME NEW i \in 1..Len(r) PROVE r[i] = e \/ \E k \in 1..Len(cache) : r[i] = cache[k]
    <3>1. i = Len(c) + 1 \/ i \in 1..Len(c)
      BY <2>3, <2>4
    <3> QED BY <1>2, <2>3, <3>1
  <2> QED BY <2>3, <2>5 DEF r
<1>5. CASE same # {}
  <2> DEFINE d == [i \in 1..Len(c) |-> IF i \in same THEN e ELSE c[i]]
  <2>1. r = d
    BY <1>3, <1>5
  <2>2. c \in Seq(RouteEntry) /\ Len(c) \in Nat /\ Len(c) <= RouteCacheSize /\ \A i \in 1..Len(c) : c[i] \in RouteEntry
    BY <1>1, <1>2, LenProperties, ElementOfSeq DEF RoutesShaped
  <2>3. \A i \in 1..Len(c) : (i \in same) <=> Router!Fits(c[i], e.ctx, e.task)
    OBVIOUS
  <2> HIDE DEF c, r, same
  <2>4. d \in [1..Len(c) -> RouteEntry]
    BY <2>2
  <2>5. d \in Seq(RouteEntry) /\ Len(d) = Len(c)
    BY <2>2, <2>4, SeqDef, LenProperties
  <2>6. \A i \in 1..Len(c) : d[i].ctx = c[i].ctx /\ d[i].task = c[i].task
    BY <2>3 DEF Router!Fits
  <2>7. ASSUME NEW i \in 1..Len(c), NEW j \in 1..Len(c), Router!Fits(d[i], d[j].ctx, d[j].task) PROVE i = j
    BY <1>2, <2>6, <2>7 DEF RoutesShaped, Router!Fits
  <2>8. RoutesShaped(d)
    BY <2>2, <2>5, <2>7 DEF RoutesShaped
  <2>9. \A i \in 1..Len(d) : d[i] = e \/ \E k \in 1..Len(cache) : d[i] = cache[k]
    BY <1>2, <2>5
  <2> QED BY <2>1, <2>8, <2>9 DEF r
<1> QED BY <1>4, <1>5

\* A request that nothing disturbs goes on; the cache keeps what holds.
LEMMA RequestsGoOn ==
    ASSUME RouterInv, NEW r \in Requests, NEW q \in RouteRequest, RequestHolds(q), req' = [req EXCEPT ![r] = q],
           UNCHANGED <<fallback, contexts, activeContext, agentStatus>>,
           RoutesShaped(cache'), \A i \in 1..Len(cache') : RouteHolds(cache'[i])
    PROVE  RouterInv'
<1>1. req' \in [Requests -> RouteRequest] /\ \A s \in Requests : req'[s] = q \/ req'[s] = req[s]
  BY DEF RouterInv
<1>2. ASSUME NEW s \in Requests, NEW p, p = req'[s] PROVE RequestHolds(p)'
  <2>1. RequestHolds(p)
    BY <1>1, <1>2 DEF RouterInv
  <2> QED BY <2>1 DEF RequestHolds
<1>3. ASSUME NEW i \in 1..Len(cache'), NEW e, e = cache'[i] PROVE RouteHolds(e)'
  <2>1. RouteHolds(e)
    BY <1>3
  <2> QED BY <2>1 DEF RouteHolds
<1>4. RoutesShaped(cache)'
  BY DEF RoutesShaped
<1> QED BY <1>1, <1>2, <1>3, <1>4 DEF RouterInv

\* What ends a request is no open one.
LEMMA DoneHolds ==
    ASSUME NEW how \in {"direct", "cached", "chosen"}, NEW a \in Routed \cup {NoAgent}
    PROVE  Router!Done(how, a) \in RouteRequest /\ RequestHolds(Router!Done(how, a))
  BY DEF Router!Done, Router!NoRequest, RouteRequest, RequestHolds, Router!Open, Router!Status

LEMMA DirectInv == ASSUME RouterInv, NEW r \in Requests, NEW a \in Routed, Router!DirectMatch(r, a) PROVE RouterInv'
<1> DEFINE q == Router!Done("direct", NoAgent)
<1>1. q \in RouteRequest /\ RequestHolds(q)
  BY DoneHolds
<1> HIDE DEF q
<1>2. req' = [req EXCEPT ![r] = q] /\ UNCHANGED <<fallback, contexts, activeContext, cache, agentStatus>>
  BY DEF Router!DirectMatch, q
<1>3. RoutesShaped(cache') /\ \A i \in 1..Len(cache') : RouteHolds(cache'[i])
  BY <1>2 DEF RouterInv
<1> QED BY <1>1, <1>2, <1>3, RequestsGoOn

LEMMA CachedInv == ASSUME RouterInv, NEW r \in Requests, NEW t \in Topics, Router!ResolveCached(r, t) PROVE RouterInv'
<1>1. PICK e \in Router!Cached(t) :
        /\ req' = [req EXCEPT ![r] = Router!Done("cached", e.agent)]
        /\ cache' = Append(Router!Without(activeContext, t), e)
  BY DEF Router!ResolveCached
<1>2. UNCHANGED <<fallback, contexts, activeContext, agentStatus>>
  BY DEF Router!ResolveCached
<1>3. PICK k \in 1..Len(cache) : e = cache[k] /\ Router!Fits(e, activeContext, t)
  BY DEF Router!Cached, Router!Range, RouterInv, RoutesShaped
<1>4. e \in RouteEntry /\ RouteHolds(e) /\ e.agent \in Routed
  <2>1. cache \in Seq(RouteEntry) /\ RouteHolds(cache[k])
    BY DEF RouterInv, RoutesShaped
  <2>2. e \in RouteEntry
    BY <1>3, <2>1, ElementOfSeq
  <2> QED BY <1>3, <2>1, <2>2 DEF RouteEntry
<1> DEFINE S == {x \in Router!Range(cache) : ~Router!Fits(x, activeContext, t)}
           c == Router!Kept(cache, S)
<1>5. /\ RoutesShaped(c) /\ Len(c) < Len(cache)
      /\ \A i \in 1..Len(c) : c[i] \in S /\ \E j \in 1..Len(cache) : c[i] = cache[j]
  <2>1. RoutesShaped(cache) /\ cache[k] \notin S
    BY <1>3 DEF RouterInv
  <2> HIDE DEF S
  <2> QED BY <2>1, RoutesKept
<1>6. cache' = Append(c, e)
  BY <1>1 DEF Router!Without
<1>7. \A i \in 1..Len(c) : ~Router!Fits(c[i], e.ctx, e.task)
  BY <1>3, <1>5 DEF Router!Fits
<1>8. RoutesShaped(cache) /\ \A i \in 1..Len(cache) : RouteHolds(cache[i])
  BY DEF RouterInv
<1> HIDE DEF c, S
<1>9. Len(c) \in Nat /\ Len(cache) \in Nat /\ Len(cache) <= RouteCacheSize /\ RouteCacheSize \in Nat
  BY <1>5, <1>8, RouterFacts, LenProperties DEF RoutesShaped
<1>10. /\ RoutesShaped(cache') /\ Len(cache') = Len(c) + 1 /\ (\A i \in 1..Len(c) : cache'[i] = c[i])
       /\ cache'[Len(c) + 1] = e
  BY <1>4, <1>5, <1>6, <1>7, <1>9, RouteAppended
<1>11. ASSUME NEW i \in 1..Len(cache') PROVE RouteHolds(cache'[i])
  <2>1. i = Len(c) + 1 \/ i \in 1..Len(c)
    BY <1>9, <1>10
  <2>2. CASE i = Len(c) + 1
    BY <1>4, <1>10, <2>2
  <2>3. CASE i \in 1..Len(c)
    BY <1>5, <1>8, <1>10, <2>3
  <2> QED BY <2>1, <2>2, <2>3
<1>12. Router!Done("cached", e.agent) \in RouteRequest /\ RequestHolds(Router!Done("cached", e.agent))
  BY <1>4, DoneHolds
<1> QED BY <1>1, <1>2, <1>10, <1>11, <1>12, RequestsGoOn

LEMMA AnewInv == ASSUME RouterInv, NEW r \in Requests, NEW t \in Topics, Router!ResolveAnew(r, t) PROVE RouterInv'
<1> DEFINE q == [Router!NoRequest EXCEPT !.step = "first", !.task = t, !.candidates = contexts[activeContext],
                                         !.was = agentStatus]
<1>1. q \in RouteRequest /\ RequestHolds(q)
  BY DEF RouterInv, Router!NoRequest, RouteRequest, RequestHolds
<1>2. req' = [req EXCEPT ![r] = q] /\ UNCHANGED <<fallback, contexts, activeContext, agentStatus>>
  BY DEF Router!ResolveAnew
<1>3. RoutesShaped(cache) /\ \A i \in 1..Len(cache) : RouteHolds(cache[i])
  BY DEF RouterInv
<1>4. ASSUME NEW S, cache' = Router!Kept(cache, S)
      PROVE  RoutesShaped(cache') /\ \A i \in 1..Len(cache') : RouteHolds(cache'[i])
  <2> DEFINE c == Router!Kept(cache, S)
  <2>1. RoutesShaped(c) /\ \A i \in 1..Len(c) : \E k \in 1..Len(cache) : c[i] = cache[k]
    BY <1>3, RoutesKept
  <2> HIDE DEF c
  <2>2. \A i \in 1..Len(c) : RouteHolds(c[i])
    BY <1>3, <2>1
  <2> QED BY <1>4, <2>1, <2>2 DEF c
<1>5. RoutesShaped(cache') /\ \A i \in 1..Len(cache') : RouteHolds(cache'[i])
  <2>1. cache' = cache \/ \E S : cache' = Router!Kept(cache, S)
    BY Zenon DEF Router!ResolveAnew, Router!Without, Router!InvalidateAgent
  <2> QED BY <1>3, <1>4, <2>1
<1> HIDE DEF q
<1> QED BY <1>1, <1>2, <1>5, RequestsGoOn

LEMMA DecidedInv == ASSUME RouterInv, NEW r \in Requests, Router!Decided(r) PROVE RouterInv'
<1> DEFINE p == req[r]
<1>1. /\ p \in RouteRequest /\ p.step \in Router!Open /\ p.task \in Topics /\ p.candidates \subseteq Routed
      /\ p.was \in [Routed -> Router!Status] /\ p.disturbed \in BOOLEAN /\ p.step \in {"first", "second"}
      /\ ~p.disturbed => (p.candidates \subseteq contexts[activeContext] \/ fallback)
  BY DEF Router!Decided, RouterInv, RouteRequest, RequestHolds, Router!Open
<1>2. PICK a \in Router!Outcomes(p) :
         LET again == p.step = "first" /\ a = NoAgent /\ fallback /\ p.candidates # Routed IN
         /\ req' = [req EXCEPT ![r] = IF again THEN [p EXCEPT !.step = "second", !.candidates = Routed]
                                      ELSE Router!Done("chosen", NoAgent)]
         /\ cache' = IF a = NoAgent THEN cache
                     ELSE Router!Set([ctx |-> Router!KeyOf(p), task |-> p.task, agent |-> a,
                               was |-> p.was[a], disturbed |-> p.disturbed])
  <2>1. r \in DOMAIN req
    BY DEF RouterInv
  <2> QED BY <2>1 DEF Router!Decided
<1>3. UNCHANGED <<fallback, contexts, activeContext, agentStatus>> /\ a \in p.candidates \cup {NoAgent}
  BY DEF Router!Decided, Router!Outcomes, Router!Capable, Router!Experienced, Router!LoadBalanced
<1>4. PICK q : /\ req' = [req EXCEPT ![r] = q]
               /\ \/ q = [p EXCEPT !.step = "second", !.candidates = Routed] /\ fallback
                  \/ q = Router!Done("chosen", NoAgent)
  BY <1>2, Zenon
<1>5. q \in RouteRequest /\ RequestHolds(q)
  <2>1. CASE q = Router!Done("chosen", NoAgent)
    BY <2>1, DoneHolds
  <2>2. CASE q = [p EXCEPT !.step = "second", !.candidates = Routed] /\ fallback
    <3> HIDE DEF p
    <3>1. q \in RouteRequest /\ q.task = p.task /\ q.was = p.was /\ q.disturbed = p.disturbed
      BY <1>1, <2>2 DEF RouteRequest
    <3> QED BY <1>1, <2>2, <3>1 DEF RequestHolds
  <2> QED BY <1>4, <2>1, <2>2
<1>6. RoutesShaped(cache) /\ \A i \in 1..Len(cache) : RouteHolds(cache[i])
  BY DEF RouterInv
<1>7. RoutesShaped(cache') /\ \A i \in 1..Len(cache') : RouteHolds(cache'[i])
  <2>1. CASE a = NoAgent
    BY <1>2, <1>6, <2>1
  <2>2. CASE a # NoAgent
    <3> DEFINE e == [ctx |-> activeContext, task |-> p.task, agent |-> a, was |-> p.was[a], disturbed |-> p.disturbed]
               c == Router!Set(e)
    <3> HIDE DEF p
    <3>1. a \in p.candidates /\ a \in Routed /\ p.was[a] \in Router!Status /\ activeContext \in RouteContexts
      BY <1>1, <1>3, <2>2 DEF RouterInv
    <3>2. e \in RouteEntry
      BY <1>1, <3>1 DEF RouteEntry
    <3>3. RouteHolds(e)
      BY <1>1, <3>1 DEF RouteHolds
    <3>4. cache' = c
      BY <1>2, <2>2 DEF Router!KeyOf
    <3> HIDE DEF e
    <3>5. RoutesShaped(c) /\ \A i \in 1..Len(c) : c[i] = e \/ \E k \in 1..Len(cache) : c[i] = cache[k]
      BY <1>6, <3>2, RouteSet
    <3> HIDE DEF c
    <3>6. \A i \in 1..Len(c) : RouteHolds(c[i])
      BY <1>6, <3>3, <3>5
    <3> QED BY <3>4, <3>5, <3>6
  <2> QED BY <2>1, <2>2
<1> QED BY <1>3, <1>4, <1>5, <1>7, RequestsGoOn

\* What changes around the router marks the open requests, and empties the cache or takes the
\* agent's entries out.
LEMMA DisturbedHolds ==
    ASSUME RouterInv, req' = Router!Disturbed
    PROVE  req' \in [Requests -> RouteRequest] /\ \A r \in Requests : RequestHolds(req[r])'
<1>1. ASSUME NEW r \in Requests
      PROVE  LET q == [req[r] EXCEPT !.disturbed = @ \/ req[r].step \in Router!Open]
             IN /\ q \in RouteRequest /\ q.step = req[r].step /\ q.task = req[r].task
                /\ (req[r].step \in Router!Open => q.disturbed)
                /\ (req[r].step \in Router!Open => q.task \in Topics)
  <2> DEFINE p == req[r]
  <2>1. p \in RouteRequest /\ (p.step \in Router!Open => p.task \in Topics) /\ (p.step \in Router!Open) \in BOOLEAN
    BY DEF RouterInv, RequestHolds
  <2> HIDE DEF p
  <2>2. PICK d \in BOOLEAN : d = (p.disturbed \/ p.step \in Router!Open)
    BY <2>1 DEF RouteRequest
  <2>3. [p EXCEPT !.disturbed = d] \in RouteRequest
    BY <2>1, <2>2 DEF RouteRequest
  <2>4. (p.step \in Router!Open => d)
    BY <2>2
  <2>5. [p EXCEPT !.disturbed = p.disturbed \/ p.step \in Router!Open] = [p EXCEPT !.disturbed = d]
    BY <2>2
  <2> QED BY <2>1, <2>3, <2>4, <2>5 DEF p, RouteRequest
<1>2. \A r \in Requests : req'[r] = [req[r] EXCEPT !.disturbed = @ \/ req[r].step \in Router!Open]
  BY DEF Router!Disturbed
<1>3. req' \in [Requests -> RouteRequest]
  BY <1>1 DEF Router!Disturbed
<1>4. ASSUME NEW r \in Requests PROVE RequestHolds(req[r])'
  BY <1>1, <1>2 DEF RequestHolds
<1> QED BY <1>3, <1>4

LEMMA EmptiedInv ==
    ASSUME RouterInv, cache' = <<>>,
           contexts' \in [RouteContexts -> SUBSET Routed], activeContext' \in RouteContexts, fallback' = fallback,
           agentStatus' \in [Routed -> Router!Status],
           req' \in [Requests -> RouteRequest], \A r \in Requests : RequestHolds(req[r])'
    PROVE  RouterInv'
<1>1. cache' \in Seq(RouteEntry) /\ Len(cache') = 0
  BY EmptySeq
<1> HIDE DEF RequestHolds
<1> QED BY <1>1, RouterFacts DEF RouterInv, RoutesShaped

LEMMA SetContextInv ==
    ASSUME RouterInv, NEW c \in RouteContexts, NEW S \in SUBSET Routed, Router!SetContext(c, S)
    PROVE  RouterInv'
<1>1. /\ contexts' = [contexts EXCEPT ![c] = S] /\ contexts' \in [RouteContexts -> SUBSET Routed]
      /\ UNCHANGED <<fallback, activeContext, agentStatus>> /\ activeContext \in RouteContexts
      /\ agentStatus' \in [Routed -> Router!Status]
  BY DEF RouterInv, Router!SetContext
<1>2. CASE c = activeContext
  <2>1. cache' = <<>> /\ req' = Router!Disturbed
    BY <1>2 DEF Router!SetContext, Router!Invalidated
  <2> QED BY <1>1, <2>1, DisturbedHolds, EmptiedInv
<1>3. CASE c # activeContext
  <2>1. UNCHANGED <<cache, req>> /\ contexts'[activeContext'] = contexts[activeContext]
    BY <1>1, <1>3 DEF Router!SetContext, Router!Invalidated, RouterInv
  <2>2. ASSUME NEW r \in Requests PROVE RequestHolds(req[r])'
    BY <1>1, <2>1 DEF RouterInv, RequestHolds
  <2>3. ASSUME NEW i \in 1..Len(cache) PROVE RouteHolds(cache[i])'
    BY <1>1, <2>1 DEF RouterInv, RouteHolds
  <2> QED BY <1>1, <2>1, <2>2, <2>3 DEF RouterInv, RoutesShaped
<1> QED BY <1>2, <1>3

LEMMA StatusChangeInv == ASSUME RouterInv, NEW a \in Routed, Router!ChangeStatus(a) PROVE RouterInv'
<1>1. agentStatus' \in [Routed -> Router!Status] /\ UNCHANGED <<fallback, contexts, activeContext, cache, req>>
  BY DEF RouterInv, Router!ChangeStatus, Router!Status
<1> QED BY <1>1 DEF RouterInv, RoutesShaped, RouteHolds, RequestHolds

LEMMA RouterStep == RouterInv /\ [Router!RouterNext]_routerVars => RouterInv'
<1> SUFFICES ASSUME RouterInv, [Router!RouterNext]_routerVars PROVE RouterInv'
  OBVIOUS
<1>1. CASE UNCHANGED routerVars
  BY <1>1 DEF routerVars, RouterInv, RequestHolds, RouteHolds, RoutesShaped
<1>2. CASE \E r \in Requests : \/ \E a \in Routed : Router!DirectMatch(r, a)
                               \/ \E t \in Topics : Router!ResolveCached(r, t) \/ Router!ResolveAnew(r, t)
                               \/ Router!Decided(r)
  BY <1>2, DirectInv, CachedInv, AnewInv, DecidedInv
<1>3. CASE \E c \in RouteContexts : Router!SetActiveContext(c)
  <2>1. PICK c \in RouteContexts : Router!SetActiveContext(c)
    BY <1>3
  <2>2. /\ activeContext' = c /\ cache' = <<>> /\ req' = Router!Disturbed /\ UNCHANGED <<fallback, contexts, agentStatus>>
        /\ contexts' \in [RouteContexts -> SUBSET Routed] /\ agentStatus' \in [Routed -> Router!Status]
    BY <2>1 DEF Router!SetActiveContext, RouterInv
  <2> QED BY <2>2, DisturbedHolds, EmptiedInv
<1>4. CASE \E c \in RouteContexts : \E S \in SUBSET Routed \ {{}} : Router!SetContext(c, S)
  BY <1>4, SetContextInv
<1>5. CASE Router!ClearCache
  <2>1. /\ cache' = <<>> /\ UNCHANGED <<fallback, contexts, activeContext, agentStatus, req>>
        /\ contexts' \in [RouteContexts -> SUBSET Routed] /\ agentStatus' \in [Routed -> Router!Status]
        /\ activeContext' \in RouteContexts /\ req' \in [Requests -> RouteRequest]
    BY <1>5 DEF Router!ClearCache, RouterInv
  <2>2. ASSUME NEW r \in Requests PROVE RequestHolds(req[r])'
    BY <2>1 DEF RouterInv, RequestHolds
  <2> QED BY <2>1, <2>2, EmptiedInv
<1>6. CASE \E a \in Routed : Router!ChangeStatus(a)
  BY <1>6, StatusChangeInv
<1> QED BY <1>1, <1>2, <1>3, <1>4, <1>5, <1>6 DEF Router!RouterNext

LEMMA RouterHolds == RouterInv => Router!CacheFresh
  BY DEF RouterInv, RoutesShaped, RouteHolds, Router!CacheFresh

-----------------------------------------------------------------------------
(* The retrieval index *)

IndexItem == [id : Indexed, text : Texts]
IndexWrite == [items : ItemLists, found : SUBSET Rag!Vectors]
EmbedEntry == [text : Texts, vector : Rag!Vectors]

\* What a call writes last of an item.
Has(items, i) == \E k \in DOMAIN items : items[k].id = i
TextIn(items, i) == items[Rag!Max({k \in DOMAIN items : items[k].id = i})].text

\* The last call in progress that has an item holds its latest text.
LatestIn(w, i, k) ==
    Has(w[k].items, i) /\ (\A m \in 1..Len(w) : m > k => ~Has(w[m].items, i)) => latest[i] = TextIn(w[k].items, i)

\* The embedder's cache keeps its size, and without the API everything is of the engine.
EmbedShaped(c) ==
    /\ c \in Seq(EmbedEntry) /\ Len(c) <= EmbedCacheSize
    /\ vectorMode = "tfidf" => \A j \in 1..Len(c) : c[j].vector = "tfidf"

RagInv ==
    /\ vectorMode \in Rag!Vectors /\ corpusDirty \in BOOLEAN
    /\ vecs \in [Indexed -> Texts \cup {NoText}] /\ ftsTexts \in [Indexed -> Texts \cup {NoText}]
    /\ latest \in [Indexed -> Texts \cup {NoText}]
    /\ EmbedShaped(embedded)
    /\ writes \in Seq(IndexWrite)
    /\ \A i \in Indexed : vecs[i] # NoText => ftsTexts[i] = vecs[i]
    /\ ~corpusDirty => savedDocs = docs
    /\ vectorMode = "tfidf" =>
         /\ \A k \in 1..Len(writes) : writes[k].found \subseteq {"tfidf"}
         /\ \A i \in Indexed : (\A k \in 1..Len(writes) : ~Has(writes[k].items, i)) => vecs[i] = latest[i]
         /\ \A i \in Indexed, k \in 1..Len(writes) : LatestIn(writes, i, k)

LEMMA RagFacts ==
    /\ NoText \notin Texts /\ EmbedCacheSize \in Nat /\ EmbedCacheSize >= 1
    /\ \A items \in ItemLists : /\ items \in Seq(IndexItem) /\ Len(items) \in Nat /\ Len(items) >= 1
                                /\ DOMAIN items = 1..Len(items)
                                /\ \A k \in 1..Len(items) : items[k].id \in Indexed /\ items[k].text \in Texts
<1>1. /\ NoText \notin Texts /\ EmbedCacheSize \in Nat /\ EmbedCacheSize >= 1
      /\ ItemLists \subseteq Seq(IndexItem) \ {<<>>}
  <2>1. NoText \notin Texts /\ EmbedCacheSize \in Nat \ {0}
    BY ServicesAssumption, Zenon
  <2>2. ItemLists \subseteq Seq(IndexItem) \ {<<>>}
    BY ServicesAssumption, Zenon DEF IndexItem
  <2> QED BY <2>1, <2>2
<1>2. ASSUME NEW items \in ItemLists
      PROVE  /\ items \in Seq(IndexItem) /\ Len(items) \in Nat /\ Len(items) >= 1 /\ DOMAIN items = 1..Len(items)
             /\ \A k \in 1..Len(items) : items[k].id \in Indexed /\ items[k].text \in Texts
  <2>1. items \in Seq(IndexItem) /\ items # <<>>
    BY <1>1
  <2>2. Len(items) \in Nat /\ DOMAIN items = 1..Len(items) /\ Len(items) # 0
    BY <2>1, LenProperties, EmptySeq
  <2>3. \A k \in 1..Len(items) : items[k] \in IndexItem
    BY <2>1, ElementOfSeq
  <2> QED BY <2>1, <2>2, <2>3 DEF IndexItem
<1> QED BY <1>1, <1>2

\* A set of positions has a least and a greatest one.
LEMMA LastPosition ==
    ASSUME NEW n \in Nat, NEW S \in SUBSET (1..n), S # {}
    PROVE  Rag!Max(S) \in S /\ Rag!Min(S) \in S /\ \A k \in S : k <= Rag!Max(S) /\ Rag!Min(S) <= k
<1>1. \E m \in S : \A k \in S : m <= k
  <2>1. S \in SUBSET Nat
    OBVIOUS
  <2> QED BY <2>1, LeastElement
<1>2. \E m \in S : \A k \in S : m >= k
  <2> DEFINE B == {n - k : k \in S}
  <2>1. B \in SUBSET Nat /\ B # {}
    <3>1. \A k \in S : k \in 1..n /\ n - k \in Nat
      OBVIOUS
    <3> QED BY <3>1
  <2>2. PICK b \in B : \A c \in B : b <= c
    BY <2>1, LeastElement
  <2>3. PICK m \in S : b = n - m
    BY <2>2
  <2>4. ASSUME NEW k \in S PROVE m >= k
    <3>1. n - k \in B /\ k \in 1..n /\ m \in 1..n
      OBVIOUS
    <3> HIDE DEF B
    <3>2. b <= n - k
      BY <2>2, <3>1
    <3> QED BY <2>3, <3>1, <3>2
  <2> QED BY <2>4
<1>3. Rag!Min(S) \in S /\ \A k \in S : Rag!Min(S) <= k
  BY <1>1 DEF Rag!Min
<1>4. Rag!Max(S) \in S /\ \A k \in S : Rag!Max(S) >= k
  BY <1>2 DEF Rag!Max
<1> QED BY <1>3, <1>4

\* What is removed of a sequence.
LEMMA EntryRemoved ==
    ASSUME NEW T, NEW s \in Seq(T), NEW w \in 1..Len(s)
    PROVE  LET r == Rag!RemoveAt(s, w)
           IN r \in Seq(T) /\ Len(r) = Len(s) - 1 /\ \A j \in 1..Len(r) : r[j] = IF j < w THEN s[j] ELSE s[j + 1]
<1> DEFINE a == SubSeq(s, 1, w - 1)
           b == SubSeq(s, w + 1, Len(s))
           r == Rag!RemoveAt(s, w)
<1>1. Len(s) \in Nat /\ \A i \in 1..Len(s) : s[i] \in T
  BY LenProperties, ElementOfSeq
<1>2. a \in Seq(T) /\ Len(a) = w - 1 /\ \A j \in 1..(w - 1) : a[j] = s[j]
  <2>1. 1 \in Int /\ w - 1 \in Int /\ \A i \in 1..(w - 1) : s[i] \in T
    BY <1>1
  <2>2. a \in Seq(T) /\ Len(a) = (IF 1 <= w - 1 THEN (w - 1) - 1 + 1 ELSE 0) /\ \A j \in 1..((w - 1) - 1 + 1) : a[j] = s[1 + j - 1]
    BY <2>1, SubSeqProperties
  <2> QED BY <1>1, <2>2
<1>3. b \in Seq(T) /\ Len(b) = Len(s) - w /\ \A j \in 1..(Len(s) - w) : b[j] = s[w + j]
  <2>1. w + 1 \in Int /\ Len(s) \in Int /\ \A i \in (w + 1)..Len(s) : s[i] \in T
    BY <1>1
  <2>2. /\ b \in Seq(T) /\ Len(b) = (IF w + 1 <= Len(s) THEN Len(s) - (w + 1) + 1 ELSE 0)
        /\ \A j \in 1..(Len(s) - (w + 1) + 1) : b[j] = s[(w + 1) + j - 1]
    BY <2>1, SubSeqProperties
  <2> QED BY <1>1, <2>2
<1>4. r = a \o b
  BY DEF Rag!RemoveAt
<1> HIDE DEF a, b, r
<1>5. /\ r \in Seq(T) /\ Len(r) = Len(a) + Len(b)
      /\ \A j \in 1..(Len(a) + Len(b)) : r[j] = IF j <= Len(a) THEN a[j] ELSE b[j - Len(a)]
  BY <1>2, <1>3, <1>4, ConcatProperties
<1>6. ASSUME NEW j \in 1..Len(r) PROVE r[j] = IF j < w THEN s[j] ELSE s[j + 1]
  <2>1. Len(a) = w - 1 /\ Len(r) = Len(s) - 1 /\ w \in Nat /\ Len(s) \in Nat /\ j \in 1..(Len(a) + Len(b))
    BY <1>1, <1>2, <1>3, <1>5
  <2>2. CASE j < w
    <3>1. j <= Len(a) /\ j \in 1..(w - 1)
      BY <2>1, <2>2
    <3> QED BY <1>2, <1>5, <2>1, <2>2, <3>1
  <2>3. CASE ~(j < w)
    <3>1. ~(j <= Len(a)) /\ j - Len(a) \in 1..(Len(s) - w) /\ w + (j - Len(a)) = j + 1
      BY <2>1, <2>3
    <3>2. r[j] = b[j - Len(a)] /\ b[j - Len(a)] = s[w + (j - Len(a))]
      BY <1>3, <1>5, <2>1, <3>1
    <3> QED BY <2>3, <3>1, <3>2
  <2> QED BY <2>2, <2>3
<1> QED BY <1>1, <1>2, <1>3, <1>5, <1>6 DEF r

\* What a call writes of an item is one of its texts.
LEMMA TextWritten ==
    ASSUME NEW n \in Nat, NEW items \in Seq(IndexItem), n = Len(items), NEW i, Has(items, i)
    PROVE  TextIn(items, i) \in Texts
<1> DEFINE S == {k \in DOMAIN items : items[k].id = i}
<1>1. DOMAIN items = 1..n /\ \A k \in 1..n : items[k] \in IndexItem
  BY LenProperties, ElementOfSeq
<1>2. S \in SUBSET (1..n) /\ S # {}
  BY <1>1 DEF Has
<1> HIDE DEF S
<1>3. Rag!Max(S) \in S
  BY <1>2, LastPosition
<1>4. Rag!Max(S) \in 1..n
  BY <1>2, <1>3
<1>5. items[Rag!Max(S)].text \in Texts
  BY <1>1, <1>4 DEF IndexItem
<1> QED BY <1>5 DEF TextIn, S

LEMMA Inserted ==
    ASSUME NEW table, table \in [Indexed -> Texts \cup {NoText}], NEW items \in Seq(IndexItem)
    PROVE  /\ Rag!Insert(table, items) \in [Indexed -> Texts \cup {NoText}]
           /\ \A i \in Indexed : /\ Has(items, i) => Rag!Insert(table, items)[i] = TextIn(items, i)
                                 /\ ~Has(items, i) => Rag!Insert(table, items)[i] = table[i]
<1>1. Rag!Insert(table, items) = [i \in Indexed |-> IF Has(items, i) THEN TextIn(items, i) ELSE table[i]]
  BY DEF Rag!Insert, Has, TextIn
<1>2. Len(items) \in Nat
  BY LenProperties
<1>3. ASSUME NEW i \in Indexed PROVE (IF Has(items, i) THEN TextIn(items, i) ELSE table[i]) \in Texts \cup {NoText}
  BY <1>2, TextWritten
<1> HIDE DEF Has, TextIn
<1> QED BY <1>1, <1>3

\* What the embedder is asked for stays within its kinds, and is put into its cache.
LEMMA MadeFacts ==
    ASSUME RagInv, NEW found \in SUBSET Rag!Vectors, vectorMode = "tfidf" => found \subseteq {"tfidf"}
    PROVE  /\ Rag!Made(found) \subseteq Rag!Vectors /\ Rag!Made(found) # {}
           /\ vectorMode = "tfidf" => Rag!Made(found) = {"tfidf"}
  BY DEF RagInv, Rag!Made, Rag!Vectors

LEMMA FoundFacts ==
    ASSUME RagInv, NEW t
    PROVE  Rag!Found(t) \subseteq Rag!Vectors /\ (vectorMode = "tfidf" => Rag!Found(t) \subseteq {"tfidf"})
<1>1. EmbedShaped(embedded) /\ embedded \in Seq(EmbedEntry)
  BY DEF RagInv, EmbedShaped
<1>2. DOMAIN embedded = 1..Len(embedded) /\ \A j \in 1..Len(embedded) : embedded[j] \in EmbedEntry
  BY <1>1, LenProperties, ElementOfSeq
<1>3. ASSUME NEW v \in Rag!Found(t) PROVE v \in Rag!Vectors /\ (vectorMode = "tfidf" => v = "tfidf")
  <2>1. PICK j \in 1..Len(embedded) : v = embedded[j].vector
    BY <1>2 DEF Rag!Found, Rag!ToSet
  <2> QED BY <1>1, <1>2, <2>1 DEF EmbedEntry, EmbedShaped
<1> QED BY <1>3

LEMMA KeptInIndex ==
    ASSUME NEW T, NEW s \in Seq(T), NEW S
    PROVE  LET r == Rag!Kept(s, S)
           IN /\ r \in Seq(T) /\ Len(r) \in Nat /\ Len(r) <= Len(s)
              /\ Len(r) = Len(s) => \A k \in 1..Len(s) : s[k] \in S
              /\ \A j \in 1..Len(r) : r[j] \in S /\ \E k \in 1..Len(s) : r[j] = s[k]
              /\ \E h : Picks(h, r, s, S)
<1> DEFINE r == Router!Kept(s, S)
<1>1. /\ Rag!Kept(s, S) = r /\ r \in Seq(T) /\ Len(r) <= Len(s) /\ (Len(r) = Len(s) => \A k \in 1..Len(s) : s[k] \in S)
      /\ \E h : Picks(h, r, s, S)
  BY KeptIsPicked
<1> HIDE DEF r
<1>2. Len(r) \in Nat
  BY <1>1, LenProperties
<1>3. \A j \in 1..Len(r) : r[j] \in S /\ \E k \in 1..Len(s) : r[j] = s[k]
  BY <1>1 DEF Picks
<1> QED BY <1>1, <1>2, <1>3

LEMMA CachedShaped ==
    ASSUME RagInv, NEW t \in Texts, NEW v \in Rag!Vectors, vectorMode = "tfidf" => v = "tfidf"
    PROVE  EmbedShaped(Rag!Cached(t, v))
<1> DEFINE S == {e \in Rag!ToSet(embedded) : e.text # t}
           w == Rag!Kept(embedded, S)
           c == IF Len(w) = Len(embedded) /\ Len(embedded) >= EmbedCacheSize THEN Tail(embedded) ELSE w
           e == [text |-> t, vector |-> v]
<1>1. /\ embedded \in Seq(EmbedEntry) /\ Len(embedded) \in Nat /\ Len(embedded) <= EmbedCacheSize
      /\ vectorMode = "tfidf" => \A j \in 1..Len(embedded) : embedded[j].vector = "tfidf"
  BY LenProperties DEF RagInv, EmbedShaped
<1>2. /\ w \in Seq(EmbedEntry) /\ Len(w) <= Len(embedded) /\ Len(w) \in Nat
      /\ \A j \in 1..Len(w) : \E k \in 1..Len(embedded) : w[j] = embedded[k]
  <2>1. embedded \in Seq(EmbedEntry)
    BY <1>1
  <2> HIDE DEF S
  <2> QED BY <2>1, KeptInIndex
<1> HIDE DEF w
<1>3. vectorMode = "tfidf" => \A j \in 1..Len(w) : w[j].vector = "tfidf"
  BY <1>1, <1>2
<1>4. /\ c \in Seq(EmbedEntry) /\ Len(c) \in Nat /\ Len(c) + 1 <= EmbedCacheSize
      /\ vectorMode = "tfidf" => \A j \in 1..Len(c) : c[j].vector = "tfidf"
  <2>1. CASE Len(w) = Len(embedded) /\ Len(embedded) >= EmbedCacheSize
    <3> DEFINE tl == Tail(embedded)
    <3>1. embedded # <<>>
      BY <1>1, <2>1, RagFacts, EmptySeq
    <3>2. tl \in Seq(EmbedEntry) /\ Len(tl) = Len(embedded) - 1 /\ \A j \in 1..Len(tl) : tl[j] = embedded[j + 1]
      BY <1>1, <3>1, HeadTailProperties
    <3>3. c = tl
      BY <2>1
    <3> HIDE DEF tl, c
    <3> QED BY <1>1, <2>1, <3>2, <3>3, RagFacts
  <2>2. CASE ~(Len(w) = Len(embedded) /\ Len(embedded) >= EmbedCacheSize)
    <3>1. c = w
      BY <2>2
    <3> HIDE DEF c
    <3> QED BY <1>1, <1>2, <1>3, <2>2, <3>1, RagFacts
  <2> QED BY <2>1, <2>2
<1>5. Rag!Cached(t, v) = Append(c, e)
  BY DEF Rag!Cached, Rag!Without, w
<1>6. e \in EmbedEntry /\ e.vector = v
  BY DEF EmbedEntry
<1> HIDE DEF c, e
<1> DEFINE r == Append(c, e)
<1>7. r \in Seq(EmbedEntry) /\ Len(r) = Len(c) + 1 /\ (\A j \in 1..Len(c) : r[j] = c[j]) /\ r[Len(c) + 1] = e
  BY <1>4, <1>6, AppendProperties
<1> HIDE DEF r
<1>8. ASSUME vectorMode = "tfidf", NEW j \in 1..Len(r) PROVE r[j].vector = "tfidf"
  <2>1. j = Len(c) + 1 \/ j \in 1..Len(c)
    BY <1>4, <1>7
  <2> QED BY <1>4, <1>6, <1>7, <1>8, <2>1
<1>9. EmbedShaped(r)
  BY <1>4, <1>7, <1>8 DEF EmbedShaped
<1> QED BY <1>5, <1>9 DEF r

LEMMA RagInitInv == Rag!RagInit => RagInv
<1> SUFFICES ASSUME Rag!RagInit PROVE RagInv
  OBVIOUS
<1>1. /\ vectorMode \in Rag!Vectors /\ docs = 0 /\ corpusDirty = FALSE /\ savedDocs = 0
      /\ vecs = Rag!Nothing /\ ftsTexts = Rag!Nothing /\ latest = Rag!Nothing /\ writes = <<>> /\ embedded = <<>>
  BY DEF Rag!RagInit
<1>2. writes \in Seq(IndexWrite) /\ Len(writes) = 0 /\ EmbedShaped(embedded)
  <2>1. embedded \in Seq(EmbedEntry) /\ Len(embedded) = 0 /\ writes \in Seq(IndexWrite) /\ Len(writes) = 0
    BY <1>1, EmptySeq
  <2> QED BY <2>1, RagFacts DEF EmbedShaped
<1>3. Rag!Nothing \in [Indexed -> Texts \cup {NoText}] /\ \A i \in Indexed : Rag!Nothing[i] = NoText
  BY DEF Rag!Nothing
<1>4. \A k : k \notin 1..Len(writes)
  BY <1>2
<1>5. \A i \in Indexed : vecs[i] = NoText /\ vecs[i] = latest[i]
  BY <1>1, <1>3
<1> HIDE DEF Rag!Nothing, LatestIn, Has
<1> QED BY <1>1, <1>2, <1>3, <1>4, <1>5 DEF RagInv

LEMMA BeginWriteInv == ASSUME RagInv, NEW items \in ItemLists, Rag!BeginWrite(items) PROVE RagInv'
<1> DEFINE L == Len(writes)
           t == items[1].text
           f == IF Len(items) = 1 THEN Rag!Found(t) ELSE {}
           w == [items |-> items, found |-> f]
<1>1. /\ vectorMode' = vectorMode /\ vecs' = vecs /\ ftsTexts' = ftsTexts /\ savedDocs' = savedDocs
      /\ corpusDirty' = TRUE /\ writes' = Append(writes, w)
      /\ latest' = Rag!Insert(latest, items)
  BY DEF Rag!BeginWrite, Rag!AddToCorpus, Rag!Insert
<1>2. /\ items \in Seq(IndexItem) /\ Len(items) \in Nat /\ Len(items) >= 1 /\ t \in Texts
      /\ latest \in [Indexed -> Texts \cup {NoText}] /\ writes \in Seq(IndexWrite) /\ L \in Nat
  BY RagFacts, LenProperties DEF RagInv
<1>3. f \subseteq Rag!Vectors /\ (vectorMode = "tfidf" => f \subseteq {"tfidf"})
  BY FoundFacts
<1>4. w \in IndexWrite /\ w.items = items /\ w.found = f
  BY <1>3 DEF IndexWrite
<1>5. EmbedShaped(embedded)'
  <2>1. EmbedShaped(embedded')
    <3>1. embedded' = IF Len(items) > 1 \/ Rag!Waits(Rag!Found(t)) THEN embedded
                      ELSE Rag!Cached(t, CHOOSE v \in Rag!Made(Rag!Found(t)) : TRUE)
      BY DEF Rag!BeginWrite
    <3> DEFINE v1 == CHOOSE v \in Rag!Made(Rag!Found(t)) : TRUE
    <3>2. v1 \in Rag!Vectors /\ (vectorMode = "tfidf" => v1 = "tfidf")
      <4>1. Rag!Found(t) \subseteq Rag!Vectors /\ (vectorMode = "tfidf" => Rag!Found(t) \subseteq {"tfidf"})
        BY FoundFacts
      <4>2. /\ Rag!Made(Rag!Found(t)) \subseteq Rag!Vectors /\ Rag!Made(Rag!Found(t)) # {}
            /\ vectorMode = "tfidf" => Rag!Made(Rag!Found(t)) = {"tfidf"}
        BY <4>1, MadeFacts
      <4> QED BY <4>2
    <3> HIDE DEF v1, t
    <3>3. EmbedShaped(Rag!Cached(t, v1))
      BY <1>2, <3>2, CachedShaped
    <3>4. EmbedShaped(embedded)
      BY DEF RagInv
    <3> QED BY <3>1, <3>3, <3>4 DEF v1
  <2> QED BY <1>1, <2>1 DEF EmbedShaped
<1>6. /\ latest' \in [Indexed -> Texts \cup {NoText}]
      /\ \A i \in Indexed : /\ Has(items, i) => latest'[i] = TextIn(items, i)
                            /\ ~Has(items, i) => latest'[i] = latest[i]
  BY <1>1, <1>2, Inserted
<1> HIDE DEF w, t, f, L
<1>7. /\ writes' \in Seq(IndexWrite) /\ Len(writes') = L + 1 /\ (\A k \in 1..L : writes'[k] = writes[k]) /\ writes'[L + 1] = w
  BY <1>1, <1>2, <1>4, AppendProperties DEF L
<1>8. ASSUME vectorMode = "tfidf"
      PROVE  /\ \A k \in 1..Len(writes') : writes'[k].found \subseteq {"tfidf"}
             /\ \A i \in Indexed : (\A k \in 1..Len(writes') : ~Has(writes'[k].items, i)) => vecs'[i] = latest'[i]
  <2>1. \A k \in 1..L : writes[k].found \subseteq {"tfidf"}
    BY <1>8 DEF RagInv, L
  <2>2. ASSUME NEW k \in 1..Len(writes') PROVE writes'[k].found \subseteq {"tfidf"}
    <3>1. k = L + 1 \/ k \in 1..L
      BY <1>2, <1>7
    <3> QED BY <1>3, <1>4, <1>7, <1>8, <2>1, <3>1
  <2>3. ASSUME NEW i \in Indexed, \A k \in 1..Len(writes') : ~Has(writes'[k].items, i) PROVE vecs'[i] = latest'[i]
    <3>1. L + 1 \in 1..Len(writes') /\ \A k \in 1..L : k \in 1..Len(writes')
      BY <1>2, <1>7
    <3>2. ~Has(items, i) /\ \A k \in 1..L : ~Has(writes[k].items, i)
      BY <1>4, <1>7, <2>3, <3>1
    <3>3. vecs[i] = latest[i]
      BY <1>8, <3>2 DEF RagInv, L
    <3> QED BY <1>1, <1>6, <3>2, <3>3
  <2> QED BY <2>2, <2>3
<1>9. ASSUME vectorMode = "tfidf", NEW i \in Indexed, NEW k \in 1..Len(writes'),
             Has(writes'[k].items, i), \A m \in 1..Len(writes') : m > k => ~Has(writes'[m].items, i)
      PROVE  latest'[i] = TextIn(writes'[k].items, i)
  <2>1. CASE k = L + 1
    BY <1>4, <1>6, <1>7, <1>9, <2>1
  <2>2. CASE k # L + 1
    <3>1. k \in 1..L /\ L + 1 \in 1..Len(writes') /\ L + 1 > k /\ \A m \in 1..L : m \in 1..Len(writes')
      BY <1>2, <1>7, <2>2
    <3>2. ~Has(items, i) /\ Has(writes[k].items, i) /\ \A m \in 1..L : m > k => ~Has(writes[m].items, i)
      BY <1>4, <1>7, <1>9, <3>1
    <3>3. latest[i] = TextIn(writes[k].items, i)
      BY <1>9, <3>1, <3>2 DEF RagInv, LatestIn, L
    <3> QED BY <1>6, <1>7, <3>1, <3>2, <3>3
  <2> QED BY <2>1, <2>2
<1>10. \A i \in Indexed, k \in 1..Len(writes') : vectorMode = "tfidf" => LatestIn(writes, i, k)'
  BY <1>9 DEF LatestIn, Has, TextIn
<1> QED BY <1>1, <1>5, <1>6, <1>7, <1>8, <1>10 DEF RagInv, Has

\* The first items of a call.
LEMMA FirstItems ==
    ASSUME NEW items \in Seq(IndexItem), NEW n \in 0..Len(items)
    PROVE  LET b == SubSeq(items, 1, n)
           IN b \in Seq(IndexItem) /\ Len(b) = n /\ (n = Len(items) => b = items)
<1>1. Len(items) \in Nat /\ \A i \in 1..Len(items) : items[i] \in IndexItem
  BY LenProperties, ElementOfSeq
<1>2. 1 \in Int /\ n \in Int /\ \A i \in 1..n : items[i] \in IndexItem
  BY <1>1
<1> DEFINE b == SubSeq(items, 1, n)
<1>3. b \in Seq(IndexItem) /\ Len(b) = (IF 1 <= n THEN n - 1 + 1 ELSE 0)
  BY <1>2, SubSeqProperties
<1>4. n = Len(items) => b = items
  BY SubSeqFull
<1> HIDE DEF b
<1>5. Len(b) = n
  BY <1>1, <1>3
<1> QED BY <1>3, <1>4, <1>5 DEF b

LEMMA EndWriteInv == ASSUME RagInv, NEW w \in DOMAIN writes, Rag!EndWrite(w) PROVE RagInv'
<1> DEFINE items == writes[w].items
           found == writes[w].found
           L == Len(writes)
<1>1. writes \in Seq(IndexWrite) /\ L \in Nat /\ w \in 1..L /\ \A k \in 1..L : writes[k] \in IndexWrite
  BY LenProperties, ElementOfSeq DEF RagInv
<1>2. /\ items \in ItemLists /\ found \in SUBSET Rag!Vectors
      /\ items \in Seq(IndexItem) /\ Len(items) \in Nat /\ Len(items) >= 1 /\ DOMAIN items = 1..Len(items)
      /\ \A k \in 1..Len(items) : items[k].id \in Indexed /\ items[k].text \in Texts
  <2>1. items \in ItemLists /\ found \in SUBSET Rag!Vectors
    BY <1>1 DEF IndexWrite
  <2> HIDE DEF items
  <2> QED BY <2>1, RagFacts
<1>3. vectorMode = "tfidf" => found \subseteq {"tfidf"} /\ w = 1
  BY <1>1 DEF RagInv, Rag!EndWrite
<1>4. PICK made \in [DOMAIN items -> Rag!Vectors] :
            /\ \A k \in DOMAIN items : made[k] \in Rag!Made(found)
            /\ LET bad == {k \in DOMAIN items : ~Rag!Fits(made[k])}
                   n == IF bad = {} THEN Len(items) ELSE Rag!Min(bad) - 1
                   done == Rag!Insert(vecs, SubSeq(items, 1, n))
               IN /\ vecs' = IF bad = {} THEN done ELSE Rag!DropRow(done, items[n + 1])
                  /\ Rag!WriteTexts(items, n)
            /\ embedded' = IF Len(items) = 1 /\ Rag!Waits(found) THEN Rag!Cached(items[1].text, made[1]) ELSE embedded
  BY Zenon DEF Rag!EndWrite
<1>5. writes' = Rag!RemoveAt(writes, w) /\ UNCHANGED <<vectorMode, docs, corpusDirty, savedDocs, latest>>
  BY DEF Rag!EndWrite
<1>6. /\ Rag!Made(found) \subseteq Rag!Vectors /\ Rag!Made(found) # {}
      /\ vectorMode = "tfidf" => Rag!Made(found) = {"tfidf"}
  <2> HIDE DEF found
  <2> QED BY <1>2, <1>3, MadeFacts
<1> HIDE DEF items, found
<1> DEFINE bad == {k \in DOMAIN items : ~Rag!Fits(made[k])}
           n == IF bad = {} THEN Len(items) ELSE Rag!Min(bad) - 1
           b == SubSeq(items, 1, n)
           done == Rag!Insert(vecs, b)
<1>7. n \in 0..Len(items) /\ (bad # {} => n + 1 \in 1..Len(items))
  <2>1. bad \in SUBSET (1..Len(items))
    BY <1>2
  <2> HIDE DEF bad
  <2>2. bad # {} => Rag!Min(bad) \in bad
    BY <1>2, <2>1, LastPosition
  <2>3. bad # {} => Rag!Min(bad) \in 1..Len(items)
    BY <2>1, <2>2
  <2>4. n = IF bad = {} THEN Len(items) ELSE Rag!Min(bad) - 1
    BY DEF bad
  <2> HIDE DEF n
  <2>5. CASE bad = {}
    BY <1>2, <2>4, <2>5
  <2>6. CASE bad # {}
    <3>1. n = Rag!Min(bad) - 1
      BY <2>4, <2>6
    <3> QED BY <1>2, <2>3, <2>6, <3>1
  <2> QED BY <2>5, <2>6
<1>8. /\ vecs' = (IF bad = {} THEN done ELSE [done EXCEPT ![items[n + 1].id] = NoText])
      /\ ftsTexts' = Rag!Insert(ftsTexts, b)
  BY <1>4 DEF Rag!WriteTexts, Rag!DropRow
<1> HIDE DEF n, bad
<1>9. b \in Seq(IndexItem) /\ (n = Len(items) => b = items)
  BY <1>2, <1>7, FirstItems
<1> HIDE DEF b
<1>10. /\ vecs \in [Indexed -> Texts \cup {NoText}] /\ ftsTexts \in [Indexed -> Texts \cup {NoText}]
       /\ \A i \in Indexed : vecs[i] # NoText => ftsTexts[i] = vecs[i]
  BY DEF RagInv
<1>11. /\ done \in [Indexed -> Texts \cup {NoText}]
       /\ \A i \in Indexed : (Has(b, i) => done[i] = TextIn(b, i)) /\ (~Has(b, i) => done[i] = vecs[i])
  BY <1>9, <1>10, Inserted
<1>12. /\ ftsTexts' \in [Indexed -> Texts \cup {NoText}]
       /\ \A i \in Indexed : (Has(b, i) => ftsTexts'[i] = TextIn(b, i)) /\ (~Has(b, i) => ftsTexts'[i] = ftsTexts[i])
  BY <1>8, <1>9, <1>10, Inserted
<1> HIDE DEF done, Has, TextIn
<1>13. vecs' \in [Indexed -> Texts \cup {NoText}] /\ \A i \in Indexed : vecs'[i] = done[i] \/ vecs'[i] = NoText
  <2>1. bad # {} => items[n + 1].id \in Indexed
    BY <1>2, <1>7
  <2> QED BY <1>8, <1>11, <2>1
<1>14. \A i \in Indexed : vecs'[i] # NoText => ftsTexts'[i] = vecs'[i]
  BY <1>10, <1>11, <1>12, <1>13
<1>15. EmbedShaped(embedded')
  <2>1. CASE Len(items) = 1 /\ Rag!Waits(found)
    <3>1. /\ 1 \in DOMAIN items /\ items[1].text \in Texts /\ made[1] \in Rag!Vectors
          /\ vectorMode = "tfidf" => made[1] = "tfidf"
      BY <1>2, <1>4, <1>6, <2>1
    <3> QED BY <1>4, <2>1, <3>1, CachedShaped
  <2>2. CASE ~(Len(items) = 1 /\ Rag!Waits(found))
    BY <1>4, <2>2 DEF RagInv
  <2> QED BY <2>1, <2>2
<1>16. /\ writes' \in Seq(IndexWrite) /\ Len(writes') = L - 1
       /\ \A j \in 1..Len(writes') : writes'[j] = IF j < w THEN writes[j] ELSE writes[j + 1]
  BY <1>1, <1>5, EntryRemoved
<1>17. ASSUME vectorMode = "tfidf"
       PROVE  /\ \A k \in 1..Len(writes') : writes'[k].found \subseteq {"tfidf"}
              /\ \A i \in Indexed : (\A k \in 1..Len(writes') : ~Has(writes'[k].items, i)) => vecs'[i] = latest[i]
              /\ \A i \in Indexed, k \in 1..Len(writes') : LatestIn(writes', i, k)
  <2>1. bad = {} /\ n = Len(items) /\ w = 1
    <3>1. \A k \in DOMAIN items : made[k] = "tfidf"
      BY <1>4, <1>6, <1>17
    <3> QED BY <1>3, <1>17, <3>1 DEF bad, n, Rag!Fits
  <2>2. vecs' = done /\ b = items
    BY <1>8, <1>9, <2>1
  <2>3. \A j \in 1..Len(writes') : j + 1 \in 1..L /\ writes'[j] = writes[j + 1]
    BY <1>1, <1>16, <2>1
  <2>4. \A k \in 2..L : k - 1 \in 1..Len(writes') /\ writes[k] = writes'[k - 1]
    <3>1. ASSUME NEW k \in 2..L PROVE k - 1 \in 1..Len(writes') /\ writes[k] = writes'[k - 1]
      <4>1. k - 1 \in 1..Len(writes') /\ (k - 1) + 1 = k
        BY <1>1, <1>16
      <4> QED BY <2>3, <4>1
    <3> QED BY <3>1
  <2>5. ASSUME NEW k \in 1..Len(writes') PROVE writes'[k].found \subseteq {"tfidf"}
    BY <1>17, <2>3 DEF RagInv, L
  <2>6. ASSUME NEW i \in Indexed, \A k \in 1..Len(writes') : ~Has(writes'[k].items, i) PROVE vecs'[i] = latest[i]
    <3>1. \A m \in 1..L : m > 1 => ~Has(writes[m].items, i)
      <4>1. \A m \in 1..L : m > 1 => m \in 2..L
        BY <1>1
      <4> QED BY <2>4, <2>6, <4>1
    <3>2. CASE Has(items, i)
      <4>1. LatestIn(writes, i, 1)
        BY <1>1, <1>17, <2>1 DEF RagInv, L
      <4>2. latest[i] = TextIn(items, i)
        BY <2>1, <3>1, <3>2, <4>1 DEF LatestIn, items, L
      <4> QED BY <1>11, <2>2, <3>2, <4>2
    <3>3. CASE ~Has(items, i)
      <4>1. \A m \in 1..L : ~Has(writes[m].items, i)
        <5>1. \A m \in 1..L : m = 1 \/ m > 1
          BY <1>1
        <5> QED BY <2>1, <3>1, <3>3, <5>1 DEF items
      <4>2. vecs[i] = latest[i]
        BY <1>17, <4>1 DEF RagInv, L
      <4> QED BY <1>11, <2>2, <3>3, <4>2
    <3> QED BY <3>2, <3>3
  <2>7. ASSUME NEW i \in Indexed, NEW k \in 1..Len(writes') PROVE LatestIn(writes', i, k)
    <3>1. LatestIn(writes, i, k + 1)
      BY <1>17, <2>3 DEF RagInv, L
    <3>2. SUFFICES ASSUME Has(writes'[k].items, i), \A m \in 1..Len(writes') : m > k => ~Has(writes'[m].items, i)
                   PROVE  latest[i] = TextIn(writes'[k].items, i)
      BY DEF LatestIn
    <3>3. ASSUME NEW m \in 1..L, m > k + 1 PROVE ~Has(writes[m].items, i)
      <4>1. m \in 2..L /\ m - 1 > k
        BY <1>1, <3>3
      <4> QED BY <2>4, <3>2, <4>1
    <3> QED BY <2>3, <3>1, <3>2, <3>3 DEF LatestIn, L
  <2> QED BY <2>5, <2>6, <2>7
<1>18. ASSUME vectorMode = "tfidf", NEW i \in Indexed, NEW k \in 1..Len(writes') PROVE LatestIn(writes, i, k)'
  <2>1. LatestIn(writes', i, k)
    BY <1>17, <1>18
  <2> QED BY <1>5, <2>1 DEF LatestIn, Has, TextIn
<1>19. EmbedShaped(embedded)'
  BY <1>5, <1>15 DEF EmbedShaped
<1>20. vectorMode = "tfidf" => \A i \in Indexed : (\A k \in 1..Len(writes') : ~Has(writes'[k].items, i)) => vecs'[i] = latest'[i]
  BY <1>5, <1>17
<1> QED BY <1>5, <1>12, <1>13, <1>14, <1>16, <1>17, <1>18, <1>19, <1>20 DEF RagInv, Has

LEMMA DeleteItemInv == ASSUME RagInv, NEW i \in Indexed, Rag!Delete(i) PROVE RagInv'
<1>1. /\ vecs' = [vecs EXCEPT ![i] = NoText]
      /\ latest' = [latest EXCEPT ![i] = IF Rag!InProgress(i) THEN @ ELSE NoText]
      /\ UNCHANGED <<vectorMode, docs, corpusDirty, savedDocs, ftsTexts, writes, embedded>>
  BY DEF Rag!Delete, Rag!VectorDelete
<1>2. vecs \in [Indexed -> Texts \cup {NoText}] /\ latest \in [Indexed -> Texts \cup {NoText}] /\ writes \in Seq(IndexWrite)
  BY DEF RagInv
<1>3. DOMAIN writes = 1..Len(writes)
  BY <1>2, LenProperties
<1>4. Rag!InProgress(i) <=> \E k \in 1..Len(writes) : Has(writes[k].items, i)
  BY <1>3 DEF Rag!InProgress, Has
<1>5. /\ vecs' \in [Indexed -> Texts \cup {NoText}] /\ latest' \in [Indexed -> Texts \cup {NoText}]
      /\ vecs'[i] = NoText /\ \A j \in Indexed : j # i => vecs'[j] = vecs[j] /\ latest'[j] = latest[j]
      /\ latest'[i] = IF Rag!InProgress(i) THEN latest[i] ELSE NoText
  BY <1>1, <1>2
<1> HIDE DEF Has, TextIn
<1>6. ASSUME NEW j \in Indexed, vecs'[j] # NoText PROVE ftsTexts'[j] = vecs'[j]
  BY <1>1, <1>5, <1>6 DEF RagInv
<1>7. ASSUME vectorMode = "tfidf", NEW j \in Indexed, \A k \in 1..Len(writes) : ~Has(writes[k].items, j)
      PROVE  vecs'[j] = latest'[j]
  BY <1>4, <1>5, <1>7 DEF RagInv
<1>8. ASSUME vectorMode = "tfidf", NEW j \in Indexed, NEW k \in 1..Len(writes) PROVE LatestIn(writes, j, k)'
  <2>1. LatestIn(writes, j, k)
    BY <1>8 DEF RagInv
  <2>2. Has(writes[k].items, j) => latest'[j] = latest[j]
    BY <1>4, <1>5
  <2> QED BY <1>1, <2>1, <2>2 DEF LatestIn, Has, TextIn
<1>9. EmbedShaped(embedded)'
  BY <1>1 DEF RagInv, EmbedShaped
<1>10. vectorMode' = "tfidf" =>
         /\ \A k \in 1..Len(writes') : writes'[k].found \subseteq {"tfidf"}
         /\ \A j \in Indexed : (\A k \in 1..Len(writes') : ~Has(writes'[k].items, j)) => vecs'[j] = latest'[j]
         /\ \A j \in Indexed, k \in 1..Len(writes') : LatestIn(writes, j, k)'
  BY <1>1, <1>7, <1>8 DEF RagInv
<1>11. \A k, j : Has(writes[k].items, j)' <=> Has(writes'[k].items, j)
  BY DEF Has
<1>12. /\ vectorMode' \in Rag!Vectors /\ corpusDirty' \in BOOLEAN /\ (~corpusDirty' => savedDocs' = docs')
       /\ ftsTexts' \in [Indexed -> Texts \cup {NoText}] /\ writes' \in Seq(IndexWrite)
  BY <1>1 DEF RagInv
<1> HIDE DEF LatestIn
<1> QED BY <1>5, <1>6, <1>9, <1>10, <1>11, <1>12 DEF RagInv

LEMMA TablesStay ==
    ASSUME RagInv, UNCHANGED <<vectorMode, vecs, ftsTexts, latest, writes>>, EmbedShaped(embedded)',
           corpusDirty' \in BOOLEAN, ~corpusDirty' => savedDocs' = docs'
    PROVE  RagInv'
<1>1. \A k, j : Has(writes[k].items, j)' <=> Has(writes[k].items, j)
  BY DEF Has
<1>2. \A k, j : LatestIn(writes, j, k)' <=> LatestIn(writes, j, k)
  BY DEF LatestIn, Has, TextIn
<1> HIDE DEF Has, LatestIn
<1> QED BY <1>1, <1>2 DEF RagInv

LEMMA QueryInv == ASSUME RagInv, NEW t \in Texts, Rag!Query(t) PROVE RagInv'
<1>1. /\ UNCHANGED <<vectorMode, docs, corpusDirty, savedDocs, vecs, ftsTexts, writes, latest>>
      /\ \E v \in Rag!Made({}) : embedded' = Rag!Cached(t, v)
  BY DEF Rag!Query
<1>2. PICK v \in Rag!Made({}) : embedded' = Rag!Cached(t, v)
  BY <1>1
<1>3. v \in Rag!Vectors /\ (vectorMode = "tfidf" => v = "tfidf")
  BY MadeFacts
<1>4. EmbedShaped(embedded')
  BY <1>2, <1>3, CachedShaped
<1>5. EmbedShaped(embedded)'
  BY <1>1, <1>4 DEF EmbedShaped
<1>6. corpusDirty' \in BOOLEAN /\ (~corpusDirty' => savedDocs' = docs')
  BY <1>1 DEF RagInv
<1> QED BY <1>1, <1>5, <1>6, TablesStay

LEMMA RagRestartInv == ASSUME RagInv, Rag!Restart PROVE RagInv'
<1>1. /\ vectorMode' = vectorMode /\ writes' = <<>> /\ embedded' = <<>> /\ UNCHANGED <<vecs, ftsTexts>> /\ latest' = vecs
      /\ docs' = savedDocs' /\ corpusDirty' = FALSE
  BY DEF Rag!Restart, Rag!LoadState
<1>2. EmbedShaped(embedded)' /\ writes' \in Seq(IndexWrite) /\ Len(writes') = 0
  <2>1. embedded' \in Seq(EmbedEntry) /\ Len(embedded') = 0 /\ writes' \in Seq(IndexWrite) /\ Len(writes') = 0
    BY <1>1, EmptySeq
  <2> QED BY <2>1, RagFacts DEF EmbedShaped
<1>3. \A k : k \notin 1..Len(writes')
  BY <1>2
<1> HIDE DEF LatestIn, Has
<1> QED BY <1>1, <1>2, <1>3 DEF RagInv

LEMMA RagStep == RagInv /\ [Rag!RagNext]_ragVars => RagInv'
<1> SUFFICES ASSUME RagInv, [Rag!RagNext]_ragVars PROVE RagInv'
  OBVIOUS
<1>1. ASSUME UNCHANGED <<vectorMode, vecs, ftsTexts, latest, embedded, writes>>, corpusDirty' \in BOOLEAN,
             ~corpusDirty' => savedDocs' = docs'
      PROVE  RagInv'
  <2>1. EmbedShaped(embedded)'
    BY <1>1 DEF RagInv, EmbedShaped
  <2> QED BY <1>1, <2>1, TablesStay
<1>2. CASE UNCHANGED ragVars
  BY <1>1, <1>2 DEF ragVars, RagInv
<1>3. CASE Rag!Initialize
  BY <1>1, <1>3 DEF Rag!Initialize, RagInv
<1>4. CASE Rag!Save
  BY <1>1, <1>4 DEF Rag!Save, Rag!PersistCorpus, Rag!SaveState, RagInv
<1>5. CASE Rag!Restart
  BY <1>5, RagRestartInv
<1>6. CASE \E items \in ItemLists : Rag!BeginWrite(items)
  BY <1>6, BeginWriteInv
<1>7. CASE \E w \in DOMAIN writes : Rag!EndWrite(w)
  BY <1>7, EndWriteInv
<1>8. CASE \E i \in Indexed : Rag!Delete(i)
  BY <1>8, DeleteItemInv
<1>9. CASE \E t \in Texts : Rag!Query(t)
  BY <1>9, QueryInv
<1> QED BY <1>2, <1>3, <1>4, <1>5, <1>6, <1>7, <1>8, <1>9 DEF Rag!RagNext

LEMMA RagHolds == RagInv => Rag!VectorsHaveTexts /\ Rag!LastCallWins /\ Rag!CorpusSaved
<1> SUFFICES ASSUME RagInv PROVE Rag!VectorsHaveTexts /\ Rag!LastCallWins /\ Rag!CorpusSaved
  OBVIOUS
<1>1. Rag!VectorsHaveTexts /\ Rag!CorpusSaved
  BY DEF RagInv, EmbedShaped, Rag!VectorsHaveTexts, Rag!CorpusSaved
<1>2. DOMAIN writes = 1..Len(writes)
  BY LenProperties DEF RagInv
<1>3. \A i \in Indexed : (\A k \in 1..Len(writes) : ~Has(writes[k].items, i)) <=> ~Rag!InProgress(i)
  BY <1>2 DEF Rag!InProgress, Has
<1>4. Rag!LastCallWins
  BY <1>3 DEF RagInv, Rag!LastCallWins
<1> QED BY <1>1, <1>4

-----------------------------------------------------------------------------
(* The cache in front of the index *)

HotEntry == [key : Queries, results : SUBSET Spaces, cachedAt : Nat]
OpenQuery == [key : Queries, left : Seq(SUBSET Spaces), results : SUBSET Spaces, began : Nat]

\* The hot cache has one answer for a query, and its size.
HotShaped(c) ==
    /\ c \in Seq(HotEntry) /\ Len(c) <= HotCacheSize
    /\ \A i, j \in 1..Len(c) : c[i].key = c[j].key => i = j

\* An answer was earned, and what it holds was there when its query began; a query in
\* progress holds what was there since it began.
AnswerHolds(e) ==
    /\ freq[e.key] >= CacheAfterHits /\ e.results # {} /\ e.cachedAt <= hour
    /\ \A n \in e.results \ present : e.cachedAt <= goneAt[n] + MaxWait
OpenHolds(q) ==
    /\ q.began <= hour /\ hour <= q.began + MaxWait
    /\ \A n \in q.results \ present : q.began <= goneAt[n]

MetaInv ==
    /\ present \subseteq Spaces /\ goneAt \in [Spaces -> Nat] /\ hour \in Nat
    /\ learned \subseteq Spaces /\ freq \in [Queries -> Nat]
    /\ HotShaped(hot) /\ \A i \in 1..Len(hot) : AnswerHolds(hot[i])
    /\ pending \in Seq(OpenQuery) /\ \A p \in 1..Len(pending) : OpenHolds(pending[p])
    /\ \A k \in Queries : freq[k] > 0 => BitsOf[k] \subseteq bloom

LEMMA MetaFacts ==
    /\ Volatile \subseteq Spaces /\ HotCacheSize \in Nat /\ HotCacheSize >= 1
    /\ CacheAfterHits \in Nat /\ TTL \in Nat /\ MaxWait \in Nat
<1>1. Volatile \subseteq Spaces /\ HotCacheSize \in Nat \ {0} /\ CacheAfterHits \in Nat /\ TTL \in Nat /\ MaxWait \in Nat
  BY ServicesAssumption, Zenon
<1> QED BY <1>1

LEMMA MetaInitInv == Rag!MetaInit => MetaInv
<1> SUFFICES ASSUME Rag!MetaInit PROVE MetaInv
  OBVIOUS
<1>1. /\ present = Spaces /\ goneAt = [n \in Spaces |-> 0] /\ hot = <<>> /\ bloom = {} /\ learned = {}
      /\ freq = [k \in Queries |-> 0] /\ pending = <<>> /\ hour = 0
  BY DEF Rag!MetaInit
<1>2. hot \in Seq(HotEntry) /\ Len(hot) = 0 /\ pending \in Seq(OpenQuery) /\ Len(pending) = 0
  BY <1>1, EmptySeq
<1>3. HotShaped(hot)
  BY <1>2, MetaFacts DEF HotShaped
<1>4. \A i : i \notin 1..Len(hot) /\ i \notin 1..Len(pending)
  BY <1>2
<1>5. \A k \in Queries : freq[k] = 0
  BY <1>1
<1> HIDE DEF AnswerHolds, OpenHolds
<1> QED BY <1>1, <1>2, <1>3, <1>4, <1>5 DEF MetaInv

LEMMA HotKept ==
    ASSUME HotShaped(hot), NEW S
    PROVE  LET r == Rag!Kept(hot, S)
           IN /\ HotShaped(r)
              /\ \A i \in 1..Len(r) : r[i] \in S /\ \E k \in 1..Len(hot) : r[i] = hot[k]
              /\ (\E k \in 1..Len(hot) : hot[k] \notin S) => Len(r) < Len(hot)
<1> DEFINE r == Rag!Kept(hot, S)
<1>1. hot \in Seq(HotEntry) /\ Len(hot) \in Nat /\ Len(hot) <= HotCacheSize /\ HotCacheSize \in Nat
  BY MetaFacts, LenProperties DEF HotShaped
<1>2. /\ r \in Seq(HotEntry) /\ Len(r) \in Nat /\ Len(r) <= Len(hot)
      /\ Len(r) = Len(hot) => \A k \in 1..Len(hot) : hot[k] \in S
      /\ \A j \in 1..Len(r) : r[j] \in S /\ \E k \in 1..Len(hot) : r[j] = hot[k]
      /\ \E h : Picks(h, r, hot, S)
  BY <1>1, KeptInIndex
<1> HIDE DEF r
<1>3. PICK h : Picks(h, r, hot, S)
  BY <1>2
<1>4. /\ \A i \in 1..Len(r) : h[i] \in 1..Len(hot) /\ r[i] = hot[h[i]]
      /\ \A i, j \in 1..Len(r) : i < j => h[i] < h[j]
  BY <1>3 DEF Picks
<1>5. ASSUME NEW i \in 1..Len(r), NEW j \in 1..Len(r), r[i].key = r[j].key PROVE i = j
  <2>1. h[i] = h[j]
    BY <1>4, <1>5 DEF HotShaped
  <2> QED BY <1>2, <1>4, <2>1
<1>6. HotShaped(r)
  <2>1. Len(r) <= HotCacheSize
    BY <1>1, <1>2
  <2> QED BY <1>2, <1>5, <2>1 DEF HotShaped
<1>7. (\E k \in 1..Len(hot) : hot[k] \notin S) => Len(r) < Len(hot)
  <2>1. Len(r) \in Nat /\ Len(hot) \in Nat /\ Len(r) <= Len(hot)
    BY <1>1, <1>2
  <2>2. (\E k \in 1..Len(hot) : hot[k] \notin S) => Len(r) # Len(hot)
    BY <1>2, Zenon
  <2> QED BY ONLY <2>1, <2>2
<1> QED BY <1>2, <1>6, <1>7 DEF r

LEMMA HotAppended ==
    ASSUME NEW c, HotShaped(c), Len(c) < HotCacheSize, NEW e \in HotEntry, \A i \in 1..Len(c) : c[i].key # e.key
    PROVE  LET r == Append(c, e) IN HotShaped(r) /\ \A i \in 1..Len(r) : r[i] = e \/ \E k \in 1..Len(c) : r[i] = c[k]
<1> DEFINE r == Append(c, e)
<1>1. c \in Seq(HotEntry) /\ Len(c) \in Nat /\ HotCacheSize \in Nat
  BY MetaFacts, LenProperties DEF HotShaped
<1>2. r \in Seq(HotEntry) /\ Len(r) = Len(c) + 1 /\ (\A i \in 1..Len(c) : r[i] = c[i]) /\ r[Len(c) + 1] = e
  BY <1>1, AppendProperties
<1> HIDE DEF r
<1>3. \A i \in 1..Len(r) : i = Len(c) + 1 \/ i \in 1..Len(c)
  BY <1>1, <1>2
<1>4. ASSUME NEW i \in 1..Len(r), NEW j \in 1..Len(r), r[i].key = r[j].key PROVE i = j
  BY <1>2, <1>3, <1>4 DEF HotShaped
<1>5. HotShaped(r)
  BY <1>1, <1>2, <1>4 DEF HotShaped
<1>6. \A i \in 1..Len(r) : r[i] = e \/ \E k \in 1..Len(c) : r[i] = c[k]
  BY <1>2, <1>3
<1> QED BY <1>5, <1>6 DEF r

LEMMA HotCached ==
    ASSUME HotShaped(hot), NEW e \in HotEntry
    PROVE  LET r == Rag!CacheResults(e)
           IN HotShaped(r) /\ \A i \in 1..Len(r) : r[i] = e \/ \E k \in 1..Len(hot) : r[i] = hot[k]
<1> DEFINE c == IF Len(hot) >= HotCacheSize THEN Tail(hot) ELSE hot
           r == Rag!CacheResults(e)
<1>1. hot \in Seq(HotEntry) /\ Len(hot) \in Nat /\ Len(hot) <= HotCacheSize /\ HotCacheSize \in Nat /\ HotCacheSize >= 1
  BY MetaFacts, LenProperties DEF HotShaped
<1>2. HotShaped(c) /\ Len(c) < HotCacheSize /\ \A i \in 1..Len(c) : \E k \in 1..Len(hot) : c[i] = hot[k]
  <2>1. CASE Len(hot) >= HotCacheSize
    <3> DEFINE t == Tail(hot)
    <3>1. hot # <<>>
      BY <1>1, <2>1, EmptySeq
    <3>2. t \in Seq(HotEntry) /\ Len(t) = Len(hot) - 1 /\ \A i \in 1..Len(t) : t[i] = hot[i + 1]
      BY <1>1, <3>1, HeadTailProperties
    <3>3. c = t
      BY <2>1
    <3> HIDE DEF t, c
    <3>4. \A i \in 1..Len(t) : i + 1 \in 1..Len(hot)
      BY <1>1, <3>2
    <3>5. ASSUME NEW i \in 1..Len(t), NEW j \in 1..Len(t), t[i].key = t[j].key PROVE i = j
      <4>1. i + 1 = j + 1
        BY <3>2, <3>4, <3>5 DEF HotShaped
      <4> QED BY <4>1
    <3>6. HotShaped(t)
      BY <1>1, <3>2, <3>5 DEF HotShaped
    <3> QED BY <1>1, <3>2, <3>3, <3>4, <3>6
  <2>2. CASE ~(Len(hot) >= HotCacheSize)
    <3>1. c = hot
      BY <2>2
    <3> HIDE DEF c
    <3> QED BY <1>1, <2>2, <3>1
  <2> QED BY <2>1, <2>2
<1>3. c \in Seq(HotEntry) /\ Len(c) \in Nat /\ DOMAIN c = 1..Len(c) /\ \A i \in 1..Len(c) : c[i] \in HotEntry
  BY <1>2, LenProperties, ElementOfSeq DEF HotShaped
<1> DEFINE d == [i \in DOMAIN c |-> IF c[i].key = e.key THEN e ELSE c[i]]
<1>4. r = IF \E i \in DOMAIN c : c[i].key = e.key THEN d ELSE Append(c, e)
  BY DEF Rag!CacheResults
<1> HIDE DEF c, r
<1>5. CASE \E i \in DOMAIN c : c[i].key = e.key
  <2>1. r = d
    BY <1>4, <1>5
  <2>2. d \in [1..Len(c) -> HotEntry] /\ \A i \in 1..Len(c) : d[i].key = c[i].key /\ (d[i] = e \/ d[i] = c[i])
    BY <1>3
  <2> HIDE DEF d
  <2>3. d \in Seq(HotEntry) /\ Len(d) = Len(c)
    BY <1>3, <2>2, SeqDef, LenProperties
  <2>4. ASSUME NEW i \in 1..Len(c), NEW j \in 1..Len(c), d[i].key = d[j].key PROVE i = j
    BY <1>2, <2>2, <2>4 DEF HotShaped
  <2>5. HotShaped(d)
    BY <1>2, <2>3, <2>4 DEF HotShaped
  <2>6. \A i \in 1..Len(d) : d[i] = e \/ \E k \in 1..Len(hot) : d[i] = hot[k]
    BY <1>2, <2>2, <2>3
  <2> QED BY <2>1, <2>5, <2>6 DEF r
<1>6. CASE ~\E i \in DOMAIN c : c[i].key = e.key
  <2>1. r = Append(c, e)
    BY <1>4, <1>6
  <2>2. \A i \in 1..Len(c) : c[i].key # e.key
    BY <1>3, <1>6
  <2>3. HotShaped(r) /\ \A i \in 1..Len(r) : r[i] = e \/ \E k \in 1..Len(c) : r[i] = c[k]
    BY <1>2, <2>1, <2>2, HotAppended
  <2>4. \A i \in 1..Len(r) : r[i] = e \/ \E k \in 1..Len(hot) : r[i] = hot[k]
    BY <1>2, <2>3
  <2> QED BY <2>3, <2>4 DEF r
<1> QED BY <1>5, <1>6

\* The answers that are kept stay true while nothing around them changes.
LEMMA HotFiltered ==
    ASSUME MetaInv, NEW S, hot' = Rag!Kept(hot, S), UNCHANGED <<present, goneAt, learned, freq, pending, hour, bloom>>
    PROVE  MetaInv'
<1> DEFINE r == Rag!Kept(hot, S)
<1>1. HotShaped(r) /\ \A i \in 1..Len(r) : \E k \in 1..Len(hot) : r[i] = hot[k]
  BY HotKept DEF MetaInv
<1> HIDE DEF r
<1>2. hot' = r
  BY DEF r
<1>3. ASSUME NEW i \in 1..Len(hot') PROVE AnswerHolds(hot[i])'
  <2>1. AnswerHolds(r[i])
    BY <1>1, <1>2 DEF MetaInv
  <2> QED BY <1>2, <2>1 DEF AnswerHolds
<1>4. HotShaped(hot)'
  BY <1>1, <1>2 DEF HotShaped
<1>5. ASSUME NEW p \in 1..Len(pending) PROVE OpenHolds(pending[p])'
  BY DEF MetaInv, OpenHolds
<1> QED BY <1>3, <1>4, <1>5 DEF MetaInv

LEMMA HitInv == ASSUME MetaInv, NEW k \in Queries, Rag!QueryHot(k) PROVE MetaInv'
<1> DEFINE e == Rag!Entry(k)
           S == {x \in Rag!ToSet(hot) : x.key # e.key}
           c == Rag!Kept(hot, S)
<1>1. hot' = Append(c, e) /\ UNCHANGED <<present, goneAt, bloom, learned, freq, pending, hour>>
  BY DEF Rag!QueryHot, Rag!Hit, Rag!Others
<1>2. hot \in Seq(HotEntry) /\ Len(hot) \in Nat /\ DOMAIN hot = 1..Len(hot) /\ \A i \in 1..Len(hot) : hot[i] \in HotEntry
  BY LenProperties, ElementOfSeq DEF MetaInv, HotShaped
<1>3. e \in Rag!ToSet(hot) /\ e.key = k
  BY DEF Rag!QueryHot, Rag!Holds, Rag!Entry
<1> HIDE DEF e
<1>4. PICK j \in 1..Len(hot) : e = hot[j]
  BY <1>2, <1>3 DEF Rag!ToSet
<1>5. hot[j] \notin S /\ \A x \in S : x.key # e.key
  BY <1>4
<1> HIDE DEF S
<1>6. /\ HotShaped(c) /\ Len(c) < Len(hot)
      /\ \A i \in 1..Len(c) : c[i] \in S /\ \E m \in 1..Len(hot) : c[i] = hot[m]
  BY <1>5, HotKept DEF MetaInv
<1> HIDE DEF c
<1>7. Len(c) < HotCacheSize /\ \A i \in 1..Len(c) : c[i].key # e.key
  <2>1. Len(c) \in Nat /\ Len(hot) <= HotCacheSize /\ HotCacheSize \in Nat
    BY <1>6, MetaFacts, LenProperties DEF MetaInv, HotShaped
  <2> QED BY <1>2, <1>5, <1>6, <2>1
<1> DEFINE r == Append(c, e)
<1>8. HotShaped(r) /\ \A i \in 1..Len(r) : r[i] = e \/ \E m \in 1..Len(c) : r[i] = c[m]
  BY <1>2, <1>4, <1>6, <1>7, HotAppended
<1> HIDE DEF r
<1>9. hot' = r
  BY <1>1 DEF r
<1>10. ASSUME NEW i \in 1..Len(hot') PROVE AnswerHolds(hot[i])'
  <2>1. \E m \in 1..Len(hot) : r[i] = hot[m]
    BY <1>4, <1>6, <1>8, <1>9
  <2>2. AnswerHolds(r[i])
    BY <2>1 DEF MetaInv
  <2> QED BY <1>1, <1>9, <2>2 DEF AnswerHolds
<1>11. HotShaped(hot)'
  BY <1>8, <1>9 DEF HotShaped
<1>12. ASSUME NEW p \in 1..Len(pending) PROVE OpenHolds(pending[p])'
  BY <1>1 DEF MetaInv, OpenHolds
<1> QED BY <1>1, <1>10, <1>11, <1>12 DEF MetaInv

\* What is searched next is a sequence of sets of namespaces.
LEMMA SearchesTyped == ASSUME MetaInv, NEW k PROVE Rag!Searches(k) \subseteq Seq(SUBSET Spaces)
<1>1. <<Spaces>> \in Seq(SUBSET Spaces)
  OBVIOUS
<1>2. ASSUME NEW n \in 1..Rag!Cardinality(learned), NEW s \in [1..n -> {{x} : x \in learned}]
      PROVE  s \in Seq(SUBSET Spaces)
  <2>1. {{x} : x \in learned} \subseteq SUBSET Spaces
    BY DEF MetaInv
  <2>2. s \in [1..n -> SUBSET Spaces] /\ n \in Nat
    BY <2>1
  <2> QED BY <2>2, SeqDef
<1> QED BY <1>1, <1>2 DEF Rag!Searches

LEMMA QueryIndexInv == ASSUME MetaInv, NEW k \in Queries, Rag!QueryIndex(k) PROVE MetaInv'
<1>1. UNCHANGED <<present, goneAt, hot, bloom, learned, freq, hour>>
  BY DEF Rag!QueryIndex
<1>2. PICK left \in Rag!Searches(k) : pending' = Append(pending, [key |-> k, left |-> left, results |-> {}, began |-> hour])
  BY DEF Rag!QueryIndex
<1> DEFINE q == [key |-> k, left |-> left, results |-> {}, began |-> hour]
           L == Len(pending)
<1>3. q \in OpenQuery
  BY SearchesTyped DEF MetaInv, OpenQuery
<1>4. OpenHolds(q)
  BY MetaFacts DEF MetaInv, OpenHolds
<1>5. pending \in Seq(OpenQuery) /\ L \in Nat
  BY LenProperties DEF MetaInv
<1> HIDE DEF q, L
<1>6. /\ pending' \in Seq(OpenQuery) /\ Len(pending') = L + 1 /\ (\A p \in 1..L : pending'[p] = pending[p])
      /\ pending'[L + 1] = q
  BY <1>2, <1>3, <1>5, AppendProperties DEF q, L
<1>7. ASSUME NEW p \in 1..Len(pending') PROVE OpenHolds(pending[p])'
  <2>1. p = L + 1 \/ p \in 1..L
    BY <1>5, <1>6
  <2>2. OpenHolds(pending'[p])
    BY <1>4, <1>6, <2>1 DEF MetaInv, L
  <2> QED BY <1>1, <2>2 DEF OpenHolds
<1>8. \A i \in 1..Len(hot) : AnswerHolds(hot[i])'
  BY <1>1 DEF MetaInv, AnswerHolds
<1>9. HotShaped(hot)'
  BY <1>1 DEF MetaInv, HotShaped
<1> QED BY <1>1, <1>6, <1>7, <1>8, <1>9 DEF MetaInv

LEMMA ChangeInv == ASSUME MetaInv, NEW n \in Volatile, Rag!Change(n) PROVE MetaInv'
<1>1. /\ present' = (IF n \in present THEN present \ {n} ELSE present \cup {n})
      /\ goneAt' = [goneAt EXCEPT ![n] = IF n \in present THEN hour ELSE 0]
      /\ UNCHANGED <<hot, bloom, learned, freq, pending, hour>>
  BY DEF Rag!Change
<1>2. present \subseteq Spaces /\ goneAt \in [Spaces -> Nat] /\ hour \in Nat /\ n \in Spaces
  BY MetaFacts DEF MetaInv
<1>3. present' \subseteq Spaces /\ goneAt' \in [Spaces -> Nat]
  BY <1>1, <1>2
<1>4. \A m \in Spaces \ present' : (m \notin present /\ goneAt'[m] = goneAt[m]) \/ goneAt'[m] = hour
  BY <1>1, <1>2
<1>5. ASSUME NEW i \in 1..Len(hot) PROVE AnswerHolds(hot[i])'
  <2>1. AnswerHolds(hot[i]) /\ hot[i] \in HotEntry
    BY ElementOfSeq DEF MetaInv, HotShaped
  <2>2. hot[i].results \subseteq Spaces /\ hot[i].cachedAt \in Nat
    BY <2>1 DEF HotEntry
  <2>3. ASSUME NEW m \in hot[i].results \ present' PROVE hot[i].cachedAt <= goneAt'[m] + MaxWait
    <3>1. m \in Spaces \ present' /\ goneAt[m] \in Nat
      BY <1>2, <2>2
    <3>2. CASE m \notin present /\ goneAt'[m] = goneAt[m]
      BY <2>1, <3>2 DEF AnswerHolds
    <3>3. CASE goneAt'[m] = hour
      BY <1>2, <2>1, <2>2, <3>3, MetaFacts DEF AnswerHolds
    <3> QED BY <1>4, <3>1, <3>2, <3>3
  <2> QED BY <1>1, <2>1, <2>3 DEF AnswerHolds
<1>6. ASSUME NEW p \in 1..Len(pending) PROVE OpenHolds(pending[p])'
  <2>1. OpenHolds(pending[p]) /\ pending[p] \in OpenQuery
    BY ElementOfSeq DEF MetaInv
  <2>2. pending[p].results \subseteq Spaces /\ pending[p].began \in Nat
    BY <2>1 DEF OpenQuery
  <2>3. ASSUME NEW m \in pending[p].results \ present' PROVE pending[p].began <= goneAt'[m]
    <3>1. m \in Spaces \ present'
      BY <2>2
    <3>2. CASE m \notin present /\ goneAt'[m] = goneAt[m]
      BY <2>1, <3>2 DEF OpenHolds
    <3>3. CASE goneAt'[m] = hour
      BY <2>1, <3>3 DEF OpenHolds
    <3> QED BY <1>4, <3>1, <3>2, <3>3
  <2> QED BY <1>1, <2>1, <2>3 DEF OpenHolds
<1>7. HotShaped(hot)'
  BY <1>1 DEF MetaInv, HotShaped
<1> QED BY <1>1, <1>3, <1>5, <1>6, <1>7 DEF MetaInv

LEMMA ClearInv == ASSUME MetaInv, Rag!Clear PROVE MetaInv'
<1>1. /\ hot' = <<>> /\ bloom' = {} /\ freq' = [k \in Queries |-> 0] /\ UNCHANGED <<present, goneAt, learned, pending, hour>>
  BY DEF Rag!Clear, Rag!Forget
<1>2. hot' \in Seq(HotEntry) /\ Len(hot') = 0
  BY <1>1, EmptySeq
<1>3. HotShaped(hot)'
  BY <1>2, MetaFacts DEF HotShaped
<1>4. \A i : i \notin 1..Len(hot')
  BY <1>2
<1>5. \A p \in 1..Len(pending) : OpenHolds(pending[p])'
  BY <1>1 DEF MetaInv, OpenHolds
<1>6. freq' \in [Queries -> Nat] /\ \A k \in Queries : freq'[k] = 0
  BY <1>1
<1> HIDE DEF AnswerHolds
<1> QED BY <1>1, <1>3, <1>4, <1>5, <1>6 DEF MetaInv

LEMMA HourInv == ASSUME MetaInv, Rag!Tick PROVE MetaInv'
<1>1. /\ hour' = hour + 1 /\ UNCHANGED <<present, goneAt, hot, bloom, learned, freq, pending>>
      /\ \A q \in Rag!ToSet(pending) : hour - q.began < MaxWait
  BY DEF Rag!Tick
<1>2. pending \in Seq(OpenQuery) /\ hour \in Nat /\ DOMAIN pending = 1..Len(pending)
  BY LenProperties DEF MetaInv
<1>3. ASSUME NEW p \in 1..Len(pending) PROVE OpenHolds(pending[p])'
  <2>1. pending[p] \in OpenQuery /\ OpenHolds(pending[p]) /\ pending[p] \in Rag!ToSet(pending)
    BY <1>2, ElementOfSeq DEF MetaInv, Rag!ToSet
  <2>2. pending[p].began \in Nat /\ hour - pending[p].began < MaxWait
    BY <1>1, <2>1 DEF OpenQuery
  <2> QED BY <1>1, <1>2, <2>1, <2>2, MetaFacts DEF OpenHolds
<1>4. ASSUME NEW i \in 1..Len(hot) PROVE AnswerHolds(hot[i])'
  <2>1. AnswerHolds(hot[i]) /\ hot[i].cachedAt \in Nat
    <3>1. AnswerHolds(hot[i]) /\ hot \in Seq(HotEntry)
      BY DEF MetaInv, HotShaped
    <3>2. hot[i] \in HotEntry
      BY <3>1, ElementOfSeq
    <3> QED BY <3>1, <3>2 DEF HotEntry
  <2> QED BY <1>1, <1>2, <2>1 DEF AnswerHolds
<1>5. HotShaped(hot)'
  BY <1>1 DEF MetaInv, HotShaped
<1> QED BY <1>1, <1>2, <1>3, <1>4, <1>5 DEF MetaInv

\* One query in progress is replaced.
LEMMA EntrySet ==
    ASSUME NEW S, NEW s \in Seq(S), NEW i \in 1..Len(s), NEW d \in S, NEW r, r = [s EXCEPT ![i] = d]
    PROVE  r \in Seq(S) /\ Len(r) = Len(s) /\ r[i] = d /\ \A m \in 1..Len(s) : m # i => r[m] = s[m]
BY ExceptSeq

\* One search ends, and the query goes on;
LEMMA SearchedOnInv ==
    ASSUME MetaInv, NEW p \in 1..Len(pending), NEW R, Len(pending[p].left) > 1,
           R = pending[p].results \cup (Head(pending[p].left) \cap present),
           pending' = [pending EXCEPT ![p].left = Tail(@), ![p].results = R],
           UNCHANGED <<present, goneAt, hour, hot, bloom, learned, freq>>
    PROVE  MetaInv'
<1> DEFINE q == pending[p]
           new == [q EXCEPT !.left = Tail(q.left), !.results = R]
<1>1. pending \in Seq(OpenQuery) /\ DOMAIN pending = 1..Len(pending) /\ q \in OpenQuery /\ OpenHolds(q)
      /\ Len(pending) \in Nat /\ present \subseteq Spaces
  BY LenProperties, ElementOfSeq DEF MetaInv
<1>2. Tail(q.left) \in Seq(SUBSET Spaces)
  <2>1. q.left \in Seq(SUBSET Spaces) /\ q.left # <<>>
    BY <1>1, EmptySeq DEF OpenQuery
  <2> QED BY <2>1, HeadTailProperties
<1>3. R \subseteq Spaces /\ R \ present \subseteq q.results \ present
  BY <1>1 DEF OpenQuery
<1>4. pending' = [pending EXCEPT ![p] = new]
  <2>1. p \in DOMAIN pending
    BY <1>1
  <2> QED BY <2>1
<1> HIDE DEF q
<1>5. new \in OpenQuery /\ new.began = q.began /\ new.results = R
  BY <1>1, <1>2, <1>3 DEF OpenQuery
<1> HIDE DEF new
<1>6. /\ pending' \in Seq(OpenQuery) /\ Len(pending') = Len(pending) /\ pending'[p] = new
      /\ \A m \in 1..Len(pending) : m # p => pending'[m] = pending[m]
  <2>1. pending \in Seq(OpenQuery) /\ p \in 1..Len(pending) /\ new \in OpenQuery
    BY <1>1, <1>5
  <2>2. PICK s, d, r : s = pending /\ d = new /\ r = pending'
    OBVIOUS
  <2>3. s \in Seq(OpenQuery) /\ p \in 1..Len(s) /\ d \in OpenQuery /\ r = [s EXCEPT ![p] = d]
    BY <1>4, <2>1, <2>2
  <2>4. r \in Seq(OpenQuery) /\ Len(r) = Len(s) /\ r[p] = d /\ \A m \in 1..Len(s) : m # p => r[m] = s[m]
    BY ONLY <2>3, EntrySet
  <2> QED BY <2>2, <2>4
<1>7. ASSUME NEW m \in 1..Len(pending) PROVE OpenHolds(pending[m])'
  <2>1. CASE m = p
    <3>1. \A n \in new.results \ present : n \in q.results \ present
      BY <1>3, <1>5
    <3>2. OpenHolds(new)
      BY <1>1, <1>5, <3>1 DEF OpenHolds
    <3> QED BY <1>6, <2>1, <3>2 DEF OpenHolds
  <2>2. CASE m # p
    <3>1. OpenHolds(pending[m])
      BY DEF MetaInv
    <3> QED BY <1>6, <2>2, <3>1 DEF OpenHolds
  <2> QED BY <2>1, <2>2
<1>8. \A i \in 1..Len(hot) : AnswerHolds(hot[i])'
  BY DEF MetaInv, AnswerHolds
<1>9. HotShaped(hot)'
  BY DEF MetaInv, HotShaped
<1> QED BY <1>6, <1>7, <1>8, <1>9 DEF MetaInv

\* after the last one its answer is counted and may be kept.
LEMMA SearchedInv ==
    ASSUME MetaInv, NEW p \in 1..Len(pending), NEW R, NEW hits,
           R = pending[p].results \cup (Head(pending[p].left) \cap present),
           hits = IF freq[pending[p].key] = CacheAfterHits THEN CacheAfterHits ELSE freq[pending[p].key] + 1,
           pending' = Rag!RemoveAt(pending, p), Rag!AddToFilter(pending[p].key), Rag!Record(R),
           freq' = [freq EXCEPT ![pending[p].key] = hits],
           hot' = IF hits >= CacheAfterHits /\ R # {}
                  THEN Rag!CacheResults([key |-> pending[p].key, results |-> R, cachedAt |-> hour]) ELSE hot,
           UNCHANGED <<present, goneAt, hour>>
    PROVE  MetaInv'
<1> DEFINE q == pending[p]
           e == [key |-> q.key, results |-> R, cachedAt |-> hour]
<1>1. /\ pending \in Seq(OpenQuery) /\ q \in OpenQuery /\ OpenHolds(q) /\ Len(pending) \in Nat
      /\ present \subseteq Spaces /\ hour \in Nat /\ freq \in [Queries -> Nat] /\ learned \subseteq Spaces
      /\ goneAt \in [Spaces -> Nat]
  BY LenProperties, ElementOfSeq DEF MetaInv
<1> HIDE DEF q
<1>2. q.key \in Queries /\ q.began \in Nat /\ q.results \subseteq Spaces
  BY <1>1 DEF OpenQuery
<1>3. R \subseteq Spaces /\ R \ present \subseteq q.results
  BY <1>1, <1>2 DEF q
<1>4. /\ freq' \in [Queries -> Nat] /\ freq'[q.key] = hits /\ hits >= freq[q.key] /\ hits \in Nat
      /\ \A k \in Queries : freq'[k] >= freq[k] /\ (k # q.key => freq'[k] = freq[k])
  <2>1. hits \in Nat /\ hits >= freq[q.key]
    <3>1. hits = (IF freq[q.key] = CacheAfterHits THEN CacheAfterHits ELSE freq[q.key] + 1) /\ freq[q.key] \in Nat
      BY <1>1, <1>2 DEF q
    <3> QED BY <3>1, MetaFacts
  <2>2. freq' = [freq EXCEPT ![q.key] = hits]
    BY DEF q
  <2>3. freq' \in [Queries -> Nat] /\ freq'[q.key] = hits /\ \A k \in Queries : k # q.key => freq'[k] = freq[k]
    <3>1. freq \in [Queries -> Nat] /\ q.key \in Queries /\ hits \in Nat
      BY <1>1, <1>2, <2>1
    <3> QED BY ONLY <2>2, <3>1
  <2>4. ASSUME NEW k \in Queries PROVE freq'[k] >= freq[k]
    <3>1. freq[k] \in Nat
      BY <1>1
    <3>2. CASE k = q.key
      BY <2>1, <2>3, <3>2
    <3>3. CASE k # q.key
      BY <2>3, <3>1, <3>3
    <3> QED BY <3>2, <3>3
  <2> QED BY <2>1, <2>3, <2>4
<1>5. learned' \subseteq Spaces
  BY <1>1, <1>3 DEF Rag!Record
<1>6. \A k \in Queries : freq'[k] > 0 => BitsOf[k] \subseteq bloom'
  <2>1. bloom' = bloom \cup BitsOf[q.key]
    BY DEF Rag!AddToFilter, q
  <2>2. \A k \in Queries : freq[k] > 0 => BitsOf[k] \subseteq bloom
    BY DEF MetaInv
  <2> QED BY <1>4, <2>1, <2>2
<1>7. /\ pending' \in Seq(OpenQuery)
      /\ \A m \in 1..Len(pending') : \E k \in 1..Len(pending) : pending'[m] = pending[k]
  <2>1. /\ pending' \in Seq(OpenQuery) /\ Len(pending') = Len(pending) - 1
        /\ \A m \in 1..Len(pending') : pending'[m] = IF m < p THEN pending[m] ELSE pending[m + 1]
    BY <1>1, EntryRemoved
  <2>2. \A m \in 1..Len(pending') : m \in 1..Len(pending) /\ m + 1 \in 1..Len(pending)
    BY <1>1, <2>1
  <2> QED BY <2>1, <2>2
<1>8. ASSUME NEW m \in 1..Len(pending') PROVE OpenHolds(pending[m])'
  <2>1. OpenHolds(pending'[m])
    BY <1>7 DEF MetaInv
  <2> QED BY <2>1 DEF OpenHolds
<1>9. HotShaped(hot) /\ \A i \in 1..Len(hot) : hot[i] \in HotEntry /\ AnswerHolds(hot[i])
  BY ElementOfSeq DEF MetaInv, HotShaped
<1>10. ASSUME NEW x \in HotEntry, AnswerHolds(x) PROVE AnswerHolds(x)'
  <2>1. x.key \in Queries /\ freq[x.key] \in Nat /\ freq'[x.key] \in Nat /\ freq'[x.key] >= freq[x.key]
    BY <1>1, <1>4 DEF HotEntry
  <2> QED BY <1>10, <2>1, MetaFacts DEF AnswerHolds
<1>11. CASE hits >= CacheAfterHits /\ R # {}
  <2>1. e \in HotEntry /\ e.key = q.key /\ e.results = R /\ e.cachedAt = hour
    BY <1>1, <1>2, <1>3 DEF HotEntry
  <2>2. hot' = Rag!CacheResults(e)
    BY <1>11 DEF q
  <2> HIDE DEF e
  <2>3. PICK x \in HotEntry : x = e
    BY <2>1
  <2>4. AnswerHolds(x)'
    <3>1. ASSUME NEW n \in x.results \ present PROVE x.cachedAt <= goneAt[n] + MaxWait
      <4>1. n \in q.results \ present /\ n \in Spaces /\ goneAt[n] \in Nat
        BY <1>1, <1>3, <2>1, <2>3
      <4>2. q.began <= goneAt[n] /\ hour <= q.began + MaxWait
        BY <1>1, <4>1 DEF OpenHolds
      <4> QED BY <1>1, <1>2, <2>1, <2>3, <4>1, <4>2, MetaFacts
    <3>2. hour' = hour /\ present' = present /\ goneAt' = goneAt
      OBVIOUS
    <3>3. x.key = q.key /\ x.results = R /\ x.cachedAt = hour
      BY <2>1, <2>3
    <3> QED BY <1>1, <1>4, <1>11, <3>1, <3>2, <3>3 DEF AnswerHolds
  <2> DEFINE r == Rag!CacheResults(e)
  <2>8. HotShaped(r) /\ \A i \in 1..Len(r) : r[i] = e \/ \E k \in 1..Len(hot) : r[i] = hot[k]
    BY <1>9, <2>1, HotCached
  <2> HIDE DEF r
  <2>5. hot' = r
    BY <2>2 DEF r
  <2>6. ASSUME NEW i \in 1..Len(hot') PROVE AnswerHolds(hot[i])'
    <3>1. CASE r[i] = e
      BY <2>3, <2>4, <2>5, <3>1 DEF AnswerHolds
    <3>2. CASE r[i] # e
      <4>1. PICK y \in HotEntry : y = r[i] /\ AnswerHolds(y)
        BY <1>9, <2>8, <2>5, <3>2
      <4>2. AnswerHolds(y)'
        BY <1>10, <4>1
      <4> QED BY <2>5, <4>1, <4>2 DEF AnswerHolds
    <3> QED BY <3>1, <3>2
  <2>7. HotShaped(hot)'
    BY <2>8, <2>5 DEF HotShaped
  <2> QED BY <1>1, <1>4, <1>5, <1>6, <1>7, <1>8, <2>6, <2>7 DEF MetaInv
<1>12. CASE ~(hits >= CacheAfterHits /\ R # {})
  <2>1. hot' = hot
    BY <1>12
  <2>2. ASSUME NEW i \in 1..Len(hot') PROVE AnswerHolds(hot[i])'
    <3>1. PICK x \in HotEntry : x = hot[i] /\ AnswerHolds(x)
      BY <1>9, <2>1
    <3>2. AnswerHolds(x)'
      BY <1>10, <3>1
    <3> QED BY <2>1, <3>1, <3>2 DEF AnswerHolds
  <2>3. HotShaped(hot)'
    BY <1>9, <2>1 DEF HotShaped
  <2> QED BY <1>1, <1>4, <1>5, <1>6, <1>7, <1>8, <2>2, <2>3 DEF MetaInv
<1> QED BY <1>11, <1>12

LEMMA MetaStep == MetaInv /\ [Rag!MetaNext]_metaVars => MetaInv'
<1> SUFFICES ASSUME MetaInv, [Rag!MetaNext]_metaVars PROVE MetaInv'
  OBVIOUS
<1>1. CASE UNCHANGED metaVars
  BY <1>1 DEF metaVars, MetaInv, HotShaped, AnswerHolds, OpenHolds
<1>2. CASE \E k \in Queries : Rag!QueryHot(k) \/ Rag!QueryIndex(k)
  BY <1>2, HitInv, QueryIndexInv
<1>3. ASSUME NEW p \in DOMAIN pending, Rag!Search(p) PROVE MetaInv'
  <2>1. p \in 1..Len(pending)
    BY LenProperties DEF MetaInv
  <2> DEFINE R == pending[p].results \cup (Head(pending[p].left) \cap present)
             hits == IF freq[pending[p].key] = CacheAfterHits THEN CacheAfterHits ELSE freq[pending[p].key] + 1
  <2>2. UNCHANGED <<present, goneAt, hour>>
    BY <1>3 DEF Rag!Search
  <2>3. \/ /\ Len(pending[p].left) > 1 /\ pending' = [pending EXCEPT ![p].left = Tail(@), ![p].results = R]
           /\ UNCHANGED <<hot, bloom, learned, freq>>
        \/ /\ pending' = Rag!RemoveAt(pending, p) /\ Rag!AddToFilter(pending[p].key) /\ Rag!Record(R)
           /\ freq' = [freq EXCEPT ![pending[p].key] = hits]
           /\ hot' = IF hits >= CacheAfterHits /\ R # {}
                     THEN Rag!CacheResults([key |-> pending[p].key, results |-> R, cachedAt |-> hour]) ELSE hot
    BY <1>3, Zenon DEF Rag!Search
  <2>4. PICK r, h : r = R /\ h = hits
    OBVIOUS
  <2> QED BY <2>1, <2>2, <2>3, <2>4, SearchedOnInv, SearchedInv
<1>4. CASE \E n \in Volatile : Rag!Invalidate(n)
  BY <1>4, HotFiltered DEF Rag!Invalidate
<1>5. CASE \E n \in Volatile : Rag!Change(n)
  BY <1>5, ChangeInv
<1>6. CASE Rag!Evict
  BY <1>6, HotFiltered DEF Rag!Evict
<1>7. CASE Rag!Clear
  BY <1>7, ClearInv
<1>8. CASE Rag!Tick
  BY <1>8, HourInv
<1> QED BY <1>1, <1>2, <1>3, <1>4, <1>5, <1>6, <1>7, <1>8 DEF Rag!MetaNext

LEMMA MetaHolds == MetaInv => Rag!StaleAtMostTTL /\ Rag!FilterComplete /\ Rag!HotEarned
<1> SUFFICES ASSUME MetaInv PROVE Rag!StaleAtMostTTL /\ Rag!FilterComplete /\ Rag!HotEarned
  OBVIOUS
<1>1. /\ hot \in Seq(HotEntry) /\ DOMAIN hot = 1..Len(hot) /\ \A i \in 1..Len(hot) : hot[i] \in HotEntry
      /\ goneAt \in [Spaces -> Nat] /\ hour \in Nat
  BY LenProperties, ElementOfSeq DEF MetaInv, HotShaped
<1>2. ASSUME NEW e \in Rag!ToSet(hot), Rag!Fresh(e), NEW n \in e.results \ present PROVE hour - goneAt[n] < TTL + MaxWait
  <2>1. PICK i \in 1..Len(hot) : e = hot[i]
    BY <1>1 DEF Rag!ToSet
  <2>2. e.cachedAt \in Nat /\ n \in Spaces /\ goneAt[n] \in Nat /\ e.cachedAt <= goneAt[n] + MaxWait
    <3>1. e \in HotEntry /\ AnswerHolds(e)
      BY <1>1, <2>1 DEF MetaInv
    <3> QED BY <1>1, <3>1 DEF HotEntry, AnswerHolds
  <2>3. hour - e.cachedAt < TTL
    BY <1>2 DEF Rag!Fresh
  <2> QED BY <1>1, <2>2, <2>3, MetaFacts
<1>3. Rag!FilterComplete
  BY DEF MetaInv, Rag!FilterComplete, Rag!MayContain
<1>4. \A e \in Rag!ToSet(hot) : freq[e.key] >= CacheAfterHits /\ e.results # {}
  BY <1>1 DEF Rag!ToSet, MetaInv, AnswerHolds
<1>5. Rag!HotEarned
  BY <1>1, <1>4 DEF MetaInv, HotShaped, Rag!HotEarned
<1> QED BY <1>2, <1>3, <1>5 DEF Rag!StaleAtMostTTL

-----------------------------------------------------------------------------
(* The theorems: each part keeps its invariant while it moves, and what has not moved
   keeps it as well. *)

CoreInv ==
    /\ Of("escalation", EscInv)
    /\ Of("providers", ProvidersInv)
    /\ Of("batches", BatchInv)
    /\ Of("fleet", FleetInv)
    /\ Of("reactions", ReactInv)
    /\ Of("powers", PowersInv)
    /\ Of("router", RouterInv)
    /\ Of("rag", RagInv)
    /\ Of("ragmeta", MetaInv)

LEMMA CoreInitInv == CoreInit => CoreInv
  BY EscInitInv, ProvidersInitInv, BatchInitInv, FleetInitInv, ReactInitInv, PowersInitInv,
     RouterInitInv, RagInitInv, MetaInitInv
  DEF CoreInit, CoreInv, Of

LEMMA CoreStep == CoreInv /\ [CoreNext]_coreVars => CoreInv'
<1> SUFFICES ASSUME CoreInv, [CoreNext]_coreVars PROVE CoreInv'
  OBVIOUS
<1>1. /\ part' = part
      /\ part = "escalation" => [EscNext]_escVars
      /\ part = "providers" => [Providers!ProvidersNext]_providerVars
      /\ part = "batches" => [Batches!BatchNext]_batchVars
      /\ part = "fleet" => [Fleet!FleetNext]_fleetVars
      /\ part = "reactions" => [Reactions!ReactNext]_reactVars
      /\ part = "powers" => [Installer!PowersNext]_powerVars
      /\ part = "router" => [Router!RouterNext]_routerVars
      /\ part = "rag" => [Rag!RagNext]_ragVars
      /\ part = "ragmeta" => [Rag!MetaNext]_metaVars
  <2>1. CASE UNCHANGED coreVars
    BY <2>1 DEF coreVars
  <2>2. CASE CoreNext
    BY <2>2 DEF CoreNext, CoreOthers
  <2> QED BY <2>1, <2>2
<1>2. part = "escalation" => EscInv'
  BY <1>1, EscStep DEF CoreInv, Of
<1>3. part = "providers" => ProvidersInv'
  BY <1>1, ProvidersStep DEF CoreInv, Of
<1>4. part = "batches" => BatchInv'
  BY <1>1, BatchStep DEF CoreInv, Of
<1>5. part = "fleet" => FleetInv'
  BY <1>1, FleetStep DEF CoreInv, Of
<1>6. part = "reactions" => ReactInv'
  BY <1>1, ReactStep DEF CoreInv, Of
<1>7. part = "powers" => PowersInv'
  BY <1>1, PowersStep DEF CoreInv, Of
<1>8. part = "router" => RouterInv'
  BY <1>1, RouterStep DEF CoreInv, Of
<1>9. part = "rag" => RagInv'
  BY <1>1, RagStep DEF CoreInv, Of
<1>10. part = "ragmeta" => MetaInv'
  BY <1>1, MetaStep DEF CoreInv, Of
<1> QED
  BY <1>1, <1>2, <1>3, <1>4, <1>5, <1>6, <1>7, <1>8, <1>9, <1>10 DEF CoreInv, Of

\* The invariants of the parts hold together.
LEMMA CoreAlways == CoreSpec => []CoreInv
<1> QED BY CoreInitInv, CoreStep, PTL DEF CoreSpec

\* The circuit breaker of EscalationManager survives restarts and holds its rate, for any agents,
\* chain, threshold and window: an agent whose record is complete is not routed more than the
\* threshold within a window, and an open breaker is open after a restart.
THEOREM BreakerHoldsItsRate == CoreSpec => []BreakersHold
<1>1. CoreInv => BreakersHold
  BY EscHolds DEF CoreInv, BreakersHold, Of
<1> QED BY <1>1, CoreAlways, PTL

\* The registry, the rows and the files of the fleet agree and keep to maxAgents, and the
\* installer's rows and directories agree, for any agents, names, overlapping calls, failures of
\* the disk and crashes.
THEOREM RowsAndFilesAgree == CoreSpec => []FleetConsistent
<1>1. CoreInv => FleetConsistent
  BY FleetHolds, PowersHolds DEF CoreInv, FleetConsistent, Of
<1> QED BY <1>1, CoreAlways, PTL

\* Reactions fire no more often than their limits, a request tries every provider it may and each
\* no more than once for a model, and a batch retries within its limit and keeps the order of the
\* results, for any rules, signals, chains, providers, items and bounds.
THEOREM EffortIsLimited == CoreSpec => []EffortLimited
<1>1. CoreInv => EffortLimited
  BY ReactHolds, ProvidersHolds, BatchHolds DEF CoreInv, EffortLimited, Of
<1> QED BY <1>1, CoreAlways, PTL

\* The router's cache has one entry for a key, of the active context and of an agent that is in
\* it unless a context changed while the request waited; the index holds the text of the call that
\* began last and every vector with its text, and the corpus is saved or known to be unsaved; and
\* the cache in front of the index names nothing that is gone for longer than the TTL, forgets no
\* query it counts and keeps only answers that were earned, for any agents, contexts, requests,
\* texts, namespaces and bounds.
THEOREM CachesAreCurrent == CoreSpec => []AgentsCurrent
<1>1. CoreInv => AgentsCurrent
  BY RouterHolds, RagHolds, MetaHolds DEF CoreInv, AgentsCurrent, Of
<1> QED BY <1>1, CoreAlways, PTL
=============================================================================
