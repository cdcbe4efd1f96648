------------------------------ MODULE Reactions ------------------------------
(***************************************************************************)
(* ReactionEngine (core/reaction-engine.ts): every message goes through    *)
(* all rules, one after the other, waiting for the handler of each that    *)
(* fires; other messages, rules and stop() come in between.                *)
(***************************************************************************)
EXTENDS Naturals, Sequences, FiniteSets

CONSTANTS
    RuleCount,            \* the rules are 1..RuleCount, in the order they were added
    CooldownMs, MaxFires, \* of each of them
    Signals, MaxInstant   \* bound: messages; and the clock

VARIABLES
    subscribed,           \* running, with a subscription to "*"
    ruleEnabled,          \* rule.enabled
    lastFiredAt, fireCount,
    position,             \* message -> the rule it is at: 0 before, RuleCount + 1 after
    awaiting,             \* messages waiting for the handler of that rule
    instant,
    fires                 \* history: times each rule fired since the counters were reset

reactVars == <<subscribed, ruleEnabled, lastFiredAt, fireCount, position, awaiting, instant, fires>>

Rules == 1..RuleCount

ReactTypeOK ==
    /\ subscribed \in BOOLEAN /\ ruleEnabled \in [Rules -> BOOLEAN]
    /\ lastFiredAt \in [Rules -> 0..MaxInstant] /\ fireCount \in [Rules -> 0..Cardinality(Signals)]
    /\ position \in [Signals -> 0..RuleCount + 1] /\ awaiting \subseteq Signals
    /\ instant \in 1..MaxInstant /\ fires \in [Rules -> Seq(1..MaxInstant)]

ReactInit ==
    /\ subscribed = FALSE /\ ruleEnabled = [r \in Rules |-> TRUE]
    /\ lastFiredAt = [r \in Rules |-> 0] /\ fireCount = [r \in Rules |-> 0]
    /\ position = [m \in Signals |-> 0] /\ awaiting = {} /\ instant = 1
    /\ fires = [r \in Rules |-> <<>>]

-----------------------------------------------------------------------------

StartEngine ==
    /\ ~subscribed /\ subscribed' = TRUE
    /\ UNCHANGED <<ruleEnabled, lastFiredAt, fireCount, position, awaiting, instant, fires>>
\* stop(): messages that are under way go on.
StopEngine ==
    /\ subscribed /\ subscribed' = FALSE
    /\ UNCHANGED <<ruleEnabled, lastFiredAt, fireCount, position, awaiting, instant, fires>>

SetRuleEnabled(r) ==
    /\ ruleEnabled' = [ruleEnabled EXCEPT ![r] = ~@]
    /\ UNCHANGED <<subscribed, lastFiredAt, fireCount, position, awaiting, instant, fires>>

ResetCounters ==
    /\ lastFiredAt' = [r \in Rules |-> 0] /\ fireCount' = [r \in Rules |-> 0]
    /\ fires' = [r \in Rules |-> <<>>]
    /\ UNCHANGED <<subscribed, ruleEnabled, position, awaiting, instant>>

Receives(m) ==
    /\ subscribed /\ position[m] = 0 /\ position' = [position EXCEPT ![m] = 1]
    /\ UNCHANGED <<subscribed, ruleEnabled, lastFiredAt, fireCount, awaiting, instant, fires>>

At(m) == position[m]
Considers(m) == At(m) \in Rules /\ m \notin awaiting
Cooling(r) == CooldownMs > 0 /\ lastFiredAt[r] > 0 /\ instant - lastFiredAt[r] < CooldownMs
Spent(r) == MaxFires > 0 /\ fireCount[r] >= MaxFires

\* The rule does not fire: it is off, does not match, cools down or is spent.
Skips(m) ==
    /\ Considers(m) /\ position' = [position EXCEPT ![m] = @ + 1]
    /\ UNCHANGED <<subscribed, ruleEnabled, lastFiredAt, fireCount, awaiting, instant, fires>>

CountsAfterwards(r) == UNCHANGED <<lastFiredAt, fireCount>>   \* seeded fault: once the handler ended
\* The counters are set before the handler is awaited.
Counts(r) ==
    /\ lastFiredAt' = [lastFiredAt EXCEPT ![r] = instant]
    /\ fireCount' = [fireCount EXCEPT ![r] = @ + 1]

Fires(m) ==
    /\ Considers(m) /\ ruleEnabled[At(m)] /\ ~Cooling(At(m)) /\ ~Spent(At(m))
    /\ Counts(At(m)) /\ awaiting' = awaiting \cup {m}
    /\ fires' = [fires EXCEPT ![At(m)] = Append(@, instant)]
    /\ UNCHANGED <<subscribed, ruleEnabled, position, instant>>

\* The handler resolves or rejects.
HandlerEnds(m) ==
    /\ m \in awaiting /\ awaiting' = awaiting \ {m}
    /\ position' = [position EXCEPT ![m] = @ + 1]
    /\ UNCHANGED <<subscribed, ruleEnabled, lastFiredAt, fireCount, instant, fires>>

InstantPasses ==
    /\ instant < MaxInstant /\ instant' = instant + 1
    /\ UNCHANGED <<subscribed, ruleEnabled, lastFiredAt, fireCount, position, awaiting, fires>>

ReactNext ==
    \/ StartEngine \/ StopEngine \/ ResetCounters \/ InstantPasses
    \/ \E r \in Rules : SetRuleEnabled(r)
    \/ \E m \in Signals : Receives(m) \/ Skips(m) \/ Fires(m) \/ HandlerEnds(m)

-----------------------------------------------------------------------------
(* Properties *)

\* However many messages are under way at once, between two resets a rule fires at
\* most MaxFires times, two firings lie CooldownMs apart, and a message fires every
\* rule at most once.
FiringsLimited ==
    \A r \in Rules :
        /\ MaxFires > 0 => Len(fires[r]) <= MaxFires
        /\ \A i \in 1..Len(fires[r]) - 1 : fires[r][i + 1] - fires[r][i] >= CooldownMs
        /\ Len(fires[r]) <= Cardinality({m \in Signals : position[m] > r \/ (position[m] = r /\ m \in awaiting)})
=============================================================================
