-------------------------------- MODULE Tiers --------------------------------
(***************************************************************************)
(* TierRegistry (core/tier-registry.ts): tiers come and go in any order,   *)
(* and validate() follows the first target of each.                        *)
(***************************************************************************)
EXTENDS Naturals, Sequences, FiniteSets, SequencesExt

CONSTANTS TierNames, TierRanks, MaxTargets, NoTier

VARIABLES
    tiers,       \* name -> its rank and escalation targets, or NoTier
    rankOrder    \* the names, highest tier first

tierVars == <<tiers, rankOrder>>

Definitions == [rank : TierRanks, targets : BoundedSeq(TierNames, MaxTargets)]
Known == {n \in TierNames : tiers[n] # NoTier}

TiersTypeOK ==
    /\ tiers \in [TierNames -> {NoTier} \cup Definitions]
    /\ rankOrder \in BoundedSeq(TierNames, Cardinality(TierNames))

TiersInit == tiers = [n \in TierNames |-> NoTier] /\ rankOrder = <<>>

KeepRankOrder == rankOrder' = SelectSeq(rankOrder, LAMBDA n : tiers'[n] # NoTier)  \* seeded fault
\* rebuildRankOrder(): a stable sort; tiers of one rank in the order of the map,
\* which is left open here.
RebuildRankOrder ==
    \E order \in SetToSeqs({n \in TierNames : tiers'[n] # NoTier}) :
        /\ \A i \in 1..Len(order) - 1 : tiers'[order[i]].rank <= tiers'[order[i + 1]].rank
        /\ rankOrder' = order

RegisterTier(n, def) == tiers' = [tiers EXCEPT ![n] = def] /\ RebuildRankOrder
UnregisterTier(n) == n \in Known /\ tiers' = [tiers EXCEPT ![n] = NoTier] /\ RebuildRankOrder

TiersNext == \E n \in TierNames : UnregisterTier(n) \/ \E def \in Definitions : RegisterTier(n, def)

-----------------------------------------------------------------------------

TargetsOf(n) == IF n \in Known THEN tiers[n].targets ELSE <<>>
GetTopTier == IF rankOrder = <<>> THEN NoTier ELSE rankOrder[1]

\* Where the walk of validate() is after k steps, and whether it came back to n.
Walk(n) == LET walk[k \in 0..Cardinality(TierNames) + 1] ==
                 IF k = 0 THEN n
                 ELSE IF walk[k - 1] = NoTier \/ TargetsOf(walk[k - 1]) = <<>> THEN NoTier
                 ELSE TargetsOf(walk[k - 1])[1]
           IN walk
CircularSoon(n) == Walk(n)[1] = n                      \* seeded fault: depth 1 only
Circular(n) == \E k \in 1..Cardinality(Known) : Walk(n)[k] = n

\* validate() returns no error (maxAgents aside).
Validates ==
    /\ \A m, n \in Known : m # n => tiers[m].rank # tiers[n].rank
    /\ \A n \in Known : ToSet(tiers[n].targets) \subseteq Known
    /\ \A n \in Known : ~Circular(n)

\* Whoever follows first targets, as the escalation chain does, comes to an end in a
\* registry that validates; and the order of the ranks is that of the tiers there are.
FirstTargetsEnd ==
    /\ Validates => \A n \in Known : Walk(n)[Cardinality(TierNames) + 1] = NoTier
    /\ ToSet(rankOrder) = Known /\ Len(rankOrder) = Cardinality(Known)
    /\ Known # {} => \A n \in Known : tiers[GetTopTier].rank <= tiers[n].rank
=============================================================================
