--------------------------- MODULE WorkflowBuilder ---------------------------
(***************************************************************************)
(* The fluent builder of core/workflow-builder.ts: each call adds a group  *)
(* of steps that depends on lastStepIds and replaces it.  build() accepts  *)
(* a graph whose steps Kahn's algorithm processes all.  Steps are numbered *)
(* as nextStepId() does, from 1 on.                                        *)
(*                                                                         *)
(* The algorithm is that of core/durable.ts (topologicalSort) too: a queue *)
(* of the steps whose dependencies are all sorted, in the order of the     *)
(* steps.  A step whose dependencies never are is left out without a word. *)
(***************************************************************************)
EXTENDS Naturals, FiniteSets, Sequences
LOCAL INSTANCE SequencesExt

CONSTANT MaxSteps      \* bound: steps, and calls, of a workflow

VARIABLES
    deps,          \* this.steps, a sequence of their dependsOn
    last,          \* this.lastStepIds
    groups         \* history: the calls, each with its kind and its steps

vars == <<deps, last, groups>>

TypeOK ==
    /\ deps \in Seq(SUBSET (1..MaxSteps)) /\ Len(deps) <= MaxSteps
    /\ last \subseteq 1..Len(deps)
    /\ \A i \in 1..Len(groups) : groups[i].steps \subseteq 1..Len(deps)

Init == deps = <<>> /\ last = {} /\ groups = <<>>

IdsTooMany(k) == (Len(deps) + 1)..(Len(deps) + k + 1)    \* seeded fault: off by one
NextIds(k) == (Len(deps) + 1)..(Len(deps) + k)
\* How many tasks a call is given; an empty list is legal.
Sizes == {k \in 0..MaxSteps : Len(deps) + k <= MaxSteps /\ Len(groups) < MaxSteps}
Record(kind, k) == groups' = Append(groups, [kind |-> kind, steps |-> NextIds(k)])

\* sequential() and handoff(): the first step waits for the previous group, each
\* other for the step before it.
ChainDeps(s) == IF s = Len(deps) + 1 THEN last ELSE {s - 1}
AddChain(kind, k) ==
    /\ deps' = deps \o [i \in 1..k |-> ChainDeps(Len(deps) + i)]
    /\ last' = IF k = 0 THEN {} ELSE {Len(deps) + k}
    /\ Record(kind, k)

OnlyLastOf(ids) == {s \in ids : \A t \in ids : t <= s}     \* seeded fault: one branch kept
AllOf(ids) == ids

SiblingDeps(s) == ChainDeps(s)                             \* seeded fault: siblings chained
FanDeps(s) == last
\* parallel() and conditional(): every step waits for the previous group, and
\* the next group for all of them.
AddFan(kind, k) ==
    /\ deps' = deps \o [i \in 1..k |-> FanDeps(Len(deps) + i)]
    /\ last' = AllOf(NextIds(k))
    /\ Record(kind, k)

Sequential == \E k \in Sizes : AddChain("sequential", k)
Handoff == \E k \in Sizes : AddChain("handoff", k)
Parallel == \E k \in Sizes : AddFan("parallel", k)
Conditional == \E k \in Sizes : AddFan("conditional", k)
Aggregate == 1 \in Sizes /\ AddChain("aggregate", 1)

Next == Sequential \/ Handoff \/ Parallel \/ Conditional \/ Aggregate

Spec == Init /\ [][Next]_vars

-----------------------------------------------------------------------------
(* Kahn's algorithm, for steps 1..n; deps[s] may name steps that do not exist. *)

Ascending(S) == SetToSortSeq(S, LAMBDA a, b : a < b)

NeverDecremented(dependsOn, s, done) == dependsOn[s] = {}   \* seeded fault: not decremented
\* The in-degree of s is zero: it depends on nothing that is not sorted.
Unblocked(dependsOn, s, done) == dependsOn[s] \subseteq done

\* One round: the head of the queue is sorted, and the steps it was the last
\* to hold back are queued.
Round(n, dependsOn, k) ==
    LET h == Head(k.queue)
        done == ToSet(k.sorted) \cup {h}
        freed == {s \in 1..n : h \in dependsOn[s] /\ Unblocked(dependsOn, s, done)}
    IN [queue |-> Tail(k.queue) \o Ascending(freed), sorted |-> Append(k.sorted, h)]

TopoSort(n, dependsOn) ==
    LET start == [queue |-> Ascending({s \in 1..n : dependsOn[s] = {}}), sorted |-> <<>>]
        Kahn[i \in 0..n] ==
            IF i = 0 THEN start
            ELSE IF Kahn[i - 1].queue = <<>> THEN Kahn[i - 1] ELSE Round(n, dependsOn, Kahn[i - 1])
    IN Kahn[n].sorted

\* The steps reachable backwards from S, S included.
Needs(n, dependsOn, S) ==
    LET Back[i \in 0..n] == IF i = 0 THEN S
                            ELSE Back[i - 1] \cup UNION {dependsOn[s] : s \in Back[i - 1] \cap (1..n)}
    IN Back[n]

-----------------------------------------------------------------------------
(* build() *)

Count == Len(deps)
EntrySteps == {s \in 1..Count : deps[s] = {}}
ExitSteps == {s \in 1..Count : \A t \in 1..Count : s \notin deps[t]}

\* detectCycles(): as many steps processed as there are.
Acyclic(n, sorted) == Len(sorted) = n

Accepts == /\ Count > 0
           /\ \A s \in 1..Count : deps[s] \subseteq 1..Count
           /\ Acyclic(Count, TopoSort(Count, deps))

-----------------------------------------------------------------------------
(* Properties *)

After(s, t) == t \in Needs(Count, deps, deps[s])

NoEmptyCall == \A g \in 1..Len(groups) : groups[g].steps # {}

\* "All depend on the previous step(s) completing, and subsequent steps will
\* depend on all parallel tasks" (workflow-builder.ts:93): each step waits,
\* directly or through others, for all steps of all earlier calls.  A call with
\* an empty list breaks that: what follows it waits for nothing.
WaitsForEarlierCalls ==
    NoEmptyCall => \A g, h \in 1..Len(groups) : g < h =>
                      \A t \in groups[g].steps, s \in groups[h].steps : After(s, t)

\* No step of a parallel or conditional call waits for a sibling.
SiblingsIndependent ==
    \A g \in 1..Len(groups) : groups[g].kind \in {"parallel", "conditional"} =>
        \A s, t \in groups[g].steps : ~After(s, t)

\* Whatever was called, build() accepts it, the sort of durable.ts puts every
\* step behind those it depends on, and the exit steps are those a next call
\* would wait for.
BuildsWellFormed ==
    LET order == TopoSort(Count, deps)
    IN Count > 0 => /\ Accepts
                    /\ \A i \in 1..Count : deps[order[i]] \subseteq {order[j] : j \in 1..(i - 1)}
                    /\ NoEmptyCall => ExitSteps = last /\ EntrySteps \subseteq groups[1].steps
=============================================================================
