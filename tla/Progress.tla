------------------------------ MODULE Progress ------------------------------
(***************************************************************************)
(* What keeps an execution from going round for ever.                      *)
(*                                                                         *)
(* ProgressTracker (core/progress-tracker.ts): the events of one workflow  *)
(* in the store, its start time in memory, and what shouldAbort() makes of *)
(* them.  The store returns the events by step index; outputs are their    *)
(* hashes, and every event spends one unit of the token budget.            *)
(*                                                                         *)
(* StateGraph.compile() and CompiledGraph.run() (core/state-graph.ts) on   *)
(* any list of edges; what a condition answers is a choice.                *)
(***************************************************************************)
EXTENDS Naturals, Sequences, FiniteSets, SequencesExt, FiniteSetsExt

CONSTANTS
    Speakers, Outputs, LastStep,   \* agents, output hashes, the steps 1..LastStep
    MaxSimilar,                    \* maxConsecutiveSimilar
    TokenBudget, WallClock,        \* maxTokenBudget, maxWallClockMs
    MaxEvents, MaxNow,             \* bounds
    NotStarted,
    Vertices, Entry,     \* the nodes and config.entryNode
    MaxIterations,
    MaxEdges,            \* bound: edges
    Conditional,         \* the target "__conditional__"
    Nowhere              \* null

VARIABLES
    events,        \* progress_events of the workflow, in the order they were saved
    startTime,     \* workflowStartTimes of it
    now,
    began,         \* history: when the first event since the last cleanup was saved
    edges, exitNodes,    \* the graph that was compiled
    current,             \* currentNode while its executor runs; Nowhere otherwise
    iterations, trace,   \* of the run
    exitNode, run        \* what it returned: how it ended

progressVars == <<events, startTime, now, began>>

Event == [step : 1..LastStep, agent : Speakers, hash : Outputs]

ProgressTypeOK ==
    /\ events \in BoundedSeq(Event, MaxEvents) /\ now \in 0..MaxNow
    /\ startTime \in 0..MaxNow \cup {NotStarted} /\ began \in 0..MaxNow \cup {NotStarted}

ProgressInit == events = <<>> /\ startTime = NotStarted /\ now = 0 /\ began = NotStarted

-----------------------------------------------------------------------------

\* getProgressEvents(): ORDER BY step_index; events of one step as they were saved.
Before(i, j) == events[i].step < events[j].step \/ (events[i].step = events[j].step /\ i < j)
Earlier(i) == {j \in DOMAIN events : Before(j, i)}
ByStep == [k \in DOMAIN events |-> events[CHOOSE i \in DOMAIN events : Cardinality(Earlier(i)) = k - 1]]

Same(e, f) == e.agent = f.agent /\ e.hash = f.hash

\* The last n of a sequence, all of them if there are fewer.
Newest(s, n) == SubSeq(s, IF Len(s) > n THEN Len(s) - n + 1 ELSE 1, Len(s))
Alike(s, n) == Len(s) >= n /\ \A i \in Len(s) - n + 1..Len(s) : Same(s[i], Last(s))

DetectLoopLate ==                                     \* seeded fault: the count starts at 0
    LET all == ByStep
        recent == Newest(all, MaxSimilar + 1)
    IN Len(all) >= MaxSimilar /\ Alike(recent, MaxSimilar + 1)
\* detectLoop(): the last MaxSimilar events are alike, or, among one more than
\* those, the agent of the last one has that many, all alike.
DetectLoop ==
    LET all == ByStep
        recent == Newest(all, MaxSimilar + 1)
        own == {i \in DOMAIN recent : recent[i].agent = Last(recent).agent}
    IN /\ Len(all) >= MaxSimilar
       /\ \/ Alike(recent, MaxSimilar)
          \/ Cardinality(own) >= MaxSimilar /\ \A i \in own : Same(recent[i], Last(recent))

\* shouldAbort(): the budget, the clock if the start is known, a loop.
ShouldAbort ==
    \/ Len(events) > TokenBudget
    \/ startTime # NotStarted /\ now - startTime > WallClock
    \/ DetectLoop

TrackExecution(e) ==
    /\ Len(events) < MaxEvents
    /\ events' = Append(events, e)
    /\ startTime' = IF startTime = NotStarted THEN now ELSE startTime
    /\ began' = IF began = NotStarted THEN now ELSE began
    /\ UNCHANGED now

Cleanup ==
    /\ events' = <<>> /\ startTime' = NotStarted /\ began' = NotStarted
    /\ UNCHANGED now

\* The events are in the store, the start time is not.
ProgressRestarts ==
    /\ startTime' = NotStarted
    /\ UNCHANGED <<events, now, began>>

TimePasses == now < MaxNow /\ now' = now + 1 /\ UNCHANGED <<events, startTime, began>>

ProgressNext ==
    \/ Cleanup \/ ProgressRestarts \/ TimePasses
    \/ \E s \in 1..LastStep, a \in Speakers, h \in Outputs :
         TrackExecution([step |-> s, agent |-> a, hash |-> h])

-----------------------------------------------------------------------------
(* Runs of a graph *)

graphVars == <<edges, exitNodes, current, iterations, trace, exitNode, run>>
graph == <<edges, exitNodes>>

GraphEdges == [from : Vertices, to : Vertices \cup {Conditional}]

GraphTypeOK ==
    /\ edges \in BoundedSeq(GraphEdges, MaxEdges) /\ exitNodes \in SUBSET Vertices
    /\ current \in Vertices \cup {Nowhere} /\ iterations \in 0..MaxIterations
    /\ trace \in BoundedSeq(Vertices, MaxIterations) /\ exitNode \in Vertices \cup {Nowhere}
    /\ run \in {"none", "running", "returned", "threw"}

\* compile() has found every name of the graph among its nodes.
GraphInit ==
    /\ edges \in BoundedSeq(GraphEdges, MaxEdges) /\ exitNodes \in SUBSET Vertices
    /\ current = Nowhere /\ iterations = 0 /\ trace = <<>> /\ exitNode = Nowhere /\ run = "none"

-----------------------------------------------------------------------------

OutEdges(v) == {i \in DOMAIN edges : edges[i].from = v}

\* findReachableNodes(): a conditional edge may lead anywhere.
Targets(v) == UNION {IF edges[i].to = Conditional THEN Vertices ELSE {edges[i].to} : i \in OutEdges(v)}
Onwards(S) == S \cup UNION {Targets(v) : v \in S}
Reachable == LET reach[n \in 0..Cardinality(Vertices)] ==
                   IF n = 0 THEN {Entry} ELSE Onwards(reach[n - 1])
             IN reach[Cardinality(Vertices)]

\* resolveNextNode(): the first condition that names a node, else the first edge
\* without a condition; a condition may name nothing, or a node that is not there.
Plain(v) == {i \in OutEdges(v) : edges[i].to # Conditional}
HasCondition(v) == \E i \in OutEdges(v) : edges[i].to = Conditional
AnyTarget(v) == Vertices \cup {Nowhere}                \* seeded fault: conditions of other nodes
ResolveNextNode(v) ==
    (IF HasCondition(v) THEN Vertices ELSE {})
        \cup {IF Plain(v) = {} THEN Nowhere ELSE edges[Min(Plain(v))].to}

\* The loop runs a node, unless it has run as many as it may.
Visits(v) ==
    IF iterations' < MaxIterations
    THEN current' = v /\ run' = "running" /\ UNCHANGED exitNode
    ELSE current' = Nowhere /\ exitNode' = v /\ run' = "returned"

Run ==
    /\ run = "none"
    /\ UNCHANGED <<graph, iterations, trace>>
    /\ Visits(Entry)

Returns(v) == current' = Nowhere /\ exitNode' = v /\ run' = "returned"

\* The executor of the node resolves.
NodeEnds ==
    /\ run = "running"
    /\ iterations' = iterations + 1 /\ trace' = Append(trace, current)
    /\ IF current \in exitNodes THEN Returns(current)
       ELSE \E v \in ResolveNextNode(current) : IF v = Nowhere THEN Returns(current) ELSE Visits(v)
    /\ UNCHANGED graph

\* It rejects, or a condition names a node that is not there: run() throws.
NodeThrows ==
    /\ run = "running" /\ run' = "threw" /\ current' = Nowhere
    /\ UNCHANGED <<graph, iterations, trace, exitNode>>

GraphNext == Run \/ NodeEnds \/ NodeThrows

-----------------------------------------------------------------------------
(* Properties *)

StepsAdvance == \A i \in 1..Len(events) - 1 : events[i].step <= events[i + 1].step

\* While no step is taken again after a later one, whoever repeats its output
\* MaxSimilar times in a row is found, also across a restart; and nobody is found
\* who did not give one output that often.
LoopsFound ==
    /\ StepsAdvance /\ Alike(events, MaxSimilar) => ShouldAbort
    /\ DetectLoop => \E e \in ToSet(events) :
                       Cardinality({i \in DOMAIN events : Same(events[i], e)}) >= MaxSimilar

\* "Checks for consecutive similar outputs from the same agent"
\* (progress-tracker.ts:117): an agent that repeats its output is found.
RepetitionIsFound == Alike(events, MaxSimilar) => DetectLoop

\* What compile() reports as unreachable never runs, whatever the conditions answer;
\* a run that returns has run MaxIterations nodes or ended where it may end, and the
\* exit it names is the last node it ran or, at the limit, the next one.
ExitsWhereItRan == trace # <<>> /\ exitNode = Last(trace)
RunsStayInGraph ==
    /\ ToSet(trace) \subseteq Reachable /\ (run = "running" => current \in Reachable)
    /\ run = "returned" =>
         /\ exitNode \in Reachable
         /\ ~ExitsWhereItRan => Len(trace) = MaxIterations
         /\ ExitsWhereItRan /\ Len(trace) < MaxIterations =>
              exitNode \in exitNodes \/ Plain(exitNode) = {}
=============================================================================
