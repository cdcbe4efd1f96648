------------------------------ MODULE TaskFlows ------------------------------
(***************************************************************************)
(* Several tasks of one caller in core/executor.ts: one after the other    *)
(* (executeWorkflow), side by side (executePipeline) or as a graph         *)
(* (executePipelineViaNet); and how one task finds its agent, gets its     *)
(* prompt and races its LLM call against the timer.  What a failed call    *)
(* leads to, sub-tasks and escalations, is in Executor.                    *)
(***************************************************************************)
EXTENDS Naturals, Sequences, FiniteSets, SequencesExt

CONSTANTS
    Tasks,           \* the number of tasks of a workflow
    Together,        \* the number of tasks that are side by side
    Team,            \* the agents
    Named,           \* the agent whose id a target may be
    Nobody

VARIABLES
    flow,            \* workflow, pipeline or net
    sameId,          \* whether the first two tasks have one id
    offline,         \* agents that are offline
    phase,           \* task -> where it is
    considered,      \* task -> the agents the router is given
    called,           \* the tasks whose LLM call has begun
    outcome,         \* task -> the status of its result
    seen,            \* history: task -> the earlier outputs in its prompt: the last one, the accumulated ones
    astray,          \* history: the tasks given an agent they do not name and that was offline all along
    accumulated,     \* accContext: the steps whose output is in it
    resultMap,       \* of the net: id -> the task whose result is stored
    returned         \* what the caller gets: the tasks, 0 for one that was cancelled

flowVars == <<flow, sameId, offline, phase, considered, called, outcome, seen, astray, accumulated, resultMap,
              returned>>

Steps == 1..Tasks
Count == IF flow = "workflow" THEN Tasks ELSE Together
Id(t) == IF sameId /\ t = 2 THEN 1 ELSE t
Ended == {"success", "partial", "failure", "escalated"}
Phases == {"waiting", "resolving", "prompting", "calling", "done"}

TaskFlowsTypeOK ==
    /\ flow \in {"workflow", "pipeline", "net"} /\ sameId \in BOOLEAN /\ offline \subseteq Team
    /\ phase \in [Steps -> Phases] /\ considered \in [Steps -> SUBSET Team] /\ called \subseteq Steps
    /\ outcome \in [Steps -> {"none"} \cup Ended]
    /\ astray \subseteq Steps /\ seen \in [Steps -> [last : 0..Tasks, all : SUBSET Steps]] /\ accumulated \subseteq Steps
    /\ resultMap \in [Steps -> 0..Tasks]
    /\ ToSet(returned) \subseteq 0..Tasks /\ Len(returned) <= Tasks

TaskFlowsInit ==
    /\ flow \in {"workflow", "pipeline", "net"} /\ sameId \in BOOLEAN /\ (sameId => flow = "net")
    /\ offline = {} /\ considered = [t \in Steps |-> {}]
    /\ phase = [t \in Steps |-> "waiting"] /\ called = {} /\ outcome = [t \in Steps |-> "none"]
    /\ seen = [t \in Steps |-> [last |-> 0, all |-> {}]] /\ astray = {} /\ accumulated = {}
    /\ resultMap = [t \in Steps |-> 0] /\ returned = <<>>

-----------------------------------------------------------------------------
(* One task *)

\* What the router may decide: of the agents that were not offline when it was asked it
\* takes the one of that id or one it finds alike, or none; it may throw.
Decisions(t, kind) ==
    IF kind = "id" /\ Named \in considered[t] THEN {Named, Nobody} ELSE considered[t] \cup {Nobody}

\* Without a decision: the agent of that id, whatever its status, or one of the kind.
ByKindAny(kind) == IF kind = "kind" THEN Team ELSE {Nobody}  \* seeded fault: one that is offline too
ByKind(kind) == IF kind = "kind" /\ offline # Team THEN Team \ offline ELSE {Nobody}
Lookup(kind) == IF kind = "id" THEN {Named} ELSE ByKind(kind)

\* execute() of the tasks ts begins: the router is an await, and a status may change before
\* its decision.
Begin(ts) ==
    /\ \A t \in ts : phase[t] = "waiting"
    /\ phase' = [t \in Steps |-> IF t \in ts THEN "resolving" ELSE phase[t]]
    /\ considered' = [t \in Steps |-> IF t \in ts THEN Team \ offline ELSE considered[t]]
GoesOffline(a) ==
    /\ a \notin offline /\ offline' = offline \cup {a}
    /\ UNCHANGED <<flow, sameId, phase, considered, called, outcome, seen, astray, accumulated, resultMap, returned>>

FlowUnchanged == UNCHANGED <<flow, sameId, offline, accumulated, resultMap, returned>>

Resolve(t) ==
    /\ phase[t] = "resolving" /\ UNCHANGED <<considered, called, seen>> /\ FlowUnchanged
    /\ \E kind \in {"id", "kind", "neither"} : \E d \in Decisions(t, kind) :
       \E a \in (IF d # Nobody THEN {d} ELSE Lookup(kind)) :
        /\ astray' = IF a \in offline \ considered[t] /\ ~(kind = "id" /\ a = Named) THEN astray \cup {t} ELSE astray
        /\ IF a = Nobody
           THEN phase' = [phase EXCEPT ![t] = "done"] /\ outcome' = [outcome EXCEPT ![t] = "failure"]
           ELSE phase' = [phase EXCEPT ![t] = "prompting"] /\ UNCHANGED outcome

\* loadAgentPrompt() and the query of the index await; either may fail and the prompt is
\* made without it, with what the task's context holds.
Prompted(t) ==
    /\ phase[t] = "prompting" /\ phase' = [phase EXCEPT ![t] = "calling"]
    /\ called' = called \cup {t}
    /\ seen' = [seen EXCEPT ![t] = [last |-> IF flow = "workflow" THEN t - 1 ELSE 0, all |-> accumulated]]
    /\ UNCHANGED <<considered, outcome, astray>> /\ FlowUnchanged

\* The answer is there first; one without readable sub-tasks is one without any, and of
\* several some may fail.
TaskEnds(t, e) ==
    /\ phase' = [phase EXCEPT ![t] = "done"] /\ outcome' = [outcome EXCEPT ![t] = e]
    /\ UNCHANGED <<considered, called, seen, astray>> /\ FlowUnchanged
Answer(t) == phase[t] = "calling" /\ \E e \in {"success", "partial"} : TaskEnds(t, e)

\* The call fails, or the timer wins the race: the call goes on, and what becomes of it
\* is no longer looked at.  What is escalated may succeed.
Fails(t) == phase[t] = "calling" /\ \E e \in {"failure", "escalated", "success"} : TaskEnds(t, e)

Work(t) == Resolve(t) \/ Prompted(t) \/ Answer(t) \/ Fails(t)

-----------------------------------------------------------------------------
(* The three ways to run them *)

OthersOfFlow == UNCHANGED <<flow, sameId, offline, called, outcome, seen, astray>>

\* executeWorkflow(): the next step begins when the one before has its result in the
\* context; a failure is the last one.
Keeps(t) == outcome[t] \in {"success", "partial"}
AccumulateAll(t) == accumulated \cup {t}                  \* seeded fault: whatever came of it
Accumulate(t) == IF Keeps(t) THEN accumulated \cup {t} ELSE accumulated
StartStep ==
    /\ flow = "workflow"
    /\ \E t \in Steps :
        /\ t > 1 => phase[t - 1] = "done" /\ outcome[t - 1] # "failure"
        /\ accumulated' = IF t = 1 THEN {} ELSE Accumulate(t - 1)
        /\ Begin({t})
    /\ UNCHANGED <<resultMap, returned>> /\ OthersOfFlow

EndWorkflow ==
    /\ flow = "workflow" /\ returned = <<>>
    /\ \E t \in Steps : /\ phase[t] = "done" /\ (outcome[t] = "failure" \/ t = Count)
                        /\ returned' = [k \in 1..t |-> k]
                        /\ accumulated' = Accumulate(t)
    /\ UNCHANGED <<phase, considered, resultMap>> /\ OthersOfFlow

\* executePipeline(): all begin at once, and the results wait for all of them.
StartPipeline ==
    /\ flow = "pipeline" /\ Begin(1..Count)
    /\ UNCHANGED <<accumulated, resultMap, returned>> /\ OthersOfFlow

EndPipeline ==
    /\ flow = "pipeline" /\ returned = <<>> /\ \A t \in 1..Count : phase[t] = "done"
    /\ returned' = [t \in 1..Count |-> t]
    /\ UNCHANGED <<phase, considered, accumulated, resultMap>> /\ OthersOfFlow

\* executePipelineViaNet(): of the tasks wired to the join the first is reduced, and the
\* scheduler stops when it has waited for the join in vain (NetScheduler has why).
StartNet ==
    /\ flow = "net" /\ Begin({1})
    /\ UNCHANGED <<accumulated, resultMap, returned>> /\ OthersOfFlow

\* Every task of the caller gets the result stored under its id, or is cancelled.
ByPosition(map) == SelectSeq([t \in 1..Count |-> map[t]], LAMBDA t : t # 0) \* seeded fault: the cancelled ones are left out
FromMap(map) == [t \in 1..Count |-> map[Id(t)]]
EndNet ==
    /\ flow = "net" /\ returned = <<>> /\ phase[1] = "done"
    /\ resultMap' = [resultMap EXCEPT ![Id(1)] = 1]
    /\ returned' = FromMap(resultMap')
    /\ UNCHANGED <<phase, considered, accumulated>> /\ OthersOfFlow

TaskFlowsNext ==
    \/ StartStep \/ EndWorkflow \/ StartPipeline \/ EndPipeline \/ StartNet \/ EndNet
    \/ (\E t \in Steps : Work(t)) \/ \E a \in Team : GoesOffline(a)

-----------------------------------------------------------------------------
(* Properties *)

\* What the caller gets are the results of its tasks at their places: of a workflow all up
\* to the first failure, otherwise one for every task, which is its own, that of a task
\* with the same id or a cancellation; and none of them is still being worked on.
ResultsInPlace ==
    returned # <<>> =>
        /\ \A k \in DOMAIN returned : returned[k] = 0 \/ (Id(returned[k]) = Id(k) /\ phase[returned[k]] = "done")
        /\ flow # "workflow" => Len(returned) = Count
        /\ flow = "workflow" => /\ \A k \in DOMAIN returned : outcome[k] = "failure" => k = Len(returned)
                                /\ Len(returned) < Count => outcome[Len(returned)] = "failure"

\* The prompt of a step holds the output of the one before and of all earlier ones that
\* did not fail, and a step of a pipeline nothing of the others (executeWorkflow).
ContextComplete ==
    \A t \in Steps : t \in called =>
        IF flow = "workflow" THEN seen[t] = [last |-> t - 1, all |-> {s \in 1..(t - 1) : Keeps(s)}]
        ELSE seen[t] = [last |-> 0, all |-> {}]

\* An agent that is offline when a task begins and when it is looked up gets it only when
\* the task names it (resolveAgent, which asks the registry for the id whatever its status).
OfflineOnlyByName == astray = {}
=============================================================================
