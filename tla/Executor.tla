------------------------------ MODULE Executor ------------------------------
(***************************************************************************)
(* Recursive task execution of core/executor.ts, composed with the circuit *)
(* breaker it asks when an agent fails.  A request of the caller is a      *)
(* chain of nested executeInternal calls: sub-tasks nest, an escalation    *)
(* replaces the frame (its result is returned as is).  Requests run        *)
(* concurrently; they share the agents, the metrics and the breakers.      *)
(*                                                                         *)
(* A frame is at its call, waiting for the agent's answer, or working off  *)
(* the sub-tasks the answer asked for.  Prompts, durations and the highway *)
(* events are left out; so are tokens.                                     *)
(***************************************************************************)
EXTENDS Escalation, Sequences

CONSTANTS
    Requests,          \* calls of execute(); executePipeline runs them side by side
    External,          \* agents reached through a transport
    MaxDepth,          \* options.maxDepth
    EnableEscalation,  \* options.enableEscalation
    MaxSubTasks        \* bound: sub-tasks of one answer

ASSUME ExecutorAssumption ==
    /\ External \subseteq Agents
    /\ MaxDepth \in Nat /\ MaxSubTasks \in Nat
    /\ EnableEscalation \in BOOLEAN

VARIABLES
    stack,      \* request -> frames of the executeInternal calls in progress
    result,     \* request -> what execute() returned; new and active before
    status,     \* registry status of each agent: idle or busy
    metrics,    \* this.metrics
    tasksTable  \* what getTaskMetrics() counts in the task_results table

execVars == <<stack, result, status, metrics, tasksTable>>
allVars == <<execVars, escVars>>

Frame == [agent : Agents \cup {NoAgent}, depth : 0..(MaxDepth + 1), priority : Priorities,
          phase : {"call", "answer", "subs"}, left : 0..MaxSubTasks]
Final == {"success", "failure", "escalated"}
Counts == [total : Nat, success : Nat, failure : Nat, escalated : Nat]
NoCounts == [total |-> 0, success |-> 0, failure |-> 0, escalated |-> 0]

ExecTypeOK ==
    /\ stack \in [Requests -> Seq(Frame)]
    /\ result \in [Requests -> {"new", "active"} \cup Final]
    /\ status \in [Agents -> {"idle", "busy"}]
    /\ metrics \in Counts /\ tasksTable \in Counts

ExecInit ==
    /\ EscInit
    /\ stack = [r \in Requests |-> <<>>]
    /\ result = [r \in Requests |-> "new"]
    /\ status = [a \in Agents |-> "idle"]
    /\ metrics = NoCounts /\ tasksTable = NoCounts

-----------------------------------------------------------------------------
Active(r, phase) == stack[r] # <<>> /\ stack[r][Len(stack[r])].phase = phase
Top(r) == stack[r][Len(stack[r])]
Below(r) == SubSeq(stack[r], 1, Len(stack[r]) - 1)

Call(agent, depth, priority) ==
    [agent |-> agent, depth |-> depth, priority |-> priority, phase |-> "call", left |-> 0]

Count(m, kind) == [m EXCEPT ![kind] = @ + 1]

LostEscalation(r, value) ==                            \* seeded fault: result not passed on
    /\ stack' = [stack EXCEPT ![r] = Below(r)]
    /\ result' = [result EXCEPT ![r] = IF Below(r) = <<>> /\ value # "escalated" THEN value ELSE @]
\* The top frame of r returns: to the frame below it, or to the caller.
Return(r, value) ==
    /\ stack' = [stack EXCEPT ![r] = Below(r)]
    /\ result' = [result EXCEPT ![r] = IF Below(r) = <<>> THEN value ELSE @]

Replace(r, frame) ==
    /\ stack' = [stack EXCEPT ![r] = Append(Below(r), frame)]
    /\ UNCHANGED result

\* recordResult(): the result becomes a row of task_results.
Recorded(value) == Count(Count(tasksTable, "total"), value)

NotReleased(a) == status                               \* seeded fault: agent stays busy
Released(a) == [status EXCEPT ![a] = "idle"]

-----------------------------------------------------------------------------
Execute(r, target, priority) ==
    /\ result[r] = "new"
    /\ result' = [result EXCEPT ![r] = "active"]
    /\ stack' = [stack EXCEPT ![r] = <<Call(target, 0, priority)>>]
    /\ UNCHANGED <<status, metrics, tasksTable, escVars>>

TooDeepLater(depth) == depth > MaxDepth + 1            \* seeded fault: off by one
TooDeep(depth) == depth > MaxDepth

\* The three early returns of executeInternal count a failure and record none:
\* too deep, no agent, deadline passed (only tasks that have one).
Refuse(r) ==
    /\ Active(r, "call")
    /\ \/ TooDeep(Top(r).depth) /\ UNCHANGED status
       \/ ~TooDeep(Top(r).depth) /\ Top(r).agent = NoAgent /\ UNCHANGED status
       \/ ~TooDeep(Top(r).depth) /\ Top(r).agent # NoAgent /\ status' = Released(Top(r).agent)
    /\ metrics' = Count(Count(metrics, "total"), "failure")
    /\ Return(r, "failure")
    /\ UNCHANGED <<tasksTable, escVars>>

\* The agent is marked busy and asked, over its transport or as an LLM.
Ask(r) ==
    /\ Active(r, "call") /\ ~TooDeep(Top(r).depth) /\ Top(r).agent # NoAgent
    /\ metrics' = Count(metrics, "total")
    /\ status' = [status EXCEPT ![Top(r).agent] = "busy"]
    /\ Replace(r, [Top(r) EXCEPT !.phase = "answer"])
    /\ UNCHANGED <<tasksTable, escVars>>

Finish(r, value) ==
    /\ metrics' = Count(metrics, value)
    /\ status' = Released(Top(r).agent)
    /\ tasksTable' = Recorded(value)
    /\ Return(r, value)
    /\ UNCHANGED escVars

Answer(r) == Active(r, "answer") /\ Finish(r, "success")

\* A transport may answer with a result that is not a success.
ExternalFailure(r) ==
    Active(r, "answer") /\ Top(r).agent \in External /\ Finish(r, "failure")

\* The answer asks for n sub-tasks: ignored at the maximal depth, where it is
\* an ordinary answer.
AskForSubTasks(r, n) ==
    /\ Active(r, "answer") /\ Top(r).agent \notin External /\ Top(r).depth < MaxDepth
    /\ Replace(r, [Top(r) EXCEPT !.phase = "subs", !.left = n])
    /\ UNCHANGED <<status, metrics, tasksTable, escVars>>

\* The agent stays busy while its sub-tasks run one after the other.
SubTask(r, target, priority) ==
    /\ Active(r, "subs") /\ Top(r).left > 0
    /\ stack' = [stack EXCEPT ![r] =
                   Append(Append(Below(r), [Top(r) EXCEPT !.left = @ - 1]),
                          Call(target, Top(r).depth + 1, priority))]
    /\ UNCHANGED <<result, status, metrics, tasksTable, escVars>>

\* Whatever their results, the combined result is a success.
CombineSubTasks(r) == Active(r, "subs") /\ Top(r).left = 0 /\ Finish(r, "success")

EscalatedCall(f, target) ==
    Call(target, f.depth + 1, IF f.priority < 5 THEN f.priority + 1 ELSE 5)

CountOnlyBroken(m, o) == IF o \in Agents THEN m ELSE Count(m, "escalated")  \* seeded fault
CountEscalated(m, o) == Count(m, "escalated")

\* The call throws (its timeout included): the agent is released and, with
\* handleEscalation, the breaker is asked: a broken circuit ends the task, a
\* target takes it over one level deeper and one priority higher.
Fail(r, outcome) ==
    /\ Active(r, "answer")
    /\ LET f == Top(r) IN
         /\ status' = Released(f.agent)
         /\ IF EnableEscalation THEN Escalate(f.agent, f.priority, outcome)
            ELSE outcome = "none" /\ UNCHANGED escVars
         /\ \/ /\ outcome = "broken"
               /\ metrics' = CountEscalated(metrics, outcome)
               /\ tasksTable' = Recorded("escalated")
               /\ Return(r, "escalated")
            \/ /\ outcome \in Agents
               /\ metrics' = CountEscalated(metrics, outcome)
               /\ Replace(r, EscalatedCall(f, outcome))
               /\ UNCHANGED tasksTable
            \/ /\ outcome = "none"
               /\ metrics' = Count(metrics, "failure")
               /\ tasksTable' = Recorded("failure")
               /\ Return(r, "failure")

\* A new process attaches the store (setStore) and loads the breakers.
RestartProcess ==
    /\ \A r \in Requests : stack[r] = <<>>
    /\ metrics' = tasksTable
    /\ Restart
    /\ UNCHANGED <<stack, result, status, tasksTable>>

\* One step of the execution of r.
Step(r) ==
    \/ Refuse(r) \/ Ask(r) \/ Answer(r) \/ ExternalFailure(r) \/ CombineSubTasks(r)
    \/ \E n \in 1..MaxSubTasks : AskForSubTasks(r, n)
    \/ \E t \in Agents \cup {NoAgent}, p \in {3, 4} : SubTask(r, t, p)
    \/ \E o \in Outcomes : Fail(r, o)

ExecNext ==
    \/ \E r \in Requests, t \in Agents \cup {NoAgent}, p \in {3, 4} : Execute(r, t, p)
    \/ \E r \in Requests : Step(r)
    \/ RestartProcess
    \/ \E a \in Agents : ResetCircuit(a) /\ UNCHANGED execVars
    \/ (Prune \/ Tick) /\ UNCHANGED execVars

ExecSpec == ExecInit /\ [][ExecNext]_allVars

\* Every provider and transport call ends, by its answer or by its timeout.
ExecFairSpec == ExecSpec /\ \A r \in Requests : WF_allVars(Step(r))

-----------------------------------------------------------------------------
(* Properties *)

\* Frames that have been counted as started and not yet as ended.
Started(r) == {i \in 1..Len(stack[r]) : stack[r][i].phase # "call"}

\* Every executeInternal call is counted once as started and once as ended,
\* through nested sub-tasks, escalations, early returns and restarts.
MetricsBalance ==
    metrics.total = metrics.success + metrics.failure + metrics.escalated
                    + Cardinality(UNION {{<<r, i>> : i \in Started(r)} : r \in Requests})

\* An agent is never left busy by a task that has ended, on any path out of it.
NoStuckAgent ==
    \A a \in Agents : status[a] = "busy" =>
        \E r \in Requests : \E i \in Started(r) : stack[r][i].agent = a

\* Every request is answered: mutual escalation and nested sub-tasks end, by
\* the depth limit if not by the breakers.
EveryRequestEnds == \A r \in Requests : result[r] = "active" ~> result[r] \in Final

\* "Loads cumulative metrics from DB so counters survive restarts"
\* (executor.ts:281), of a restart with no task in progress.
MetricsSurviveRestart == [][RestartProcess => metrics' = metrics]_allVars
=============================================================================
