--------------------------- MODULE DurableWorkflow ---------------------------
(***************************************************************************)
(* The durable workflow engine of core/durable.ts.  A call of run() or     *)
(* resume() walks the steps in topological order, awaits an approval and   *)
(* the step executor, and saves a checkpoint in SQLite after each step.    *)
(* The process may crash at any point; pause(), abort() and another        *)
(* resume() may come while a call is waiting.                              *)
(*                                                                         *)
(* Steps are named by their place in the order.  A checkpoint's `upto' is  *)
(* its stepIndex + 1: the number of steps it covers.  Two checkpoints of   *)
(* one index in the same millisecond share an id and the later replaces    *)
(* the earlier; a reader may get either in any case.                       *)
(***************************************************************************)
EXTENDS Naturals, FiniteSets

CONSTANTS
    N,             \* number of steps
    DependsOn,     \* step.dependsOn
    Approval,      \* options.approvalRequired
    Ids,           \* workflow ids
    Rebuilds,      \* is the workflow built again, with a new id, by a new process?
    Loops,         \* calls of executeFrom that may overlap
    MaxRuns        \* bound: how often run() is called

Steps == 1..N

ASSUME WorkflowAssumption ==
    /\ N \in Nat \ {0} /\ MaxRuns \in Nat /\ Rebuilds \in BOOLEAN
    /\ Approval \subseteq Steps
    /\ DependsOn \in [Steps -> SUBSET Steps]
    /\ \A s \in Steps : \A d \in DependsOn[s] : d < s

VARIABLES
    status,        \* this.status, shared by all calls on the object
    wfId,          \* this.workflow.id
    loops,         \* the calls of executeFrom
    checkpoints,   \* the table workflow_checkpoints
    runs           \* history: calls of run()

vars == <<status, wfId, loops, checkpoints, runs>>

\* What the accumulated state tells: the run it belongs to and the steps whose
\* results it holds.
State == [run : 0..MaxRuns, done : SUBSET Steps]
Checkpoint == [wf : Ids, upto : 0..N, st : State]
Ended == {"idle", "completed", "paused", "aborted", "failed"}
Loop == [pc : Ended \cup {"check", "approve", "exec"}, i : 1..(N + 1), st : State,
         completed : SUBSET Steps]

Idle == [pc |-> "idle", i |-> 1, st |-> [run |-> 0, done |-> {}], completed |-> {}]

TypeOK ==
    /\ status \in {"running", "paused", "aborted", "completed", "failed"}
    /\ wfId \in Ids
    /\ loops \in [Loops -> Loop]
    /\ checkpoints \subseteq Checkpoint
    /\ runs \in 0..MaxRuns

Init ==
    /\ status = "running"
    /\ wfId \in Ids
    /\ loops = [l \in Loops |-> Idle]
    /\ checkpoints = {}
    /\ runs = 0

-----------------------------------------------------------------------------
(* Calls *)

\* executeFrom() starts: the steps before i count as completed.
Begin(l, i, st) ==
    /\ loops[l].pc \in Ended
    /\ status' = "running"
    /\ loops' = [loops EXCEPT ![l] = [pc |-> "check", i |-> i, st |-> st,
                                      completed |-> 1..(i - 1)]]

Run(l) ==
    /\ runs < MaxRuns
    /\ Begin(l, 1, [run |-> runs + 1, done |-> {}])
    /\ runs' = runs + 1
    /\ UNCHANGED <<wfId, checkpoints>>

\* getLatestCheckpoint(): ORDER BY step_index DESC LIMIT 1.
AnyCheckpoint(id) == {c \in checkpoints : c.wf = id}     \* seeded fault: no ORDER BY
Latest(id) ==
    {c \in checkpoints : c.wf = id /\ \A d \in checkpoints : d.wf = id => d.upto <= c.upto}

RepeatLast(c) == IF c.upto = 0 THEN 1 ELSE c.upto        \* seeded fault: no + 1
SkipStep(c) == c.upto + 2                                \* seeded fault: one too far
NextStep(c) == c.upto + 1

Resume(l) ==
    /\ \E id \in Ids : \E c \in Latest(id) : Begin(l, NextStep(c), c.st)
    /\ UNCHANGED <<wfId, checkpoints, runs>>

Pause ==
    /\ status' = "paused"
    /\ UNCHANGED <<wfId, loops, checkpoints, runs>>

Abort ==
    /\ status' = "aborted"
    /\ UNCHANGED <<wfId, loops, checkpoints, runs>>

\* cleanup(), "for a completed workflow".
Cleanup ==
    /\ status = "completed" /\ \A l \in Loops : loops[l].pc \in Ended
    /\ checkpoints' = {c \in checkpoints : c.wf # wfId}
    /\ UNCHANGED <<status, wfId, loops, runs>>

\* The process dies and a new one makes its DurableWorkflow.
Crash ==
    /\ loops' = [l \in Loops |-> Idle]
    /\ status' = "running"
    /\ wfId' \in IF Rebuilds THEN Ids \ {wfId} ELSE {wfId}
    /\ UNCHANGED <<checkpoints, runs>>

-----------------------------------------------------------------------------
(* The loop of executeFrom *)

Ends(l, how) == loops' = [loops EXCEPT ![l].pc = how]

DepsMet(loop) == DependsOn[loop.i] \subseteq loop.completed

\* From the top of the loop to the next await.
Check(l) ==
    /\ loops[l].pc = "check"
    /\ \/ /\ loops[l].i > N
          /\ status' = "completed" /\ Ends(l, "completed")
       \/ /\ loops[l].i <= N /\ status \in {"paused", "aborted"}
          /\ Ends(l, status) /\ UNCHANGED status
       \/ /\ loops[l].i <= N /\ status \notin {"paused", "aborted"}
          /\ IF ~DepsMet(loops[l])
             THEN loops' = [loops EXCEPT ![l].i = @ + 1]
             ELSE Ends(l, IF loops[l].i \in Approval THEN "approve" ELSE "exec")
          /\ UNCHANGED status
    /\ UNCHANGED <<wfId, checkpoints, runs>>

SaveForward(upto, st) == checkpoints' = checkpoints \cup {[wf |-> wfId, upto |-> upto + 1, st |-> st]}
Save(upto, st) == checkpoints' = checkpoints \cup {[wf |-> wfId, upto |-> upto, st |-> st]}

Approved(l) ==
    /\ loops[l].pc = "approve"
    /\ Ends(l, "exec")
    /\ UNCHANGED <<status, wfId, checkpoints, runs>>

NotApproved(l) ==
    /\ loops[l].pc = "approve"
    /\ Save(loops[l].i - 1, loops[l].st)
    /\ status' = "paused" /\ Ends(l, "paused")
    /\ UNCHANGED <<wfId, runs>>

Merge(st, s) == [st EXCEPT !.done = @ \cup {s}]

StuckAfter(loop) == [loop EXCEPT !.pc = "check", !.completed = @ \cup {loop.i}]  \* seeded fault
\* The result is merged and the loop goes on with the next step.
After(loop) ==
    [pc |-> "check", i |-> loop.i + 1, st |-> Merge(loop.st, loop.i),
     completed |-> loop.completed \cup {loop.i}]

StepSucceeds(l) ==
    /\ loops[l].pc = "exec"
    /\ Save(loops[l].i, After(loops[l]).st)
    /\ loops' = [loops EXCEPT ![l] = After(@)]
    /\ UNCHANGED <<status, wfId, runs>>

StepFails(l) ==
    /\ loops[l].pc = "exec"
    /\ Save(loops[l].i - 1, loops[l].st)
    /\ status' = "failed" /\ Ends(l, "failed")
    /\ UNCHANGED <<wfId, runs>>

\* The step is checkpointed, then onStepComplete() throws into the same catch,
\* which saves the checkpoint of a failure too.
CallbackFails(l) ==
    /\ loops[l].pc = "exec"
    /\ LET st == Merge(loops[l].st, loops[l].i)
       IN /\ checkpoints' = checkpoints \cup {[wf |-> wfId, upto |-> loops[l].i, st |-> st],
                                              [wf |-> wfId, upto |-> loops[l].i - 1, st |-> st]}
          /\ loops' = [loops EXCEPT ![l].pc = "failed", ![l].st = st,
                                    ![l].completed = @ \cup {loops[l].i}]
    /\ status' = "failed"
    /\ UNCHANGED <<wfId, runs>>

StepEnds(l) == StepSucceeds(l) \/ StepFails(l) \/ CallbackFails(l)

Next ==
    \/ Pause \/ Abort \/ Cleanup \/ Crash
    \/ \E l \in Loops : Run(l) \/ Resume(l) \/ Check(l) \/ Approved(l) \/ NotApproved(l) \/ StepEnds(l)

Spec == Init /\ [][Next]_vars

\* A call goes on by itself, and the step executor answers or fails; whether a
\* person approves, and when, is not assumed.
FairSpec == Spec /\ \A l \in Loops : WF_vars(Check(l)) /\ WF_vars(StepEnds(l))

-----------------------------------------------------------------------------
(* Properties *)

Prefix(n) == 1..n

\* The results a call holds are those of the steps before the one it is at,
\* whatever was paused, failed, crashed and resumed before: none is skipped,
\* though a resumed call trusts the number in the checkpoint alone.
HoldsPrefix ==
    \A l \in Loops : loops[l].pc \in {"check", "approve", "exec"} =>
        Prefix(loops[l].i - 1) \subseteq loops[l].st.done

\* "Skip this step -- dependencies not met (shouldn't happen with topo sort)"
\* (durable.ts:191): when a step is considered its dependencies are completed.
NeverSkips ==
    \A l \in Loops : loops[l].pc = "check" /\ loops[l].i <= N => DepsMet(loops[l])

\* A checkpoint holds the results of all the steps it covers, so resume()
\* never hands a step a state that lacks the results it depends on.
CheckpointComplete == \A c \in checkpoints : Prefix(c.upto) \subseteq c.st.done

\* "All steps completed" (durable.ts:252): so is the work, crashes included.
CompletedHasAll == \A l \in Loops : loops[l].pc = "completed" => loops[l].st.done = Steps

\* Calls and checkpoints never lack the result of a step that is behind them,
\* in any order of runs, pauses, resumptions, failures and crashes.
NothingMissing == HoldsPrefix /\ NeverSkips /\ CheckpointComplete /\ CompletedHasAll

\* A call that is not waiting for an approval comes to an end or to one.
CallEnds ==
    \A l \in Loops : loops[l].pc \in {"check", "exec"} ~> loops[l].pc \notin {"check", "exec"}

\* "On crash/restart, they resume from the last checkpoint" (durable.ts:5): a
\* step that starts is not covered by a checkpoint of its run.
NoRedo ==
    [][\A l \in Loops :
         loops[l].pc \in {"check", "approve"} /\ loops'[l].pc = "exec" =>
           \A c \in checkpoints : c.st.run = loops[l].st.run => c.upto < loops[l].i]_vars

\* The promise of DurableProgress, for one run of a workflow that keeps its id.
Committed == CHOOSE n \in 0..N : /\ n = 0 \/ \E c \in checkpoints : c.upto = n
                                 /\ \A c \in checkpoints : c.upto <= n
Attempting == LET executing == {l \in Loops : loops[l].pc = "exec"}
              IN IF executing = {} THEN 0 ELSE loops[CHOOSE l \in executing : TRUE].i
Progress == INSTANCE DurableProgress WITH committed <- Committed, attempt <- Attempting
ImplementsProgress == Progress!Spec
=============================================================================
