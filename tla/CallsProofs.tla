---------------------------- MODULE CallsProofs -----------------------------
(***************************************************************************)
(* Proofs about the components of CallsMC.tla for any jobs, servers, calls *)
(* and bounds: who waits is known to whom it waits for, the MCP pool's     *)
(* counts are true, hooks run alone and shutdowns leave nothing open; the  *)
(* workflow engine repeats no checkpointed step and commits in order, for  *)
(* every acyclic workflow, any number of overlapping calls, ids and runs.  *)
(***************************************************************************)
EXTENDS CallsMC, FiniteSetTheorems, SequenceTheorems, TLAPS

-----------------------------------------------------------------------------
(* The workflow engine *)

\* What a call marks as completed before a step are all the steps before it.
MarksPrefix ==
    \A l \in Loops : loops[l].pc \in {"check", "approve", "exec"} =>
        Prefix(loops[l].i - 1) \subseteq loops[l].completed

\* A call that waits is at a step.
AtStep == \A l \in Loops : loops[l].pc \in {"approve", "exec"} => loops[l].i \in Steps

\* What makes the parts inductive together: resume() trusts checkpoints, so
\* they must be complete; checkpoints are written from what calls hold.
IInv == TypeOK /\ AtStep /\ HoldsPrefix /\ MarksPrefix /\ CheckpointComplete /\ CompletedHasAll

LEMMA ConstantFacts ==
    /\ N \in Nat /\ N > 0 /\ MaxRuns \in Nat
    /\ \A s \in Steps : DependsOn[s] \subseteq Prefix(s - 1)
<1>1. N \in Nat /\ N > 0 /\ MaxRuns \in Nat
  BY WorkflowAssumption
<1>2. ASSUME NEW s \in Steps, NEW d \in DependsOn[s] PROVE d \in Prefix(s - 1)
  BY WorkflowAssumption DEF Steps, Prefix
<1> QED
  BY <1>1, <1>2

\* The workflow starts in the invariant.
THEOREM InitInv == Init => IInv
<1> SUFFICES ASSUME Init PROVE IInv
  OBVIOUS
<1> USE ConstantFacts DEF Init, Idle
<1>1. Idle \in Loop
  BY DEF Loop, Ended, State
<1>2. TypeOK
  BY <1>1 DEF TypeOK, Checkpoint
<1>3. AtStep /\ HoldsPrefix /\ MarksPrefix /\ CheckpointComplete /\ CompletedHasAll
  BY DEF AtStep, HoldsPrefix, MarksPrefix, CheckpointComplete, CompletedHasAll
<1> QED
  BY <1>2, <1>3 DEF IInv

\* A call that starts holds the prefix it is told to skip.
LEMMA BeginInv ==
    ASSUME IInv, NEW l \in Loops, NEW i \in 1..(N + 1), NEW st,
           Begin(l, i, st), runs \in 0..MaxRuns, runs' \in 0..MaxRuns, st \in State,
           Prefix(i - 1) \subseteq st.done, UNCHANGED <<wfId, checkpoints>>
    PROVE  IInv'
<1> DEFINE new == [pc |-> "check", i |-> i, st |-> st, completed |-> 1..(i - 1)]
<1> USE ConstantFacts DEF IInv
<1>1. loops' = [loops EXCEPT ![l] = new] /\ status' = "running"
  BY DEF Begin
<1>2. new \in Loop
  BY DEF Loop, Steps
<1>3. TypeOK'
  BY <1>1, <1>2 DEF TypeOK
<1>4. \A k \in Loops : loops'[k] = IF k = l THEN new ELSE loops[k]
  BY <1>1 DEF TypeOK
<1>5. AtStep' /\ HoldsPrefix' /\ MarksPrefix' /\ CompletedHasAll'
  BY <1>4 DEF AtStep, HoldsPrefix, MarksPrefix, CompletedHasAll, Prefix
<1>6. CheckpointComplete'
  BY DEF CheckpointComplete
<1> QED
  BY <1>3, <1>5, <1>6

\* One call moves on: the others and their obligations are not touched.
LEMMA MoveInv ==
    ASSUME IInv, NEW l \in Loops, NEW new \in Loop,
           loops' = [loops EXCEPT ![l] = new],
           status' \in {"running", "paused", "aborted", "completed", "failed"},
           UNCHANGED <<wfId, runs>>,
           checkpoints' \subseteq Checkpoint,
           \A c \in checkpoints' : Prefix(c.upto) \subseteq c.st.done,
           new.pc \in {"approve", "exec"} => new.i \in Steps,
           new.pc \in {"check", "approve", "exec"} =>
               Prefix(new.i - 1) \subseteq new.st.done /\ Prefix(new.i - 1) \subseteq new.completed,
           new.pc = "completed" => new.st.done = Steps
    PROVE  IInv'
<1> USE DEF IInv
<1>1. TypeOK'
  BY DEF TypeOK
<1>2. \A k \in Loops : loops'[k] = IF k = l THEN new ELSE loops[k]
  BY DEF TypeOK
<1>3. AtStep' /\ HoldsPrefix' /\ MarksPrefix' /\ CompletedHasAll'
  BY <1>2 DEF AtStep, HoldsPrefix, MarksPrefix, CompletedHasAll
<1>4. CheckpointComplete'
  BY DEF CheckpointComplete
<1> QED
  BY <1>1, <1>3, <1>4

\* In the invariant a step's dependencies are always met.
LEMMA DepsAlwaysMet ==
    ASSUME IInv, NEW l \in Loops, loops[l].pc = "check", loops[l].i <= N
    PROVE  DepsMet(loops[l])
<1>1. loops[l].i \in Steps
  BY ConstantFacts DEF IInv, TypeOK, Loop, Steps
<1>2. Prefix(loops[l].i - 1) \subseteq loops[l].completed
  BY DEF IInv, MarksPrefix
<1> QED
  BY <1>1, <1>2, ConstantFacts DEF DepsMet

-----------------------------------------------------------------------------
(* Each action *)

\* run() starts at the first step with nothing held.
LEMMA RunInv == ASSUME IInv, NEW l \in Loops, Run(l) PROVE IInv'
<1>1. runs \in 0..MaxRuns /\ runs' \in 0..MaxRuns
  BY ConstantFacts DEF Run, IInv, TypeOK
<1>2. [run |-> runs + 1, done |-> {}] \in State
  BY <1>1, ConstantFacts DEF State, Run
<1>3. 1 \in 1..(N + 1) /\ Prefix(1 - 1) = {}
  BY ConstantFacts DEF Prefix
<1> QED
  BY <1>1, <1>2, <1>3, BeginInv DEF Run

\* resume() starts behind a checkpoint, which is complete.
LEMMA ResumeInv == ASSUME IInv, NEW l \in Loops, Resume(l) PROVE IInv'
<1>0. PICK id \in Ids : \E c \in Latest(id) : Begin(l, NextStep(c), c.st)
  BY DEF Resume
<1>1. PICK c \in Latest(id) : Begin(l, NextStep(c), c.st)
  BY <1>0
<1>2. c \in checkpoints /\ c \in Checkpoint
  BY DEF Latest, IInv, TypeOK
<1>3. c.upto \in 0..N /\ c.st \in State /\ Prefix(c.upto) \subseteq c.st.done
  BY <1>2 DEF Checkpoint, IInv, CheckpointComplete
<1>4. NextStep(c) \in 1..(N + 1) /\ NextStep(c) - 1 = c.upto
  BY <1>3, ConstantFacts DEF NextStep
<1>5. runs \in 0..MaxRuns /\ runs' \in 0..MaxRuns /\ UNCHANGED <<wfId, checkpoints>>
  BY DEF Resume, IInv, TypeOK
<1> QED
  BY <1>1, <1>3, <1>4, <1>5, BeginInv

\* The facts about the call of a step that the steps below start from.
LEMMA CallFacts ==
    ASSUME IInv, NEW l \in Loops
    PROVE  /\ loops \in [Loops -> Loop] /\ loops[l] \in Loop
           /\ loops[l].i \in 1..(N + 1) /\ loops[l].st \in State
           /\ loops[l].st.done \subseteq Steps /\ loops[l].completed \subseteq Steps
           /\ status \in {"running", "paused", "aborted", "completed", "failed"}
           /\ checkpoints \subseteq Checkpoint
           /\ \A c \in checkpoints : Prefix(c.upto) \subseteq c.st.done
           /\ loops[l].pc \in {"approve", "exec"} => loops[l].i \in Steps
           /\ loops[l].pc \in {"check", "approve", "exec"} =>
                /\ Prefix(loops[l].i - 1) \subseteq loops[l].st.done
                /\ Prefix(loops[l].i - 1) \subseteq loops[l].completed
  BY DEF IInv, TypeOK, Loop, State, AtStep, HoldsPrefix, MarksPrefix, CheckpointComplete

\* Only where a call is changes: what it holds stays.
LEMMA EndsInv ==
    ASSUME IInv, NEW l \in Loops, NEW how \in Ended \cup {"check", "approve", "exec"},
           Ends(l, how), UNCHANGED <<wfId, runs>>,
           status' \in {"running", "paused", "aborted", "completed", "failed"},
           checkpoints' \subseteq Checkpoint,
           \A c \in checkpoints' : Prefix(c.upto) \subseteq c.st.done,
           how \in {"approve", "exec"} => loops[l].i \in Steps,
           how \in {"check", "approve", "exec"} => loops[l].pc \in {"check", "approve", "exec"},
           how = "completed" => loops[l].st.done = Steps
    PROVE  IInv'
<1> DEFINE new == [loops[l] EXCEPT !.pc = how]
<1>1. loops \in [Loops -> Loop] /\ loops[l] \in Loop
  BY CallFacts
<1>2. /\ new \in Loop /\ new.pc = how /\ new.i = loops[l].i
      /\ new.st = loops[l].st /\ new.completed = loops[l].completed
  BY <1>1 DEF Loop
<1>3. loops' = [loops EXCEPT ![l] = new]
  BY <1>1 DEF Ends, Loop
<1> HIDE DEF new
<1>4. new.pc \in {"approve", "exec"} => new.i \in Steps
  BY <1>2
<1>5. new.pc \in {"check", "approve", "exec"} =>
        Prefix(new.i - 1) \subseteq new.st.done /\ Prefix(new.i - 1) \subseteq new.completed
  BY <1>2, CallFacts
<1>6. new.pc = "completed" => new.st.done = Steps
  BY <1>2
<1> QED
  BY <1>2, <1>3, <1>4, <1>5, <1>6, MoveInv

\* From the top of the loop: the end, a pause, or the next step, whose
\* dependencies are always met.
LEMMA CheckInv == ASSUME IInv, NEW l \in Loops, Check(l) PROVE IInv'
<1> DEFINE loop == loops[l]
<1>1. loop.pc = "check" /\ UNCHANGED <<wfId, checkpoints, runs>>
  BY DEF Check
<1>2. CASE loop.i > N /\ status' = "completed" /\ Ends(l, "completed")
  <2>1. loop.i = N + 1 /\ Prefix(N) \subseteq loop.st.done /\ loop.st.done \subseteq Steps
    BY <1>1, <1>2, CallFacts, ConstantFacts DEF Prefix
  <2>2. loop.st.done = Steps
    BY <2>1 DEF Prefix, Steps
  <2> QED
    BY <1>1, <1>2, <2>2, CallFacts, EndsInv DEF Ended
<1>3. CASE loop.i <= N /\ status \in {"paused", "aborted"} /\ Ends(l, status) /\ UNCHANGED status
  BY <1>1, <1>3, CallFacts, EndsInv DEF Ended
<1>4. CASE /\ loop.i <= N /\ status \notin {"paused", "aborted"} /\ UNCHANGED status
           /\ IF ~DepsMet(loop) THEN loops' = [loops EXCEPT ![l].i = @ + 1]
              ELSE Ends(l, IF loop.i \in Approval THEN "approve" ELSE "exec")
  <2>1. DepsMet(loop)
    BY <1>1, <1>4, DepsAlwaysMet
  <2>2. loop.i \in Steps
    BY <1>4, CallFacts, ConstantFacts DEF Steps
  <2>3. PICK how \in {"approve", "exec"} : Ends(l, how)
    BY <1>4, <2>1
  <2> QED
    BY <1>1, <1>4, <2>2, <2>3, CallFacts, EndsInv
<1> QED
  BY <1>2, <1>3, <1>4 DEF Check

\* A checkpoint of what a call holds is complete.
LEMMA SaveInv ==
    ASSUME IInv, NEW upto \in 0..N, NEW st \in State, Prefix(upto) \subseteq st.done,
           Save(upto, st)
    PROVE  /\ checkpoints' \subseteq Checkpoint
           /\ \A c \in checkpoints' : Prefix(c.upto) \subseteq c.st.done
<1>1. [wf |-> wfId, upto |-> upto, st |-> st] \in Checkpoint
  BY DEF IInv, TypeOK, Checkpoint
<1> QED
  BY <1>1 DEF Save, IInv, TypeOK, CheckpointComplete

\* An approval lets the call go on.
LEMMA ApprovedInv == ASSUME IInv, NEW l \in Loops, Approved(l) PROVE IInv'
  BY CallFacts, EndsInv DEF Approved

\* A refusal and a failure save what the call held before the step.
LEMMA GivesUpInv ==
    ASSUME IInv, NEW l \in Loops, loops[l].pc \in {"approve", "exec"},
           Save(loops[l].i - 1, loops[l].st), NEW how \in {"paused", "failed"},
           status' = how, Ends(l, how), UNCHANGED <<wfId, runs>>
    PROVE  IInv'
<1>1. loops[l].i - 1 \in 0..N
  BY CallFacts, ConstantFacts DEF Steps
<1>2. /\ checkpoints' \subseteq Checkpoint
      /\ \A c \in checkpoints' : Prefix(c.upto) \subseteq c.st.done
  BY <1>1, CallFacts, SaveInv
<1> QED
  BY <1>2, CallFacts, EndsInv DEF Ended

\* The result of a step extends the prefix by it.
LEMMA MergeFacts ==
    ASSUME IInv, NEW l \in Loops, loops[l].pc = "exec"
    PROVE  LET st == Merge(loops[l].st, loops[l].i)
               marked == loops[l].completed \cup {loops[l].i}
           IN /\ st \in State /\ Prefix(loops[l].i) \subseteq st.done
              /\ Prefix(loops[l].i - 1) \subseteq st.done
              /\ marked \subseteq Steps /\ Prefix(loops[l].i) \subseteq marked
              /\ loops[l].i \in Steps /\ loops[l].i \in 0..N /\ loops[l].i - 1 \in 0..N
              /\ loops[l].i + 1 \in 1..(N + 1) /\ (loops[l].i + 1) - 1 = loops[l].i
<1> DEFINE i == loops[l].i
           st == Merge(loops[l].st, i)
<1>1. i \in Steps /\ i \in 1..N
  BY CallFacts DEF Steps
<1>2. /\ i \in 0..N /\ i - 1 \in 0..N /\ i + 1 \in 1..(N + 1) /\ (i + 1) - 1 = i
      /\ Prefix(i) = Prefix(i - 1) \cup {i}
  BY <1>1, ConstantFacts DEF Prefix
<1>3. loops[l].st \in State
  BY CallFacts
<1>4. st.done = loops[l].st.done \cup {i} /\ st \in State
  BY <1>1, <1>3 DEF Merge, State
<1> QED
  BY <1>1, <1>2, <1>4, CallFacts

LEMMA SucceedsInv == ASSUME IInv, NEW l \in Loops, StepSucceeds(l) PROVE IInv'
<1> DEFINE new == After(loops[l])
<1>1. loops[l].pc = "exec" /\ loops' = [loops EXCEPT ![l] = new]
  BY CallFacts DEF StepSucceeds
<1>2. /\ new \in Loop /\ new.pc = "check" /\ new.i = loops[l].i + 1
      /\ new.st = Merge(loops[l].st, loops[l].i)
      /\ new.completed = loops[l].completed \cup {loops[l].i}
  BY <1>1, MergeFacts DEF After, Loop
<1>3. /\ checkpoints' \subseteq Checkpoint
      /\ \A c \in checkpoints' : Prefix(c.upto) \subseteq c.st.done
  BY <1>1, <1>2, MergeFacts, SaveInv DEF StepSucceeds
<1>4. UNCHANGED <<status, wfId, runs>>
  BY DEF StepSucceeds
<1> HIDE DEF new
<1> QED
  BY <1>1, <1>2, <1>3, <1>4, MergeFacts, CallFacts, MoveInv

\* The two checkpoints that remain when the callback throws are complete.
LEMMA CallbackInv == ASSUME IInv, NEW l \in Loops, CallbackFails(l) PROVE IInv'
<1> DEFINE st == Merge(loops[l].st, loops[l].i)
           new == [loops[l] EXCEPT !.pc = "failed", !.st = st, !.completed = @ \cup {loops[l].i}]
<1>1. loops[l].pc = "exec" /\ status' = "failed" /\ UNCHANGED <<wfId, runs>>
  BY DEF CallbackFails
<1>2. new \in Loop /\ new.pc = "failed"
  BY <1>1, MergeFacts, CallFacts DEF Loop, Ended
<1>3. loops' = [loops EXCEPT ![l] = new]
  BY CallFacts DEF CallbackFails, Loop
<1>4. /\ [wf |-> wfId, upto |-> loops[l].i, st |-> st] \in Checkpoint
      /\ [wf |-> wfId, upto |-> loops[l].i - 1, st |-> st] \in Checkpoint
  BY <1>1, MergeFacts DEF Checkpoint, IInv, TypeOK
<1>5. /\ checkpoints' \subseteq Checkpoint
      /\ \A c \in checkpoints' : Prefix(c.upto) \subseteq c.st.done
  BY <1>1, <1>4, MergeFacts, SMTT(30) DEF CallbackFails, IInv, TypeOK, CheckpointComplete
<1> HIDE DEF new
<1> QED
  BY <1>1, <1>2, <1>3, <1>5, MoveInv

\* Pausing, aborting, cleaning up and crashing keep no promise to anyone.
LEMMA OutsideInv == ASSUME IInv, Pause \/ Abort \/ Cleanup \/ Crash PROVE IInv'
<1>1. CASE Pause \/ Abort
  BY <1>1 DEF Pause, Abort, IInv, TypeOK, AtStep, HoldsPrefix, MarksPrefix,
              CheckpointComplete, CompletedHasAll
<1>2. CASE Cleanup
  BY <1>2 DEF Cleanup, IInv, TypeOK, AtStep, HoldsPrefix, MarksPrefix,
              CheckpointComplete, CompletedHasAll
<1>3. CASE Crash
  <2>1. \A l \in Loops : loops'[l].pc = "idle"
    BY <1>3 DEF Crash, Idle
  <2>2. Idle \in Loop
    BY ConstantFacts DEF Idle, Loop, Ended, State
  <2>3. TypeOK'
    BY <1>3, <2>2 DEF Crash, IInv, TypeOK
  <2>4. CheckpointComplete'
    BY <1>3 DEF Crash, IInv, CheckpointComplete
  <2> QED
    BY <2>1, <2>3, <2>4 DEF IInv, AtStep, HoldsPrefix, MarksPrefix, CompletedHasAll
<1> QED
  BY <1>1, <1>2, <1>3

\* Every step keeps the invariant.
THEOREM StepInv == IInv /\ [Next]_vars => IInv'
<1> SUFFICES ASSUME IInv, [Next]_vars PROVE IInv'
  OBVIOUS
<1>1. CASE UNCHANGED vars
  BY <1>1 DEF vars, IInv, TypeOK, AtStep, HoldsPrefix, MarksPrefix, CheckpointComplete,
              CompletedHasAll
<1>2. CASE Pause \/ Abort \/ Cleanup \/ Crash
  BY <1>2, OutsideInv
<1>3. ASSUME NEW l \in Loops,
             Run(l) \/ Resume(l) \/ Check(l) \/ Approved(l) \/ NotApproved(l) \/ StepEnds(l)
      PROVE  IInv'
  <2>1. CASE NotApproved(l) \/ StepFails(l)
    BY <2>1, GivesUpInv DEF NotApproved, StepFails
  <2> QED
    BY <1>3, <2>1, RunInv, ResumeInv, CheckInv, ApprovedInv, SucceedsInv, CallbackInv
    DEF StepEnds
<1> QED
  BY <1>1, <1>2, <1>3 DEF Next

-----------------------------------------------------------------------------
(* Theorems *)

LEMMA Invariance == Spec => []IInv
<1> QED
  BY InitInv, StepInv, PTL DEF Spec

\* Nothing that is behind a call or covered by a checkpoint is missing from it,
\* no step is skipped for unmet dependencies, and completion means all steps.
THEOREM NothingMissingEver == Spec => []NothingMissing
<1>1. IInv => NothingMissing
  BY DepsAlwaysMet DEF IInv, NeverSkips, NothingMissing
<1> QED
  BY <1>1, Invariance, PTL

-----------------------------------------------------------------------------
(* A workflow that keeps its id and is driven by one call at a time.       *)
(* Without either, work is redone: a rebuilt workflow has other            *)
(* checkpoints, and an overlapping call runs the same steps again.         *)

Active == {"check", "approve", "exec"}

\* Checkpoints are this workflow's, and a call is ahead of those of its run.
Ahead ==
    /\ \A c \in checkpoints : c.wf = wfId /\ c.st.run <= runs
    /\ \A l \in Loops : loops[l].st.run <= runs
    /\ \A l \in Loops : loops[l].pc \in Active =>
         \A c \in checkpoints : c.st.run = loops[l].st.run => c.upto < loops[l].i

\* A call that starts is ahead of the checkpoints of its run.
LEMMA BeginAhead ==
    ASSUME IInv, Ahead, NEW solo, Loops = {solo}, NEW i \in 1..(N + 1), NEW st \in State,
           Begin(solo, i, st), UNCHANGED <<wfId, checkpoints>>,
           runs' \in Nat, runs <= runs', st.run <= runs',
           \A c \in checkpoints : c.st.run = st.run => c.upto < i
    PROVE  Ahead'
<1>1. /\ loops'[solo].pc = "check" /\ loops'[solo].i = i /\ loops'[solo].st = st
      /\ checkpoints' = checkpoints /\ wfId' = wfId
  BY DEF Begin, IInv, TypeOK
<1>2. \A c \in checkpoints : c.wf = wfId /\ c.st.run \in Nat /\ c.st.run <= runs /\ runs \in Nat
  BY ConstantFacts DEF Ahead, IInv, TypeOK, Checkpoint, State
<1> QED
  BY <1>1, <1>2 DEF Ahead

\* resume() starts behind the last of all checkpoints.
LEMMA ResumeFacts ==
    ASSUME IInv, Ahead, NEW l \in Loops, Resume(l)
    PROVE  \E c \in checkpoints :
             /\ c \in Checkpoint /\ Begin(l, c.upto + 1, c.st) /\ c.upto + 1 \in 1..(N + 1)
             /\ \A d \in checkpoints : d.upto <= c.upto
<1>0. PICK id \in Ids : \E c \in Latest(id) : Begin(l, NextStep(c), c.st)
  BY DEF Resume
<1>1. PICK c \in Latest(id) : Begin(l, NextStep(c), c.st)
  BY <1>0
<1>2. c \in checkpoints /\ c.wf = id /\ \A d \in checkpoints : d.wf = id => d.upto <= c.upto
  BY DEF Latest
<1>3. \A d \in checkpoints : d.wf = id
  BY <1>2 DEF Ahead
<1>4. c \in Checkpoint /\ c.upto + 1 \in 1..(N + 1)
  BY <1>2, ConstantFacts DEF IInv, TypeOK, Checkpoint
<1> QED
  BY <1>1, <1>2, <1>3, <1>4 DEF NextStep

\* What one step of a call in executeFrom may do to it and to the checkpoints:
\* it goes on, to the next step only with a checkpoint of this one, or it ends.
LEMMA CallStep ==
    ASSUME IInv, NEW l \in Loops, Check(l) \/ Approved(l) \/ NotApproved(l) \/ StepEnds(l)
    PROVE  /\ loops[l].pc \in Active /\ UNCHANGED <<wfId, runs>>
           /\ loops' \in [Loops -> Loop] /\ loops'[l].st.run = loops[l].st.run
           /\ \/ /\ loops'[l].pc \in {"approve", "exec"} /\ loops'[l].i = loops[l].i
                 /\ loops[l].pc # "exec" /\ loops[l].i \in 1..N /\ UNCHANGED <<status, checkpoints>>
              \/ /\ loops[l].pc = "exec" /\ StepSucceeds(l) /\ UNCHANGED status
                 /\ loops'[l].pc = "check" /\ loops'[l].i = loops[l].i + 1
                 /\ \E st \in State : st.run = loops[l].st.run /\ Save(loops[l].i, st)
              \/ /\ loops'[l].pc \in Ended /\ status' = "completed" /\ loops[l].i = N + 1
                 /\ loops[l].pc = "check" /\ UNCHANGED checkpoints
              \/ /\ loops'[l].pc \in Ended /\ status' # "completed"
                 /\ \/ UNCHANGED checkpoints /\ loops[l].pc = "check"
                    \/ /\ loops[l].i - 1 \in 0..N
                       /\ Save(loops[l].i - 1, loops[l].st)
                    \/ /\ loops[l].pc = "exec"
                       /\ \E st \in State : /\ st.run = loops[l].st.run
                            /\ checkpoints' = checkpoints \cup
                                 {[wf |-> wfId, upto |-> loops[l].i, st |-> st],
                                  [wf |-> wfId, upto |-> loops[l].i - 1, st |-> st]}
<1> USE DEF Active, Ended
<1>1. /\ loops \in [Loops -> Loop] /\ loops[l] \in Loop /\ loops[l].i \in 1..(N + 1)
      /\ loops[l].st \in State /\ status \in {"running", "paused", "aborted", "completed", "failed"}
      /\ loops[l].pc \in {"approve", "exec"} => loops[l].i \in Steps
      /\ N \in Nat
  BY CallFacts, ConstantFacts
<1>2. loops' \in [Loops -> Loop]
  <2>1. IInv'
    BY CheckInv, ApprovedInv, GivesUpInv, SucceedsInv, CallbackInv
    DEF NotApproved, StepEnds, StepFails
  <2> QED BY <2>1 DEF IInv, TypeOK
<1>3. ASSUME NEW how, Ends(l, how)
      PROVE  loops'[l].pc = how /\ loops'[l].i = loops[l].i /\ loops'[l].st = loops[l].st
  BY <1>1, <1>3 DEF Ends, Loop
<1>4. CASE Check(l)
  <2>0. loops[l].pc = "check" /\ UNCHANGED <<wfId, runs, checkpoints>>
    BY <1>4 DEF Check
  <2>1. CASE loops[l].i > N /\ status' = "completed" /\ Ends(l, "completed")
    <3>1. loops[l].i = N + 1
      BY <1>1, <2>1
    <3> QED BY <2>0, <2>1, <3>1, <1>2, <1>3
  <2>2. CASE loops[l].i <= N /\ status \in {"paused", "aborted"} /\ Ends(l, status) /\ UNCHANGED status
    <3>1. loops'[l].pc \in {"paused", "aborted"} /\ status' # "completed"
      BY <2>2, <1>3
    <3> QED BY <2>0, <2>2, <3>1, <1>2, <1>3
  <2>3. CASE /\ loops[l].i <= N /\ status \notin {"paused", "aborted"} /\ UNCHANGED status
             /\ IF ~DepsMet(loops[l]) THEN loops' = [loops EXCEPT ![l].i = @ + 1]
                ELSE Ends(l, IF loops[l].i \in Approval THEN "approve" ELSE "exec")
    <3>1. PICK how \in {"approve", "exec"} : Ends(l, how)
      BY <2>0, <2>3, DepsAlwaysMet
    <3>2. loops[l].i \in 1..N
      BY <1>1, <2>3
    <3> QED BY <2>0, <2>3, <3>1, <3>2, <1>2, <1>3
  <2> QED BY <1>4, <2>1, <2>2, <2>3 DEF Check
<1>5. CASE Approved(l)
  BY <1>1, <1>2, <1>3, <1>5 DEF Approved, Steps
<1>6. CASE NotApproved(l) \/ StepFails(l)
  <2>1. loops[l].i - 1 \in 0..N
    BY <1>1, <1>6 DEF NotApproved, StepFails, Steps
  <2> QED BY <1>1, <1>2, <1>3, <1>6, <2>1 DEF NotApproved, StepFails
<1>7. CASE StepSucceeds(l)
  <2>1. loops[l].pc = "exec" /\ After(loops[l]).st = Merge(loops[l].st, loops[l].i)
    BY <1>7 DEF StepSucceeds, After
  <2>2. Merge(loops[l].st, loops[l].i) \in State /\ Merge(loops[l].st, loops[l].i).run = loops[l].st.run
    BY <1>1, <2>1, MergeFacts DEF Merge, State
  <2>3. loops'[l] = After(loops[l])
    BY <1>1, <1>7 DEF StepSucceeds
  <2>4. Save(loops[l].i, Merge(loops[l].st, loops[l].i)) /\ UNCHANGED <<status, wfId, runs>>
    BY <1>7, <2>1 DEF StepSucceeds
  <2>5. loops'[l].pc = "check" /\ loops'[l].i = loops[l].i + 1 /\ loops'[l].st.run = loops[l].st.run
    BY <2>2, <2>3 DEF After
  <2> QED BY <1>2, <1>7, <2>1, <2>2, <2>4, <2>5
<1>8. CASE CallbackFails(l)
  <2> DEFINE st == Merge(loops[l].st, loops[l].i)
  <2>1. loops[l].pc = "exec" /\ st \in State /\ st.run = loops[l].st.run
    BY <1>1, <1>8, MergeFacts DEF CallbackFails, Merge, State
  <2>2. /\ checkpoints' = checkpoints \cup {[wf |-> wfId, upto |-> loops[l].i, st |-> st],
                                            [wf |-> wfId, upto |-> loops[l].i - 1, st |-> st]}
        /\ status' = "failed" /\ UNCHANGED <<wfId, runs>>
    BY <1>8 DEF CallbackFails
  <2>3. loops'[l].pc = "failed" /\ loops'[l].st.run = loops[l].st.run
    BY <1>1, <1>8, <2>1 DEF CallbackFails, Loop
  <2> HIDE DEF st
  <2> QED BY <1>2, <2>1, <2>2, <2>3
<1> QED
  BY <1>4, <1>5, <1>6, <1>7, <1>8 DEF StepEnds

LEMMA StepAhead ==
    ASSUME IInv, Ahead, ~Rebuilds, NEW solo, Loops = {solo}, [Next]_vars
    PROVE  Ahead'
<1>1. /\ runs \in Nat /\ runs' \in Nat /\ \A c \in checkpoints : c.st.run \in Nat /\ c.upto \in Nat
      /\ loops \in [Loops -> Loop] /\ loops[solo].i \in Nat /\ loops[solo].st \in State
  <2>1. IInv'
    BY StepInv
  <2> QED BY <2>1, ConstantFacts DEF IInv, TypeOK, Checkpoint, State, Loop
<1>2. CASE Pause \/ Abort \/ Cleanup \/ UNCHANGED vars
  BY <1>2 DEF Pause, Abort, Cleanup, vars, Ahead
<1>3. CASE Crash
  BY <1>1, <1>3 DEF Crash, Ahead, Idle, Active
<1>4. CASE Run(solo)
  <2>1. [run |-> runs + 1, done |-> {}] \in State /\ 1 \in 1..(N + 1)
    BY <1>1, <1>4, ConstantFacts DEF Run, State
  <2>2. \A c \in checkpoints : c.st.run # runs + 1
    BY <1>1 DEF Ahead
  <2>3. runs' = runs + 1 /\ UNCHANGED <<wfId, checkpoints>> /\ Begin(solo, 1, [run |-> runs + 1, done |-> {}])
    BY <1>4 DEF Run
  <2> QED BY <1>1, <2>1, <2>2, <2>3, BeginAhead
<1>5. CASE Resume(solo)
  <2>1. PICK c \in checkpoints :
             /\ c \in Checkpoint /\ Begin(solo, c.upto + 1, c.st) /\ c.upto + 1 \in 1..(N + 1)
             /\ \A d \in checkpoints : d.upto <= c.upto
    BY <1>5, ResumeFacts
  <2>2. c.st \in State /\ c.st.run <= runs /\ \A d \in checkpoints : d.upto < c.upto + 1
    BY <1>1, <2>1 DEF Ahead, Checkpoint
  <2>3. UNCHANGED <<wfId, checkpoints, runs>>
    BY <1>5 DEF Resume
  <2> QED BY <1>1, <2>1, <2>2, <2>3, BeginAhead
<1>6. CASE Check(solo) \/ Approved(solo) \/ NotApproved(solo) \/ StepEnds(solo)
  <2>1. /\ loops[solo].pc \in Active /\ UNCHANGED <<wfId, runs>>
        /\ loops'[solo].st.run = loops[solo].st.run /\ loops[solo].st.run <= runs
    BY <1>6, CallStep DEF Ahead
  <2>2. CASE UNCHANGED checkpoints /\ loops'[solo].i = loops[solo].i
    BY <2>1, <2>2 DEF Ahead
  <2>3. ASSUME NEW st \in State, st.run = loops[solo].st.run, Save(loops[solo].i, st),
               loops'[solo].i = loops[solo].i + 1
        PROVE  Ahead'
    <3>1. checkpoints' = checkpoints \cup {[wf |-> wfId, upto |-> loops[solo].i, st |-> st]}
      BY <2>3 DEF Save
    <3> QED BY <1>1, <2>1, <2>3, <3>1 DEF Ahead
  <2>4. ASSUME loops'[solo].pc \in Ended,
               \A c \in checkpoints' : c \in checkpoints \/ (c.wf = wfId /\ c.st.run = loops[solo].st.run)
        PROVE  Ahead'
    BY <2>1, <2>4 DEF Ahead, Active, Ended
  <2> QED
    BY <1>6, <2>2, <2>3, <2>4, CallStep DEF Save
<1> QED
  BY <1>2, <1>3, <1>4, <1>5, <1>6 DEF Next

\* With one call at a time and a lasting id, resuming never repeats a step that a
\* checkpoint of the same run covers, however often the process crashed, the step
\* failed, the callback threw or the workflow was paused, aborted and run again.
THEOREM NeverRedone ==
    ASSUME ~Rebuilds, NEW CONSTANT solo, Loops = {solo}
    PROVE  Spec => NoRedo
<1>1. Init => Ahead
  BY DEF Init, Ahead, Idle, Active
<1>2. IInv /\ Ahead /\ [Next]_vars => Ahead'
  BY StepAhead
<1>3. IInv /\ Ahead =>
        [\A l \in Loops : loops[l].pc \in {"check", "approve"} /\ loops'[l].pc = "exec" =>
           \A c \in checkpoints : c.st.run = loops[l].st.run => c.upto < loops[l].i]_vars
  BY DEF Ahead, Active
<1> QED
  BY <1>1, <1>2, <1>3, Invariance, PTL DEF Spec, NoRedo

-----------------------------------------------------------------------------
(* One run of such a workflow commits its steps one by one: DurableProgress. *)

\* n steps are committed according to the checkpoints C.
CommittedIs(C, n) == (n = 0 \/ \E c \in C : c.upto = n) /\ \A c \in C : c.upto <= n

\* The call is at the first step that is not committed, and a workflow counts as
\* completed when all are, until its checkpoints are deleted.
InOrder ==
    /\ runs = 0 => checkpoints = {}
    /\ \A l \in Loops : loops[l].pc \in Active => runs # 0 /\ CommittedIs(checkpoints, loops[l].i - 1)
    /\ status = "completed" =>
         /\ checkpoints = {} \/ CommittedIs(checkpoints, N)
         /\ \A l \in Loops : loops[l].pc \in Ended

\* There is one such number.
LEMMA CommittedUnique ==
    ASSUME NEW C, \A c \in C : c.upto \in 0..N, NEW n \in 0..N, CommittedIs(C, n)
    PROVE  (CHOOSE m \in 0..N : (m = 0 \/ \E c \in C : c.upto = m) /\ \A c \in C : c.upto <= m) = n
<1> DEFINE Num(m) == (m = 0 \/ \E c \in C : c.upto = m) /\ \A c \in C : c.upto <= m
<1>1. Num(n)
  BY DEF CommittedIs
<1>2. ASSUME NEW m \in 0..N, Num(m) PROVE m = n
  <2>1. m <= n
    BY <1>1, <1>2, ConstantFacts
  <2>2. n <= m
    BY <1>1, <1>2, ConstantFacts
  <2> QED BY <2>1, <2>2, ConstantFacts
<1> HIDE DEF Num
<1>3. (CHOOSE m \in 0..N : Num(m)) = n
  BY <1>1, <1>2
<1> QED BY <1>3 DEF Num

\* The mapping at a state whose number of committed steps is known.
LEMMA CommittedAt ==
    ASSUME IInv, NEW n \in 0..N, CommittedIs(checkpoints, n)
    PROVE  Committed = n
<1>1. \A c \in checkpoints : c.upto \in 0..N
  BY DEF IInv, TypeOK, Checkpoint
<1> QED BY <1>1, CommittedUnique DEF Committed

LEMMA CommittedAtNext ==
    ASSUME IInv', NEW n \in 0..N, CommittedIs(checkpoints', n)
    PROVE  Committed' = n
<1>1. \A c \in checkpoints' : c.upto \in 0..N
  BY DEF IInv, TypeOK, Checkpoint
<1> QED BY <1>1, CommittedUnique DEF Committed

LEMMA AttemptingAt ==
    ASSUME NEW solo, Loops = {solo}
    PROVE  /\ Attempting = IF loops[solo].pc = "exec" THEN loops[solo].i ELSE 0
           /\ Attempting' = IF loops'[solo].pc = "exec" THEN loops'[solo].i ELSE 0
<1>1. (CHOOSE l \in {solo} : TRUE) = solo
  OBVIOUS
<1>2. CASE loops[solo].pc = "exec"
  <2>1. {l \in Loops : loops[l].pc = "exec"} = {solo}
    BY <1>2
  <2> QED BY <1>1, <1>2, <2>1 DEF Attempting
<1>3. CASE loops[solo].pc # "exec"
  <2>1. {l \in Loops : loops[l].pc = "exec"} = {}
    BY <1>3
  <2> QED BY <1>3, <2>1 DEF Attempting
<1>4. CASE loops'[solo].pc = "exec"
  <2>1. {l \in Loops : loops'[l].pc = "exec"} = {solo}
    BY <1>4
  <2> QED BY <1>1, <1>4, <2>1 DEF Attempting
<1>5. CASE loops'[solo].pc # "exec"
  <2>1. {l \in Loops : loops'[l].pc = "exec"} = {}
    BY <1>5
  <2> QED BY <1>5, <2>1 DEF Attempting
<1> QED BY <1>2, <1>3, <1>4, <1>5

\* What a call does between two awaits is an attempt, a commit, an interruption or
\* nothing to the promise.
LEMMA CallRefines ==
    ASSUME IInv, IInv', InOrder, NEW solo, Loops = {solo},
           Check(solo) \/ Approved(solo) \/ NotApproved(solo) \/ StepEnds(solo)
    PROVE  InOrder' /\ [Progress!Next]_<<Committed, Attempting>>
<1> DEFINE i == loops[solo].i
<1> USE DEF Active, Ended
<1>1. /\ loops[solo].pc \in Active /\ UNCHANGED <<wfId, runs>> /\ runs # 0
      /\ CommittedIs(checkpoints, i - 1) /\ i - 1 \in 0..N /\ i \in 1..(N + 1)
      /\ status # "completed" /\ N \in Nat
      /\ \A c \in checkpoints : c.upto \in 0..N
      /\ \A c \in checkpoints' : c.upto \in 0..N
  <2>1. loops[solo].pc \in Active /\ UNCHANGED <<wfId, runs>>
    BY CallStep
  <2>2. i \in 1..(N + 1) /\ N \in Nat
    BY CallFacts, ConstantFacts
  <2>3. /\ \A c \in checkpoints : c.upto \in 0..N
        /\ \A c \in checkpoints' : c.upto \in 0..N
    BY DEF IInv, TypeOK, Checkpoint
  <2> QED BY <2>1, <2>2, <2>3 DEF InOrder
<1>2. Committed = i - 1
  BY <1>1, CommittedAt
<1>3. /\ Attempting = IF loops[solo].pc = "exec" THEN i ELSE 0
      /\ Attempting' = IF loops'[solo].pc = "exec" THEN loops'[solo].i ELSE 0
  BY AttemptingAt
<1>4. CASE /\ loops'[solo].pc \in {"approve", "exec"} /\ loops'[solo].i = loops[solo].i
           /\ loops[solo].pc # "exec" /\ loops[solo].i \in 1..N /\ UNCHANGED <<status, checkpoints>>
  <2>1. InOrder'
    BY <1>1, <1>4 DEF InOrder
  <2>2. Committed' = Committed
    BY <1>4 DEF Committed
  <2>3. CASE loops'[solo].pc = "exec"
    <3>1. Attempting' = Committed + 1 /\ Attempting = 0 /\ Committed < N
      BY <1>1, <1>2, <1>3, <1>4, <2>3
    <3> QED BY <2>1, <2>2, <3>1 DEF Progress!Next, Progress!Attempt
  <2> QED BY <1>3, <1>4, <2>1, <2>2, <2>3
<1>5. CASE /\ loops[solo].pc = "exec" /\ StepSucceeds(solo) /\ UNCHANGED status
           /\ loops'[solo].pc = "check" /\ loops'[solo].i = loops[solo].i + 1
           /\ \E st \in State : st.run = loops[solo].st.run /\ Save(loops[solo].i, st)
  <2>1. PICK st \in State : Save(loops[solo].i, st)
    BY <1>5
  <2> DEFINE c == [wf |-> wfId, upto |-> loops[solo].i, st |-> st]
  <2>2. checkpoints' = checkpoints \cup {c} /\ c.upto = i
    BY <2>1 DEF Save
  <2> HIDE DEF c
  <2>3. i \in 0..N /\ i # 0 /\ (i + 1) - 1 = i
    BY <1>1, <2>2
  <2>4. CommittedIs(checkpoints', i)
    BY <1>1, <2>2, <2>3 DEF CommittedIs
  <2>5. InOrder'
    BY <1>1, <1>5, <2>3, <2>4 DEF InOrder
  <2>6. Committed' = i
    BY <2>3, <2>4, CommittedAtNext
  <2>7. Attempting = i /\ Attempting' = 0
    BY <1>3, <1>5
  <2> QED BY <2>3, <2>5, <2>6, <2>7 DEF Progress!Next, Progress!Commit
<1>6. CASE /\ loops'[solo].pc \in Ended /\ status' = "completed" /\ loops[solo].i = N + 1
           /\ loops[solo].pc = "check" /\ UNCHANGED checkpoints
  <2>1. CommittedIs(checkpoints', N)
    BY <1>1, <1>6
  <2>2. InOrder'
    BY <1>1, <1>6, <2>1 DEF InOrder
  <2>3. Committed' = Committed /\ Attempting' = Attempting
    BY <1>3, <1>6 DEF Committed
  <2> QED BY <2>2, <2>3
<1>7. ASSUME loops'[solo].pc \in Ended, status' # "completed"
      PROVE  InOrder' /\ Attempting' = 0
  BY <1>1, <1>3, <1>7 DEF InOrder
<1>8. CASE /\ loops'[solo].pc \in Ended /\ status' # "completed"
           /\ UNCHANGED checkpoints /\ loops[solo].pc = "check"
  <2>1. Committed' = Committed /\ Attempting = 0
    BY <1>3, <1>8 DEF Committed
  <2> QED BY <1>7, <1>8, <2>1
<1>9. CASE /\ loops'[solo].pc \in Ended /\ status' # "completed"
           /\ loops[solo].i - 1 \in 0..N /\ Save(loops[solo].i - 1, loops[solo].st)
  <2> DEFINE c == [wf |-> wfId, upto |-> loops[solo].i - 1, st |-> loops[solo].st]
  <2>1. checkpoints' = checkpoints \cup {c} /\ c.upto = i - 1
    BY <1>9 DEF Save
  <2> HIDE DEF c
  <2>2. CommittedIs(checkpoints', i - 1)
    BY <1>1, <2>1 DEF CommittedIs
  <2>3. Committed' = Committed
    BY <1>1, <1>2, <2>2, CommittedAtNext
  <2>4. CASE loops[solo].pc = "exec"
    <3>1. Attempting # 0
      BY <1>1, <1>3, <2>4
    <3> QED BY <1>7, <1>9, <2>3, <3>1 DEF Progress!Next, Progress!Interrupt
  <2> QED BY <1>3, <1>7, <1>9, <2>3, <2>4
<1>10. CASE /\ loops'[solo].pc \in Ended /\ status' # "completed" /\ loops[solo].pc = "exec"
            /\ \E st \in State : /\ st.run = loops[solo].st.run
                 /\ checkpoints' = checkpoints \cup
                      {[wf |-> wfId, upto |-> loops[solo].i, st |-> st],
                       [wf |-> wfId, upto |-> loops[solo].i - 1, st |-> st]}
  <2>1. PICK st \in State : checkpoints' = checkpoints \cup
                      {[wf |-> wfId, upto |-> loops[solo].i, st |-> st],
                       [wf |-> wfId, upto |-> loops[solo].i - 1, st |-> st]}
    BY <1>10
  <2> DEFINE c == [wf |-> wfId, upto |-> loops[solo].i, st |-> st]
             d == [wf |-> wfId, upto |-> loops[solo].i - 1, st |-> st]
  <2>2. checkpoints' = checkpoints \cup {c, d} /\ c.upto = i /\ d.upto = i - 1
    BY <2>1
  <2> HIDE DEF c, d
  <2>3. i \in 0..N /\ i # 0
    BY <1>1, <2>2
  <2>4. CommittedIs(checkpoints', i)
    BY <1>1, <2>2, <2>3 DEF CommittedIs
  <2>5. Committed' = i /\ Attempting = i
    BY <1>3, <1>10, <2>3, <2>4, CommittedAtNext
  <2> QED BY <1>7, <1>10, <2>3, <2>5 DEF Progress!Next, Progress!Commit
<1> QED
  BY <1>4, <1>5, <1>6, <1>8, <1>9, <1>10, CallStep

\* Every step of the engine is one of the promise or nothing to it.
LEMMA StepRefines ==
    ASSUME IInv, Ahead, InOrder, ~Rebuilds, MaxRuns = 1, NEW solo, Loops = {solo}, [Next]_vars
    PROVE  InOrder' /\ [Progress!Next]_<<Committed, Attempting>>
<1> USE DEF Active, Ended
<1>1. IInv' /\ N \in Nat /\ N # 0
  BY StepInv, ConstantFacts
<1>2. /\ Attempting = IF loops[solo].pc = "exec" THEN loops[solo].i ELSE 0
      /\ Attempting' = IF loops'[solo].pc = "exec" THEN loops'[solo].i ELSE 0
      /\ loops \in [Loops -> Loop] /\ loops[solo].i \in 1..(N + 1)
  <2>1. loops \in [Loops -> Loop] /\ loops[solo].i \in 1..(N + 1)
    BY CallFacts
  <2> QED BY <2>1, AttemptingAt
<1>3. ASSUME UNCHANGED checkpoints PROVE Committed' = Committed
  BY <1>3 DEF Committed
<1>4. CASE UNCHANGED vars \/ Pause \/ Abort
  BY <1>2, <1>3, <1>4 DEF vars, Pause, Abort, InOrder
<1>5. CASE Crash
  <2>1. loops'[solo].pc = "idle" /\ status' = "running" /\ UNCHANGED <<checkpoints, runs>>
    BY <1>2, <1>5 DEF Crash, Idle
  <2>2. InOrder' /\ Attempting' = 0 /\ Committed' = Committed
    BY <1>2, <1>3, <2>1 DEF InOrder
  <2> QED BY <2>2 DEF Progress!Next, Progress!Interrupt
<1>6. CASE Cleanup
  <2>1. checkpoints' = {} /\ status = "completed" /\ UNCHANGED <<status, wfId, loops, runs>>
    BY <1>6 DEF Cleanup, Ahead
  <2>2. loops[solo].pc \in Ended
    BY <1>6 DEF Cleanup
  <2>3. InOrder'
    BY <2>1, <2>2 DEF InOrder
  <2>4. Attempting' = 0 /\ Attempting = 0
    BY <1>2, <2>1, <2>2
  <2>5. CASE checkpoints = {}
    BY <1>3, <2>1, <2>3, <2>4, <2>5
  <2>6. CASE CommittedIs(checkpoints, N)
    <3>1. Committed = N
      BY <1>1, <2>6, CommittedAt
    <3>2. CommittedIs(checkpoints', 0)
      BY <2>1 DEF CommittedIs
    <3>3. Committed' = 0
      BY <1>1, <3>2, CommittedAtNext
    <3> QED BY <2>3, <2>4, <3>1, <3>3 DEF Progress!Next, Progress!Forget
  <2> QED BY <2>1, <2>5, <2>6 DEF InOrder
<1>7. CASE Run(solo)
  <2>1. runs = 0 /\ runs' = 1 /\ UNCHANGED <<wfId, checkpoints>> /\ checkpoints = {}
    BY <1>7 DEF Run, IInv, TypeOK, InOrder
  <2>2. loops[solo].pc \in Ended /\ loops'[solo].pc = "check" /\ loops'[solo].i = 1 /\ status' = "running"
    BY <1>2, <1>7 DEF Run, Begin
  <2>3. InOrder'
    BY <2>1, <2>2 DEF InOrder, CommittedIs
  <2> QED BY <1>2, <1>3, <2>1, <2>2, <2>3
<1>8. CASE Resume(solo)
  <2>1. PICK c \in checkpoints :
             /\ c \in Checkpoint /\ Begin(solo, c.upto + 1, c.st) /\ c.upto + 1 \in 1..(N + 1)
             /\ \A d \in checkpoints : d.upto <= c.upto
    BY <1>8, ResumeFacts
  <2>2. /\ loops[solo].pc \in Ended /\ loops'[solo].pc = "check" /\ loops'[solo].i = c.upto + 1
        /\ status' = "running"
    BY <1>2, <2>1 DEF Begin
  <2>3. UNCHANGED <<wfId, checkpoints, runs>> /\ runs # 0
    BY <1>8, <2>1 DEF Resume, InOrder
  <2>4. c.upto \in 0..N /\ (c.upto + 1) - 1 = c.upto
    BY <2>1 DEF Checkpoint
  <2>5. CommittedIs(checkpoints', loops'[solo].i - 1)
    BY <2>1, <2>2, <2>3, <2>4 DEF CommittedIs
  <2>6. InOrder'
    BY <2>2, <2>3, <2>5 DEF InOrder
  <2> QED BY <1>2, <1>3, <2>2, <2>3, <2>6
<1>9. CASE Check(solo) \/ Approved(solo) \/ NotApproved(solo) \/ StepEnds(solo)
  BY <1>1, <1>9, CallRefines
<1> QED
  BY <1>4, <1>5, <1>6, <1>7, <1>8, <1>9 DEF Next

\* One run of a workflow that keeps its id, with one call at a time, commits its
\* steps one by one in order and attempts only the first that is not committed,
\* through every crash, failure, refusal, pause and resumption.
THEOREM CommitsInOrder ==
    ASSUME ~Rebuilds, MaxRuns = 1, NEW CONSTANT solo, Loops = {solo}
    PROVE  Spec => ImplementsProgress
<1>1. Init => Ahead /\ InOrder
  BY DEF Init, Ahead, InOrder, Idle, Active
<1>2. IInv /\ Ahead /\ [Next]_vars => Ahead'
  BY StepAhead
<1>3. IInv /\ Ahead /\ InOrder /\ [Next]_vars => InOrder' /\ [Progress!Next]_<<Committed, Attempting>>
  BY StepRefines
<1>4. Init => Progress!Init
  <2> SUFFICES ASSUME Init PROVE Committed = 0 /\ Attempting = 0
    BY DEF Progress!Init
  <2>1. CommittedIs(checkpoints, 0) /\ loops[solo].pc = "idle"
    BY DEF Init, CommittedIs, Idle
  <2> QED BY <2>1, InitInv, CommittedAt, AttemptingAt, ConstantFacts
<1> QED
  BY <1>1, <1>2, <1>3, <1>4, Invariance, PTL DEF Spec, ImplementsProgress, Progress!Spec

-----------------------------------------------------------------------------
(* Transports: the tables of waiting calls. *)

\* Only an MCP process and a federated agent have a table, and only the latter's
\* transport opens its socket again.
HasTables ==
    /\ (\E x \in Jobs : waiting[x] # {}) => transport \in {"mcp-stdio", "federation"}
    /\ \A q \in Jobs : phase[q] = "reconnecting" => transport = "federation"

TransportInv == Transports!TransportTypeOK /\ Transports!WaitersKnown /\ HasTables

LEMMA TransportInit == ASSUME Transports!TransportInit PROVE TransportInv
  BY CallsAssumption DEF Transports!TransportInit, TransportInv, Transports!TransportTypeOK,
     Transports!WaitersKnown, Transports!Ended, HasTables

\* What changes neither who runs nor who waits nor whether there is a socket.
LEMMA SameWaiters ==
    ASSUME TransportInv, Transports!TransportTypeOK', UNCHANGED <<transport, waiting>>,
           \A q \in Jobs : (phase'[q] = "running") <=> (phase[q] = "running"),
           \A q \in Jobs : phase'[q] = "reconnecting" => phase[q] = "reconnecting" \/ transport = "federation",
           \A q \in Jobs : phase[q] = "running" => on'[q] = on[q],
           \A q \in Jobs : sock[q] # "none" => sock'[q] # "none"
    PROVE  TransportInv'
  BY DEF TransportInv, Transports!WaitersKnown, Transports!TransportTypeOK, HasTables

LEMMA AcquireInv == ASSUME TransportInv, NEW q \in Jobs, Transports!Acquire(q) PROVE TransportInv'
<1> USE DEF Transports!Acquire, Transports!To
<1>1. Transports!TransportTypeOK'
  BY SMTT(30) DEF TransportInv, Transports!TransportTypeOK
<1>2. UNCHANGED <<transport, waiting>>
  OBVIOUS
<1>3. \A j \in Jobs : /\ (phase'[j] = "running") <=> (phase[j] = "running")
                      /\ phase'[j] = "reconnecting" => phase[j] = "reconnecting"
  BY DEF TransportInv, Transports!TransportTypeOK
<1>4. \A j \in Jobs : phase[j] = "running" => on'[j] = on[j]
  BY DEF TransportInv, Transports!TransportTypeOK
<1>5. \A j \in Jobs : sock[j] # "none" => sock'[j] # "none"
  BY DEF TransportInv, Transports!TransportTypeOK
<1> QED BY <1>1, <1>2, <1>3, <1>4, <1>5, SameWaiters

\* The steps of a job that do not touch a table.
LEMMA JobInv ==
    ASSUME TransportInv, NEW q \in Jobs,
           \/ Transports!Connected(q) \/ Transports!ConnectFails(q) \/ Transports!Probe(q)
           \/ Transports!Poll(q) \/ Transports!ReconnectFails(q)
    PROVE  TransportInv'
<1> USE DEF Transports!Connected, Transports!ConnectFails, Transports!Probe, Transports!Poll,
            Transports!ReconnectFails, Transports!To, Transports!PollsLeft
<1>1. Transports!TransportTypeOK'
  <2> USE DEF TransportInv, Transports!TransportTypeOK, Transports!Ended
  <2>1. CASE Transports!Connected(q)
    BY <2>1
  <2>2. CASE Transports!ConnectFails(q)
    BY <2>2
  <2>3. CASE Transports!Probe(q)
    BY <2>3
  <2>4. CASE Transports!Poll(q)
    BY <2>4, CallsAssumption DEF Transports!transports
  <2>5. CASE Transports!ReconnectFails(q)
    BY <2>5
  <2> QED BY <2>1, <2>2, <2>3, <2>4, <2>5
<1>2. UNCHANGED <<transport, waiting, on>>
  BY DEF Transports!transports
<1>3. \A j \in Jobs : /\ (phase'[j] = "running") <=> (phase[j] = "running")
                      /\ phase'[j] = "reconnecting" => phase[j] = "reconnecting"
  BY DEF TransportInv, Transports!TransportTypeOK
<1>5. \A j \in Jobs : sock[j] # "none" => sock'[j] # "none"
  BY DEF TransportInv, Transports!TransportTypeOK, Transports!transports
<1> QED BY <1>1, <1>2, <1>3, <1>5, SameWaiters

\* Runs without a table: the process and HTTP transports are not federation.
LEMMA AloneInv ==
    ASSUME TransportInv, NEW q \in Jobs,
           \/ Transports!RunAlone(q) \/ Transports!CliExits(q)
           \/ Transports!HttpAnswers(q) \/ Transports!ApiAnswers(q)
    PROVE  TransportInv'
<1> USE DEF Transports!RunAlone, Transports!CliExits, Transports!HttpAnswers, Transports!ApiAnswers,
            Transports!To, Transports!transports
<1>1. Transports!TransportTypeOK'
  BY DEF TransportInv, Transports!TransportTypeOK, Transports!Ended
<1>2. transport # "federation" /\ UNCHANGED <<transport, waiting, sock, on>>
  OBVIOUS
<1>3. \A j \in Jobs : phase'[j] # "reconnecting" \/ phase[j] = "reconnecting"
  BY DEF TransportInv, Transports!TransportTypeOK
<1>4. \A x \in Jobs : waiting[x] = {}
  BY <1>2 DEF Transports!RunAlone, TransportInv, HasTables, Transports!TransportTypeOK
<1>5. transport' # "federation" /\ \A x \in Jobs : waiting'[x] = {}
  BY <1>2, <1>4
<1>6. Transports!WaitersKnown'
  BY <1>5 DEF Transports!WaitersKnown
<1>7. \A j \in Jobs : phase'[j] # "reconnecting"
  BY <1>2, <1>3 DEF TransportInv, HasTables
<1>8. HasTables'
  BY <1>5, <1>7 DEF HasTables
<1> QED BY <1>1, <1>6, <1>8 DEF TransportInv

\* Who is put in a table runs on the transport of that table, which has a socket.
LEMMA SubmittedInv ==
    ASSUME TransportInv, NEW q \in Jobs, NEW x \in Jobs, on[q] = x,
           phase[q] \in {"ready", "reconnecting"}, transport \in {"mcp-stdio", "federation"},
           Transports!Submitted(q, x), sock'[x] # "none", UNCHANGED <<transport, on>>,
           \A y \in Jobs : sock[y] # "none" => sock'[y] # "none",
           Transports!TransportTypeOK'
    PROVE  TransportInv'
<1>1. CASE Transports!To(q, "running") /\ waiting' = [waiting EXCEPT ![x] = @ \cup {q}]
  <2>1. \A y \in Jobs : waiting'[y] = IF y = x THEN waiting[x] \cup {q} ELSE waiting[y]
    BY <1>1 DEF TransportInv, Transports!TransportTypeOK
  <2>2. \A j \in Jobs : phase'[j] = IF j = q THEN "running" ELSE phase[j]
    BY <1>1 DEF TransportInv, Transports!TransportTypeOK, Transports!To
  <2>3. Transports!WaitersKnown'
    <3>1. \A j \in Jobs : transport = "federation" /\ phase'[j] = "running" => j \in waiting'[on[j]]
      <4>1. \A j \in Jobs : on[j] \in Jobs
        BY DEF TransportInv, Transports!TransportTypeOK
      <4>2. \A j \in Jobs : transport = "federation" /\ phase'[j] = "running" =>
                            j = q \/ j \in waiting[on[j]]
        BY <2>2 DEF TransportInv, Transports!WaitersKnown
      <4> QED BY <4>1, <4>2, <2>1
    <3>2. \A j \in Jobs : waiting'[j] # {} => sock'[j] # "none"
      BY <2>1 DEF TransportInv, Transports!WaitersKnown
    <3>3. \A j, y \in Jobs : j \in waiting'[y] => phase'[j] = "running" /\ on[j] = y
      BY <2>1, <2>2 DEF TransportInv, Transports!WaitersKnown
    <3> QED BY <3>1, <3>2, <3>3 DEF Transports!WaitersKnown
  <2>4. HasTables'
    BY <2>2 DEF TransportInv, HasTables
  <2> QED BY <2>3, <2>4 DEF TransportInv
<1>2. CASE Transports!To(q, "failure") /\ waiting' = waiting
  <2>1. \A j \in Jobs : phase'[j] = IF j = q THEN "failure" ELSE phase[j]
    BY <1>2 DEF TransportInv, Transports!TransportTypeOK, Transports!To
  <2> QED BY <1>2, <2>1 DEF TransportInv, Transports!WaitersKnown, HasTables
<1> QED BY <1>1, <1>2 DEF Transports!Submitted

LEMMA SubmittedType ==
    ASSUME TransportInv, NEW q \in Jobs, NEW x \in Jobs, Transports!Submitted(q, x)
    PROVE  /\ waiting' \in [Jobs -> SUBSET Jobs]
           /\ phase' \in [Jobs -> {"none", "connecting", "ready", "reconnecting", "running", "polling"}
                                  \cup Transports!Ended]
  BY DEF TransportInv, Transports!TransportTypeOK, Transports!Submitted, Transports!To, Transports!Ended

LEMMA InvokeInv == ASSUME TransportInv, NEW q \in Jobs, Transports!Invoke(q) PROVE TransportInv'
<1>1. /\ phase[q] = "ready" /\ transport = "mcp-stdio"
      /\ UNCHANGED <<transport, chosen, dropping, healthCache, connected, sock, opener, stale, on, polls>>
  BY DEF Transports!Invoke
<1>2. on[q] \in Jobs
  BY DEF TransportInv, Transports!TransportTypeOK
<1>3. CASE Transports!Submitted(q, on[q]) /\ sock[on[q]] # "none"
  <2>1. Transports!TransportTypeOK'
    BY <1>1, <1>2, <1>3, SubmittedType DEF TransportInv, Transports!TransportTypeOK
  <2> QED BY <1>1, <1>2, <1>3, <2>1, SubmittedInv
<1>4. CASE Transports!To(q, "failure") /\ UNCHANGED waiting
  <2>1. Transports!TransportTypeOK'
    BY <1>1, <1>4 DEF TransportInv, Transports!TransportTypeOK, Transports!To, Transports!Ended
  <2>2. \A j \in Jobs : /\ (phase'[j] = "running") <=> (phase[j] = "running")
                        /\ phase'[j] = "reconnecting" => phase[j] = "reconnecting" \/ transport = "federation"
    BY <1>1, <1>4 DEF TransportInv, Transports!TransportTypeOK, Transports!To
  <2> QED BY <1>1, <1>4, <2>1, <2>2, SameWaiters
<1> QED BY <1>3, <1>4 DEF Transports!Invoke

LEMMA FederateInv == ASSUME TransportInv, NEW q \in Jobs, Transports!Federate(q) PROVE TransportInv'
<1>1. /\ phase[q] = "ready" /\ transport = "federation"
      /\ UNCHANGED <<transport, chosen, dropping, healthCache, connected, stale, on, polls>>
  BY DEF Transports!Federate
<1>2. on[q] \in Jobs
  BY DEF TransportInv, Transports!TransportTypeOK
<1>3. CASE Transports!Submitted(q, on[q]) /\ sock[on[q]] = "open" /\ UNCHANGED <<sock, opener>>
  <2>1. Transports!TransportTypeOK'
    BY <1>1, <1>2, <1>3, SubmittedType DEF TransportInv, Transports!TransportTypeOK
  <2> QED BY <1>1, <1>2, <1>3, <2>1, SubmittedInv
<1>4. CASE /\ Transports!To(q, "reconnecting") /\ UNCHANGED waiting
           /\ sock' = [sock EXCEPT ![on[q]] = "opening"] /\ opener' = [opener EXCEPT ![on[q]] = q]
  <2>1. Transports!TransportTypeOK'
    BY <1>1, <1>4 DEF TransportInv, Transports!TransportTypeOK, Transports!To
  <2>2. \A j \in Jobs : /\ (phase'[j] = "running") <=> (phase[j] = "running")
                        /\ phase'[j] = "reconnecting" => phase[j] = "reconnecting" \/ transport = "federation"
    BY <1>1, <1>4 DEF TransportInv, Transports!TransportTypeOK, Transports!To
  <2>3. \A y \in Jobs : sock[y] # "none" => sock'[y] # "none"
    BY <1>4 DEF TransportInv, Transports!TransportTypeOK
  <2> QED BY <1>1, <1>4, <2>1, <2>2, <2>3, SameWaiters
<1> QED BY <1>3, <1>4 DEF Transports!Federate

\* A reconnection that was overtaken fails, or sends on the socket that overtook it.
LEMMA ReconnectedInv == ASSUME TransportInv, NEW q \in Jobs, Transports!Reconnected(q) PROVE TransportInv'
<1> DEFINE x == on[q]
           mine == opener[x] = q /\ sock[x] = "opening"
<1>1. /\ phase[q] = "reconnecting" /\ connected' = [connected EXCEPT ![x] = TRUE]
      /\ sock' = IF mine THEN [sock EXCEPT ![x] = "open"] ELSE sock
      /\ UNCHANGED <<transport, chosen, dropping, healthCache, opener, stale, on, polls>>
  BY DEF Transports!Reconnected
<1>2. x \in Jobs
  BY DEF TransportInv, Transports!TransportTypeOK
<1>3. \A y \in Jobs : sock[y] # "none" => sock'[y] # "none"
  BY <1>1, <1>2 DEF TransportInv, Transports!TransportTypeOK
<1>4. sock' \in [Jobs -> {"none", "opening", "open", "dead"}] /\ connected' \in [Jobs -> BOOLEAN]
  BY <1>1, <1>2 DEF TransportInv, Transports!TransportTypeOK
<1>5. CASE (mine \/ sock[x] = "open") /\ Transports!Submitted(q, x)
  <2>1. Transports!TransportTypeOK'
    BY <1>1, <1>2, <1>4, <1>5, SubmittedType DEF TransportInv, Transports!TransportTypeOK
  <2>2. sock'[x] # "none" /\ transport \in {"mcp-stdio", "federation"}
    BY <1>1, <1>2, <1>5 DEF TransportInv, Transports!TransportTypeOK, HasTables
  <2> QED BY <1>1, <1>2, <1>3, <1>5, <2>1, <2>2, SubmittedInv
<1>6. CASE Transports!To(q, "failure") /\ UNCHANGED waiting
  <2>1. Transports!TransportTypeOK'
    BY <1>1, <1>4, <1>6 DEF TransportInv, Transports!TransportTypeOK, Transports!To, Transports!Ended
  <2>2. \A j \in Jobs : /\ (phase'[j] = "running") <=> (phase[j] = "running")
                        /\ phase'[j] = "reconnecting" => phase[j] = "reconnecting"
    BY <1>1, <1>6 DEF TransportInv, Transports!TransportTypeOK, Transports!To
  <2> QED BY <1>1, <1>3, <1>6, <2>1, <2>2, SameWaiters
<1> QED BY <1>5, <1>6 DEF Transports!Reconnected

\* Who is rejected is taken from the table of its transport.
LEMMA RejectInv ==
    ASSUME TransportInv, NEW x \in Jobs, waiting' = [waiting EXCEPT ![x] = {}],
           phase' = Transports!RejectAll(x) \/ (phase' = phase /\ transport # "federation"),
           UNCHANGED <<transport, on>>, \A y \in Jobs \ {x} : sock'[y] = sock[y]
    PROVE  /\ phase' \in [Jobs -> {"none", "connecting", "ready", "reconnecting", "running", "polling"}
                                  \cup Transports!Ended]
           /\ waiting' \in [Jobs -> SUBSET Jobs]
           /\ Transports!WaitersKnown' /\ HasTables'
<1>1. \A y \in Jobs : waiting'[y] = IF y = x THEN {} ELSE waiting[y]
  BY DEF TransportInv, Transports!TransportTypeOK
<1>2. \A j \in Jobs : phase'[j] \in {phase[j], IF j \in waiting[x] THEN "thrown" ELSE phase[j]}
  BY DEF TransportInv, Transports!TransportTypeOK, Transports!RejectAll
<1>3. \A j \in Jobs : transport = "federation" =>
                      phase'[j] = IF j \in waiting[x] THEN "thrown" ELSE phase[j]
  BY DEF TransportInv, Transports!TransportTypeOK, Transports!RejectAll
<1>4. \A j \in Jobs : j \notin waiting[x] => phase'[j] = phase[j]
  BY <1>2
<1>5. waiting' \in [Jobs -> SUBSET Jobs]
  BY DEF TransportInv, Transports!TransportTypeOK
<1>6. phase' \in [Jobs -> {"none", "connecting", "ready", "reconnecting", "running", "polling"}
                         \cup Transports!Ended]
  BY DEF TransportInv, Transports!TransportTypeOK, Transports!RejectAll, Transports!Ended
<1>7. Transports!WaitersKnown'
  BY <1>1, <1>3, <1>4 DEF TransportInv, Transports!WaitersKnown, Transports!TransportTypeOK
<1>8. HasTables'
  BY <1>1, <1>2 DEF TransportInv, HasTables
<1> QED BY <1>5, <1>6, <1>7, <1>8

LEMMA DisconnectInv == ASSUME TransportInv, Transports!DisconnectAgent PROVE TransportInv'
<1> DEFINE x == chosen
<1>1. /\ x \in Jobs /\ Transports!Disconnect(x) /\ dropping' \in {"agent", "all"}
      /\ UNCHANGED <<transport, chosen, healthCache, opener, on, polls>>
  BY CallsAssumption DEF TransportInv, Transports!TransportTypeOK, Transports!DisconnectAgent
<1>2. \A y \in Jobs \ {x} : sock'[y] = sock[y]
  BY <1>1 DEF TransportInv, Transports!TransportTypeOK, Transports!Disconnect
<1>3. /\ phase' \in [Jobs -> {"none", "connecting", "ready", "reconnecting", "running", "polling"}
                             \cup Transports!Ended]
      /\ waiting' \in [Jobs -> SUBSET Jobs] /\ Transports!WaitersKnown' /\ HasTables'
  BY <1>1, <1>2, RejectInv DEF Transports!Disconnect
<1>4. Transports!TransportTypeOK'
  BY <1>1, <1>3 DEF TransportInv, Transports!TransportTypeOK, Transports!Disconnect
<1> QED BY <1>3, <1>4 DEF TransportInv

LEMMA OnCloseInv == ASSUME TransportInv, NEW x \in Jobs, Transports!OnClose(x) PROVE TransportInv'
<1>1. /\ waiting' = [waiting EXCEPT ![x] = {}] /\ phase' = Transports!RejectAll(x)
      /\ UNCHANGED <<transport, chosen, dropping, healthCache, sock, opener, on, polls>>
      /\ stale' = [stale EXCEPT ![x] = FALSE] /\ connected' = [connected EXCEPT ![x] = FALSE]
  BY DEF Transports!OnClose
<1>2. /\ phase' \in [Jobs -> {"none", "connecting", "ready", "reconnecting", "running", "polling"}
                             \cup Transports!Ended]
      /\ waiting' \in [Jobs -> SUBSET Jobs] /\ Transports!WaitersKnown' /\ HasTables'
  BY <1>1, RejectInv
<1>3. Transports!TransportTypeOK'
  BY <1>1, <1>2 DEF TransportInv, Transports!TransportTypeOK
<1> QED BY <1>2, <1>3 DEF TransportInv

LEMMA DropsInv ==
    ASSUME TransportInv, Transports!Dropped \/ \E x \in Jobs : Transports!Drops(x) PROVE TransportInv'
<1>1. Transports!TransportTypeOK' /\ UNCHANGED <<transport, waiting, phase, on>>
  BY ZenonT(30) DEF TransportInv, Transports!TransportTypeOK, Transports!Dropped, Transports!Drops, Transports!jobs
<1>2. \A y \in Jobs : sock[y] # "none" => sock'[y] # "none"
  BY DEF TransportInv, Transports!TransportTypeOK, Transports!Dropped, Transports!Drops
<1> QED BY <1>1, <1>2, SameWaiters

\* Whoever is answered or timed out leaves the table it is in.
LEMMA AnsweredInv ==
    ASSUME TransportInv, NEW q \in Jobs, Transports!Reply(q) \/ Transports!TimesOut(q) PROVE TransportInv'
<1>1. /\ waiting' = [waiting EXCEPT ![on[q]] = @ \ {q}]
      /\ Transports!To(q, "success") \/ Transports!To(q, "failure")
      /\ UNCHANGED <<transport, chosen, dropping, healthCache, connected, sock, opener, stale, on, polls>>
  BY DEF Transports!Reply, Transports!TimesOut
<1>2. \A y \in Jobs : waiting'[y] = IF y = on[q] THEN waiting[y] \ {q} ELSE waiting[y]
  BY <1>1 DEF TransportInv, Transports!TransportTypeOK
<1>3. /\ \A j \in Jobs : j # q => phase'[j] = phase[j]
      /\ phase'[q] \in {"success", "failure"}
  BY <1>1 DEF TransportInv, Transports!TransportTypeOK, Transports!To
<1>4. Transports!TransportTypeOK'
  BY <1>1 DEF TransportInv, Transports!TransportTypeOK, Transports!To, Transports!Ended
<1>5. Transports!WaitersKnown' /\ HasTables'
  BY <1>1, <1>2, <1>3 DEF TransportInv, Transports!WaitersKnown, HasTables
<1> QED BY <1>4, <1>5 DEF TransportInv

LEMMA TransportStep ==
    ASSUME TransportInv, Transports!TransportNext \/ UNCHANGED transportVars PROVE TransportInv'
<1>1. CASE UNCHANGED transportVars
  BY <1>1 DEF transportVars, TransportInv, Transports!TransportTypeOK, Transports!WaitersKnown, HasTables
<1>2. CASE Transports!TransportNext
  BY <1>2, AcquireInv, JobInv, AloneInv, InvokeInv, FederateInv, ReconnectedInv, DisconnectInv,
     OnCloseInv, DropsInv, AnsweredInv DEF Transports!TransportNext, Transports!Progresses
<1> QED BY <1>1, <1>2

-----------------------------------------------------------------------------
(* The MCP pool: its places and its counts. *)

\* A call that runs has its connection.
McpInv ==
    /\ Mcp!McpTypeOK /\ Mcp!McpAccounts
    /\ \A c \in ToolCalls : call[c] = "sent" => onConn[c] \in Adds

\* What no step changes but AddServer and the steps of calls.
LEMMA SameCard == ASSUME NEW S PROVE Mcp!Cardinality(S) = Cardinality(S)
  BY DEF Mcp!Cardinality, Cardinality

LEMMA CallsOnConn ==
    ASSUME NEW a \in Adds
    PROVE  /\ Mcp!OnConn(a) \subseteq ToolCalls /\ IsFiniteSet(Mcp!OnConn(a))
           /\ Mcp!OnConn(a)' \subseteq ToolCalls
<1>1. Mcp!OnConn(a) \subseteq ToolCalls /\ Mcp!OnConn(a)' \subseteq ToolCalls
  BY DEF Mcp!OnConn
<1> QED BY <1>1, CallsAssumption, FS_Subset

LEMMA RegisteredFinite == IsFiniteSet(Mcp!Registered) /\ IsFiniteSet(Mcp!Registered')
<1>1. Mcp!Registered \subseteq Servers /\ Mcp!Registered' \subseteq Servers
  BY DEF Mcp!Registered
<1> QED BY <1>1, CallsAssumption, FS_Subset

\* Counts are as small as the calls there are.
LEMMA CountsBounded == ASSUME NEW S \in SUBSET ToolCalls PROVE Cardinality(S) \in 0..Cardinality(ToolCalls)
<1>1. Cardinality(S) \in Nat /\ Cardinality(ToolCalls) \in Nat /\ Cardinality(S) <= Cardinality(ToolCalls)
  BY CallsAssumption, FS_Subset, FS_CardinalityType
<1> QED BY <1>1

LEMMA McpInit == ASSUME Mcp!McpInit PROVE McpInv
<1>1. Mcp!McpTypeOK
  <2>1. Cardinality(ToolCalls) \in Nat
    BY CallsAssumption, FS_CardinalityType
  <2> QED BY <2>1, SameCard DEF Mcp!McpInit, Mcp!McpTypeOK
<1>2. Mcp!Registered = {} /\ limit \in Nat
  <2>1. Cardinality(Servers) \in Nat
    BY CallsAssumption, FS_CardinalityType
  <2> QED BY <2>1 DEF Mcp!McpInit, Mcp!Registered
<1>3. \A a \in Adds : Mcp!OnConn(a) = {} /\ active[a] = 0 /\ proc[a] = "none"
  BY DEF Mcp!McpInit, Mcp!OnConn
<1>4. Mcp!McpAccounts
  BY <1>2, <1>3, FS_EmptySet, CallsAssumption, SameCard DEF Mcp!McpAccounts
<1> QED BY <1>1, <1>4 DEF McpInv, Mcp!McpInit

\* A step that touches neither the places nor the calls, and starts no process.
LEMMA SamePlaces ==
    ASSUME McpInv, Mcp!McpTypeOK',
           UNCHANGED <<limit, serverOf, connections, active, call, onConn>>,
           \A a \in Adds : proc'[a] = "running" => proc[a] = "running"
    PROVE  McpInv'
<1>1. Mcp!Registered' = Mcp!Registered /\ \A a \in Adds : Mcp!OnConn(a)' = Mcp!OnConn(a)
  BY DEF Mcp!Registered, Mcp!OnConn
<1>2. Mcp!McpAccounts'
  BY <1>1 DEF McpInv, Mcp!McpAccounts
<1> QED BY <1>2 DEF McpInv

LEMMA AddServerInv == ASSUME McpInv, NEW a \in Adds, Mcp!AddServer(a) PROVE McpInv'
<1>1. /\ UNCHANGED <<http, limit, serverOf, toolIndex, active, call, onConn>> /\ serverOf[a] \in Servers
      /\ limit \in Nat /\ Cardinality(Mcp!Registered) \in Nat
  <2>1. Cardinality(Servers) \in Nat
    BY CallsAssumption, FS_CardinalityType
  <2> QED BY <2>1, RegisteredFinite, FS_CardinalityType DEF Mcp!AddServer, Mcp!config, McpInv, Mcp!McpTypeOK
<1>2. CASE Mcp!Full(Cardinality(Mcp!Registered))
  <2>1. Mcp!McpTypeOK' /\ UNCHANGED <<connections, proc>>
    BY <1>1, <1>2, SameCard DEF Mcp!AddServer, McpInv, Mcp!McpTypeOK
  <2> QED BY <1>1, <2>1, SamePlaces
<1>3. CASE ~Mcp!Full(Cardinality(Mcp!Registered))
  <2>1. /\ connections' = [connections EXCEPT ![serverOf[a]] = a]
        /\ proc' = [proc EXCEPT ![a] = IF http THEN "none" ELSE "running"]
    BY <1>3, SameCard DEF Mcp!AddServer
  <2>2. Mcp!McpTypeOK'
    BY <1>1, <1>3 DEF Mcp!AddServer, McpInv, Mcp!McpTypeOK
  <2>3. Cardinality(Mcp!Registered') <= limit
    <3>1. Mcp!Registered' \subseteq Mcp!Registered \cup {serverOf[a]}
      BY <1>1, <2>1 DEF Mcp!Registered, McpInv, Mcp!McpTypeOK
    <3>2. /\ Cardinality(Mcp!Registered \cup {serverOf[a]}) <= Cardinality(Mcp!Registered) + 1
          /\ IsFiniteSet(Mcp!Registered \cup {serverOf[a]})
          /\ Cardinality(Mcp!Registered \cup {serverOf[a]}) \in Nat
      <4>1. Cardinality(Mcp!Registered \cup {serverOf[a]}) \in
              {Cardinality(Mcp!Registered), Cardinality(Mcp!Registered) + 1}
        BY RegisteredFinite, FS_AddElement
      <4>2. Cardinality(Mcp!Registered) \in Nat /\ IsFiniteSet(Mcp!Registered \cup {serverOf[a]})
        BY RegisteredFinite, FS_AddElement, FS_CardinalityType
      <4> QED BY <4>1, <4>2
    <3>3. Cardinality(Mcp!Registered') <= Cardinality(Mcp!Registered \cup {serverOf[a]})
          /\ Cardinality(Mcp!Registered') \in Nat
      BY <3>1, <3>2, FS_Subset, FS_CardinalityType
    <3>4. Cardinality(Mcp!Registered) < limit
      BY <1>1, <1>3 DEF Mcp!Full
    <3> QED BY <1>1, <3>2, <3>3, <3>4
  <2>4. \A b \in Adds : Mcp!OnConn(b)' = Mcp!OnConn(b)
    BY <1>1 DEF Mcp!OnConn
  <2>5. ASSUME \A b, d \in Adds : serverOf[b] = serverOf[d] => b = d, NEW b \in Adds, proc'[b] = "running"
        PROVE  connections'[serverOf[b]] = b
    BY <1>1, <2>1, <2>5 DEF McpInv, Mcp!McpAccounts, Mcp!McpTypeOK
  <2>6. Mcp!McpAccounts'
    <3>1. Cardinality(Mcp!Registered)' <= limit'
      BY <1>1, <2>3
    <3> QED BY <1>1, <3>1, <2>4, <2>5, SameCard DEF McpInv, Mcp!McpAccounts
  <2> QED BY <1>1, <2>2, <2>6 DEF McpInv
<1> QED BY <1>2, <1>3

LEMMA ProgressInv ==
    ASSUME McpInv, NEW a \in Adds, Mcp!AddProgresses(a) \/ Mcp!ProcessEnds(a) PROVE McpInv'
<1> USE DEF Mcp!AddProgresses, Mcp!Initialized, Mcp!InitFails, Mcp!Discovered, Mcp!ProcessEnds, Mcp!config
<1>1. Mcp!McpTypeOK'
  BY DEF McpInv, Mcp!McpTypeOK
<1>2. UNCHANGED <<limit, serverOf, connections, active, call, onConn>>
  OBVIOUS
<1>3. \A b \in Adds : proc'[b] = "running" => proc[b] = "running"
  BY DEF McpInv, Mcp!McpTypeOK
<1> QED BY <1>1, <1>2, <1>3, SamePlaces

\* Disconnecting some connections and giving up their places, and no other.
LEMMA DisconnectedInv ==
    ASSUME McpInv, NEW S \in SUBSET Adds, Mcp!Disconnect(S),
           connections' \in [Servers -> Adds \cup {none}], toolIndex' \in Servers \cup {none},
           \A i \in Servers : connections'[i] = connections[i]
                              \/ (connections[i] \in S /\ connections'[i] = none)
    PROVE  McpInv'
<1> USE DEF Mcp!Disconnect, Mcp!config
<1>1. UNCHANGED <<http, limit, serverOf, onConn>> /\ limit \in Nat
  <2>1. Cardinality(Servers) \in Nat
    BY CallsAssumption, FS_CardinalityType
  <2> QED BY <2>1 DEF McpInv, Mcp!McpTypeOK
<1>2. \A a \in Adds : /\ proc'[a] = "running" => proc[a] = "running" /\ a \notin S
                      /\ proc'[a] \in {"none", "running", "dead"}
  BY DEF McpInv, Mcp!McpTypeOK
<1>3. \A a \in Adds : active'[a] = Cardinality(Mcp!OnConn(a)') /\ active'[a] <= MaxConcurrent
  <2>1. CASE http
    <3>1. \A a \in Adds : Mcp!OnConn(a)' = Mcp!OnConn(a)
      BY <2>1, <1>1 DEF Mcp!OnConn
    <3> QED BY <2>1, <3>1, SameCard DEF McpInv, Mcp!McpAccounts
  <2>2. CASE ~http
    <3>1. \A c \in ToolCalls : call'[c] = IF \E a \in S : c \in Mcp!OnConn(a) THEN "failed" ELSE call[c]
      BY <2>2 DEF Mcp!Rejected
    <3>2. \A a \in S : Mcp!OnConn(a)' = {}
      BY <3>1, <1>1 DEF Mcp!OnConn
    <3>3. \A a \in Adds \ S : Mcp!OnConn(a)' = Mcp!OnConn(a)
      BY <3>1, <1>1 DEF Mcp!OnConn
    <3>4. \A a \in Adds : active'[a] = IF a \in S THEN 0 ELSE active[a]
      BY <2>2
    <3>5. MaxConcurrent \in Nat
      BY CallsAssumption
    <3>6. \A a \in S : active'[a] = Cardinality(Mcp!OnConn(a)') /\ active'[a] <= MaxConcurrent
      BY <3>2, <3>4, <3>5, FS_EmptySet, SMTT(30)
    <3>7. \A a \in Adds \ S : active'[a] = Cardinality(Mcp!OnConn(a)') /\ active'[a] <= MaxConcurrent
      BY <3>3, <3>4, SameCard DEF McpInv, Mcp!McpAccounts
    <3> QED BY <3>6, <3>7
  <2> QED BY <2>1, <2>2
<1>4. Mcp!McpTypeOK'
  <2>1. active' \in [Adds -> 0..Cardinality(ToolCalls)]
    <3>1. \A a \in Adds : active'[a] \in 0..Cardinality(ToolCalls)
      BY <1>3, CountsBounded, CallsOnConn
    <3>2. DOMAIN active' = Adds /\ active' = [a \in Adds |-> active'[a]]
      BY DEF McpInv, Mcp!McpTypeOK
    <3> QED BY <3>1, <3>2
  <2>2. connStatus' \in [Adds -> {"none", "connecting", "ready", "error", "closed"}]
    BY DEF McpInv, Mcp!McpTypeOK
  <2>3. adding' \in [Adds -> {"none", "connecting", "discovering", "added", "failed"}]
    BY DEF McpInv, Mcp!McpTypeOK
  <2>4. call' \in [ToolCalls -> {"none", "sent", "answered", "failed"}]
    BY DEF McpInv, Mcp!McpTypeOK, Mcp!Rejected
  <2>5. proc' \in [Adds -> {"none", "running", "dead"}]
    BY <1>2
  <2> QED BY <1>1, <2>1, <2>2, <2>3, <2>4, <2>5, SameCard DEF McpInv, Mcp!McpTypeOK
<1>5. Cardinality(Mcp!Registered') <= limit
  <2>1. Mcp!Registered' \subseteq Mcp!Registered
    BY DEF Mcp!Registered
  <2>2. /\ Cardinality(Mcp!Registered') <= Cardinality(Mcp!Registered)
        /\ Cardinality(Mcp!Registered') \in Nat /\ Cardinality(Mcp!Registered) \in Nat
    BY <2>1, RegisteredFinite, FS_Subset, FS_CardinalityType
  <2> QED BY <1>1, <2>2, SameCard DEF McpInv, Mcp!McpAccounts
<1>6. ASSUME \A b, d \in Adds : serverOf[b] = serverOf[d] => b = d, NEW b \in Adds, proc'[b] = "running"
      PROVE  connections'[serverOf[b]] = b
  <2>1. connections[serverOf[b]] = b /\ b \notin S /\ serverOf[b] \in Servers
    BY <1>2, <1>6 DEF McpInv, Mcp!McpAccounts, Mcp!McpTypeOK
  <2> QED BY <2>1
<1>7. Mcp!McpAccounts'
  <2>1. Cardinality(Mcp!Registered)' <= limit'
    BY <1>1, <1>5
  <2> QED BY <1>1, <1>3, <1>6, <2>1, SameCard DEF Mcp!McpAccounts
<1>8. \A c \in ToolCalls : call'[c] = "sent" => call[c] = "sent"
  BY DEF Mcp!Rejected
<1> QED BY <1>1, <1>4, <1>7, <1>8 DEF McpInv

LEMMA RemovedInv ==
    ASSUME McpInv, Mcp!Stop \/ \E i \in Servers : Mcp!RemoveServer(i) \/ Mcp!CloseIdle(i) PROVE McpInv'
<1>1. ASSUME NEW i \in Servers, Mcp!RemoveServer(i) \/ Mcp!CloseIdle(i) PROVE McpInv'
  <2> DEFINE S == {connections[i]}
  <2>1. /\ S \in SUBSET Adds /\ Mcp!Disconnect(S) /\ connections' = [connections EXCEPT ![i] = none]
        /\ toolIndex' \in Servers \cup {none}
    BY <1>1 DEF Mcp!RemoveServer, Mcp!CloseIdle, McpInv, Mcp!McpTypeOK
  <2>2. /\ connections' \in [Servers -> Adds \cup {none}]
        /\ \A j \in Servers : connections'[j] = connections[j] \/ (connections[j] \in S /\ connections'[j] = none)
    BY <2>1 DEF McpInv, Mcp!McpTypeOK
  <2> HIDE DEF S
  <2> QED BY <2>1, <2>2, DisconnectedInv
<1>2. CASE Mcp!Stop
  <2> DEFINE S == {connections[i] : i \in Mcp!Registered}
  <2>1. /\ S \in SUBSET Adds /\ Mcp!Disconnect(S) /\ connections' = [i \in Servers |-> none]
        /\ toolIndex' \in Servers \cup {none}
    BY <1>2 DEF Mcp!Stop, McpInv, Mcp!McpTypeOK, Mcp!Registered
  <2>2. /\ connections' \in [Servers -> Adds \cup {none}]
        /\ \A j \in Servers : connections'[j] = connections[j] \/ (connections[j] \in S /\ connections'[j] = none)
    BY <2>1 DEF McpInv, Mcp!McpTypeOK, Mcp!Registered
  <2> HIDE DEF S
  <2> QED BY <2>1, <2>2, DisconnectedInv
<1> QED BY <1>1, <1>2

\* A call is on one connection, whose count follows it.
LEMMA CallToolInv == ASSUME McpInv, NEW c \in ToolCalls, Mcp!CallTool(c) PROVE McpInv'
<1>1. call[c] = "none" /\ UNCHANGED <<http, limit, serverOf, connections, toolIndex, connStatus, proc, adding>>
  BY DEF Mcp!CallTool, Mcp!config
<1>2. CASE call' = [call EXCEPT ![c] = "failed"] /\ UNCHANGED <<onConn, active>>
  <2>1. \A a \in Adds : Mcp!OnConn(a)' = Mcp!OnConn(a)
    BY <1>1, <1>2 DEF Mcp!OnConn, McpInv, Mcp!McpTypeOK
  <2>2. Mcp!McpTypeOK' /\ Mcp!Registered' = Mcp!Registered
    BY <1>1, <1>2 DEF McpInv, Mcp!McpTypeOK, Mcp!Registered
  <2>3. Mcp!McpAccounts'
    BY <1>1, <1>2, <2>1, <2>2 DEF McpInv, Mcp!McpAccounts
  <2> QED BY <1>1, <1>2, <2>2, <2>3 DEF McpInv, Mcp!McpTypeOK
<1>3. ASSUME NEW a \in Adds, active[a] < MaxConcurrent, call' = [call EXCEPT ![c] = "sent"],
             onConn' = [onConn EXCEPT ![c] = a], active' = [active EXCEPT ![a] = @ + 1]
      PROVE  McpInv'
  <2>1. Mcp!OnConn(a)' = Mcp!OnConn(a) \cup {c} /\ c \notin Mcp!OnConn(a)
    BY <1>1, <1>3 DEF Mcp!OnConn, McpInv, Mcp!McpTypeOK
  <2>2. \A b \in Adds \ {a} : Mcp!OnConn(b)' = Mcp!OnConn(b)
    BY <1>1, <1>3 DEF Mcp!OnConn, McpInv, Mcp!McpTypeOK
  <2>3. Cardinality(Mcp!OnConn(a)') = Cardinality(Mcp!OnConn(a)) + 1 /\ active[a] \in Nat
    BY <2>1, CallsOnConn, FS_AddElement, FS_CardinalityType, SameCard DEF McpInv, Mcp!McpAccounts
  <2>4. \A b \in Adds : active'[b] = IF b = a THEN active[a] + 1 ELSE active[b]
    BY <1>3 DEF McpInv, Mcp!McpTypeOK
  <2>5. \A b \in Adds : active'[b] = Cardinality(Mcp!OnConn(b)') /\ active'[b] <= MaxConcurrent
    <3>1. active'[a] = Cardinality(Mcp!OnConn(a)') /\ active'[a] <= MaxConcurrent
      BY <1>3, <2>3, <2>4, CallsAssumption, SameCard DEF McpInv, Mcp!McpAccounts
    <3>2. \A b \in Adds \ {a} : active'[b] = Cardinality(Mcp!OnConn(b)') /\ active'[b] <= MaxConcurrent
      BY <2>2, <2>4, SameCard DEF McpInv, Mcp!McpAccounts
    <3> QED BY <3>1, <3>2
  <2>6. active' \in [Adds -> 0..Cardinality(ToolCalls)]
    <3>1. \A b \in Adds : active'[b] \in 0..Cardinality(ToolCalls)
      BY <2>5, CountsBounded, CallsOnConn
    <3>2. active' = [b \in Adds |-> active'[b]]
      BY <1>3 DEF McpInv, Mcp!McpTypeOK
    <3> QED BY <3>1, <3>2
  <2>7. Mcp!McpTypeOK' /\ Mcp!Registered' = Mcp!Registered
    BY <1>1, <1>3, <2>6, SameCard DEF McpInv, Mcp!McpTypeOK, Mcp!Registered
  <2>8. Mcp!McpAccounts'
    BY <1>1, <2>5, <2>7, SameCard DEF McpInv, Mcp!McpAccounts
  <2> QED BY <1>1, <1>3, <2>7, <2>8 DEF McpInv, Mcp!McpTypeOK
<1>4. toolIndex # none => connections[toolIndex] \in Adds \cup {none}
  BY DEF McpInv, Mcp!McpTypeOK
<1> QED BY <1>2, <1>3, <1>4 DEF Mcp!CallTool, Mcp!HasRoom

LEMMA CallEndsInv == ASSUME McpInv, NEW c \in ToolCalls, Mcp!CallEnds(c) PROVE McpInv'
<1> PICK a \in Adds : a = onConn[c]
  BY DEF Mcp!CallEnds, McpInv
<1>1. /\ call[c] = "sent" /\ onConn[c] = a /\ active' = [active EXCEPT ![a] = @ - 1]
      /\ UNCHANGED <<http, limit, serverOf, connections, toolIndex, connStatus, proc, adding, onConn>>
  BY DEF Mcp!CallEnds, Mcp!config
<1>2. PICK r \in {"failed", "answered"} : call' = [call EXCEPT ![c] = r]
  BY DEF Mcp!CallEnds
<1>3. Mcp!OnConn(a)' = Mcp!OnConn(a) \ {c} /\ c \in Mcp!OnConn(a)
  BY <1>1, <1>2 DEF Mcp!OnConn, McpInv, Mcp!McpTypeOK
<1>4. \A b \in Adds \ {a} : Mcp!OnConn(b)' = Mcp!OnConn(b)
  BY <1>1, <1>2 DEF Mcp!OnConn, McpInv, Mcp!McpTypeOK
<1>5. /\ Cardinality(Mcp!OnConn(a)') = Cardinality(Mcp!OnConn(a)) - 1
      /\ Cardinality(Mcp!OnConn(a)) \in Nat
  BY <1>1, <1>3, CallsOnConn, FS_RemoveElement, FS_CardinalityType
<1>6. \A b \in Adds : active'[b] = IF b = a THEN active[a] - 1 ELSE active[b]
  BY <1>1 DEF McpInv, Mcp!McpTypeOK
<1>7. \A b \in Adds : active'[b] = Cardinality(Mcp!OnConn(b)') /\ active'[b] <= MaxConcurrent
  <2>1. active'[a] = Cardinality(Mcp!OnConn(a)') /\ active'[a] <= MaxConcurrent
    <3>1. active[a] = Cardinality(Mcp!OnConn(a)) /\ active[a] <= MaxConcurrent
      BY <1>1, SameCard DEF McpInv, Mcp!McpAccounts
    <3> QED BY <1>1, <1>5, <1>6, <3>1, CallsAssumption
  <2>2. \A b \in Adds \ {a} : active'[b] = Cardinality(Mcp!OnConn(b)') /\ active'[b] <= MaxConcurrent
    BY <1>4, <1>6, SameCard DEF McpInv, Mcp!McpAccounts
  <2> QED BY <2>1, <2>2
<1>8. active' \in [Adds -> 0..Cardinality(ToolCalls)]
  <2>1. \A b \in Adds : active'[b] \in 0..Cardinality(ToolCalls)
    BY <1>7, CountsBounded, CallsOnConn
  <2>2. active' = [b \in Adds |-> active'[b]]
    BY <1>1 DEF McpInv, Mcp!McpTypeOK
  <2> QED BY <2>1, <2>2
<1>9. Mcp!McpTypeOK' /\ Mcp!Registered' = Mcp!Registered
  BY <1>1, <1>2, <1>8, SameCard DEF McpInv, Mcp!McpTypeOK, Mcp!Registered
<1>10. Mcp!McpAccounts'
  BY <1>1, <1>7, <1>9, SameCard DEF McpInv, Mcp!McpAccounts
<1> QED BY <1>1, <1>2, <1>9, <1>10 DEF McpInv, Mcp!McpTypeOK

LEMMA McpStep == ASSUME McpInv, Mcp!McpNext \/ UNCHANGED mcpVars PROVE McpInv'
<1>1. CASE UNCHANGED mcpVars
  BY <1>1 DEF mcpVars, McpInv, Mcp!McpTypeOK, Mcp!McpAccounts, Mcp!Registered, Mcp!OnConn
<1>2. CASE Mcp!McpNext
  BY <1>2, AddServerInv, ProgressInv, RemovedInv, CallToolInv, CallEndsInv DEF Mcp!McpNext
<1> QED BY <1>1, <1>2

-----------------------------------------------------------------------------
(* The hook: one event runs, the later ones wait in the order they happened. *)

Increasing(s) == \A i, j \in 1..Len(s) : i < j => s[i] < s[j]

\* While it is not disposed: one event runs, no event of the queue is older than it,
\* or newer than a later one of the queue, and none is still to come.
EventsInOrder ==
    ~disposed =>
        /\ \A e, f \in executing : e = f
        /\ runningHook <=> executing # {}
        /\ runningHook => pending = none
        /\ ~runningHook => queue = <<>>
        /\ Increasing(queue)
        /\ \A i \in 1..Len(queue) : queue[i] <= happened /\ \A e \in executing : e < queue[i]
        /\ \A e \in executing : e <= happened
        /\ pending # none => pending <= happened

HooksInv == Hooks!HooksTypeOK /\ EventsInOrder

\* The library's definition of bounded sequences, in the words of the provers.
LEMMA QueueType ==
    ASSUME NEW s
    PROVE  s \in Hooks!BoundedSeq(Hooks!Events, MaxQueued) <=>
           s \in Seq(Hooks!Events) /\ Len(s) <= MaxQueued
<1>1. s \in Hooks!BoundedSeq(Hooks!Events, MaxQueued) <=>
      \E m \in 0..MaxQueued : s \in [1..m -> Hooks!Events]
  BY DEF Hooks!BoundedSeq, Hooks!SeqOf
<1>2. ASSUME NEW m \in 0..MaxQueued, s \in [1..m -> Hooks!Events]
      PROVE  s \in Seq(Hooks!Events) /\ Len(s) <= MaxQueued
  BY <1>2, CallsAssumption
<1>3. ASSUME s \in Seq(Hooks!Events), Len(s) <= MaxQueued
      PROVE  Len(s) \in 0..MaxQueued /\ s \in [1..Len(s) -> Hooks!Events]
  BY <1>3, CallsAssumption
<1> QED BY <1>1, <1>2, <1>3

LEMMA EmptyQueue == <<>> \in Hooks!BoundedSeq(Hooks!Events, MaxQueued)
<1>1. <<>> \in Seq(Hooks!Events) /\ Len(<<>>) = 0
  OBVIOUS
<1>2. Len(<<>>) <= MaxQueued
  BY <1>1, CallsAssumption
<1> QED BY <1>1, <1>2, QueueType

LEMMA EventsAreNumbers == Hooks!Events \subseteq Nat /\ \A e \in Hooks!Events : e \in 0..MaxFileEvents
  BY CallsAssumption DEF Hooks!Events

LEMMA AtMostOne == ASSUME NEW S, \A e, f \in S : e = f PROVE Hooks!Cardinality(S) <= 1
<1>1. Hooks!Cardinality(S) = Cardinality(S)
  BY DEF Hooks!Cardinality, Cardinality
<1>2. CASE S = {}
  BY <1>1, <1>2, FS_EmptySet
<1>3. ASSUME NEW e \in S PROVE Cardinality(S) = 1
  <2>1. S = {e}
    BY <1>3
  <2> QED BY <2>1, FS_Singleton
<1> QED BY <1>1, <1>2, <1>3

LEMMA HooksAlone == ASSUME HooksInv PROVE Hooks!HookRunsAlone
  BY AtMostOne DEF HooksInv, EventsInOrder, Hooks!HookRunsAlone

LEMMA HooksStart == ASSUME Hooks!HooksInit PROVE HooksInv
<1>1. queue \in Hooks!BoundedSeq(Hooks!Events, MaxQueued)
  BY EmptyQueue DEF Hooks!HooksInit
<1>2. happened \in 0..MaxFileEvents
  BY CallsAssumption DEF Hooks!HooksInit
<1>4. Hooks!HooksTypeOK
  BY <1>1, <1>2 DEF Hooks!HooksInit, Hooks!HooksTypeOK
<1>3. EventsInOrder
  BY DEF Hooks!HooksInit, EventsInOrder, Increasing
<1> QED BY <1>3, <1>4 DEF HooksInv

\* What leaves the hook's events as they are, or takes the timer's away.
LEMMA SameEvents ==
    ASSUME HooksInv, Hooks!HooksTypeOK', UNCHANGED <<happened, queue, runningHook, executing, disposed>>,
           pending' \in {pending, none}
    PROVE  HooksInv'
  BY DEF HooksInv, EventsInOrder, Increasing

LEMMA ScheduleInv == ASSUME HooksInv, Hooks!Schedule PROVE HooksInv'
<1> DEFINE e == happened + 1
<1>1. /\ happened \in Nat /\ e \in Hooks!Events /\ e \in Nat
      /\ happened' = e /\ UNCHANGED <<hook, runningHook, disposed, executing, aborted, ended>>
  BY CallsAssumption DEF Hooks!Schedule, Hooks!dispatchVars, HooksInv, Hooks!HooksTypeOK, Hooks!Events
<1>2. queue \in Seq(Hooks!Events) /\ Len(queue) <= MaxQueued /\ Len(queue) \in Nat
  BY QueueType DEF HooksInv, Hooks!HooksTypeOK
<1>3. \A f \in executing : f \in Nat
  BY DEF HooksInv, Hooks!HooksTypeOK, Hooks!Events
<1>4. \A i \in 1..Len(queue) : queue[i] \in Nat /\ queue[i] \in Hooks!Events
  <2>1. \A i \in 1..Len(queue) : queue[i] \in Hooks!Events
    BY <1>2
  <2> QED BY <2>1, EventsAreNumbers
<1>5. CASE ~runningHook
  <2>1. pending' = e /\ queue' = queue /\ dropped' = dropped \cup ({pending} \ {none})
    BY <1>1, <1>5 DEF Hooks!Schedule
  <2>2. Hooks!HooksTypeOK'
    BY <1>1, <2>1, EventsAreNumbers DEF HooksInv, Hooks!HooksTypeOK
  <2>3. EventsInOrder'
    BY <1>1, <1>3, <1>5, <2>1 DEF HooksInv, EventsInOrder, Increasing
  <2> QED BY <2>2, <2>3 DEF HooksInv
<1>6. CASE runningHook
  <2>1. pending' = pending /\ Hooks!EnqueueOrDrop(e)
    BY <1>1, <1>6 DEF Hooks!Schedule
  <2>2. PICK k \in {0, 1} :
          /\ queue' \in Seq(Hooks!Events) /\ Len(queue') <= MaxQueued /\ Len(queue') = Len(queue) - k + 1
          /\ \A i \in 1..(Len(queue) - k) : queue'[i] = queue[i + k]
          /\ queue'[Len(queue')] = e
          /\ dropped' \subseteq dropped \cup Hooks!Events
    <3>1. CASE Len(queue) >= MaxQueued
      <4>1. queue # <<>> /\ queue' = Append(Tail(queue), e) /\ dropped' = dropped \cup {Head(queue)}
        BY <2>1, <3>1, CallsAssumption DEF Hooks!EnqueueOrDrop
      <4>2. /\ Tail(queue) \in Seq(Hooks!Events) /\ Len(Tail(queue)) = Len(queue) - 1
            /\ \A i \in 1..(Len(queue) - 1) : Tail(queue)[i] = queue[i + 1]
            /\ Head(queue) \in Hooks!Events
        BY <1>2, <4>1
      <4>3. /\ queue' \in Seq(Hooks!Events) /\ Len(queue') = Len(queue) - 1 + 1
            /\ \A i \in 1..(Len(queue) - 1) : queue'[i] = queue[i + 1]
            /\ queue'[Len(queue')] = e
        BY <1>1, <1>2, <4>1, <4>2
      <4>4. Len(queue') <= MaxQueued /\ dropped' \subseteq dropped \cup Hooks!Events
        BY <1>2, <4>1, <4>2, <4>3
      <4> QED BY <4>3, <4>4
    <3>2. CASE ~(Len(queue) >= MaxQueued)
      <4>1. queue' = Append(queue, e) /\ dropped' = dropped
        BY <2>1, <3>2 DEF Hooks!EnqueueOrDrop
      <4>2. /\ queue' \in Seq(Hooks!Events) /\ Len(queue') = Len(queue) - 0 + 1 /\ Len(queue') <= MaxQueued
            /\ \A i \in 1..(Len(queue) - 0) : queue'[i] = queue[i + 0]
            /\ queue'[Len(queue')] = e
        BY <1>1, <1>2, <3>2, <4>1, CallsAssumption
      <4> QED BY <4>1, <4>2
    <3> QED BY <3>1, <3>2
  <2>3. Hooks!HooksTypeOK'
    <3>1. queue' \in Hooks!BoundedSeq(Hooks!Events, MaxQueued)
      BY <2>2, QueueType
    <3> QED BY <1>1, <2>1, <2>2, <3>1 DEF HooksInv, Hooks!HooksTypeOK, Hooks!Events
  <2>4. ASSUME ~disposed
        PROVE  /\ Increasing(queue)' /\ pending' = none
               /\ \A i \in 1..Len(queue') : queue'[i] <= e /\ \A f \in executing : f < queue'[i]
    <3>1. /\ Increasing(queue) /\ pending = none
          /\ \A i \in 1..Len(queue) : queue[i] <= happened /\ \A f \in executing : f < queue[i]
          /\ \A f \in executing : f <= happened
      BY <2>4, <1>6 DEF HooksInv, EventsInOrder
    <3>2. \A i \in 1..Len(queue') : i = Len(queue') \/ (i \in 1..(Len(queue) - k) /\ i + k \in 1..Len(queue))
      BY <1>2, <2>2
    <3>3. \A i \in 1..Len(queue') : queue'[i] <= e /\ \A f \in executing : f < queue'[i]
      BY <1>1, <1>3, <1>4, <2>2, <3>1, <3>2, SMTT(30)
    <3>4. \A i \in 1..Len(queue') : i # Len(queue') => queue'[i] < e
      BY <1>1, <1>4, <2>2, <3>1, <3>2
    <3>5. ASSUME NEW i \in 1..Len(queue'), NEW j \in 1..Len(queue'), i < j PROVE queue'[i] < queue'[j]
      <4>1. CASE j = Len(queue')
        BY <2>2, <3>4, <3>5, <4>1
      <4>2. CASE j # Len(queue')
        <5>1. i # Len(queue')
          BY <1>2, <2>2, <3>5
        <5>2. /\ queue'[i] = queue[i + k] /\ queue'[j] = queue[j + k]
              /\ i + k \in 1..Len(queue) /\ j + k \in 1..Len(queue) /\ i + k < j + k
          <6>1. i \in 1..(Len(queue) - k) /\ j \in 1..(Len(queue) - k)
            BY <3>2, <4>2, <5>1
          <6>2. i + k \in 1..Len(queue) /\ j + k \in 1..Len(queue) /\ i + k < j + k
            BY <1>2, <3>5, <6>1
          <6> QED BY <2>2, <6>1, <6>2
        <5> QED BY <3>1, <5>2 DEF Increasing
      <4> QED BY <4>1, <4>2
    <3> QED BY <2>1, <3>1, <3>3, <3>5 DEF Increasing
  <2>5. EventsInOrder'
    BY <1>1, <1>3, <1>6, <2>1, <2>4 DEF HooksInv, EventsInOrder
  <2> QED BY <2>3, <2>5 DEF HooksInv
<1> QED BY <1>5, <1>6

LEMMA TimerInv == ASSUME HooksInv, Hooks!TimerFires PROVE HooksInv'
<1>1. /\ pending # none /\ pending' = none /\ runningHook' = TRUE /\ executing' = executing \cup {pending}
      /\ UNCHANGED <<hook, happened, queue, dropped, disposed, aborted, ended>>
  BY DEF Hooks!TimerFires, Hooks!Begins
<1>2. Hooks!HooksTypeOK'
  BY <1>1 DEF HooksInv, Hooks!HooksTypeOK
<1>3. ASSUME ~disposed PROVE executing = {} /\ queue = <<>> /\ pending <= happened
  BY <1>1, <1>3 DEF HooksInv, EventsInOrder
<1>4. EventsInOrder'
  BY <1>1, <1>3 DEF EventsInOrder, Increasing
<1> QED BY <1>2, <1>4 DEF HooksInv

LEMMA DispatchEndsInv ==
    ASSUME HooksInv, NEW e \in Hooks!Events, NEW how \in Hooks!Endings, Hooks!DispatchEnds(e, how)
    PROVE  HooksInv'
<1>1. /\ e \in executing /\ Hooks!StartsNext(e) /\ ended' = [ended EXCEPT ![e] = how]
      /\ UNCHANGED <<hook, happened, pending, dropped, disposed, aborted>>
  BY DEF Hooks!DispatchEnds
<1>2. queue \in Seq(Hooks!Events) /\ Len(queue) <= MaxQueued /\ Len(queue) \in Nat
  BY QueueType DEF HooksInv, Hooks!HooksTypeOK
<1>3. CASE queue = <<>>
  <2>1. runningHook' = FALSE /\ executing' = executing \ {e} /\ queue' = queue
    BY <1>1, <1>3 DEF Hooks!StartsNext
  <2>2. Hooks!HooksTypeOK'
    BY <1>1, <2>1 DEF HooksInv, Hooks!HooksTypeOK
  <2>3. EventsInOrder'
    BY <1>1, <1>3, <2>1 DEF HooksInv, EventsInOrder, Increasing
  <2> QED BY <2>2, <2>3 DEF HooksInv
<1>4. CASE queue # <<>>
  <2>1. /\ runningHook' = TRUE /\ executing' = (executing \ {e}) \cup {Head(queue)} /\ queue' = Tail(queue)
        /\ Head(queue) = queue[1]
    BY <1>1, <1>2, <1>4 DEF Hooks!StartsNext
  <2>2. /\ queue' \in Seq(Hooks!Events) /\ Len(queue') = Len(queue) - 1 /\ Len(queue) >= 1
        /\ \A i \in 1..Len(queue') : queue'[i] = queue[i + 1] /\ i + 1 \in 1..Len(queue)
        /\ queue[1] \in Hooks!Events
    BY <1>2, <1>4, <2>1
  <2>3. Hooks!HooksTypeOK'
    <3>1. queue' \in Hooks!BoundedSeq(Hooks!Events, MaxQueued)
      BY <1>2, <2>2, QueueType, CallsAssumption
    <3> QED BY <1>1, <2>1, <2>2, <3>1 DEF HooksInv, Hooks!HooksTypeOK
  <2>4. ASSUME ~disposed
        PROVE  /\ executing' = {queue[1]} /\ Increasing(queue)' /\ pending' = none
               /\ \A i \in 1..Len(queue') : queue'[i] <= happened /\ queue[1] < queue'[i]
               /\ queue[1] <= happened
    <3>1. /\ \A f \in executing : f = e
          /\ Increasing(queue) /\ pending = none
          /\ \A i \in 1..Len(queue) : queue[i] <= happened
      BY <1>1, <2>4 DEF HooksInv, EventsInOrder
    <3>2. executing' = {queue[1]}
      BY <1>1, <2>1, <3>1
    <3>3. Increasing(queue)'
      <4>1. ASSUME NEW i \in 1..Len(queue'), NEW j \in 1..Len(queue'), i < j PROVE queue'[i] < queue'[j]
        <5>1. i + 1 \in 1..Len(queue) /\ j + 1 \in 1..Len(queue) /\ i + 1 < j + 1
          BY <2>2, <4>1
        <5> QED BY <2>2, <3>1, <5>1 DEF Increasing
      <4> QED BY <4>1 DEF Increasing
    <3>4. \A i \in 1..Len(queue') : queue'[i] <= happened /\ queue[1] < queue'[i]
      <4> TAKE i \in 1..Len(queue')
      <4>1. 1 \in 1..Len(queue) /\ i + 1 \in 1..Len(queue) /\ 1 < i + 1
        BY <1>2, <2>2
      <4> QED BY <2>2, <3>1, <4>1 DEF Increasing
    <3>5. queue[1] <= happened
      BY <1>2, <2>2, <3>1
    <3> QED BY <1>1, <3>1, <3>2, <3>3, <3>4, <3>5
  <2>5. EventsInOrder'
    BY <1>1, <2>1, <2>4 DEF EventsInOrder
  <2> QED BY <2>3, <2>5 DEF HooksInv
<1> QED BY <1>3, <1>4

LEMMA DisposeInv == ASSUME HooksInv, Hooks!Dispose PROVE HooksInv'
<1>1. queue \in Seq(Hooks!Events) /\ <<>> \in Hooks!BoundedSeq(Hooks!Events, MaxQueued)
  BY QueueType, EmptyQueue DEF HooksInv, Hooks!HooksTypeOK
<1>2. Hooks!ToSet(queue) \subseteq Hooks!Events
  BY <1>1 DEF Hooks!ToSet
<1>3. Hooks!HooksTypeOK'
  BY <1>1, <1>2 DEF Hooks!Dispose, Hooks!dispatchVars, HooksInv, Hooks!HooksTypeOK
<1> QED BY <1>3 DEF HooksInv, EventsInOrder, Hooks!Dispose

LEMMA HooksStep == ASSUME HooksInv, Hooks!HooksNext \/ UNCHANGED hookVars PROVE HooksInv'
<1>1. CASE UNCHANGED hookVars
  BY <1>1 DEF hookVars, HooksInv, Hooks!HooksTypeOK, EventsInOrder, Increasing
<1>2. CASE Hooks!Reload \/ Hooks!HooksRead \/ Hooks!EnableHook \/ Hooks!CancelPending
  <2> USE DEF Hooks!Reload, Hooks!HooksRead, Hooks!EnableHook, Hooks!CancelPending,
              Hooks!debounceVars, Hooks!dispatchVars
  <2>1. Hooks!HooksTypeOK'
    BY <1>2 DEF HooksInv, Hooks!HooksTypeOK
  <2> QED BY <1>2, <2>1, SameEvents
<1>3. ASSUME NEW e \in Hooks!Events, NEW why \in {"timeout", "cancelled"}, Hooks!Aborts(e, why)
      PROVE  HooksInv'
  <2>1. Hooks!HooksTypeOK'
    BY <1>3 DEF Hooks!Aborts, Hooks!debounceVars, HooksInv, Hooks!HooksTypeOK
  <2> QED BY <1>3, <2>1, SameEvents DEF Hooks!Aborts, Hooks!debounceVars
<1>4. CASE Hooks!HooksNext
  BY <1>2, <1>3, <1>4, ScheduleInv, TimerInv, DispatchEndsInv, DisposeInv DEF Hooks!HooksNext
<1> QED BY <1>1, <1>4

-----------------------------------------------------------------------------
(* The runtime: what a shutdown found open is closed when it has passed it. *)

\* Where the command is before a resource is put into its field.
NotYet(r) ==
    IF r = "store" THEN {"start", "opening"}
    ELSE IF r \in {"structured", "timer", "plugins"}
         THEN {"start", "opening", "configuring", "syncing", "indexing"}
    ELSE IF r = "server"
         THEN {"start", "opening", "configuring", "syncing", "indexing", "loading"}
    ELSE {}

Passed(a, r) ==
    \/ r = "timer" /\ stage[a] >= 1
    \/ \E k \in 1..5 : r = Runtime!Stops[k] /\ stage[a] > k

\* The command is beyond the point where it opens what a shutdown found or closes.
Behind ==
    /\ \A r \in field : pc \notin NotYet(r)
    /\ \A a \in Runtime!Actors : \A r \in foundOpen[a] : pc \notin NotYet(r)
    /\ \A a \in Runtime!Actors : awaiting[a] => pc \notin NotYet(Runtime!Stops[stage[a]])

\* What is open and was found has its field; what is being closed is closed first.
Reachable ==
    /\ "logger" \in field
    /\ \A a \in Runtime!Actors : foundOpen[a] \cap open \subseteq field
    /\ \A a \in Runtime!Actors : awaiting[a] =>
         /\ stage[a] \in 1..5
         /\ Runtime!Stops[stage[a]] \in {"server", "structured", "store"} => Runtime!Stops[stage[a]] \notin open

\* What a shutdown has passed is closed, but for the log that the other one writes.
ClosedBehind ==
    \A a \in Runtime!Actors : \A r \in foundOpen[a] :
        Passed(a, r) => r \notin open \/ (r = "logger" /\ flusher # a)

RuntimeInv == Runtime!RuntimeTypeOK /\ Behind /\ Reachable /\ ClosedBehind /\ Runtime!StoreAlive

LEMMA Stages ==
    /\ Runtime!Stops[1] = "server" /\ Runtime!Stops[2] = "plugins" /\ Runtime!Stops[3] = "structured"
    /\ Runtime!Stops[4] = "store" /\ Runtime!Stops[5] = "logger"
    /\ \A k \in 1..5 : k = 1 \/ k = 2 \/ k = 3 \/ k = 4 \/ k = 5
    /\ Runtime!Resources = {"timer", "server", "plugins", "structured", "store", "logger"}
<1>1. /\ Runtime!Stops[1] = "server" /\ Runtime!Stops[2] = "plugins" /\ Runtime!Stops[3] = "structured"
      /\ Runtime!Stops[4] = "store" /\ Runtime!Stops[5] = "logger"
  BY DEF Runtime!Stops
<1>2. \A k \in 1..5 : k = 1 \/ k = 2 \/ k = 3 \/ k = 4 \/ k = 5
  OBVIOUS
<1>3. {Runtime!Stops[k] : k \in 1..5} = {"server", "plugins", "structured", "store", "logger"}
  BY <1>1, <1>2
<1> QED BY <1>1, <1>2, <1>3 DEF Runtime!Resources

LEMMA RuntimeStart == ASSUME Runtime!RuntimeInit PROVE RuntimeInv
<1>1. Runtime!RuntimeTypeOK
  <2>1. "logger" \in Runtime!Resources /\ "start" \in Runtime!Phases
    BY Stages DEF Runtime!Phases
  <2>2. /\ stage \in [Runtime!Actors -> 0..6] /\ awaiting \in [Runtime!Actors -> BOOLEAN]
        /\ foundOpen \in [Runtime!Actors -> SUBSET Runtime!Resources]
    BY DEF Runtime!RuntimeInit
  <2> QED BY <2>1, <2>2 DEF Runtime!RuntimeInit, Runtime!RuntimeTypeOK
<1>2. Behind /\ Reachable /\ ClosedBehind /\ Runtime!StoreAlive
  BY DEF Runtime!RuntimeInit, Behind, NotYet, Reachable, ClosedBehind, Runtime!StoreAlive
<1> QED BY <1>1, <1>2 DEF RuntimeInv

\* A step of the command opens only what no shutdown can have found yet.
LEMMA CommandInv ==
    ASSUME RuntimeInv, Runtime!RuntimeTypeOK', UNCHANGED <<stage, awaiting, flusher, foundOpen>>,
           field \subseteq field', open \subseteq open',
           \A r \in Runtime!Resources : pc' \in NotYet(r) => pc \in NotYet(r),
           \A r \in field' \ field : pc' \notin NotYet(r),
           \A r \in open' \ open : pc \in NotYet(r),
           "store" \in field' \ field => "store" \in open'
    PROVE  RuntimeInv'
<1>1. /\ field \subseteq Runtime!Resources /\ \A a \in Runtime!Actors : foundOpen[a] \subseteq Runtime!Resources
      /\ \A a \in Runtime!Actors : awaiting[a] => Runtime!Stops[stage[a]] \in Runtime!Resources
  BY Stages DEF RuntimeInv, Runtime!RuntimeTypeOK, Reachable
<1>2. Behind'
  BY <1>1 DEF RuntimeInv, Behind, NotYet
<1>3. Reachable'
  BY DEF RuntimeInv, Reachable, Behind
<1>4. ClosedBehind'
  BY DEF RuntimeInv, ClosedBehind, Passed, Behind
<1>5. Runtime!StoreAlive'
  BY DEF RuntimeInv, Runtime!StoreAlive
<1> QED BY <1>2, <1>3, <1>4, <1>5 DEF RuntimeInv

LEMMA InitialiseInv == ASSUME RuntimeInv, Runtime!Initialise PROVE RuntimeInv'
<1> USE DEF Runtime!Goes, Runtime!stopVars
<1>1. /\ field \subseteq Runtime!Resources /\ open \subseteq Runtime!Resources
      /\ \A r \in field : pc \notin NotYet(r)
  BY DEF RuntimeInv, Runtime!RuntimeTypeOK, Behind
<1>2. /\ UNCHANGED <<command, hanging, doomed, stage, awaiting, flusher, foundOpen, exit>>
      /\ pc' \in Runtime!Phases /\ live' \in BOOLEAN
  BY DEF Runtime!Initialise, Runtime!OpenStore, Runtime!StoreOpened, Runtime!ProvidersReady, Runtime!AgentsSynced,
     Runtime!BuildSubsystems, Runtime!InitDone, Runtime!Phases, Runtime!Initialising, RuntimeInv, Runtime!RuntimeTypeOK
<1>3. /\ field \subseteq field' /\ open \subseteq open'
      /\ \A r \in Runtime!Resources : pc' \in NotYet(r) => pc \in NotYet(r)
      /\ \A r \in field' \ field : r \in Runtime!Resources /\ pc' \notin NotYet(r)
      /\ \A r \in open' \ open : r \in Runtime!Resources /\ pc \in NotYet(r)
      /\ "store" \in field' \ field => "store" \in open'
  <2>1. CASE Runtime!OpenStore
    BY <2>1, Stages DEF Runtime!OpenStore, NotYet
  <2>2. CASE Runtime!StoreOpened
    <3>1. "store" \notin field
      BY <1>1, <2>2 DEF Runtime!StoreOpened, NotYet
    <3> QED BY <2>2, <3>1, Stages DEF Runtime!StoreOpened, NotYet
  <2>3. CASE Runtime!ProvidersReady
    BY <2>3, Stages DEF Runtime!ProvidersReady, NotYet
  <2>4. CASE Runtime!AgentsSynced
    BY <2>4, Stages DEF Runtime!AgentsSynced, NotYet
  <2>5. CASE Runtime!BuildSubsystems
    BY <2>5, Stages DEF Runtime!BuildSubsystems, NotYet
  <2>6. CASE Runtime!InitDone
    BY <2>6, Stages DEF Runtime!InitDone, NotYet
  <2> QED BY <2>1, <2>2, <2>3, <2>4, <2>5, <2>6 DEF Runtime!Initialise
<1>4. Runtime!RuntimeTypeOK'
  BY <1>1, <1>2, <1>3 DEF RuntimeInv, Runtime!RuntimeTypeOK
<1> QED BY <1>2, <1>3, <1>4, CommandInv

\* What ends a task, a wait, an initialisation or the process opens nothing.
LEMMA EndingInv ==
    ASSUME RuntimeInv,
           \/ Runtime!InitThrows \/ Runtime!ServerStarted \/ Runtime!TaskDone \/ Runtime!AgentAsked
           \/ Runtime!Killed \/ Runtime!ForceExit \/ \E a \in Runtime!Actors : Runtime!Exit(a)
    PROVE  RuntimeInv'
<1> USE DEF Runtime!InitThrows, Runtime!ServerStarted, Runtime!TaskDone, Runtime!AgentAsked,
            Runtime!Killed, Runtime!ForceExit, Runtime!Exit, Runtime!Goes, Runtime!stopVars
<1>1. UNCHANGED <<command, hanging, field, open, live, stage, awaiting, flusher, foundOpen>>
  OBVIOUS
<1>2. \A r \in Runtime!Resources : pc' \in NotYet(r) => pc \in NotYet(r)
  BY DEF NotYet
<1>3. Runtime!RuntimeTypeOK'
  <2>1. pc' \in Runtime!Phases /\ doomed' \in BOOLEAN
    BY DEF RuntimeInv, Runtime!RuntimeTypeOK, Runtime!Phases, Runtime!Initialising
  <2>2. exit' \in {"no", "success", "failure", "signal", "forced", "fatal", "killed"}
    BY DEF RuntimeInv, Runtime!RuntimeTypeOK
  <2> QED BY <1>1, <2>1, <2>2 DEF RuntimeInv, Runtime!RuntimeTypeOK
<1> QED BY <1>1, <1>2, <1>3, CommandInv

LEMMA BeginStopInv ==
    ASSUME RuntimeInv, NEW a \in Runtime!Actors, stage[a] = 0, Runtime!BeginStop(a)
    PROVE  RuntimeInv'
<1>1. /\ \A b \in Runtime!Actors : stage'[b] = IF b = a THEN 1 ELSE stage[b]
      /\ \A b \in Runtime!Actors : foundOpen'[b] = IF b = a THEN field \cap open ELSE foundOpen[b]
      /\ open' = open \ (field \cap {"timer"}) /\ field' = field \ {"timer"}
      /\ UNCHANGED <<command, hanging, pc, live, doomed, awaiting, flusher, exit>>
  BY DEF Runtime!BeginStop, RuntimeInv, Runtime!RuntimeTypeOK
<1>2. Runtime!RuntimeTypeOK'
  BY <1>1 DEF Runtime!BeginStop, RuntimeInv, Runtime!RuntimeTypeOK
<1>3. \A b \in Runtime!Actors : awaiting[b] => stage'[b] = stage[b]
  BY <1>1 DEF RuntimeInv, Reachable
<1>4. Behind'
  BY <1>1, <1>3 DEF RuntimeInv, Behind, NotYet
<1>5. Reachable'
  BY <1>1, <1>3 DEF RuntimeInv, Reachable
<1>6. ClosedBehind'
  <2>1. \A r \in field \cap open : Passed(a, r)' => r \notin open'
    BY <1>1 DEF Passed
  <2>2. ASSUME NEW b \in Runtime!Actors \ {a}, NEW r \in foundOpen[b], Passed(b, r)'
        PROVE  r \notin open' \/ (r = "logger" /\ flusher # b)
    BY <1>1, <2>2 DEF RuntimeInv, ClosedBehind, Passed
  <2> QED BY <1>1, <2>1, <2>2 DEF ClosedBehind
<1>7. Runtime!StoreAlive'
  BY <1>1, <1>3 DEF RuntimeInv, Runtime!StoreAlive
<1> QED BY <1>2, <1>4, <1>5, <1>6, <1>7 DEF RuntimeInv

LEMMA EnterStopInv ==
    ASSUME RuntimeInv, NEW a \in Runtime!Actors, Runtime!EnterStop(a) PROVE RuntimeInv'
<1> DEFINE r == Runtime!Stops[stage[a]]
<1>1. /\ stage[a] \in 1..5 /\ ~awaiting[a] /\ r \in Runtime!Resources /\ r # "timer"
      /\ UNCHANGED <<command, hanging, pc, field, live, doomed, foundOpen, exit>>
  BY Stages DEF Runtime!EnterStop
<1>2. CASE r \in field
  <2>1. /\ \A b \in Runtime!Actors : awaiting'[b] = IF b = a THEN TRUE ELSE awaiting[b]
        /\ open' = IF r \in {"server", "structured", "store"} THEN open \ {r} ELSE open
        /\ stage' = stage
        /\ \A b \in Runtime!Actors : b # a /\ flusher # b => flusher' # b
        /\ \A b \in Runtime!Actors : flusher # b /\ flusher' = b => b = a /\ r = "logger"
    BY <1>1, <1>2 DEF Runtime!EnterStop, RuntimeInv, Runtime!RuntimeTypeOK
  <2>2. Runtime!RuntimeTypeOK'
    BY <1>1, <1>2, <2>1, ZenonT(30) DEF Runtime!EnterStop, RuntimeInv, Runtime!RuntimeTypeOK
  <2>3. Behind'
    BY <1>1, <1>2, <2>1 DEF RuntimeInv, Behind, NotYet
  <2>4. Reachable'
    BY <1>1, <1>2, <2>1 DEF RuntimeInv, Reachable
  <2>5. ~Passed(a, "logger")
    BY <1>1, Stages DEF Passed
  <2>6. ClosedBehind'
    BY <1>1, <2>1, <2>5, Stages DEF RuntimeInv, ClosedBehind, Passed
  <2>7. Runtime!StoreAlive'
    BY <1>1, <1>2, <2>1 DEF RuntimeInv, Runtime!StoreAlive
  <2> QED BY <2>2, <2>3, <2>4, <2>6, <2>7 DEF RuntimeInv
<1>3. CASE r \notin field
  <2>1. /\ \A b \in Runtime!Actors : stage'[b] = IF b = a THEN stage[a] + 1 ELSE stage[b]
        /\ UNCHANGED <<awaiting, open, flusher>>
    BY <1>1, <1>3 DEF Runtime!EnterStop, Runtime!Moves, RuntimeInv, Runtime!RuntimeTypeOK
  <2>2. Runtime!RuntimeTypeOK'
    BY <1>1, <1>3, <2>1 DEF Runtime!EnterStop, Runtime!Moves, RuntimeInv, Runtime!RuntimeTypeOK
  <2>3. \A b \in Runtime!Actors : awaiting[b] => stage'[b] = stage[b]
    BY <1>1, <2>1
  <2>4. Behind'
    BY <1>1, <2>1, <2>3 DEF RuntimeInv, Behind, NotYet
  <2>5. Reachable'
    BY <1>1, <2>1, <2>3 DEF RuntimeInv, Reachable
  <2>6. ClosedBehind'
    <3>1. r \in foundOpen[a] => r \notin open
      BY <1>3 DEF RuntimeInv, Reachable
    <3>2. \A x \in foundOpen[a] : Passed(a, x)' => Passed(a, x) \/ x = r
      BY <1>1, <2>1, Stages DEF Passed
    <3>3. \A b \in Runtime!Actors \ {a} : \A x \in foundOpen[b] : Passed(b, x)' => Passed(b, x)
      BY <2>1 DEF Passed
    <3> QED BY <1>1, <2>1, <3>1, <3>2, <3>3 DEF RuntimeInv, ClosedBehind
  <2>7. Runtime!StoreAlive'
    BY <1>1, <2>1, <2>3 DEF RuntimeInv, Runtime!StoreAlive
  <2> QED BY <2>2, <2>4, <2>5, <2>6, <2>7 DEF RuntimeInv
<1> QED BY <1>2, <1>3

LEMMA LeaveStopInv ==
    ASSUME RuntimeInv, NEW a \in Runtime!Actors, Runtime!LeaveStop(a) PROVE RuntimeInv'
<1> PICK r \in Runtime!Resources : r = Runtime!Stops[stage[a]]
  BY Stages DEF Runtime!LeaveStop
<1>1. /\ stage[a] \in 1..5 /\ awaiting[a] /\ r # "timer"
      /\ field' = field \ ({r} \ {"logger"})
      /\ open' = IF r = "plugins" \/ (r = "logger" /\ flusher = a) THEN open \ {r} ELSE open
      /\ UNCHANGED <<command, hanging, pc, doomed, flusher, foundOpen, exit>>
  BY Stages DEF Runtime!LeaveStop
<1>2. /\ \A b \in Runtime!Actors : stage'[b] = IF b = a THEN stage[a] + 1 ELSE stage[b]
      /\ \A b \in Runtime!Actors : awaiting'[b] = IF b = a THEN FALSE ELSE awaiting[b]
  BY DEF Runtime!LeaveStop, Runtime!Moves, RuntimeInv, Runtime!RuntimeTypeOK
<1>3. Runtime!RuntimeTypeOK'
  <2>1. stage' \in [Runtime!Actors -> 0..6] /\ awaiting' \in [Runtime!Actors -> BOOLEAN] /\ live' \in BOOLEAN
    <3>1. stage[a] + 1 \in 0..6
      BY <1>1
    <3>2. stage' \in [Runtime!Actors -> 0..6]
      BY <3>1 DEF Runtime!LeaveStop, Runtime!Moves, RuntimeInv, Runtime!RuntimeTypeOK
    <3>3. awaiting' \in [Runtime!Actors -> BOOLEAN]
      BY DEF Runtime!LeaveStop, RuntimeInv, Runtime!RuntimeTypeOK
    <3>4. live' \in BOOLEAN
      BY DEF Runtime!LeaveStop, RuntimeInv, Runtime!RuntimeTypeOK
    <3> QED BY <3>2, <3>3, <3>4
  <2>2. field' \subseteq Runtime!Resources /\ open' \subseteq Runtime!Resources
    BY <1>1 DEF RuntimeInv, Runtime!RuntimeTypeOK
  <2> QED BY <1>1, <2>1, <2>2 DEF RuntimeInv, Runtime!RuntimeTypeOK
<1>4. \A b \in Runtime!Actors : awaiting'[b] => awaiting[b] /\ stage'[b] = stage[b]
  BY <1>2
<1>5. r \in {"server", "structured", "store", "plugins", "logger"} /\ (r = "plugins" => r \notin open')
      /\ (r \in {"server", "structured", "store"} => r \notin open)
  BY <1>1, Stages DEF RuntimeInv, Reachable
<1>6. Behind'
  BY <1>1, <1>4 DEF RuntimeInv, Behind, NotYet
<1>7. Reachable'
  BY <1>1, <1>4, <1>5 DEF RuntimeInv, Reachable
<1>8. ClosedBehind'
  <2>1. r \notin open' \/ (r = "logger" /\ flusher # a)
    BY <1>1, <1>5
  <2>2. \A x \in foundOpen[a] : Passed(a, x)' => Passed(a, x) \/ x = r
    BY <1>1, <1>2, Stages DEF Passed
  <2>3. \A b \in Runtime!Actors \ {a} : \A x \in foundOpen[b] : Passed(b, x)' => Passed(b, x)
    BY <1>2 DEF Passed
  <2> QED BY <1>1, <2>1, <2>2, <2>3 DEF RuntimeInv, ClosedBehind
<1>9. Runtime!StoreAlive'
  BY <1>1, <1>2, <1>4 DEF RuntimeInv, Runtime!StoreAlive
<1> QED BY <1>3, <1>6, <1>7, <1>8, <1>9 DEF RuntimeInv

LEMMA RuntimeStep == ASSUME RuntimeInv, Runtime!RuntimeNext \/ UNCHANGED runtimeVars PROVE RuntimeInv'
<1>1. CASE UNCHANGED runtimeVars
  BY <1>1 DEF runtimeVars, RuntimeInv, Runtime!RuntimeTypeOK, Behind, Reachable, ClosedBehind, Passed,
     Runtime!StoreAlive
<1>2. CASE Runtime!Signal \/ Runtime!Leave
  BY <1>2, BeginStopInv DEF Runtime!Signal, Runtime!Leave, Runtime!Actors
<1>3. CASE Runtime!RuntimeNext
  BY <1>2, <1>3, InitialiseInv, EndingInv, EnterStopInv, LeaveStopInv
     DEF Runtime!RuntimeNext, Runtime!CommandStep, Runtime!Shutdown
<1> QED BY <1>1, <1>3

\* A shutdown that is over has passed everything.
LEMMA ExitClean == ASSUME RuntimeInv PROVE Runtime!CleanExit
<1>1. ASSUME NEW a \in Runtime!Actors, stage[a] = 6
      PROVE  foundOpen[a] \cap open \subseteq {r \in {"logger"} : flusher # a}
  <2>1. \A r \in Runtime!Resources : Passed(a, r)
    BY <1>1, Stages DEF Passed
  <2> QED BY <2>1 DEF RuntimeInv, Runtime!RuntimeTypeOK, ClosedBehind
<1> QED BY <1>1 DEF Runtime!CleanExit

-----------------------------------------------------------------------------
(* All of them: the part that moves keeps its invariant, the others stand.  *)

CallsInv == part \in Parts /\ IInv /\ TransportInv /\ McpInv /\ HooksInv /\ RuntimeInv

LEMMA CallsStart == CallsInit => CallsInv
  BY InitInv, TransportInit, McpInit, HooksStart, RuntimeStart DEF CallsInit, CallsInv

LEMMA CallsStep == CallsInv /\ [CallsNext]_allVars => CallsInv'
<1> SUFFICES ASSUME CallsInv, [CallsNext]_allVars PROVE CallsInv'
  OBVIOUS
<1>1. /\ [Next]_vars
      /\ Transports!TransportNext \/ UNCHANGED transportVars
      /\ Mcp!McpNext \/ UNCHANGED mcpVars
      /\ Hooks!HooksNext \/ UNCHANGED hookVars
      /\ Runtime!RuntimeNext \/ UNCHANGED runtimeVars
      /\ part' = part
  BY DEF CallsNext, Others, allVars
<1> QED BY <1>1, StepInv, TransportStep, McpStep, HooksStep, RuntimeStep DEF CallsInv

LEMMA CallsInvariance == CallsSpec => []CallsInv
  BY CallsStart, CallsStep, PTL DEF CallsSpec

\* Every variable of the five components has its type.
THEOREM TypeCorrect == CallsSpec => []CallsTypeOK
<1>1. CallsInv => CallsTypeOK
  BY DEF CallsInv, CallsTypeOK, IInv, TransportInv, McpInv, HooksInv, RuntimeInv
<1> QED BY <1>1, CallsInvariance, PTL

\* Whoever waits for a transport or for a server of the pool is known there and
\* counted once, a hook runs alone, and whatever a shutdown found open it has closed
\* when it ends: however sockets and processes die, servers are added and removed,
\* files change, and a signal and the command shut down at the same time.
THEOREM CallsAreAccounted == CallsSpec => []CallsAccounted
<1>1. CallsInv => CallsAccounted
  BY HooksAlone, ExitClean DEF CallsInv, CallsAccounted, TransportInv, McpInv, RuntimeInv
<1> QED BY <1>1, CallsInvariance, PTL
=============================================================================
