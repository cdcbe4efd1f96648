----------------------------- MODULE WorkerPool -----------------------------
(***************************************************************************)
(* The elastic worker pool of core/worker-pool.ts.  Every method body runs *)
(* to its first await without interleaving (one JavaScript event loop), so *)
(* one action is one such run: a call of the API, the end of one execution *)
(* of a task, a timer callback, the continuation of stop().                *)
(*                                                                         *)
(* An execution of a task (executeInWorker) outlives what the pool knows   *)
(* of it: the health check may declare the worker free while the execution *)
(* is still in flight.  So what the pool believes (wstat, cur) and what    *)
(* runs (runOn) are separate variables.                                    *)
(***************************************************************************)
EXTENDS Naturals, FiniteSets, Sequences, SequencesExt

CONSTANTS
    Tasks,            \* tasks that may be submitted, each once
    Workers,          \* worker objects; one that is garbage may stand for a new one
    NoTask, NoWorker, \* the null values
    Prio,             \* task -> priority
    LongTasks,        \* tasks that may have a timeout above 2 * taskTimeout
    MinWorkers, MaxWorkers, ScaleUpThreshold, MaxRetries,   \* WorkerPoolConfig
    OverlapRestart    \* may start() be called while stop() is still waiting?

ASSUME PoolAssumption ==
    /\ IsFiniteSet(Workers)
    /\ Prio \in [Tasks -> Nat]
    /\ LongTasks \subseteq Tasks
    /\ NoTask \notin Tasks /\ NoWorker \notin Workers
    /\ MinWorkers \in Nat /\ MaxWorkers \in Nat /\ MinWorkers <= MaxWorkers
    /\ ScaleUpThreshold \in Nat \ {0} /\ MaxRetries \in Nat
    /\ OverlapRestart \in BOOLEAN

VARIABLES
    running,      \* this.running
    stopPending,  \* a stop() has not passed its Promise.allSettled yet
    drain,        \* workers whose shutdownWorker is waiting for their task
    queue,        \* this.taskQueue
    pool,         \* keys of this.workers
    wstat,        \* worker.info.status
    cur,          \* worker.currentTask
    runOn,        \* worker on which an execution of the task is in flight
    retries,      \* task.retries
    promise,      \* the promise submit() returned: none until submitted
    long          \* the tasks that do have such a timeout

vars == <<running, stopPending, drain, queue, pool, wstat, cur, runOn, retries, promise, long>>

TypeOK ==
    /\ running \in BOOLEAN /\ stopPending \in BOOLEAN
    /\ drain \subseteq Workers /\ pool \subseteq Workers
    /\ queue \in Seq(Tasks)
    /\ wstat \in [Workers -> {"idle", "busy", "draining", "dead"}]
    /\ cur \in [Workers -> Tasks \cup {NoTask}]
    /\ runOn \in [Tasks -> Workers \cup {NoWorker}]
    /\ retries \in [Tasks -> 0..MaxRetries]
    /\ promise \in [Tasks -> {"none", "pending", "resolved", "rejected"}]
    /\ long \subseteq LongTasks

Init ==
    /\ running = FALSE /\ stopPending = FALSE
    /\ drain = {} /\ pool = {}
    /\ queue = <<>>
    /\ wstat = [w \in Workers |-> "dead"]
    /\ cur = [w \in Workers |-> NoTask]
    /\ runOn = [t \in Tasks |-> NoWorker]
    /\ retries = [t \in Tasks |-> 0]
    /\ promise = [t \in Tasks |-> "none"]
    /\ long \in SUBSET LongTasks

-----------------------------------------------------------------------------
(* The binary search with which enqueue() finds the place of a task in the *)
(* queue, over the priorities of the queued tasks.                         *)

OldestFirst(prios, mid, p) == prios[mid + 1] < p           \* seeded fault: order reversed
\* Does the task at mid, counted from 0, have the higher priority?
Before(prios, mid, p) == prios[mid + 1] > p

\* One round of the loop on its bounds lo and hi; none when they have met.
Narrow(prios, p, b) ==
    LET mid == (b.lo + b.hi) \div 2
    IN IF b.lo >= b.hi THEN b
       ELSE IF Before(prios, mid, p) THEN [b EXCEPT !.lo = mid + 1]
       ELSE [b EXCEPT !.hi = mid]

\* The bounds after at most Len(prios) + 1 rounds of the loop.
Search(prios, p) ==
    LET Bounds[k \in 0..(Len(prios) + 1)] ==
            IF k = 0 THEN [lo |-> 0, hi |-> Len(prios)] ELSE Narrow(prios, p, Bounds[k - 1])
    IN Bounds[Len(prios) + 1]

-----------------------------------------------------------------------------
(* Queue and dispatch: each helper is a synchronous call inside an action. *)

InQueue(t) == \E i \in 1..Len(queue) : queue[i] = t
Running(t) == runOn[t] # NoWorker
IdleOrBusy(st) == {w \in pool : st[w] \in {"idle", "busy"}}  \* seeded fault: any live worker
Idle(st) == {w \in pool : st[w] = "idle"}

\* Worker objects nothing refers to: spawnWorker's new object is any of them.
Unused == {w \in Workers : /\ w \notin pool \cup drain
                           /\ \A t \in Tasks : runOn[t] # w}

\* Where the binary search of enqueue() ends: behind every task of a higher
\* priority and before every other one (SearchFindsSlot checks that).
FifoSlot(q, t, p) == p = Len(q) + 1                    \* seeded fault: append
IsSlot(q, t, p) ==
    /\ \A i \in 1..(p - 1) : Prio[q[i]] > Prio[t]
    /\ \A i \in p..Len(q) : Prio[q[i]] <= Prio[t]

\* A settled promise ignores later resolve() and reject() calls.
Settled(pr, t, value) == IF pr[t] = "pending" THEN [pr EXCEPT ![t] = value] ELSE pr

PeekNext(q, st, c, r) ==                               \* seeded fault: head not removed
    \E w \in Idle(st) :
       /\ q # <<>> /\ queue' = q
       /\ wstat' = [st EXCEPT ![w] = "busy"]
       /\ cur' = [c EXCEPT ![w] = Head(q)] /\ runOn' = [r EXCEPT ![Head(q)] = w]
\* dispatchNext(): the head of q goes to some idle worker, if there are both.
\* findIdleWorker's preference for warmed-up workers is abstracted to a choice.
DispatchNext(q, st, c, r) ==
    \/ /\ q = <<>> \/ Idle(st) = {}
       /\ queue' = q /\ wstat' = st /\ cur' = c /\ runOn' = r
    \/ /\ q # <<>>
       /\ \E w \in Idle(st) :
            /\ queue' = Tail(q)
            /\ wstat' = [st EXCEPT ![w] = "busy"]
            /\ cur' = [c EXCEPT ![w] = Head(q)]
            /\ runOn' = [r EXCEPT ![Head(q)] = w]

\* onTaskComplete(): w is idle again whatever it was, and one task is dispatched.
TaskComplete(w, q, r) ==
    DispatchNext(q, [wstat EXCEPT ![w] = "idle"], [cur EXCEPT ![w] = NoTask], r)

-----------------------------------------------------------------------------
(* The API *)

Start ==
    /\ ~running
    /\ stopPending => OverlapRestart
    /\ running' = TRUE
    /\ \E new \in SUBSET Unused :
         /\ Cardinality(new) = MinWorkers
         /\ pool' = pool \cup new
         /\ wstat' = [w \in Workers |-> IF w \in new THEN "idle" ELSE wstat[w]]
         /\ cur' = [w \in Workers |-> IF w \in new THEN NoTask ELSE cur[w]]
    /\ UNCHANGED <<stopPending, drain, queue, runOn, retries, promise>>

\* submit() does not look at running: a task may be queued with no worker.
Submit(t) ==
    /\ promise[t] = "none"
    /\ promise' = [promise EXCEPT ![t] = "pending"]
    /\ \E p \in 1..(Len(queue) + 1) :
         /\ IsSlot(queue, t, p)
         /\ DispatchNext(InsertAt(queue, p, t), wstat, cur, runOn)
    /\ UNCHANGED <<running, stopPending, drain, pool, retries>>

\* What becomes of the promises and of the queue at stop().
RejectQueue ==
    /\ promise' = [t \in Tasks |-> IF InQueue(t) /\ promise[t] = "pending"
                                   THEN "rejected" ELSE promise[t]]
    /\ queue' = <<>>

\* stop() up to its await: queued tasks are rejected, workers without a task
\* are gone at once, the others wait in shutdownWorker.
\* Bound: one stop() in progress at a time.
Stop ==
    /\ ~stopPending
    /\ running' = FALSE /\ stopPending' = TRUE
    /\ RejectQueue
    /\ LET waiting == {w \in pool : cur[w] # NoTask} IN
         /\ drain' = drain \cup waiting
         /\ pool' = waiting
         /\ wstat' = [w \in Workers |-> IF w \in waiting THEN "draining"
                                        ELSE IF w \in pool THEN "dead" ELSE wstat[w]]
    /\ UNCHANGED <<cur, runOn, retries>>

\* The end of shutdownWorker: its poll sees the worker free, or 10 s are over.
Retire(w) ==
    /\ drain' = drain \ {w}
    /\ pool' = pool \ {w}
    /\ wstat' = [wstat EXCEPT ![w] = "dead"]
    /\ UNCHANGED <<running, stopPending, queue, cur, runOn, retries, promise>>

Drained(w) == w \in drain /\ wstat[w] # "busy" /\ cur[w] = NoTask /\ Retire(w)
ForceKill(w) == w \in drain /\ cur[w] # NoTask /\ Retire(w)

\* stop() after its await: workers.clear(), also of workers spawned meanwhile.
StopDone ==
    /\ stopPending /\ drain = {}
    /\ stopPending' = FALSE
    /\ pool' = {}
    /\ UNCHANGED <<running, drain, queue, wstat, cur, runOn, retries, promise>>

-----------------------------------------------------------------------------
(* The end of one execution of t, and the timers *)

Succeed(t) ==
    /\ Running(t)
    /\ promise' = Settled(promise, t, "resolved")
    /\ TaskComplete(runOn[t], queue, [runOn EXCEPT ![t] = NoWorker])
    /\ UNCHANGED <<running, stopPending, drain, pool, retries>>

RetryOnceMore(t) == retries[t] <= MaxRetries             \* seeded fault: off by one
\* task.retries < maxRetries decides whether a failed execution is retried.
MayRetry(t) == retries[t] < MaxRetries

\* The executor rejects, or the task's own timeout wins the race.
FailRetry(t) ==
    /\ Running(t) /\ MayRetry(t)
    /\ retries' = [retries EXCEPT ![t] = @ + 1]
    /\ \E p \in 1..(Len(queue) + 1) :
         /\ IsSlot(queue, t, p)
         /\ TaskComplete(runOn[t], InsertAt(queue, p, t), [runOn EXCEPT ![t] = NoWorker])
    /\ UNCHANGED <<running, stopPending, drain, pool, promise>>

FailFinal(t) ==
    /\ Running(t) /\ ~MayRetry(t)
    /\ promise' = Settled(promise, t, "rejected")
    /\ TaskComplete(runOn[t], queue, [runOn EXCEPT ![t] = NoWorker])
    /\ UNCHANGED <<running, stopPending, drain, pool, retries>>

\* A worker the health check may find stuck: its execution is older than
\* 2 * taskTimeout, so the task's own timeout is longer than that.
MayBeStuck(w) == w \in pool /\ wstat[w] = "busy" /\ cur[w] \in long

\* How many queued tasks attemptTaskStealing hands to the free workers.
StealNone(free) == 0                                   \* seeded fault: no stealing
Stealable(free) == IF Len(queue) < Cardinality(free) THEN Len(queue) ELSE Cardinality(free)

\* healthCheck(): the workers of stuck are declared idle and their tasks
\* rejected (the executions go on); attemptTaskStealing then hands queued
\* tasks to idle workers until there are no more of one or the other.
HealthCheck ==
    /\ running
    /\ \E stuck \in SUBSET {w \in pool : MayBeStuck(w)} :
         LET free == stuck \cup Idle(wstat)
             n == Stealable(free)
         IN \E to \in Injection(1..n, free) :
              LET took(w) == {i \in 1..n : to[i] = w} IN
              /\ promise' = [t \in Tasks |->
                               IF promise[t] = "pending" /\ \E w \in stuck : cur[w] = t
                               THEN "rejected" ELSE promise[t]]
              /\ wstat' = [w \in Workers |-> IF took(w) # {} THEN "busy"
                                             ELSE IF w \in stuck THEN "idle" ELSE wstat[w]]
              /\ cur' = [w \in Workers |-> IF took(w) # {} THEN queue[CHOOSE i \in took(w) : TRUE]
                                           ELSE IF w \in stuck THEN NoTask ELSE cur[w]]
              /\ runOn' = [t \in Tasks |->
                             IF \E i \in 1..n : queue[i] = t
                             THEN to[CHOOSE i \in 1..n : queue[i] = t] ELSE runOn[t]]
              /\ queue' = SubSeq(queue, n + 1, Len(queue))
    /\ UNCHANGED <<running, stopPending, drain, pool, retries>>

\* ceil(queueLen / threshold) workers join, as far as there is room.
ScaleUp(size) ==
    LET batches == (Len(queue) + ScaleUpThreshold - 1) \div ScaleUpThreshold
        room == MaxWorkers - size
    IN IF Len(queue) < ScaleUpThreshold \/ room <= 0 THEN 0
       ELSE IF batches < room THEN batches ELSE room

MayRemoveToo(expired, size) ==                         \* seeded fault: <= for <
    expired # {} => size >= MinWorkers /\ size - Cardinality(expired) >= MinWorkers - 1
MayRemove(expired, size) == expired # {} => size - Cardinality(expired) >= MinWorkers

\* autoScale(): the size before scaling up also decides how many may go.
\* Which idle workers are past idleTimeoutMs is a choice; new ones are not.
AutoScale ==
    /\ running
    /\ \E new \in SUBSET Unused, expired \in SUBSET Idle(wstat) :
         /\ Cardinality(new) = ScaleUp(Cardinality(pool))
         /\ MayRemove(expired, Cardinality(pool))
         /\ pool' = (pool \cup new) \ expired
         /\ wstat' = [w \in Workers |-> IF w \in new THEN "idle"
                                        ELSE IF w \in expired THEN "dead" ELSE wstat[w]]
         /\ cur' = [w \in Workers |-> IF w \in new THEN NoTask ELSE cur[w]]
    /\ UNCHANGED <<running, stopPending, drain, queue, runOn, retries, promise>>

Next ==
    /\ \/ Start \/ Stop \/ StopDone \/ HealthCheck \/ AutoScale
       \/ \E t \in Tasks : Submit(t) \/ Succeed(t) \/ FailRetry(t) \/ FailFinal(t)
       \/ \E w \in Workers : Drained(w) \/ ForceKill(w)
    /\ UNCHANGED long

Spec == Init /\ [][Next]_vars

\* Every execution ends (the race against task.timeout), and the interval and
\* shutdown timers fire again and again.
Fairness ==
    /\ \A t \in Tasks : WF_vars((Succeed(t) \/ FailRetry(t) \/ FailFinal(t)) /\ UNCHANGED long)
    /\ WF_vars(HealthCheck /\ UNCHANGED long)
    /\ \A w \in Workers : WF_vars((Drained(w) \/ ForceKill(w)) /\ UNCHANGED long)
    /\ WF_vars(StopDone /\ UNCHANGED long)

FairSpec == Spec /\ Fairness
-----------------------------------------------------------------------------
(* Properties *)

\* Whatever submissions, retries and dispatches came before, the queue is so
\* ordered that the binary search of enqueue() ends at the slot of any task.
SearchFindsSlot ==
    \A t \in Tasks : LET b == Search([i \in 1..Len(queue) |-> Prio[queue[i]]], Prio[t])
                     IN b.lo = b.hi /\ IsSlot(queue, t, b.lo + 1)

\* A task is in one place: once in the queue, or in flight on one worker, and
\* a worker's current task is in flight on that very worker.  A retry of a
\* task whose worker was declared free must not make two executions of it.
TaskHeldOnce ==
    /\ \A i, j \in 1..Len(queue) : queue[i] = queue[j] => i = j
    /\ \A t \in Tasks : InQueue(t) => ~Running(t)
    /\ \A w \in Workers : cur[w] # NoTask => runOn[cur[w]] = w

\* A promise that is still pending belongs to a task that is queued or in
\* flight: no interleaving of timers, stop and restart drops the task itself.
NoLostTask == \A t \in Tasks : promise[t] = "pending" => InQueue(t) \/ Running(t)

\* No task is lost or doubled, whatever stops, restarts, retries, stuck workers
\* and stealing do to the queue and the workers.
TasksKept == TaskHeldOnce /\ NoLostTask

\* Unless some task's timeout exceeds twice the pool's, what the pool believes
\* is what runs: nothing is executed, or kept for execution, once its caller
\* has been answered; a worker never runs two executions at once, and one the
\* pool believes idle runs none.
BeliefIsTrue ==
    long = {} =>
        /\ \A t \in Tasks : InQueue(t) \/ Running(t) => promise[t] = "pending"
        /\ \A t, u \in Tasks : Running(t) /\ runOn[t] = runOn[u] => t = u
        /\ \A w \in Idle(wstat), t \in Tasks : runOn[t] # w

\* While the pool runs its size stays within the configured limits, although
\* autoScale decides the scale-down from the size before its scale-up.
PoolSize == running /\ ~OverlapRestart => Cardinality(pool) \in MinWorkers..MaxWorkers

\* "Minimum workers to keep alive" (worker-pool.ts:20), of a pool that was
\* restarted while its stop() was still waiting.
KeepsMinWorkers == running /\ ~stopPending => Cardinality(pool) >= MinWorkers

\* No task starts while one of a higher priority stays in the queue.
DispatchByPriority ==
    [][\A t \in Tasks : ~Running(t) /\ runOn'[t] # NoWorker =>
         \A i \in 1..Len(queue') : Prio[queue'[i]] <= Prio[t]]_vars

\* While the pool runs, every submitted task is answered: retries, timeouts,
\* stuck workers and scaling included.
SettlesWhileRunning ==
    \A t \in Tasks : promise[t] = "pending" ~> (promise[t] # "pending" \/ ~running)
=============================================================================
