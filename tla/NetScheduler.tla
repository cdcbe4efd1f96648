---------------------------- MODULE NetScheduler ----------------------------
(***************************************************************************)
(* The computation graph of core/interaction-net.ts: nodes with one        *)
(* principal port (0) and two auxiliary ports (1, 2), wires between ports, *)
(* and the cache of active pairs, two idle nodes whose principal ports a   *)
(* wire connects.  Payloads are abstracted to their kind.                  *)
(*                                                                         *)
(* And runToCompletion() of core/net-scheduler.ts on such a net: the       *)
(* loop takes a batch of active pairs, claims and starts to reduce them    *)
(* one after the other without a pause, waits for all of them, collects    *)
(* garbage and looks again.  A rule reads the net when it starts, its      *)
(* result is applied to the net after an await.                            *)
(*                                                                         *)
(* getRuleKey sorts the kinds, so the keys task-constructor, task-         *)
(* duplicator and task-eraser of the switch never match: a task paired     *)
(* with anything but a task falls through to the default, its execution.   *)
(***************************************************************************)
EXTENDS Naturals, FiniteSets

CONSTANTS
    Nodes,           \* node ids, of the nodes created later too
    InitialNets,     \* records [kind, wires] of nets a caller builds; kind of its nodes only
    MaxConcurrency, GcThreshold, MaxIterations

VARIABLES
    live,     \* keys of this.nodes
    kind,     \* node.payload.kind: a task is a node of its own kind here
    status,   \* node.status
    wires,    \* this.wires: sets of two ports
    cache,    \* this.activePairCache: sets of two nodes
    loop,       \* where runToCompletion is
    batch,      \* pairs of the current batch that are not attempted yet
    attempts,   \* size of the current batch
    flights,    \* reductions between their start and their application
    iterations, sinceGC,
    executor,   \* is a taskExecutor configured?
    executed    \* history: how often the executor was called, per task

-----------------------------------------------------------------------------
(* The net *)

netVars == <<live, kind, status, wires, cache>>

Kinds == {"task", "constructor", "duplicator", "eraser"}
Statuses == {"idle", "reducing", "completed"}
Ports == Nodes \X {0, 1, 2}
Pairs == {{n, m} : n, m \in Nodes}

Wire(n, i, m, j) == {<<n, i>>, <<m, j>>}
PrincipalWire(pair) == {<<n, 0>> : n \in pair}

NetTypeOK ==
    /\ live \subseteq Nodes
    /\ kind \in [Nodes -> Kinds] /\ status \in [Nodes -> Statuses]
    /\ \A w \in wires : w \subseteq Ports
    /\ cache \subseteq Pairs

\* Erasers are created with priority 5; tasks and joins take 3 by default.
Priority(pair) == IF \E n \in pair : kind[n] = "eraser" THEN 5 ELSE 3

\* The nodes of a pair are idle, and connected by their principal ports.
IsReady(pair) ==
    /\ pair \subseteq live /\ Cardinality(pair) = 2
    /\ PrincipalWire(pair) \in wires
    /\ \A n \in pair : status[n] = "idle"

Ready == {pair \in {{n, m} : n, m \in live} : IsReady(pair)}

\* findActivePairs(): a cache that is not empty is returned as it is.
Found == IF cache # {} THEN cache ELSE Ready

\* The nodes at the other end of the wires of a port.
Connected(n, i) ==
    {m \in live : \E w \in wires : <<n, i>> \in w /\ \E j \in 0..2 : <<m, j>> \in w \ {<<n, i>>}}

ClaimableUnchecked(pair) == TRUE                       \* seeded fault: no second check
\* claimPair() checks the statuses again, as an earlier claim may have taken a node.
Claimable(pair) == \A n \in pair : status[n] = "idle"

\* claimPair(): the pair leaves the cache, claimed or not.
ClaimPair(pair, pairs) ==
    /\ cache' = pairs \ {pair}
    /\ status' = [n \in Nodes |-> IF n \in pair /\ Claimable(pair) THEN "reducing" ELSE status[n]]

KeepCache(remove, add, addKind, addWires, dropWires) ==  \* seeded fault: not invalidated
    /\ live' = (live \ remove) \cup add
    /\ kind' = [n \in Nodes |-> IF n \in add THEN addKind[n] ELSE kind[n]]
    /\ wires' = (wires \ dropWires) \cup addWires
    /\ cache' = cache
\* applyReduction(): removed nodes keep their other wires.
ApplyReduction(remove, add, addKind, addWires, dropWires) ==
    /\ live' = (live \ remove) \cup add
    /\ kind' = [n \in Nodes |-> IF n \in add THEN addKind[n] ELSE kind[n]]
    /\ wires' = (wires \ dropWires) \cup addWires
    /\ cache' = {}

\* removeNode() of every node of gone, with all its wires.
WithoutNodes(gone) ==
    /\ live' = live \ gone
    /\ wires' = {w \in wires : \A p \in w : p[1] \notin gone}
    /\ cache' = IF gone = {} THEN cache ELSE {}

-----------------------------------------------------------------------------
(* The scheduler *)

ASSUME SchedulerAssumption ==
    /\ MaxConcurrency \in Nat \ {0} /\ GcThreshold \in Nat \ {0} /\ MaxIterations \in Nat
    /\ \A net \in InitialNets : /\ DOMAIN net.kind \subseteq Nodes /\ IsFiniteSet(DOMAIN net.kind)
                                /\ \A n \in DOMAIN net.kind : net.kind[n] \in Kinds
                                /\ \A w \in net.wires : w \subseteq Ports

schedVars == <<loop, batch, attempts, flights, iterations, sinceGC, executor, executed>>
netSchedVars == <<netVars, schedVars>>

Flight == [pair : Pairs, remove : SUBSET Nodes, add : SUBSET Nodes, addKind : [Nodes -> Kinds],
           addWires : SUBSET SUBSET Ports, dropped : BOOLEAN, running : SUBSET Nodes,
           fails : BOOLEAN]

SchedTypeOK ==
    /\ NetTypeOK
    /\ loop \in {"check", "claim", "wait", "done", "gaveUp"}
    /\ batch \subseteq Pairs /\ attempts \in 0..MaxConcurrency
    /\ \A f \in flights : /\ DOMAIN f = {"pair", "remove", "add", "addKind", "addWires",
                                         "dropped", "running", "fails"}
                          /\ f.pair \in Pairs /\ f.remove \subseteq f.pair
                          /\ f.add \subseteq Nodes \ live /\ f.running \subseteq f.pair
    /\ Cardinality(flights) <= MaxConcurrency
    /\ iterations \in 0..MaxIterations /\ sinceGC \in 0..(GcThreshold - 1)
    /\ executed \in [Nodes -> Nat]

SchedInit ==
    /\ \E net \in InitialNets :
         /\ live = DOMAIN net.kind
         /\ kind = [n \in Nodes |-> IF n \in live THEN net.kind[n] ELSE "task"]
         /\ wires = net.wires
    /\ status = [n \in Nodes |-> "idle"]
    /\ cache = {}
    /\ loop = "check" /\ batch = {} /\ attempts = 0 /\ flights = {}
    /\ iterations = 0 /\ sinceGC = 0
    /\ executor \in BOOLEAN
    /\ executed = [n \in Nodes |-> 0]

-----------------------------------------------------------------------------
(* Rules: what a claimed pair will do to the net *)

NoChange(pair) ==
    [pair |-> pair, remove |-> {}, add |-> {}, addKind |-> kind, addWires |-> {},
     dropped |-> FALSE, running |-> {}, fails |-> FALSE]

\* task-task runs both tasks and removes their wire; a task with any other
\* node is run by the default branch, which changes nothing else.
Execution(pair) ==
    LET tasks == {n \in pair : kind[n] = "task"}
    IN [NoChange(pair) EXCEPT !.running = IF executor THEN tasks ELSE {},
                              !.dropped = (tasks = pair),
                              !.fails = ~executor]

AnnihilationKeeps(pair) ==                             \* seeded fault: nodes not removed
    [NoChange(pair) EXCEPT !.dropped = TRUE]
\* Two constructors or two duplicators: the new wires connect the auxiliary
\* ports of the two nodes themselves, which are removed.
Annihilation(pair) ==
    LET a == CHOOSE n \in pair : TRUE
        b == CHOOSE n \in pair : n # a
    IN [NoChange(pair) EXCEPT
          !.remove = pair, !.dropped = TRUE,
          !.addWires = IF kind[a] = "eraser" THEN {}
                       ELSE {Wire(a, 1, b, 1), Wire(a, 2, b, 2)}]

\* A constructor and a duplicator, nodes c1, c2, d1, d2 being new.
Commutation(pair, c1, c2, d1, d2) ==
    [NoChange(pair) EXCEPT
       !.remove = pair, !.dropped = TRUE,
       !.add = {c1, c2, d1, d2},
       !.addKind = [kind EXCEPT ![c1] = "constructor", ![c2] = "constructor",
                                ![d1] = "duplicator", ![d2] = "duplicator"],
       !.addWires = {Wire(c1, 1, d1, 0), Wire(c1, 2, d2, 0),
                     Wire(c2, 1, d1, 1), Wire(c2, 2, d2, 1)}]

\* An eraser and a constructor or duplicator x: a new eraser for each node of
\* targets, one per auxiliary port of x that leads to an idle node.
Erasure(pair, erasers, targets) ==
    [NoChange(pair) EXCEPT
       !.remove = pair, !.dropped = TRUE,
       !.add = {erasers[i] : i \in DOMAIN targets},
       !.addKind = [n \in Nodes |-> IF \E i \in DOMAIN targets : n = erasers[i]
                                    THEN "eraser" ELSE kind[n]],
       !.addWires = {Wire(erasers[i], 0, targets[i], 0) : i \in DOMAIN targets}]

NoPropagation(pair) == [NoChange(pair) EXCEPT !.remove = pair, !.dropped = TRUE]

FreeReused == Nodes                                    \* seeded fault: ids are not unique
\* Ids that no node or wire mentions and no reduction in flight is about to use.
Free == Nodes \ (live \cup {p[1] : p \in UNION wires}
                \cup UNION {f.add \cup {p[1] : p \in UNION f.addWires} : f \in flights})

KindsOf(pair) == {kind[n] : n \in pair}

\* The idle nodes behind the auxiliary ports of x, as functions from ports.
PropagationTargets(x, pair) ==
    LET open == {i \in {1, 2} : \E m \in Connected(x, i) : status[m] = "idle" /\ m \notin pair}
    IN {t \in [open -> live] : \A i \in open : /\ t[i] \in Connected(x, i) \ pair
                                               /\ status[t[i]] = "idle"}

Distinct(ids) == \A i, j \in DOMAIN ids : ids[i] = ids[j] => i = j

\* One fixed choice of new ids, which carry no meaning; none when the bound
\* Nodes is used up.
NewIds(k) ==
    IF \E ids \in [1..k -> Free] : Distinct(ids)
    THEN {CHOOSE ids \in [1..k -> Free] : Distinct(ids)} ELSE {}

\* applyReductionRule(): the reductions a claimed pair may start.  An eraser
\* propagates or not, as its creator chose.
Reductions(pair) ==
    IF "task" \in KindsOf(pair) THEN {Execution(pair)}
    ELSE IF Cardinality(KindsOf(pair)) = 1 THEN {Annihilation(pair)}
    ELSE IF KindsOf(pair) = {"constructor", "duplicator"}
         THEN {Commutation(pair, new[1], new[2], new[3], new[4]) : new \in NewIds(4)}
    ELSE LET x == CHOOSE n \in pair : kind[n] # "eraser"
         IN {NoPropagation(pair)} \cup
            {Erasure(pair, new, t) : new \in NewIds(2), t \in PropagationTargets(x, pair)}

-----------------------------------------------------------------------------
(* runToCompletion *)

Reducing == \E n \in live : status[n] = "reducing"

FinishOnEmpty == TRUE                                  \* seeded fault: in-flight ignored
MayFinish == ~Reducing

\* No pairs: the net is done, or something is still reducing and the loop
\* sleeps and looks again.
LookAndFindNone ==
    /\ loop = "check" /\ iterations < MaxIterations
    /\ Found = {}
    /\ IF MayFinish THEN loop' = "done" /\ UNCHANGED iterations
       ELSE loop' = "check" /\ iterations' = iterations + 1
    /\ UNCHANGED <<netVars, batch, attempts, flights, sinceGC, executor, executed>>

\* The pairs of highest priority become the batch.
TakeBatch ==
    /\ loop = "check" /\ iterations < MaxIterations
    /\ Found # {}
    /\ \E b \in SUBSET Found :
         /\ \/ Cardinality(b) = MaxConcurrency
            \/ Cardinality(b) < MaxConcurrency /\ b = Found
         /\ \A p \in b, q \in Found \ b : Priority(p) >= Priority(q)
         /\ batch' = b /\ attempts' = Cardinality(b)
    /\ cache' = Found
    /\ loop' = "claim"
    /\ UNCHANGED <<live, kind, status, wires, flights, iterations, sinceGC, executor, executed>>

\* reducePair() up to its await, for the next pair of the batch: its claim
\* fails if an earlier pair of the batch took one of its nodes.
ClaimNext ==
    /\ loop = "claim" /\ batch # {}
    /\ \E pair \in batch :
         /\ \A q \in batch : Priority(pair) >= Priority(q)
         /\ ClaimPair(pair, cache)
         /\ batch' = batch \ {pair}
         /\ IF Claimable(pair)
            THEN \E f \in Reductions(pair) :
                   /\ flights' = flights \cup {f}
                   /\ executed' = [n \in Nodes |-> IF n \in f.running THEN executed[n] + 1
                                                   ELSE executed[n]]
            ELSE UNCHANGED <<flights, executed>>
    /\ UNCHANGED <<live, kind, wires, loop, attempts, iterations, sinceGC, executor>>

AllClaimed ==
    /\ loop = "claim" /\ batch = {}
    /\ loop' = "wait"
    /\ UNCHANGED <<netVars, batch, attempts, flights, iterations, sinceGC, executor, executed>>

\* The executor returns, fails or times out: the task is completed in any case.
TaskEnds(f, t) ==
    /\ loop = "wait" /\ t \in f.running
    /\ status' = [status EXCEPT ![t] = "completed"]
    /\ flights' = (flights \ {f}) \cup {[f EXCEPT !.running = @ \ {t}]}
    /\ UNCHANGED <<live, kind, wires, cache, loop, batch, attempts, iterations, sinceGC,
                   executor, executed>>

\* A rule that threw marks both nodes completed.
AfterFailure(pair) == [n \in Nodes |-> IF n \in pair THEN "completed" ELSE status[n]]

\* reducePair() after its await.
EndReduction(f) ==
    /\ loop = "wait" /\ f.running = {}
    /\ flights' = flights \ {f}
    /\ IF f.fails
       THEN /\ status' = AfterFailure(f.pair)
            /\ UNCHANGED <<live, kind, wires, cache>>
       ELSE /\ ApplyReduction(f.remove, f.add, f.addKind, f.addWires,
                              IF f.dropped THEN {PrincipalWire(f.pair)} ELSE {})
            /\ status' = [n \in Nodes |-> IF n \in f.add THEN "idle" ELSE status[n]]
    /\ UNCHANGED <<loop, batch, attempts, iterations, sinceGC, executor, executed>>

\* gc(): completed nodes no wire connects to an idle one.
Garbage ==
    {n \in live : /\ status[n] = "completed"
                  /\ ~\E i \in 0..2 : \E m \in Connected(n, i) : status[m] = "idle"}

\* Promise.allSettled in reduceBatch, its garbage check and the next round.
BatchDone ==
    /\ loop = "wait" /\ flights = {}
    /\ iterations' = iterations + 1
    /\ loop' = "check"
    /\ IF sinceGC + attempts >= GcThreshold
       THEN WithoutNodes(Garbage) /\ sinceGC' = 0
       ELSE UNCHANGED <<live, wires, cache>> /\ sinceGC' = sinceGC + attempts
    /\ UNCHANGED <<kind, status, batch, attempts, flights, executor, executed>>

GiveUp ==
    /\ loop = "check" /\ iterations >= MaxIterations
    /\ loop' = "gaveUp"
    /\ UNCHANGED <<netVars, batch, attempts, flights, iterations, sinceGC, executor, executed>>

SchedNext ==
    \/ LookAndFindNone \/ TakeBatch \/ ClaimNext \/ AllClaimed \/ BatchDone \/ GiveUp
    \/ \E f \in flights : EndReduction(f)
    \/ \E f \in flights : \E t \in f.running : TaskEnds(f, t)

SchedSpec == SchedInit /\ [][SchedNext]_netSchedVars

\* The loop is one call that runs on; a task's timeout ends its execution.
SchedFairSpec == SchedSpec /\ WF_netSchedVars(SchedNext)

-----------------------------------------------------------------------------
(* Properties *)

\* No node is in two reductions, and no id is created twice: a batch may hold
\* pairs that share a node (every task of a DAG shares the join).
ReductionsDisjoint ==
    \A f, g \in flights : f # g => f.pair \cap g.pair = {} /\ f.add \cap g.add = {}

\* A cache that is not empty holds every pair that is ready: findActivePairs,
\* which trusts it, misses none.
CacheComplete == cache # {} => Ready \subseteq cache

\* No task is handed to the executor twice, however many pairs it is in.
TaskRunsOnce == \A n \in Nodes : executed[n] <= 1

\* Nothing is reduced or executed twice, though claims of one batch overlap.
ReducedOnce == ReductionsDisjoint /\ TaskRunsOnce

\* The end of runToCompletion: nothing is ready, nothing in flight.
DoneMeansNormalForm == loop = "done" => Ready = {} /\ flights = {} /\ ~Reducing

\* A net without tasks reaches its normal form before the iterations run out.
PureNetsFinish ==
    (\A n \in live : kind[n] # "task") => <>(loop = "done")

\* "builds a parallel DAG, and reduces to normal form" (executor.ts:427), with
\* the scheduler's "Deadlock-free" (net-scheduler.ts:9).
ReachesNormalForm == executor => <>(loop = "done")
=============================================================================
