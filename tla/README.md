# AETHER: specification and proofs

TLA+ specifications of AETHER, a TypeScript/Bun framework that runs a hierarchy
of LLM agents. The modules are translated from the sources; TLC checks them on
small instances and TLAPS proves the most important safety properties for all
values of the constants. File names below are relative to `src/`.

Contents: [the system](#the-system) · [modules](#modules) ·
[runs](#runs) · [fairness](#fairness) · [proofs](#proofs) ·
[disagreements](#disagreements-between-code-and-text) ·
[not modelled](#what-is-not-modelled) · [plan](#plan)

## The system

AETHER is one process with one JavaScript event loop. A method runs without
interleaving up to its first `await`; what other calls, timers and socket
callbacks do meanwhile is seen after it. Only SQLite and files outlive the
process. So one action of a module is one run of code between two awaits, and
the hard behaviours are state read before an await and used after it, timers
racing answers, and a process that dies between two awaits.

```
 bin/aether ── runtime ──┬─ agent files ─> registry ─> router ─┐
 (run, link, spawn)      │                                     ▼
 MCP servers ────────────┤         executor ──> interaction net + scheduler
                         │            │  │ └──> transports / providers, chains
 DSL compiler ─> files   │            │  └────> escalation (circuit breaker) ─┐
                         │          worker pool     retrieval index, its cache│
 forge, sentinel ────────┤                                                    ▼
 reactions, hooks ───────┤   ACP bus ──> highway ─────────────> SQLite store <┐
                         │   conversations, handoff, group chat, shared state ┤
                         │   workflow builder ─> durable workflows, progress ─┘
                         └─ Aether-Link server <─> clients
```

| component | state | operations | what is hard | what makes it correct |
|---|---|---|---|---|
| worker pool (`core/worker-pool.ts`) | priority queue, workers, promises of callers | start, stop, submit, health check, auto-scaling | executions outlive what the pool believes; stop waits; retries; stuck workers | a task is held once, none is lost, callers are answered once, limits hold |
| escalation (`core/escalation.ts`) | a record per agent, in memory and in a table | escalate, reset, prune, load | prune and restart touch one of the two copies; time windows | the breaker limits what gets through and survives a restart |
| executor (`core/executor.ts`) | recursion of tasks, agent status, counters; workflows and pipelines | execute, sub-tasks, escalation, workflow, pipeline | mutual escalation; every exit must release and count; concurrent requests; agents found before an await | bounded recursion, balanced counters, results at their places |
| interaction net, scheduler (`core/interaction-net.ts`, `core/net-scheduler.ts`) | graph, pair cache, reductions in flight | claim, reduce by rule, gc, run to completion | rules read the net before an await and change it after | no node reduced twice, no pair missed, normal form reached |
| durable workflows, builder (`core/durable.ts`, `core/workflow-builder.ts`) | status, position, accumulated state, checkpoints | run, resume, pause, abort; build | crash between step and checkpoint; overlapping calls | committed steps are not repeated, none skipped, state complete |
| memory highway, ACP bus (`core/memory-highway.ts`, `core/acp.ts`) | hashes seen; pending requests with timers, dead letters | publish; send, request, acknowledge, retry, stop | response, timer and stop race; delivery late, out of order or never | each request ends once, with its own response; only repeats are dropped |
| Aether-Link (`protocol/`) | connections by agent id, pending requests, reconnect timers | connect, close, heartbeat, request | events of an old socket after its replacement | agents with a socket are reachable, requests end |
| transports (`transports/`) | a connection per agent, pending calls | connect, execute, disconnect | two executions connect at once; late `onclose` | a call ends, whatever happens to its socket |
| MCP pool (`nexus/mcp-pool.ts`) | connections, tool index, counts | add, call, health check, close idle | capacity checked before an await | limits, no process out of reach |
| MCP servers (`bin/aether-mcp.ts`, `nexus/mcp-server.ts`) | lines taken, the runtime; sessions | methods, tools, resources | requests while the runtime is made; end of input | each request answered once and truly |
| router (`core/router.ts`) | contexts, decision cache | resolve, change of context | strategies awaited between reading and writing the cache | cached decisions still hold |
| agent files, registry (`core/runtime.ts`, `core/registry.ts`) | registry, indexes, table, files | sync | crash half way; moved files | memory, table and files agree |
| providers, chains (`providers/manager.ts`, `core/fallback/`) | chains, keys | send for a tier | chain replaced meanwhile; every provider fails | everybody asked before giving up, nobody too often |
| batches (`core/utils/`) | items, attempts | batch, retry, rate limit | items end in any order | results in order, retries bounded |
| shared state (`core/shared-state.ts`) | a session and its row | update, record, load | edges shared by successive states; failing writes | row follows session |
| conversations (`core/conversation.ts`, `handoff.ts`, `group-chat.ts`) | messages, chain | add, hand off, checkpoint, chat | trimming within a millisecond; concurrent handoffs | newest messages kept, nobody gets a conversation back |
| progress, state graph (`core/progress-tracker.ts`, `core/state-graph.ts`) | events; a graph run | record, abort; compile, run | events across restarts and retries | loops found, runs stay in the graph |
| forge, sentinel (`core/forge.ts`, `core/sentinel.ts`), tiers | agents in registry, rows and files; pause | spawn, retire, kill, pause, resume, restart | three copies, executions that set statuses | copies agree, limits hold |
| hooks (`core/hooks/`) | debounce timer, queue, running dispatches | event, toggle, reload, dispose | events during dispatches, timeouts | one at a time, the newest event served |
| reactions (`core/reaction-engine.ts`) | rules, cooldowns, counts | message, start, stop | handlers awaited, messages side by side | firing limits |
| runtime (`core/runtime.ts`, `bin/aether.ts`) | which resources are open | init, run, link, spawn, shutdown | two shutdowns at once, failures in init | nothing found is left open, processes end |
| retrieval (`core/rag-index.ts`, `embedder.ts`, `rag-meta-index.ts`) | vectors, texts, corpus; hot cache, Bloom filter, affinity | index, delete, query | embeddings end in any order; cached answers of deleted items | tables agree, staleness bounded |
| loggers (`core/logger.ts`, `core/structured-logger.ts`) | buffers, files | log, flush, close | retries, close during a flush | each line once, in order |
| conflicts (`core/conflict-resolution.ts`) | gathered sentences | analyse, resolve | similarity is not transitive | nothing left out, majority wins |
| powers (`core/powers/`) | directories, `registry.json` | install, remove | overlapping calls, crashes, failing disk | rows follow directories |
| DSL (`dsl/`) | lexer, parser, files | compile | braces in prompts and conditions | nesting, one file per node |

Interactions: the executor asks the escalation manager when an agent fails and
hands DAGs to the scheduler, whose task executor is the executor again
(`Executor` extends `Escalation`; net and scheduler are one module). The ACP
bus sends through `publish()` of the highway and is called back by its wildcard
subscriber, so `AcpBus` has both. The workflow engine orders steps by the same
algorithm the builder checks (in `WorkflowBuilder`). A handoff and a group chat write the same conversation (`Conversations`), forge
and sentinel the same agents (`Fleet`), the sync and the registry the same
table (`AgentSync`); the manager of transports and the transports, and hook
registry, debouncer and dispatcher, are each one module because every operation
crosses them. The full list of components and the hazards, each at its line,
is in `PROJECT.json`.

## Modules

| module | models | state and actions |
|---|---|---|
| `WorkerPool` | `core/worker-pool.ts`, with the binary search of `enqueue()` as a recursive function | `queue`, `pool`, `wstat`, `cur` are the pool's fields; `runOn` is the execution that really runs, which the pool does not know. One action per API call, per end of an execution, per timer (`HealthCheck` with stealing, `AutoScale`) and per continuation of `stop()` |
| `Escalation` | `core/escalation.ts`, the registry's chain, the table of records | `records` (memory), `stored` (table); `Escalate`, `ResetCircuit`, `Prune`, `Restart`, `Tick` |
| `Executor` | `core/executor.ts`, extends `Escalation` | `stack` of frames per request; one action per segment of `executeInternal`, each exit with its release and counts |
| `TaskFlows` | several tasks of one caller, `core/executor.ts` | `phase`, `called`, `outcome` per task; `flow` is workflow, pipeline or net; how a task finds its agent and its prompt |
| `NetScheduler` | `core/interaction-net.ts`, `core/net-scheduler.ts` | the graph, the cache of pairs; `runToCompletion` as a loop, `flights` as reductions between their start and their application, one operator per rule |
| `DurableProgress` | abstract: ordered commits with attempts that may be interrupted | `committed`, `attempt` |
| `DurableWorkflow` | `core/durable.ts` and its table | `loops` are the calls of `executeFrom`; `Check`, `Approved`, `StepSucceeds`, ... are its segments; `Crash` loses everything but the table |
| `WorkflowBuilder` | `core/workflow-builder.ts` with Kahn's algorithm | one action per builder call; `build()` as the predicate `Accepts` |
| `AcpBus` | `publish()` and clean-up of the highway; `core/acp.ts` | `seen` is the table or `recentHashes`, `at` is where each message is; messages are named by their place in `msgs`; `caller` is what the caller of `request()` sees |
| `AetherLink` | `protocol/server.ts`, `protocol/client.ts` | each socket has two ends (`cend`, `send`) and messages on their way (`up`, `down`); `entry`, `members` are the server's tables, `ws`, `attempts`, `sleeping` the client's fields |
| `Transports` | `transports/` | a transport is named by the request that made it; `chosen` is the manager's map, `waiting` a transport's table, `stale` a replaced socket whose `onclose` is to come |
| `McpPool` | `nexus/mcp-pool.ts` | a connection is named by its `addServer()` call; `connections`, `toolIndex`, `proc`, `active` |
| `Router` | `core/router.ts` | `req` are the calls of `resolve()`, `cache` its entries in order |
| `AgentSync` | `smartSyncAgents()` of `core/runtime.ts`, the registry, the agents table | `disk`, `registered`, `index`, `table`; the sync goes file by file, a crash at any of them |
| `Providers` | `providers/manager.ts`, `core/fallback/` | `asked` is the list of (provider, model) tried |
| `Batches` | `core/utils/` batch, retry, rate limit | `item` is what each item does |
| `SharedState` | `core/shared-state.ts` | `session`, `row`, `counts` of edge objects that states share |
| `Conversations` | `core/conversation.ts`, `handoff.ts`, `group-chat.ts` with the store's trimming | `conversation`, `messages`, `ms` is the clock; `handoffs` a history |
| `Progress` | `core/progress-tracker.ts`, `core/state-graph.ts` | `events` of the table; `trace` of a graph run |
| `Fleet`, `Tiers` | `core/forge.ts`, `core/sentinel.ts`; `core/tier-registry.ts` | `registered`, `agentRow`, `agentFiles` are the three copies |
| `Hooks` | `core/hooks/` registry, debounce, dispatcher | `pending` is the timer's event, `queue`, `executing` |
| `Reactions` | `core/reaction-engine.ts` | `position` of each message among the rules, `awaiting` handlers |
| `Runtime` | `core/runtime.ts`, `bin/aether.ts` | `open` resources and `field`s that hold them; two actors run `shutdown()` |
| `McpServers` | `bin/aether-mcp.ts`, `nexus/mcp-server.ts` | `received`, `taken`, `handling`, `out`; `sessions`, `post` |
| `Dsl` | `dsl/` lexer, parser, transpiler, command line | `stack` of parse functions with what they expect next, `mode` of the lexer, `outFiles` |
| `RagIndex` | `core/rag-index.ts`, `core/embedder.ts`, `core/rag-meta-index.ts` | `vecs`, `ftsTexts` tables, `writes` in progress; `hot`, `bloom`, `learned`, `pending` queries |
| `Logs` | `core/logger.ts`, `core/structured-logger.ts` | `buffer`, `flushed`, `logFile`; `streamBuffer`, `streamFile` |
| `Conflicts` | `core/conflict-resolution.ts` | `sentenceSeen` as gathered so far |
| `Powers` | `core/powers/installer.ts`, `registry.ts` | `folder`, `rows` of `registry.json`, `call` with the rows it read |
| `WorkerPoolMC`, `ExecutorMC`, `NetSchedulerMC`, `AetherLinkMC` | instances for TLC | |
| `ServicesCore`, `ServicesRecords` | the components with limits, caches or copies to keep in step (escalation, providers, batches, fleet, reactions, powers, the router, the retrieval index and its cache), and those that keep records (agent files, sessions, logs, MCP servers, flows) | one specification each, with every bound a constant: what `ServicesProofs` and `RecordsProofs` are about. `part` (`keeper` among the records) says whose behaviour it is |
| `CallsMC`, `ServicesMC` | many components in one run each | `part` says whose behaviour it is. The components share no state, so interleaving them would add states and no behaviour; each starts in all its initial states when it is the part that moves. `ServicesMC` extends `ServicesCore` and `ServicesRecords` (its part `records`) and adds the rest |
| `WorkerPoolProofs`, `ExecutorProofs`, `NetProofs`, `AcpProofs`, `LinkProofs`, `CallsProofs`, `ServicesProofs`, `RecordsProofs` | proofs | `CallsProofs` has the workflow engine too |

Operators marked "seeded fault" are variants of the operator below them, as a
plausible mistake would have it: with it in place of the original the property
it belongs to must fail.

What is abstracted: identifiers, texts, prompts, tokens, durations, statistics
and logs. Priorities of tasks are numbers only where the queue orders by them.
Choices the code makes by data that is not modelled (which idle worker is warm,
which agent a strategy prefers, what an agent or a condition answers, whether a
disk or a provider fails) are existential choices. More in the modules' heads;
the less obvious ones:

- *Worker pool.* A worker object that nothing refers to may stand for a new one,
  so the number of workers bounds those alive at once. `LongTasks` are tasks
  whose timeout exceeds twice the pool's: only these can be declared stuck while
  they run, since every other execution has lost its own timeout race by then.
- *Escalation.* `Date.now()` is a tick counter. `recent` is a history of the
  escalations that were routed in the last window, which the code does not keep.
- *Net.* A rule's result is computed when the rule starts and applied by
  `EndReduction`, as in the code. `executed` is a history.
- *Durable.* Steps are named by their place in topological order, results by the
  set of steps they come from. `runs` is a history.
- *Aether-Link.* 30 s of silence are a choice of the server, so heartbeats are
  not messages; whether a client beats at all is `hb`.
- *DSL.* Lexer and parser run in step, piece by piece of the source; the code
  makes all tokens first. Two identifiers are told apart.
- *Retrieval.* A vector is its kind (TF-IDF or API) and its text; scores are
  choices. A namespace of the cache holds one item.
- *Powers.* A file cut off by a crash counts as one without rows, as
  `loadRegistryData` treats it.

## Runs

Each run of TLC explores all states of its instance. "Violation" runs show a
place where the code does not do what its text says.

| run | instance and bounds | distinct states | shows |
|---|---|---|---|
| `pool` | 3 tasks (one urgent), 1 retry, 1 to 2 workers of 3 objects, restart after stop, one task with or without a long timeout | 176 764 | tasks held once, none lost, no work after the answer, one execution per worker, size limits, dispatch by priority, binary search ends at the right slot; every submission is answered while the pool runs |
| `pool_restart` | as `pool`, `start()` during `stop()` | violation | `KeepsMinWorkers` fails |
| `executor` | 2 requests at once, 2 mutually escalating agents, depth 2, 1 sub-task | 241 521 | counters balance, no agent stays busy, every request ends |
| `net` | every net of 4 nodes of 4 kinds over any of 5 further wires, with and without a task executor, batches of 2, gc after 3 | 337 244 | reductions are disjoint, a task runs once, the cache misses no pair, "done" is a normal form, nets without tasks get there |
| `net_deadlock` | the DAG of two tasks that `executePipeline` builds | violation | `ReachesNormalForm` fails |
| `durable_rebuilt` | 3 steps, the process rebuilds its workflow | violation | `NoRedo` fails |
| `acp` | 2 agents, 3 messages, 1 retry, 1 dead letter, with and without a store | 722 712 | requests end, each by its own response; the counter follows the map; drops have an original |
| `link` | a client with two sockets over time, a peer, 1 request, 1 reconnection, a queue of 1; orderly agents and others | 1 501 086 | tables agree and hold no closed socket; orderly clients are listed and have one socket; requests end |
| `link_replaced` | as `link`, nobody calls `connect()` early | violation | `OpenSocketsListed` fails |
| `calls` | parts with liveness, below | 111 562 | no call is lost from a table, every call ends, nothing checkpointed is repeated, refinement of `DurableProgress`, clean exits |
| `services` | the other parts, below | 835 116 | the parts' invariants, in eight groups by what they are about |
| `handoff_oldest` | a context of one message, a conversation of two | violation | `ContextIsRecent` fails |

The parts of `calls` and `services`, with what they show:

| part | bounds | states | properties |
|---|---|---|---|
| `durable` | 4 steps in a diamond, one needing approval, one run, one call | 885 | `NothingMissing`, `NoRedo`, `ImplementsProgress`, `CallEnds` |
| `transports` | 2 requests, every kind of transport, 1 poll | 27 357 | `WaitersKnown`, `JobsEnd` |
| `mcp` | 2 additions, 2 calls, capacity 1 or 2, HTTP or processes | 56 656 | `McpAccounts`, `McpCallsEnd` |
| `hooks` | 3 events, a queue of 1 | 4 832 | `HookRunsAlone`, `EventsAnswered` |
| `runtime` | run, link, spawn; a plugin that hangs or none | 21 832 | `CleanExit`, `StoreAlive`, `CommandEnds` |
| `escalation` | 3 tiers, threshold 2, window 2 of 7 ticks | 11 803 | `BreakerSurvivesRestart`, `RateBound` |
| `builder` | up to 4 steps | 26 701 | `WaitsForEarlierCalls`, `SiblingsIndependent`, `BuildsWellFormed` |
| `dsl` | 2 nodes, one misread brace | 22 347 | `WellNested`, `FilesOfNodes` |
| `router` | 2 agents, 2 contexts, 2 requests, a cache of 1 | 74 880 | `CacheFresh` |
| `sync` | 3 files for 2 agents, 3 modifications | 133 751 | `SyncComplete`, `IndexAgrees` |
| `rag` | 2 items, 2 texts, 2 calls at once, 3 in all, a cache of 1 | 32 360 | `VectorsHaveTexts`, `LastCallWins`, `CorpusSaved` |
| `ragmeta` | 2 queries, 2 namespaces, a hot cache of 1, 2 at once, 3 ticks | 105 093 | `StaleAtMostTTL`, `FilterComplete`, `HotEarned` |
| `shared` | 2 edges, 3 updates, 2 transitions kept | 4 391 | `RowFollowsSession` |
| `conversations` | 2 agents, 3 messages, 1 kept | 20 199 | `HandoffsNeverReturn`, `KeepsNewestMessages` |
| `logs` | 3 entries, 1 retained, 2 attempts | 41 261 | `EachLineOnce`, `ClosedIsWritten`, `StreamsComplete` |
| `progress` | 2 speakers, 2 outputs, 3 steps, 3 events | 9 315 | `LoopsFound` |
| `graph` | 3 vertices, every graph of 2 edges, 3 iterations | 7 440 | `RunsStayInGraph` |
| `tiers` | 3 tiers of 2 ranks, 1 target each | 1 849 | `FirstTargetsEnd` |
| `fleet` | 3 agents, one a monitor, 1 allowed | 3 684 | `FleetAgrees`, `FleetBounded` |
| `powers` | 2 powers, 2 callers, 1 failure or crash | 61 407 | `RowsFollowFolders`, `FoldersWhole` |
| `reactions` | 2 rules, 2 messages, cooldown 2, 1 firing | 5 072 | `FiringsLimited` |
| `providers` | 3 providers, 2 models | 36 120 | `GivesUpLast` |
| `batches` | 3 items, batches of 2, 1 retry | 274 | `BatchesInOrder` |
| `mcpserver` | 3 lines; 3 requests | 207 855 | `AnsweredInOrder`, `StatusTrue`, `SessionsHeld` |
| `flows` | 3 tasks, 2 at once, 2 agents | 4 546 | `ResultsInPlace`, `ContextComplete`, `OfflineOnlyByName` |
| `conflicts` | 3 outputs of up to 2 sentences, 2 agents | 28 224 | `NothingLeftOut`, `AgreementsShared`, `MajorityWins` |

The invariants of `services` are groups of these. `BreakersHold` is that of
`escalation`; `BuildsInOrder` those of `builder`, `dsl` and `conflicts`;
`AgentsCurrent` of `router`, `rag` and `ragmeta`; `LoopsBounded` of
`conversations`, `progress`, `graph` and `tiers`; `FleetConsistent` of `fleet`
and `powers`; `EffortLimited` of `reactions`, `providers` and `batches`;
`RecordsKept` of `sync`, `shared` and `logs`; `RequestsAnswered` of `mcpserver`
and `flows`. `CallsAccounted` and `CallsEnd` of `calls` join safety and liveness
of its parts likewise.

Some of these properties name an exception in their statement, where the code
does not hold them: those are listed under
[disagreements](#disagreements-between-code-and-text). Five more are stated in
the modules and are checked by no run, because the code breaks them:
`StatesAreImmutable`, `OfflineIsPaused`, `CachedAgentAvailable`,
`SyncKeepsMoved` and `RepetitionIsFound`.

Why these bounds suffice. Two actors and one more object than a limit allows
are where the interleavings of one event loop differ: two calls of the same
method at different awaits, and one thing too many. In detail: Pool: two workers
and three tasks let a retry, a queued task and a running one coexist, and
`MaxWorkers` is reached. Executor: at depth 2 a sub-task escalates and its
successor is refused, with a second request in between at every step. Net: four
nodes hold two disjoint pairs, pairs that share a node, and every kind of
neighbour; commutations and propagation create further nodes, of which fourteen
suffice (TLC would fail to choose a fresh id otherwise). Eight iterations leave
the loop room to finish; running out of them is the action `GiveUp`. Durable: a
join, a fork and an approval are in one workflow, and crashes are not bounded.
Bus: a request, a response and a late or repeated message; with one retry the
branch for a message out of retries is reached, and with one dead letter the
trimming is. Link: the old socket, its successor and the peer's are the three
that can overlap. Escalation: the second escalation trips the breaker, and time
goes on until every record has left the window at least once. Caches of one
entry evict at the second. Where time is counted, it goes one tick beyond every
limit. MCP: three lines hold a switch, a failing call and a status after it.

Deadlock checking is off where the system may stop: a pool nobody starts or
submits to, `runToCompletion` that has returned, a bounded number of calls or
messages. It is on for `executor`.

## Fairness

| specification | assumes | because |
|---|---|---|
| `WorkerPool!FairSpec` | an execution ends; the health check repeats; a waiting `shutdownWorker` and `stop()` go on | `executeInWorker` races the task with a timer (`core/worker-pool.ts:276`); interval timers; the 10 s limit of `shutdownWorker` |
| `Executor!ExecFairSpec` | each request in progress takes its next step | every LLM and transport call is raced with a timeout, and the code between awaits runs on |
| `NetScheduler!SchedFairSpec` | the loop goes on while it can | it is one call, and each task is raced with a timer |
| `DurableWorkflow` in `CallsSpec` | the loop goes on, the step executor settles | the loop is one call; the engine has no timeout of its own, so this is an assumption about the step executor. Approval is not assumed |
| `AcpBus!FairSpec` | timers of pending requests fire | `setTimeout` (`core/acp.ts:246`). Neither delivery nor an answer is assumed |
| `AetherLink!LinkFairSpec` | timers of pending requests fire | `setTimeout` in `request()` (`protocol/client.ts`). No socket opens, closes or delivers by assumption |
| `Transports!TransportFairness` | a call that is under way goes on: it connects, is answered, or its timer fires | every wait is bounded by a timer, an exit or a poll limit |
| `McpPool!McpFairness` | connecting and discovering end, calls are answered or time out | requests to servers carry a timer |
| `Hooks!HooksFairness` | debounce timers and dispatch timeouts fire, an aborted or finished handler ends its dispatch | `setTimeout`; the dispatcher races handler and abort signal |
| `Runtime!RuntimeFairness` | the command and each `shutdown()` take their next step, unless a plugin hangs; the force timer of a signal fires | code between awaits runs on; `setTimeout` in the signal handler (`bin/aether.ts:524`) |

All of it is weak fairness. Safety properties are checked and proved without it.

## Proofs

TLAPS checks the theorems below for every value of the constants that satisfies
the modules' named assumptions. These are types and what the code guarantees of
its own settings: finite sets of workers, sockets, servers and agents, limits
that are natural numbers, dependencies that point backwards, sentinel values
that are no members of the sets they stand apart from. TLC evaluates them in the
runs. Each module has one inductive invariant, a conjunction of named parts;
lemmas say what one action or operator does to the parts it can disturb, and the
last lemma or theorem goes through the actions.

**`WorkerPoolProofs`.** `TypeCorrect` (`TypeOK`) and `KeepsTasks` (`TasksKept`):
`IInv == Rest /\ Places /\ Answers`. `Places` says that a task is held once,
`Answers` that a pending task is queued or running, and that a task nobody
submitted is nowhere, without which `Submit` could queue it twice. When the
health check frees a worker, the task it ran is still in flight, so a late retry
must find it in no queue. `SearchIsRight` (`SearchFindsSlot`): the binary search
returns the slot it should, because the queue is sorted in every state; the
search is a recursive function, unfolded where its interval shrinks.
`StartsByPriority` is the action property `DispatchByPriority`, from the same
sortedness. `BelievesTrue` (`BeliefIsTrue`) relates `wstat` to `runOn` and says
which workers the health check may have freed; `SizeWithinLimits` (`PoolSize`)
counts workers by the cardinality of the pool.

**`ExecutorProofs`.** `TypeCorrect`, `MetricsBalanced` (`MetricsBalance`),
`NobodyStuck` (`NoStuckAgent`): `Depths` bounds the frames of a request, so that
what is refused is one below the limit, and `Balanced` counts the calls in
progress as a finite set. Any agents, escalation chain (cycles included), depth
and sub-tasks.

**`NetProofs`.** `TypeCorrect`, `NothingTwice` (`ReducedOnce`), `CacheMissesNone`
(`CacheComplete`), `DoneIsNormalForm`, for any finite initial nets. `FlightsOK`
keeps reductions in flight on nodes that are not idle and away from one another,
`RunsOnce` says that what the executor was called for is no idle task any more;
`CacheComplete` and `ReductionsDisjoint` are inductive only together, since a
reduction that ends wires nodes and adds pairs.

**`AcpProofs`.** `BusTypeCorrect`, `CounterFollowsMap`, `DropsOnlyRepeats`:
`SeenHaveOriginal`, whatever the highway remembers was seen on a message that got
onto it, makes `DropsHaveOriginal` inductive, and holds because `publish()` marks
a hash after the save and not before. `AnswersMatch` (`AnswerMatches`) adds what
`caller` was told and the messages that answer its request.

**`LinkProofs`.** `LinkTypeCorrect`, `TablesNeverStale` (`TablesServed`),
`OrderlyIsRight` (`OrderlyClients`), for any clients and finitely many sockets.
`Tabled` is the server's tables; `Single` and `Current` follow an orderly agent's
only socket from both ends; `Slots` bounds the reconnects that sleep by the
sockets that closed, by cardinalities.

**`CallsProofs`.** Of the workflow engine, for any acyclic workflow:
`NothingMissingEver` (`NothingMissing`) for any number of overlapping calls, runs
and ids. `resume()` trusts a checkpoint's number, so checkpoints must be complete,
and they are written from what calls hold; with `MarksPrefix` and `AtStep` the
branch that skips a step (`core/durable.ts:191`, "shouldn't happen") is
unreachable. `NeverRedone` (`NoRedo`) and `CommitsInOrder` (the refinement
`ImplementsProgress` of `DurableProgress`, initial states and every step mapped to
a commit, an attempt or a stutter) assume that the process does not rebuild its
workflow and makes one call at a time, which `durable_rebuilt` shows to be needed;
`Ahead` says that the checkpoint is at most one step behind. Of the other parts:
`TypeCorrect` (`CallsTypeOK`) and `CallsAreAccounted` (`CallsAccounted`), with
one invariant per component: `TransportInv` (whoever waits is in a table that is
there), `McpInv` (the pool's counts are cardinalities), `HooksInv` (queued events
are in order, and one runs), `RuntimeInv` (`Behind`, `Reachable`, `ClosedBehind`:
what each of two shutdowns has passed is closed).

**`ServicesProofs`**, about `CoreSpec`. `BreakerHoldsItsRate` (`BreakersHold`):
`EscInv` has memory and table agree on a record unless it no longer counts, and
bounds the escalations routed within a window by the record's count.
`RowsAndFilesAgree` (`FleetConsistent`): `FleetInv` has registry and rows equal;
`PowersInv` says how far each call has brought its directory and its row
(`FolderFollows`, `RowFollows`), up to overlaps and mishaps. `EffortIsLimited`
(`EffortLimited`): `ReactInv` (firings are no more than the messages past a rule),
`ProvidersInv` (who was asked, by the stage the request is at; counts by
cardinality of the providers tried), `BatchInv` (results are those of the items
before the running batch). `CachesAreCurrent` (`AgentsCurrent`): `RouterInv` has
an entry of the active context for each key at most, and what a request that
nothing overtook has read still hold, so that what it stores is current; `RagInv`
has the text of an item in the last call in progress that writes it, or in its
row, and without the API only vectors of the engine, so that no insert is
refused; `MetaInv` has what a query in progress found there since it began, which
bounds the age of the answer it leaves, whenever that is. These caches are
filtered sequences. What `Kept` leaves (`KeptIsPicked`: the entries wanted, in
their order, at increasing positions) is proved by induction over positions: the
prover takes no induction rule with a predicate for parameter, but `LeastElement`,
proved from the well-foundedness of finite sets, has a set for one. `Kept` is a
recursive function, not `SelectSeq`, since the prover has no definition of that.

**`RecordsProofs`**, about `RecordsSpec`. `RecordsAreKept` (`RecordsKept`):
`SyncInv` has, for an id whose file does not change under the sync, how far the
sync is with it (`FileSynced`, `GoneSynced`), and needs that times only grow
(`TimesGrow`): then equal times are equal contents. `SharedInv` bounds versions
and counts by the calls so far. `LogsInv`: what is in the files is before what is
being written and that before what waits (`LinesInv`), a flush that `close()`
began took the whole buffer (`CloseInv`), and memory keeps all or the last
entries (`StreamInv`, `RetainedInv`). `RequestsAreAnswered` (`RequestsAnswered`):
`StdioInv` has the answers those of the lines that want one, in order, each under
the context of the switches before it; `HttpInv` gives each session to the
request that brought none; `FlowInv` has a step begin when all before it are done
and did not fail (`StepsInOrder`), so that what its prompt keeps of them
(`ContextInv`) and what is returned (`ReturnedInv`) are settled.

Every behaviour of `ServicesMC!Spec` is one of `CoreSpec` and of `RecordsSpec`: a
step of another part leaves their variables as they are. The runs check the same
invariants on small instances.

**Only model-checked.** Liveness under fairness and `ENABLED` are out of the
prover's reach: the liveness properties, `CallsEnd` among them, stay with TLC.
`BuildsInOrder` is about what nested recursive functions compute (Kahn's
algorithm, reachability, the compiler's stack) for every input. `LoopsBounded` and
`ServicesTypeOK` are about components whose bounds are fixed in the instances of
`ServicesMC`, so a theorem would say no more than the run; the plan lists what it
takes to prove them for every value.

"""
## Disagreements between code and text

Shown by a run and listed under "findings" in `PROJECT.json`:

- `pool_restart`: `stop()` ends with `workers.clear()` and removes the workers of
  a `start()` called meanwhile (`core/worker-pool.ts:176`).
- `net_deadlock`: the join of a DAG is claimed by its first task, which never
  releases it; the other tasks never run (`core/net-scheduler.ts:315`, against
  "Deadlock-free", `:9`).
- `durable_rebuilt`: checkpoints are saved under the new object's id
  (`core/durable.ts:267`, against `:5`).
- `link_replaced`: `close()` removes an agent's entry whatever socket it holds; an
  agent that reconnected before the server saw its old socket close is neither
  listed nor reachable (`protocol/server.ts:271`, against `:348`).
- `handoff_oldest`: the context handed over is the oldest messages
  (`core/handoff.ts:159`, against `:144`).

Seen while modelling, modelled as the code has it, and the subject of no run:

- `stop()` of the pool rejects queued tasks where its comments speak of draining
  (`core/worker-pool.ts:8`, `:157`).
- `loadFromStore` restores breakers only of agents registered by then
  (`core/escalation.ts:289`); `Late` is the set of the others.
- The breaker's window starts anew with each escalation, so that evenly spaced
  ones trip it although no window holds that many (`core/escalation.ts:105`).
- `restore()` of the net keeps nodes in `reducing` (`core/interaction-net.ts:460`).
- The task-eraser rule never matches the sorted key: the task runs instead of
  being cancelled (`core/net-scheduler.ts:287`).
- Annihilation wires the auxiliary ports of the two nodes it removes, and
  disconnects their neighbours (`core/net-scheduler.ts:512`).
- `__error` and `__failedStep` stay in the state of a resumed workflow
  (`core/durable.ts:232`); abort and pause are overwritten by the end of the step
  (`core/durable.ts:253`); conditions are never evaluated by the engine
  (`core/durable.ts:219`, against `core/workflow-builder.ts:157`).
- After a second `run()` of one workflow, a crash resumes the checkpoint with the
  highest index, of whichever run (`core/storage/sqlite-store.ts:1250`).
- `findIncomplete` looks for a marker that no checkpoint contains
  (`core/storage/sqlite-store.ts:1292`).
- With a store, duplicates have no window: a later message of the same sender,
  receiver and type is never delivered (`core/storage/sqlite-store.ts:574`,
  against `ARCHITECTURE.md:378`). A retried dead letter is such a message, and
  `retryDeadLetter` reports success. It also has a new id, so a response to it
  answers nobody.
- `request()` whose publish throws leaves a promise that rejects unobserved
  (`core/acp.ts:266`).
- `getRecent` takes the tail of the ring's array, which after a wrap is not the
  newest part (`core/memory-highway.ts:378`).

*Executor, router, agents*

- Early returns and escalation hops are counted but leave no row, so the
  executor's counters do not survive a restart (`core/executor.ts:508`, against
  `:281`).
- A task that names an agent gets it although it is offline, and the router
  decides on a list taken before its await (`core/executor.ts:729`, `:749`); two
  tasks of a net with equal ids share one result.
- The routing cache is written under a key built after the await, of whatever
  context is active then (`core/router.ts:307`). Its check of an agent's status
  reads the copy made at routing time, and nothing in `src/` calls
  `onAgentStatusChange` (`core/router.ts:275`).
- A moved agent file is refused as a duplicate and its agent then removed: it is
  gone until the next sync (`core/runtime.ts:877`).
- No provider's send has a timeout.
- Forge, sentinel: whoever was ephemeral or paused is forgotten as such at a
  restart, so a paused swarm cannot be resumed (`core/sentinel.ts:282`); a retired
  agent returns when its file was not removed.

*Transports, MCP, Aether-Link*

- Two requests for one agent may both connect; the first transport is
  overwritten and never disconnected (`transports/manager.ts:132`).
- The MCP pool does not notice the death of a server's process, goes on starting
  servers after `stop()`, leaks a process whose id is added twice
  (`nexus/mcp-pool.ts:196`), and its index keeps one of several tools with the
  same name and loses it with its server.
- `bin/aether-mcp.ts:66` sets the runtime before `init()` is awaited: after one
  that threw, the next tool uses it half made. A `tools/call` without params ends
  the process. `GET /mcp` hands out a session that is never registered.

*Runtime, logs, hooks, reactions*

- Two calls of `run()` on a runtime that is not running both run `init()`: the
  first store and interval leak. An `init()` that throws leaves the store open;
  `link` and `spawn` then exit with it. `startServer` sets `this.server` before
  `start()` resolves. `shutdown()` closes the store under a running task, does not
  disconnect transports and keeps forge, sentinel and embedder. `run` without a
  signal has no force timer, so a plugin that hangs in its shutdown hook hangs it.
- `close()` of the logger during a flush returns with lines in the buffer
  (`core/logger.ts:113`). The structured logger drops lines silently when an
  append fails.
- Disposing a hook forgets a running callback; reactions that await a handler
  continue after `stop()`.

*Conversations, shared state, progress*

- A conversation keeps as many messages as allowed and one more; messages of one
  millisecond are trimmed together (`core/storage/sqlite-store.ts:1112`). A
  handoff reactivates a completed conversation. A group chat whose speaker throws
  stays active.
- An update counts an existing edge in place, in states handed out earlier
  (`core/shared-state.ts:192`, against `:164`).
- Loops that contain a retried step are missed; `shouldAbort` ignores stalls, its
  wall clock starts anew after a restart (`core/progress-tracker.ts:119`).

*Retrieval, conflicts*

- Deleting an item leaves its text in the full-text table. An API vector of
  another dimension deletes the row and then throws
  (`core/storage/sqlite-store.ts:669`). A delete is undone by an `index()` in
  progress. A fallback vector is cached under the API's key, and the embedding
  cache is not cleared when the corpus changes. `get()`, `list()` and
  `findSimilar()` query with an empty vector.
- The hot cache's key ignores `topK`; an invalidation during a query is lost
  (`core/rag-meta-index.ts:367`); what was learned about a query locks it to the
  namespaces learned; replacing an entry evicts another one too.
- The weighted strategies throw on an empty list of outputs where the majority
  vote returns "". Texts of short words only resemble nothing, not even
  themselves.

*DSL, powers, plugins*

- `include` and `when` take a `}` as a word (`dsl/parser.ts:414`); a quoted `}` in
  a prompt ends it. Steps without agent or action and unknown names after
  `requires` are accepted; two nodes of one kind and name overwrite each other's
  file; the fallback of `parsePromptBlock` is unreachable. `toAgentFile` writes
  keys that the agent file parser does not read.
- An installation whose copy fails leaves a partial directory that blocks the
  next one (`core/powers/installer.ts:84`, `copied` is still false); overlapping
  calls lose each other's rows; a crash while `registry.json` is written loses all
  rows; the rollback of one of two installations of a name removes the other's.
- Two concurrent registrations of one plugin both initialise it; hooks run on
  plugins that are being destroyed; nothing in `src/` outside `core/plugin.ts`
  calls `executeHooks` (read, not modelled).

## What is not modelled

| part | why |
|---|---|
| interval scans, `checkpoint`/`restore` and effects of the net | `executePipeline` uses `runToCompletion` only |
| history, key-value store and recall of the highway; queries and metrics of the stores | they read, or change one value by one call |
| router scores, similarity of vectors, contradictions by topic | numerical scoring over text: choices, or left out |
| entity memory (`core/entity-memory.ts`) | patterns over text; one synchronous write at a time |
| guardrails, constitutional rules, schema, sanitizer | pattern matching on text, no state over time |
| specs, plugins, steering | loading and composing files in sequence. Plugins are awaited by the runtime, which `Runtime` has (a plugin that hangs) |
| configuration, settings, preflight | read and merged once at the start |
| tools of the HTTP server, reports and printing of the command line | what they return is text |
| scripts (issue automation) | not part of the system |

Every part that is "partly" modelled says in `PROJECT.json` what it leaves out.

## Plan

What is modelled covers the stateful core. What is left are proofs of two
groups of `services` that TLC checks now. Each needs its components among those
of `ServicesCore` or `ServicesRecords`, with their bounds as constants:

1. `LoopsBounded`: conversations, progress, graph and tiers. What a loop counts is
   a set of positions sorted into a sequence; a lemma about `SetToSortSeq` comes
   first.
2. `BuildsInOrder`: what Kahn's algorithm and the compiler's stack compute is
   defined by nested recursive functions; `KeptDefined` and `CountUp` show how one
   of them is unfolded.
