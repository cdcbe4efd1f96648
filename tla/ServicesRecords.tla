--------------------------- MODULE ServicesRecords ---------------------------
(***************************************************************************)
(* Those of the components of ServicesMC that keep records of what they    *)
(* were given: the agents of files, a session, the lines of logs, requests *)
(* to the MCP servers, the tasks of a flow, what was said and handed over, *)
(* the events of executions, the runs of graphs and the tiers.  A          *)
(* behaviour takes the steps of one component (keeper), the others stay as *)
(* they start.                                                             *)
(***************************************************************************)
EXTENDS Integers, Sequences, FiniteSets

CONSTANTS
    Keepers,                                     \* whose behaviours are taken
    Files, Ids, IdOf, Missing, LastWrite,        \* of the agent files
    Edges, MaxTransitions, MaxUpdates, Persists, Absent,    \* of a session
    MaxEntries, MaxRetained, MaxAttempts,        \* of the loggers
    MaxLines, Posts, NoSession,                  \* of the MCP servers
    Tasks, Together, Team, Named, Nobody,        \* of workflows and pipelines
    Members, MaxChain, MaxMessages, KeptByHandoff, ContextLimit, MaxRounds, MaxSaid, NoConversation,   \* of conversations
    Speakers, Outputs, LastStep, MaxSimilar, TokenBudget, WallClock, MaxEvents, MaxNow, NotStarted,    \* of the progress
    Vertices, EntryVertex, MaxIterations, MaxEdges, ByCondition, Nowhere,                              \* of graphs
    TierNames, TierRanks, MaxTargets, NoTier                                                           \* of tiers

ASSUME RecordsAssumption ==
    /\ IdOf \in [Files -> Ids] /\ LastWrite \in Nat \ {0} /\ Missing \notin Files
    /\ \A t \in 0..LastWrite : Missing # t
    /\ Missing \notin [file : Files, ver : 1..LastWrite] \cup [file : Files, ver : 1..LastWrite, mtime : 0..LastWrite]
    /\ MaxTransitions \in Nat /\ MaxUpdates \in Nat /\ Persists \in BOOLEAN
    /\ Absent \notin [version : 0..MaxUpdates, edges : SUBSET Edges]
                     \cup [version : 0..MaxUpdates, edges : SUBSET Edges, counts : [Edges -> 0..MaxUpdates]]
    /\ MaxEntries \in Nat /\ MaxRetained \in Nat \ {0} /\ MaxAttempts \in Nat
    /\ MaxLines \in Nat /\ NoSession \notin Posts
    /\ Tasks \in Nat \ {0} /\ Together \in 1..Tasks /\ Named \in Team /\ Nobody \notin Team

ASSUME LoopsAssumption ==
    /\ MaxChain \in Nat \ {0} /\ MaxMessages \in Nat /\ KeptByHandoff \in Nat /\ MaxSaid \in Nat
    /\ NoConversation \notin [chain : Seq(Members), status : {"active", "completed"}]
    /\ LastStep \in Nat /\ MaxSimilar \in Nat \ {0}
    /\ IsFiniteSet(Vertices) /\ EntryVertex \in Vertices /\ {ByCondition, Nowhere} \cap Vertices = {}
    /\ ByCondition # Nowhere /\ MaxIterations \in Nat /\ MaxEdges \in Nat
    /\ IsFiniteSet(TierNames) /\ TierRanks \subseteq Int /\ MaxTargets \in Nat
    /\ NoTier \notin TierNames /\ NoTier \notin [rank : TierRanks, targets : Seq(TierNames)]

VARIABLES
    keeper,
    clock, disk, registered, index, table, sync, diskFiles, storedByPath, todo, file, parsed,
    dirty, displaced,
    session, row, counts, history, handed, handedLive, missed, steps,
    logged, streamed, retained, streamBuffer, streamFile, streamLost, streamClosed, accepted, buffer, flushed, tries,
    logFile, stderr, closing, behind,
    side, received, taken, cut, stdin, runtime, handling, context, out, process, serving, starts, sessions, post, given,
    flow, sameId, offline, phase, considered, called, outcome, seen, astray, accumulated, resultMap, returned,
    conversation, messages, said, ms, snapshot, restored, handoffs, round, chat,
    events, startTime, tick, began,
    edges, exitNodes, current, iterations, trace, exitNode, run,
    tiers, rankOrder

Sync == INSTANCE AgentSync WITH MaxTime <- LastWrite
Shared == INSTANCE SharedState
Logs == INSTANCE Logs
Mcp == INSTANCE McpServers
Flows == INSTANCE TaskFlows
Conversations == INSTANCE Conversations
Progress == INSTANCE Progress WITH now <- tick, Entry <- EntryVertex, Conditional <- ByCondition
Tiers == INSTANCE Tiers

syncVars == <<clock, disk, registered, index, table, sync, diskFiles, storedByPath, todo, file, parsed,
              dirty, displaced>>
busVars == <<session, row, counts, history, handed, handedLive, missed, steps>>
logVars == <<logged, streamed, retained, streamBuffer, streamFile, streamLost, streamClosed, accepted, buffer, flushed,
             tries, logFile, stderr, closing, behind>>
mcpServerVars == <<side, received, taken, cut, stdin, runtime, handling, context, out, process,
                   serving, starts, sessions, post, given>>
taskFlowVars == <<flow, sameId, offline, phase, considered, called, outcome, seen, astray, accumulated, resultMap,
                  returned>>
convVars == <<conversation, messages, said, ms, snapshot, restored, handoffs, round, chat>>
progressVars == <<events, startTime, tick, began>>
graphVars == <<edges, exitNodes, current, iterations, trace, exitNode, run>>
tierVars == <<tiers, rankOrder>>
recordsVars == <<keeper, syncVars, busVars, logVars, mcpServerVars, taskFlowVars, convVars, progressVars, graphVars,
                 tierVars>>

-----------------------------------------------------------------------------

\* The keeper starts in any of its initial states, the others in one.
RecordsInit ==
    /\ keeper \in Keepers
    /\ Sync!SyncInit /\ (keeper # "sync" => \A f \in DOMAIN disk : disk[f] = Missing)
    /\ Shared!SharedInit
    /\ Logs!LogsInit
    /\ Mcp!McpServersInit /\ (keeper # "mcpserver" => side = "http")
    /\ Flows!TaskFlowsInit /\ (keeper # "flows" => flow = "net" /\ sameId)
    /\ Conversations!ConversationsInit
    /\ Progress!ProgressInit
    /\ Progress!GraphInit /\ (keeper # "graph" => edges = <<>> /\ exitNodes = {})
    /\ Tiers!TiersInit

RecordsOthers ==
    /\ IF keeper = "sync" THEN TRUE ELSE UNCHANGED syncVars
    /\ IF keeper = "shared" THEN TRUE ELSE UNCHANGED busVars
    /\ IF keeper = "logs" THEN TRUE ELSE UNCHANGED logVars
    /\ IF keeper = "mcpserver" THEN TRUE ELSE UNCHANGED mcpServerVars
    /\ IF keeper = "flows" THEN TRUE ELSE UNCHANGED taskFlowVars
    /\ IF keeper = "conversations" THEN TRUE ELSE UNCHANGED convVars
    /\ IF keeper = "progress" THEN TRUE ELSE UNCHANGED progressVars
    /\ IF keeper = "graph" THEN TRUE ELSE UNCHANGED graphVars
    /\ IF keeper = "tiers" THEN TRUE ELSE UNCHANGED tierVars
    /\ UNCHANGED keeper

RecordsNext ==
    \/ keeper = "sync" /\ Sync!SyncNext /\ RecordsOthers
    \/ keeper = "shared" /\ Shared!SharedNext /\ RecordsOthers
    \/ keeper = "logs" /\ Logs!LogsNext /\ RecordsOthers
    \/ keeper = "mcpserver" /\ Mcp!McpServersNext /\ RecordsOthers
    \/ keeper = "flows" /\ Flows!TaskFlowsNext /\ RecordsOthers
    \/ keeper = "conversations" /\ Conversations!ConversationsNext /\ RecordsOthers
    \/ keeper = "progress" /\ Progress!ProgressNext /\ RecordsOthers
    \/ keeper = "graph" /\ Progress!GraphNext /\ RecordsOthers
    \/ keeper = "tiers" /\ Tiers!TiersNext /\ RecordsOthers

RecordsSpec == RecordsInit /\ [][RecordsNext]_recordsVars

-----------------------------------------------------------------------------
(* Properties: those of the components, by what they are about. *)

By(k, holds) == keeper = k => holds

\* A sync leaves the agents of the files in memory and in the table, sessions lose nothing
\* but what a failed write loses, and logs nothing but what they are told to drop.
RecordsKept ==
    /\ By("sync", Sync!SyncComplete /\ Sync!IndexAgrees)
    /\ By("shared", Shared!RowFollowsSession)
    /\ By("logs", Logs!EachLineOnce /\ Logs!ClosedIsWritten /\ Logs!StreamsComplete)

\* Every request to an MCP server is answered once, in its order, and truly, and every
\* task of a workflow or pipeline has its own result.
RequestsAnswered ==
    /\ By("mcpserver", Mcp!AnsweredInOrder /\ Mcp!StatusTrue /\ Mcp!SessionsHeld)
    /\ By("flows", Flows!ResultsInPlace /\ Flows!ContextComplete /\ Flows!OfflineOnlyByName)

\* Loops are found, a conversation never comes back and keeps its newest messages, runs of
\* a graph and tiers' escalations stay where they may go.
LoopsBounded ==
    /\ By("conversations", Conversations!ConversationsKept)
    /\ By("progress", Progress!LoopsFound)
    /\ By("graph", Progress!RunsStayInGraph)
    /\ By("tiers", Tiers!FirstTargetsEnd)
=============================================================================
