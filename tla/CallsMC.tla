------------------------------ MODULE CallsMC ------------------------------
(***************************************************************************)
(* Components whose callers wait and must not wait for ever, in one run:   *)
(* the workflow engine, the transports of external agents, the pool of MCP *)
(* servers, the hooks on files and the runtime that starts and stops the   *)
(* system.  They share no state here, so a behaviour takes the steps of    *)
(* one of them (part).                                                     *)
(***************************************************************************)
EXTENDS DurableWorkflow

CONSTANTS
    Parts, none,
    Jobs, MaxPolls,                            \* of the transports
    Adds, Servers, ToolCalls, MaxConcurrent,   \* of the MCP pool
    MaxFileEvents, MaxQueued                   \* of the hook

ASSUME CallsAssumption ==
    /\ MaxPolls \in Nat /\ none \notin Jobs
    /\ IsFiniteSet(Servers) /\ Servers # {} /\ IsFiniteSet(ToolCalls) /\ none \notin Adds \cup Servers
    /\ MaxConcurrent \in Nat
    /\ MaxFileEvents \in Nat /\ MaxQueued \in Nat \ {0} /\ none \notin 1..MaxFileEvents

VARIABLES
    part,
    transport, chosen, dropping, healthCache, connected, sock, opener, stale,
    waiting, phase, on, polls,
    http, limit, serverOf, connections, toolIndex, connStatus, proc, active, adding, call, onConn,
    hook, happened, pending, queue, runningHook, executing, aborted, ended, dropped, disposed,
    command, hanging, pc, field, open, live, doomed, stage, awaiting, flusher, foundOpen, exit

-----------------------------------------------------------------------------
(* Workflows: a task, two that need it, and one that joins them; or a chain. *)

FanOut == [s \in 1..4 |-> CASE s = 1 -> {} [] s \in {2, 3} -> {1} [] s = 4 -> {2, 3}]
Chain == [s \in 1..3 |-> IF s = 1 THEN {} ELSE {s - 1}]
ThirdStep == {3}
NoStep == {}
OneId == {"wf-1"}
TwoIds == {"wf-1", "wf-2"}
OneLoop == {"call1"}

Transports == INSTANCE Transports WITH NoTransport <- none
Mcp == INSTANCE McpPool WITH Ids <- Servers, Calls <- ToolCalls, NoConn <- none, status <- connStatus
Hooks == INSTANCE Hooks WITH NoEvent <- none
Runtime == INSTANCE Runtime

transportVars == <<transport, chosen, dropping, healthCache, connected, sock, opener, stale,
                   waiting, phase, on, polls>>
mcpVars == <<http, limit, serverOf, connections, toolIndex, connStatus, proc, active, adding, call, onConn>>
hookVars == <<hook, happened, pending, queue, runningHook, executing, aborted, ended, dropped, disposed>>
runtimeVars == <<command, hanging, pc, field, open, live, doomed, stage, awaiting, flusher, foundOpen, exit>>
allVars == <<part, vars, transportVars, mcpVars, hookVars, runtimeVars>>

\* The part that moves starts in any of its initial states, the others in one.
CallsInit ==
    /\ part \in Parts
    /\ Init
    /\ Transports!TransportInit /\ (part # "transports" => transport = "api")
    /\ Mcp!McpInit /\ (part # "mcp" => http /\ limit = 1 /\ serverOf = [a \in Adds |-> CHOOSE i \in Servers : TRUE])
    /\ Hooks!HooksInit
    /\ Runtime!RuntimeInit /\ (part # "runtime" => command = "run" /\ ~hanging)

Others ==
    /\ IF part = "durable" THEN TRUE ELSE UNCHANGED vars
    /\ IF part = "transports" THEN TRUE ELSE UNCHANGED transportVars
    /\ IF part = "mcp" THEN TRUE ELSE UNCHANGED mcpVars
    /\ IF part = "hooks" THEN TRUE ELSE UNCHANGED hookVars
    /\ IF part = "runtime" THEN TRUE ELSE UNCHANGED runtimeVars
    /\ UNCHANGED part

CallsNext ==
    \/ part = "durable" /\ Next /\ Others
    \/ part = "transports" /\ Transports!TransportNext /\ Others
    \/ part = "mcp" /\ Mcp!McpNext /\ Others
    \/ part = "hooks" /\ Hooks!HooksNext /\ Others
    \/ part = "runtime" /\ Runtime!RuntimeNext /\ Others

CallsSpec ==
    /\ CallsInit /\ [][CallsNext]_allVars
    /\ \A l \in Loops : WF_vars(Check(l)) /\ WF_vars(StepEnds(l))
    /\ Transports!TransportFairness /\ Mcp!McpFairness /\ Hooks!HooksFairness
    /\ Runtime!RuntimeFairness

-----------------------------------------------------------------------------
(* Properties: those of the components *)

\* Every variable has its type.
CallsTypeOK ==
    part \in Parts /\ TypeOK /\ Transports!TransportTypeOK /\ Mcp!McpTypeOK /\ Hooks!HooksTypeOK
    /\ Runtime!RuntimeTypeOK

\* No call is lost from, or left in, the tables of the transports and the MCP pool,
\* and nothing runs twice: whoever is waited for is in the table of its socket or
\* process, counted once, and can still be stopped; and a hook runs alone.  What a
\* shutdown of the runtime found open is closed when it ends.
CallsAccounted ==
    /\ Transports!WaitersKnown /\ Mcp!McpAccounts /\ Hooks!HookRunsAlone
    /\ Runtime!CleanExit /\ Runtime!StoreAlive

\* Every call of the engine, of a transport and of the MCP pool ends, and every event
\* of a hook is answered or gives way to a later one, though sockets and processes
\* die and steps fail meanwhile; and a process told to stop, or done, ends.
CallsEnd ==
    CallEnds /\ Transports!JobsEnd /\ Mcp!McpCallsEnd /\ Hooks!EventsAnswered /\ Runtime!CommandEnds
=============================================================================
