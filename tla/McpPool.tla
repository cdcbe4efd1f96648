------------------------------- MODULE McpPool -------------------------------
(***************************************************************************)
(* The pool of MCP servers of nexus/mcp-pool.ts.  A connection is named by *)
(* the call of addServer() that made it; several may be for one server id. *)
(* All servers offer one tool of the same name.  What a method does after  *)
(* `await disconnect()` is part of the same action: nothing waits there.   *)
(*                                                                         *)
(* Left out: metrics, error texts, and the reconnection of healthCheck(),  *)
(* whose catch nothing in its try block reaches.                           *)
(***************************************************************************)
EXTENDS Naturals, FiniteSets

CONSTANTS
    Adds, Ids, Calls,
    NoConn,
    MaxConcurrent

VARIABLES
    http,        \* transport of the servers: HTTP or a process
    limit,       \* maxConnections
    serverOf,    \* config.id of each addServer()
    connections, \* server id -> its connection
    toolIndex,   \* the server id the tool leads to
    status, proc, active,   \* of a connection
    adding,      \* where an addServer() is
    call, onConn \* of a callTool()

mcpVars == <<http, limit, serverOf, connections, toolIndex, status, proc, active, adding, call, onConn>>
config == <<http, limit, serverOf>>

McpTypeOK ==
    /\ http \in BOOLEAN /\ limit \in 1..Cardinality(Ids) /\ serverOf \in [Adds -> Ids]
    /\ connections \in [Ids -> Adds \cup {NoConn}] /\ toolIndex \in Ids \cup {NoConn}
    /\ status \in [Adds -> {"none", "connecting", "ready", "error", "closed"}]
    /\ proc \in [Adds -> {"none", "running", "dead"}]
    /\ active \in [Adds -> 0..Cardinality(Calls)]
    /\ adding \in [Adds -> {"none", "connecting", "discovering", "added", "failed"}]
    /\ call \in [Calls -> {"none", "sent", "answered", "failed"}] /\ onConn \in [Calls -> Adds \cup {NoConn}]

McpInit ==
    /\ http \in BOOLEAN /\ limit \in 1..Cardinality(Ids) /\ serverOf \in [Adds -> Ids]
    /\ connections = [i \in Ids |-> NoConn] /\ toolIndex = NoConn
    /\ status = [a \in Adds |-> "none"] /\ proc = [a \in Adds |-> "none"]
    /\ active = [a \in Adds |-> 0] /\ adding = [a \in Adds |-> "none"]
    /\ call = [c \in Calls |-> "none"] /\ onConn = [c \in Calls |-> NoConn]

Registered == {i \in Ids : connections[i] # NoConn}
FullLate(n) == n > limit                              \* seeded fault: one too many
Full(n) == n >= limit

-----------------------------------------------------------------------------
(* addServer() *)

\* The place is taken before the first await; a connection of the same id is
\* replaced as it is.
AddServer(a) ==
    /\ adding[a] = "none"
    /\ IF Full(Cardinality(Registered))
       THEN /\ adding' = [adding EXCEPT ![a] = "failed"]
            /\ UNCHANGED <<connections, status, proc>>
       ELSE /\ connections' = [connections EXCEPT ![serverOf[a]] = a]
            /\ status' = [status EXCEPT ![a] = "connecting"]
            /\ proc' = [proc EXCEPT ![a] = IF http THEN "none" ELSE "running"]
            /\ adding' = [adding EXCEPT ![a] = "connecting"]
    /\ UNCHANGED <<config, toolIndex, active, call, onConn>>

Answers(a) == http \/ proc[a] = "running"

\* The answer to `initialize`, an error in it included.
Initialized(a) ==
    /\ adding[a] = "connecting" /\ Answers(a)
    /\ adding' = [adding EXCEPT ![a] = "discovering"]
    /\ status' = IF http THEN [status EXCEPT ![a] = "ready"] ELSE status
    /\ UNCHANGED <<config, connections, toolIndex, proc, active, call, onConn>>

\* A timeout or an HTTP error: the connection keeps its place and its process.
InitFails(a) ==
    /\ adding[a] = "connecting"
    /\ adding' = [adding EXCEPT ![a] = "failed"]
    /\ UNCHANGED <<config, connections, toolIndex, status, proc, active, call, onConn>>

\* discoverTools() does not throw: without its tools the server is ready too.
Discovered(a) ==
    /\ adding[a] = "discovering"
    /\ \E i \in {toolIndex} \cup (IF Answers(a) THEN {serverOf[a]} ELSE {}) : toolIndex' = i
    /\ adding' = [adding EXCEPT ![a] = "added"] /\ status' = [status EXCEPT ![a] = "ready"]
    /\ UNCHANGED <<config, connections, proc, active, call, onConn>>

-----------------------------------------------------------------------------
(* Disconnecting *)

OnConn(a) == {c \in Calls : call[c] = "sent" /\ onConn[c] = a}

LeavesWaiting(c) == call[c]                           \* seeded fault: timers cleared, nobody rejected
Rejected(c) == "failed"

\* disconnect(): requests to a process are rejected, which ends an addServer()
\* that waits for `initialize` and lets one that waits for tools go on; those
\* over HTTP are not touched.
Disconnect(S) ==
    /\ status' = [a \in Adds |-> IF a \notin S THEN status[a]
                                 ELSE IF ~http /\ adding[a] = "discovering" THEN "ready" ELSE "closed"]
    /\ proc' = [a \in Adds |-> IF a \in S /\ proc[a] = "running" THEN "dead" ELSE proc[a]]
    /\ IF http THEN UNCHANGED <<adding, call, active>>
       ELSE /\ adding' = [a \in Adds |-> CASE a \notin S -> adding[a]
                                           [] adding[a] = "connecting" -> "failed"
                                           [] adding[a] = "discovering" -> "added"
                                           [] OTHER -> adding[a]]
            /\ call' = [c \in Calls |-> IF \E a \in S : c \in OnConn(a) THEN Rejected(c) ELSE call[c]]
            /\ active' = [a \in Adds |-> IF a \in S THEN 0 ELSE active[a]]
    /\ UNCHANGED <<config, onConn>>

RemoveServer(i) ==
    /\ connections[i] # NoConn
    /\ Disconnect({connections[i]})
    /\ toolIndex' = IF toolIndex = i THEN NoConn ELSE toolIndex
    /\ connections' = [connections EXCEPT ![i] = NoConn]

\* healthCheck() of a connection that was not used for long; the index keeps
\* its tools.  The timeout is longer than addServer() takes.
CloseIdle(i) ==
    /\ connections[i] # NoConn /\ active[connections[i]] = 0
    /\ adding[connections[i]] \notin {"connecting", "discovering"}
    /\ Disconnect({connections[i]})
    /\ connections' = [connections EXCEPT ![i] = NoConn]
    /\ UNCHANGED toolIndex

Stop ==
    /\ Registered # {}
    /\ Disconnect({connections[i] : i \in Registered})
    /\ connections' = [i \in Ids |-> NoConn] /\ toolIndex' = NoConn

\* The process ends, which nobody sees, or reading from it fails.
ProcessEnds(a) ==
    /\ proc[a] = "running"
    /\ proc' = [proc EXCEPT ![a] = "dead"]
    /\ \E s \in {status[a], "error"} : status' = [status EXCEPT ![a] = s]
    /\ UNCHANGED <<config, connections, toolIndex, active, adding, call, onConn>>

-----------------------------------------------------------------------------
(* callTool() *)

Unlimited(n) == TRUE                                  \* seeded fault: no limit per server
HasRoom(n) == n < MaxConcurrent

CallTool(c) ==
    /\ call[c] = "none"
    /\ LET a == IF toolIndex = NoConn THEN NoConn ELSE connections[toolIndex] IN
         IF a # NoConn /\ status[a] = "ready" /\ HasRoom(active[a])
         THEN /\ call' = [call EXCEPT ![c] = "sent"] /\ onConn' = [onConn EXCEPT ![c] = a]
              /\ active' = [active EXCEPT ![a] = @ + 1]
         ELSE call' = [call EXCEPT ![c] = "failed"] /\ UNCHANGED <<onConn, active>>
    /\ UNCHANGED <<config, connections, toolIndex, status, proc, adding>>

\* The answer, the timer of the request, or an HTTP error.
CallEnds(c) ==
    /\ call[c] = "sent"
    /\ \E r \in {"failed"} \cup (IF Answers(onConn[c]) THEN {"answered"} ELSE {}) :
         call' = [call EXCEPT ![c] = r]
    /\ active' = [active EXCEPT ![onConn[c]] = @ - 1]
    /\ UNCHANGED <<config, connections, toolIndex, status, proc, adding, onConn>>

-----------------------------------------------------------------------------

AddProgresses(a) == Initialized(a) \/ InitFails(a) \/ Discovered(a)

McpNext ==
    \/ \E a \in Adds : AddServer(a) \/ AddProgresses(a) \/ ProcessEnds(a)
    \/ \E i \in Ids : RemoveServer(i) \/ CloseIdle(i)
    \/ Stop
    \/ \E c \in Calls : CallTool(c) \/ CallEnds(c)

\* Every request has a timer.
McpFairness ==
    /\ \A a \in Adds : WF_mcpVars(AddProgresses(a))
    /\ \A c \in Calls : WF_mcpVars(CallEnds(c))
-----------------------------------------------------------------------------
(* Properties *)

\* However connections are added, lost and removed: the pool never holds more
\* than maxConnections, a server never runs more calls than it may and its count
\* is the calls that run, and a process that runs can still be stopped through
\* the pool, except when its id was added twice.
McpAccounts ==
    /\ Cardinality(Registered) <= limit
    /\ \A a \in Adds : active[a] = Cardinality(OnConn(a)) /\ active[a] <= MaxConcurrent
    /\ (\A a, b \in Adds : serverOf[a] = serverOf[b] => a = b) =>
         \A a \in Adds : proc[a] = "running" => connections[serverOf[a]] = a

\* addServer() and callTool() end, whatever happens to the connection.
McpCallsEnd ==
    /\ \A a \in Adds : adding[a] \in {"connecting", "discovering"} ~> adding[a] \in {"added", "failed"}
    /\ \A c \in Calls : call[c] = "sent" ~> call[c] \in {"answered", "failed"}
=============================================================================
