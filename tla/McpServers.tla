----------------------------- MODULE McpServers -----------------------------
(***************************************************************************)
(* The two MCP servers of AETHER.  The one on stdin and stdout             *)
(* (bin/aether-mcp.ts) takes line after line and makes the runtime at the  *)
(* first call that needs it; the one on HTTP (nexus/mcp-server.ts) answers *)
(* requests side by side and keeps sessions.  A request is its kind, an    *)
(* answer what tells it apart: a result, an error, an error in a result.   *)
(***************************************************************************)
EXTENDS Naturals, Sequences, FiniteSets, SequencesExt

CONSTANTS
    MaxLines,        \* bound: lines on stdin
    Posts,           \* the requests to the HTTP server
    NoSession

VARIABLES
    side,            \* the server that runs: stdio or http
    received,        \* history: the lines written to stdin
    taken,           \* how many of them processLine() was called with
    cut,             \* the last one has no newline yet
    stdin,           \* open or ended
    runtime,         \* absent, starting, half (init() threw) or ready
    handling,        \* none, init or tool: what the line that is handled waits for
    context,         \* activeContext of the router
    out,             \* history: the answers: line, outcome and context
    process,         \* up, done or fatal
    serving,         \* history: how often start() was called; 0 while stopped
    starts,
    sessions,        \* sessions
    post,            \* request -> its state
    given            \* history: request -> the start and session of its answer

stdioVars == <<received, taken, cut, stdin, runtime, handling, context, out, process>>
httpVars == <<serving, starts, sessions, post, given>>
mcpServerVars == <<side, stdioVars, httpVars>>

\* What can be asked: without the runtime, for a tool, for a resource.
Plain == {"initialize", "tools/list", "resources/list", "ping"}
ToolNames == {"submit_task", "query_agents", "search_memory", "get_status", "switch", "switch to nowhere",
              "get_config", "other tool"}
ResourceNames == {"agents", "other resource"}
Lines == [kind : {"ping", "other method"}, id : BOOLEAN]
         \cup [kind : {"blank", "garbage"}, id : {FALSE}]
         \cup [kind : ToolNames \cup ResourceNames \cup {"bare call"}, id : {TRUE}]
Contexts == {"default", "switched"}
Outcomes == {"result", "error", "tool error"}

McpServersTypeOK ==
    /\ side \in {"stdio", "http"}
    /\ ToSet(received) \subseteq Lines /\ Len(received) <= MaxLines /\ taken \in 0..Len(received) /\ cut \in BOOLEAN
    /\ stdin \in {"open", "ended"} /\ runtime \in {"absent", "starting", "half", "ready"}
    /\ handling \in {"none", "init", "tool"} /\ context \in Contexts
    /\ ToSet(out) \subseteq [line : 1..MaxLines, outcome : Outcomes, context : Contexts]
    /\ process \in {"up", "done", "fatal"}
    /\ serving \in 0..2 /\ starts \in 0..2 /\ sessions \subseteq Posts
    /\ post \in [Posts -> {"none", "reading", "handling", "answered"}]
    /\ given \in [Posts -> [start : 0..2, session : Posts \cup {NoSession}]]

McpServersInit ==
    /\ side \in {"stdio", "http"}
    /\ received = <<>> /\ taken = 0 /\ cut = FALSE /\ stdin = "open" /\ runtime = "absent"
    /\ handling = "none" /\ context = "default" /\ out = <<>> /\ process = "up"
    /\ serving = 0 /\ starts = 0 /\ sessions = {} /\ post = [r \in Posts |-> "none"]
    /\ given = [r \in Posts |-> [start |-> 0, session |-> NoSession]]

-----------------------------------------------------------------------------
(* The server on stdin *)

inputVars == <<received, cut, stdin>>
doingVars == <<taken, runtime, handling, context, out, process>>

\* A line arrives, with its newline or without; the newline arrives; the input ends.
\* Bound: one line waits for the next to be taken.
Receive(l) ==
    /\ stdin = "open" /\ ~cut /\ Len(received) < MaxLines /\ Len(received) <= taken + 1
    /\ received' = Append(received, l) /\ cut' \in BOOLEAN
    /\ UNCHANGED <<stdin, doingVars>>
Newline == stdin = "open" /\ cut /\ cut' = FALSE /\ UNCHANGED <<received, stdin, doingVars>>
EndOfInput == stdin = "open" /\ stdin' = "ended" /\ UNCHANGED <<received, cut, doingVars>>

\* Without its newline the last line is taken at the end of the input only.
NeverTaken == Len(received) - (IF cut THEN 1 ELSE 0)       \* seeded fault: what is left in the buffer is dropped
Takeable == Len(received) - (IF cut /\ stdin = "open" THEN 1 ELSE 0)

\* writeResponse(), for a request with an id or a line that is no request.
AnswersAll(n, outcome) == Append(out, [line |-> n, outcome |-> outcome, context |-> context]) \* seeded fault: notifications too
Answers(n, outcome) ==
    IF received[n].id \/ received[n].kind = "garbage"
    THEN Append(out, [line |-> n, outcome |-> outcome, context |-> context]) ELSE out

\* handleMethod() for what needs no runtime.
MethodOutcome(kind) == IF kind \in Plain THEN "result" ELSE "error"

Ready == process = "up" /\ handling = "none"

\* processLine() of the next line.
TakeLine ==
    /\ Ready /\ taken < Takeable
    /\ taken' = taken + 1
    /\ LET n == taken + 1
           kind == received[n].kind
       IN \/ /\ kind = "blank" /\ UNCHANGED <<runtime, handling, out, process>>
          \/ /\ kind \in Plain \cup {"other method", "garbage"} /\ out' = Answers(n, MethodOutcome(kind))
             /\ UNCHANGED <<runtime, handling, process>>
          \/ /\ kind = "bare call"                        \* params is undefined, outside of the try
             /\ process' = "fatal" /\ UNCHANGED <<runtime, handling, out>>
          \/ /\ kind \in ToolNames \cup ResourceNames
             /\ IF runtime = "absent" THEN runtime' = "starting" /\ handling' = "init"
                ELSE UNCHANGED runtime /\ handling' = "tool"
             /\ UNCHANGED <<out, process>>
    /\ UNCHANGED <<inputVars, context>>

\* ensureRuntime(): init() is over; when it threw, the runtime stays what it was made.
InitEnds ==
    /\ handling = "init"
    /\ \/ runtime' = "ready" /\ handling' = "tool" /\ UNCHANGED out
       \/ /\ runtime' = "half" /\ handling' = "none"
          /\ out' = Answers(taken, IF received[taken].kind \in ResourceNames THEN "error" ELSE "tool error")
    /\ UNCHANGED <<inputVars, taken, context, process>>

\* switch_context: the router knows the name; before init() is over there is none.
Switches == runtime = "ready" /\ received[taken].kind = "switch"

\* What handleToolCall() and handleResourceRead() return: a task and a search may fail,
\* a task starts a runtime that is not running again.
ToolOutcomes(kind) ==
    CASE kind \in {"submit_task", "search_memory"} -> {"result", "tool error"}
      [] kind \in {"query_agents", "get_status", "get_config", "agents"} -> {"result"}
      [] kind = "switch" -> IF Switches THEN {"result"} ELSE {"tool error"}
      [] kind = "switch to nowhere" -> {"tool error"}
      [] kind \in {"other tool", "other resource"} -> {"error"}

ToolEnds ==
    /\ handling = "tool" /\ handling' = "none"
    /\ \E outcome \in ToolOutcomes(received[taken].kind) :
        /\ out' = Answers(taken, outcome)
        /\ IF received[taken].kind = "submit_task" /\ runtime = "half" /\ outcome = "result"
           THEN runtime' = "ready" ELSE UNCHANGED runtime
    /\ context' = IF Switches THEN "switched" ELSE context
    /\ UNCHANGED <<inputVars, taken, process>>

\* The input has ended and everything in it was handled.
ExitDone ==
    /\ Ready /\ stdin = "ended" /\ taken >= Takeable /\ process' = "done"
    /\ UNCHANGED <<inputVars, taken, runtime, handling, context, out>>

-----------------------------------------------------------------------------
(* The server on HTTP *)

StartServer == serving = 0 /\ starts < 2 /\ starts' = starts + 1 /\ serving' = starts + 1 /\ UNCHANGED <<sessions, post, given>>

\* stop() lets the requests that run end.
StopServer == serving > 0 /\ serving' = 0 /\ sessions' = {} /\ UNCHANGED <<starts, post, given>>

Arrives(r) ==
    /\ serving > 0 /\ post[r] = "none" /\ post' = [post EXCEPT ![r] = "reading"]
    /\ given' = [given EXCEPT ![r].start = serving]
    /\ UNCHANGED <<serving, starts, sessions>>

\* The body is read: a request that brings no session gets one, and any other keeps its
\* own, known or not; a body that is no JSON gets an error and nothing else.
RegistersNone(r) ==                                       \* seeded fault: the session is not kept
    \/ given' = [given EXCEPT ![r].session = r] /\ UNCHANGED sessions
    \/ \E other \in Posts : /\ given[other].session # NoSession /\ UNCHANGED sessions
                            /\ given' = [given EXCEPT ![r].session = given[other].session]
Registers(r) ==
    \/ given' = [given EXCEPT ![r].session = r] /\ sessions' = sessions \cup {r}
    \/ \E other \in Posts : /\ given[other].session # NoSession /\ UNCHANGED sessions
                            /\ given' = [given EXCEPT ![r].session = given[other].session]

BodyRead(r) ==
    /\ post[r] = "reading"
    /\ \/ Registers(r) /\ post' = [post EXCEPT ![r] = "handling"]
       \/ post' = [post EXCEPT ![r] = "answered"] /\ UNCHANGED <<sessions, given>>
    /\ UNCHANGED <<serving, starts>>

Answered(r) ==
    /\ post[r] = "handling" /\ post' = [post EXCEPT ![r] = "answered"]
    /\ UNCHANGED <<serving, starts, sessions, given>>

-----------------------------------------------------------------------------

StdioStep == (\E l \in Lines : Receive(l)) \/ Newline \/ EndOfInput \/ TakeLine \/ InitEnds \/ ToolEnds \/ ExitDone
HttpStep == StartServer \/ StopServer \/ \E r \in Posts : Arrives(r) \/ BodyRead(r) \/ Answered(r)

McpServersNext ==
    /\ \/ side = "stdio" /\ process = "up" /\ StdioStep /\ UNCHANGED httpVars
       \/ side = "http" /\ HttpStep /\ UNCHANGED stdioVars
    /\ UNCHANGED side

-----------------------------------------------------------------------------
(* Properties *)

\* Every request on stdin that has an id, and every line that is no request, is answered
\* once and in the order of the lines, before the next one is looked at; and the process
\* does not leave with a line it was given, cut off or not (main(), processLine()).
AnsweredInOrder ==
    LET wants == {n \in 1..taken : /\ received[n].id \/ received[n].kind = "garbage"
                                   /\ ~(n = taken /\ (handling # "none" \/ process = "fatal"))}
    IN /\ {out[k].line : k \in DOMAIN out} = wants
       /\ \A k \in 2..Len(out) : out[k - 1].line < out[k].line
       /\ process = "done" => taken = Len(received)

\* What get_status reports is the context of the last switch that was answered with a
\* result before it (switch_context, get_status).
StatusTrue ==
    \A k \in DOMAIN out :
        received[out[k].line].kind = "get_status" =>
            out[k].context = IF \E j \in 1..(k - 1) : received[out[j].line].kind = "switch" /\ out[j].outcome = "result"
                             THEN "switched" ELSE "default"

\* A session a client was given by the run of the server that still serves is known to it
\* (handleMCPRequest(), stop()).
SessionsHeld ==
    \A r \in Posts : post[r] = "answered" /\ given[r].start = serving /\ given[r].session = r
                        => r \in sessions
=============================================================================
