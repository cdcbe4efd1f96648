----------------------------- MODULE Transports -----------------------------
(***************************************************************************)
(* transports/: the manager and the transports of one external agent.  The *)
(* manager awaits connect() before it registers a transport, so two        *)
(* requests may each make one; a transport is named by the request that    *)
(* made it.  A federation transport may replace its socket, whose onclose  *)
(* comes later (stale).                                                    *)
(***************************************************************************)
EXTENDS Naturals, FiniteSets

CONSTANTS
    Jobs,        \* calls of execute() or checkHealth()
    NoTransport,
    MaxPolls     \* polling.maxPolls

VARIABLES
    transport,   \* agent.transport: which factory the manager uses
    chosen,      \* transports.get(agent.id)
    dropping,    \* a disconnectAgent() or disconnectAll() awaits
    healthCache,
    connected,   \* BaseTransport.connected
    sock, opener,\* the process or socket a transport refers to; who opened it last
    stale,       \* a socket it had has not reported its onclose yet
    waiting,     \* pendingResponses, pendingRequests
    phase, on, polls   \* of a job: where it is, on which transport, its polls

transports == <<chosen, dropping, healthCache, connected, sock, opener, stale, waiting>>
jobs == <<phase, on, polls>>
transportVars == <<transport, transports, jobs>>

Kinds == {"api", "cli", "mcp-http", "mcp-stdio", "federation"}
Ended == {"success", "failure", "thrown", "healthy", "unhealthy"}

TransportTypeOK ==
    /\ transport \in Kinds
    /\ chosen \in Jobs \cup {NoTransport} /\ dropping \in {"no", "agent", "all"}
    /\ healthCache \in {"none", "healthy", "unhealthy"}
    /\ connected \in [Jobs -> BOOLEAN] /\ stale \in [Jobs -> BOOLEAN]
    /\ sock \in [Jobs -> {"none", "opening", "open", "dead"}] /\ opener \in [Jobs -> Jobs]
    /\ waiting \in [Jobs -> SUBSET Jobs]
    /\ phase \in [Jobs -> {"none", "connecting", "ready", "reconnecting", "running", "polling"} \cup Ended]
    /\ on \in [Jobs -> Jobs] /\ polls \in [Jobs -> 0..MaxPolls]

TransportInit ==
    /\ transport \in Kinds
    /\ chosen = NoTransport /\ dropping = "no" /\ healthCache = "none"
    /\ connected = [x \in Jobs |-> FALSE] /\ stale = [x \in Jobs |-> FALSE]
    /\ sock = [x \in Jobs |-> "none"] /\ opener = [x \in Jobs |-> x]
    /\ waiting = [x \in Jobs |-> {}]
    /\ phase = [q \in Jobs |-> "none"] /\ on = [q \in Jobs |-> q] /\ polls = [q \in Jobs |-> 0]

To(q, p) == phase' = [phase EXCEPT ![q] = p]

-----------------------------------------------------------------------------
(* The manager *)

\* getOrCreateTransport() up to connect().  A transport that is there but not
\* connected is forgotten as it is.
Acquire(q) ==
    /\ phase[q] = "none"
    /\ IF chosen # NoTransport /\ connected[chosen]
       THEN To(q, "ready") /\ on' = [on EXCEPT ![q] = chosen] /\ UNCHANGED sock
       ELSE To(q, "connecting") /\ sock' = [sock EXCEPT ![q] = "opening"] /\ UNCHANGED on
    /\ UNCHANGED <<transport, chosen, dropping, healthCache, connected, opener, stale, waiting, polls>>

Connected(q) ==
    /\ phase[q] = "connecting"
    /\ connected' = [connected EXCEPT ![q] = TRUE] /\ sock' = [sock EXCEPT ![q] = "open"]
    /\ chosen' = q
    /\ To(q, "ready")
    /\ UNCHANGED <<transport, dropping, healthCache, opener, stale, waiting, on, polls>>

\* The error is thrown to the caller.  An MCP process that did not answer the
\* handshake goes on running.
ConnectFails(q) ==
    /\ phase[q] = "connecting" /\ transport \notin {"api", "cli"}
    /\ \E left \in {"dead"} \cup (IF transport = "mcp-stdio" THEN {"open"} ELSE {}) :
         sock' = [sock EXCEPT ![q] = left]
    /\ To(q, "thrown")
    /\ UNCHANGED <<transport, chosen, dropping, healthCache, connected, opener, stale, waiting, on, polls>>

\* healthCheck() asks the other side afresh, not over the connection.
Probe(q) ==
    /\ phase[q] = "ready"
    /\ \E h \in {"healthy", "unhealthy"} : To(q, h) /\ healthCache' = h
    /\ UNCHANGED <<transport, chosen, dropping, connected, sock, opener, stale, waiting, on, polls>>

\* disconnect() of a transport: federation rejects what waits, the MCP
\* transport only forgets it and leaves it to its timer.
ForgetsWaiters(x) == phase                            \* seeded fault: nobody rejected
RejectAll(x) == [q \in Jobs |-> IF q \in waiting[x] THEN "thrown" ELSE phase[q]]
Disconnect(x) ==
    /\ connected' = [connected EXCEPT ![x] = FALSE]
    /\ stale' = [stale EXCEPT ![x] = @ \/ (transport = "federation" /\ sock[x] \in {"opening", "open"})]
    /\ sock' = [sock EXCEPT ![x] = "none"]
    /\ waiting' = [waiting EXCEPT ![x] = {}]
    /\ phase' = IF transport = "federation" THEN RejectAll(x) ELSE phase

DisconnectAgent ==
    /\ chosen # NoTransport /\ dropping = "no"
    /\ Disconnect(chosen)
    /\ dropping' \in {"agent", "all"}
    /\ UNCHANGED <<transport, chosen, healthCache, opener, on, polls>>

\* After the await: whatever transport is registered by now is dropped.
Dropped ==
    /\ dropping # "no"
    /\ dropping' = "no" /\ chosen' = NoTransport
    /\ healthCache' = IF dropping = "all" THEN "none" ELSE healthCache
    /\ UNCHANGED <<transport, connected, sock, opener, stale, waiting, jobs>>

-----------------------------------------------------------------------------
(* execute() of the transports *)

\* The request, or the process, is on its way; no connection is needed.
RunAlone(q) ==
    /\ phase[q] = "ready" /\ transport \in {"api", "cli", "mcp-http"}
    /\ To(q, "running")
    /\ UNCHANGED <<transport, transports, on, polls>>

\* The process exits, or is killed at the timeout; its output may not parse.
CliExits(q) ==
    /\ phase[q] = "running" /\ transport = "cli"
    /\ To(q, "success") \/ To(q, "failure")
    /\ UNCHANGED <<transport, transports, on, polls>>

\* The answer, an HTTP error, an error in the answer, or the timeout of fetch.
HttpAnswers(q) ==
    /\ phase[q] = "running" /\ transport = "mcp-http"
    /\ To(q, "success") \/ To(q, "failure")
    /\ UNCHANGED <<transport, transports, on, polls>>

\* The same, but the answer may name a job to poll for.
ApiAnswers(q) ==
    /\ phase[q] = "running" /\ transport = "api"
    /\ To(q, "success") \/ To(q, "failure") \/ To(q, "polling")
    /\ UNCHANGED <<transport, transports, on, polls>>

PollsLeft(q) == polls[q] < MaxPolls
Poll(q) ==
    /\ phase[q] = "polling"
    /\ IF PollsLeft(q)
       THEN polls' = [polls EXCEPT ![q] = @ + 1] /\ (To(q, "success") \/ To(q, "polling"))
       ELSE To(q, "failure") /\ UNCHANGED polls
    /\ UNCHANGED <<transport, transports, on>>

\* What execute() does once the socket or process is in its hands: the entry and
\* its timer, then the write, which may throw.  (For MCP the entry then stays
\* until its timer, but nobody awaits it.)
Submitted(q, x) ==
    \/ To(q, "running") /\ waiting' = [waiting EXCEPT ![x] = @ \cup {q}]
    \/ To(q, "failure") /\ waiting' = waiting

\* sendRPC() of the MCP process, unless disconnect() took it away.
Invoke(q) ==
    /\ phase[q] = "ready" /\ transport = "mcp-stdio"
    /\ IF sock[on[q]] = "none" THEN To(q, "failure") /\ UNCHANGED waiting
       ELSE Submitted(q, on[q])
    /\ UNCHANGED <<transport, chosen, dropping, healthCache, connected, sock, opener, stale, on, polls>>

\* Federation sends on an open socket, and otherwise opens another one.
Federate(q) ==
    /\ phase[q] = "ready" /\ transport = "federation"
    /\ IF sock[on[q]] = "open"
       THEN Submitted(q, on[q]) /\ UNCHANGED <<sock, opener>>
       ELSE /\ To(q, "reconnecting")
            /\ sock' = [sock EXCEPT ![on[q]] = "opening"] /\ opener' = [opener EXCEPT ![on[q]] = q]
            /\ UNCHANGED waiting
    /\ UNCHANGED <<transport, chosen, dropping, healthCache, connected, stale, on, polls>>

\* onopen marks the transport connected even if its socket was replaced or taken
\* away meanwhile; the send then throws.
Reconnected(q) ==
    /\ phase[q] = "reconnecting"
    /\ LET x == on[q]
           mine == opener[x] = q /\ sock[x] = "opening" IN
         /\ connected' = [connected EXCEPT ![x] = TRUE]
         /\ sock' = IF mine THEN [sock EXCEPT ![x] = "open"] ELSE sock
         /\ IF mine \/ sock[x] = "open" THEN Submitted(q, x)
            ELSE To(q, "failure") /\ UNCHANGED waiting
    /\ UNCHANGED <<transport, chosen, dropping, healthCache, opener, stale, on, polls>>

ReconnectFails(q) ==
    /\ phase[q] = "reconnecting"
    /\ LET x == on[q] IN
         sock' = IF opener[x] = q /\ sock[x] = "opening" THEN [sock EXCEPT ![x] = "dead"] ELSE sock
    /\ stale' = [stale EXCEPT ![on[q]] = TRUE]
    /\ To(q, "failure")
    /\ UNCHANGED <<transport, chosen, dropping, healthCache, connected, opener, waiting, on, polls>>

\* The other side closes the socket, or the process ends, which nothing notices.
Drops(x) ==
    /\ sock[x] = "open" /\ transport \in {"federation", "mcp-stdio"}
    /\ sock' = [sock EXCEPT ![x] = "dead"]
    /\ stale' = [stale EXCEPT ![x] = transport = "federation"]
    /\ UNCHANGED <<transport, chosen, dropping, healthCache, connected, opener, waiting, jobs>>

\* onclose, of the current socket or of an earlier one.
OnClose(x) ==
    /\ stale[x]
    /\ stale' = [stale EXCEPT ![x] = FALSE]
    /\ connected' = [connected EXCEPT ![x] = FALSE]
    /\ waiting' = [waiting EXCEPT ![x] = {}]
    /\ phase' = RejectAll(x)
    /\ UNCHANGED <<transport, chosen, dropping, healthCache, sock, opener, on, polls>>

\* handleMCPResponse() and handleMessage(): only an entry still there is settled.
Reply(q) ==
    /\ q \in waiting[on[q]] /\ sock[on[q]] = "open"
    /\ waiting' = [waiting EXCEPT ![on[q]] = @ \ {q}]
    /\ To(q, "success") \/ To(q, "failure")
    /\ UNCHANGED <<transport, chosen, dropping, healthCache, connected, sock, opener, stale, on, polls>>

\* The timer of the request; it is there although disconnect() forgot the entry.
TimesOut(q) ==
    /\ phase[q] = "running" /\ transport \in {"mcp-stdio", "federation"}
    /\ waiting' = [waiting EXCEPT ![on[q]] = @ \ {q}]
    /\ To(q, "failure")
    /\ UNCHANGED <<transport, chosen, dropping, healthCache, connected, sock, opener, stale, on, polls>>

-----------------------------------------------------------------------------

Progresses(q) ==
    \/ Connected(q) \/ ConnectFails(q) \/ Probe(q)
    \/ RunAlone(q) \/ CliExits(q) \/ HttpAnswers(q) \/ ApiAnswers(q) \/ Poll(q)
    \/ Invoke(q) \/ Federate(q) \/ Reconnected(q) \/ ReconnectFails(q) \/ TimesOut(q)

TransportNext ==
    \/ DisconnectAgent \/ Dropped
    \/ \E q \in Jobs : Acquire(q) \/ Progresses(q) \/ Reply(q)
    \/ \E x \in Jobs : Drops(x) \/ OnClose(x)

\* Every await of a job has a timer beside it or is a call that ends.
TransportFairness == \A q \in Jobs : WF_transportVars(Progresses(q))
-----------------------------------------------------------------------------
(* Properties *)

\* Who waits on a federation transport is in its table, so that the onclose of
\* its socket finds it; a transport without a socket has nobody waiting; and
\* nobody is in a table who has been answered.
WaitersKnown ==
    \A q \in Jobs : /\ transport = "federation" /\ phase[q] = "running" => q \in waiting[on[q]]
                    /\ waiting[q] # {} => sock[q] # "none"
                    /\ \A x \in Jobs : q \in waiting[x] => phase[q] = "running" /\ on[q] = x

\* Every call of execute() and checkHealth() ends, also when the transport is
\* disconnected, replaced or dead under it.
JobsEnd == \A q \in Jobs : phase[q] # "none" ~> phase[q] \in Ended
=============================================================================
