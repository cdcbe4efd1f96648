----------------------------- MODULE AetherLink -----------------------------
(***************************************************************************)
(* Aether-Link: protocol/server.ts and protocol/client.ts over WebSockets. *)
(* The two ends of a socket learn of its opening and of its closing at     *)
(* different times, and an agent that reconnects may have several sockets. *)
(*                                                                         *)
(* Agents outside Clients are other programs that speak the protocol: only *)
(* they can answer a request, since send() cannot set a correlationId.     *)
(* Silence of 30 s is a choice, so heartbeats are not messages here; that  *)
(* a client beats at all is hb.                                            *)
(***************************************************************************)
EXTENDS Naturals, FiniteSets, Sequences

CONSTANTS
    LinkAgents, Clients,  \* agent ids; those that run AetherLinkClient
    Sockets, Owner,       \* WebSocket objects, reused once closed; socket -> agent
    Channels, ChannelOf,  \* the channels; socket -> the one in its URL
    NoSocket,             \* null
    LinkRequests,         \* correlation ids
    NoRequest,            \* a message without one
    Asker,                \* request -> the client that makes it
    Peer,                 \* the agent requests are sent to
    EarlyConnect,         \* may connect() be called while an earlier socket is alive?
    MaxReconnect,         \* maxReconnectAttempts (5 in the code)
    MaxAlive,             \* bound: sockets that are not closed at both ends
    QueueMax              \* bound: messages in flight per socket and direction

ASSUME LinkAssumption ==
    /\ Clients \subseteq LinkAgents /\ IsFiniteSet(Sockets) /\ Owner \in [Sockets -> LinkAgents]
    /\ ChannelOf \in [Sockets -> Channels]
    /\ Asker \in [LinkRequests -> Clients] /\ Peer \in LinkAgents \ Clients /\ NoSocket \notin Sockets
    /\ NoRequest \notin LinkRequests
    /\ EarlyConnect \in BOOLEAN /\ MaxReconnect \in Nat /\ MaxAlive \in Nat /\ QueueMax \in Nat

VARIABLES
    orderly,     \* the server hears of every close before the agent connects again
    cend, send,  \* the client's and the server's end of a socket
    up, down,    \* messages on their way to the server, to the agent
    ws,          \* this.ws of a client
    intentional, attempts, sleeping, hb,  \* intentionalDisconnect, reconnectAttempts,
                                          \* reconnect() calls asleep, heartbeatTimer
    serverUp,
    entry,       \* connections: agent -> socket and connected flag
    members,     \* channels: channel -> the agents in its set
    pend,        \* pendingRequests of the clients, with their timers
    caller       \* what the caller of request() sees

link == <<cend, send, up, down>>
client == <<ws, intentional, attempts, sleeping, hb>>
table == <<serverUp, entry, members>>
requests == <<pend, caller>>
linkVars == <<orderly, link, client, table, requests>>

NoEntry == [sock |-> NoSocket, connected |-> FALSE]
Plain == {"bad", "note"} \X {NoRequest}     \* what BAPCodec refuses; a broadcast
Tasks == {"task"} \X LinkRequests
Results == {"result"} \X LinkRequests
LinkMessage == Plain \cup Tasks \cup Results

LinkTypeOK ==
    /\ orderly \in BOOLEAN /\ serverUp \in BOOLEAN
    /\ cend \in [Sockets -> {"connecting", "open", "closing", "closed"}]
    /\ send \in [Sockets -> {"none", "refused", "open", "closing", "closed"}]
    /\ up \in [Sockets -> Seq(LinkMessage)] /\ down \in [Sockets -> Seq(LinkMessage)]
    /\ ws \in [Clients -> Sockets \cup {NoSocket}]
    /\ intentional \in [Clients -> BOOLEAN] /\ hb \in [Clients -> BOOLEAN]
    /\ attempts \in [Clients -> 0..MaxReconnect] /\ sleeping \in [Clients -> 0..Cardinality(Sockets)]
    /\ entry \in [LinkAgents -> [sock : Sockets \cup {NoSocket}, connected : BOOLEAN]]
    /\ members \in [Channels -> SUBSET LinkAgents]
    /\ pend \subseteq LinkRequests
    /\ caller \in [LinkRequests -> {"none", "waiting", "resolved", "rejected"}]

LinkInit ==
    /\ orderly \in BOOLEAN
    /\ cend = [s \in Sockets |-> "closed"] /\ send = [s \in Sockets |-> "none"]
    /\ up = [s \in Sockets |-> <<>>] /\ down = [s \in Sockets |-> <<>>]
    /\ ws = [c \in Clients |-> NoSocket] /\ intentional = [c \in Clients |-> FALSE]
    /\ attempts = [c \in Clients |-> 0] /\ sleeping = [c \in Clients |-> 0]
    /\ hb = [c \in Clients |-> FALSE]
    /\ serverUp = FALSE
    /\ entry = [a \in LinkAgents |-> NoEntry] /\ members = [c \in Channels |-> {}]
    /\ pend = {} /\ caller = [r \in LinkRequests |-> "none"]

-----------------------------------------------------------------------------
(* The socket *)

OwnSockets(a) == {s \in Sockets : Owner[s] = a}
Gone(s) == send[s] \in {"none", "refused", "closed"}
Dead(s) == cend[s] = "closed" /\ Gone(s)
IsOpen(s) == s \in Sockets /\ cend[s] = "open"
Push(q, s, m) == IF Len(q[s]) < QueueMax THEN [q EXCEPT ![s] = Append(@, m)] ELSE q
Emptied(q, s) == [q EXCEPT ![s] = <<>>]         \* nobody will read it any more
ToServer(s, m) == IF send[s] = "open" THEN Push(up, s, m) ELSE up
ToAgent(s, m) == IF cend[s] \in {"connecting", "open"} THEN Push(down, s, m) ELSE down

\* new WebSocket(url): any object that is done with.
NewSocket(s) ==
    /\ Dead(s) /\ Cardinality({t \in Sockets : ~Dead(t)}) < MaxAlive
    /\ cend' = [cend EXCEPT ![s] = "connecting"] /\ send' = [send EXCEPT ![s] = "none"]
    /\ up' = [up EXCEPT ![s] = <<>>] /\ down' = [down EXCEPT ![s] = <<>>]

\* An orderly agent connects when no socket or reconnect of its own is alive.
\* Bound: sockets and sleeping reconnects together, by the socket objects.
Asleep(a) == IF a \in Clients THEN sleeping[a] ELSE 0
Alive(a) == Cardinality({s \in OwnSockets(a) : ~Dead(s)}) + Asleep(a)
MayConnect(a) ==
    /\ Alive(a) < (IF orderly THEN 1 ELSE Cardinality(OwnSockets(a)))
    /\ ~EarlyConnect => Asleep(a) = 0 /\ \A s \in OwnSockets(a) : cend[s] = "closed"

-----------------------------------------------------------------------------
(* The client *)

ConnectCall(c, s) ==
    /\ NewSocket(s)
    /\ ws' = [ws EXCEPT ![c] = s] /\ intentional' = [intentional EXCEPT ![c] = FALSE]

Connect(c) ==
    /\ MayConnect(c)
    /\ \E s \in OwnSockets(c) : ConnectCall(c, s)
    /\ UNCHANGED <<orderly, attempts, sleeping, hb, table, requests>>

\* onopen; the heartbeat timer beats on whatever socket is current.
ClientOpen(s) ==
    /\ cend[s] = "connecting" /\ send[s] \notin {"none", "refused"}
    /\ cend' = [cend EXCEPT ![s] = "open"]
    /\ IF Owner[s] \in Clients
       THEN /\ attempts' = [attempts EXCEPT ![Owner[s]] = 0]
            /\ hb' = [hb EXCEPT ![Owner[s]] = TRUE]
       ELSE UNCHANGED <<attempts, hb>>
    /\ UNCHANGED <<orderly, send, up, down, ws, intentional, sleeping, table, requests>>

KeepHeartbeat(c) == hb                                   \* seeded fault: timer not cleared
StopHeartbeat(c) == [hb EXCEPT ![c] = FALSE]

\* reconnect() up to its sleep: it gives up and rejects all requests, or waits.
Mine(c) == {r \in LinkRequests : Asker[r] = c}
GivesUpLater(c) == attempts[c] > MaxReconnect            \* seeded fault: off by one
GivesUp(c) == attempts[c] >= MaxReconnect
RejectNobody(rs) == caller                               \* seeded fault: entry deleted only
Reject(rs) == [r \in LinkRequests |-> IF r \in rs /\ caller[r] = "waiting"
                                      THEN "rejected" ELSE caller[r]]
Reconnect(c) ==
    IF GivesUp(c)
    THEN pend' = pend \ Mine(c) /\ caller' = Reject(pend \cap Mine(c)) /\ UNCHANGED <<attempts, sleeping>>
    ELSE /\ attempts' = [attempts EXCEPT ![c] = @ + 1]
         /\ sleeping' = [sleeping EXCEPT ![c] = @ + 1]
         /\ UNCHANGED requests

\* onclose of any socket of the client: answered, refused or cut off.  An object that
\* is closed at both ends keeps nothing (send is "none" again).  The client stops
\* the heartbeat and reconnects without asking whether the socket is current.
ClientClosed(s) ==
    /\ cend[s] # "closed"
    /\ orderly => Gone(s)
    /\ cend' = [cend EXCEPT ![s] = "closed"] /\ down' = Emptied(down, s)
    /\ IF Gone(s) THEN send' = [send EXCEPT ![s] = "none"] /\ up' = Emptied(up, s)
       ELSE UNCHANGED <<send, up>>
    /\ IF Owner[s] \in Clients
       THEN LET c == Owner[s] IN
            /\ hb' = StopHeartbeat(c)
            /\ IF intentional[c] THEN UNCHANGED <<attempts, sleeping, requests>>
               ELSE Reconnect(c)
       ELSE UNCHANGED <<hb, attempts, sleeping, requests>>
    /\ UNCHANGED <<orderly, ws, intentional, table>>

\* reconnect() after its sleep.
Wake(c) ==
    /\ sleeping[c] > 0
    /\ sleeping' = [sleeping EXCEPT ![c] = @ - 1]
    /\ IF intentional[c] THEN UNCHANGED <<link, ws, intentional>>
       ELSE \E s \in OwnSockets(c) : ConnectCall(c, s)
    /\ UNCHANGED <<orderly, attempts, hb, table, requests>>

\* close() of one end begins the closing handshake.
Closing(end, s) == [end EXCEPT ![s] = IF @ \in {"connecting", "open"} THEN "closing" ELSE @]

Disconnect(c) ==
    /\ intentional' = [intentional EXCEPT ![c] = TRUE]
    /\ hb' = StopHeartbeat(c)
    /\ pend' = pend \ Mine(c) /\ caller' = Reject(pend \cap Mine(c))
    /\ IF ws[c] = NoSocket THEN UNCHANGED <<cend, down>>
       ELSE cend' = Closing(cend, ws[c]) /\ down' = Emptied(down, ws[c])
    /\ ws' = [ws EXCEPT ![c] = NoSocket]
    /\ UNCHANGED <<orderly, send, up, attempts, sleeping, table>>

\* request(): the timer and the map entry are there before sendRaw, which
\* throws when the socket is not open; the entry then waits for its timer.
Request(c, r) ==
    /\ caller[r] = "none" /\ Asker[r] = c
    /\ pend' = pend \cup {r}
    /\ IF IsOpen(ws[c])
       THEN up' = ToServer(ws[c], <<"task", r>>) /\ caller' = [caller EXCEPT ![r] = "waiting"]
       ELSE up' = up /\ caller' = [caller EXCEPT ![r] = "rejected"]
    /\ UNCHANGED <<orderly, cend, send, down, client, table>>

LinkTimeout(r) ==
    /\ r \in pend
    /\ pend' = pend \ {r}
    /\ caller' = Reject({r})
    /\ UNCHANGED <<orderly, link, client, table>>

Answered(r) == pend \ {r}
\* handleIncomingMessage: a result finds its request; anything else, and a
\* result nobody waits for, goes to the handlers.
ClientReceive(s) ==
    /\ Owner[s] \in Clients /\ cend[s] = "open" /\ down[s] # <<>>
    /\ down' = [down EXCEPT ![s] = Tail(@)]
    /\ LET m == Head(down[s]) IN
         IF m \in Results /\ m[2] \in pend \cap Mine(Owner[s])
         THEN /\ pend' = Answered(m[2])
              /\ caller' = [caller EXCEPT ![m[2]] = IF @ = "waiting" THEN "resolved" ELSE @]
         ELSE UNCHANGED requests
    /\ UNCHANGED <<orderly, cend, send, up, client, table>>

\* send() and broadcast() of the client; they throw when the socket is not open.
\* Bound: no broadcast beside another message.
SendNote(c) ==
    /\ IsOpen(ws[c]) /\ \A s \in Sockets : up[s] = <<>> /\ down[s] = <<>>
    /\ up' = ToServer(ws[c], <<"note", NoRequest>>)
    /\ UNCHANGED <<orderly, cend, send, down, client, table, requests>>

-----------------------------------------------------------------------------
(* Agents that are other programs *)

PeerConnects(a) ==
    /\ a \notin Clients /\ MayConnect(a)
    /\ \E s \in OwnSockets(a) : NewSocket(s)
    /\ UNCHANGED <<orderly, client, table, requests>>

\* A peer receives; it answers a task at once, never, or sends what BAPCodec refuses.
PeerReceives(s) ==
    /\ Owner[s] \notin Clients /\ cend[s] = "open" /\ down[s] # <<>>
    /\ down' = [down EXCEPT ![s] = Tail(@)]
    /\ \/ up' = up
       \/ up' = ToServer(s, <<"bad", NoRequest>>)
       \/ /\ Head(down[s]) \in Tasks
          /\ up' = ToServer(s, <<"result", Head(down[s])[2]>>)
    /\ UNCHANGED <<orderly, cend, send, client, table, requests>>

-----------------------------------------------------------------------------
(* The server *)

StartServer ==
    /\ ~serverUp
    /\ serverUp' = TRUE
    /\ UNCHANGED <<orderly, link, client, entry, members, requests>>

\* stop(): every socket is closed and the maps are cleared at once.
StopServer ==
    /\ serverUp
    /\ serverUp' = FALSE
    /\ send' = [s \in Sockets |-> IF send[s] = "open" THEN "closing" ELSE send[s]]
    /\ up' = [s \in Sockets |-> <<>>]
    /\ entry' = [a \in LinkAgents |-> NoEntry] /\ members' = [c \in Channels |-> {}]
    /\ UNCHANGED <<orderly, cend, down, client, requests>>

\* fetch() refuses the upgrade: rate limit, origin, token, id, or a failure.
Refuse(s) ==
    /\ serverUp /\ send[s] = "none" /\ cend[s] \in {"connecting", "closing"}
    /\ send' = [send EXCEPT ![s] = "refused"]
    /\ UNCHANGED <<orderly, cend, up, down, client, table, requests>>

\* open(): the agent's entry is replaced, whatever socket and channel it was for; in the
\* set of that channel it stays.
ServerOpen(s) ==
    /\ serverUp /\ send[s] = "none" /\ cend[s] \in {"connecting", "closing"}
    /\ send' = [send EXCEPT ![s] = "open"]
    /\ entry' = [entry EXCEPT ![Owner[s]] = [sock |-> s, connected |-> TRUE]]
    /\ members' = [members EXCEPT ![ChannelOf[s]] = @ \cup {Owner[s]}]
    /\ UNCHANGED <<orderly, cend, up, down, client, serverUp, requests>>

\* close(): the entry of the agent goes, even if it is for another socket, and the agent
\* leaves the channel of the socket that closed.
LeavesChannelOnly(a) == entry                          \* seeded fault: entry not deleted
Forgotten(a) == [entry EXCEPT ![a] = NoEntry]
ServerClosed(s) ==
    /\ send[s] \in {"open", "closing"}
    /\ send' = [send EXCEPT ![s] = IF cend[s] = "closed" THEN "none" ELSE "closed"]
    /\ up' = Emptied(up, s)
    /\ entry' = Forgotten(Owner[s])
    /\ members' = [members EXCEPT ![ChannelOf[s]] = @ \ {Owner[s]}]
    /\ UNCHANGED <<orderly, cend, down, client, serverUp, requests>>

\* checkHeartbeats(): silent agents are disconnected, their entries stay until close().
CheckHeartbeats ==
    /\ serverUp
    /\ \E silent \in (SUBSET {a \in LinkAgents : entry[a].connected}) \ {{}} :
         /\ entry' = [a \in LinkAgents |-> IF a \in silent
                        THEN [entry[a] EXCEPT !.connected = FALSE] ELSE entry[a]]
         /\ send' = [s \in Sockets |-> IF \E a \in silent : entry[a].sock = s
                                       THEN "closing" ELSE send[s]]
         /\ up' = [s \in Sockets |-> IF send'[s] = "open" THEN up[s] ELSE <<>>]
    /\ UNCHANGED <<orderly, cend, down, client, serverUp, members, requests>>

\* sendToAgent(): what cannot be delivered is dropped.
Reachable(a) == entry[a].connected /\ send[entry[a].sock] = "open"
SendTo(a, m) == IF Reachable(a) THEN ToAgent(entry[a].sock, m) ELSE down
\* broadcastToChannel(): to the members of the sender's channel but itself.
BroadcastFrom(a, m) ==
    [s \in Sockets |->
       IF /\ entry[a] # NoEntry /\ Len(down[s]) < QueueMax /\ cend[s] \in {"connecting", "open"}
          /\ \E b \in members[ChannelOf[entry[a].sock]] \ {a} : Reachable(b) /\ entry[b].sock = s
       THEN Append(down[s], m) ELSE down[s]]

\* message(): decode, log, route.  A bad one is answered on its own socket.
ServerReceive(s) ==
    /\ serverUp /\ send[s] = "open" /\ up[s] # <<>>
    /\ up' = [up EXCEPT ![s] = Tail(@)]
    /\ down' = LET m == Head(up[s]) IN
               CASE m[1] = "bad" -> ToAgent(s, m)
                 [] m[1] = "note" -> BroadcastFrom(Owner[s], m)
                 [] m[1] = "task" -> SendTo(Peer, m)
                 [] m[1] = "result" -> SendTo(Asker[m[2]], m)
    /\ UNCHANGED <<orderly, cend, send, client, table, requests>>

\* getConnectedAgents() and getMetrics(), where a channel without agents is not listed.
ConnectedAgents == {a \in LinkAgents : entry[a].connected}
Metrics == [connectedAgents |-> Cardinality({a \in LinkAgents : entry[a] # NoEntry}),
            channels |-> [c \in Channels |-> Cardinality(members[c])]]

-----------------------------------------------------------------------------

LinkNext ==
    \/ StartServer \/ StopServer \/ CheckHeartbeats
    \/ \E c \in Clients : Connect(c) \/ Wake(c) \/ Disconnect(c) \/ SendNote(c)
    \/ \E c \in Clients, r \in LinkRequests : Request(c, r)
    \/ \E r \in LinkRequests : LinkTimeout(r)
    \/ \E a \in LinkAgents : PeerConnects(a)
    \/ \E s \in Sockets : \/ Refuse(s) \/ ServerOpen(s) \/ ServerClosed(s) \/ ServerReceive(s)
                          \/ ClientOpen(s) \/ ClientClosed(s) \/ ClientReceive(s)
                          \/ PeerReceives(s)

LinkSpec == LinkInit /\ [][LinkNext]_linkVars

\* Timers of pending requests fire (setTimeout).
LinkFairSpec == LinkSpec /\ \A r \in LinkRequests : WF_linkVars(LinkTimeout(r))

-----------------------------------------------------------------------------
(* Properties *)

\* Whom the connections list on a channel, and who has sockets for no other one.
ConnectedOn(c) == {a \in LinkAgents : entry[a] # NoEntry /\ ChannelOf[entry[a].sock] = c}
KeepsTo(a, c) == \A s \in OwnSockets(a) : ChannelOf[s] = c

\* Whatever reconnects, heartbeat timeouts and restarts overlap, the server's tables name
\* nobody who is gone: a connection is to a socket that is not closed, and is in the set of
\* its channel; who is in the set of a channel has a socket for it that is not closed.  So
\* a channel counts all its connections, and nobody else while its agents keep to it; an
\* agent with sockets for two channels may be counted on both, connected on one or none.
TablesServed ==
    /\ \A a \in LinkAgents : entry[a] # NoEntry =>
          a \in members[ChannelOf[entry[a].sock]] /\ send[entry[a].sock] \in {"open", "closing"}
    /\ \A c \in Channels :
         /\ \A a \in members[c] :
              \E s \in OwnSockets(a) : ChannelOf[s] = c /\ send[s] \in {"open", "closing"}
         /\ Metrics.channels[c] >= Cardinality(ConnectedOn(c))
         /\ (\A a \in members[c] : KeepsTo(a, c)) =>
              Metrics.channels[c] = Cardinality(ConnectedOn(c))

\* "List all currently connected agent IDs" (server.ts:348): an agent with a
\* socket that is open at both ends is in the list.
OpenSocketsListed ==
    \A s \in Sockets : cend[s] = "open" /\ send[s] = "open" => Owner[s] \in ConnectedAgents

\* When agents connect again only after their old socket is closed at both ends,
\* the list is right, a client has one socket at most and beats on an open one.
OrderlyClients ==
    orderly => /\ OpenSocketsListed
               /\ \A c \in Clients : /\ Cardinality({s \in OwnSockets(c) : ~Dead(s)}) <= 1
                                     /\ hb[c] => IsOpen(ws[c])

\* Every request ends, although the server drops what it cannot deliver, answers
\* are lost with their socket, and request() may throw before it sends.
LinkRequestsEnd == \A r \in LinkRequests : caller[r] = "waiting" ~> caller[r] # "waiting"
=============================================================================
