----------------------------- MODULE LinkProofs -----------------------------
(***************************************************************************)
(* Proofs about AetherLink.tla for any agents, sockets and requests, any   *)
(* overlap of reconnects, heartbeat timeouts and restarts of the server.   *)
(***************************************************************************)
EXTENDS AetherLink, FiniteSetTheorems, TLAPS

-----------------------------------------------------------------------------
(* The invariant *)

\* The type of every variable, but for the bound on sleeping reconnects.
Shape ==
    /\ orderly \in BOOLEAN /\ serverUp \in BOOLEAN
    /\ cend \in [Sockets -> {"connecting", "open", "closing", "closed"}]
    /\ send \in [Sockets -> {"none", "refused", "open", "closing", "closed"}]
    /\ up \in [Sockets -> Seq(LinkMessage)] /\ down \in [Sockets -> Seq(LinkMessage)]
    /\ ws \in [Clients -> Sockets \cup {NoSocket}]
    /\ intentional \in [Clients -> BOOLEAN] /\ hb \in [Clients -> BOOLEAN]
    /\ attempts \in [Clients -> 0..MaxReconnect] /\ sleeping \in [Clients -> Nat]
    /\ entry \in [LinkAgents -> [sock : Sockets \cup {NoSocket}, connected : BOOLEAN]]
    /\ members \in [Channels -> SUBSET LinkAgents]
    /\ pend \subseteq LinkRequests
    /\ caller \in [LinkRequests -> {"none", "waiting", "resolved", "rejected"}]

\* Every sleeping reconnect is owed to a socket object that is closed.
Unclosed(c) == {s \in OwnSockets(c) : cend[s] # "closed"}
Slots == \A c \in Clients :
           sleeping[c] + Cardinality(Unclosed(c)) <= Cardinality(OwnSockets(c))

\* The entries name sockets the server still has, each agent its own, on a channel it is
\* in the set of; the sets name agents with such a socket, and those that keep to one
\* channel have an entry.
EntryServed(a) ==
    /\ entry[a].connected => entry[a].sock # NoSocket
    /\ entry[a].sock # NoSocket =>
         /\ Owner[entry[a].sock] = a /\ send[entry[a].sock] \in {"open", "closing"}
         /\ a \in members[ChannelOf[entry[a].sock]]
MemberServed(a, c) ==
    /\ \E s \in OwnSockets(a) : ChannelOf[s] = c /\ send[s] \in {"open", "closing"}
    /\ KeepsTo(a, c) => entry[a].sock # NoSocket
Tabled ==
    /\ \A a \in LinkAgents : EntryServed(a)
    /\ \A c \in Channels, a \in LinkAgents : a \in members[c] => MemberServed(a, c)

\* An orderly agent has one thing alive, a socket or a reconnect; the server's
\* entry is for that socket, and so is what the client holds.
Single ==
    /\ \A s, t \in Sockets : Owner[s] = Owner[t] /\ ~Dead(s) /\ ~Dead(t) => s = t
    /\ \A c \in Clients : sleeping[c] > 0 =>
         sleeping[c] = 1 /\ \A s \in OwnSockets(c) : Dead(s)
Current ==
    /\ \A s \in Sockets : send[s] = "open" => entry[Owner[s]] = [sock |-> s, connected |-> TRUE]
    /\ \A s \in Sockets : Owner[s] \in Clients /\ cend[s] \in {"connecting", "open"} =>
         ws[Owner[s]] = s
    /\ \A c \in Clients : /\ ws[c] # NoSocket => Owner[ws[c]] = c
                          /\ hb[c] => IsOpen(ws[c])

IInv == Shape /\ Slots /\ Tabled /\ (orderly => Single /\ Current)

-----------------------------------------------------------------------------
(* Operators of the model *)

LEMMA LinkConstants ==
    /\ Clients \subseteq LinkAgents /\ Owner \in [Sockets -> LinkAgents] /\ NoSocket \notin Sockets
    /\ ChannelOf \in [Sockets -> Channels]
    /\ Asker \in [LinkRequests -> Clients] /\ Peer \in LinkAgents \ Clients /\ MaxReconnect \in Nat
    /\ QueueMax \in Nat /\ IsFiniteSet(Sockets) /\ EarlyConnect \in BOOLEAN
  BY LinkAssumption

\* A channel stays one of messages when something is sent, read or thrown away.
LEMMA ChannelSteps ==
    ASSUME NEW q \in [Sockets -> Seq(LinkMessage)], NEW s \in Sockets
    PROVE  /\ Emptied(q, s) \in [Sockets -> Seq(LinkMessage)]
           /\ \A m \in LinkMessage : Push(q, s, m) \in [Sockets -> Seq(LinkMessage)]
           /\ q[s] # <<>> => /\ Head(q[s]) \in LinkMessage
                             /\ [q EXCEPT ![s] = Tail(@)] \in [Sockets -> Seq(LinkMessage)]
<1>1. Emptied(q, s) \in [Sockets -> Seq(LinkMessage)]
  BY DEF Emptied
<1>2. ASSUME NEW m \in LinkMessage PROVE Push(q, s, m) \in [Sockets -> Seq(LinkMessage)]
  <2>1. Append(q[s], m) \in Seq(LinkMessage)
    OBVIOUS
  <2> QED BY <2>1 DEF Push
<1>3. q[s] # <<>> => Head(q[s]) \in LinkMessage /\ Tail(q[s]) \in Seq(LinkMessage)
  OBVIOUS
<1> QED BY <1>1, <1>2, <1>3

\* What is sent on a socket keeps both channels ones of messages.
LEMMA SentType ==
    ASSUME Shape, NEW s \in Sockets, NEW m \in LinkMessage
    PROVE  /\ ToServer(s, m) \in [Sockets -> Seq(LinkMessage)]
           /\ ToAgent(s, m) \in [Sockets -> Seq(LinkMessage)]
<1>1. up \in [Sockets -> Seq(LinkMessage)] /\ down \in [Sockets -> Seq(LinkMessage)]
  BY DEF Shape
<1>2. /\ Push(up, s, m) \in [Sockets -> Seq(LinkMessage)]
      /\ Push(down, s, m) \in [Sockets -> Seq(LinkMessage)]
  BY <1>1, ChannelSteps
<1> QED BY <1>1, <1>2 DEF ToServer, ToAgent

\* A message is a note, a task or a result; the latter two carry a request.
LEMMA MessageKinds ==
    /\ \A m \in LinkMessage : /\ m[1] \in {"bad", "note", "task", "result"}
                              /\ m[1] \in {"task", "result"} => m[2] \in LinkRequests
    /\ \A m \in Results \cup Tasks : m[2] \in LinkRequests
    /\ \A r \in LinkRequests : <<"task", r>> \in LinkMessage /\ <<"result", r>> \in LinkMessage
    /\ <<"note", NoRequest>> \in LinkMessage /\ <<"bad", NoRequest>> \in LinkMessage
  BY DEF LinkMessage, Plain, Tasks, Results

\* Who waited for a request that is rejected is told so.
LEMMA RejectType ==
    ASSUME Shape, NEW rs
    PROVE  Reject(rs) \in [LinkRequests -> {"none", "waiting", "resolved", "rejected"}]
  BY DEF Reject, Shape

\* What the server routes are messages, sent on sockets.
LEMMA RoutedType ==
    ASSUME Shape, Tabled, NEW a \in LinkAgents, NEW m \in LinkMessage
    PROVE  /\ SendTo(a, m) \in [Sockets -> Seq(LinkMessage)]
           /\ BroadcastFrom(a, m) \in [Sockets -> Seq(LinkMessage)]
<1>1. Reachable(a) => entry[a].sock \in Sockets
  BY DEF Reachable, Tabled, EntryServed, Shape
<1>2. SendTo(a, m) \in [Sockets -> Seq(LinkMessage)]
  BY <1>1, SentType DEF SendTo, Shape
<1>3. \A s \in Sockets : down[s] \in Seq(LinkMessage) /\ Append(down[s], m) \in Seq(LinkMessage)
  BY DEF Shape
<1> QED BY <1>2, <1>3 DEF BroadcastFrom

\* A new socket object is one that both ends are done with.
LEMMA NewSocketShape ==
    ASSUME Shape, NEW s \in Sockets, NewSocket(s)
    PROVE  /\ cend' \in [Sockets -> {"connecting", "open", "closing", "closed"}]
           /\ send' \in [Sockets -> {"none", "refused", "open", "closing", "closed"}]
           /\ up' \in [Sockets -> Seq(LinkMessage)] /\ down' \in [Sockets -> Seq(LinkMessage)]
  BY DEF NewSocket, Shape

-----------------------------------------------------------------------------
(* Types *)

\* reconnect() stays within its attempts, whatever it decides.
LEMMA ReconnectShape ==
    ASSUME Shape, NEW c \in Clients, Reconnect(c)
    PROVE  /\ attempts' \in [Clients -> 0..MaxReconnect] /\ sleeping' \in [Clients -> Nat]
           /\ pend' \subseteq LinkRequests
           /\ caller' \in [LinkRequests -> {"none", "waiting", "resolved", "rejected"}]
<1>1. CASE GivesUp(c)
  BY <1>1, RejectType DEF Reconnect, Shape
<1>2. CASE ~GivesUp(c)
  <2>1. attempts[c] + 1 \in 0..MaxReconnect /\ sleeping[c] + 1 \in Nat
    BY <1>2, LinkConstants DEF GivesUp, Shape
  <2> QED BY <1>2, <2>1 DEF Reconnect, Shape, requests
<1> QED BY <1>1, <1>2

LEMMA ClientShape ==
    ASSUME Shape, NEW c \in Clients,
           Connect(c) \/ Wake(c) \/ Disconnect(c) \/ SendNote(c) \/ \E r \in LinkRequests : Request(c, r)
    PROVE  Shape'
<1> USE LinkConstants DEF link, client, table, requests
<1>1. CASE Connect(c)
  <2>1. PICK s \in Sockets : ConnectCall(c, s)
    BY <1>1 DEF Connect, OwnSockets
  <2> QED BY <1>1, <2>1, NewSocketShape DEF Connect, ConnectCall, Shape
<1>2. CASE Wake(c)
  <2>1. sleeping' \in [Clients -> Nat]
    BY <1>2 DEF Wake, Shape
  <2>2. CASE intentional[c]
    BY <1>2, <2>1, <2>2 DEF Wake, Shape
  <2>3. CASE ~intentional[c]
    <3>1. PICK s \in Sockets : ConnectCall(c, s)
      BY <1>2, <2>3 DEF Wake, OwnSockets
    <3> QED BY <1>2, <2>1, <3>1, NewSocketShape DEF Wake, ConnectCall, Shape
  <2> QED BY <2>2, <2>3
<1>3. CASE Disconnect(c)
  <2>1. cend' \in [Sockets -> {"connecting", "open", "closing", "closed"}]
    <3>1. cend \in [Sockets -> {"connecting", "open", "closing", "closed"}]
      BY DEF Shape
    <3>2. cend' = cend \/ cend' = Closing(cend, ws[c])
      BY <1>3 DEF Disconnect
    <3> QED BY <3>1, <3>2 DEF Closing
  <2>2. ws[c] # NoSocket => Emptied(down, ws[c]) \in [Sockets -> Seq(LinkMessage)]
    <3>1. ws[c] \in Sockets \cup {NoSocket} /\ down \in [Sockets -> Seq(LinkMessage)]
      BY DEF Shape
    <3> QED BY <3>1, ChannelSteps
  <2>3. down' \in [Sockets -> Seq(LinkMessage)]
    BY <1>3, <2>2 DEF Disconnect, Shape
  <2> QED BY <1>3, <2>1, <2>3, RejectType DEF Disconnect, StopHeartbeat, Shape
<1>4. CASE SendNote(c)
  <2>1. ToServer(ws[c], <<"note", NoRequest>>) \in [Sockets -> Seq(LinkMessage)]
    BY <1>4, SentType, MessageKinds DEF SendNote, IsOpen
  <2> QED BY <1>4, <2>1 DEF SendNote, Shape
<1>5. ASSUME NEW r \in LinkRequests, Request(c, r) PROVE Shape'
  <2>1. up' \in [Sockets -> Seq(LinkMessage)]
    <3>1. CASE IsOpen(ws[c])
      <4>1. ws[c] \in Sockets /\ up' = ToServer(ws[c], <<"task", r>>)
        BY <1>5, <3>1 DEF Request, IsOpen
      <4>2. <<"task", r>> \in LinkMessage
        BY MessageKinds
      <4> QED BY <4>1, <4>2, SentType
    <3>2. CASE ~IsOpen(ws[c])
      BY <1>5, <3>2 DEF Request, Shape
    <3> QED BY <3>1, <3>2
  <2>2. caller' \in [LinkRequests -> {"none", "waiting", "resolved", "rejected"}]
    BY <1>5 DEF Request, Shape
  <2> QED BY <1>5, <2>1, <2>2 DEF Request, Shape
<1> QED BY <1>1, <1>2, <1>3, <1>4, <1>5

LEMMA SocketShape ==
    ASSUME Shape, NEW s \in Sockets,
           ClientOpen(s) \/ ClientClosed(s) \/ ClientReceive(s) \/ PeerReceives(s)
    PROVE  Shape'
<1> USE LinkConstants DEF link, client, table, requests
<1>1. CASE ClientOpen(s)
  <2>1. cend' \in [Sockets -> {"connecting", "open", "closing", "closed"}]
    BY <1>1 DEF ClientOpen, Shape
  <2>2. attempts' \in [Clients -> 0..MaxReconnect] /\ hb' \in [Clients -> BOOLEAN]
    <3>1. 0 \in 0..MaxReconnect
      OBVIOUS
    <3>2. CASE Owner[s] \in Clients
      BY <1>1, <3>1, <3>2 DEF ClientOpen, Shape
    <3>3. CASE Owner[s] \notin Clients
      BY <1>1, <3>3 DEF ClientOpen, Shape
    <3> QED BY <3>2, <3>3
  <2> QED BY <1>1, <2>1, <2>2 DEF ClientOpen, Shape
<1>2. CASE ClientClosed(s)
  <2>1. /\ cend' \in [Sockets -> {"connecting", "open", "closing", "closed"}]
        /\ send' \in [Sockets -> {"none", "refused", "open", "closing", "closed"}]
        /\ up' \in [Sockets -> Seq(LinkMessage)] /\ down' \in [Sockets -> Seq(LinkMessage)]
    <3>1. /\ cend' = [cend EXCEPT ![s] = "closed"] /\ down' = Emptied(down, s)
          /\ \/ send' = [send EXCEPT ![s] = "none"] /\ up' = Emptied(up, s)
             \/ UNCHANGED <<send, up>>
      BY <1>2 DEF ClientClosed
    <3>2. /\ Emptied(down, s) \in [Sockets -> Seq(LinkMessage)]
          /\ Emptied(up, s) \in [Sockets -> Seq(LinkMessage)]
      BY ChannelSteps DEF Shape
    <3> QED BY <3>1, <3>2 DEF Shape
  <2>2. CASE Owner[s] \in Clients /\ ~intentional[Owner[s]]
    <3>1. Reconnect(Owner[s]) /\ hb' \in [Clients -> BOOLEAN]
      BY <1>2, <2>2 DEF ClientClosed, StopHeartbeat, Shape
    <3> QED BY <1>2, <2>1, <2>2, <3>1, ReconnectShape DEF ClientClosed, Shape
  <2>3. CASE ~(Owner[s] \in Clients /\ ~intentional[Owner[s]])
    <3>1. hb' \in [Clients -> BOOLEAN]
      BY <1>2 DEF ClientClosed, StopHeartbeat, Shape
    <3>2. UNCHANGED <<attempts, sleeping, requests>>
      BY <1>2, <2>3 DEF ClientClosed
    <3> QED BY <1>2, <2>1, <3>1, <3>2 DEF ClientClosed, Shape
  <2> QED BY <2>2, <2>3
<1>3. CASE ClientReceive(s)
  <2>1. down' \in [Sockets -> Seq(LinkMessage)]
    BY <1>3, ChannelSteps DEF ClientReceive, Shape
  <2>2. /\ pend' \subseteq LinkRequests
        /\ caller' \in [LinkRequests -> {"none", "waiting", "resolved", "rejected"}]
    <3> DEFINE m == Head(down[s])
    <3>1. \/ UNCHANGED requests
          \/ \E r \in pend : /\ pend' = pend \ {r}
                             /\ caller' = [caller EXCEPT ![r] = IF @ = "waiting" THEN "resolved" ELSE @]
      BY <1>3 DEF ClientReceive, Answered
    <3>2. CASE UNCHANGED requests
      BY <3>2 DEF Shape
    <3>3. ASSUME NEW r \in pend, pend' = pend \ {r},
                 caller' = [caller EXCEPT ![r] = IF @ = "waiting" THEN "resolved" ELSE @]
          PROVE  /\ pend' \subseteq LinkRequests
                 /\ caller' \in [LinkRequests -> {"none", "waiting", "resolved", "rejected"}]
      BY <3>3 DEF Shape
    <3> QED BY <3>1, <3>2, <3>3
  <2> QED BY <1>3, <2>1, <2>2 DEF ClientReceive, Shape
<1>4. CASE PeerReceives(s)
  <2>1. down' \in [Sockets -> Seq(LinkMessage)]
    BY <1>4, ChannelSteps DEF PeerReceives, Shape
  <2>2. up' \in [Sockets -> Seq(LinkMessage)]
    <3> DEFINE m == Head(down[s])
    <3>1. \/ up' = up \/ up' = ToServer(s, <<"bad", NoRequest>>)
          \/ m \in Tasks /\ up' = ToServer(s, <<"result", m[2]>>)
      BY <1>4 DEF PeerReceives
    <3> HIDE DEF m
    <3>2. m \in Tasks => <<"result", m[2]>> \in LinkMessage
      BY MessageKinds
    <3>3. up \in [Sockets -> Seq(LinkMessage)] /\ <<"bad", NoRequest>> \in LinkMessage
      BY MessageKinds DEF Shape
    <3> QED BY <3>1, <3>2, <3>3, SentType
  <2> QED BY <1>4, <2>1, <2>2 DEF PeerReceives, Shape
<1> QED BY <1>1, <1>2, <1>3, <1>4

LEMMA ServerShape ==
    ASSUME Shape, Tabled,
           \/ StartServer \/ StopServer \/ CheckHeartbeats
           \/ \E s \in Sockets : Refuse(s) \/ ServerOpen(s) \/ ServerClosed(s) \/ ServerReceive(s)
    PROVE  Shape'
<1> USE LinkConstants DEF link, client, table, requests
<1>1. CASE StartServer
  BY <1>1 DEF StartServer, Shape
<1>2. CASE StopServer
  <2>1. send' \in [Sockets -> {"none", "refused", "open", "closing", "closed"}]
    BY <1>2 DEF StopServer, Shape
  <2>2. up' \in [Sockets -> Seq(LinkMessage)] /\ members' \in [Channels -> SUBSET LinkAgents]
    <3>1. <<>> \in Seq(LinkMessage)
      OBVIOUS
    <3> QED BY <1>2, <3>1 DEF StopServer
  <2> QED BY <1>2, <2>1, <2>2 DEF StopServer, NoEntry, Shape
<1>3. CASE CheckHeartbeats
  <2>1. PICK silent \in SUBSET LinkAgents :
          /\ entry' = [a \in LinkAgents |-> IF a \in silent
                         THEN [entry[a] EXCEPT !.connected = FALSE] ELSE entry[a]]
          /\ send' = [s \in Sockets |-> IF \E a \in silent : entry[a].sock = s
                                        THEN "closing" ELSE send[s]]
          /\ up' = [s \in Sockets |-> IF send'[s] = "open" THEN up[s] ELSE <<>>]
    BY <1>3 DEF CheckHeartbeats
  <2>2. \A a \in LinkAgents : [entry[a] EXCEPT !.connected = FALSE]
                                \in [sock : Sockets \cup {NoSocket}, connected : BOOLEAN]
    <3>1. entry \in [LinkAgents -> [sock : Sockets \cup {NoSocket}, connected : BOOLEAN]]
      BY Zenon DEF Shape
    <3> QED BY ONLY <3>1
  <2>3. /\ entry' \in [LinkAgents -> [sock : Sockets \cup {NoSocket}, connected : BOOLEAN]]
        /\ send' \in [Sockets -> {"none", "refused", "open", "closing", "closed"}]
    BY <2>1, <2>2 DEF Shape
  <2>4. up' \in [Sockets -> Seq(LinkMessage)]
    BY <2>1 DEF Shape
  <2> QED BY <1>3, <2>3, <2>4 DEF CheckHeartbeats, Shape
<1>4. ASSUME NEW s \in Sockets, Refuse(s) PROVE Shape'
  BY <1>4 DEF Refuse, Shape
<1>5. ASSUME NEW s \in Sockets, ServerOpen(s) PROVE Shape'
  <2>1. members' \in [Channels -> SUBSET LinkAgents]
    BY <1>5 DEF ServerOpen, Shape
  <2> QED BY <1>5, <2>1 DEF ServerOpen, Shape
<1>6. ASSUME NEW s \in Sockets, ServerClosed(s) PROVE Shape'
  <2>1. members' \in [Channels -> SUBSET LinkAgents]
    BY <1>6 DEF ServerClosed, Shape
  <2>2. up' \in [Sockets -> Seq(LinkMessage)]
    BY <1>6, ChannelSteps DEF ServerClosed, Shape
  <2> QED BY <1>6, <2>1, <2>2 DEF ServerClosed, Forgotten, NoEntry, Shape
<1>7. ASSUME NEW s \in Sockets, ServerReceive(s) PROVE Shape'
  <2> DEFINE m == Head(up[s])
  <2>1. m \in LinkMessage /\ up' \in [Sockets -> Seq(LinkMessage)]
    BY <1>7, ChannelSteps DEF ServerReceive, Shape
  <2>2. \/ m[1] = "bad" /\ down' = ToAgent(s, m)
        \/ m[1] = "note" /\ down' = BroadcastFrom(Owner[s], m)
        \/ m[1] = "task" /\ down' = SendTo(Peer, m)
        \/ m[1] = "result" /\ down' = SendTo(Asker[m[2]], m)
    BY <1>7, <2>1, MessageKinds DEF ServerReceive
  <2> HIDE DEF m
  <2>3. m[1] = "result" => Asker[m[2]] \in LinkAgents
    BY <2>1, MessageKinds
  <2>4. down' \in [Sockets -> Seq(LinkMessage)]
    <3>1. down \in [Sockets -> Seq(LinkMessage)] /\ Owner[s] \in LinkAgents /\ Peer \in LinkAgents
      BY DEF Shape
    <3>2. ToAgent(s, m) \in [Sockets -> Seq(LinkMessage)]
      BY <2>1, SentType
    <3>3. \A a \in LinkAgents : /\ SendTo(a, m) \in [Sockets -> Seq(LinkMessage)]
                                /\ BroadcastFrom(a, m) \in [Sockets -> Seq(LinkMessage)]
      BY <2>1, RoutedType
    <3> QED BY <2>2, <2>3, <3>1, <3>2, <3>3, SMTT(30)
  <2> QED BY <1>7, <2>1, <2>4 DEF ServerReceive, Shape
<1> QED BY <1>1, <1>2, <1>3, <1>4, <1>5, <1>6, <1>7

\* Every step keeps the types.
LEMMA StepShape == ASSUME Shape, Tabled, [LinkNext]_linkVars PROVE Shape'
<1> USE DEF link, client, table, requests
<1>1. CASE UNCHANGED linkVars
  BY <1>1 DEF linkVars, Shape
<1>2. ASSUME NEW r \in LinkRequests, LinkTimeout(r) PROVE Shape'
  BY <1>2, RejectType DEF LinkTimeout, Shape
<1>3. ASSUME NEW a \in LinkAgents, PeerConnects(a) PROVE Shape'
  <2>1. PICK s \in Sockets : NewSocket(s)
    BY <1>3 DEF PeerConnects, OwnSockets
  <2> QED BY <1>3, <2>1, NewSocketShape DEF PeerConnects, Shape
<1> QED
  BY <1>1, <1>2, <1>3, ClientShape, SocketShape, ServerShape DEF LinkNext

-----------------------------------------------------------------------------
(* Sleeping reconnects and closed sockets *)

LEMMA OwnFinite ==
    ASSUME NEW a
    PROVE  /\ IsFiniteSet(OwnSockets(a)) /\ Cardinality(OwnSockets(a)) \in Nat
           /\ Cardinality(OwnSockets(a)) <= Cardinality(Sockets) /\ Cardinality(Sockets) \in Nat
           /\ \A S \in SUBSET OwnSockets(a) : IsFiniteSet(S) /\ Cardinality(S) \in Nat
<1>1. OwnSockets(a) \subseteq Sockets /\ IsFiniteSet(Sockets)
  BY LinkConstants DEF OwnSockets
<1>2. IsFiniteSet(OwnSockets(a)) /\ Cardinality(OwnSockets(a)) <= Cardinality(Sockets)
  BY <1>1, FS_Subset
<1>3. \A S \in SUBSET OwnSockets(a) : IsFiniteSet(S)
  BY <1>2, FS_Subset
<1> QED BY <1>1, <1>2, <1>3, FS_CardinalityType

\* Agents that own a socket are finitely many.
LEMMA OwnersFinite ==
    ASSUME NEW A, \A a \in A : \E s \in Sockets : Owner[s] = a
    PROVE  IsFiniteSet(A)
<1> DEFINE picked == [a \in A |-> CHOOSE s \in Sockets : Owner[s] = a]
<1>1. picked \in Injection(A, Sockets)
  <2>1. \A a \in A : picked[a] \in Sockets /\ Owner[picked[a]] = a
    OBVIOUS
  <2>2. picked \in [A -> Sockets] /\ \A a, b \in A : picked[a] = picked[b] => a = b
    BY <2>1
  <2> HIDE DEF picked
  <2> QED BY <2>2 DEF Injection, IsInjective
<1> HIDE DEF picked
<1> QED BY <1>1, LinkConstants, FS_Injection

\* An agent that may connect has a slot left for one socket more.
LEMMA RoomToConnect ==
    ASSUME Shape, Slots, NEW c \in Clients, NEW s \in OwnSockets(c), MayConnect(c)
    PROVE  sleeping[c] + Cardinality(Unclosed(c)) + 1 <= Cardinality(OwnSockets(c))
<1> DEFINE alive == {t \in OwnSockets(c) : ~Dead(t)}
<1>1. Unclosed(c) \subseteq alive
  BY DEF Unclosed, Dead, Gone
<1>2. /\ IsFiniteSet(alive) /\ Cardinality(alive) \in Nat /\ Cardinality(Unclosed(c)) \in Nat
      /\ Cardinality(OwnSockets(c)) \in Nat /\ sleeping[c] \in Nat
  BY OwnFinite DEF Unclosed, Shape
<1>3. Cardinality(Unclosed(c)) <= Cardinality(alive)
  BY <1>1, <1>2, FS_Subset
<1>4. Cardinality(OwnSockets(c)) # 0
  BY OwnFinite, FS_EmptySet
<1>5. Cardinality(alive) + sleeping[c] < IF orderly THEN 1 ELSE Cardinality(OwnSockets(c))
  BY DEF MayConnect, Alive, Asleep
<1> HIDE DEF alive
<1> QED BY <1>2, <1>3, <1>4, <1>5

\* Nothing is closed or no longer closed, and nobody falls asleep or wakes.
LEMMA SlotsSame ==
    ASSUME Slots, UNCHANGED sleeping,
           \A s \in Sockets : cend'[s] = "closed" <=> cend[s] = "closed"
    PROVE  Slots'
<1>1. \A c \in Clients : Unclosed(c)' = Unclosed(c)
  BY DEF Unclosed, OwnSockets
<1> QED BY <1>1 DEF Slots

\* A new socket takes the place of a slot that is free or was slept for.
LEMMA SlotsNew ==
    ASSUME Shape, Slots, NEW s \in Sockets, NewSocket(s),
           sleeping' \in [Clients -> Nat],
           \A c \in Clients : c # Owner[s] => sleeping'[c] <= sleeping[c],
           Owner[s] \in Clients =>
             sleeping'[Owner[s]] + Cardinality(Unclosed(Owner[s])) + 1 <= Cardinality(OwnSockets(Owner[s]))
    PROVE  Slots'
<1>1. cend[s] = "closed" /\ cend' = [cend EXCEPT ![s] = "connecting"]
  BY DEF NewSocket, Dead, Gone
<1> SUFFICES ASSUME NEW c \in Clients
             PROVE  sleeping'[c] + Cardinality(Unclosed(c)') <= Cardinality(OwnSockets(c))
  BY DEF Slots, OwnSockets
<1>2. /\ Cardinality(Unclosed(c)) \in Nat /\ IsFiniteSet(Unclosed(c))
      /\ Cardinality(OwnSockets(c)) \in Nat /\ sleeping[c] \in Nat /\ sleeping'[c] \in Nat
      /\ sleeping[c] + Cardinality(Unclosed(c)) <= Cardinality(OwnSockets(c))
  BY OwnFinite DEF Unclosed, Shape, Slots
<1>3. CASE Owner[s] = c
  <2>1. Unclosed(c)' = Unclosed(c) \cup {s} /\ s \notin Unclosed(c)
    BY <1>1, <1>3 DEF Unclosed, OwnSockets, Shape
  <2>2. Cardinality(Unclosed(c)') = Cardinality(Unclosed(c)) + 1
    BY <1>2, <2>1, FS_AddElement
  <2> QED BY <1>2, <1>3, <2>2
<1>4. CASE Owner[s] # c
  <2>1. Unclosed(c)' = Unclosed(c)
    BY <1>1, <1>4 DEF Unclosed, OwnSockets, Shape
  <2> QED BY <1>2, <1>4, <2>1
<1> QED BY <1>3, <1>4

\* The close of a socket pays for the reconnect it starts.
LEMMA SlotsClosed ==
    ASSUME Shape, Slots, NEW s \in Sockets, ClientClosed(s)
    PROVE  Slots'
<1>1. cend[s] # "closed" /\ cend' = [cend EXCEPT ![s] = "closed"]
  BY DEF ClientClosed
<1>2. /\ \A c \in Clients : c # Owner[s] => sleeping'[c] = sleeping[c]
      /\ Owner[s] \in Clients => sleeping'[Owner[s]] \in {sleeping[Owner[s]], sleeping[Owner[s]] + 1}
  BY DEF ClientClosed, Reconnect, Shape
<1> SUFFICES ASSUME NEW c \in Clients
             PROVE  sleeping'[c] + Cardinality(Unclosed(c)') <= Cardinality(OwnSockets(c))
  BY DEF Slots, OwnSockets
<1>3. /\ Cardinality(Unclosed(c)) \in Nat /\ IsFiniteSet(Unclosed(c))
      /\ Cardinality(OwnSockets(c)) \in Nat /\ sleeping[c] \in Nat
      /\ sleeping[c] + Cardinality(Unclosed(c)) <= Cardinality(OwnSockets(c))
  BY OwnFinite DEF Unclosed, Shape, Slots
<1>4. CASE Owner[s] = c
  <2>1. Unclosed(c)' = Unclosed(c) \ {s} /\ s \in Unclosed(c)
    BY <1>1, <1>4 DEF Unclosed, OwnSockets, Shape
  <2>2. Cardinality(Unclosed(c)') = Cardinality(Unclosed(c)) - 1
    BY <1>3, <2>1, FS_RemoveElement
  <2> QED BY <1>2, <1>3, <1>4, <2>2
<1>5. CASE Owner[s] # c
  <2>1. Unclosed(c)' = Unclosed(c)
    BY <1>1, <1>5 DEF Unclosed, OwnSockets, Shape
  <2> QED BY <1>2, <1>3, <1>5, <2>1
<1> QED BY <1>4, <1>5

\* Every step keeps the slots.
LEMMA StepSlots == ASSUME Shape, Shape', Slots, [LinkNext]_linkVars PROVE Slots'
<1> USE DEF link, client, table, requests
<1>1. ASSUME NEW c \in Clients, Connect(c) PROVE Slots'
  <2>1. PICK s \in OwnSockets(c) : NewSocket(s)
    BY <1>1 DEF Connect, ConnectCall
  <2>2. s \in Sockets /\ Owner[s] = c /\ sleeping' = sleeping /\ MayConnect(c)
    BY <1>1, <2>1 DEF Connect, OwnSockets
  <2>3. sleeping[c] + Cardinality(Unclosed(c)) + 1 <= Cardinality(OwnSockets(c))
    BY <2>2, RoomToConnect
  <2>4. sleeping' \in [Clients -> Nat] /\ \A d \in Clients : sleeping'[d] <= sleeping[d]
    BY <2>2 DEF Shape
  <2>5. sleeping'[c] + Cardinality(Unclosed(c)) + 1 <= Cardinality(OwnSockets(c))
    BY <2>2, <2>3
  <2> QED BY <2>1, <2>2, <2>4, <2>5, SlotsNew
<1>2. ASSUME NEW c \in Clients, Wake(c) PROVE Slots'
  <2>1. /\ sleeping \in [Clients -> Nat] /\ sleeping[c] > 0
        /\ sleeping' = [sleeping EXCEPT ![c] = sleeping[c] - 1]
    BY <1>2 DEF Wake, Shape
  <2>2. CASE intentional[c]
    <3>1. \A d \in Clients : Unclosed(d)' = Unclosed(d)
      BY <1>2, <2>2 DEF Wake, Unclosed, OwnSockets
    <3>2. \A d \in Clients : /\ Cardinality(Unclosed(d)) \in Nat /\ Cardinality(OwnSockets(d)) \in Nat
                             /\ sleeping'[d] \in Nat /\ sleeping[d] \in Nat /\ sleeping'[d] <= sleeping[d]
      BY <2>1, OwnFinite DEF Unclosed
    <3> QED BY <3>1, <3>2 DEF Slots, OwnSockets
  <2>3. CASE ~intentional[c]
    <3>1. PICK s \in OwnSockets(c) : NewSocket(s)
      BY <1>2, <2>3 DEF Wake, ConnectCall
    <3>2. s \in Sockets /\ Owner[s] = c
      BY <3>1 DEF OwnSockets
    <3>3. /\ sleeping' \in [Clients -> Nat] /\ \A d \in Clients : d # c => sleeping'[d] <= sleeping[d]
          /\ sleeping'[c] + 1 = sleeping[c]
      BY <2>1
    <3>4. Cardinality(Unclosed(c)) \in Nat /\ Cardinality(OwnSockets(c)) \in Nat
      BY OwnFinite DEF Unclosed
    <3>5. sleeping'[c] + Cardinality(Unclosed(c)) + 1 <= Cardinality(OwnSockets(c))
      BY <2>1, <3>3, <3>4 DEF Slots
    <3> QED BY <3>1, <3>2, <3>3, <3>5, SlotsNew
  <2> QED BY <2>2, <2>3
<1>3. ASSUME NEW a \in LinkAgents, PeerConnects(a) PROVE Slots'
  <2>1. PICK s \in OwnSockets(a) : NewSocket(s)
    BY <1>3 DEF PeerConnects
  <2>2. s \in Sockets /\ Owner[s] = a /\ a \notin Clients /\ sleeping' = sleeping
    BY <1>3, <2>1 DEF PeerConnects, OwnSockets
  <2>3. sleeping' \in [Clients -> Nat] /\ \A d \in Clients : sleeping'[d] <= sleeping[d]
    BY <2>2 DEF Shape
  <2> QED BY <2>1, <2>2, <2>3, SlotsNew
<1>4. ASSUME NEW s \in Sockets, ClientOpen(s) PROVE Slots'
  <2>1. UNCHANGED sleeping /\ \A t \in Sockets : cend'[t] = "closed" <=> cend[t] = "closed"
    BY <1>4 DEF ClientOpen, Shape
  <2> QED BY <2>1, SlotsSame
<1>5. ASSUME NEW c \in Clients, Disconnect(c) PROVE Slots'
  <2>1. UNCHANGED sleeping /\ \A t \in Sockets : cend'[t] = "closed" <=> cend[t] = "closed"
    BY <1>5 DEF Disconnect, Closing, Shape
  <2> QED BY <2>1, SlotsSame
<1>6. ASSUME UNCHANGED <<cend, sleeping>> PROVE Slots'
  BY <1>6, SlotsSame
<1>7. ASSUME NEW c \in Clients, SendNote(c) \/ \E r \in LinkRequests : Request(c, r) PROVE Slots'
  BY <1>6, <1>7 DEF SendNote, Request
<1>8. ASSUME NEW s \in Sockets,
             Refuse(s) \/ ServerOpen(s) \/ ServerClosed(s) \/ ServerReceive(s) \/ ClientReceive(s)
               \/ PeerReceives(s)
      PROVE  Slots'
  BY <1>6, <1>8 DEF Refuse, ServerOpen, ServerClosed, ServerReceive, ClientReceive, PeerReceives
<1>9. CASE StartServer \/ StopServer \/ CheckHeartbeats \/ (\E r \in LinkRequests : LinkTimeout(r))
             \/ UNCHANGED linkVars
  BY <1>6, <1>9 DEF StartServer, StopServer, CheckHeartbeats, LinkTimeout, linkVars
<1> QED
  BY <1>1, <1>2, <1>3, <1>4, <1>5, <1>7, <1>8, <1>9, SlotsClosed DEF LinkNext

-----------------------------------------------------------------------------
(* The server's tables *)

\* The tables stay, and so do the sockets they name.
LEMMA TabledSame ==
    ASSUME Shape, Tabled, UNCHANGED <<entry, members>>,
           \A s \in Sockets : send[s] \in {"open", "closing"} => send'[s] \in {"open", "closing"}
    PROVE  Tabled'
<1>1. \A a \in LinkAgents : EntryServed(a) => EntryServed(a)'
  BY DEF EntryServed, Shape
<1>2. \A c \in Channels, a \in LinkAgents : MemberServed(a, c) => MemberServed(a, c)'
  BY DEF MemberServed, OwnSockets, KeepsTo
<1> QED BY <1>1, <1>2 DEF Tabled

\* A socket object that is used again was in no entry.
LEMMA NewSocketTabled ==
    ASSUME Shape, NEW s \in Sockets, NewSocket(s)
    PROVE  \A t \in Sockets : send[t] \in {"open", "closing"} => send'[t] \in {"open", "closing"}
  BY DEF NewSocket, Dead, Gone, Shape

LEMMA StepTabled == ASSUME Shape, Tabled, [LinkNext]_linkVars PROVE Tabled'
<1> USE DEF link, client, table, requests
<1>1. ASSUME UNCHANGED <<entry, members, send>> PROVE Tabled'
  BY <1>1, TabledSame
<1>2. ASSUME NEW c \in Clients,
             Connect(c) \/ Wake(c) \/ Disconnect(c) \/ SendNote(c) \/ \E r \in LinkRequests : Request(c, r)
      PROVE  Tabled'
  <2>1. UNCHANGED <<entry, members>> /\ (send' = send \/ \E s \in Sockets : NewSocket(s))
    BY <1>2 DEF Connect, Wake, Disconnect, SendNote, Request, ConnectCall, OwnSockets
  <2> QED BY <1>1, <2>1, TabledSame, NewSocketTabled
<1>3. ASSUME NEW a \in LinkAgents, PeerConnects(a) PROVE Tabled'
  <2>1. UNCHANGED <<entry, members>> /\ \E s \in Sockets : NewSocket(s)
    BY <1>3 DEF PeerConnects, OwnSockets
  <2> QED BY <2>1, TabledSame, NewSocketTabled
<1>4. ASSUME NEW s \in Sockets,
             ServerReceive(s) \/ ClientOpen(s) \/ ClientClosed(s) \/ ClientReceive(s) \/ PeerReceives(s)
      PROVE  Tabled'
  <2>1. CASE ClientClosed(s)
    <3>1. UNCHANGED <<entry, members>>
          /\ \A t \in Sockets : send[t] \in {"open", "closing"} => send'[t] = send[t]
      BY <2>1 DEF ClientClosed, Gone, Shape
    <3> QED BY <3>1, TabledSame
  <2>2. CASE ~ClientClosed(s)
    BY <1>1, <1>4, <2>2 DEF ServerReceive, ClientOpen, ClientReceive, PeerReceives
  <2> QED BY <2>1, <2>2
<1>5. CASE StartServer \/ (\E r \in LinkRequests : LinkTimeout(r)) \/ UNCHANGED linkVars
  BY <1>1, <1>5 DEF StartServer, LinkTimeout, linkVars
<1>6. CASE StopServer
  <2>1. \A a \in LinkAgents : entry'[a].sock = NoSocket /\ ~entry'[a].connected
    BY <1>6 DEF StopServer, NoEntry
  <2>2. \A c \in Channels : members'[c] = {}
    BY <1>6 DEF StopServer
  <2> QED BY <2>1, <2>2 DEF Tabled, EntryServed
<1>7. CASE CheckHeartbeats
  <2>1. PICK silent \in SUBSET LinkAgents :
          /\ entry' = [a \in LinkAgents |-> IF a \in silent
                         THEN [entry[a] EXCEPT !.connected = FALSE] ELSE entry[a]]
          /\ send' = [s \in Sockets |-> IF \E a \in silent : entry[a].sock = s
                                        THEN "closing" ELSE send[s]]
    BY <1>7 DEF CheckHeartbeats
  <2>2. \A a \in LinkAgents : /\ entry'[a].sock = entry[a].sock
                              /\ entry'[a].connected => entry[a].connected
    BY <2>1 DEF Shape
  <2>3. \A s \in Sockets : send[s] \in {"open", "closing"} => send'[s] \in {"open", "closing"}
    BY <2>1
  <2>4. members' = members
    BY <1>7 DEF CheckHeartbeats
  <2>5. \A a \in LinkAgents : EntryServed(a) => EntryServed(a)'
    BY <2>2, <2>3, <2>4 DEF EntryServed, Shape
  <2>6. \A c \in Channels, a \in LinkAgents : MemberServed(a, c) => MemberServed(a, c)'
    BY <2>2, <2>3 DEF MemberServed, OwnSockets, KeepsTo
  <2> QED BY <2>4, <2>5, <2>6 DEF Tabled
<1>8. ASSUME NEW s \in Sockets, Refuse(s) PROVE Tabled'
  <2>1. UNCHANGED <<entry, members>> /\ \A t \in Sockets : send[t] \in {"open", "closing"} => send'[t] = send[t]
    BY <1>8 DEF Refuse, Shape
  <2> QED BY <2>1, TabledSame
<1>9. ASSUME NEW s \in Sockets, ServerOpen(s) PROVE Tabled'
  <2>1. /\ \A a \in LinkAgents : entry'[a] = IF a = Owner[s] THEN [sock |-> s, connected |-> TRUE] ELSE entry[a]
        /\ \A t \in Sockets : send'[t] = IF t = s THEN "open" ELSE send[t]
        /\ \A c \in Channels : members'[c] = IF c = ChannelOf[s] THEN members[c] \cup {Owner[s]} ELSE members[c]
        /\ send[s] = "none" /\ s # NoSocket
    BY <1>9, LinkConstants DEF ServerOpen, Shape
  <2>2. Owner[s] \in LinkAgents /\ ChannelOf \in [Sockets -> Channels]
    BY LinkConstants
  <2>3. ASSUME NEW a \in LinkAgents PROVE EntryServed(a)'
    <3>1. CASE a = Owner[s]
      <4>1. entry'[a].sock = s /\ a \in members'[ChannelOf[s]] /\ send'[s] = "open"
        <5>1. ChannelOf[s] \in Channels /\ members'[ChannelOf[s]] = members[ChannelOf[s]] \cup {a}
          BY <2>1, <2>2, <3>1
        <5>2. entry'[a] = [sock |-> s, connected |-> TRUE]
          BY <2>1, <3>1
        <5> QED BY <2>1, <5>1, <5>2
      <4> QED BY <3>1, <4>1, <2>1 DEF EntryServed
    <3>2. CASE a # Owner[s]
      <4>1. entry'[a] = entry[a] /\ entry[a].sock \in Sockets \cup {NoSocket} /\ EntryServed(a)
        BY <2>1, <3>2 DEF Shape, Tabled
      <4>2. \A c \in Channels : members[c] \subseteq members'[c]
        BY <2>1
      <4>3. entry[a].sock \in Sockets => /\ ChannelOf[entry[a].sock] \in Channels
                                         /\ send[entry[a].sock] = "open" => send'[entry[a].sock] = "open"
                                         /\ send[entry[a].sock] = "closing" => send'[entry[a].sock] = "closing"
        BY <2>1, <2>2
      <4> QED BY <4>1, <4>2, <4>3 DEF EntryServed
    <3> QED BY <3>1, <3>2
  <2>4. ASSUME NEW c \in Channels, NEW a \in LinkAgents, a \in members'[c] PROVE MemberServed(a, c)'
    <3>1. CASE a = Owner[s] /\ c = ChannelOf[s]
      <4>1. s \in OwnSockets(a) /\ ChannelOf[s] = c /\ send'[s] = "open" /\ entry'[a].sock # NoSocket
        BY <2>1, <3>1 DEF OwnSockets
      <4> QED BY <4>1 DEF MemberServed, OwnSockets
    <3>2. CASE ~(a = Owner[s] /\ c = ChannelOf[s])
      <4>1. MemberServed(a, c)
        <5>1. a \in members[c]
          <6>1. members'[c] = IF c = ChannelOf[s] THEN members[c] \cup {Owner[s]} ELSE members[c]
            BY <2>1
          <6> QED BY ONLY <2>4, <3>2, <6>1
        <5> QED BY <5>1 DEF Tabled
      <4>2. entry[a].sock # NoSocket => entry'[a].sock # NoSocket
        BY <2>1
      <4> QED BY <2>1, <4>1, <4>2 DEF MemberServed, OwnSockets, KeepsTo
    <3> QED BY <3>1, <3>2
  <2> QED BY <2>3, <2>4 DEF Tabled
<1>10. ASSUME NEW s \in Sockets, ServerClosed(s) PROVE Tabled'
  <2>1. /\ \A a \in LinkAgents : entry'[a] = IF a = Owner[s] THEN NoEntry ELSE entry[a]
        /\ \A t \in Sockets : t # s => send'[t] = send[t]
        /\ \A c \in Channels : members'[c] = IF c = ChannelOf[s] THEN members[c] \ {Owner[s]} ELSE members[c]
    BY <1>10 DEF ServerClosed, Forgotten, Shape
  <2>2. \A t \in Sockets : ChannelOf[t] \in Channels
    BY LinkConstants
  <2>3. ASSUME NEW a \in LinkAgents PROVE EntryServed(a)'
    <3>1. CASE a = Owner[s]
      BY <2>1, <3>1 DEF EntryServed, NoEntry
    <3>2. CASE a # Owner[s]
      <4>1. entry'[a] = entry[a] /\ entry[a].sock \in Sockets \cup {NoSocket} /\ EntryServed(a)
        BY <2>1, <3>2 DEF Shape, Tabled
      <4>2. \A c \in Channels : a \in members[c] => a \in members'[c]
        BY <2>1, <3>2
      <4>3. entry[a].sock # NoSocket => entry[a].sock # s
        BY <3>2, <4>1 DEF EntryServed
      <4> QED BY <2>1, <2>2, <4>1, <4>2, <4>3 DEF EntryServed
    <3> QED BY <3>1, <3>2
  <2>4. ASSUME NEW c \in Channels, NEW a \in LinkAgents, a \in members'[c] PROVE MemberServed(a, c)'
    <3>1. a \in members[c] /\ ~(a = Owner[s] /\ c = ChannelOf[s]) /\ MemberServed(a, c)
      BY <2>1, <2>4 DEF Tabled
    <3>2. \E t \in OwnSockets(a) : ChannelOf[t] = c /\ send'[t] \in {"open", "closing"}
      BY <2>1, <3>1 DEF MemberServed, OwnSockets
    <3>3. KeepsTo(a, c) => a # Owner[s]
      BY <3>1 DEF KeepsTo, OwnSockets
    <3>4. KeepsTo(a, c) => entry'[a].sock # NoSocket
      BY <2>1, <3>1, <3>3 DEF MemberServed
    <3> QED BY <3>2, <3>4 DEF MemberServed, OwnSockets, KeepsTo
  <2> QED BY <2>3, <2>4 DEF Tabled
<1> QED
  BY <1>2, <1>3, <1>4, <1>5, <1>6, <1>7, <1>8, <1>9, <1>10 DEF LinkNext

-----------------------------------------------------------------------------
(* Orderly agents *)

\* An orderly agent that may connect has nothing alive.
LEMMA OrderlyConnects ==
    ASSUME Shape, orderly, NEW a, MayConnect(a)
    PROVE  /\ \A s \in OwnSockets(a) : Dead(s)
           /\ a \in Clients => sleeping[a] = 0
<1> DEFINE alive == {t \in OwnSockets(a) : ~Dead(t)}
<1>1. Cardinality(alive) \in Nat /\ IsFiniteSet(alive) /\ Asleep(a) \in Nat
  BY OwnFinite DEF Asleep, Shape
<1>2. Cardinality(alive) + Asleep(a) < 1
  BY DEF MayConnect, Alive
<1> HIDE DEF alive
<1>3. Cardinality(alive) = 0 /\ Asleep(a) = 0
  BY <1>1, <1>2
<1>4. alive = {}
  BY <1>1, <1>3, FS_EmptySet
<1> QED BY <1>3, <1>4 DEF alive, Asleep

\* A socket is as alive as before, or less.
LEMMA SingleSame ==
    ASSUME Single, \A s \in Sockets : Dead(s) => Dead(s)',
           \A c \in Clients : sleeping'[c] = sleeping[c]
    PROVE  Single'
  BY DEF Single, OwnSockets

\* Of an owner who had nothing alive, the new socket is the only one.
LEMMA SingleNew ==
    ASSUME Shape, Single, NEW s \in Sockets, NewSocket(s),
           \A t \in OwnSockets(Owner[s]) : Dead(t),
           \A c \in Clients : c # Owner[s] => sleeping'[c] = sleeping[c],
           Owner[s] \in Clients => sleeping'[Owner[s]] = 0
    PROVE  Single'
<1>1. \A t \in Sockets : t # s => (Dead(t)' <=> Dead(t))
  BY DEF NewSocket, Dead, Gone, Shape
<1>2. \A t \in Sockets : Owner[t] = Owner[s] => Dead(t)
  BY DEF OwnSockets
<1> QED BY <1>1, <1>2 DEF Single, OwnSockets

\* The reconnect of an orderly client takes the place of its socket.
LEMMA SingleClosed ==
    ASSUME Shape, Single, orderly, NEW s \in Sockets, ClientClosed(s)
    PROVE  Single'
<1>1. /\ ~Dead(s) /\ Dead(s)' /\ \A t \in Sockets : t # s => (Dead(t)' <=> Dead(t))
  BY DEF ClientClosed, Dead, Gone, Shape
<1>2. /\ \A c \in Clients : c # Owner[s] => sleeping'[c] = sleeping[c]
      /\ Owner[s] \in Clients => sleeping'[Owner[s]] \in {sleeping[Owner[s]], sleeping[Owner[s]] + 1}
  BY DEF ClientClosed, Reconnect, Shape
<1>3. Owner[s] \in Clients => sleeping[Owner[s]] = 0
  <2> SUFFICES ASSUME Owner[s] \in Clients, sleeping[Owner[s]] # 0 PROVE FALSE
    OBVIOUS
  <2>1. sleeping[Owner[s]] > 0 /\ s \in OwnSockets(Owner[s])
    BY DEF Shape, OwnSockets
  <2> QED BY <1>1, <2>1 DEF Single
<1>4. \A t \in Sockets : Owner[t] = Owner[s] => Dead(t)'
  BY <1>1 DEF Single
<1>5. \A t, u \in Sockets : Owner[t] = Owner[u] /\ ~Dead(t)' /\ ~Dead(u)' => t = u
  BY <1>1 DEF Single
<1>6. ASSUME NEW c \in Clients, sleeping'[c] > 0
      PROVE  sleeping'[c] = 1 /\ \A t \in OwnSockets(c) : Dead(t)'
  <2>1. CASE c = Owner[s]
    BY <1>2, <1>3, <1>4, <1>6, <2>1 DEF OwnSockets
  <2>2. CASE c # Owner[s]
    <3>1. sleeping[c] > 0 /\ sleeping'[c] = sleeping[c]
      BY <1>2, <1>6, <2>2
    <3> QED BY <1>1, <3>1, <2>2 DEF Single, OwnSockets
  <2> QED BY <2>1, <2>2
<1> QED BY <1>5, <1>6 DEF Single, OwnSockets

LEMMA StepSingle ==
    ASSUME Shape, Tabled, Single, orderly, [LinkNext]_linkVars
    PROVE  Single'
<1> USE DEF link, client, table, requests
<1>1. ASSUME NEW c \in Clients, Connect(c) PROVE Single'
  <2>1. PICK s \in Sockets : NewSocket(s) /\ Owner[s] = c
    BY <1>1 DEF Connect, ConnectCall, OwnSockets
  <2>2. sleeping' = sleeping /\ sleeping[c] = 0 /\ \A t \in OwnSockets(c) : Dead(t)
    BY <1>1, OrderlyConnects DEF Connect
  <2> QED BY <2>1, <2>2, SingleNew
<1>2. ASSUME NEW c \in Clients, Wake(c) PROVE Single'
  <2>1. /\ sleeping[c] = 1 /\ \A t \in OwnSockets(c) : Dead(t)
        /\ sleeping'[c] = 0 /\ \A d \in Clients : d # c => sleeping'[d] = sleeping[d]
    BY <1>2 DEF Wake, Single, Shape
  <2>2. CASE intentional[c]
    <3>1. UNCHANGED <<cend, send>>
      BY <1>2, <2>2 DEF Wake
    <3> QED BY <2>1, <3>1 DEF Single, Dead, Gone, OwnSockets
  <2>3. CASE ~intentional[c]
    <3>1. PICK s \in Sockets : NewSocket(s) /\ Owner[s] = c
      BY <1>2, <2>3 DEF Wake, ConnectCall, OwnSockets
    <3> QED BY <2>1, <3>1, SingleNew
  <2> QED BY <2>2, <2>3
<1>3. ASSUME NEW a \in LinkAgents, PeerConnects(a) PROVE Single'
  <2>1. PICK s \in Sockets : NewSocket(s) /\ Owner[s] = a
    BY <1>3 DEF PeerConnects, OwnSockets
  <2>2. sleeping' = sleeping /\ a \notin Clients /\ \A t \in OwnSockets(a) : Dead(t)
    BY <1>3, OrderlyConnects DEF PeerConnects
  <2> QED BY <2>1, <2>2, SingleNew
<1>4. ASSUME NEW s \in Sockets, ClientOpen(s) PROVE Single'
  <2>1. sleeping' = sleeping /\ \A t \in Sockets : Dead(t) => Dead(t)'
    BY <1>4 DEF ClientOpen, Dead, Gone, Shape
  <2> QED BY <2>1, SingleSame
<1>5. ASSUME NEW c \in Clients, Disconnect(c) PROVE Single'
  <2>1. sleeping' = sleeping /\ \A t \in Sockets : Dead(t) => Dead(t)'
    BY <1>5 DEF Disconnect, Closing, Dead, Gone, Shape
  <2> QED BY <2>1, SingleSame
<1>6. ASSUME NEW s \in Sockets, Refuse(s) \/ ServerOpen(s) \/ ServerClosed(s) PROVE Single'
  <2>1. sleeping' = sleeping /\ \A t \in Sockets : Dead(t) => Dead(t)'
    BY <1>6 DEF Refuse, ServerOpen, ServerClosed, Dead, Gone, Shape
  <2> QED BY <2>1, SingleSame
<1>7. CASE StopServer
  <2>1. sleeping' = sleeping /\ \A t \in Sockets : Dead(t) => Dead(t)'
    BY <1>7 DEF StopServer, Dead, Gone, Shape
  <2> QED BY <2>1, SingleSame
<1>8. CASE CheckHeartbeats
  <2>1. \A t \in Sockets : send'[t] # send[t] => send[t] \in {"open", "closing"}
    <3>1. PICK silent \in SUBSET {a \in LinkAgents : entry[a].connected} :
            send' = [s \in Sockets |-> IF \E a \in silent : entry[a].sock = s
                                       THEN "closing" ELSE send[s]]
      BY <1>8 DEF CheckHeartbeats
    <3> QED BY <3>1 DEF Tabled, EntryServed
  <2>2. sleeping' = sleeping /\ \A t \in Sockets : Dead(t) => Dead(t)'
    BY <1>8, <2>1 DEF CheckHeartbeats, Dead, Gone
  <2> QED BY <2>2, SingleSame
<1>9. ASSUME UNCHANGED <<cend, send, sleeping>> PROVE Single'
  BY <1>9, SingleSame DEF Dead, Gone
<1>10. ASSUME NEW s \in Sockets, ServerReceive(s) \/ ClientReceive(s) \/ PeerReceives(s)
       PROVE  Single'
  BY <1>9, <1>10 DEF ServerReceive, ClientReceive, PeerReceives
<1>11. ASSUME NEW c \in Clients, SendNote(c) \/ \E r \in LinkRequests : Request(c, r) PROVE Single'
  BY <1>9, <1>11 DEF SendNote, Request
<1>12. CASE StartServer \/ (\E r \in LinkRequests : LinkTimeout(r)) \/ UNCHANGED linkVars
  BY <1>9, <1>12 DEF StartServer, LinkTimeout, linkVars
<1> QED
  BY <1>1, <1>2, <1>3, <1>4, <1>5, <1>6, <1>7, <1>8, <1>10, <1>11, <1>12, SingleClosed DEF LinkNext

-----------------------------------------------------------------------------
(* What an orderly client holds, and the server lists *)

\* The entries stay, no socket becomes open at the server, none begins to connect or
\* loses its place in ws, and no heartbeat starts or loses its socket.
LEMMA CurrentSame ==
    ASSUME Current, UNCHANGED <<entry, ws>>,
           \A s \in Sockets : send'[s] = "open" => send[s] = "open",
           \A s \in Sockets : cend'[s] \in {"connecting", "open"} => cend[s] \in {"connecting", "open"},
           \A c \in Clients : hb'[c] => hb[c] /\ (IsOpen(ws[c]) => IsOpen(ws[c])')
    PROVE  Current'
  BY DEF Current

\* A client that had nothing alive connects.
LEMMA CurrentNew ==
    ASSUME Shape, Current, NEW c \in Clients, NEW s \in OwnSockets(c), ConnectCall(c, s),
           \A t \in OwnSockets(c) : Dead(t), UNCHANGED <<entry, hb>>
    PROVE  Current'
<1>1. /\ s \in Sockets /\ Owner[s] = c /\ NewSocket(s)
      /\ \A d \in Clients : ws'[d] = IF d = c THEN s ELSE ws[d]
  BY DEF ConnectCall, OwnSockets, Shape
<1>2. /\ \A t \in Sockets : t # s => cend'[t] = cend[t] /\ send'[t] = send[t]
      /\ cend'[s] = "connecting" /\ send'[s] = "none"
  BY <1>1 DEF NewSocket, Shape
<1>3. \A t \in Sockets : Owner[t] = c => cend[t] = "closed"
  BY DEF Dead, Gone, OwnSockets
<1>4. ~hb[c]
  <2> SUFFICES ASSUME hb[c] PROVE FALSE
    BY DEF Shape
  <2>1. ws[c] \in Sockets /\ cend[ws[c]] = "open"
    BY DEF Current, IsOpen
  <2>2. Owner[ws[c]] = c
    BY <2>1, LinkConstants DEF Current
  <2> QED BY <1>3, <2>1, <2>2
<1>5. \A t \in Sockets : send'[t] = "open" => entry'[Owner[t]] = [sock |-> t, connected |-> TRUE]
  BY <1>2 DEF Current
<1>6. \A t \in Sockets : Owner[t] \in Clients /\ cend'[t] \in {"connecting", "open"} => ws'[Owner[t]] = t
  BY <1>1, <1>2, <1>3 DEF Current
<1>7. ASSUME NEW d \in Clients
      PROVE  (ws'[d] # NoSocket => Owner[ws'[d]] = d) /\ (hb'[d] => IsOpen(ws[d])')
  <2>1. CASE d = c
    BY <1>1, <1>4, <2>1
  <2>2. CASE d # c
    <3>1. ws'[d] = ws[d] /\ (ws[d] # NoSocket => Owner[ws[d]] = d)
      BY <1>1, <2>2 DEF Current
    <3>2. IsOpen(ws[d]) => ws[d] # NoSocket /\ ws[d] # s
      BY <1>1, <1>2, <2>2, <3>1, LinkConstants DEF IsOpen
    <3> QED BY <1>2, <3>1, <3>2 DEF Current, IsOpen
  <2> QED BY <2>1, <2>2
<1> QED BY <1>5, <1>6, <1>7 DEF Current

\* A socket of a peer says nothing of the clients.
LEMMA CurrentPeer ==
    ASSUME Shape, Current, NEW s \in Sockets, NewSocket(s), Owner[s] \notin Clients,
           UNCHANGED <<entry, ws, hb>>
    PROVE  Current'
<1>1. /\ \A t \in Sockets : t # s => cend'[t] = cend[t] /\ send'[t] = send[t]
      /\ cend'[s] = "connecting" /\ send'[s] = "none"
  BY DEF NewSocket, Shape
<1>2. \A c \in Clients : ws[c] # s
  BY LinkConstants DEF Current
<1> QED BY <1>1, <1>2 DEF Current, IsOpen

LEMMA StepCurrent ==
    ASSUME Shape, Tabled, Single, Current, orderly, [LinkNext]_linkVars
    PROVE  Current'
<1> USE DEF link, client, table, requests
<1>1. ASSUME NEW c \in Clients, Connect(c) PROVE Current'
  <2>1. PICK s \in OwnSockets(c) : ConnectCall(c, s)
    BY <1>1 DEF Connect
  <2>2. UNCHANGED <<entry, hb>> /\ \A t \in OwnSockets(c) : Dead(t)
    BY <1>1, OrderlyConnects DEF Connect
  <2> QED BY <2>1, <2>2, CurrentNew
<1>2. ASSUME NEW c \in Clients, Wake(c) PROVE Current'
  <2>1. CASE intentional[c]
    BY <1>2, <2>1, CurrentSame DEF Wake, IsOpen
  <2>2. CASE ~intentional[c]
    <3>1. PICK s \in OwnSockets(c) : ConnectCall(c, s)
      BY <1>2, <2>2 DEF Wake
    <3>2. UNCHANGED <<entry, hb>> /\ \A t \in OwnSockets(c) : Dead(t)
      BY <1>2 DEF Wake, Single
    <3> QED BY <3>1, <3>2, CurrentNew
  <2> QED BY <2>1, <2>2
<1>3. ASSUME NEW a \in LinkAgents, PeerConnects(a) PROVE Current'
  <2>1. PICK s \in Sockets : NewSocket(s) /\ Owner[s] = a
    BY <1>3 DEF PeerConnects, OwnSockets
  <2> QED BY <1>3, <2>1, CurrentPeer DEF PeerConnects
<1>4. ASSUME NEW s \in Sockets, ClientOpen(s) PROVE Current'
  <2>1. /\ cend[s] = "connecting" /\ \A t \in Sockets : cend'[t] = IF t = s THEN "open" ELSE cend[t]
        /\ \A c \in Clients : hb'[c] = IF c = Owner[s] THEN TRUE ELSE hb[c]
        /\ UNCHANGED <<entry, ws, send>>
    BY <1>4 DEF ClientOpen, Shape
  <2>2. Owner[s] \in Clients => ws[Owner[s]] = s
    BY <2>1 DEF Current
  <2>3. \A c \in Clients : hb'[c] => IsOpen(ws[c])'
    <3> SUFFICES ASSUME NEW c \in Clients, hb'[c] PROVE ws[c] \in Sockets /\ cend'[ws[c]] = "open"
      BY <2>1 DEF IsOpen
    <3>1. CASE c = Owner[s]
      BY <2>1, <2>2, <3>1
    <3>2. CASE c # Owner[s]
      <4>1. ws[c] \in Sockets /\ cend[ws[c]] = "open"
        BY <2>1, <3>2 DEF Current, IsOpen
      <4> QED BY <2>1, <4>1
    <3> QED BY <3>1, <3>2
  <2>4. \A t \in Sockets : Owner[t] \in Clients /\ cend'[t] \in {"connecting", "open"} => ws'[Owner[t]] = t
    BY <2>1, <2>2 DEF Current
  <2> QED BY <2>1, <2>3, <2>4 DEF Current
<1>5. ASSUME NEW s \in Sockets, ClientClosed(s) PROVE Current'
  <2>1. /\ \A t \in Sockets : cend'[t] = IF t = s THEN "closed" ELSE cend[t]
        /\ \A c \in Clients : hb'[c] = IF c = Owner[s] THEN FALSE ELSE hb[c]
        /\ UNCHANGED <<entry, ws>> /\ \A t \in Sockets : send'[t] = "open" => send[t] = "open"
    BY <1>5 DEF ClientClosed, StopHeartbeat, Shape
  <2>2. \A c \in Clients : hb'[c] => hb[c] /\ (IsOpen(ws[c]) => IsOpen(ws[c])')
    <3> SUFFICES ASSUME NEW c \in Clients, hb'[c] PROVE hb[c] /\ (IsOpen(ws[c]) => IsOpen(ws[c])')
      OBVIOUS
    <3>1. c # Owner[s] /\ hb[c]
      BY <2>1
    <3>2. ws[c] # s
      BY <3>1, LinkConstants DEF Current
    <3> QED BY <2>1, <3>1, <3>2 DEF IsOpen
  <2> QED BY <2>1, <2>2, CurrentSame
<1>6. ASSUME NEW c \in Clients, Disconnect(c) PROVE Current'
  <2>1. /\ UNCHANGED <<entry, send>>
        /\ \A d \in Clients : ws'[d] = IF d = c THEN NoSocket ELSE ws[d]
        /\ \A d \in Clients : hb'[d] = IF d = c THEN FALSE ELSE hb[d]
        /\ \A t \in Sockets : cend'[t] = IF t = ws[c] /\ cend[t] \in {"connecting", "open"}
                                         THEN "closing" ELSE cend[t]
    BY <1>6, LinkConstants DEF Disconnect, StopHeartbeat, Closing, Shape
  <2>2. \A t \in Sockets : Owner[t] \in Clients /\ cend'[t] \in {"connecting", "open"} => ws'[Owner[t]] = t
    BY <2>1 DEF Current
  <2>3. ASSUME NEW d \in Clients
        PROVE  (ws'[d] # NoSocket => Owner[ws'[d]] = d) /\ (hb'[d] => IsOpen(ws[d])')
    <3>1. CASE d = c
      BY <2>1, <3>1
    <3>2. CASE d # c
      <4>1. ws'[d] = ws[d] /\ hb'[d] = hb[d] /\ (ws[d] # NoSocket => Owner[ws[d]] = d)
        BY <2>1, <3>2 DEF Current
      <4>2. IsOpen(ws[d]) => ws[d] # NoSocket /\ ws[d] # ws[c]
        BY <3>2, <4>1, LinkConstants DEF IsOpen, Current
      <4> QED BY <2>1, <4>1, <4>2 DEF Current, IsOpen
    <3> QED BY <3>1, <3>2
  <2> QED BY <2>1, <2>2, <2>3 DEF Current
<1>7. ASSUME NEW s \in Sockets, Refuse(s) PROVE Current'
  <2>1. UNCHANGED <<entry, ws, cend, hb>> /\ \A t \in Sockets : send'[t] = "open" => send[t] = "open"
    BY <1>7 DEF Refuse, Shape
  <2> QED BY <2>1, CurrentSame DEF IsOpen
<1>8. ASSUME NEW s \in Sockets, ServerOpen(s) PROVE Current'
  <2>1. /\ \A a \in LinkAgents : entry'[a] = IF a = Owner[s] THEN [sock |-> s, connected |-> TRUE] ELSE entry[a]
        /\ \A t \in Sockets : send'[t] = IF t = s THEN "open" ELSE send[t]
        /\ ~Dead(s) /\ UNCHANGED <<cend, ws, hb>>
    BY <1>8 DEF ServerOpen, Dead, Gone, Shape
  <2>2. \A t \in Sockets : t # s /\ Owner[t] = Owner[s] => send[t] # "open"
    BY <2>1 DEF Single, Dead, Gone
  <2>3. \A t \in Sockets : Owner[t] \in LinkAgents
    BY LinkConstants
  <2>4. \A t \in Sockets : send'[t] = "open" => entry'[Owner[t]] = [sock |-> t, connected |-> TRUE]
    BY <2>1, <2>2, <2>3 DEF Current
  <2> QED BY <2>1, <2>4 DEF Current, IsOpen
<1>9. ASSUME NEW s \in Sockets, ServerClosed(s) PROVE Current'
  <2>1. /\ \A a \in LinkAgents : a # Owner[s] => entry'[a] = entry[a]
        /\ send'[s] # "open" /\ \A t \in Sockets : t # s => send'[t] = send[t]
        /\ ~Dead(s) /\ UNCHANGED <<cend, ws, hb>>
    BY <1>9 DEF ServerClosed, Forgotten, Dead, Gone, Shape
  <2>2. \A t \in Sockets : t # s /\ Owner[t] = Owner[s] => send[t] # "open"
    BY <2>1 DEF Single, Dead, Gone
  <2>3. \A t \in Sockets : Owner[t] \in LinkAgents
    BY LinkConstants
  <2>4. \A t \in Sockets : send'[t] = "open" => entry'[Owner[t]] = [sock |-> t, connected |-> TRUE]
    BY <2>1, <2>2, <2>3 DEF Current
  <2> QED BY <2>1, <2>4 DEF Current, IsOpen
<1>10. CASE StopServer
  <2>1. /\ \A t \in Sockets : send'[t] # "open"
        /\ UNCHANGED <<cend, ws, hb>>
    BY <1>10 DEF StopServer
  <2> QED BY <2>1 DEF Current, IsOpen
<1>11. CASE CheckHeartbeats
  <2>1. PICK silent \in SUBSET LinkAgents :
          /\ entry' = [a \in LinkAgents |-> IF a \in silent
                         THEN [entry[a] EXCEPT !.connected = FALSE] ELSE entry[a]]
          /\ send' = [s \in Sockets |-> IF \E a \in silent : entry[a].sock = s
                                        THEN "closing" ELSE send[s]]
    BY <1>11 DEF CheckHeartbeats
  <2>2. UNCHANGED <<cend, ws, hb>>
    BY <1>11 DEF CheckHeartbeats
  <2>3. ASSUME NEW t \in Sockets, send'[t] = "open"
        PROVE  entry'[Owner[t]] = [sock |-> t, connected |-> TRUE]
    <3>1. send[t] = "open" /\ ~\E a \in silent : entry[a].sock = t
      BY <2>1, <2>3
    <3>2. entry[Owner[t]] = [sock |-> t, connected |-> TRUE] /\ Owner[t] \in LinkAgents
      BY <3>1, LinkConstants DEF Current
    <3>3. Owner[t] \notin silent
      BY <3>1, <3>2
    <3> QED BY <2>1, <3>2, <3>3
  <2> QED BY <2>2, <2>3 DEF Current, IsOpen
<1>12. ASSUME UNCHANGED <<cend, send, entry, ws, hb>> PROVE Current'
  BY <1>12, CurrentSame DEF IsOpen
<1>13. ASSUME NEW s \in Sockets, ServerReceive(s) \/ ClientReceive(s) \/ PeerReceives(s)
       PROVE  Current'
  BY <1>12, <1>13 DEF ServerReceive, ClientReceive, PeerReceives
<1>14. ASSUME NEW c \in Clients, SendNote(c) \/ \E r \in LinkRequests : Request(c, r) PROVE Current'
  BY <1>12, <1>14 DEF SendNote, Request
<1>15. CASE StartServer \/ (\E r \in LinkRequests : LinkTimeout(r)) \/ UNCHANGED linkVars
  BY <1>12, <1>15 DEF StartServer, LinkTimeout, linkVars
<1> QED
  BY <1>1, <1>2, <1>3, <1>4, <1>5, <1>6, <1>7, <1>8, <1>9, <1>10, <1>11, <1>13, <1>14, <1>15
  DEF LinkNext

-----------------------------------------------------------------------------
(* Theorems *)

LEMMA LinkInitInv == LinkInit => IInv
<1> SUFFICES ASSUME LinkInit PROVE IInv
  OBVIOUS
<1> USE LinkConstants DEF LinkInit
<1>1. <<>> \in Seq(LinkMessage) /\ 0 \in 0..MaxReconnect
  OBVIOUS
<1>2. Shape
  BY <1>1 DEF Shape, NoEntry
<1>3. Slots
  <2> SUFFICES ASSUME NEW c \in Clients
               PROVE  sleeping[c] + Cardinality(Unclosed(c)) <= Cardinality(OwnSockets(c))
    BY DEF Slots
  <2>1. Unclosed(c) = {} /\ sleeping[c] = 0
    BY DEF Unclosed, OwnSockets
  <2> QED BY <2>1, FS_EmptySet, OwnFinite
<1>4. Tabled
  BY DEF Tabled, EntryServed, NoEntry
<1>5. Single /\ Current
  BY DEF Single, Current, Dead, Gone, OwnSockets
<1> QED BY <1>2, <1>3, <1>4, <1>5 DEF IInv

LEMMA LinkInvariance == LinkSpec => []IInv
<1>1. ASSUME IInv, [LinkNext]_linkVars PROVE IInv'
  <2>1. Shape' /\ Slots' /\ Tabled'
    BY <1>1, StepShape, StepSlots, StepTabled DEF IInv
  <2>2. orderly' = orderly
    BY <1>1 DEF LinkNext, linkVars, StartServer, StopServer, CheckHeartbeats, Connect, Wake, Disconnect,
                SendNote, Request, LinkTimeout, PeerConnects, Refuse, ServerOpen, ServerClosed,
                ServerReceive, ClientOpen, ClientClosed, ClientReceive, PeerReceives
  <2>3. orderly => Single' /\ Current'
    BY <1>1, StepSingle, StepCurrent DEF IInv
  <2> QED BY <2>1, <2>2, <2>3 DEF IInv
<1> QED BY <1>1, LinkInitInv, PTL DEF LinkSpec

\* Messages, sockets and counters of both ends have their types; no more reconnects
\* are asleep than there are sockets, though every closed socket may start one.
THEOREM LinkTypeCorrect == LinkSpec => []LinkTypeOK
<1>1. ASSUME IInv PROVE LinkTypeOK
  <2>1. \A c \in Clients : sleeping[c] \in 0..Cardinality(Sockets)
    <3> SUFFICES ASSUME NEW c \in Clients PROVE sleeping[c] \in 0..Cardinality(Sockets)
      OBVIOUS
    <3>1. sleeping[c] \in Nat /\ sleeping[c] + Cardinality(Unclosed(c)) <= Cardinality(OwnSockets(c))
      BY <1>1 DEF IInv, Shape, Slots
    <3>2. /\ Cardinality(Unclosed(c)) \in Nat /\ Cardinality(OwnSockets(c)) \in Nat
          /\ Cardinality(Sockets) \in Nat /\ Cardinality(OwnSockets(c)) <= Cardinality(Sockets)
      BY OwnFinite DEF Unclosed
    <3> QED BY <3>1, <3>2
  <2> QED BY <1>1, <2>1 DEF IInv, Shape, LinkTypeOK
<1> QED BY <1>1, LinkInvariance, PTL

\* The server's tables name nobody who is gone, and its channels count their connections
\* and nobody else while their agents keep to them: for any agents, sockets and channels
\* and whatever reconnects, timeouts and restarts overlap.
THEOREM TablesNeverStale == LinkSpec => []TablesServed
<1>1. ASSUME IInv PROVE TablesServed
  <2>1. \A a \in LinkAgents : entry[a] # NoEntry <=> entry[a].sock # NoSocket
    BY <1>1 DEF IInv, Tabled, EntryServed, Shape, NoEntry
  <2>2. \A a \in LinkAgents : entry[a] # NoEntry =>
          a \in members[ChannelOf[entry[a].sock]] /\ send[entry[a].sock] \in {"open", "closing"}
    BY <1>1, <2>1 DEF IInv, Tabled, EntryServed
  <2>3. ASSUME NEW c \in Channels
        PROVE  /\ \A a \in members[c] :
                    \E s \in OwnSockets(a) : ChannelOf[s] = c /\ send[s] \in {"open", "closing"}
               /\ Metrics.channels[c] >= Cardinality(ConnectedOn(c))
               /\ (\A a \in members[c] : KeepsTo(a, c)) =>
                    Metrics.channels[c] = Cardinality(ConnectedOn(c))
    <3>1. \A a \in members[c] : a \in LinkAgents /\ MemberServed(a, c)
      BY <1>1 DEF IInv, Tabled, Shape
    <3>2. ConnectedOn(c) \subseteq members[c]
      BY <2>2 DEF ConnectedOn
    <3>3. IsFiniteSet(members[c])
      <4>1. \A a \in members[c] : \E s \in Sockets : Owner[s] = a
        BY <3>1 DEF MemberServed, OwnSockets
      <4> QED BY <4>1, OwnersFinite
    <3>4. Cardinality(ConnectedOn(c)) <= Cardinality(members[c]) /\ Cardinality(ConnectedOn(c)) \in Nat
          /\ Cardinality(members[c]) \in Nat
      BY <3>2, <3>3, FS_Subset, FS_CardinalityType
    <3>5. (\A a \in members[c] : KeepsTo(a, c)) => members[c] = ConnectedOn(c)
      <4> SUFFICES ASSUME \A a \in members[c] : KeepsTo(a, c), NEW a \in members[c] PROVE a \in ConnectedOn(c)
        BY <3>2
      <4>1. a \in LinkAgents /\ KeepsTo(a, c) /\ entry[a].sock # NoSocket
        BY <3>1 DEF MemberServed
      <4>2. entry[a].sock \in OwnSockets(a)
        BY <1>1, <4>1 DEF IInv, Shape, Tabled, EntryServed, OwnSockets
      <4> QED BY <2>1, <4>1, <4>2 DEF ConnectedOn, KeepsTo
    <3>6. Metrics.channels[c] = Cardinality(members[c])
      BY DEF Metrics
    <3> QED BY <3>1, <3>4, <3>5, <3>6 DEF MemberServed
  <2> QED BY <2>2, <2>3 DEF TablesServed
<1> QED BY <1>1, LinkInvariance, PTL

\* Agents that connect again only after their sockets closed at both ends have one
\* socket, are listed while it is open, and beat on it and on no other.
THEOREM OrderlyIsRight == LinkSpec => []OrderlyClients
<1>1. ASSUME IInv, orderly PROVE OrderlyClients
  <2>1. OpenSocketsListed
    <3>1. ASSUME NEW s \in Sockets, send[s] = "open" PROVE Owner[s] \in ConnectedAgents
      <4>1. entry[Owner[s]] = [sock |-> s, connected |-> TRUE] /\ Owner[s] \in LinkAgents
        BY <1>1, <3>1, LinkConstants DEF IInv, Current
      <4> QED BY <4>1 DEF ConnectedAgents
    <3> QED BY <3>1 DEF OpenSocketsListed
  <2>2. ASSUME NEW c \in Clients
        PROVE  Cardinality({s \in OwnSockets(c) : ~Dead(s)}) <= 1
    <3> DEFINE alive == {s \in OwnSockets(c) : ~Dead(s)}
    <3>1. \A s, t \in alive : s = t
      BY <1>1 DEF IInv, Single, OwnSockets
    <3>2. CASE alive = {}
      BY <3>2, FS_EmptySet
    <3>3. CASE alive # {}
      <4>1. PICK s \in alive : alive = {s}
        BY <3>1, <3>3
      <4> HIDE DEF alive
      <4>2. Cardinality(alive) = 1
        BY <4>1, FS_Singleton
      <4> QED BY <4>2 DEF alive
    <3> QED BY <3>2, <3>3
  <2> QED BY <1>1, <2>1, <2>2 DEF IInv, Current, OrderlyClients
<1>2. IInv => OrderlyClients
  BY <1>1 DEF OrderlyClients
<1> QED BY <1>2, LinkInvariance, PTL
=============================================================================
