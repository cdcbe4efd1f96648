\* One request, one reconnection before the client gives up; the agents connect
\* again as they like, or only when their old sockets are closed at both ends.
CONSTANTS
    ada = ada
    peer = peer
    a1 = a1
    a2 = a2
    p1 = p1
    p2 = p2
    LinkAgents = {ada, peer}
    Clients = {ada}
    Sockets = {a1, a2, p1, p2}
    Owner <- Owners
    Channels = {"main", "aside"}
    ChannelOf <- Joins
    NoSocket = NoSocket
    LinkRequests = {r1, r2}
    NoRequest = NoRequest
    Asker <- AllByAda
    Peer = peer
    EarlyConnect = TRUE
    MaxReconnect = 1
    MaxAlive = 2
    QueueMax = 1
SPECIFICATION LinkFairSpec
INVARIANTS LinkTypeOK TablesServed OrderlyClients
PROPERTIES LinkRequestsEnd
\* A client whose requests and reconnections are used up, and no server.
CHECK_DEADLOCK FALSE
