\* As AetherLink.cfg: nobody calls connect()
\* too early, but the client may hear of a close before the server does.
CONSTANTS
    ada = ada
    peer = peer
    a1 = a1
    a2 = a2
    p1 = p1
    p2 = p2
    LinkAgents = {ada, peer}
    Clients = {ada}
    Sockets = {a1, a2, p1, p2}
    Owner <- Owners
    Channels = {"main", "aside"}
    ChannelOf <- Joins
    NoSocket = NoSocket
    LinkRequests = {r1}
    NoRequest = NoRequest
    Asker <- AllByAda
    Peer = peer
    EarlyConnect = FALSE
    MaxReconnect = 1
    MaxAlive = 2
    QueueMax = 1
SPECIFICATION LinkSpec
INVARIANTS OpenSocketsListed
CHECK_DEADLOCK FALSE
