CONSTANTS
    nil = nil
    b1 = b1
    b2 = b2
    b3 = b3
    p1 = p1
    p2 = p2
    p3 = p3
    p4 = p4
    u1 = u1
    u2 = u2
    Users = {u1}
    Conns <- ReconnectConns
    BridgeConns <- ReconnectBridges
    BridgeIDs = {1}
    BridgeID <- ReconnectID
    User <- ReconnectUser
    Talkers = {}
    MaxBridges = 1
    MaxPhones = 1
    MaxConnID = 1
SPECIFICATION Spec
INVARIANT LiveBridgeReportedOnline
