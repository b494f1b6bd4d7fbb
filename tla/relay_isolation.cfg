CONSTANTS
    nil = nil
    b1 = b1
    b2 = b2
    b3 = b3
    p1 = p1
    p2 = p2
    p3 = p3
    p4 = p4
    u1 = u1
    u2 = u2
    Users = {u1, u2}
    Conns <- IsolationConns
    BridgeConns <- IsolationBridges
    BridgeIDs = {1, 2}
    BridgeID <- IsolationID
    User <- IsolationUser
    Talkers = {b1, b2, p1, p2}
    MaxBridges = 1
    MaxPhones = 1
    MaxConnID = 1
SPECIFICATION Spec
INVARIANTS TornDown CapsHold AccountIsolation PinIsolation
