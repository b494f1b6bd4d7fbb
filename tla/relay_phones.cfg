CONSTANTS
    nil = nil
    b1 = b1
    b2 = b2
    b3 = b3
    p1 = p1
    p2 = p2
    p3 = p3
    p4 = p4
    u1 = u1
    u2 = u2
    Users = {u1}
    Conns <- PhonesConns
    BridgeConns = {}
    BridgeIDs = {1}
    BridgeID <- PhonesID
    User <- PhonesUser
    Talkers = {}
    MaxBridges = 1
    MaxPhones = 2
    MaxConnID = 3
SPECIFICATION Spec
INVARIANTS SlotOwned CapsHold ConnIDAvailable
PROPERTY ImplementsMembership
