CONSTANTS
    nil = nil
    b1 = b1
    b2 = b2
    b3 = b3
    p1 = p1
    p2 = p2
    p3 = p3
    p4 = p4
    u1 = u1
    u2 = u2
    Users = {u1}
    Conns <- HouseConns
    BridgeConns <- HouseBridges
    BridgeIDs = {1, 2}
    BridgeID <- HouseID
    User <- HouseUser
    Talkers = {}
    MaxBridges = 2
    MaxPhones = 2
    MaxConnID = 2
SPECIFICATION SerialSpec
INVARIANTS NoticeMatchesTarget RosterMatchesTargets PresenceMatchesLive LiveBridgeReportedOnline OneGroupPerAccount
