CONSTANTS
    r1 = r1
    r2 = r2
    r3 = r3
    r4 = r4
    r5 = r5
    a1 = a1
    a2 = a2
    mapped = mapped
    edge = edge
    junk = junk
    invalid = invalid
    u1 = u1
    u2 = u2
    Reqs <- MCReqs
    Addresses <- MCAddresses
    Canonical <- MCCanonical
    RemoteAddr <- MCRemoteAddr
    Header <- MCHeader
    Users = {u1, u2}
    User <- MCUser
    MaxPerIP = 2
    MaxRooms = 1
SPECIFICATION Spec
INVARIANTS TypeOK SlotsAccounted ClientCap
PROPERTY SlotUsedOrReturned
