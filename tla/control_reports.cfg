CONSTANTS
    none = none
    b1 = b1
    b2 = b2
    b3 = b3
    p1 = p1
    Bridges = {b1, b2, b3}
    Phones = {p1}
    ConnectionID <- MCConnectionID
    Requests <- MCRequests
    Casts <- MCCasts
    MaxUpdates <- MCUpdates
SPECIFICATION Spec
INVARIANTS TypeOK RefillHasRoom NewestKept DisconnectEligibility AuthHoldsPolicy
PROPERTIES ImplementsLatestValue SendersEnd GoneStaysGone
