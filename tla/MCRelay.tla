------------------------------- MODULE MCRelay -------------------------------
(***************************************************************************)
(* Instances of Relay for TLC.  Each says who connects; the bounds (caps,  *)
(* largest connId, who sends data) are in the configurations.              *)
(***************************************************************************)
EXTENDS Relay

CONSTANTS b1, b2, b3, p1, p2, p3, p4, u1, u2

\* A bridge, a reconnect with the same id, and an unpinned phone.
ReconnectConns == {b1, b2, p1}
ReconnectBridges == {b1, b2}
ReconnectID == [c \in ReconnectConns |-> IF c = p1 THEN NoID ELSE 1]
ReconnectUser == [c \in ReconnectConns |-> u1]

\* Two bridges with different ids for one place, a phone pinned to the first; a phone of
\* another account with no pin.
IsolationConns == {b1, b2, p1, p2}
IsolationBridges == {b1, b2}
IsolationID == [c \in IsolationConns |-> CASE c \in {b1, p1} -> 1 [] c = b2 -> 2 [] c = p2 -> NoID]
IsolationUser == [c \in IsolationConns |-> IF c = p2 THEN u2 ELSE u1]

\* Two phones more than the account admits, so that a connId beyond the cap is free
\* and the counter still wraps while the others are in use.
PhonesConns == {p1, p2, p3, p4}
PhonesID == [c \in PhonesConns |-> NoID]
PhonesUser == [c \in PhonesConns |-> u1]

\* Two computers, one of which reconnects, and two phones, one of them pinned.
HouseConns == {b1, b2, b3, p1, p2}
HouseBridges == {b1, b2, b3}
HouseID == [c \in HouseConns |-> CASE c \in {b1, b2, p2} -> 1 [] c = b3 -> 2 [] c = p1 -> NoID]
HouseUser == [c \in HouseConns |-> u1]
===============================================================================
