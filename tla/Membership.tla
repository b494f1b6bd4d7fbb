------------------------------ MODULE Membership ------------------------------
(***************************************************************************)
(* What the relay promises its clients, without locks, maps, connIds or    *)
(* announcements: connections enter and leave rooms of their account, a    *)
(* bridge takes the place of the one with its id, and data goes from a     *)
(* member to members of its room on the other side.  Module Relay          *)
(* implements it.                                                          *)
(*                                                                         *)
(* An account may have several rooms at once: the code promises one        *)
(* (README, "groups connections by account") but does not keep that        *)
(* promise, and everything here holds in spite of it.                      *)
(***************************************************************************)
EXTENDS Integers, FiniteSets

CONSTANTS Conns, BridgeConns, BridgeID, NoID, User, MaxBridges, MaxPhones, nil

VARIABLES
    life,       \* outside, member, displaced (by its id's next bridge) or gone
    room,       \* the room of a member or displaced connection, else nil
    line,       \* whether its websocket is open
    flight,     \* data on its way: <<sender, receiver>>
    heard       \* whom a connection has data from

vars == <<life, room, line, flight, heard>>

Init ==
    /\ life = [c \in Conns |-> "outside"]
    /\ room = [c \in Conns |-> nil]
    /\ line = [c \in Conns |-> "open"]
    /\ flight = {}
    /\ heard = [c \in Conns |-> {}]

Members(r) == {c \in Conns : life[c] = "member" /\ room[c] = r}

\* The members c shares a cap with, and the one whose place it takes.
Side(c, r) == {d \in Members(r) : (d \in BridgeConns) = (c \in BridgeConns)}
Cap(c) == IF c \in BridgeConns THEN MaxBridges ELSE MaxPhones
Rivals(c, r) == {d \in Side(c, r) : c \in BridgeConns /\ BridgeID[d] = BridgeID[c]}

Rooms(c) == {r \in Conns : User[r] = User[c]}

Enter(c) ==
    /\ life[c] = "outside"
    /\ \E r \in Rooms(c) :
        /\ Rivals(c, r) # {} \/ Cardinality(Side(c, r)) < Cap(c)
        /\ life' = [d \in Conns |-> IF d = c THEN "member"
                                    ELSE IF d \in Rivals(c, r) THEN "displaced" ELSE life[d]]
        /\ room' = [room EXCEPT ![c] = r]
    /\ UNCHANGED <<line, flight, heard>>

CutOff(c) ==
    /\ line' = [line EXCEPT ![c] = "closed"]
    /\ heard' = [heard EXCEPT ![c] = {}]

TurnAway(c) ==
    /\ life[c] = "outside"
    /\ \E r \in Rooms(c) : Rivals(c, r) = {} /\ Cardinality(Side(c, r)) = Cap(c)
    /\ life' = [life EXCEPT ![c] = "gone"]
    /\ CutOff(c)
    /\ UNCHANGED <<room, flight>>

\* Who may exchange data: a phone with a bridge, with its own if it has a pin.
Peers(c, d) ==
    LET phone == IF c \in BridgeConns THEN d ELSE c
        bridge == IF c \in BridgeConns THEN c ELSE d
    IN  /\ phone \notin BridgeConns /\ bridge \in BridgeConns
        /\ BridgeID[phone] \in {NoID, BridgeID[bridge]}

Underway(c) == {f \in flight : f[1] = c}

\* A bridge may send to several phones, a phone sends to one bridge; a connection
\* that was displaced sends nothing, and nobody sends while data of its own is
\* under way.
Send(c) ==
    /\ life[c] = "member" /\ line[c] = "open" /\ Underway(c) = {}
    /\ \E receivers \in SUBSET {d \in Members(room[c]) : Peers(c, d)} :
        /\ c \notin BridgeConns => Cardinality(receivers) = 1
        /\ flight' = flight \cup {<<c, d>> : d \in receivers}
    /\ UNCHANGED <<life, room, line, heard>>

Deliver(f) ==
    /\ line[f[2]] = "open"
    /\ flight' = flight \ {f}
    /\ heard' = [heard EXCEPT ![f[2]] = @ \cup {f[1]}]
    /\ UNCHANGED <<life, room, line>>

\* Data is lost only together with the connection it was for.
Lose(f) ==
    /\ flight' = flight \ {f}
    /\ CutOff(f[2])
    /\ UNCHANGED <<life, room>>

Break(c) ==
    /\ life[c] \in {"member", "displaced"} /\ line[c] = "open"
    /\ CutOff(c)
    /\ UNCHANGED <<life, room, flight>>

Leave(c) ==
    /\ life[c] \in {"member", "displaced"} /\ line[c] = "closed" /\ Underway(c) = {}
    /\ life' = [life EXCEPT ![c] = "gone"]
    /\ room' = [room EXCEPT ![c] = nil]
    /\ UNCHANGED <<line, flight, heard>>

Next ==
    \/ \E c \in Conns : Enter(c) \/ TurnAway(c) \/ Send(c) \/ Break(c) \/ Leave(c)
    \/ \E f \in flight : Deliver(f) \/ Lose(f)

Spec == Init /\ [][Next]_vars
===============================================================================
