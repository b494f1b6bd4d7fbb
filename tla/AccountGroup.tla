----------------------------- MODULE AccountGroup -----------------------------
(***************************************************************************)
(* The data of internal/relay/account_group.go and the functions its       *)
(* methods compute while they hold the group's mutex.                      *)
(*                                                                         *)
(* A connection stands for one *Connection of the Go program: one          *)
(* websocket from its upgrade to its end.  A client that reconnects is a   *)
(* new connection, so equality of connections is pointer equality.  What   *)
(* a connection says of itself when it authenticates (its role and the     *)
(* bridge it is, or is pinned to) never changes and is a constant; what    *)
(* the relay writes into it (connId, connect time) is state of the module  *)
(* that uses this one and is passed in.                                    *)
(***************************************************************************)
EXTENDS Integers, FiniteSets

CONSTANTS
    Conns,          \* every connection of the instance
    BridgeConns,    \* those with role "bridge"; the others are phones
    BridgeIDs,      \* bridge ids, ordered like Go orders strings
    BridgeID,       \* a bridge's own id; a phone's pin, NoID when it has none
    MaxBridges,     \* maxBridgesPerAccount (10)
    MaxPhones,      \* maxPhonesPerAccount (5)
    MaxConnID,      \* largest uint16 (65535)
    nil             \* the nil pointer

PhoneConns == Conns \ BridgeConns

\* The empty bridge id.
NoID == 0

\* The key space of the Phones map; 0 is the broadcast address, never a phone.
ConnIDs == 0 .. MaxConnID

ASSUME ConnsAssumption ==
    /\ BridgeConns \subseteq Conns
    /\ nil \notin Conns
    /\ BridgeIDs \subseteq Nat \ {NoID}
    /\ IsFiniteSet(BridgeIDs)
    /\ BridgeID \in [Conns -> BridgeIDs \cup {NoID}]
    /\ \A b \in BridgeConns : BridgeID[b] \in BridgeIDs

ASSUME LimitsAssumption ==
    /\ MaxBridges \in Nat \ {0}
    /\ MaxPhones \in Nat \ {0}
    /\ MaxConnID \in Nat
    /\ MaxPhones <= MaxConnID

\* A Go map of pointers: a missing key reads as nil.
Ptr == Conns \cup {nil}
BridgeMap == [BridgeIDs -> Ptr]
PhoneMap == [ConnIDs -> Ptr]

Group == [Bridges : BridgeMap, Phones : PhoneMap, NextConnID : ConnIDs]

NewAccountGroup ==
    [Bridges |-> [id \in BridgeIDs |-> nil],
     Phones |-> [k \in ConnIDs |-> nil],
     NextConnID |-> 1]

Online(bridges) == {id \in BridgeIDs : bridges[id] # nil}

LiveBridges(bridges) == {bridges[id] : id \in Online(bridges)}

UsedConnIDs(g) == {k \in ConnIDs : g.Phones[k] # nil}

\* The cap tested with > instead of >= (a mutant of BridgesFull).
BridgesFullOffByOne(g) == Cardinality(Online(g.Bridges)) > MaxBridges

\* The same slip for phones (a mutant of PhonesFull).
PhonesFullOffByOne(g) == Cardinality(UsedConnIDs(g)) > MaxPhones

\* The newcomer is counted before it is let in (mutants of BridgesFull and
\* PhonesFull).
BridgesFullEarly(g) == Cardinality(Online(g.Bridges)) + 1 >= MaxBridges
PhonesFullEarly(g) == Cardinality(UsedConnIDs(g)) + 1 >= MaxPhones

\* What len(g.Bridges) and len(g.Phones) are compared with.
BridgesFull(g) == Cardinality(Online(g.Bridges)) >= MaxBridges
PhonesFull(g) == Cardinality(UsedConnIDs(g)) >= MaxPhones

\* Only the bridges are counted (a mutant of IsEmpty).
IsEmptyOfBridges(g) == Online(g.Bridges) = {}

IsEmpty(g) == Online(g.Bridges) = {} /\ UsedConnIDs(g) = {}

AllPhones(g) == {g.Phones[k] : k \in UsedConnIDs(g)}

-------------------------------------------------------------------------------
(* connIds *)

\* The counter does not wrap (a mutant of NextAfter).
NextAfterUnwrapped(n) == n + 1

\* g.NextConnID++ on a uint16, followed by the test that skips 0.
NextAfter(n) ==
    LET incremented == IF n = MaxConnID THEN 0 ELSE n + 1
    IN  IF incremented = 0 THEN 1 ELSE incremented

\* The ids the counter passes on its way from n to id.
PassedOver(n, id) ==
    IF n <= id THEN n .. (id - 1) ELSE (n .. MaxConnID) \cup (1 .. (id - 1))

\* The exists test of the loop is missing (a mutant of assignConnIDLocked).
assignConnIDUnchecked(g, id) == id = g.NextConnID

\* One attempt instead of a loop (a mutant of assignConnIDLocked).
assignConnIDOnce(g, id) == id = g.NextConnID /\ g.Phones[id] = nil

\* AddPhone's loop leaves with id: the counter passed only used ids before it.
assignConnIDLocked(g, id) ==
    /\ id \in {g.NextConnID} \cup 1 .. MaxConnID
    /\ g.Phones[id] = nil
    /\ \A k \in PassedOver(g.NextConnID, id) : g.Phones[k] # nil

-------------------------------------------------------------------------------
(* Effective targets.  at is the ConnectedAt field of every connection. *)

\* The test of the loop in defaultBridgeLocked: a replaces b as the latest.
Outranks(a, b, at) ==
    \/ at[a] > at[b]
    \/ at[a] = at[b] /\ BridgeID[a] > BridgeID[b]

\* The loop visits the map in any order and keeps the bridge none outranks.
defaultBridgeLocked(bridges, at) ==
    LET live == LiveBridges(bridges)
        latest == {b \in live : \A other \in live : ~Outranks(other, b, at)}
    IN  IF latest = {} THEN nil ELSE CHOOSE b \in latest : TRUE

\* A pinned phone falls back to the default bridge (a mutant of targetLocked).
targetOrDefault(bridges, at, phone) ==
    IF BridgeID[phone] # NoID /\ bridges[BridgeID[phone]] # nil
    THEN bridges[BridgeID[phone]]
    ELSE defaultBridgeLocked(bridges, at)

targetLocked(bridges, at, phone) ==
    IF BridgeID[phone] # NoID
    THEN bridges[BridgeID[phone]]
    ELSE defaultBridgeLocked(bridges, at)

\* Targets compared by bridge id, so that a same-id reconnect is no change (a
\* mutant of changeBridgesLocked).
changeBridgesByID(g, after, at) ==
    LET old(p) == targetLocked(g.Bridges, at, p)
        new(p) == targetLocked(after, at, p)
        idOf(b) == IF b = nil THEN NoID ELSE BridgeID[b]
    IN  {[phone |-> p, previous |-> nil, previousBridgeID |-> idOf(old(p)), next |-> new(p)] :
            p \in {q \in AllPhones(g) : idOf(new(q)) # idOf(old(q))}}

\* The target changes of the phones of g when its bridge map becomes `after`.
changeBridgesLocked(g, after, at) ==
    LET old(p) == targetLocked(g.Bridges, at, p)
        new(p) == targetLocked(after, at, p)
        change(p) ==
          [phone |-> p,
           previous |-> IF old(p) # nil /\ after[BridgeID[old(p)]] = old(p)
                        THEN old(p) ELSE nil,
           previousBridgeID |-> IF old(p) = nil THEN NoID ELSE BridgeID[old(p)],
           next |-> new(p)]
    IN  {change(p) : p \in {q \in AllPhones(g) : new(q) # old(q)}}

\* Some connection has the id (a mutant of IsCurrentBridge).
IsBridgeIDLive(g, bridge) == g.Bridges[BridgeID[bridge]] # nil

IsCurrentBridge(g, bridge) == g.Bridges[BridgeID[bridge]] = bridge

\* The target compared by bridge id (a mutant of PhonesTargeting).
PhonesTargetingID(g, at, bridge) ==
    {p \in AllPhones(g) :
        LET target == targetLocked(g.Bridges, at, p)
        IN  target # nil /\ BridgeID[target] = BridgeID[bridge]}

PhonesTargeting(g, at, bridge) ==
    {p \in AllPhones(g) : /\ IsCurrentBridge(g, bridge)
                          /\ targetLocked(g.Bridges, at, p) = bridge}

\* As a set: empty when the method returns nil.
PhoneTargeting(g, at, bridge, connID) ==
    {p \in {g.Phones[connID]} \ {nil} :
        /\ IsCurrentBridge(g, bridge)
        /\ targetLocked(g.Bridges, at, p) = bridge}

BridgeForPhone(g, at, phone, connID) ==
    IF g.Phones[connID] # phone THEN nil ELSE targetLocked(g.Bridges, at, phone)
===============================================================================
