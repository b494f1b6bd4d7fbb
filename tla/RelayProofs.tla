----------------------------- MODULE RelayProofs -----------------------------
(***************************************************************************)
(* Proofs about module Relay for any set of connections, accounts, bridge  *)
(* ids and any limits.                                                     *)
(***************************************************************************)
EXTENDS Relay, FiniteSetTheorems, TLAPS

-------------------------------------------------------------------------------
(* The inductive invariant *)

BridgePhases == {"stamped", "added", "online", "removed", "vanishing", "offline"}

\* A handler has a group from GetOrCreateGroup until it returns, and only a
\* bridge's handler goes through the phases of handleBridge.
HandlersHoldGroups ==
    /\ \A c \in Conns : group[c] # nil <=> pc[c] \notin {"start", "done"}
    /\ \A c \in Conns : pc[c] \in BridgePhases => c \in BridgeConns

\* Groups belong to one account: that of the handler that created them.
GroupsOfAccount ==
    /\ \A c \in Conns :
         group[c] # nil => User[group[c]] = User[c] /\ pc[group[c]] # "start"
    /\ \A u \in Users :
         registry[u] # nil => User[registry[u]] = u /\ pc[registry[u]] # "start"

\* Nobody changes the registry between IsEmpty and the delete.
LockHeld ==
    \A c \in Conns :
        pc[c] = "deleting" => mgrLock = c /\ registry[User[c]] = group[c]

\* A registered group is held by a handler that is yet to clean up.
GroupInUse == \A u \in Users : registry[u] # nil => \E c \in Conns : group[c] = registry[u]

\* A displaced connection was a bridge in its group and leaves it by the silent
\* way.
DisplacedPhases ==
    \A b \in displaced :
        b \in BridgeConns /\ pc[b] \in InGroup \cup {"cleanup", "deleting", "done"}

\* The connId counter skips the broadcast address.
NextConnIDValid == \A g \in Conns : grp[g].NextConnID # 0

\* The types of the variables that the structure of the groups depends on.
StructureTypes ==
    /\ pc \in [Conns -> Phases]
    /\ registry \in [Users -> Ptr]
    /\ mgrLock \in Ptr
    /\ grp \in [Conns -> Group]
    /\ group \in [Conns -> Ptr]
    /\ ConnID \in [Conns -> ConnIDs]
    /\ displaced \in SUBSET Conns

Structure ==
    /\ StructureTypes
    /\ HandlersHoldGroups
    /\ GroupsOfAccount
    /\ LockHeld
    /\ GroupInUse
    /\ DisplacedPhases
    /\ NextConnIDValid
    /\ SlotOwned

\* A phone and a bridge of the same account, the bridge being the phone's own
\* if it is pinned.
Peers(a, b) ==
    /\ User[a] = User[b]
    /\ (a \in BridgeConns) # (b \in BridgeConns)
    /\ LET phone == IF b \in BridgeConns THEN a ELSE b
            bridge == IF b \in BridgeConns THEN b ELSE a
       IN  BridgeID[phone] # NoID => BridgeID[phone] = BridgeID[bridge]

\* A write that carries data only between peers.
SafeWrite == {w \in Write : w.type = "data" => w.from \in Conns /\ Peers(w.from, w.to)}

\* Everything handlers are about to write is safe, and so is everything that
\* clients received.
Traffic ==
    /\ jobs \in [Conns -> SUBSET (Seq(SafeWrite) \ {<<>>})]
    /\ out \in [Conns -> Seq(SafeWrite)]
    /\ client \in [Conns -> Client]
    /\ \A c \in Conns : \A s \in client[c].heard : s \in Conns /\ Peers(s, c)

\* The rest of the types.
OtherTypes ==
    /\ ConnectedAt \in [Conns -> Nat]
    /\ clock \in Nat
    /\ sock \in [Conns -> {"open", "closed"}]
    /\ status \in [Users -> [BridgeIDs -> {"unknown", "connected", "disconnected"}]]

IInv == Structure /\ Traffic /\ OtherTypes

-------------------------------------------------------------------------------
(* The steps that matter to the structure of the groups *)

\* Steps that only write, receive, or lose a connection.
Still == UNCHANGED <<pc, registry, mgrLock, grp, group, ConnID, displaced>>

WalkEdges == {<<"joined", "stamped">>, <<"added", "online">>, <<"online", "serving">>,
              <<"removed", "cleanup">>, <<"removed", "vanishing">>,
              <<"vanishing", "offline">>, <<"offline", "cleanup">>}

\* Steps of handleBridge that only go from one phase to the next.
Walk(c) ==
    /\ c \in BridgeConns
    /\ \E phase \in Phases : <<pc[c], phase>> \in WalkEdges /\ Goto(c, phase)
    /\ UNCHANGED <<registry, mgrLock, grp, group, ConnID, displaced>>

\* Every step of the relay is one of these.
LEMMA Shapes ==
    ASSUME Structure, [Next]_vars
    PROVE  \/ Still
           \/ \E c \in Conns :
                \/ Walk(c) \/ GetOrCreateGroup(c) \/ RejectFull(c)
                \/ AddBridge(c) \/ AddPhone(c) \/ RemoveBridge(c) \/ RemovePhone(c)
                \/ RemoveGroupIfEmpty(c) \/ DeleteGroup(c)
  <1>1. ASSUME NEW c \in Conns, NewBridgeConnection(c)
        PROVE  Walk(c)
    BY <1>1 DEF NewBridgeConnection, Walk, WalkEdges, Phases, mgrVars, Goto
  <1>2. ASSUME NEW c \in Conns, AnnounceOnline(c) \/ ReportConnected(c)
        PROVE  Walk(c)
    BY <1>2 DEF AnnounceOnline, ReportConnected, Walk, WalkEdges, Phases, mgrVars, connVars,
                Goto, Structure, HandlersHoldGroups, BridgePhases
  <1>3. ASSUME NEW c \in Conns, AnnounceOffline(c) \/ ReportDisconnected(c)
        PROVE  Walk(c)
    BY <1>3 DEF AnnounceOffline, ReportDisconnected, Walk, WalkEdges, Phases, mgrVars, connVars,
                Goto, Structure, HandlersHoldGroups, BridgePhases
  <1>4. ASSUME NEW c \in Conns, CheckReplaced(c)
        PROVE  Walk(c)
    <2>1. c \in BridgeConns
      BY <1>4 DEF CheckReplaced, Structure, HandlersHoldGroups, BridgePhases
    <2>2. CASE HasLiveBridgeWithID(User[c], BridgeID[c])
      BY <1>4, <2>1, <2>2 DEF CheckReplaced, Walk, WalkEdges, Phases, mgrVars, connVars, Goto
    <2>3. CASE ~HasLiveBridgeWithID(User[c], BridgeID[c])
      BY <1>4, <2>1, <2>3 DEF CheckReplaced, Walk, WalkEdges, Phases, mgrVars, connVars, Goto
    <2> QED BY <2>2, <2>3
  <1>5. ASSUME NEW c \in Conns, WriteNext(c)
        PROVE  Still
    BY <1>5 DEF WriteNext, Still, mgrVars, connVars
  <1>6. ASSUME NEW c \in Conns, BridgeFrame(c) \/ PhoneFrame(c)
        PROVE  Still
    BY <1>6 DEF BridgeFrame, PhoneFrame, Still, mgrVars, connVars
  <1>7. ASSUME NEW c \in Conns, CloseDisplaced(c) \/ Revoke(c) \/ Drop(c)
        PROVE  Still
    BY <1>7 DEF CloseDisplaced, Revoke, Drop, Still, mgrVars, connVars
  <1>8. CASE UNCHANGED vars
    BY <1>8 DEF vars, Still, mgrVars, connVars
  <1> QED
    BY <1>1, <1>2, <1>3, <1>4, <1>5, <1>6, <1>7, <1>8
       DEF Next, HandlerStep, ClientStep, Finished

-------------------------------------------------------------------------------
(* Facts about the operators of AccountGroup *)

\* The default bridge is a bridge of the map, or nil.
LEMMA DefaultInMap ==
    ASSUME NEW bridges \in BridgeMap, NEW at
    PROVE  defaultBridgeLocked(bridges, at) \in LiveBridges(bridges) \cup {nil}
  BY DEF defaultBridgeLocked

\* So is the target of a phone; that of a pinned phone has the pinned id.
LEMMA TargetInMap ==
    ASSUME NEW bridges \in BridgeMap, NEW at, NEW p \in Conns
    PROVE  /\ targetLocked(bridges, at, p) \in LiveBridges(bridges) \cup {nil}
           /\ targetLocked(bridges, at, p) \in Ptr
           /\ BridgeID[p] # NoID => targetLocked(bridges, at, p) = bridges[BridgeID[p]]
  <1>1. BridgeID[p] \in BridgeIDs \cup {NoID}
    BY ConnsAssumption
  <1>2. LiveBridges(bridges) \subseteq Ptr
    BY DEF LiveBridges, Online, BridgeMap
  <1>3. CASE BridgeID[p] = NoID
    BY <1>2, <1>3, DefaultInMap DEF targetLocked, Ptr
  <1>4. CASE BridgeID[p] # NoID
    BY <1>1, <1>4 DEF targetLocked, LiveBridges, Online, BridgeMap
  <1> QED BY <1>3, <1>4

\* The successor of a connId is a connId other than the broadcast address.
LEMMA NextAfterType ==
    ASSUME NEW n \in ConnIDs
    PROVE  NextAfter(n) \in ConnIDs \ {0}
  BY LimitsAssumption DEF NextAfter, ConnIDs

\* Full groups have members.
LEMMA FullNotEmpty ==
    ASSUME NEW g \in Group
    PROVE  /\ BridgesFull(g) => Online(g.Bridges) # {}
           /\ PhonesFull(g) => UsedConnIDs(g) # {}
  <1>1. MaxBridges \in Nat /\ MaxBridges > 0 /\ MaxPhones \in Nat /\ MaxPhones > 0
    BY LimitsAssumption
  <1>2. Cardinality({}) = 0
    BY FS_EmptySet
  <1> QED BY <1>1, <1>2 DEF BridgesFull, PhonesFull

-------------------------------------------------------------------------------
(* Every step keeps the structure of the groups *)

\* Steps that leave the structure alone.
LEMMA StructureStill ==
    ASSUME Structure, Still
    PROVE  Structure'
  <1> USE DEF Still
  <1>1. StructureTypes' /\ HandlersHoldGroups' /\ GroupsOfAccount' /\ LockHeld'
    BY DEF Structure, StructureTypes, HandlersHoldGroups, GroupsOfAccount, LockHeld
  <1>2. GroupInUse' /\ DisplacedPhases' /\ NextConnIDValid'
    BY DEF Structure, GroupInUse, DisplacedPhases, NextConnIDValid
  <1>3. SlotOwned'
    BY DEF Structure, SlotOwned, BridgeEntry, PhoneEntry, Current, IsCurrentBridge
  <1> QED BY <1>1, <1>2, <1>3 DEF Structure

\* A bridge's handler goes on to its next phase.
LEMMA StructureWalk ==
    ASSUME Structure, NEW c \in Conns, Walk(c)
    PROVE  Structure'
  <1>1. PICK phase \in Phases : <<pc[c], phase>> \in WalkEdges /\ Goto(c, phase)
    BY DEF Walk
  <1>2. /\ c \in BridgeConns
        /\ UNCHANGED <<registry, mgrLock, grp, group, ConnID, displaced>>
        /\ pc' = [pc EXCEPT ![c] = phase]
        /\ pc \in [Conns -> Phases]
    BY <1>1 DEF Walk, Goto, Structure, StructureTypes
  <1>3. /\ pc[c] \notin {"start", "done", "deleting"}
        /\ phase \notin {"start", "done", "deleting"}
        /\ pc[c] \in InGroup <=> phase \in InGroup
    BY <1>1 DEF WalkEdges, InGroup
  <1>4. StructureTypes' /\ HandlersHoldGroups'
    BY <1>2, <1>3 DEF Structure, StructureTypes, HandlersHoldGroups
  <1>5. GroupsOfAccount' /\ LockHeld' /\ GroupInUse' /\ NextConnIDValid'
    BY <1>2, <1>3 DEF Structure, StructureTypes, GroupsOfAccount, LockHeld, GroupInUse, NextConnIDValid
  <1>6. DisplacedPhases'
    BY <1>1, <1>2, <1>3 DEF Structure, StructureTypes, DisplacedPhases, WalkEdges, InGroup
  <1>7. SlotOwned'
    BY <1>2, <1>3, ConnsAssumption
       DEF Structure, StructureTypes, SlotOwned, BridgeEntry, PhoneEntry, Current, IsCurrentBridge,
           PhoneConns, InGroup
  <1> QED BY <1>4, <1>5, <1>6, <1>7 DEF Structure

\* GetOrCreateGroup: a group it creates is in nobody's hands yet.
LEMMA StructureJoin ==
    ASSUME Structure, NEW c \in Conns, GetOrCreateGroup(c)
    PROVE  Structure'
  <1>1. /\ pc \in [Conns -> Phases] /\ registry \in [Users -> Ptr] /\ grp \in [Conns -> Group]
        /\ group \in [Conns -> Ptr]
        /\ pc[c] = "start" /\ mgrLock = nil /\ group[c] = nil
        /\ pc' = [pc EXCEPT ![c] = "joined"]
        /\ UNCHANGED <<mgrLock, ConnID, displaced>>
        /\ User[c] \in Users /\ nil \notin Conns
    BY ConnsAssumption, UsersAssumption
       DEF GetOrCreateGroup, Goto, connVars, Structure, StructureTypes, HandlersHoldGroups
  <1>2. PICK g \in Conns : /\ group' = [group EXCEPT ![c] = g]
                           /\ registry' = [registry EXCEPT ![User[c]] = g]
                           /\ User[g] = User[c] /\ (g = c \/ pc[g] # "start")
                           /\ \/ grp' = grp
                              \/ g = c /\ grp' = [grp EXCEPT ![c] = NewAccountGroup]
    <2>1. CASE registry[User[c]] # nil
      <3>1. registry[User[c]] \in Conns
        BY <1>1, <2>1 DEF Ptr
      <3>2. registry' = [registry EXCEPT ![User[c]] = registry[User[c]]]
        BY <1>1, <2>1 DEF GetOrCreateGroup
      <3> QED BY <1>1, <2>1, <3>1, <3>2 DEF GetOrCreateGroup, Structure, GroupsOfAccount
    <2>2. CASE registry[User[c]] = nil
      BY <1>1, <2>2 DEF GetOrCreateGroup
    <2> QED BY <2>1, <2>2
  <1>3. NewAccountGroup \in Group /\ NewAccountGroup.NextConnID = 1
    BY LimitsAssumption DEF NewAccountGroup, Group, BridgeMap, PhoneMap, Ptr, ConnIDs
  <1>4. StructureTypes' /\ NextConnIDValid'
    BY <1>1, <1>2, <1>3 DEF Structure, StructureTypes, NextConnIDValid, Ptr, Phases
  <1>5. HandlersHoldGroups'
    BY <1>1, <1>2 DEF Structure, HandlersHoldGroups, BridgePhases
  <1>6. GroupsOfAccount'
    <2>1. \A x \in Conns : group[x] # nil => group[x] \in Conns
      BY <1>1 DEF Ptr
    <2>2. \A u \in Users : registry[u] # nil => registry[u] \in Conns
      BY <1>1 DEF Ptr
    <2> QED BY <1>1, <1>2, <2>1, <2>2 DEF Structure, GroupsOfAccount
  <1>7. LockHeld'
    BY <1>1, <1>2 DEF Structure, LockHeld
  <1>8. GroupInUse'
    <2> SUFFICES ASSUME NEW u \in Users, registry'[u] # nil
                 PROVE  \E x \in Conns : group'[x] = registry'[u]
      BY DEF GroupInUse
    <2>1. CASE u = User[c]
      BY <1>1, <1>2, <2>1
    <2>2. CASE u # User[c]
      <3>1. PICK x \in Conns : group[x] = registry[u]
        BY <1>1, <1>2, <2>2 DEF Structure, GroupInUse
      <3>2. x # c /\ registry'[u] = registry[u]
        BY <1>1, <1>2, <2>2, <3>1
      <3> QED BY <1>1, <1>2, <3>1, <3>2
    <2> QED BY <2>1, <2>2
  <1>9. DisplacedPhases'
    BY <1>1 DEF Structure, StructureTypes, DisplacedPhases, InGroup
  <1>10. SlotOwned'
    <2>1. \A x \in Conns : group[x] # c
      BY <1>1 DEF Structure, GroupsOfAccount
    <2>2. \A x \in Conns : x # c => group'[x] = group[x] /\ pc'[x] = pc[x]
      BY <1>1, <1>2
    <2>3. pc'[c] = "joined"
      BY <1>1
    <2>4. \A x \in Conns : x # c => grp'[x] = grp[x]
      BY <1>1, <1>2
    <2>5. /\ \A id \in BridgeIDs : grp'[c].Bridges[id] = nil
          /\ \A k \in ConnIDs : grp'[c].Phones[k] = nil
      <3>1. CASE grp' = grp
        <4>1. \A id \in BridgeIDs : grp[c].Bridges[id] = nil
          BY <1>1, <2>1, ConnsAssumption DEF Structure, SlotOwned, BridgeEntry
        <4>2. \A k \in ConnIDs : grp[c].Phones[k] = nil
          BY <1>1, <2>1 DEF Structure, SlotOwned, PhoneEntry, PhoneConns
        <4> QED BY <3>1, <4>1, <4>2
      <3>2. CASE grp' = [grp EXCEPT ![c] = NewAccountGroup]
        BY <1>1, <3>2 DEF NewAccountGroup
      <3> QED BY <1>2, <3>1, <3>2
    <2>6. \A b \in Conns : pc[b] \in InGroup => b # c
      BY <1>1 DEF InGroup
    <2>7. ASSUME NEW h \in Conns, NEW id \in BridgeIDs
          PROVE  BridgeEntry(h, id)'
      <3>1. BridgeEntry(h, id)
        BY DEF Structure, SlotOwned
      <3>2. CASE h = c
        BY <2>5, <3>2 DEF BridgeEntry
      <3>3. CASE h # c
        BY <1>1, <2>2, <2>4, <2>6, <3>1, <3>3, ConnsAssumption DEF BridgeEntry
      <3> QED BY <3>2, <3>3
    <2>8. ASSUME NEW h \in Conns, NEW k \in ConnIDs
          PROVE  PhoneEntry(h, k)'
      <3>1. PhoneEntry(h, k)
        BY DEF Structure, SlotOwned
      <3>2. CASE h = c
        BY <2>5, <3>2 DEF PhoneEntry
      <3>3. CASE h # c
        BY <1>1, <2>2, <2>4, <3>1, <3>3 DEF PhoneEntry, PhoneConns
      <3> QED BY <3>2, <3>3
    <2>9. ASSUME NEW p \in PhoneConns, pc'[p] = "serving"
          PROVE  group'[p] # nil /\ grp'[group'[p]].Phones[ConnID'[p]] = p
      <3>1. p \in Conns /\ p # c /\ pc[p] = "serving" /\ group'[p] = group[p]
        BY <2>2, <2>3, <2>9 DEF PhoneConns
      <3>2. group[p] # nil /\ grp[group[p]].Phones[ConnID[p]] = p
        BY <3>1 DEF Structure, SlotOwned
      <3>3. group[p] \in Conns /\ group[p] # c
        BY <1>1, <2>1, <3>1, <3>2 DEF Ptr
      <3> QED BY <1>1, <2>4, <3>1, <3>2, <3>3
    <2>10. ASSUME NEW b \in BridgeConns, pc'[b] \in InGroup, b \notin displaced'
           PROVE  group'[b] # nil /\ grp'[group'[b]].Bridges[BridgeID[b]] = b
      <3>1. b \in Conns /\ b # c /\ pc[b] \in InGroup /\ group'[b] = group[b]
        BY <2>2, <2>3, <2>10, ConnsAssumption DEF InGroup
      <3>2. group[b] # nil /\ grp[group[b]].Bridges[BridgeID[b]] = b
        BY <1>1, <2>10, <3>1 DEF Structure, SlotOwned, Current, IsCurrentBridge
      <3>3. group[b] \in Conns /\ group[b] # c
        BY <1>1, <2>1, <3>1, <3>2 DEF Ptr
      <3> QED BY <1>1, <2>4, <3>1, <3>2, <3>3
    <2> QED BY <2>7, <2>8, <2>9, <2>10 DEF SlotOwned, Current, IsCurrentBridge
  <1> QED BY <1>4, <1>5, <1>6, <1>7, <1>8, <1>9, <1>10 DEF Structure

\* A group that is not empty is held by a handler of a member.
LEMMA MemberHoldsGroup ==
    ASSUME Structure, NEW g \in Conns, ~IsEmpty(grp[g])
    PROVE  \E x \in Conns : group[x] = g /\ pc[x] \in InGroup
  <1>1. CASE Online(grp[g].Bridges) # {}
    <2>1. PICK id \in BridgeIDs : grp[g].Bridges[id] # nil
      BY <1>1 DEF Online
    <2>2. BridgeEntry(g, id)
      BY DEF Structure, SlotOwned
    <2> QED BY <2>1, <2>2, ConnsAssumption DEF BridgeEntry
  <1>2. CASE UsedConnIDs(grp[g]) # {}
    <2>1. PICK k \in ConnIDs : grp[g].Phones[k] # nil
      BY <1>2 DEF UsedConnIDs
    <2>2. PhoneEntry(g, k)
      BY DEF Structure, SlotOwned
    <2> QED BY <2>1, <2>2 DEF PhoneEntry, PhoneConns, InGroup
  <1> QED BY <1>1, <1>2 DEF IsEmpty

\* A handler outside the maps that returns or goes on to the delete keeps the
\* entries in order.
LEMMA SlotsKeptOutside ==
    ASSUME Structure, NEW c \in Conns, pc[c] \notin InGroup,
           NEW phase, phase \notin InGroup, Goto(c, phase),
           \A x \in Conns : x # c => group'[x] = group[x],
           UNCHANGED <<grp, ConnID, displaced>>
    PROVE  SlotOwned'
  <1>1. pc \in [Conns -> Phases] /\ pc' = [pc EXCEPT ![c] = phase]
    BY DEF Structure, StructureTypes, Goto
  <1>2. \A x \in Conns : pc[x] \in InGroup => x # c /\ pc'[x] = pc[x] /\ group'[x] = group[x]
    BY <1>1
  <1>3. \A x \in Conns : pc'[x] \in InGroup => x # c /\ pc'[x] = pc[x] /\ group'[x] = group[x]
    BY <1>1
  <1>4. ASSUME NEW h \in Conns, NEW id \in BridgeIDs
        PROVE  BridgeEntry(h, id)'
    <2>1. BridgeEntry(h, id)
      BY DEF Structure, SlotOwned
    <2> QED BY <1>2, <2>1, ConnsAssumption DEF BridgeEntry
  <1>5. ASSUME NEW h \in Conns, NEW k \in ConnIDs
        PROVE  PhoneEntry(h, k)'
    <2>1. PhoneEntry(h, k)
      BY DEF Structure, SlotOwned
    <2> QED BY <1>2, <2>1 DEF PhoneEntry, PhoneConns, InGroup
  <1>6. ASSUME NEW p \in PhoneConns, pc'[p] = "serving"
        PROVE  group'[p] # nil /\ grp'[group'[p]].Phones[ConnID'[p]] = p
    BY <1>3, <1>6 DEF Structure, SlotOwned, PhoneConns, InGroup
  <1>7. ASSUME NEW b \in BridgeConns, pc'[b] \in InGroup, b \notin displaced'
        PROVE  group'[b] # nil /\ Current(b)'
    BY <1>3, <1>7, ConnsAssumption DEF Structure, SlotOwned, Current, IsCurrentBridge
  <1> QED BY <1>4, <1>5, <1>6, <1>7 DEF SlotOwned

\* A handler returns and leaves the registry as it is: either the group is not
\* registered (any more), or somebody else is in it.
LEMMA StructureReturn ==
    ASSUME Structure, NEW c \in Conns,
           pc[c] \notin InGroup \cup {"start", "deleting", "done"},
           Return(c), UNCHANGED <<registry, mgrLock, grp, ConnID, displaced>>,
           registry[User[c]] = group[c] =>
               \E x \in Conns : group[x] = group[c] /\ pc[x] \in InGroup
    PROVE  Structure'
  <1>1. /\ pc \in [Conns -> Phases] /\ group \in [Conns -> Ptr] /\ registry \in [Users -> Ptr]
        /\ pc' = [pc EXCEPT ![c] = "done"] /\ group' = [group EXCEPT ![c] = nil]
        /\ group[c] # nil /\ User[c] \in Users
    BY UsersAssumption DEF Structure, StructureTypes, HandlersHoldGroups, Return, Goto
  <1>2. StructureTypes' /\ NextConnIDValid' /\ HandlersHoldGroups'
    BY <1>1 DEF Structure, StructureTypes, NextConnIDValid, HandlersHoldGroups, Phases, Ptr, BridgePhases
  <1>3. GroupsOfAccount'
    <2>1. \A x \in Conns : group[x] # nil => group[x] \in Conns
      BY <1>1 DEF Ptr
    <2>2. \A u \in Users : registry[u] # nil => registry[u] \in Conns
      BY <1>1 DEF Ptr
    <2> QED BY <1>1, <2>1, <2>2 DEF Structure, GroupsOfAccount
  <1>4. LockHeld'
    BY <1>1 DEF Structure, LockHeld
  <1>5. GroupInUse'
    <2> SUFFICES ASSUME NEW u \in Users, registry[u] # nil
                 PROVE  \E x \in Conns : group'[x] = registry[u]
      BY DEF GroupInUse
    <2>1. PICK y \in Conns : group[y] = registry[u]
      BY DEF Structure, GroupInUse
    <2>2. CASE y # c
      BY <1>1, <2>1, <2>2
    <2>3. CASE y = c
      <3>1. u = User[c]
        BY <1>1, <2>1, <2>3 DEF Structure, GroupsOfAccount
      <3>2. PICK x \in Conns : group[x] = group[c] /\ pc[x] \in InGroup
        BY <2>1, <2>3, <3>1
      <3>3. x # c
        BY <3>2
      <3> QED BY <1>1, <2>1, <2>3, <3>2, <3>3
    <2> QED BY <2>2, <2>3
  <1>6. DisplacedPhases'
    BY <1>1 DEF Structure, StructureTypes, DisplacedPhases
  <1>7. SlotOwned'
    BY <1>1, SlotsKeptOutside DEF Return, InGroup
  <1> QED BY <1>2, <1>3, <1>4, <1>5, <1>6, <1>7 DEF Structure

\* A full account rejects the connection: the group has other members.
LEMMA StructureReject ==
    ASSUME Structure, NEW c \in Conns, RejectFull(c)
    PROVE  Structure'
  <1>1. pc[c] \in {"stamped", "joined"}
    BY DEF RejectFull
  <1>2. group[c] \in Conns /\ grp[group[c]] \in Group
    BY <1>1 DEF Structure, StructureTypes, HandlersHoldGroups, Ptr
  <1>3. ~IsEmpty(grp[group[c]])
    BY <1>2, FullNotEmpty DEF RejectFull, IsEmpty
  <1>4. \E x \in Conns : group[x] = group[c] /\ pc[x] \in InGroup
    BY <1>2, <1>3, MemberHoldsGroup
  <1>5. Return(c) /\ UNCHANGED <<registry, mgrLock, grp, ConnID, displaced>>
    BY DEF RejectFull, mgrVars, connVars
  <1> QED BY <1>1, <1>4, <1>5, StructureReturn DEF InGroup

\* RemoveGroupIfEmpty, up to the delete.
LEMMA StructureCleanup ==
    ASSUME Structure, NEW c \in Conns, RemoveGroupIfEmpty(c)
    PROVE  Structure'
  <1>1. /\ pc[c] = "cleanup" /\ mgrLock = nil
        /\ UNCHANGED <<registry, grp, ConnID, displaced>>
        /\ pc \in [Conns -> Phases] /\ group[c] \in Conns /\ nil \notin Conns
    BY ConnsAssumption
       DEF RemoveGroupIfEmpty, connVars, Structure, StructureTypes, HandlersHoldGroups, Ptr
  <1>2. CASE registry[User[c]] = group[c] /\ IsEmpty(grp[group[c]])
    <2>1. mgrLock' = c /\ Goto(c, "deleting") /\ UNCHANGED group
      BY <1>2 DEF RemoveGroupIfEmpty
    <2>2. pc' = [pc EXCEPT ![c] = "deleting"]
      BY <2>1 DEF Goto
    <2>3. StructureTypes' /\ HandlersHoldGroups' /\ NextConnIDValid'
      BY <1>1, <2>1, <2>2 DEF Structure, StructureTypes, HandlersHoldGroups, NextConnIDValid, Phases,
                              Ptr, BridgePhases
    <2>4. GroupsOfAccount' /\ GroupInUse' /\ DisplacedPhases'
      BY <1>1, <2>1, <2>2 DEF Structure, StructureTypes, GroupsOfAccount, GroupInUse, DisplacedPhases
    <2>5. LockHeld'
      BY <1>1, <1>2, <2>1, <2>2 DEF Structure, LockHeld
    <2>6. SlotOwned'
      BY <1>1, <2>1, SlotsKeptOutside DEF InGroup
    <2> QED BY <2>3, <2>4, <2>5, <2>6 DEF Structure
  <1>3. CASE ~(registry[User[c]] = group[c] /\ IsEmpty(grp[group[c]]))
    <2>1. Return(c) /\ UNCHANGED mgrLock
      BY <1>3 DEF RemoveGroupIfEmpty
    <2>2. registry[User[c]] = group[c] =>
              \E x \in Conns : group[x] = group[c] /\ pc[x] \in InGroup
      BY <1>1, <1>3, MemberHoldsGroup
    <2> QED BY <1>1, <2>1, <2>2, StructureReturn DEF InGroup
  <1> QED BY <1>2, <1>3

\* The delete: the group is registered for no account afterwards.
LEMMA StructureDelete ==
    ASSUME Structure, NEW c \in Conns, DeleteGroup(c)
    PROVE  Structure'
  <1>1. /\ pc[c] = "deleting" /\ mgrLock = c /\ registry[User[c]] = group[c]
        /\ registry' = [registry EXCEPT ![User[c]] = nil] /\ mgrLock' = nil
        /\ pc' = [pc EXCEPT ![c] = "done"] /\ group' = [group EXCEPT ![c] = nil]
        /\ UNCHANGED <<grp, ConnID, displaced>>
        /\ pc \in [Conns -> Phases] /\ group \in [Conns -> Ptr] /\ registry \in [Users -> Ptr]
        /\ group[c] # nil /\ User[c] \in Users
    BY UsersAssumption
       DEF DeleteGroup, Return, Goto, connVars, Structure, StructureTypes, LockHeld, HandlersHoldGroups
  <1>2. StructureTypes' /\ HandlersHoldGroups' /\ NextConnIDValid'
    BY <1>1 DEF Structure, StructureTypes, HandlersHoldGroups, NextConnIDValid, Phases, Ptr, BridgePhases
  <1>3. GroupsOfAccount'
    <2>1. \A x \in Conns : group[x] # nil => group[x] \in Conns
      BY <1>1 DEF Ptr
    <2>2. \A u \in Users : registry[u] # nil => registry[u] \in Conns
      BY <1>1 DEF Ptr
    <2> QED BY <1>1, <2>1, <2>2 DEF Structure, GroupsOfAccount
  <1>4. LockHeld'
    BY <1>1 DEF Structure, LockHeld
  <1>5. GroupInUse'
    <2> SUFFICES ASSUME NEW u \in Users, registry'[u] # nil
                 PROVE  \E x \in Conns : group'[x] = registry'[u]
      BY DEF GroupInUse
    <2>1. u # User[c] /\ registry'[u] = registry[u]
      BY <1>1
    <2>2. PICK y \in Conns : group[y] = registry[u]
      BY <2>1 DEF Structure, GroupInUse
    <2>3. y # c
      BY <1>1, <2>1, <2>2 DEF Structure, GroupsOfAccount
    <2> QED BY <1>1, <2>1, <2>2, <2>3
  <1>6. DisplacedPhases'
    BY <1>1 DEF Structure, StructureTypes, DisplacedPhases
  <1>7. SlotOwned'
    BY <1>1, SlotsKeptOutside DEF Goto, InGroup
  <1> QED BY <1>2, <1>3, <1>4, <1>5, <1>6, <1>7 DEF Structure

\* A step inside handleBridge or handlePhone keeps who holds which group.
LEMMA HoldersKept ==
    ASSUME Structure, NEW c \in Conns, NEW phase \in Phases, Goto(c, phase),
           pc[c] \notin {"start", "done", "deleting"},
           phase \notin {"start", "done", "deleting"},
           phase \in BridgePhases => c \in BridgeConns,
           UNCHANGED <<registry, mgrLock, group>>
    PROVE  HandlersHoldGroups' /\ GroupsOfAccount' /\ LockHeld' /\ GroupInUse'
  <1>1. pc \in [Conns -> Phases] /\ pc' = [pc EXCEPT ![c] = phase]
    BY DEF Structure, StructureTypes, Goto
  <1>2. HandlersHoldGroups'
    BY <1>1 DEF Structure, HandlersHoldGroups
  <1>3. GroupsOfAccount' /\ LockHeld' /\ GroupInUse'
    BY <1>1 DEF Structure, StructureTypes, GroupsOfAccount, LockHeld, GroupInUse
  <1> QED BY <1>2, <1>3

\* AddBridge: whoever had the id is displaced.
LEMMA StructureAddBridge ==
    ASSUME Structure, NEW c \in Conns, AddBridge(c)
    PROVE  Structure'
  <1> DEFINE g == group[c]
             previous == grp[g].Bridges[BridgeID[c]]
  <1>1. /\ pc[c] = "stamped" /\ c \in BridgeConns /\ BridgeID[c] \in BridgeIDs
        /\ g \in Conns /\ pc \in [Conns -> Phases] /\ grp \in [Conns -> Group]
        /\ grp' = [grp EXCEPT ![g].Bridges = [grp[g].Bridges EXCEPT ![BridgeID[c]] = c]]
        /\ displaced' = displaced \cup ({previous} \ {nil})
        /\ Goto(c, "added") /\ pc' = [pc EXCEPT ![c] = "added"]
        /\ UNCHANGED <<registry, mgrLock, group, ConnID>>
    BY ConnsAssumption
       DEF AddBridge, Goto, mgrVars, connVars, Structure, StructureTypes, HandlersHoldGroups, BridgePhases, Ptr
  <1>2. /\ \A h \in Conns, id \in BridgeIDs :
              grp'[h].Bridges[id] = IF h = g /\ id = BridgeID[c] THEN c ELSE grp[h].Bridges[id]
        /\ \A h \in Conns : grp'[h].Phones = grp[h].Phones /\ grp'[h].NextConnID = grp[h].NextConnID
        /\ grp' \in [Conns -> Group]
    BY <1>1 DEF Group, BridgeMap, Ptr
  <1>3. BridgeEntry(g, BridgeID[c])
    BY <1>1 DEF Structure, SlotOwned
  <1>4. StructureTypes' /\ NextConnIDValid'
    <2>1. previous \in Ptr
      BY <1>1 DEF Group, BridgeMap
    <2> QED BY <1>1, <1>2, <2>1 DEF Structure, StructureTypes, NextConnIDValid, Phases, Ptr
  <1>5. HandlersHoldGroups' /\ GroupsOfAccount' /\ LockHeld' /\ GroupInUse'
    BY <1>1, HoldersKept DEF Phases, BridgePhases
  <1>6. DisplacedPhases'
    <2>1. previous # nil => /\ previous \in Conns /\ previous \in BridgeConns
                            /\ pc[previous] \in InGroup
      BY <1>3, ConnsAssumption DEF BridgeEntry
    <2> QED BY <1>1, <2>1 DEF Structure, StructureTypes, DisplacedPhases, InGroup
  <1>7. SlotOwned'
    <2>1. c \notin displaced /\ c # previous
      BY <1>1, <1>3, ConnsAssumption DEF Structure, DisplacedPhases, InGroup, BridgeEntry
    <2>2. ASSUME NEW h \in Conns, NEW id \in BridgeIDs
          PROVE  BridgeEntry(h, id)'
      <3>1. BridgeEntry(h, id)
        BY DEF Structure, SlotOwned
      <3>2. CASE h = g /\ id = BridgeID[c]
        BY <1>1, <1>2, <2>1, <3>2 DEF BridgeEntry, InGroup
      <3>3. CASE ~(h = g /\ id = BridgeID[c])
        <4> DEFINE b == grp[h].Bridges[id]
        <4>1. grp'[h].Bridges[id] = b
          BY <1>2, <3>3
        <4>2. ASSUME b # nil
              PROVE  /\ b \in BridgeConns /\ BridgeID[b] = id
                     /\ group'[b] = h /\ pc'[b] \in InGroup
                     /\ b \notin displaced'
          <5>1. b \in BridgeConns /\ BridgeID[b] = id /\ group[b] = h /\ pc[b] \in InGroup
                /\ b \notin displaced
            BY <3>1, <4>2 DEF BridgeEntry
          <5>2. b # previous
            BY <1>3, <3>3, <5>1, ConnsAssumption DEF BridgeEntry
          <5> QED BY <1>1, <5>1, <5>2, ConnsAssumption DEF InGroup
        <4> QED BY <4>1, <4>2 DEF BridgeEntry
      <3> QED BY <3>2, <3>3
    <2>3. ASSUME NEW h \in Conns, NEW k \in ConnIDs
          PROVE  PhoneEntry(h, k)'
      <3>1. PhoneEntry(h, k)
        BY DEF Structure, SlotOwned
      <3> QED BY <1>1, <1>2, <3>1 DEF PhoneEntry, PhoneConns
    <2>4. ASSUME NEW p \in PhoneConns, pc'[p] = "serving"
          PROVE  group'[p] # nil /\ grp'[group'[p]].Phones[ConnID'[p]] = p
      <3>1. p \in Conns /\ pc[p] = "serving"
        BY <1>1, <2>4 DEF PhoneConns
      <3>2. group[p] # nil /\ grp[group[p]].Phones[ConnID[p]] = p
        BY <2>4, <3>1 DEF Structure, SlotOwned
      <3>3. group[p] \in Conns
        BY <3>1, <3>2 DEF Structure, StructureTypes, Ptr
      <3> QED BY <1>1, <1>2, <3>2, <3>3
    <2>5. ASSUME NEW b \in BridgeConns, pc'[b] \in InGroup, b \notin displaced'
          PROVE  group'[b] # nil /\ Current(b)'
      <3>1. b \in Conns /\ BridgeID[b] \in BridgeIDs
        BY ConnsAssumption
      <3>2. CASE b = c
        BY <1>1, <1>2, <3>2, ConnsAssumption DEF Current, IsCurrentBridge
      <3>3. CASE b # c
        <4>1. pc[b] \in InGroup /\ b \notin displaced /\ b # previous
          BY <1>1, <2>5, <3>1, <3>3, ConnsAssumption
        <4>2. group[b] # nil /\ grp[group[b]].Bridges[BridgeID[b]] = b /\ b # previous
          BY <4>1 DEF Structure, SlotOwned, Current, IsCurrentBridge
        <4>3. group[b] \in Conns
          BY <3>1, <4>2 DEF Structure, StructureTypes, Ptr
        <4> QED BY <1>1, <1>2, <3>1, <4>2, <4>3 DEF Current, IsCurrentBridge
      <3> QED BY <3>2, <3>3
    <2> QED BY <2>2, <2>3, <2>4, <2>5 DEF SlotOwned
  <1> QED BY <1>4, <1>5, <1>6, <1>7 DEF Structure

\* AddPhone: the connId it is given is free and not the broadcast address.
LEMMA StructureAddPhone ==
    ASSUME Structure, NEW c \in Conns, AddPhone(c)
    PROVE  Structure'
  <1> DEFINE g == group[c]
  <1>1. /\ pc[c] = "joined" /\ c \in PhoneConns /\ c \notin BridgeConns
        /\ g \in Conns /\ pc \in [Conns -> Phases] /\ grp \in [Conns -> Group]
        /\ ConnID \in [Conns -> ConnIDs]
        /\ Goto(c, "serving") /\ pc' = [pc EXCEPT ![c] = "serving"]
        /\ UNCHANGED <<registry, mgrLock, group, displaced>>
    BY DEF AddPhone, Goto, mgrVars, Structure, StructureTypes, HandlersHoldGroups, Ptr, PhoneConns
  <1>2. PICK k0 \in ConnIDs :
            /\ assignConnIDLocked(grp[g], k0)
            /\ grp' = [grp EXCEPT ![g].Phones[k0] = c, ![g].NextConnID = NextAfter(k0)]
            /\ ConnID' = [ConnID EXCEPT ![c] = k0]
    BY DEF AddPhone
  <1>3. k0 # 0 /\ grp[g].Phones[k0] = nil
    BY <1>1, <1>2, LimitsAssumption DEF assignConnIDLocked, Structure, NextConnIDValid
  <1>4. /\ \A h \in Conns, k \in ConnIDs :
              grp'[h].Phones[k] = IF h = g /\ k = k0 THEN c ELSE grp[h].Phones[k]
        /\ \A h \in Conns : grp'[h].Bridges = grp[h].Bridges
        /\ \A h \in Conns :
              grp'[h].NextConnID = IF h = g THEN NextAfter(k0) ELSE grp[h].NextConnID
        /\ grp' \in [Conns -> Group]
    BY <1>1, <1>2, NextAfterType DEF Group, PhoneMap, Ptr
  <1>5. StructureTypes' /\ NextConnIDValid'
    BY <1>1, <1>2, <1>4, NextAfterType DEF Structure, StructureTypes, NextConnIDValid, Phases
  <1>6. HandlersHoldGroups' /\ GroupsOfAccount' /\ LockHeld' /\ GroupInUse'
    BY <1>1, HoldersKept DEF Phases, BridgePhases
  <1>7. DisplacedPhases'
    BY <1>1 DEF Structure, StructureTypes, DisplacedPhases, InGroup
  <1>8. SlotOwned'
    <2>1. ASSUME NEW h \in Conns, NEW id \in BridgeIDs
          PROVE  BridgeEntry(h, id)'
      <3>1. BridgeEntry(h, id)
        BY DEF Structure, SlotOwned
      <3> QED BY <1>1, <1>4, <3>1, ConnsAssumption DEF BridgeEntry
    <2>2. ASSUME NEW h \in Conns, NEW k \in ConnIDs
          PROVE  PhoneEntry(h, k)'
      <3>1. PhoneEntry(h, k)
        BY DEF Structure, SlotOwned
      <3>2. CASE h = g /\ k = k0
        BY <1>1, <1>2, <1>3, <1>4, <3>2 DEF PhoneEntry
      <3>3. CASE ~(h = g /\ k = k0)
        BY <1>1, <1>2, <1>4, <3>1, <3>3 DEF PhoneEntry, PhoneConns
      <3> QED BY <3>2, <3>3
    <2>3. ASSUME NEW p \in PhoneConns, pc'[p] = "serving"
          PROVE  group'[p] # nil /\ grp'[group'[p]].Phones[ConnID'[p]] = p
      <3>1. CASE p = c
        BY <1>1, <1>2, <1>4, <3>1, ConnsAssumption
      <3>2. CASE p # c
        <4>1. p \in Conns /\ pc[p] = "serving" /\ ConnID'[p] = ConnID[p] /\ ConnID[p] \in ConnIDs
          BY <1>1, <1>2, <2>3, <3>2 DEF PhoneConns
        <4>2. group[p] # nil /\ grp[group[p]].Phones[ConnID[p]] = p
          BY <2>3, <4>1 DEF Structure, SlotOwned
        <4>3. group[p] \in Conns /\ p # nil
          BY <4>1, <4>2, ConnsAssumption DEF Structure, StructureTypes, Ptr
        <4>4. ~(group[p] = g /\ ConnID[p] = k0)
          BY <1>3, <4>2, <4>3
        <4> QED BY <1>1, <1>4, <4>1, <4>2, <4>3, <4>4
      <3> QED BY <3>1, <3>2
    <2>4. ASSUME NEW b \in BridgeConns, pc'[b] \in InGroup, b \notin displaced'
          PROVE  group'[b] # nil /\ Current(b)'
      <3>1. b \in Conns /\ b # c /\ pc[b] \in InGroup
        BY <1>1, <2>4, ConnsAssumption
      <3>2. group[b] # nil /\ Current(b)
        BY <1>1, <2>4, <3>1 DEF Structure, SlotOwned
      <3>3. group[b] \in Conns
        BY <3>1, <3>2 DEF Structure, StructureTypes, Ptr
      <3> QED BY <1>1, <1>4, <3>2, <3>3 DEF Current, IsCurrentBridge
    <2> QED BY <2>1, <2>2, <2>3, <2>4 DEF SlotOwned
  <1> QED BY <1>5, <1>6, <1>7, <1>8 DEF Structure

\* RemoveBridge: only the current connection's entry goes.
LEMMA StructureRemoveBridge ==
    ASSUME Structure, NEW c \in Conns, RemoveBridge(c)
    PROVE  Structure'
  <1> DEFINE g == group[c]
  <1>1. /\ pc[c] = "serving" /\ c \in BridgeConns /\ BridgeID[c] \in BridgeIDs
        /\ g \in Conns /\ pc \in [Conns -> Phases] /\ grp \in [Conns -> Group]
        /\ UNCHANGED <<registry, mgrLock, group, ConnID, displaced>>
    BY ConnsAssumption
       DEF RemoveBridge, Leaving, mgrVars, connVars, Structure, StructureTypes, HandlersHoldGroups, Ptr
  <1>2. PICK phase \in {"removed", "cleanup"} :
            /\ Goto(c, phase)
            /\ phase = "removed" => c \notin displaced
            /\ \/ /\ grp[g].Bridges[BridgeID[c]] = c
                  /\ grp' = [grp EXCEPT ![g].Bridges = [grp[g].Bridges EXCEPT ![BridgeID[c]] = nil]]
               \/ grp[g].Bridges[BridgeID[c]] # c /\ grp' = grp
    <2>1. CASE Current(c)
      <3>1. BridgeEntry(g, BridgeID[c])
        BY <1>1 DEF Structure, SlotOwned
      <3>2. grp[g].Bridges[BridgeID[c]] = c /\ c # nil
        BY <2>1, ConnsAssumption DEF Current, IsCurrentBridge
      <3>3. c \notin displaced
        BY <3>1, <3>2 DEF BridgeEntry
      <3> QED BY <2>1, <3>2, <3>3 DEF RemoveBridge
    <2>2. CASE ~Current(c)
      BY <2>2 DEF RemoveBridge, Current, IsCurrentBridge
    <2> QED BY <2>1, <2>2
  <1>3. pc' = [pc EXCEPT ![c] = phase]
    BY <1>2 DEF Goto
  <1>4. /\ \A h \in Conns, id \in BridgeIDs :
              \/ grp'[h].Bridges[id] = grp[h].Bridges[id] /\ grp[h].Bridges[id] # c
              \/ grp'[h].Bridges[id] = nil /\ grp[h].Bridges[id] = c
        /\ \A h \in Conns : grp'[h].Phones = grp[h].Phones /\ grp'[h].NextConnID = grp[h].NextConnID
        /\ grp' \in [Conns -> Group]
    <2>1. \A h \in Conns, id \in BridgeIDs : grp[h].Bridges[id] = c => h = g /\ id = BridgeID[c]
      BY <1>1, ConnsAssumption DEF Structure, SlotOwned, BridgeEntry
    <2>2. CASE grp' = grp
      BY <1>1, <1>2, <2>1, <2>2, ConnsAssumption DEF Group, BridgeMap
    <2>3. CASE /\ grp[g].Bridges[BridgeID[c]] = c
               /\ grp' = [grp EXCEPT ![g].Bridges = [grp[g].Bridges EXCEPT ![BridgeID[c]] = nil]]
      BY <1>1, <2>1, <2>3 DEF Group, BridgeMap, Ptr
    <2> QED BY <1>2, <2>2, <2>3
  <1>5. StructureTypes' /\ NextConnIDValid'
    BY <1>1, <1>3, <1>4 DEF Structure, StructureTypes, NextConnIDValid, Phases
  <1>6. HandlersHoldGroups' /\ GroupsOfAccount' /\ LockHeld' /\ GroupInUse'
    BY <1>1, <1>2, HoldersKept DEF Phases, BridgePhases
  <1>7. DisplacedPhases'
    BY <1>1, <1>2, <1>3 DEF Structure, StructureTypes, DisplacedPhases, InGroup
  <1>8. SlotOwned'
    <2>1. ASSUME NEW h \in Conns, NEW id \in BridgeIDs
          PROVE  BridgeEntry(h, id)'
      <3>1. BridgeEntry(h, id)
        BY DEF Structure, SlotOwned
      <3>2. \/ grp'[h].Bridges[id] = nil
            \/ grp'[h].Bridges[id] = grp[h].Bridges[id] /\ grp[h].Bridges[id] # c
        BY <1>4
      <3> QED BY <1>1, <1>3, <3>1, <3>2, ConnsAssumption DEF BridgeEntry
    <2>2. ASSUME NEW h \in Conns, NEW k \in ConnIDs
          PROVE  PhoneEntry(h, k)'
      <3>1. PhoneEntry(h, k)
        BY DEF Structure, SlotOwned
      <3> QED BY <1>1, <1>3, <1>4, <3>1 DEF PhoneEntry, PhoneConns
    <2>3. ASSUME NEW p \in PhoneConns, pc'[p] = "serving"
          PROVE  group'[p] # nil /\ grp'[group'[p]].Phones[ConnID'[p]] = p
      <3>1. p \in Conns /\ pc[p] = "serving"
        BY <1>1, <1>3, <2>3 DEF PhoneConns
      <3>2. group[p] # nil /\ grp[group[p]].Phones[ConnID[p]] = p
        BY <2>3, <3>1 DEF Structure, SlotOwned
      <3>3. group[p] \in Conns
        BY <3>1, <3>2 DEF Structure, StructureTypes, Ptr
      <3> QED BY <1>1, <1>4, <3>2, <3>3
    <2>4. ASSUME NEW b \in BridgeConns, pc'[b] \in InGroup, b \notin displaced'
          PROVE  group'[b] # nil /\ Current(b)'
      <3>1. b \in Conns /\ BridgeID[b] \in BridgeIDs /\ b # c /\ pc[b] \in InGroup
        BY <1>1, <1>2, <1>3, <2>4, ConnsAssumption DEF InGroup
      <3>2. group[b] # nil /\ grp[group[b]].Bridges[BridgeID[b]] = b
        BY <1>1, <2>4, <3>1 DEF Structure, SlotOwned, Current, IsCurrentBridge
      <3>3. group[b] \in Conns
        BY <3>1, <3>2 DEF Structure, StructureTypes, Ptr
      <3> QED BY <1>1, <1>4, <3>1, <3>2, <3>3 DEF Current, IsCurrentBridge
    <2> QED BY <2>1, <2>2, <2>3, <2>4 DEF SlotOwned
  <1> QED BY <1>5, <1>6, <1>7, <1>8 DEF Structure

\* RemovePhone: the entry under its connId is its own.
LEMMA StructureRemovePhone ==
    ASSUME Structure, NEW c \in Conns, RemovePhone(c)
    PROVE  Structure'
  <1> DEFINE g == group[c]
  <1>1. /\ pc[c] = "serving" /\ c \in PhoneConns /\ c \notin BridgeConns
        /\ g \in Conns /\ pc \in [Conns -> Phases] /\ grp \in [Conns -> Group]
        /\ ConnID \in [Conns -> ConnIDs]
        /\ grp' = [grp EXCEPT ![g].Phones[ConnID[c]] = nil]
        /\ Goto(c, "cleanup") /\ pc' = [pc EXCEPT ![c] = "cleanup"]
        /\ UNCHANGED <<registry, mgrLock, group, ConnID, displaced>>
    BY DEF RemovePhone, Leaving, Goto, mgrVars, connVars, Structure, StructureTypes, HandlersHoldGroups,
           Ptr, PhoneConns
  <1>2. grp[g].Phones[ConnID[c]] = c
    BY <1>1 DEF Structure, SlotOwned
  <1>3. \A h \in Conns, k \in ConnIDs : grp[h].Phones[k] = c => h = g /\ k = ConnID[c]
    BY <1>1, ConnsAssumption DEF Structure, SlotOwned, PhoneEntry, PhoneConns
  <1>4. /\ \A h \in Conns, k \in ConnIDs :
              \/ grp'[h].Phones[k] = grp[h].Phones[k] /\ grp[h].Phones[k] # c
              \/ grp'[h].Phones[k] = nil /\ grp[h].Phones[k] = c
        /\ \A h \in Conns : grp'[h].Bridges = grp[h].Bridges /\ grp'[h].NextConnID = grp[h].NextConnID
        /\ grp' \in [Conns -> Group]
    BY <1>1, <1>2, <1>3 DEF Group, PhoneMap, Ptr
  <1>5. StructureTypes' /\ NextConnIDValid'
    BY <1>1, <1>4 DEF Structure, StructureTypes, NextConnIDValid, Phases
  <1>6. HandlersHoldGroups' /\ GroupsOfAccount' /\ LockHeld' /\ GroupInUse'
    BY <1>1, HoldersKept DEF Phases, BridgePhases
  <1>7. DisplacedPhases'
    BY <1>1 DEF Structure, StructureTypes, DisplacedPhases, InGroup
  <1>8. SlotOwned'
    <2>1. ASSUME NEW h \in Conns, NEW id \in BridgeIDs
          PROVE  BridgeEntry(h, id)'
      <3>1. BridgeEntry(h, id)
        BY DEF Structure, SlotOwned
      <3> QED BY <1>1, <1>4, <3>1, ConnsAssumption DEF BridgeEntry
    <2>2. ASSUME NEW h \in Conns, NEW k \in ConnIDs
          PROVE  PhoneEntry(h, k)'
      <3>1. PhoneEntry(h, k)
        BY DEF Structure, SlotOwned
      <3>2. \/ grp'[h].Phones[k] = nil
            \/ grp'[h].Phones[k] = grp[h].Phones[k] /\ grp[h].Phones[k] # c
        BY <1>4
      <3> QED BY <1>1, <3>1, <3>2 DEF PhoneEntry, PhoneConns
    <2>3. ASSUME NEW p \in PhoneConns, pc'[p] = "serving"
          PROVE  group'[p] # nil /\ grp'[group'[p]].Phones[ConnID'[p]] = p
      <3>1. p \in Conns /\ p # c /\ pc[p] = "serving" /\ ConnID[p] \in ConnIDs
        BY <1>1, <2>3 DEF PhoneConns
      <3>2. group[p] # nil /\ grp[group[p]].Phones[ConnID[p]] = p
        BY <2>3, <3>1 DEF Structure, SlotOwned
      <3>3. group[p] \in Conns
        BY <3>1, <3>2 DEF Structure, StructureTypes, Ptr
      <3> QED BY <1>1, <1>4, <3>1, <3>2, <3>3
    <2>4. ASSUME NEW b \in BridgeConns, pc'[b] \in InGroup, b \notin displaced'
          PROVE  group'[b] # nil /\ Current(b)'
      <3>1. b \in Conns /\ b # c /\ pc[b] \in InGroup
        BY <1>1, <2>4, ConnsAssumption
      <3>2. group[b] # nil /\ Current(b)
        BY <1>1, <2>4, <3>1 DEF Structure, SlotOwned
      <3>3. group[b] \in Conns
        BY <3>1, <3>2 DEF Structure, StructureTypes, Ptr
      <3> QED BY <1>1, <1>4, <3>2, <3>3 DEF Current, IsCurrentBridge
    <2> QED BY <2>1, <2>2, <2>3, <2>4 DEF SlotOwned
  <1> QED BY <1>5, <1>6, <1>7, <1>8 DEF Structure

\* The structure holds before any connection.
LEMMA StructureInit ==
    ASSUME Init
    PROVE  Structure
  <1> USE DEF Init
  <1>1. StructureTypes /\ NextConnIDValid
    <2>1. NewAccountGroup \in Group /\ NewAccountGroup.NextConnID = 1
      BY LimitsAssumption DEF NewAccountGroup, Group, BridgeMap, PhoneMap, Ptr, ConnIDs
    <2> QED BY <2>1, LimitsAssumption
            DEF StructureTypes, NextConnIDValid, Phases, Ptr, ConnIDs
  <1>2. HandlersHoldGroups /\ GroupsOfAccount /\ LockHeld /\ GroupInUse /\ DisplacedPhases
    BY DEF HandlersHoldGroups, BridgePhases, GroupsOfAccount, LockHeld, GroupInUse, DisplacedPhases
  <1>3. SlotOwned
    <2>1. \A g \in Conns, id \in BridgeIDs : grp[g].Bridges[id] = nil
      BY DEF NewAccountGroup
    <2>2. \A g \in Conns, k \in ConnIDs : grp[g].Phones[k] = nil
      BY DEF NewAccountGroup
    <2> QED BY <2>1, <2>2, ConnsAssumption
            DEF SlotOwned, BridgeEntry, PhoneEntry, PhoneConns, InGroup
  <1> QED BY <1>1, <1>2, <1>3 DEF Structure

\* Every step of the relay keeps the structure.
LEMMA StructureStep ==
    ASSUME Structure, [Next]_vars
    PROVE  Structure'
  <1>1. CASE Still
    BY <1>1, StructureStill
  <1>2. ASSUME NEW c \in Conns,
               \/ Walk(c) \/ GetOrCreateGroup(c) \/ RejectFull(c)
               \/ AddBridge(c) \/ AddPhone(c) \/ RemoveBridge(c) \/ RemovePhone(c)
               \/ RemoveGroupIfEmpty(c) \/ DeleteGroup(c)
        PROVE  Structure'
    BY <1>2, StructureWalk, StructureJoin, StructureReject, StructureAddBridge, StructureAddPhone,
       StructureRemoveBridge, StructureRemovePhone, StructureCleanup, StructureDelete
  <1> QED BY <1>1, <1>2, Shapes

-------------------------------------------------------------------------------
(* Theorems about the groups *)

\* The structure of the groups is an invariant of the relay.
THEOREM StructureCorrect == Spec => []Structure
  <1>1. Init => Structure
    BY StructureInit
  <1>2. Structure /\ [Next]_vars => Structure'
    BY StructureStep
  <1> QED BY <1>1, <1>2, PTL DEF Spec

\* Map entries and handlers agree, however handlers interleave: RemovePhone and
\* RemoveBridge never remove somebody else's entry.
THEOREM SlotsCorrect == Spec => []SlotOwned
  <1>1. Structure => SlotOwned
    BY DEF Structure
  <1> QED BY <1>1, StructureCorrect, PTL

\* A group is gone from the manager once no handler of its account is at work:
\* no way out of the handlers leaks one.
THEOREM TornDownCorrect == Spec => []TornDown
  <1>1. Structure => TornDown
    <2> SUFFICES ASSUME Structure, NEW u \in Users, registry[u] # nil,
                        \A c \in Conns : User[c] = u => pc[c] \in {"start", "done"}
                 PROVE  FALSE
      BY DEF TornDown
    <2>1. PICK c \in Conns : group[c] = registry[u]
      BY DEF Structure, GroupInUse
    <2>2. User[c] = u
      BY <2>1 DEF Structure, GroupsOfAccount
    <2> QED BY <2>1, <2>2 DEF Structure, HandlersHoldGroups
  <1> QED BY <1>1, StructureCorrect, PTL

\* A displaced connection never announces or reports that its bridge is gone.
THEOREM DisplacedSilentCorrect == Spec => []DisplacedSilent
  <1>1. Structure => DisplacedSilent
    BY DEF Structure, DisplacedPhases, DisplacedSilent, InGroup
  <1> QED BY <1>1, StructureCorrect, PTL

-------------------------------------------------------------------------------
(* What is written and received *)

\* Control messages to connections of S.
ControlWrite(S) == {w \in Write : w.type # "data" /\ w.to \in S}

\* The connections in groups, and the one whose handler is at work.
Present(c) == {x \in Conns : pc[x] \in InGroup} \cup {c}

\* A step that announces something to connections in groups, or nothing.
Announces(c) ==
    /\ UNCHANGED sockVars
    /\ \/ UNCHANGED writeVars
       \/ \E sequences \in SUBSET (Seq(ControlWrite(Present(c))) \ {<<>>}) :
              Announce(c, sequences)

\* The messages about phones and bridges are control messages.
LEMMA ControlTyped ==
    ASSUME NEW S \in SUBSET Conns, NEW c \in S
    PROVE  /\ \A id \in BridgeIDs \cup {NoID} :
                 \A type \in NoticeTypes \cup {"bridge_online", "bridge_offline"} :
                    ToPhone(c, type, id) \in ControlWrite(S)
           /\ \A k \in ConnIDs : \A type \in {"phone_connected", "phone_disconnected"} :
                    ToBridge(c, type, k) \in ControlWrite(S)
  <1>1. 0 \in ConnIDs
    BY LimitsAssumption DEF ConnIDs
  <1> QED BY <1>1 DEF ToPhone, ToBridge, ControlWrite, Write, WriteTypes, NoticeTypes, Ptr

\* Data between peers is a safe write.
LEMMA DataSafe ==
    ASSUME NEW a \in Conns, NEW b \in Conns, NEW k \in ConnIDs, Peers(a, b)
    PROVE  DataFrame(a, b, k) \in SafeWrite
  BY DEF DataFrame, SafeWrite, Write, WriteTypes, Ptr

\* The writes made for the target changes of a group are control messages to its
\* members before and after, at least one for every change.
LEMMA ChangesControl ==
    ASSUME StructureTypes, NEW S \in SUBSET Conns, NEW g \in Group, NEW after \in BridgeMap,
           AllPhones(g) \subseteq S, LiveBridges(g.Bridges) \subseteq S,
           LiveBridges(after) \subseteq S,
           NEW ch \in changeBridgesLocked(g, after, ConnectedAt)
    PROVE  announceTargetChanges(ch) \in Seq(ControlWrite(S)) \ {<<>>}
  <1>2. PICK p \in AllPhones(g) :
            LET old == targetLocked(g.Bridges, ConnectedAt, p)
                new == targetLocked(after, ConnectedAt, p)
            IN  ch = [phone |-> p,
                      previous |-> IF old # nil /\ after[BridgeID[old]] = old THEN old ELSE nil,
                      previousBridgeID |-> IF old = nil THEN NoID ELSE BridgeID[old],
                      next |-> new]
    BY DEF changeBridgesLocked
  <1>3. p \in S /\ p \in Conns /\ g.Bridges \in BridgeMap
    BY DEF Group
  <1>4. /\ targetLocked(g.Bridges, ConnectedAt, p) \in S \cup {nil}
        /\ targetLocked(after, ConnectedAt, p) \in S \cup {nil}
    BY <1>3, TargetInMap
  <1>5. /\ ch.phone \in S /\ ch.previous \in S \cup {nil} /\ ch.next \in S \cup {nil}
        /\ ch.previousBridgeID \in BridgeIDs \cup {NoID}
        /\ ConnID[ch.phone] \in ConnIDs
    BY <1>2, <1>3, <1>4, ConnsAssumption DEF StructureTypes
  <1> DEFINE k == ConnID[ch.phone]
             left == IF ch.previous = nil THEN <<>>
                     ELSE <<ToBridge(ch.previous, "phone_disconnected", k)>>
             moved == IF ch.next = nil
                      THEN <<ToPhone(ch.phone, "bridge_disconnected", ch.previousBridgeID)>>
                      ELSE <<ToPhone(ch.phone, "bridge_connected", BridgeID[ch.next]),
                             ToBridge(ch.next, "phone_connected", k)>>
  <1>6. left \in Seq(ControlWrite(S))
    <2>1. CASE ch.previous = nil
      BY <2>1
    <2>2. CASE ch.previous # nil
      <3>1. ToBridge(ch.previous, "phone_disconnected", k) \in ControlWrite(S)
        BY <1>5, <2>2, ControlTyped
      <3> QED BY <2>2, <3>1
    <2> QED BY <2>1, <2>2
  <1>7. moved \in Seq(ControlWrite(S)) /\ Len(moved) > 0
    <2>1. CASE ch.next = nil
      <3>1. ToPhone(ch.phone, "bridge_disconnected", ch.previousBridgeID) \in ControlWrite(S)
        BY <1>5, ControlTyped DEF NoticeTypes
      <3> QED BY <2>1, <3>1
    <2>2. CASE ch.next # nil
      <3>1. ch.next \in S /\ BridgeID[ch.next] \in BridgeIDs \cup {NoID}
        BY <1>5, <2>2, ConnsAssumption
      <3>2. ToPhone(ch.phone, "bridge_connected", BridgeID[ch.next]) \in ControlWrite(S)
        BY <1>5, <3>1, ControlTyped DEF NoticeTypes
      <3>3. ToBridge(ch.next, "phone_connected", k) \in ControlWrite(S)
        BY <1>5, <3>1, ControlTyped
      <3> QED BY <2>2, <3>2, <3>3
    <2> QED BY <2>1, <2>2
  <1>8. announceTargetChanges(ch) = left \o moved
    BY DEF announceTargetChanges
  <1> HIDE DEF left, moved
  <1>9. left \o moved \in Seq(ControlWrite(S)) /\ Len(left \o moved) > 0
    BY <1>6, <1>7
  <1> QED BY <1>8, <1>9

\* A presence announcement is a set of control messages to the phones.
LEMMA PresenceControl ==
    ASSUME NEW S \in SUBSET Conns, NEW phones \in SUBSET S, NEW id \in BridgeIDs \cup {NoID},
           NEW type \in {"bridge_online", "bridge_offline"}
    PROVE  announcePresence(phones, id, type) \in SUBSET (Seq(ControlWrite(S)) \ {<<>>})
  <1>1. \A p \in phones : ToPhone(p, type, id) \in ControlWrite(S)
    BY ControlTyped
  <1>2. \A p \in phones : <<ToPhone(p, type, id)>> \in Seq(ControlWrite(S)) \ {<<>>}
    BY <1>1
  <1> QED BY <1>2 DEF announcePresence

\* Members of a group and a connection that holds it are of one account.
LEMMA SameAccount ==
    ASSUME Structure, NEW c \in Conns, group[c] # nil
    PROVE  /\ \A p \in AllPhones(grp[group[c]]) :
                 p \in PhoneConns /\ User[p] = User[c]
           /\ \A b \in LiveBridges(grp[group[c]].Bridges) :
                 b \in BridgeConns /\ User[b] = User[c]
           /\ \A id \in BridgeIDs :
                 LET b == grp[group[c]].Bridges[id] IN b # nil => BridgeID[b] = id
           /\ grp[group[c]] \in Group
  <1>1. group[c] \in Conns /\ grp[group[c]] \in Group
    BY DEF Structure, StructureTypes, Ptr
  <1>2. ASSUME NEW p \in AllPhones(grp[group[c]])
        PROVE  p \in PhoneConns /\ User[p] = User[c]
    <2>1. PICK k \in ConnIDs : p = grp[group[c]].Phones[k] /\ p # nil
      BY DEF AllPhones, UsedConnIDs
    <2>2. p \in PhoneConns /\ group[p] = group[c]
      BY <1>1, <2>1 DEF Structure, SlotOwned, PhoneEntry
    <2> QED BY <1>1, <2>2, ConnsAssumption DEF Structure, GroupsOfAccount, PhoneConns
  <1>3. ASSUME NEW b \in LiveBridges(grp[group[c]].Bridges)
        PROVE  b \in BridgeConns /\ User[b] = User[c]
    <2>1. PICK id \in BridgeIDs : b = grp[group[c]].Bridges[id] /\ b # nil
      BY DEF LiveBridges, Online
    <2>2. b \in BridgeConns /\ group[b] = group[c]
      BY <1>1, <2>1 DEF Structure, SlotOwned, BridgeEntry
    <2> QED BY <1>1, <2>2, ConnsAssumption DEF Structure, GroupsOfAccount
  <1>4. \A id \in BridgeIDs :
            LET b == grp[group[c]].Bridges[id] IN b # nil => BridgeID[b] = id
    BY <1>1 DEF Structure, SlotOwned, BridgeEntry
  <1> QED BY <1>1, <1>2, <1>3, <1>4

\* They are present.
LEMMA MembersPresent ==
    ASSUME Structure, NEW c \in Conns, group[c] # nil
    PROVE  /\ Present(c) \in SUBSET Conns
           /\ AllPhones(grp[group[c]]) \subseteq Present(c)
           /\ LiveBridges(grp[group[c]].Bridges) \subseteq Present(c)
  <1>1. group[c] \in Conns
    BY DEF Structure, StructureTypes, Ptr
  <1>2. ASSUME NEW p \in AllPhones(grp[group[c]])
        PROVE  p \in Present(c)
    <2>1. PICK k \in ConnIDs : p = grp[group[c]].Phones[k] /\ p # nil
      BY DEF AllPhones, UsedConnIDs
    <2>2. PhoneEntry(group[c], k)
      BY <1>1 DEF Structure, SlotOwned
    <2> QED BY <2>1, <2>2 DEF PhoneEntry, PhoneConns, Present, InGroup
  <1>3. ASSUME NEW b \in LiveBridges(grp[group[c]].Bridges)
        PROVE  b \in Present(c)
    <2>1. PICK id \in BridgeIDs : b = grp[group[c]].Bridges[id] /\ b # nil
      BY DEF LiveBridges, Online
    <2>2. BridgeEntry(group[c], id)
      BY <1>1 DEF Structure, SlotOwned
    <2> QED BY <2>1, <2>2, ConnsAssumption DEF BridgeEntry, Present
  <1> QED BY <1>2, <1>3 DEF Present

\* A phone of a group and its target are peers.
LEMMA TargetIsPeer ==
    ASSUME Structure, NEW c \in Conns, group[c] # nil, NEW p \in PhoneConns, User[p] = User[c],
           NEW b, b = targetLocked(grp[group[c]].Bridges, ConnectedAt, p), b # nil
    PROVE  b \in BridgeConns /\ Peers(p, b) /\ Peers(b, p)
  <1>1. p \in Conns /\ p \notin BridgeConns /\ grp[group[c]].Bridges \in BridgeMap
    BY SameAccount DEF PhoneConns, Group
  <1>2. /\ b \in LiveBridges(grp[group[c]].Bridges)
        /\ BridgeID[p] # NoID => b = grp[group[c]].Bridges[BridgeID[p]]
    BY <1>1, TargetInMap
  <1>3. b \in BridgeConns /\ User[b] = User[p]
    BY <1>2, SameAccount
  <1>4. BridgeID[p] # NoID => BridgeID[b] = BridgeID[p]
    <2>1. BridgeID[p] # NoID => BridgeID[p] \in BridgeIDs
      BY <1>1, ConnsAssumption
    <2> QED BY <1>2, <2>1, SameAccount
  <1> QED BY <1>1, <1>3, <1>4 DEF Peers

\* A client stays well-formed and unharmed by a safe write.
LEMMA ReceivedSafe ==
    ASSUME Traffic, NEW w \in SafeWrite
    PROVE  /\ w.to \in Conns
           /\ Received(w) \in Client
           /\ \A s \in Received(w).heard : s \in Conns /\ Peers(s, w.to)
  <1> DEFINE old == client[w.to]
  <1>1. /\ w.to \in Conns /\ w.id \in BridgeIDs \cup {NoID} /\ w.connID \in ConnIDs
        /\ w.from \in Ptr /\ w.type \in WriteTypes
        /\ w.type = "data" => w.from \in Conns /\ Peers(w.from, w.to)
    BY DEF SafeWrite, Write
  <1>2. old \in Client /\ \A s \in old.heard : s \in Conns /\ Peers(s, w.to)
    BY <1>1 DEF Traffic
  <1>3. CASE w.type \in NoticeTypes
    <2>1. Received(w) = [old EXCEPT !.notice = [type |-> w.type, id |-> w.id]]
      BY <1>3 DEF Received, NoticeTypes
    <2>2. [type |-> w.type, id |-> w.id] \in Notice
      BY <1>1, <1>3 DEF Notice
    <2> QED BY <1>1, <1>2, <2>1, <2>2 DEF Client
  <1>4. CASE w.type \in {"bridge_online", "bridge_offline"}
    <2>1. Received(w) = [old EXCEPT !.presence[w.id] = w.type]
      BY <1>4 DEF Received, NoticeTypes
    <2>2. [old.presence EXCEPT ![w.id] = w.type]
              \in [BridgeIDs -> {"unknown", "bridge_online", "bridge_offline"}]
      BY <1>2, <1>4 DEF Client
    <2> QED BY <1>1, <1>2, <2>1, <2>2 DEF Client
  <1>5. CASE w.type = "phone_connected"
    <2>1. Received(w) = [old EXCEPT !.roster = @ \cup {w.connID}]
      BY <1>5 DEF Received, NoticeTypes
    <2> QED BY <1>1, <1>2, <2>1 DEF Client
  <1>6. CASE w.type = "phone_disconnected"
    <2>1. Received(w) = [old EXCEPT !.roster = @ \ {w.connID}]
      BY <1>6 DEF Received, NoticeTypes
    <2> QED BY <1>1, <1>2, <2>1 DEF Client
  <1>7. CASE w.type = "data"
    <2>1. Received(w) = [old EXCEPT !.heard = @ \cup {w.from}]
      BY <1>7 DEF Received, NoticeTypes
    <2> QED BY <1>1, <1>2, <1>7, <2>1 DEF Client
  <1> QED BY <1>1, <1>3, <1>4, <1>5, <1>6, <1>7 DEF WriteTypes

\* A client that hung up knows nothing.
LEMMA NewClientType == NewClient \in Client /\ NewClient.heard = {}
  BY DEF NewClient, Client, Notice

\* Losing a connection keeps the traffic safe.
LEMMA TrafficHangUp ==
    ASSUME Traffic, NEW c, HangUp(c), UNCHANGED <<jobs, out>>
    PROVE  Traffic'
  <1>1. client \in [Conns -> Client] /\ client' = [client EXCEPT ![c] = NewClient]
    BY DEF Traffic, HangUp
  <1>2. client' \in [Conns -> Client]
    BY <1>1, NewClientType
  <1>3. ASSUME NEW x \in Conns, NEW s \in client'[x].heard
        PROVE  s \in Conns /\ Peers(s, x)
    BY <1>1, <1>3, NewClientType DEF Traffic
  <1> QED BY <1>2, <1>3 DEF Traffic

\* So does beginning to write safe writes.
LEMMA TrafficAnnounce ==
    ASSUME Traffic, NEW c, NEW sequences \in SUBSET (Seq(SafeWrite) \ {<<>>}),
           Announce(c, sequences), UNCHANGED client
    PROVE  Traffic'
  <1>1. jobs' = [jobs EXCEPT ![c] = sequences] /\ out' = out
    BY DEF Announce
  <1> QED BY <1>1 DEF Traffic

\* So does one write.
LEMMA TrafficWrite ==
    ASSUME Traffic, NEW c \in Conns, WriteNext(c)
    PROVE  Traffic'
  <1>1. PICK s \in IF out[c] # <<>> THEN {out[c]} ELSE jobs[c] :
            /\ out' = [out EXCEPT ![c] = Tail(s)]
            /\ jobs' = [jobs EXCEPT ![c] = IF out[c] # <<>> THEN @ ELSE @ \ {s}]
            /\ \/ client' = [client EXCEPT ![Head(s).to] = Received(Head(s))]
               \/ HangUp(Head(s).to)
    BY DEF WriteNext
  <1>2. s \in Seq(SafeWrite) /\ s # <<>>
    BY <1>1 DEF Traffic
  <1>3. Head(s) \in SafeWrite /\ Tail(s) \in Seq(SafeWrite)
    BY <1>2
  <1>4. out' \in [Conns -> Seq(SafeWrite)]
    BY <1>1, <1>3 DEF Traffic
  <1>5. jobs' \in [Conns -> SUBSET (Seq(SafeWrite) \ {<<>>})]
    <2>1. CASE out[c] # <<>>
      BY <1>1, <2>1 DEF Traffic
    <2>2. CASE out[c] = <<>>
      BY <1>1, <2>2 DEF Traffic
    <2> QED BY <2>1, <2>2
  <1> DEFINE w == Head(s)
  <1>6. PICK k : /\ client' = [client EXCEPT ![w.to] = k] /\ k \in Client
                 /\ \A x \in k.heard : x \in Conns /\ Peers(x, w.to)
    <2>1. CASE client' = [client EXCEPT ![w.to] = Received(w)]
      BY <1>3, <2>1, ReceivedSafe
    <2>2. CASE HangUp(w.to)
      BY <2>2, NewClientType DEF HangUp
    <2> QED BY <1>1, <2>1, <2>2
  <1>7. client' \in [Conns -> Client]
    BY <1>6 DEF Traffic
  <1>8. ASSUME NEW x \in Conns, NEW y \in client'[x].heard
        PROVE  y \in Conns /\ Peers(y, x)
    BY <1>6, <1>8 DEF Traffic
  <1> QED BY <1>4, <1>5, <1>7, <1>8 DEF Traffic

\* A bridge sends data only to phones that target it.
LEMMA TrafficBridgeFrame ==
    ASSUME Structure, Traffic, NEW c \in Conns, BridgeFrame(c)
    PROVE  Traffic'
  <1> DEFINE g == grp[group[c]]
  <1>1. c \in BridgeConns /\ group[c] # nil /\ UNCHANGED client
    BY DEF BridgeFrame, Reading, sockVars, Structure, HandlersHoldGroups
  <1>2. PICK k \in ConnIDs :
            Announce(c, {<<DataFrame(c, p, 0)>> :
                p \in IF k = 0 THEN PhonesTargeting(g, ConnectedAt, c)
                      ELSE PhoneTargeting(g, ConnectedAt, c, k)})
    BY DEF BridgeFrame
  <1> DEFINE targets == IF k = 0 THEN PhonesTargeting(g, ConnectedAt, c)
                        ELSE PhoneTargeting(g, ConnectedAt, c, k)
  <1>3. ASSUME NEW p \in targets
        PROVE  p \in Conns /\ Peers(c, p)
    <2>1. p \in AllPhones(g) /\ targetLocked(g.Bridges, ConnectedAt, p) = c
      BY <1>3 DEF PhonesTargeting, PhoneTargeting, AllPhones, UsedConnIDs
    <2>2. p \in PhoneConns /\ User[p] = User[c]
      BY <1>1, <2>1, SameAccount
    <2>3. c # nil
      BY ConnsAssumption
    <2> QED BY <1>1, <2>1, <2>2, <2>3, TargetIsPeer DEF PhoneConns
  <1>4. 0 \in ConnIDs
    BY LimitsAssumption DEF ConnIDs
  <1>5. \A p \in targets : DataFrame(c, p, 0) \in SafeWrite
    BY <1>3, <1>4, DataSafe
  <1>6. {<<DataFrame(c, p, 0)>> : p \in targets} \in SUBSET (Seq(SafeWrite) \ {<<>>})
    <2> HIDE DEF targets
    <2>1. \A p \in targets : <<DataFrame(c, p, 0)>> \in Seq(SafeWrite) \ {<<>>}
      BY <1>5
    <2> QED BY <2>1
  <1> QED BY <1>1, <1>2, <1>6, TrafficAnnounce

\* A phone sends data only to its target.
LEMMA TrafficPhoneFrame ==
    ASSUME Structure, Traffic, NEW c \in Conns, PhoneFrame(c)
    PROVE  Traffic'
  <1> DEFINE bridge == BridgeForPhone(grp[group[c]], ConnectedAt, c, ConnID[c])
  <1>1. /\ c \in PhoneConns /\ group[c] # nil /\ UNCHANGED client
        /\ bridge # nil
        /\ Announce(c, {<<DataFrame(c, bridge, ConnID[c])>>})
        /\ ConnID[c] \in ConnIDs
    BY DEF PhoneFrame, Reading, sockVars, Structure, HandlersHoldGroups, StructureTypes
  <1>2. bridge = targetLocked(grp[group[c]].Bridges, ConnectedAt, c)
    BY <1>1 DEF BridgeForPhone
  <1>3. bridge \in BridgeConns /\ Peers(c, bridge)
    BY <1>1, <1>2, TargetIsPeer
  <1>4. DataFrame(c, bridge, ConnID[c]) \in SafeWrite
    BY <1>1, <1>3, DataSafe, ConnsAssumption
  <1>5. {<<DataFrame(c, bridge, ConnID[c])>>} \in SUBSET (Seq(SafeWrite) \ {<<>>})
    <2> HIDE DEF bridge
    <2> QED BY <1>4
  <1> QED BY <1>1, <1>5, TrafficAnnounce

\* AddBridge and RemoveBridge announce the target changes they computed.
LEMMA AnnouncesBridgeChange ==
    ASSUME Structure, NEW c \in Conns, AddBridge(c) \/ RemoveBridge(c)
    PROVE  Announces(c)
  <1> DEFINE g == grp[group[c]]
             writes(after) == {announceTargetChanges(ch) :
                                   ch \in changeBridgesLocked(g, after, ConnectedAt)}
  <1>1. /\ c \in BridgeConns /\ BridgeID[c] \in BridgeIDs /\ group[c] \in Conns
        /\ g \in Group /\ g.Bridges \in BridgeMap /\ StructureTypes
    BY ConnsAssumption DEF AddBridge, RemoveBridge, Leaving, Structure, StructureTypes,
                           HandlersHoldGroups, BridgePhases, Ptr, Group
  <1>2. ASSUME NEW x \in {c, nil}
        PROVE  LET after == [g.Bridges EXCEPT ![BridgeID[c]] = x]
               IN  writes(after) \in SUBSET (Seq(ControlWrite(Present(c))) \ {<<>>})
    <2> DEFINE after == [g.Bridges EXCEPT ![BridgeID[c]] = x]
    <2>1. after \in BridgeMap
      BY <1>1 DEF BridgeMap, Ptr
    <2>2. /\ Present(c) \in SUBSET Conns /\ AllPhones(g) \subseteq Present(c)
          /\ LiveBridges(g.Bridges) \subseteq Present(c)
      BY <1>1, MembersPresent, ConnsAssumption
    <2>3. LiveBridges(after) \subseteq LiveBridges(g.Bridges) \cup {c}
      BY <1>1 DEF LiveBridges, Online, BridgeMap
    <2>4. LiveBridges(after) \subseteq Present(c)
      BY <2>2, <2>3 DEF Present
    <2> HIDE DEF after
    <2>5. \A ch \in changeBridgesLocked(g, after, ConnectedAt) :
              announceTargetChanges(ch) \in Seq(ControlWrite(Present(c))) \ {<<>>}
      BY <1>1, <2>1, <2>2, <2>4, ChangesControl
    <2> QED BY <2>5 DEF after
  <1>3. CASE AddBridge(c)
    <2>1. Announce(c, writes([g.Bridges EXCEPT ![BridgeID[c]] = c])) /\ UNCHANGED sockVars
      BY <1>3 DEF AddBridge
    <2> HIDE DEF writes
    <2> QED BY <1>2, <2>1 DEF Announces
  <1>4. CASE RemoveBridge(c) /\ Current(c)
    <2>1. Announce(c, writes([g.Bridges EXCEPT ![BridgeID[c]] = nil])) /\ UNCHANGED sockVars
      BY <1>4 DEF RemoveBridge
    <2> HIDE DEF writes
    <2> QED BY <1>2, <2>1 DEF Announces
  <1>5. CASE RemoveBridge(c) /\ ~Current(c)
    BY <1>5 DEF RemoveBridge, Announces
  <1> QED BY <1>3, <1>4, <1>5

\* The presence of a bridge is announced to all phones of its group.
LEMMA AnnouncesPresence ==
    ASSUME Structure, NEW c \in Conns, AnnounceOnline(c) \/ AnnounceOffline(c)
    PROVE  Announces(c)
  <1>1. group[c] # nil /\ BridgeID[c] \in BridgeIDs \cup {NoID} /\ UNCHANGED sockVars
    BY ConnsAssumption DEF AnnounceOnline, AnnounceOffline, Structure, HandlersHoldGroups
  <1>2. Present(c) \in SUBSET Conns /\ AllPhones(grp[group[c]]) \in SUBSET Present(c)
    BY <1>1, MembersPresent
  <1>3. PICK type \in {"bridge_online", "bridge_offline"} :
            Announce(c, announcePresence(AllPhones(grp[group[c]]), BridgeID[c], type))
    BY DEF AnnounceOnline, AnnounceOffline
  <1>4. announcePresence(AllPhones(grp[group[c]]), BridgeID[c], type)
            \in SUBSET (Seq(ControlWrite(Present(c))) \ {<<>>})
    BY <1>1, <1>2, PresenceControl
  <1> QED BY <1>1, <1>3, <1>4 DEF Announces

\* A phone that comes tells its target and hears of it; one that goes tells it.
LEMMA AnnouncesPhone ==
    ASSUME Structure, NEW c \in Conns, AddPhone(c) \/ RemovePhone(c)
    PROVE  Announces(c)
  <1> DEFINE target == targetLocked(grp[group[c]].Bridges, ConnectedAt, c)
  <1>1. group[c] # nil /\ UNCHANGED sockVars /\ ConnID[c] \in ConnIDs
    BY DEF AddPhone, RemovePhone, Leaving, Structure, StructureTypes, HandlersHoldGroups
  <1>2. grp[group[c]].Bridges \in BridgeMap
    BY <1>1, SameAccount DEF Group
  <1>3. Present(c) \in SUBSET Conns /\ c \in Present(c) /\ target \in Present(c) \cup {nil}
    BY <1>1, <1>2, TargetInMap, MembersPresent DEF Present
  <1>4. \A x \in Present(c) : BridgeID[x] \in BridgeIDs \cup {NoID}
    BY <1>3, ConnsAssumption
  <1> HIDE DEF target
  <1>5. ASSUME NEW k \in ConnIDs
        PROVE  {IF target = nil
                THEN <<ToPhone(c, "bridge_disconnected", BridgeID[c])>>
                ELSE <<ToBridge(target, "phone_connected", k),
                       ToPhone(c, "bridge_connected", BridgeID[target])>>}
                   \in SUBSET (Seq(ControlWrite(Present(c))) \ {<<>>})
    <2>1. CASE target = nil
      <3>1. ToPhone(c, "bridge_disconnected", BridgeID[c]) \in ControlWrite(Present(c))
        BY <1>3, <1>4, ControlTyped DEF NoticeTypes
      <3> QED BY <2>1, <3>1
    <2>2. CASE target # nil
      <3>1. ToBridge(target, "phone_connected", k) \in ControlWrite(Present(c))
        BY <1>3, <2>2, ControlTyped
      <3>2. ToPhone(c, "bridge_connected", BridgeID[target]) \in ControlWrite(Present(c))
        BY <1>3, <1>4, <2>2, ControlTyped DEF NoticeTypes
      <3> QED BY <2>2, <3>1, <3>2
    <2> QED BY <2>1, <2>2
  <1>6. {} \in SUBSET (Seq(ControlWrite(Present(c))) \ {<<>>})
    OBVIOUS
  <1>7. target # nil => {<<ToBridge(target, "phone_disconnected", ConnID[c])>>}
                            \in SUBSET (Seq(ControlWrite(Present(c))) \ {<<>>})
    <2>1. target # nil => ToBridge(target, "phone_disconnected", ConnID[c]) \in ControlWrite(Present(c))
      BY <1>1, <1>3, ControlTyped
    <2> QED BY <2>1
  <1>8. CASE AddPhone(c)
    <2>1. PICK k \in ConnIDs :
              Announce(c, {IF target = nil
                           THEN <<ToPhone(c, "bridge_disconnected", BridgeID[c])>>
                           ELSE <<ToBridge(target, "phone_connected", k),
                                  ToPhone(c, "bridge_connected", BridgeID[target])>>})
      BY <1>8 DEF AddPhone, target
    <2> QED BY <1>1, <1>5, <2>1 DEF Announces
  <1>9. CASE RemovePhone(c)
    <2>1. CASE target = nil
      <3>1. Announce(c, {})
        BY <1>9, <2>1 DEF RemovePhone, target
      <3> QED BY <1>1, <1>6, <3>1 DEF Announces
    <2>2. CASE target # nil
      <3>1. Announce(c, {<<ToBridge(target, "phone_disconnected", ConnID[c])>>})
        BY <1>9, <2>2 DEF RemovePhone, target
      <3> QED BY <1>1, <1>7, <2>2, <3>1 DEF Announces
    <2> QED BY <2>1, <2>2
  <1> QED BY <1>8, <1>9

\* Control messages are safe.
LEMMA TrafficAnnounces ==
    ASSUME Traffic, NEW c \in Conns, Announces(c)
    PROVE  Traffic'
  <1>1. CASE UNCHANGED writeVars
    BY <1>1 DEF Announces, sockVars, writeVars, Traffic
  <1>2. CASE ~UNCHANGED writeVars
    <2>1. PICK sequences \in SUBSET (Seq(ControlWrite(Present(c))) \ {<<>>}) :
              Announce(c, sequences) /\ UNCHANGED client
      BY <1>2 DEF Announces, sockVars
    <2>2. ControlWrite(Present(c)) \subseteq SafeWrite
      BY DEF ControlWrite, SafeWrite
    <2>3. ASSUME NEW s \in Seq(ControlWrite(Present(c)))
          PROVE  s \in Seq(SafeWrite)
      BY <2>2
    <2>4. sequences \in SUBSET (Seq(SafeWrite) \ {<<>>})
      BY <2>3
    <2> QED BY <2>1, <2>4, TrafficAnnounce
  <1> QED BY <1>1, <1>2

\* Every step of the relay keeps the traffic safe.
LEMMA TrafficStep ==
    ASSUME Structure, Traffic, [Next]_vars
    PROVE  Traffic'
  <1>1. ASSUME NEW c \in Conns,
               \/ GetOrCreateGroup(c) \/ NewBridgeConnection(c) \/ ReportConnected(c)
               \/ CheckReplaced(c) \/ ReportDisconnected(c)
               \/ RemoveGroupIfEmpty(c) \/ DeleteGroup(c)
        PROVE  Traffic'
    <2>1. UNCHANGED <<jobs, out, client>>
      BY <1>1 DEF GetOrCreateGroup, NewBridgeConnection, ReportConnected, CheckReplaced,
                  ReportDisconnected, RemoveGroupIfEmpty, DeleteGroup, writeVars, sockVars
    <2> QED BY <2>1 DEF Traffic
  <1>2. ASSUME NEW c \in Conns, RejectFull(c) \/ CloseDisplaced(c) \/ Revoke(c) \/ Drop(c)
        PROVE  Traffic'
    <2>1. HangUp(c) /\ UNCHANGED <<jobs, out>>
      BY <1>2 DEF RejectFull, CloseDisplaced, Revoke, Drop, writeVars
    <2> QED BY <2>1, TrafficHangUp
  <1>3. CASE UNCHANGED vars
    BY <1>3 DEF vars, writeVars, sockVars, Traffic
  <1>4. ASSUME NEW c \in Conns, HandlerStep(c) \/ ClientStep(c) \/ CloseDisplaced(c)
        PROVE  Traffic'
    BY <1>1, <1>2, <1>4, AnnouncesBridgeChange, AnnouncesPresence, AnnouncesPhone,
       TrafficAnnounces, TrafficWrite, TrafficBridgeFrame, TrafficPhoneFrame
       DEF HandlerStep, ClientStep
  <1> QED BY <1>3, <1>4 DEF Next, Finished

\* And the types of the variables no other argument depends on.
LEMMA OtherTypesStep ==
    ASSUME OtherTypes, [Next]_vars
    PROVE  OtherTypes'
  <1>1. ASSUME NEW c \in Conns, NewBridgeConnection(c)
        PROVE  OtherTypes'
    <2>1. /\ ConnectedAt' = [ConnectedAt EXCEPT ![c] = clock] /\ clock' \in {clock, clock + 1}
          /\ UNCHANGED <<sock, status>>
      BY <1>1 DEF NewBridgeConnection, sockVars
    <2> QED BY <2>1 DEF OtherTypes
  <1>2. ASSUME NEW c \in Conns, ReportConnected(c) \/ ReportDisconnected(c)
        PROVE  OtherTypes'
    <2>1. PICK new \in {"connected", "disconnected"} :
              /\ status' = [status EXCEPT ![User[c]][BridgeID[c]] = new]
              /\ UNCHANGED <<ConnectedAt, clock, sock>>
      BY <1>2 DEF ReportConnected, ReportDisconnected, sockVars, connVars
    <2> QED BY <2>1, UsersAssumption DEF OtherTypes
  <1>3. ASSUME NEW c \in Conns, RejectFull(c) \/ CloseDisplaced(c) \/ Revoke(c) \/ Drop(c)
        PROVE  OtherTypes'
    <2>1. HangUp(c) /\ UNCHANGED <<ConnectedAt, clock, status>>
      BY <1>3 DEF RejectFull, CloseDisplaced, Revoke, Drop, connVars
    <2> QED BY <2>1 DEF HangUp, OtherTypes
  <1>4. ASSUME NEW c \in Conns, WriteNext(c)
        PROVE  OtherTypes'
    <2>1. UNCHANGED <<ConnectedAt, clock, status>>
      BY <1>4 DEF WriteNext, connVars
    <2>2. sock' = sock \/ \E x : sock' = [sock EXCEPT ![x] = "closed"]
      BY <1>4 DEF WriteNext, HangUp
    <2> QED BY <2>1, <2>2 DEF OtherTypes
  <1>5. ASSUME NEW c \in Conns,
               \/ GetOrCreateGroup(c) \/ AddBridge(c) \/ AnnounceOnline(c)
               \/ RemoveBridge(c) \/ CheckReplaced(c) \/ AnnounceOffline(c)
               \/ RemovePhone(c) \/ RemoveGroupIfEmpty(c) \/ DeleteGroup(c)
               \/ BridgeFrame(c) \/ PhoneFrame(c)
        PROVE  OtherTypes'
    <2>1. UNCHANGED <<ConnectedAt, clock, sock, status>>
      BY <1>5 DEF GetOrCreateGroup, AddBridge, AnnounceOnline, RemoveBridge, CheckReplaced,
                  AnnounceOffline, RemovePhone, RemoveGroupIfEmpty, DeleteGroup, BridgeFrame,
                  PhoneFrame, connVars, sockVars
    <2> QED BY <2>1 DEF OtherTypes
  <1>6. ASSUME NEW c \in Conns, AddPhone(c)
        PROVE  OtherTypes'
    BY <1>6 DEF AddPhone, sockVars, OtherTypes
  <1>7. CASE UNCHANGED vars
    BY <1>7 DEF vars, connVars, sockVars, OtherTypes
  <1>8. ASSUME NEW c \in Conns, HandlerStep(c) \/ ClientStep(c) \/ CloseDisplaced(c)
        PROVE  OtherTypes'
    BY <1>1, <1>2, <1>3, <1>4, <1>5, <1>6, <1>8 DEF HandlerStep, ClientStep
  <1> QED BY <1>7, <1>8 DEF Next, Finished

-------------------------------------------------------------------------------
(* Theorems about types and data *)

\* The relay starts without groups, writes or reports.
LEMMA IInvInit == Init => IInv
  <1> SUFFICES ASSUME Init
               PROVE  IInv
    OBVIOUS
  <1>1. Structure
    BY StructureInit
  <1>2. Traffic
    BY NewClientType DEF Init, Traffic
  <1>3. OtherTypes
    BY DEF Init, OtherTypes
  <1> QED BY <1>1, <1>2, <1>3 DEF IInv

\* The whole inductive invariant holds.
THEOREM Invariance == Spec => []IInv
  <1>1. Init => IInv
    BY IInvInit
  <1>2. IInv /\ [Next]_vars => IInv'
    BY StructureStep, TrafficStep, OtherTypesStep DEF IInv
  <1> QED BY <1>1, <1>2, PTL DEF Spec

\* Every variable keeps its type: no step writes a malformed message, loses the
\* group it works on, or takes the connId counter out of uint16.
THEOREM TypeCorrect == Spec => []TypeOK
  <1>1. IInv => TypeOK
    <2>1. SafeWrite \subseteq Write
      BY DEF SafeWrite
    <2>2. ASSUME NEW s \in Seq(SafeWrite)
          PROVE  s \in Seq(Write)
      BY <2>1
    <2> QED BY <2>2 DEF IInv, Structure, StructureTypes, Traffic, OtherTypes, TypeOK
  <1> QED BY <1>1, Invariance, PTL

\* Data never crosses accounts.
THEOREM AccountIsolationCorrect == Spec => []AccountIsolation
  <1>1. IInv => AccountIsolation
    BY ConnsAssumption DEF IInv, Traffic, Peers, AccountIsolation
  <1> QED BY <1>1, Invariance, PTL

\* A pinned phone exchanges data with its own bridge only.
THEOREM PinIsolationCorrect == Spec => []PinIsolation
  <1>1. IInv => PinIsolation
    BY DEF IInv, Traffic, Peers, PinIsolation
  <1> QED BY <1>1, Invariance, PTL

\* Only a member begins to send data: a bridge that finds a phone targeting it is
\* the one its group has under its id.
LEMMA SenderIsMember ==
    ASSUME Structure, NEW c \in Conns, BridgeFrame(c) \/ PhoneFrame(c)
    PROVE  c \notin displaced
  <1>1. CASE PhoneFrame(c)
    BY <1>1 DEF PhoneFrame, PhoneConns, Structure, DisplacedPhases
  <1>2. CASE BridgeFrame(c)
    <2>1. c \in BridgeConns /\ group[c] \in Conns /\ IsCurrentBridge(grp[group[c]], c)
      BY <1>2 DEF BridgeFrame, Reading, PhonesTargeting, PhoneTargeting, Structure,
                  StructureTypes, HandlersHoldGroups, Ptr
    <2>2. BridgeID[c] \in BridgeIDs /\ c # nil
      BY <2>1, ConnsAssumption
    <2>3. BridgeEntry(group[c], BridgeID[c])
      BY <2>1, <2>2 DEF Structure, SlotOwned
    <2> QED BY <2>1, <2>2, <2>3 DEF IsCurrentBridge, BridgeEntry
  <1> QED BY <1>1, <1>2

\* What any step adds to the writes of a handler: control messages, or the data
\* of a frame it has just read.
LEMMA NewJobs ==
    ASSUME Structure, Traffic, [Next]_vars, NEW b \in Conns, NEW s \in jobs'[b] \ jobs[b]
    PROVE  s[1].type # "data" \/ BridgeFrame(b) \/ PhoneFrame(b)
  <1>1. jobs \in [Conns -> SUBSET (Seq(SafeWrite) \ {<<>>})]
    BY DEF Traffic
  <1>2. ASSUME NEW c \in Conns, Announces(c)
        PROVE  s[1].type # "data"
    <2>1. PICK sequences \in SUBSET (Seq(ControlWrite(Present(c))) \ {<<>>}) :
              jobs' = [jobs EXCEPT ![c] = sequences]
      BY <1>2 DEF Announces, Announce, writeVars
    <2>2. s \in sequences
      BY <1>1, <2>1
    <2>3. s \in Seq(ControlWrite(Present(c))) /\ s # <<>>
      BY <2>2
    <2>4. s[1] \in ControlWrite(Present(c))
      BY <2>3
    <2> QED BY <2>4 DEF ControlWrite
  <1>3. ASSUME NEW c \in Conns, BridgeFrame(c) \/ PhoneFrame(c), b # c
        PROVE  FALSE
    <2>1. PICK sequences : jobs' = [jobs EXCEPT ![c] = sequences]
      BY <1>3 DEF BridgeFrame, PhoneFrame, Announce
    <2> QED BY <1>1, <1>3, <2>1
  <1>4. ASSUME NEW c \in Conns, WriteNext(c)
        PROVE  FALSE
    <2>1. PICK t : jobs' = [jobs EXCEPT ![c] = IF out[c] # <<>> THEN @ ELSE @ \ {t}]
      BY <1>4 DEF WriteNext
    <2> QED BY <1>1, <2>1
  <1>5. ASSUME NEW c \in Conns,
               \/ GetOrCreateGroup(c) \/ NewBridgeConnection(c) \/ ReportConnected(c)
               \/ CheckReplaced(c) \/ ReportDisconnected(c) \/ RemoveGroupIfEmpty(c)
               \/ DeleteGroup(c) \/ RejectFull(c) \/ CloseDisplaced(c) \/ Revoke(c) \/ Drop(c)
        PROVE  FALSE
    <2>1. jobs' = jobs
      BY <1>5 DEF GetOrCreateGroup, NewBridgeConnection, ReportConnected, CheckReplaced,
                  ReportDisconnected, RemoveGroupIfEmpty, DeleteGroup, RejectFull,
                  CloseDisplaced, Revoke, Drop, writeVars
    <2> QED BY <2>1
  <1>6. CASE UNCHANGED vars
    BY <1>6 DEF vars, writeVars
  <1>7. ASSUME NEW c \in Conns, HandlerStep(c) \/ ClientStep(c) \/ CloseDisplaced(c)
        PROVE  s[1].type # "data" \/ BridgeFrame(b) \/ PhoneFrame(b)
    BY <1>2, <1>3, <1>4, <1>5, <1>7, AnnouncesBridgeChange, AnnouncesPresence, AnnouncesPhone
       DEF HandlerStep, ClientStep
  <1> QED BY <1>6, <1>7 DEF Next, Finished

\* A connection displaced by a same-id reconnect starts no data write.
THEOREM DisplacedRelaysNothingCorrect == Spec => DisplacedRelaysNothing
  <1>1. IInv /\ [Next]_vars =>
            [\A b \in displaced : \A s \in jobs'[b] \ jobs[b] : s[1].type # "data"]_vars
    <2> SUFFICES ASSUME IInv, [Next]_vars, NEW b \in displaced, NEW s \in jobs'[b] \ jobs[b]
                 PROVE  s[1].type # "data"
      OBVIOUS
    <2>1. b \in Conns /\ Structure /\ Traffic
      BY DEF IInv, Structure, StructureTypes
    <2> QED BY <2>1, NewJobs, SenderIsMember
  <1> QED BY <1>1, Invariance, PTL DEF Spec, DisplacedRelaysNothing

-------------------------------------------------------------------------------
(* The caps *)

\* The members of a group can be counted.
LEMMA FiniteMembers ==
    /\ \A S \in SUBSET BridgeIDs : IsFiniteSet(S) /\ Cardinality(S) \in Nat
    /\ \A S \in SUBSET ConnIDs : IsFiniteSet(S) /\ Cardinality(S) \in Nat
  <1>1. IsFiniteSet(BridgeIDs) /\ IsFiniteSet(ConnIDs)
    BY ConnsAssumption, LimitsAssumption, FS_Interval DEF ConnIDs
  <1>2. ASSUME NEW S \in SUBSET BridgeIDs
        PROVE  IsFiniteSet(S) /\ Cardinality(S) \in Nat
    BY <1>1, FS_Subset, FS_CardinalityType
  <1>3. ASSUME NEW S \in SUBSET ConnIDs
        PROVE  IsFiniteSet(S) /\ Cardinality(S) \in Nat
    BY <1>1, FS_Subset, FS_CardinalityType
  <1> QED BY <1>2, <1>3

\* A set that does not grow, or grows by one where there is room, stays within
\* its limit.
LEMMA GrowsByOne ==
    ASSUME NEW S, IsFiniteSet(S), NEW limit \in Nat, Cardinality(S) <= limit, NEW T, NEW x,
           \/ T \subseteq S
           \/ T \subseteq S \cup {x} /\ ~(Cardinality(S) >= limit)
    PROVE  Cardinality(T) <= limit
  <1>1. Cardinality(S) \in Nat
    BY FS_CardinalityType
  <1>2. CASE T \subseteq S
    <2>1. Cardinality(T) <= Cardinality(S) /\ IsFiniteSet(T)
      BY <1>2, FS_Subset
    <2>2. Cardinality(T) \in Nat
      BY <2>1, FS_CardinalityType
    <2> QED BY <1>1, <2>1, <2>2
  <1>3. CASE T \subseteq S \cup {x} /\ ~(Cardinality(S) >= limit)
    <2>1. IsFiniteSet(S \cup {x})
      BY FS_AddElement
    <2>2. Cardinality(S \cup {x}) \in Nat /\ Cardinality(S \cup {x}) <= Cardinality(S) + 1
      BY <1>1, <2>1, FS_AddElement, FS_CardinalityType
    <2>3. Cardinality(T) <= Cardinality(S \cup {x}) /\ IsFiniteSet(T)
      BY <1>3, <2>1, FS_Subset
    <2>4. Cardinality(T) \in Nat
      BY <2>3, FS_CardinalityType
    <2> QED BY <1>1, <1>3, <2>2, <2>3, <2>4
  <1> QED BY <1>2, <1>3

\* Any step adds at most one member to a group, and none to a full one.
LEMMA MembersStep ==
    ASSUME Structure, [Next]_vars, NEW g \in Conns
    PROVE  /\ \E id \in BridgeIDs \cup {NoID} :
                \/ Online(grp'[g].Bridges) \subseteq Online(grp[g].Bridges)
                \/ /\ Online(grp'[g].Bridges) \subseteq Online(grp[g].Bridges) \cup {id}
                   /\ ~BridgesFull(grp[g])
           /\ \E k \in ConnIDs :
                \/ UsedConnIDs(grp'[g]) \subseteq UsedConnIDs(grp[g])
                \/ /\ UsedConnIDs(grp'[g]) \subseteq UsedConnIDs(grp[g]) \cup {k}
                   /\ ~PhonesFull(grp[g])
  <1>1. 0 \in ConnIDs /\ grp \in [Conns -> Group] /\ grp[g] \in Group
    BY LimitsAssumption DEF ConnIDs, Structure, StructureTypes
  <1>2. CASE grp' = grp
    BY <1>1, <1>2
  <1>3. ASSUME NEW c \in Conns, Walk(c) \/ RejectFull(c) \/ RemoveGroupIfEmpty(c) \/ DeleteGroup(c)
        PROVE  grp' = grp
    BY <1>3 DEF Walk, RejectFull, RemoveGroupIfEmpty, DeleteGroup
  <1>4. CASE Still
    BY <1>2, <1>4 DEF Still
  <1>5. ASSUME NEW c \in Conns, GetOrCreateGroup(c), grp' # grp
        PROVE  /\ Online(grp'[g].Bridges) \subseteq Online(grp[g].Bridges)
               /\ UsedConnIDs(grp'[g]) \subseteq UsedConnIDs(grp[g])
    <2>1. grp' = [grp EXCEPT ![c] = NewAccountGroup]
      BY <1>5 DEF GetOrCreateGroup
    <2> QED BY <1>1, <2>1 DEF NewAccountGroup, Online, UsedConnIDs
  <1>6. ASSUME NEW c \in Conns, RemoveBridge(c) \/ RemovePhone(c)
        PROVE  /\ Online(grp'[g].Bridges) \subseteq Online(grp[g].Bridges)
               /\ UsedConnIDs(grp'[g]) \subseteq UsedConnIDs(grp[g])
    <2>1. CASE RemoveBridge(c)
      <3>1. \/ grp' = grp
            \/ grp' = [grp EXCEPT ![group[c]].Bridges = [grp[group[c]].Bridges EXCEPT ![BridgeID[c]] = nil]]
        BY <2>1 DEF RemoveBridge
      <3>2. /\ grp'[g].Phones = grp[g].Phones
            /\ \A id \in BridgeIDs : grp'[g].Bridges[id] \in {nil, grp[g].Bridges[id]}
        BY <1>1, <3>1 DEF Group, BridgeMap
      <3> QED BY <3>2 DEF Online, UsedConnIDs
    <2>2. CASE RemovePhone(c)
      <3>1. grp' = [grp EXCEPT ![group[c]].Phones[ConnID[c]] = nil]
        BY <2>2 DEF RemovePhone
      <3> QED BY <1>1, <3>1 DEF Group, PhoneMap, Online, UsedConnIDs
    <2> QED BY <1>6, <2>1, <2>2
  <1>7. ASSUME NEW c \in Conns, AddBridge(c)
        PROVE  /\ UsedConnIDs(grp'[g]) \subseteq UsedConnIDs(grp[g])
               /\ \/ Online(grp'[g].Bridges) \subseteq Online(grp[g].Bridges)
                  \/ /\ Online(grp'[g].Bridges) \subseteq Online(grp[g].Bridges) \cup {BridgeID[c]}
                     /\ ~BridgesFull(grp[g])
    <2>1. /\ grp' = [grp EXCEPT ![group[c]].Bridges = [grp[group[c]].Bridges EXCEPT ![BridgeID[c]] = c]]
          /\ grp[group[c]].Bridges[BridgeID[c]] # nil \/ ~BridgesFull(grp[group[c]])
      BY <1>7 DEF AddBridge
    <2> QED BY <1>1, <2>1 DEF Group, BridgeMap, Online, UsedConnIDs
  <1>8. ASSUME NEW c \in Conns, AddPhone(c)
        PROVE  /\ Online(grp'[g].Bridges) \subseteq Online(grp[g].Bridges)
               /\ \E k \in ConnIDs :
                    \/ UsedConnIDs(grp'[g]) \subseteq UsedConnIDs(grp[g])
                    \/ /\ UsedConnIDs(grp'[g]) \subseteq UsedConnIDs(grp[g]) \cup {k}
                       /\ ~PhonesFull(grp[g])
    <2>1. PICK k \in ConnIDs :
              /\ grp' = [grp EXCEPT ![group[c]].Phones[k] = c, ![group[c]].NextConnID = NextAfter(k)]
              /\ ~PhonesFull(grp[group[c]])
      BY <1>8 DEF AddPhone
    <2> QED BY <1>1, <2>1 DEF Group, PhoneMap, Online, UsedConnIDs
  <1>9. ASSUME NEW c \in Conns
        PROVE  BridgeID[c] \in BridgeIDs \cup {NoID}
    BY ConnsAssumption
  <1> QED BY <1>1, <1>2, <1>3, <1>4, <1>5, <1>6, <1>7, <1>8, <1>9, Shapes

\* No group ever exceeds its caps, however many handlers race for a place.
THEOREM CapsCorrect == Spec => []CapsHold
  <1>1. Init => CapsHold
    <2>1. Online(NewAccountGroup.Bridges) = {} /\ UsedConnIDs(NewAccountGroup) = {}
      BY DEF NewAccountGroup, Online, UsedConnIDs
    <2>2. Cardinality({}) = 0 /\ MaxBridges >= 0 /\ MaxPhones >= 0
      BY FS_EmptySet, LimitsAssumption
    <2> QED BY <2>1, <2>2 DEF Init, CapsHold
  <1>2. Structure /\ CapsHold /\ [Next]_vars => CapsHold'
    <2> SUFFICES ASSUME Structure, CapsHold, [Next]_vars, NEW g \in Conns
                 PROVE  /\ Cardinality(Online(grp'[g].Bridges)) <= MaxBridges
                        /\ Cardinality(UsedConnIDs(grp'[g])) <= MaxPhones
      BY DEF CapsHold
    <2>1. MaxBridges \in Nat /\ MaxPhones \in Nat
      BY LimitsAssumption
    <2>2. /\ IsFiniteSet(Online(grp[g].Bridges)) /\ Cardinality(Online(grp[g].Bridges)) <= MaxBridges
          /\ IsFiniteSet(UsedConnIDs(grp[g])) /\ Cardinality(UsedConnIDs(grp[g])) <= MaxPhones
      BY FiniteMembers DEF CapsHold, Online, UsedConnIDs
    <2>3. Cardinality(Online(grp'[g].Bridges)) <= MaxBridges
      BY <2>1, <2>2, GrowsByOne, MembersStep DEF BridgesFull
    <2>4. Cardinality(UsedConnIDs(grp'[g])) <= MaxPhones
      BY <2>1, <2>2, GrowsByOne, MembersStep DEF PhonesFull
    <2> QED BY <2>3, <2>4
  <1> QED BY <1>1, <1>2, StructureCorrect, PTL DEF Spec

-------------------------------------------------------------------------------
(* connIds *)

\* What the counter passes on its way to an id it passes, it passes on the way to
\* where it was going, and it does not pass the id itself.
LEMMA PassedOverShrinks ==
    ASSUME NEW n \in ConnIDs \ {0}, NEW id \in ConnIDs \ {0}, NEW k \in PassedOver(n, id)
    PROVE  /\ k \in ConnIDs \ {0}
           /\ PassedOver(n, k) \subseteq PassedOver(n, id)
           /\ k \notin PassedOver(n, k)
           /\ PassedOver(n, id) \subseteq ConnIDs
  <1>1. MaxConnID \in Nat
    BY LimitsAssumption
  <1>2. CASE n <= id
    BY <1>1, <1>2 DEF PassedOver, ConnIDs
  <1>3. CASE n > id
    BY <1>1, <1>3 DEF PassedOver, ConnIDs
  <1> QED BY <1>1, <1>2, <1>3 DEF ConnIDs

\* If any id is free the counter comes to a free one with none before it: one
\* whose way there is minimal.
LEMMA CounterFindsFree ==
    ASSUME NEW g \in Group, g.NextConnID # 0,
           NEW free \in 1 .. MaxConnID, g.Phones[free] = nil
    PROVE  \E id \in ConnIDs : assignConnIDLocked(g, id)
  <1> DEFINE n == g.NextConnID
             Free == {id \in 1 .. MaxConnID : g.Phones[id] = nil}
             Ways == {PassedOver(n, id) : id \in Free}
  <1>1. MaxConnID \in Nat /\ n \in ConnIDs \ {0} /\ ConnIDs \ {0} = 1 .. MaxConnID
    BY LimitsAssumption DEF Group, ConnIDs
  <1>2. IsFiniteSet(ConnIDs)
    BY <1>1, FS_Interval DEF ConnIDs
  <1>3. Ways # {}
    OBVIOUS
  <1>4. Ways \subseteq FiniteSubsetsOf(ConnIDs)
    <2>1. \A id \in Free : PassedOver(n, id) \in SUBSET ConnIDs
      BY <1>1, PassedOverShrinks
    <2>2. FiniteSubsetsOf(ConnIDs) = SUBSET ConnIDs
      BY <1>2, FS_FiniteSubsetsOfFinite
    <2> QED BY <2>1, <2>2
  <1>5. IsWellFoundedOn(StrictSubsetOrdering(ConnIDs), FiniteSubsetsOf(ConnIDs))
    BY FS_StrictSubsetOrderingWellFounded
  <1>6. PICK way \in Ways : \A y \in Ways : ~(<<y, way>> \in StrictSubsetOrdering(ConnIDs))
    <2> HIDE DEF Ways
    <2> QED BY <1>3, <1>4, <1>5, WFMin
  <1>7. PICK id \in Free : way = PassedOver(n, id)
    BY <1>6
  <1>8. ASSUME NEW k \in PassedOver(n, id), g.Phones[k] = nil
        PROVE  FALSE
    <2>1. /\ k \in Free /\ k \notin PassedOver(n, k)
          /\ PassedOver(n, k) \subseteq PassedOver(n, id) /\ PassedOver(n, id) \subseteq ConnIDs
      BY <1>1, <1>8, PassedOverShrinks
    <2>2. PassedOver(n, k) \in Ways
      BY <2>1
    <2>3. <<PassedOver(n, k), PassedOver(n, id)>> \in StrictSubsetOrdering(ConnIDs)
      BY <1>8, <2>1 DEF StrictSubsetOrdering
    <2> QED BY <1>6, <1>7, <2>2, <2>3
  <1>9. id \in ConnIDs /\ assignConnIDLocked(g, id)
    BY <1>1, <1>8 DEF assignConnIDLocked
  <1> QED BY <1>9

\* In a group that is not full AddPhone's loop finds a connId, wherever its
\* counter is and whichever ids are taken: the caps leave one free.
THEOREM ConnIDAvailableCorrect == Spec => []ConnIDAvailable
  <1>1. Structure => ConnIDAvailable
    <2> SUFFICES ASSUME Structure, NEW g \in Conns, ~PhonesFull(grp[g])
                 PROVE  \E id \in ConnIDs : assignConnIDLocked(grp[g], id)
      BY DEF ConnIDAvailable
    <2>1. grp[g] \in Group /\ grp[g].NextConnID # 0
      BY DEF Structure, StructureTypes, NextConnIDValid
    <2>2. /\ MaxConnID \in Nat /\ MaxPhones \in Nat /\ MaxPhones <= MaxConnID /\ MaxConnID >= 1
          /\ Cardinality(1 .. MaxConnID) = MaxConnID
      <3>1. MaxConnID \in Nat /\ MaxPhones \in Nat \ {0} /\ MaxPhones <= MaxConnID
        BY LimitsAssumption
      <3> QED BY <3>1, FS_Interval
    <2>3. PICK free \in 1 .. MaxConnID : free \notin UsedConnIDs(grp[g])
      <3>1. UsedConnIDs(grp[g]) \in SUBSET ConnIDs
        BY DEF UsedConnIDs
      <3>2. IsFiniteSet(UsedConnIDs(grp[g])) /\ Cardinality(UsedConnIDs(grp[g])) \in Nat
        BY <3>1, FiniteMembers
      <3>3. ASSUME 1 .. MaxConnID \subseteq UsedConnIDs(grp[g])
            PROVE  FALSE
        <4>1. MaxConnID <= Cardinality(UsedConnIDs(grp[g]))
          BY <2>2, <3>2, <3>3, FS_Subset
        <4> QED BY <2>2, <3>2, <4>1 DEF PhonesFull
      <3> QED BY <3>3
    <2>4. free \in ConnIDs /\ grp[g].Phones[free] = nil
      BY <2>2, <2>3 DEF UsedConnIDs, ConnIDs
    <2> QED BY <2>1, <2>3, <2>4, CounterFindsFree
  <1> QED BY <1>1, StructureCorrect, PTL
===============================================================================
