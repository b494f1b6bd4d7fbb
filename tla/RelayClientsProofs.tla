-------------------------- MODULE RelayClientsProofs --------------------------
(***************************************************************************)
(* What the clients of module Relay are told is true once nothing is left  *)
(* to announce, if one handler is at work at a time.                       *)
(***************************************************************************)
EXTENDS RelaySerialProofs

-------------------------------------------------------------------------------
(* What clients know.  For each client and each thing it is told about: what *)
(* is still to be written is right, and if nothing is, what it knows is.     *)

Unwritten == UNION {Pending(c) : c \in Conns}

\* A bridge is displaced only after it announced itself.
AnnouncesAsMember == \A c \in displaced : pc[c] \notin {"added", "online"}

\* Before its connection is in its group a client was told nothing.
NewcomersKnowNothing ==
    \A c \in Conns : pc[c] \in {"start", "joined", "stamped"} => client[c] = NewClient

Target(p) == targetLocked(grp[group[p]].Bridges, ConnectedAt, p)

\* A notice about the target of p.
RightNotice(p, n) ==
    IF Target(p) # nil
    THEN n.type = "bridge_connected" /\ n.id = BridgeID[Target(p)]
    ELSE n.type = "bridge_disconnected" /\ (BridgeID[p] # NoID => n.id = BridgeID[p])

Notices(p) == {w \in Unwritten : w.to = p /\ w.type \in NoticeTypes}

NoticesRight ==
    \A p \in PhoneConns : pc[p] = "serving" =>
        /\ \A w \in Notices(p) : RightNotice(p, w)
        /\ Notices(p) = {} /\ sock[p] = "open" => RightNotice(p, client[p].notice)

\* The phone with connId k talks to b.
TalksTo(k, b) ==
    LET p == grp[group[b]].Phones[k] IN p # nil /\ Target(p) = b

RosterWrites(b, k) ==
    {w \in Unwritten : w.to = b /\ w.type \in {"phone_connected", "phone_disconnected"}
                                /\ w.connID = k}

RostersRight ==
    \A b \in BridgeConns, k \in ConnIDs : pc[b] \in InGroup /\ b \notin displaced =>
        /\ \A w \in RosterWrites(b, k) : w.type = "phone_connected" <=> TalksTo(k, b)
        /\ RosterWrites(b, k) = {} /\ sock[b] = "open" =>
                (k \in client[b].roster <=> TalksTo(k, b))

PresenceWrites(p, id) ==
    {w \in Unwritten : w.to = p /\ w.type \in {"bridge_online", "bridge_offline"} /\ w.id = id}

\* A bridge that has yet to announce that it came to g or left it.
Unannounced(g, id) ==
    \E c \in BridgeConns :
        group[c] = g /\ BridgeID[c] = id /\ pc[c] \in {"added", "removed", "vanishing"}

PresencesRight ==
    \A p \in PhoneConns, id \in BridgeIDs : pc[p] = "serving" /\ ~Unannounced(group[p], id) =>
        LET live == grp[group[p]].Bridges[id] # nil IN
        /\ \A w \in PresenceWrites(p, id) : w.type = "bridge_online" <=> live
        /\ PresenceWrites(p, id) = {} /\ sock[p] = "open" /\ client[p].presence[id] # "unknown"
            => (client[p].presence[id] = "bridge_online" <=> live)

ClientsInv ==
    /\ AnnouncesAsMember
    /\ NewcomersKnowNothing
    /\ NoticesRight
    /\ RostersRight
    /\ PresencesRight

-------------------------------------------------------------------------------
(* What is left to write *)

\* Membership in Unwritten.
LEMMA UnwrittenHas ==
    ASSUME NEW w
    PROVE  w \in Unwritten <=>
               \E c \in Conns : \E s \in jobs[c] \cup {out[c]} : \E i \in DOMAIN s : w = s[i]
  BY DEF Unwritten, Pending, Writes

\* The same after a step.
LEMMA UnwrittenHasNext ==
    ASSUME NEW w
    PROVE  w \in Unwritten' <=>
               \E c \in Conns : \E s \in jobs'[c] \cup {out'[c]} : \E i \in DOMAIN s : w = s[i]
  BY DEF Unwritten, Pending, Writes

\* While nobody is at work nothing is left to write.
LEMMA NothingUnwritten ==
    ASSUME \A c \in Conns : Idle(c)
    PROVE  Unwritten = {}
  <1>1. \A w : w \notin Unwritten
    BY UnwrittenHas DEF Idle
  <1> QED BY <1>1

\* An idle handler that is alone announces something: that is all there is to
\* write.
LEMMA AnnouncedAlone ==
    ASSUME IInv, NEW c \in Conns, Alone(c), Acts(c), Idle(c), NEW sequences,
           Announce(c, sequences), NEW w
    PROVE  /\ Unwritten = {}
           /\ w \in Unwritten' <=> \E s \in sequences : \E i \in DOMAIN s : w = s[i]
  <1>1. \A x \in Conns : Idle(x)
    BY DEF Alone, Busy
  <1>2. \A x \in Conns : x # c => jobs'[x] = {} /\ out'[x] = <<>>
    BY <1>1, OthersStay DEF Idle
  <1>3. jobs'[c] = sequences /\ out'[c] = <<>>
    BY DEF Announce, Idle, IInv, Traffic
  <1>4. w \in Unwritten' <=> \E s \in sequences : \E i \in DOMAIN s : w = s[i]
    BY <1>2, <1>3, UnwrittenHasNext
  <1> QED BY <1>1, <1>4, NothingUnwritten

-------------------------------------------------------------------------------
(* Steps after which clients know as much as before *)

Member(b) == pc[b] \in InGroup /\ b \notin displaced

\* Nobody who stays connected received anything.
ClientsStay ==
    \A x \in Conns : sock'[x] = "open" => sock[x] = "open" /\ client'[x] = client[x]

\* The same messages of some types are left to write.
LeftToWrite(types) == \A w : w.type \in types => (w \in Unwritten' <=> w \in Unwritten)

RosterTypes == {"phone_connected", "phone_disconnected"}
PresenceTypes == {"bridge_online", "bridge_offline"}
ControlStays == LeftToWrite(NoticeTypes) /\ LeftToWrite(RosterTypes) /\ LeftToWrite(PresenceTypes)

\* Nobody enters a group, and the maps of those who stay are the same.
MembersStay ==
    /\ \A p \in PhoneConns : pc'[p] = "serving" => pc[p] = "serving"
    /\ \A b \in BridgeConns : Member(b)' => Member(b)
    /\ \A x \in Conns : pc'[x] \in InGroup =>
            /\ group'[x] = group[x]
            /\ grp'[group[x]].Bridges = grp[group[x]].Bridges
            /\ grp'[group[x]].Phones = grp[group[x]].Phones

TargetsStay == \A p \in PhoneConns : pc'[p] = "serving" => Target(p)' = Target(p)

AnnouncementsStay ==
    \A g \in Conns, id \in BridgeIDs : Unannounced(g, id) => Unannounced(g, id)'

\* The target of a phone depends on the times of the bridges in the map only.
LEMMA TargetByMap ==
    ASSUME NEW bridges, NEW at, NEW to, \A b \in LiveBridges(bridges) : to[b] = at[b], NEW p
    PROVE  targetLocked(bridges, to, p) = targetLocked(bridges, at, p)
  <1> DEFINE live == LiveBridges(bridges)
             Latest(t) == {b \in live : \A other \in live : ~Outranks(other, b, t)}
             First(S) == IF S = {} THEN nil ELSE CHOOSE b \in S : TRUE
  <1>1. \A a, b \in live : Outranks(a, b, to) <=> Outranks(a, b, at)
    BY DEF Outranks
  <1>2. Latest(to) = Latest(at)
    BY <1>1
  <1>3. /\ defaultBridgeLocked(bridges, to) = First(Latest(to))
        /\ defaultBridgeLocked(bridges, at) = First(Latest(at))
    BY Zenon DEF defaultBridgeLocked
  <1> HIDE DEF Latest, First
  <1> QED BY <1>2, <1>3 DEF targetLocked

\* The phones and bridges of a map are in its group.
LEMMA EntriesAreMembers ==
    ASSUME Structure, NEW g \in Conns
    PROVE  /\ \A k \in ConnIDs : LET p == grp[g].Phones[k] IN
                p # nil => /\ p \in PhoneConns /\ p \in Conns /\ pc[p] = "serving"
                           /\ group[p] = g /\ ConnID[p] = k
           /\ \A id \in BridgeIDs : LET b == grp[g].Bridges[id] IN
                b # nil => /\ b \in BridgeConns /\ b \in Conns /\ Member(b)
                           /\ group[b] = g /\ BridgeID[b] = id
           /\ \A p : p \in AllPhones(grp[g]) <=>
                        p \in PhoneConns /\ pc[p] = "serving" /\ group[p] = g
           /\ \A b : b \in LiveBridges(grp[g].Bridges) <=>
                        b \in BridgeConns /\ Member(b) /\ group[b] = g
           /\ grp[g] \in Group
  <1>1. \A k \in ConnIDs : LET p == grp[g].Phones[k] IN
                p # nil => /\ p \in PhoneConns /\ p \in Conns /\ pc[p] = "serving"
                           /\ group[p] = g /\ ConnID[p] = k
    BY DEF Structure, SlotOwned, PhoneEntry, PhoneConns
  <1>2. \A id \in BridgeIDs : LET b == grp[g].Bridges[id] IN
                b # nil => /\ b \in BridgeConns /\ b \in Conns /\ Member(b)
                           /\ group[b] = g /\ BridgeID[b] = id
    BY ConnsAssumption DEF Structure, SlotOwned, BridgeEntry, Member
  <1>3. ASSUME NEW p
        PROVE  p \in AllPhones(grp[g]) <=> p \in PhoneConns /\ pc[p] = "serving" /\ group[p] = g
    <2>1. p \in PhoneConns /\ pc[p] = "serving" /\ group[p] = g
            => ConnID[p] \in ConnIDs /\ grp[g].Phones[ConnID[p]] = p /\ p # nil
      BY ConnsAssumption DEF Structure, StructureTypes, SlotOwned, PhoneConns
    <2> QED BY <1>1, <2>1 DEF AllPhones, UsedConnIDs
  <1>4. ASSUME NEW b
        PROVE  b \in LiveBridges(grp[g].Bridges) <=> b \in BridgeConns /\ Member(b) /\ group[b] = g
    <2>1. b \in BridgeConns /\ Member(b) /\ group[b] = g
            => BridgeID[b] \in BridgeIDs /\ grp[g].Bridges[BridgeID[b]] = b /\ b # nil
      BY ConnsAssumption DEF Structure, SlotOwned, Member, Current, IsCurrentBridge
    <2> QED BY <1>2, <2>1 DEF LiveBridges, Online
  <1>5. grp[g] \in Group
    BY DEF Structure, StructureTypes
  <1> QED BY <1>1, <1>2, <1>3, <1>4, <1>5

\* Phones that stay are in the same group and have the same target.
LEMMA PhonesKept ==
    ASSUME IInv, MembersStay, NEW p \in PhoneConns, pc'[p] = "serving"
    PROVE  /\ p \in Conns /\ pc[p] = "serving" /\ group'[p] = group[p] /\ group[p] \in Conns
           /\ grp'[group[p]].Bridges = grp[group[p]].Bridges
  BY DEF MembersStay, InGroup, PhoneConns, IInv, Structure, StructureTypes, HandlersHoldGroups, Ptr

\* Notices stay right when targets and the notices left to write do.
LEMMA NoticesKept ==
    ASSUME IInv, NoticesRight, ClientsStay, LeftToWrite(NoticeTypes), MembersStay, TargetsStay
    PROVE  NoticesRight'
  <1> SUFFICES ASSUME NEW p \in PhoneConns, pc'[p] = "serving"
               PROVE  /\ \A w \in Notices(p)' : RightNotice(p, w)'
                      /\ Notices(p)' = {} /\ sock'[p] = "open" => RightNotice(p, client[p].notice)'
    BY DEF NoticesRight
  <1>1. \A n : RightNotice(p, n)' <=> RightNotice(p, n)
    BY DEF RightNotice, TargetsStay
  <1>2. Notices(p)' = Notices(p)
    BY DEF Notices, LeftToWrite
  <1> QED BY PhonesKept, <1>1, <1>2 DEF NoticesRight, ClientsStay, RightNotice

\* Rosters stay right when the phones' targets and the roster messages do.
LEMMA RostersKept ==
    ASSUME IInv, IInv', RostersRight, ClientsStay, LeftToWrite(RosterTypes), MembersStay, TargetsStay
    PROVE  RostersRight'
  <1> SUFFICES ASSUME NEW b \in BridgeConns, NEW k \in ConnIDs, Member(b)'
               PROVE  /\ \A w \in RosterWrites(b, k)' : w.type = "phone_connected" <=> TalksTo(k, b)'
                      /\ RosterWrites(b, k)' = {} /\ sock'[b] = "open" =>
                              (k \in client'[b].roster <=> TalksTo(k, b)')
    BY DEF RostersRight, Member
  <1>1. /\ b \in Conns /\ Member(b) /\ group'[b] = group[b] /\ group[b] \in Conns
        /\ grp'[group[b]].Phones = grp[group[b]].Phones
    BY ConnsAssumption DEF MembersStay, Member, IInv, Structure, StructureTypes,
                           HandlersHoldGroups, Ptr, InGroup
  <1>2. grp[group[b]].Phones[k] # nil =>
          LET p == grp[group[b]].Phones[k] IN p \in PhoneConns /\ pc'[p] = "serving"
    BY <1>1 DEF IInv, Structure, SlotOwned, PhoneEntry
  <1>3. TalksTo(k, b)' <=> TalksTo(k, b)
    BY <1>1, <1>2 DEF TalksTo, TargetsStay
  <1>4. RosterWrites(b, k)' = RosterWrites(b, k)
    BY DEF RosterWrites, LeftToWrite, RosterTypes
  <1> QED BY <1>1, <1>3, <1>4 DEF RostersRight, ClientsStay, Member

\* So do presences, with the bridges of the group.
LEMMA PresencesKept ==
    ASSUME IInv, PresencesRight, ClientsStay, LeftToWrite(PresenceTypes), MembersStay, AnnouncementsStay
    PROVE  PresencesRight'
  <1> SUFFICES ASSUME NEW p \in PhoneConns, NEW id \in BridgeIDs, pc'[p] = "serving",
                      ~Unannounced(group[p], id)'
               PROVE  LET live == grp'[group'[p]].Bridges[id] # nil IN
                      /\ \A w \in PresenceWrites(p, id)' : w.type = "bridge_online" <=> live
                      /\ PresenceWrites(p, id)' = {} /\ sock'[p] = "open"
                              /\ client'[p].presence[id] # "unknown"
                          => (client'[p].presence[id] = "bridge_online" <=> live)
    BY DEF PresencesRight
  <1>1. ~Unannounced(group[p], id)
    BY PhonesKept DEF AnnouncementsStay, Unannounced
  <1>2. PresenceWrites(p, id)' = PresenceWrites(p, id)
    BY DEF PresenceWrites, LeftToWrite, PresenceTypes
  <1>3. grp'[group'[p]].Bridges[id] = grp[group[p]].Bridges[id]
    BY PhonesKept
  <1>4. /\ \A w \in PresenceWrites(p, id) : w.type = "bridge_online" <=> grp[group[p]].Bridges[id] # nil
        /\ PresenceWrites(p, id) = {} /\ sock[p] = "open" /\ client[p].presence[id] # "unknown"
              => (client[p].presence[id] = "bridge_online" <=> grp[group[p]].Bridges[id] # nil)
    BY PhonesKept, <1>1 DEF PresencesRight
  <1> QED BY PhonesKept, <1>2, <1>3, <1>4 DEF ClientsStay

\* All clients know as much as before.
LEMMA ClientsKept ==
    ASSUME IInv, IInv', NoticesRight, RostersRight, PresencesRight,
           ClientsStay, ControlStays, MembersStay, TargetsStay, AnnouncementsStay
    PROVE  NoticesRight' /\ RostersRight' /\ PresencesRight'
  BY NoticesKept, RostersKept, PresencesKept DEF ControlStays

\* Targets stay with the maps and the times of the bridges in them.
LEMMA TargetsKept ==
    ASSUME IInv, MembersStay,
           \A b \in BridgeConns : Member(b) => ConnectedAt'[b] = ConnectedAt[b]
    PROVE  TargetsStay
  <1> SUFFICES ASSUME NEW p \in PhoneConns, pc'[p] = "serving"
               PROVE  Target(p)' = Target(p)
    BY DEF TargetsStay
  <1>1. /\ group'[p] = group[p] /\ group[p] \in Conns
        /\ grp'[group[p]].Bridges = grp[group[p]].Bridges
    BY DEF MembersStay, InGroup, PhoneConns, IInv, Structure, StructureTypes,
           HandlersHoldGroups, Ptr
  <1>2. \A b \in LiveBridges(grp[group[p]].Bridges) : ConnectedAt'[b] = ConnectedAt[b]
    BY <1>1, EntriesAreMembers DEF IInv
  <1>3. targetLocked(grp[group[p]].Bridges, ConnectedAt', p) = Target(p)
    BY <1>2, TargetByMap DEF Target
  <1> QED BY <1>1, <1>3 DEF Target

\* With the same writes left, the same control messages are.
LEMMA ControlKept ==
    ASSUME UNCHANGED writeVars
    PROVE  ControlStays
  BY DEF writeVars, ControlStays, LeftToWrite, Unwritten, Pending

\* Steps that announce nothing: their only effects on clients are closed sockets.
LEMMA ClientsSilent ==
    ASSUME IInv, IInv', GroupInv, ClientsInv, NEW c \in Conns,
           \/ GetOrCreateGroup(c) \/ NewBridgeConnection(c) \/ RejectFull(c) \/ ReportConnected(c)
           \/ CheckReplaced(c) \/ ReportDisconnected(c) \/ RemoveGroupIfEmpty(c)
           \/ DeleteGroup(c) \/ (RemoveBridge(c) /\ ~Current(c))
    PROVE  NoticesRight' /\ RostersRight' /\ PresencesRight'
  <1> USE DEF Goto, Return, mgrVars, sockVars, connVars
  <1>1. /\ pc \in [Conns -> Phases] /\ grp \in [Conns -> Group] /\ group \in [Conns -> Ptr]
        /\ ConnectedAt \in [Conns -> Nat] /\ sock \in [Conns -> {"open", "closed"}]
        /\ client \in [Conns -> Client] /\ Structure
    BY DEF IInv, Structure, StructureTypes, OtherTypes, Traffic
  <1>2. UNCHANGED writeVars
    BY DEF GetOrCreateGroup, NewBridgeConnection, RejectFull, ReportConnected, CheckReplaced,
           ReportDisconnected, RemoveGroupIfEmpty, DeleteGroup, RemoveBridge
  <1>3. ClientsStay
    <2>1. CASE RejectFull(c)
      BY <1>1, <2>1 DEF RejectFull, HangUp, ClientsStay
    <2>2. CASE UNCHANGED <<sock, client>>
      BY <2>2 DEF ClientsStay
    <2> QED BY <2>1, <2>2
            DEF GetOrCreateGroup, NewBridgeConnection, ReportConnected, CheckReplaced,
                ReportDisconnected, RemoveGroupIfEmpty, DeleteGroup, RemoveBridge
  <1>4. /\ \A x \in Conns : x # c => pc'[x] = pc[x] /\ group'[x] = group[x]
        /\ displaced' = displaced
    BY <1>1 DEF GetOrCreateGroup, NewBridgeConnection, RejectFull, ReportConnected, CheckReplaced,
                ReportDisconnected, RemoveGroupIfEmpty, DeleteGroup, RemoveBridge
  <1>5. \/ pc'[c] \notin InGroup
        \/ pc[c] = "online" /\ pc'[c] = "serving" /\ group' = group /\ c \in BridgeConns
    BY <1>1 DEF GetOrCreateGroup, NewBridgeConnection, RejectFull, ReportConnected, CheckReplaced,
                ReportDisconnected, RemoveGroupIfEmpty, DeleteGroup, RemoveBridge, InGroup,
                Structure, HandlersHoldGroups, BridgePhases
  <1>6. \A g \in Conns : grp'[g] = grp[g] \/ (g = c /\ pc[c] = "start")
    BY <1>1 DEF GetOrCreateGroup, NewBridgeConnection, RejectFull, ReportConnected, CheckReplaced,
                ReportDisconnected, RemoveGroupIfEmpty, DeleteGroup, RemoveBridge
  <1>7. MembersStay
    <2>1. \A x \in Conns : pc[x] \in InGroup => group[x] \in Conns /\ pc[group[x]] # "start"
      BY <1>1 DEF Structure, HandlersHoldGroups, GroupsOfAccount, InGroup, Ptr
    <2>2. \A x \in Conns : pc'[x] \in InGroup => pc[x] \in InGroup /\ group'[x] = group[x]
      BY <1>4, <1>5 DEF InGroup
    <2>3. \A x \in Conns : pc'[x] \in InGroup => grp'[group[x]] = grp[group[x]]
      BY <1>6, <2>1, <2>2
    <2>4. \A p \in PhoneConns : pc'[p] = "serving" => pc[p] = "serving"
      BY <1>4, <1>5 DEF InGroup, PhoneConns
    <2> QED BY <1>4, <2>2, <2>3, <2>4, ConnsAssumption DEF MembersStay, Member
  <1>8. \A b \in BridgeConns : Member(b) => ConnectedAt'[b] = ConnectedAt[b]
    BY <1>1, ConnsAssumption
       DEF GetOrCreateGroup, NewBridgeConnection, RejectFull, ReportConnected, CheckReplaced,
           ReportDisconnected, RemoveGroupIfEmpty, DeleteGroup, RemoveBridge, Member, InGroup
  <1>9. AnnouncementsStay
    <2> DEFINE Late == {"added", "removed", "vanishing"}
    <2>1. pc[c] \in Late => pc'[c] \in Late /\ group' = group
      <3>1. CASE CheckReplaced(c)
        BY <1>1, <3>1 DEF CheckReplaced, GroupInv, VanishedIsGone
      <3> QED BY <3>1 DEF GetOrCreateGroup, NewBridgeConnection, RejectFull, ReportConnected,
                          ReportDisconnected, RemoveGroupIfEmpty, DeleteGroup, RemoveBridge, Leaving
    <2> QED BY <1>4, <2>1, ConnsAssumption DEF AnnouncementsStay, Unannounced
  <1> QED BY <1>2, <1>3, <1>7, <1>8, <1>9, ControlKept, TargetsKept, ClientsKept DEF ClientsInv

\* Closed sockets.
LEMMA ClientsHangUp ==
    ASSUME IInv, IInv', ClientsInv, NEW c \in Conns, CloseDisplaced(c) \/ Revoke(c) \/ Drop(c)
    PROVE  NoticesRight' /\ RostersRight' /\ PresencesRight'
  <1>1. UNCHANGED <<pc, grp, group, displaced, ConnectedAt>> /\ UNCHANGED writeVars /\ HangUp(c)
    BY DEF CloseDisplaced, Revoke, Drop, connVars
  <1>2. ClientsStay
    BY <1>1 DEF HangUp, ClientsStay, IInv, OtherTypes, Traffic
  <1>3. MembersStay
    BY <1>1 DEF MembersStay, Member
  <1>4. AnnouncementsStay
    BY <1>1 DEF AnnouncementsStay, Unannounced
  <1> QED BY <1>1, <1>2, <1>3, <1>4, ControlKept, TargetsKept, ClientsKept DEF ClientsInv

\* Data tells clients nothing about each other.
LEMMA ClientsFrame ==
    ASSUME IInv, IInv', ClientsInv, NEW c \in Conns, Alone(c), BridgeFrame(c) \/ PhoneFrame(c)
    PROVE  NoticesRight' /\ RostersRight' /\ PresencesRight'
  <1>1. UNCHANGED <<pc, grp, group, displaced, ConnectedAt, sock, client>>
    BY DEF BridgeFrame, PhoneFrame, connVars, sockVars
  <1>2. ClientsStay /\ MembersStay /\ AnnouncementsStay
    BY <1>1 DEF ClientsStay, MembersStay, Member, AnnouncementsStay, Unannounced
  <1>3. PICK k \in ConnIDs, receivers \in SUBSET Conns :
            jobs' = [jobs EXCEPT ![c] = {<<DataFrame(c, d, k)>> : d \in receivers}]
    BY FrameReceivers DEF IInv
  <1>4. Acts(c) /\ Idle(c) /\ out' = out
    BY DEF BridgeFrame, PhoneFrame, Reading, Announce, Acts, ClientStep
  <1> DEFINE sequences == {<<DataFrame(c, d, k)>> : d \in receivers}
  <1>5. Announce(c, sequences)
    BY <1>3, <1>4 DEF Announce
  <1>6. \A s \in sequences : \A i \in DOMAIN s : s[i].type = "data"
    BY DEF DataFrame
  <1> HIDE DEF sequences
  <1>7. ControlStays
    BY <1>4, <1>5, <1>6, AnnouncedAlone
       DEF ControlStays, LeftToWrite, NoticeTypes, RosterTypes, PresenceTypes
  <1> QED BY <1>1, <1>2, <1>7, TargetsKept, ClientsKept DEF ClientsInv

-------------------------------------------------------------------------------
(* Delivery *)

\* writeOrDrop takes one message off what is left to write.
LEMMA OneLess ==
    ASSUME IInv, NEW c \in Conns, WriteNext(c)
    PROVE  \E w \in Write :
             /\ w \in Unwritten
             /\ \A v : v \in Unwritten' => v \in Unwritten
             /\ \A v : v \in Unwritten => v \in Unwritten' \/ v = w
             /\ \/ /\ sock[w.to] = "open" /\ sock' = sock
                   /\ client' = [client EXCEPT ![w.to] = Received(w)]
                \/ HangUp(w.to)
             /\ UNCHANGED <<pc, grp, group, displaced, ConnectedAt>>
  <1>1. /\ jobs \in [Conns -> SUBSET (Seq(SafeWrite) \ {<<>>})] /\ out \in [Conns -> Seq(SafeWrite)]
        /\ SafeWrite \subseteq Write
    BY DEF IInv, Traffic, SafeWrite
  <1>2. PICK s \in IF out[c] # <<>> THEN {out[c]} ELSE jobs[c] :
            /\ out' = [out EXCEPT ![c] = Tail(s)]
            /\ jobs' = [jobs EXCEPT ![c] = IF out[c] # <<>> THEN jobs[c] ELSE jobs[c] \ {s}]
            /\ \/ /\ sock[Head(s).to] = "open"
                  /\ client' = [client EXCEPT ![Head(s).to] = Received(Head(s))]
                  /\ UNCHANGED sock
               \/ HangUp(Head(s).to)
            /\ UNCHANGED <<pc, mgrVars, grp, group, connVars, displaced, status>>
    BY DEF WriteNext
  <1>3. s \in Seq(SafeWrite) /\ s # <<>> /\ s \in jobs[c] \cup {out[c]}
    BY <1>1, <1>2
  <1>4. /\ 1 \in DOMAIN s /\ Head(s) = s[1] /\ s[1] \in Write
        /\ \A i \in DOMAIN Tail(s) : i + 1 \in DOMAIN s /\ Tail(s)[i] = s[i + 1]
        /\ \A i \in DOMAIN s : i = 1 \/ (i - 1 \in DOMAIN Tail(s) /\ s[i] = Tail(s)[i - 1])
    BY <1>1, <1>3
  <1>5. s[1] \in Unwritten
    BY <1>3, <1>4, UnwrittenHas
  <1>6. /\ \A x \in Conns : x # c => jobs'[x] = jobs[x] /\ out'[x] = out[x]
        /\ out'[c] = Tail(s)
        /\ \A t : t \in jobs'[c] => t \in jobs[c]
        /\ \A t : t \in jobs[c] => t \in jobs'[c] \/ t = s
        /\ out[c] = s \/ out[c] = <<>>
    BY <1>1, <1>2
  <1>7. ASSUME NEW v, v \in Unwritten'
        PROVE  v \in Unwritten
    <2>1. PICK x \in Conns : \E t \in jobs'[x] \cup {out'[x]} : \E i \in DOMAIN t : v = t[i]
      BY <1>7, UnwrittenHasNext
    <2>2. CASE x # c
      BY <1>6, <2>1, <2>2, UnwrittenHas
    <2>3. CASE x = c
      <3>1. CASE \E t \in jobs'[c] : \E i \in DOMAIN t : v = t[i]
        BY <1>6, <3>1, UnwrittenHas
      <3>2. CASE \E i \in DOMAIN Tail(s) : v = Tail(s)[i]
        <4>1. \E i \in DOMAIN s : v = s[i]
          BY <1>4, <3>2
        <4> QED BY <1>3, <4>1, UnwrittenHas
      <3> QED BY <1>6, <2>1, <2>3, <3>1, <3>2
    <2> QED BY <2>2, <2>3
  <1>8. ASSUME NEW v, v \in Unwritten
        PROVE  v \in Unwritten' \/ v = s[1]
    <2>1. PICK x \in Conns : \E t \in jobs[x] \cup {out[x]} : \E i \in DOMAIN t : v = t[i]
      BY <1>8, UnwrittenHas
    <2>2. CASE x # c
      BY <1>6, <2>1, <2>2, UnwrittenHasNext
    <2>3. CASE x = c
      <3>1. PICK t \in jobs[c] \cup {out[c]} : \E i \in DOMAIN t : v = t[i]
        BY <2>1, <2>3
      <3>2. CASE t # s
        <4>1. t \in jobs'[c]
          BY <1>6, <3>1, <3>2
        <4> QED BY <3>1, <4>1, UnwrittenHasNext
      <3>3. CASE t = s
        <4>1. v = s[1] \/ \E i \in DOMAIN Tail(s) : v = Tail(s)[i]
          BY <1>4, <3>1, <3>3
        <4> QED BY <1>6, <4>1, UnwrittenHasNext
      <3> QED BY <3>2, <3>3
    <2> QED BY <2>2, <2>3
  <1> QED BY <1>2, <1>4, <1>5, <1>7, <1>8 DEF connVars

\* What a client makes of one message.
LEMMA ReceivedEffect ==
    ASSUME NEW w \in Write, client \in [Conns -> Client]
    PROVE  /\ Received(w).notice = IF w.type \in NoticeTypes THEN [type |-> w.type, id |-> w.id]
                                   ELSE client[w.to].notice
           /\ \A id \in BridgeIDs : Received(w).presence[id] =
                IF w.type \in {"bridge_online", "bridge_offline"} /\ w.id = id THEN w.type
                ELSE client[w.to].presence[id]
           /\ \A k \in ConnIDs : k \in Received(w).roster <=>
                IF w.type \in {"phone_connected", "phone_disconnected"} /\ w.connID = k
                THEN w.type = "phone_connected" ELSE k \in client[w.to].roster
  <1>1. client[w.to] \in Client /\ w.type \in WriteTypes
    BY DEF Write
  <1> USE <1>1 DEF NoticeTypes, WriteTypes, Received, Client
  <1>2. CASE w.type \in NoticeTypes
    BY <1>2
  <1>3. CASE w.type \in {"bridge_online", "bridge_offline"}
    BY <1>3
  <1>4. CASE w.type \in {"phone_connected", "phone_disconnected"}
    BY <1>4
  <1>5. CASE w.type = "data"
    BY <1>5
  <1> QED BY <1>2, <1>3, <1>4, <1>5

\* A message that is right leaves its receiver right; a receiver that is lost
\* needs to know nothing.
LEMMA ClientsWrite ==
    ASSUME IInv, ClientsInv, NEW c \in Conns, WriteNext(c)
    PROVE  NoticesRight' /\ RostersRight' /\ PresencesRight'
  <1>1. PICK w \in Write :
             /\ w \in Unwritten
             /\ \A v : v \in Unwritten' => v \in Unwritten
             /\ \A v : v \in Unwritten => v \in Unwritten' \/ v = w
             /\ \/ /\ sock[w.to] = "open" /\ sock' = sock
                   /\ client' = [client EXCEPT ![w.to] = Received(w)]
                \/ HangUp(w.to)
             /\ UNCHANGED <<pc, grp, group, displaced, ConnectedAt>>
    BY OneLess
  <1>2. client \in [Conns -> Client] /\ sock \in [Conns -> {"open", "closed"}] /\ w.to \in Conns
    BY DEF IInv, Traffic, OtherTypes, Write
  <1>3. ASSUME NEW x \in Conns, sock'[x] = "open"
        PROVE  /\ sock[x] = "open"
               /\ client'[x] = IF x = w.to THEN Received(w) ELSE client[x]
    BY <1>1, <1>2, <1>3 DEF HangUp
  <1>4. NoticesRight'
    <2> SUFFICES ASSUME NEW p \in PhoneConns, pc'[p] = "serving"
                 PROVE  /\ \A v \in Notices(p)' : RightNotice(p, v)'
                        /\ Notices(p)' = {} /\ sock'[p] = "open" => RightNotice(p, client[p].notice)'
      BY DEF NoticesRight
    <2>1. \A n : RightNotice(p, n)' <=> RightNotice(p, n)
      BY <1>1 DEF RightNotice, Target
    <2>2. /\ \A v \in Notices(p) : RightNotice(p, v)
          /\ Notices(p) = {} /\ sock[p] = "open" => RightNotice(p, client[p].notice)
      BY <1>1 DEF ClientsInv, NoticesRight
    <2>3. Notices(p)' \subseteq Notices(p)
      BY <1>1 DEF Notices
    <2>4. ASSUME Notices(p)' = {}, sock'[p] = "open"
          PROVE  RightNotice(p, client'[p].notice)
      <3>1. p \in Conns
        BY DEF PhoneConns
      <3>2. CASE w.to = p /\ w.type \in NoticeTypes
        <4>1. RightNotice(p, w)
          BY <1>1, <2>2, <3>2 DEF Notices
        <4>2. client'[p].notice = [type |-> w.type, id |-> w.id]
          BY <1>2, <1>3, <2>4, <3>1, <3>2, ReceivedEffect
        <4> QED BY <4>1, <4>2 DEF RightNotice
      <3>3. CASE ~(w.to = p /\ w.type \in NoticeTypes)
        <4>1. Notices(p) = {}
          BY <1>1, <2>4, <3>3 DEF Notices
        <4>2. client'[p].notice = client[p].notice /\ sock[p] = "open"
          BY <1>2, <1>3, <2>4, <3>1, <3>3, ReceivedEffect
        <4> QED BY <2>2, <4>1, <4>2
      <3> QED BY <3>2, <3>3
    <2> QED BY <2>1, <2>2, <2>3, <2>4 DEF RightNotice
  <1>5. RostersRight'
    <2> SUFFICES ASSUME NEW b \in BridgeConns, NEW k \in ConnIDs, pc[b] \in InGroup, b \notin displaced
                 PROVE  /\ \A v \in RosterWrites(b, k)' : v.type = "phone_connected" <=> TalksTo(k, b)'
                        /\ RosterWrites(b, k)' = {} /\ sock'[b] = "open" =>
                                (k \in client'[b].roster <=> TalksTo(k, b)')
      BY <1>1 DEF RostersRight
    <2>1. TalksTo(k, b)' <=> TalksTo(k, b)
      BY <1>1 DEF TalksTo, Target
    <2>2. /\ \A v \in RosterWrites(b, k) : v.type = "phone_connected" <=> TalksTo(k, b)
          /\ RosterWrites(b, k) = {} /\ sock[b] = "open" => (k \in client[b].roster <=> TalksTo(k, b))
      BY DEF ClientsInv, RostersRight
    <2>3. RosterWrites(b, k)' \subseteq RosterWrites(b, k)
      BY <1>1 DEF RosterWrites
    <2>4. ASSUME RosterWrites(b, k)' = {}, sock'[b] = "open"
          PROVE  k \in client'[b].roster <=> TalksTo(k, b)
      <3> DEFINE About == /\ w.to = b /\ w.type \in {"phone_connected", "phone_disconnected"}
                          /\ w.connID = k
      <3>1. b \in Conns
        BY ConnsAssumption
      <3>2. CASE About
        <4>1. w.type = "phone_connected" <=> TalksTo(k, b)
          BY <1>1, <2>2, <3>2 DEF RosterWrites
        <4>2. k \in client'[b].roster <=> w.type = "phone_connected"
          BY <1>2, <1>3, <2>4, <3>1, <3>2, ReceivedEffect
        <4> QED BY <4>1, <4>2
      <3>3. CASE ~About
        <4>1. RosterWrites(b, k) = {}
          BY <1>1, <2>4, <3>3 DEF RosterWrites
        <4>2. (k \in client'[b].roster <=> k \in client[b].roster) /\ sock[b] = "open"
          BY <1>2, <1>3, <2>4, <3>1, <3>3, ReceivedEffect
        <4> QED BY <2>2, <4>1, <4>2
      <3> QED BY <3>2, <3>3
    <2> QED BY <2>1, <2>2, <2>3, <2>4
  <1>6. PresencesRight'
    <2> SUFFICES ASSUME NEW p \in PhoneConns, NEW id \in BridgeIDs, pc[p] = "serving",
                        ~Unannounced(group[p], id)
                 PROVE  LET live == grp[group[p]].Bridges[id] # nil IN
                        /\ \A v \in PresenceWrites(p, id)' : v.type = "bridge_online" <=> live
                        /\ PresenceWrites(p, id)' = {} /\ sock'[p] = "open"
                                /\ client'[p].presence[id] # "unknown"
                            => (client'[p].presence[id] = "bridge_online" <=> live)
      BY <1>1 DEF PresencesRight, Unannounced
    <2> DEFINE live == grp[group[p]].Bridges[id] # nil
    <2>2. /\ \A v \in PresenceWrites(p, id) : v.type = "bridge_online" <=> live
          /\ PresenceWrites(p, id) = {} /\ sock[p] = "open" /\ client[p].presence[id] # "unknown"
                => (client[p].presence[id] = "bridge_online" <=> live)
      BY DEF ClientsInv, PresencesRight
    <2>3. PresenceWrites(p, id)' \subseteq PresenceWrites(p, id)
      BY <1>1 DEF PresenceWrites
    <2>4. ASSUME PresenceWrites(p, id)' = {}, sock'[p] = "open", client'[p].presence[id] # "unknown"
          PROVE  client'[p].presence[id] = "bridge_online" <=> live
      <3> DEFINE About == /\ w.to = p /\ w.type \in {"bridge_online", "bridge_offline"}
                          /\ w.id = id
      <3>0. Received(w).presence[id] =
              IF w.type \in {"bridge_online", "bridge_offline"} /\ w.id = id THEN w.type
              ELSE client[w.to].presence[id]
        BY <1>2, ReceivedEffect
      <3>1. p \in Conns
        BY DEF PhoneConns
      <3>2. CASE About
        <4>1. w.type = "bridge_online" <=> live
          BY <1>1, <2>2, <3>2 DEF PresenceWrites
        <4>2. client'[p].presence[id] = w.type
          BY <1>3, <2>4, <3>1, <3>2, <3>0
        <4> QED BY <4>1, <4>2
      <3>3. CASE ~About
        <4>1. PresenceWrites(p, id) = {}
          BY <1>1, <2>4, <3>3 DEF PresenceWrites
        <4>2. p = w.to => Received(w).presence[id] = client[p].presence[id]
          BY <3>0, <3>3
        <4>3. client'[p].presence[id] = client[p].presence[id] /\ sock[p] = "open"
          BY <1>3, <2>4, <3>1, <4>2
        <4> QED BY <2>2, <2>4, <4>1, <4>3
      <3> QED BY <3>2, <3>3
    <2> QED BY <2>2, <2>3, <2>4
  <1> QED BY <1>4, <1>5, <1>6

-------------------------------------------------------------------------------
(* Announcing that a bridge came or went *)

\* bridge_presence: every phone of the group is about to hear of the bridge, and
\* nobody hears anything else.
LEMMA ClientsPresence ==
    ASSUME IInv, IInv', GroupInv, ClientsInv, NEW c \in Conns, Alone(c),
           AnnounceOnline(c) \/ AnnounceOffline(c)
    PROVE  NoticesRight' /\ RostersRight' /\ PresencesRight'
  <1> DEFINE type == IF pc[c] = "added" THEN "bridge_online" ELSE "bridge_offline"
             G == grp[group[c]]
             cid == BridgeID[c]
             sequences == announcePresence(AllPhones(G), cid, type)
  <1>1. /\ UNCHANGED <<grp, group, displaced, ConnectedAt, sock, client>>
        /\ \/ pc[c] = "added" /\ pc' = [pc EXCEPT ![c] = "online"]
           \/ pc[c] = "vanishing" /\ pc' = [pc EXCEPT ![c] = "offline"]
        /\ Announce(c, sequences)
    BY DEF AnnounceOnline, AnnounceOffline, connVars, sockVars, Goto
  <1>2. Idle(c) /\ Acts(c)
    BY DEF AnnounceOnline, AnnounceOffline, Acts, HandlerStep, GroupInv, NothingToWrite
  <1>3. /\ pc \in [Conns -> Phases] /\ Structure
        /\ c \in BridgeConns /\ cid \in BridgeIDs /\ group[c] \in Conns
    BY <1>1, ConnsAssumption
       DEF IInv, Structure, StructureTypes, HandlersHoldGroups, BridgePhases, Ptr
  <1>4. \A w : w \in Unwritten' <=> \E q \in AllPhones(G) : w = ToPhone(q, type, cid)
    <2>1. \A w : w \in Unwritten' <=> \E s \in sequences : \E i \in DOMAIN s : w = s[i]
      BY <1>1, <1>2, AnnouncedAlone
    <2>2. \A s : s \in sequences <=> \E q \in AllPhones(G) : s = <<ToPhone(q, type, cid)>>
      BY DEF announcePresence
    <2>3. \A m, w : (\E i \in DOMAIN <<m>> : w = <<m>>[i]) <=> w = m
      OBVIOUS
    <2> HIDE DEF sequences, type, G, cid
    <2>4. ASSUME NEW w, w \in Unwritten'
          PROVE  \E q \in AllPhones(G) : w = ToPhone(q, type, cid)
      <3>1. PICK s \in sequences : \E i \in DOMAIN s : w = s[i]
        BY <2>1, <2>4
      <3>2. PICK q \in AllPhones(G) : s = <<ToPhone(q, type, cid)>>
        BY <2>2, <3>1
      <3> QED BY <2>3, <3>1, <3>2
    <2>5. ASSUME NEW q \in AllPhones(G)
          PROVE  ToPhone(q, type, cid) \in Unwritten'
      <3>1. <<ToPhone(q, type, cid)>> \in sequences
        BY <2>2
      <3>2. \E s \in sequences : \E i \in DOMAIN s : ToPhone(q, type, cid) = s[i]
        BY <2>3, <3>1
      <3> QED BY <2>1, <3>2
    <2> QED BY <2>4, <2>5
  <1>5. Unwritten = {}
    BY <1>1, <1>2, AnnouncedAlone
  <1> HIDE DEF type, sequences
  <1>6. type \in PresenceTypes
    BY DEF type, PresenceTypes
  <1>7. ClientsStay /\ LeftToWrite(NoticeTypes) /\ LeftToWrite(RosterTypes)
    BY <1>1, <1>4, <1>5, <1>6
       DEF ClientsStay, LeftToWrite, NoticeTypes, RosterTypes, PresenceTypes, ToPhone
  <1>8. MembersStay
    BY <1>1, <1>3, ConnsAssumption DEF MembersStay, Member, InGroup, PhoneConns
  <1>9. TargetsStay
    BY <1>1, <1>8, TargetsKept
  <1>10. type = "bridge_online" <=> G.Bridges[cid] # nil
    <2>1. CASE pc[c] = "added"
      BY <1>3, <2>1, ConnsAssumption
         DEF ClientsInv, AnnouncesAsMember, Structure, SlotOwned, Current, IsCurrentBridge, InGroup,
             type
    <2>2. CASE pc[c] = "vanishing"
      <3>1. c \notin displaced
        BY <1>3, <2>2 DEF Structure, DisplacedPhases, InGroup
      <3>2. registry[User[c]] = group[c] /\ group[c] # nil
        BY <1>3, <3>1, ConnsAssumption DEF GroupInv, HoldsRegistered
      <3> QED BY <2>2, <3>2 DEF GroupInv, VanishedIsGone, HasLiveBridgeWithID, type
    <2> QED BY <1>1, <2>1, <2>2
  <1>11. PresencesRight'
    <2> SUFFICES ASSUME NEW p \in PhoneConns, NEW id \in BridgeIDs, pc'[p] = "serving",
                        ~Unannounced(group[p], id)'
                 PROVE  LET live == grp[group[p]].Bridges[id] # nil IN
                        /\ \A w \in PresenceWrites(p, id)' : w.type = "bridge_online" <=> live
                        /\ PresenceWrites(p, id)' = {} /\ sock[p] = "open"
                                /\ client[p].presence[id] # "unknown"
                            => (client[p].presence[id] = "bridge_online" <=> live)
      BY <1>1 DEF PresencesRight
    <2>1. pc[p] = "serving" /\ p # c
      BY <1>1, <1>3 DEF PhoneConns
    <2>2. p \in AllPhones(G) <=> group[p] = group[c]
      BY <1>3, <2>1, EntriesAreMembers
    <2>3. CASE group[p] = group[c] /\ id = cid
      <3>1. ToPhone(p, type, cid) \in PresenceWrites(p, id)'
        BY <1>4, <1>6, <2>2, <2>3 DEF PresenceWrites, PresenceTypes, ToPhone
      <3>2. \A w \in PresenceWrites(p, id)' : w.type = type
        BY <1>4 DEF PresenceWrites, ToPhone
      <3> QED BY <1>10, <2>3, <3>1, <3>2
    <2>4. CASE ~(group[p] = group[c] /\ id = cid)
      <3>1. PresenceWrites(p, id)' = {}
        BY <1>4, <2>2, <2>4 DEF PresenceWrites, ToPhone
      <3>2. ~Unannounced(group[p], id)
        BY <1>1, <1>3, <2>4, ConnsAssumption DEF Unannounced
      <3>3. PresenceWrites(p, id) = {}
        BY <1>5 DEF PresenceWrites
      <3> QED BY <2>1, <3>1, <3>2, <3>3 DEF ClientsInv, PresencesRight
    <2> QED BY <2>3, <2>4
  <1> QED BY <1>7, <1>8, <1>9, <1>11, NoticesKept, RostersKept DEF ClientsInv

-------------------------------------------------------------------------------
(* A phone comes *)

\* AddPhone: the phone is about to hear of its target, and its target of it;
\* everybody else has heard it all.
LEMMA ClientsAddPhone ==
    ASSUME IInv, IInv', GroupInv, ClientsInv, NEW c \in Conns, Alone(c), AddPhone(c)
    PROVE  NoticesRight' /\ RostersRight' /\ PresencesRight'
  <1> DEFINE g == group[c]
             k0 == ConnID'[c]
             target == targetLocked(grp[group[c]].Bridges, ConnectedAt, c)
  <1>1. /\ pc[c] = "joined" /\ pc' = [pc EXCEPT ![c] = "serving"]
        /\ UNCHANGED <<group, displaced, ConnectedAt, sock, client>>
    BY DEF AddPhone, sockVars, Goto
  <1>2. Announce(c, {IF target = nil THEN <<ToPhone(c, "bridge_disconnected", BridgeID[c])>>
                     ELSE <<ToBridge(target, "phone_connected", k0),
                            ToPhone(c, "bridge_connected", BridgeID[target])>>})
    <2>1. PICK id \in ConnIDs :
            /\ ConnID' = [ConnID EXCEPT ![c] = id]
            /\ Announce(c, {IF target = nil THEN <<ToPhone(c, "bridge_disconnected", BridgeID[c])>>
                            ELSE <<ToBridge(target, "phone_connected", id),
                                   ToPhone(c, "bridge_connected", BridgeID[target])>>})
      BY DEF AddPhone
    <2>2. ConnID'[c] = id
      BY <2>1 DEF IInv, Structure, StructureTypes
    <2> QED BY <2>1, <2>2
  <1>3. Idle(c) /\ Acts(c)
    BY <1>1 DEF Acts, HandlerStep, GroupInv, NothingToWrite
  <1>4. /\ pc \in [Conns -> Phases] /\ Structure /\ Structure' /\ grp \in [Conns -> Group]
        /\ c \in PhoneConns /\ g \in Conns /\ c \notin BridgeConns
        /\ SameGroups({g}) /\ grp'[g].Bridges = grp[g].Bridges
        /\ k0 \in ConnIDs /\ grp[g].Phones[k0] = nil
        /\ grp'[g].Phones = [grp[g].Phones EXCEPT ![k0] = c]
        /\ target \in LiveBridges(grp[g].Bridges) \cup {nil}
    BY AddPhoneMaps, TargetInMap DEF IInv, Structure, StructureTypes, PhoneConns, Group
  <1> HIDE DEF target
  <1>5. Unwritten = {} /\ \A w : w \in Unwritten' <=>
            \/ target = nil /\ w = ToPhone(c, "bridge_disconnected", BridgeID[c])
            \/ target # nil /\ w = ToBridge(target, "phone_connected", k0)
            \/ target # nil /\ w = ToPhone(c, "bridge_connected", BridgeID[target])
    <2> DEFINE s0 == IF target = nil THEN <<ToPhone(c, "bridge_disconnected", BridgeID[c])>>
                     ELSE <<ToBridge(target, "phone_connected", k0),
                            ToPhone(c, "bridge_connected", BridgeID[target])>>
    <2>1. Unwritten = {} /\ \A w : w \in Unwritten' <=> \E i \in DOMAIN s0 : w = s0[i]
      BY <1>2, <1>3, AnnouncedAlone
    <2>2. \A m, n, w : /\ (\E i \in DOMAIN <<m>> : w = <<m>>[i]) <=> w = m
                       /\ (\E i \in DOMAIN <<m, n>> : w = <<m, n>>[i]) <=> w = m \/ w = n
      OBVIOUS
    <2>3. CASE target = nil
      BY <2>1, <2>2, <2>3
    <2>4. CASE target # nil
      BY <2>1, <2>2, <2>4
    <2> QED BY <2>3, <2>4
  <1>6. ASSUME NEW p \in PhoneConns, pc'[p] = "serving"
        PROVE  /\ p \in Conns /\ group[p] \in Conns
               /\ grp'[group[p]].Bridges = grp[group[p]].Bridges
               /\ Target(p)' = Target(p)
               /\ p # c => pc[p] = "serving"
    <2>1. p \in Conns /\ group[p] \in Conns
      BY <1>1, <1>4, <1>6 DEF PhoneConns, Structure, StructureTypes, HandlersHoldGroups, Ptr
    <2>2. grp'[group[p]].Bridges = grp[group[p]].Bridges
      BY <1>4, <2>1 DEF SameGroups
    <2> QED BY <1>1, <1>4, <1>6, <2>1, <2>2 DEF Target
  <1>7. NoticesRight'
    <2> SUFFICES ASSUME NEW p \in PhoneConns, pc'[p] = "serving"
                 PROVE  /\ \A w \in Notices(p)' : RightNotice(p, w)'
                        /\ Notices(p)' = {} /\ sock'[p] = "open" => RightNotice(p, client[p].notice)'
      BY DEF NoticesRight
    <2>1. \A n : RightNotice(p, n)' <=> RightNotice(p, n)
      BY <1>6 DEF RightNotice
    <2>2. CASE p = c
      <3>1. Target(p) = target
        BY <2>2 DEF Target, target
      <3>2. \A w \in Notices(p)' : RightNotice(p, w)
        BY <1>5, <2>2, <3>1 DEF Notices, RightNotice, ToPhone, ToBridge, NoticeTypes
      <3>3. Notices(p)' # {}
        <4>1. CASE target = nil
          <5> DEFINE w == ToPhone(c, "bridge_disconnected", BridgeID[c])
          <5>1. w \in Unwritten'
            BY <1>5, <4>1
          <5>2. w.to = p /\ w.type \in NoticeTypes
            BY <2>2 DEF ToPhone, NoticeTypes
          <5> QED BY <5>1, <5>2 DEF Notices
        <4>2. CASE target # nil
          <5> DEFINE w == ToPhone(c, "bridge_connected", BridgeID[target])
          <5>1. w \in Unwritten'
            BY <1>5, <4>2
          <5>2. w.to = p /\ w.type \in NoticeTypes
            BY <2>2 DEF ToPhone, NoticeTypes
          <5> QED BY <5>1, <5>2 DEF Notices
        <4> QED BY <4>1, <4>2
      <3> QED BY <2>1, <3>2, <3>3
    <2>3. CASE p # c
      <3>1. Notices(p)' = {} /\ Notices(p) = {}
        BY <1>5, <2>3 DEF Notices, ToPhone, ToBridge, NoticeTypes
      <3> QED BY <1>1, <1>6, <2>1, <2>3, <3>1 DEF ClientsInv, NoticesRight, RightNotice
    <2> QED BY <2>2, <2>3
  <1>8. RostersRight'
    <2> SUFFICES ASSUME NEW b \in BridgeConns, NEW k \in ConnIDs, Member(b)'
                 PROVE  /\ \A w \in RosterWrites(b, k)' : w.type = "phone_connected" <=> TalksTo(k, b)'
                        /\ RosterWrites(b, k)' = {} /\ sock'[b] = "open" =>
                                (k \in client'[b].roster <=> TalksTo(k, b)')
      BY DEF RostersRight, Member
    <2>1. b \in Conns /\ b # c /\ Member(b) /\ group'[b] = group[b] /\ group[b] \in Conns
      BY <1>1, <1>4, ConnsAssumption
         DEF Member, Structure, StructureTypes, HandlersHoldGroups, Ptr, InGroup
    <2>2. RosterWrites(b, k) = {} /\ (sock[b] = "open" => (k \in client[b].roster <=> TalksTo(k, b)))
      BY <1>5, <2>1 DEF RosterWrites, ClientsInv, RostersRight, Member
    <2>3. \A w : w \in RosterWrites(b, k)' <=>
                w = ToBridge(target, "phone_connected", k0) /\ target = b /\ k = k0
      BY <1>5, <2>1, ConnsAssumption DEF RosterWrites, ToBridge, ToPhone, NoticeTypes
    <2>4. CASE k = k0 /\ group[b] = g
      <3>1. ~TalksTo(k, b)
        BY <1>4, <2>4 DEF TalksTo
      <3>2. grp'[group[b]].Phones[k] = c /\ c # nil
        BY <1>4, <2>4, ConnsAssumption DEF Group, PhoneMap
      <3>3. Target(c)' = target
        BY <1>1, <1>4 DEF Target, target
      <3>4. TalksTo(k, b)' <=> target = b
        BY <2>1, <3>2, <3>3 DEF TalksTo
      <3>5. CASE target = b
        <4>1. RosterWrites(b, k)' # {}
          BY <2>3, <2>4, <3>5
        <4>2. \A w \in RosterWrites(b, k)' : w.type = "phone_connected"
          BY <2>3 DEF ToBridge
        <4> QED BY <3>4, <3>5, <4>1, <4>2
      <3>6. CASE target # b
        <4>1. RosterWrites(b, k)' = {}
          BY <2>3, <3>6
        <4> QED BY <1>1, <2>2, <3>1, <3>4, <3>6, <4>1
      <3> QED BY <3>5, <3>6
    <2>5. CASE ~(k = k0 /\ group[b] = g)
      <3>1. grp'[group[b]].Phones[k] = grp[group[b]].Phones[k]
        BY <1>4, <2>1, <2>5 DEF SameGroups, Group, PhoneMap
      <3>2. grp'[group[b]].Phones[k] # nil =>
              LET p == grp'[group[b]].Phones[k] IN p \in PhoneConns /\ pc'[p] = "serving"
        BY <1>4, <2>1 DEF Structure, SlotOwned, PhoneEntry
      <3>3. TalksTo(k, b)' <=> TalksTo(k, b)
        BY <1>6, <2>1, <3>1, <3>2 DEF TalksTo
      <3>4. target = b => group[b] = g
        BY <1>4, <2>1, EntriesAreMembers, ConnsAssumption
      <3> QED BY <1>1, <2>2, <2>3, <2>5, <3>3, <3>4
    <2> QED BY <2>4, <2>5
  <1>9. PresencesRight'
    <2> SUFFICES ASSUME NEW p \in PhoneConns, NEW id \in BridgeIDs, pc'[p] = "serving",
                        ~Unannounced(group[p], id)'
                 PROVE  LET live == grp'[group[p]].Bridges[id] # nil IN
                        /\ \A w \in PresenceWrites(p, id)' : w.type = "bridge_online" <=> live
                        /\ PresenceWrites(p, id)' = {} /\ sock[p] = "open"
                                /\ client[p].presence[id] # "unknown"
                            => (client[p].presence[id] = "bridge_online" <=> live)
      BY <1>1 DEF PresencesRight
    <2>1. PresenceWrites(p, id)' = {} /\ PresenceWrites(p, id) = {}
      BY <1>5 DEF PresenceWrites, ToPhone, ToBridge
    <2>2. CASE p = c
      <3>1. client[c] = NewClient
        BY <1>1 DEF ClientsInv, NewcomersKnowNothing
      <3> QED BY <2>1, <2>2, <3>1 DEF NewClient
    <2>3. CASE p # c
      <3>1. ~Unannounced(group[p], id)
        BY <1>1, <1>4, ConnsAssumption DEF Unannounced
      <3> QED BY <1>6, <2>1, <2>3, <3>1 DEF ClientsInv, PresencesRight
    <2> QED BY <2>2, <2>3
  <1> QED BY <1>7, <1>8, <1>9

-------------------------------------------------------------------------------
(* A phone goes *)

\* RemovePhone: the bridge the phone talked to is about to hear that it left.
LEMMA ClientsRemovePhone ==
    ASSUME IInv, IInv', ClientsInv, NEW c \in Conns, Alone(c), RemovePhone(c)
    PROVE  NoticesRight' /\ RostersRight' /\ PresencesRight'
  <1> DEFINE g == group[c]
             k0 == ConnID[c]
             target == targetLocked(grp[group[c]].Bridges, ConnectedAt, c)
             sequences == IF target = nil THEN {}
                          ELSE {<<ToBridge(target, "phone_disconnected", k0)>>}
  <1>1. /\ pc[c] = "serving" /\ pc' = [pc EXCEPT ![c] = "cleanup"]
        /\ UNCHANGED <<group, displaced, ConnectedAt, sock, client>>
        /\ Announce(c, sequences)
    BY DEF RemovePhone, sockVars, connVars, Goto, Leaving
  <1>2. Idle(c) /\ Acts(c)
    BY DEF Acts, HandlerStep, RemovePhone, Leaving
  <1>3. /\ pc \in [Conns -> Phases] /\ Structure /\ Structure' /\ grp \in [Conns -> Group]
        /\ c \in PhoneConns /\ g \in Conns /\ c \notin BridgeConns
        /\ SameGroups({g}) /\ grp'[g].Bridges = grp[g].Bridges
        /\ k0 \in ConnIDs
        /\ grp'[g].Phones = [grp[g].Phones EXCEPT ![k0] = nil]
        /\ target \in LiveBridges(grp[g].Bridges) \cup {nil}
    BY RemovePhoneMaps, TargetInMap DEF IInv, Structure, StructureTypes, PhoneConns, Group
  <1>4. grp[g].Phones[k0] = c /\ c # nil
    BY <1>1, <1>3, ConnsAssumption DEF Structure, SlotOwned
  <1>5. Unwritten = {} /\ \A w : w \in Unwritten' =>
            target # nil /\ w = ToBridge(target, "phone_disconnected", k0)
    <2>1. Unwritten = {} /\ \A w : w \in Unwritten' <=> \E s \in sequences : \E i \in DOMAIN s : w = s[i]
      BY <1>1, <1>2, AnnouncedAlone
    <2>2. \A m, w : (\E i \in DOMAIN <<m>> : w = <<m>>[i]) <=> w = m
      OBVIOUS
    <2> HIDE DEF target
    <2> QED BY <2>1, <2>2
  <1>6. target # nil => ToBridge(target, "phone_disconnected", k0) \in Unwritten'
    <2> DEFINE m == ToBridge(target, "phone_disconnected", k0)
    <2>1. \A w : w \in Unwritten' <=> \E s \in sequences : \E i \in DOMAIN s : w = s[i]
      BY <1>1, <1>2, AnnouncedAlone
    <2>2. \E i \in DOMAIN <<m>> : m = <<m>>[i]
      OBVIOUS
    <2>3. target # nil => <<m>> \in sequences
      OBVIOUS
    <2> HIDE DEF m, sequences, target
    <2>4. target # nil => m \in Unwritten'
      BY <2>1, <2>2, <2>3
    <2> QED BY <2>4 DEF m
  <1> HIDE DEF target, sequences
  <1>7. ASSUME NEW p \in PhoneConns, pc'[p] = "serving"
        PROVE  /\ p \in Conns /\ group[p] \in Conns /\ p # c /\ pc[p] = "serving"
               /\ grp'[group[p]].Bridges = grp[group[p]].Bridges
               /\ Target(p)' = Target(p)
    <2>1. p \in Conns /\ p # c /\ pc[p] = "serving"
      BY <1>1, <1>3, <1>7 DEF PhoneConns
    <2>2. group[p] \in Conns
      BY <1>3, <2>1 DEF Structure, StructureTypes, HandlersHoldGroups, Ptr
    <2>3. grp'[group[p]].Bridges = grp[group[p]].Bridges
      BY <1>3, <2>2 DEF SameGroups
    <2> QED BY <1>1, <2>1, <2>2, <2>3 DEF Target
  <1>8. NoticesRight'
    <2> SUFFICES ASSUME NEW p \in PhoneConns, pc'[p] = "serving"
                 PROVE  /\ \A w \in Notices(p)' : RightNotice(p, w)'
                        /\ Notices(p)' = {} /\ sock'[p] = "open" => RightNotice(p, client[p].notice)'
      BY DEF NoticesRight
    <2>1. \A n : RightNotice(p, n)' <=> RightNotice(p, n)
      BY <1>7 DEF RightNotice
    <2>2. Notices(p)' = {} /\ Notices(p) = {}
      BY <1>5 DEF Notices, ToBridge, NoticeTypes
    <2> QED BY <1>1, <1>7, <2>1, <2>2 DEF ClientsInv, NoticesRight, RightNotice
  <1>9. RostersRight'
    <2> SUFFICES ASSUME NEW b \in BridgeConns, NEW k \in ConnIDs, Member(b)'
                 PROVE  /\ \A w \in RosterWrites(b, k)' : w.type = "phone_connected" <=> TalksTo(k, b)'
                        /\ RosterWrites(b, k)' = {} /\ sock'[b] = "open" =>
                                (k \in client'[b].roster <=> TalksTo(k, b)')
      BY DEF RostersRight, Member
    <2>1. b \in Conns /\ b # c /\ Member(b) /\ group'[b] = group[b] /\ group[b] \in Conns
      BY <1>1, <1>3, ConnsAssumption
         DEF Member, Structure, StructureTypes, HandlersHoldGroups, Ptr, InGroup
    <2>2. RosterWrites(b, k) = {} /\ (sock[b] = "open" => (k \in client[b].roster <=> TalksTo(k, b)))
      BY <1>5, <2>1 DEF RosterWrites, ClientsInv, RostersRight, Member
    <2>3. \A w : w \in RosterWrites(b, k)' => w.type = "phone_disconnected" /\ target = b /\ k = k0
      BY <1>5 DEF RosterWrites, ToBridge
    <2>4. CASE k = k0 /\ group[b] = g
      <3>1. ~TalksTo(k, b)'
        BY <1>3, <2>1, <2>4 DEF TalksTo, Group, PhoneMap
      <3>2. TalksTo(k, b) <=> target = b
        BY <1>4, <2>4 DEF TalksTo, Target, target
      <3>3. target = b => RosterWrites(b, k)' # {}
        <4> SUFFICES ASSUME target = b
                     PROVE  RosterWrites(b, k)' # {}
          OBVIOUS
        <4> DEFINE w == ToBridge(target, "phone_disconnected", k0)
        <4>1. w \in Unwritten'
          BY <1>6, <2>1, ConnsAssumption
        <4>2. w.to = b /\ w.type = "phone_disconnected" /\ w.connID = k
          BY <2>4 DEF ToBridge
        <4> QED BY <4>1, <4>2 DEF RosterWrites
      <3> QED BY <1>1, <2>2, <2>3, <3>1, <3>2, <3>3
    <2>5. CASE ~(k = k0 /\ group[b] = g)
      <3>1. grp'[group[b]].Phones[k] = grp[group[b]].Phones[k]
        BY <1>3, <2>1, <2>5 DEF SameGroups, Group, PhoneMap
      <3>2. grp'[group[b]].Phones[k] # nil =>
              LET p == grp'[group[b]].Phones[k] IN p \in PhoneConns /\ pc'[p] = "serving"
        BY <1>3, <2>1 DEF Structure, SlotOwned, PhoneEntry
      <3>3. TalksTo(k, b)' <=> TalksTo(k, b)
        BY <1>7, <2>1, <3>1, <3>2 DEF TalksTo
      <3>4. target = b => group[b] = g
        BY <1>3, <2>1, EntriesAreMembers, ConnsAssumption
      <3> QED BY <1>1, <2>2, <2>3, <2>5, <3>3, <3>4
    <2> QED BY <2>4, <2>5
  <1>10. PresencesRight'
    <2> SUFFICES ASSUME NEW p \in PhoneConns, NEW id \in BridgeIDs, pc'[p] = "serving",
                        ~Unannounced(group[p], id)'
                 PROVE  LET live == grp'[group[p]].Bridges[id] # nil IN
                        /\ \A w \in PresenceWrites(p, id)' : w.type = "bridge_online" <=> live
                        /\ PresenceWrites(p, id)' = {} /\ sock[p] = "open"
                                /\ client[p].presence[id] # "unknown"
                            => (client[p].presence[id] = "bridge_online" <=> live)
      BY <1>1 DEF PresencesRight
    <2>1. PresenceWrites(p, id)' = {} /\ PresenceWrites(p, id) = {}
      BY <1>5 DEF PresenceWrites, ToBridge
    <2>2. ~Unannounced(group[p], id)
      BY <1>1, <1>3, ConnsAssumption DEF Unannounced
    <2> QED BY <1>7, <2>1, <2>2 DEF ClientsInv, PresencesRight
  <1> QED BY <1>8, <1>9, <1>10

-------------------------------------------------------------------------------
(* A bridge comes or goes *)

\* The elements of a concatenation.
LEMMA ConcatHas ==
    ASSUME NEW S, NEW s \in Seq(S), NEW t \in Seq(S), NEW w
    PROVE  w \in Writes(s \o t) <=> w \in Writes(s) \/ w \in Writes(t)
  <1>1. /\ s \o t \in Seq(S) /\ Len(s \o t) = Len(s) + Len(t)
        /\ \A i \in 1 .. Len(s) + Len(t) :
              (s \o t)[i] = IF i <= Len(s) THEN s[i] ELSE t[i - Len(s)]
    BY ConcatProperties
  <1>2. /\ DOMAIN s = 1 .. Len(s) /\ DOMAIN t = 1 .. Len(t) /\ Len(s) \in Nat /\ Len(t) \in Nat
        /\ DOMAIN (s \o t) = 1 .. Len(s) + Len(t)
    BY <1>1
  <1>3. ASSUME NEW i \in DOMAIN s
        PROVE  i \in DOMAIN (s \o t) /\ (s \o t)[i] = s[i]
    BY <1>1, <1>2
  <1>4. ASSUME NEW i \in DOMAIN t
        PROVE  i + Len(s) \in DOMAIN (s \o t) /\ (s \o t)[i + Len(s)] = t[i]
    BY <1>1, <1>2
  <1>5. ASSUME NEW i \in DOMAIN (s \o t)
        PROVE  \/ i \in DOMAIN s /\ (s \o t)[i] = s[i]
               \/ i - Len(s) \in DOMAIN t /\ (s \o t)[i] = t[i - Len(s)]
    BY <1>1, <1>2
  <1>6. (\E i \in DOMAIN (s \o t) : w = (s \o t)[i]) <=>
               (\E i \in DOMAIN s : w = s[i]) \/ (\E i \in DOMAIN t : w = t[i])
    BY <1>3, <1>4, <1>5
  <1> QED BY <1>6, Zenon DEF Writes

\* Who hears what when a bridge comes or goes and the target of phone p
\* changes from old to new.
BridgeNews(w, p, old, new, after) ==
    /\ new # old
    /\ \/ /\ old # nil /\ after[BridgeID[old]] = old
          /\ w = ToBridge(old, "phone_disconnected", ConnID[p])
       \/ /\ new = nil
          /\ w = ToPhone(p, "bridge_disconnected", IF old = nil THEN NoID ELSE BridgeID[old])
       \/ new # nil /\ w = ToPhone(p, "bridge_connected", BridgeID[new])
       \/ new # nil /\ w = ToBridge(new, "phone_connected", ConnID[p])

\* The messages of announceTargetChanges, one by one: the phones whose target
\* changes hear of it, and so do the bridges they leave, if they are still there,
\* and come to.
LEMMA ChangeWrites ==
    ASSUME NEW G, NEW after, NEW w
    PROVE  (\E s \in {announceTargetChanges(ch) : ch \in changeBridgesLocked(G, after, ConnectedAt)} :
                \E i \in DOMAIN s : w = s[i])
           <=> \E p \in AllPhones(G) :
                 BridgeNews(w, p, targetLocked(G.Bridges, ConnectedAt, p),
                            targetLocked(after, ConnectedAt, p), after)
  <1> DEFINE Old(p) == targetLocked(G.Bridges, ConnectedAt, p)
             New(p) == targetLocked(after, ConnectedAt, p)
             Change(p) == [phone |-> p,
                           previous |-> IF Old(p) # nil /\ after[BridgeID[Old(p)]] = Old(p)
                                        THEN Old(p) ELSE nil,
                           previousBridgeID |-> IF Old(p) = nil THEN NoID ELSE BridgeID[Old(p)],
                           next |-> New(p)]
             Says(p) == \E i \in DOMAIN announceTargetChanges(Change(p)) :
                            w = announceTargetChanges(Change(p))[i]
             Told(p) == \/ /\ Old(p) # nil /\ after[BridgeID[Old(p)]] = Old(p)
                           /\ w = ToBridge(Old(p), "phone_disconnected", ConnID[p])
                        \/ /\ New(p) = nil
                           /\ w = ToPhone(p, "bridge_disconnected",
                                          IF Old(p) = nil THEN NoID ELSE BridgeID[Old(p)])
                        \/ New(p) # nil /\ w = ToPhone(p, "bridge_connected", BridgeID[New(p)])
                        \/ New(p) # nil /\ w = ToBridge(New(p), "phone_connected", ConnID[p])
  <1>1. \A ch : ch \in changeBridgesLocked(G, after, ConnectedAt) <=>
                    \E p \in AllPhones(G) : New(p) # Old(p) /\ ch = Change(p)
    BY DEF changeBridgesLocked
  <1>2. ASSUME NEW p
        PROVE  Says(p) <=> Told(p)
    <2> DEFINE a == ToBridge(Old(p), "phone_disconnected", ConnID[p])
               b == ToPhone(p, "bridge_disconnected", IF Old(p) = nil THEN NoID ELSE BridgeID[Old(p)])
               d == ToPhone(p, "bridge_connected", BridgeID[New(p)])
               e == ToBridge(New(p), "phone_connected", ConnID[p])
               there == Old(p) # nil /\ after[BridgeID[Old(p)]] = Old(p)
    <2>1. announceTargetChanges(Change(p)) =
            (IF there THEN <<a>> ELSE <<>>) \o (IF New(p) = nil THEN <<b>> ELSE <<d, e>>)
      BY DEF announceTargetChanges
    <2> DEFINE left == IF there THEN <<a>> ELSE <<>>
               moved == IF New(p) = nil THEN <<b>> ELSE <<d, e>>
    <2> HIDE DEF a, b, d, e, Change
    <2> DEFINE S == {a, b, d, e}
    <2>2. left \in Seq(S) /\ moved \in Seq(S)
      <3>1. a \in S /\ b \in S /\ d \in S /\ e \in S
        OBVIOUS
      <3> HIDE DEF S
      <3>2. <<>> \in Seq(S) /\ <<a>> \in Seq(S) /\ <<b>> \in Seq(S) /\ <<d, e>> \in Seq(S)
        BY <3>1
      <3> QED BY <3>2
    <2>3. (\E i \in DOMAIN left : w = left[i]) <=> there /\ w = a
      OBVIOUS
    <2>4. (\E i \in DOMAIN moved : w = moved[i]) <=>
              \/ New(p) = nil /\ w = b
              \/ New(p) # nil /\ (w = d \/ w = e)
      OBVIOUS
    <2> HIDE DEF left, moved, S
    <2>5. Says(p) <=> (there /\ w = a) \/ (New(p) = nil /\ w = b) \/ (New(p) # nil /\ (w = d \/ w = e))
      <3>1. announceTargetChanges(Change(p)) = left \o moved
        BY <2>1 DEF left, moved
      <3>2. (\E i \in DOMAIN (left \o moved) : w = (left \o moved)[i]) <=>
              (\E i \in DOMAIN left : w = left[i]) \/ (\E i \in DOMAIN moved : w = moved[i])
        <4>1. w \in Writes(left \o moved) <=> w \in Writes(left) \/ w \in Writes(moved)
          BY <2>2, ConcatHas, Zenon
        <4> QED BY <4>1, Zenon DEF Writes
      <3> QED BY <2>3, <2>4, <3>1, <3>2
    <2> QED BY <2>5 DEF a, b, d, e
  <1>3. (\E s \in {announceTargetChanges(ch) : ch \in changeBridgesLocked(G, after, ConnectedAt)} :
            \E i \in DOMAIN s : w = s[i])
        <=> \E p \in AllPhones(G) : New(p) # Old(p) /\ Says(p)
    <2> HIDE DEF Change, Old, New
    <2> QED BY <1>1
  <1>4. (\E p \in AllPhones(G) : New(p) # Old(p) /\ Says(p))
        <=> \E p \in AllPhones(G) : New(p) # Old(p) /\ Told(p)
    BY <1>2
  <1> QED BY <1>3, <1>4 DEF BridgeNews

\* AddBridge and RemoveBridge: phones with a new target and the bridges they leave
\* and come to are about to hear of it; for all others nothing changed.
LEMMA ClientsBridgeChange ==
    ASSUME IInv, IInv', GroupInv, ClientsInv, NEW c \in Conns, Alone(c),
           AddBridge(c) \/ (RemoveBridge(c) /\ Current(c))
    PROVE  NoticesRight' /\ RostersRight' /\ PresencesRight'
  <1> DEFINE g == group[c]
             G == grp[group[c]]
             cid == BridgeID[c]
             after == [G.Bridges EXCEPT ![cid] = IF AddBridge(c) THEN c ELSE nil]
             sequences == {announceTargetChanges(ch) :
                              ch \in changeBridgesLocked(G, after, ConnectedAt)}
  <1>1. /\ UNCHANGED <<group, ConnectedAt, ConnID, sock, client>>
        /\ displaced \subseteq displaced'
        /\ Announce(c, sequences)
    <2>1. CASE AddBridge(c)
      BY <2>1 DEF AddBridge, sockVars, connVars
    <2>2. CASE RemoveBridge(c) /\ Current(c) /\ ~AddBridge(c)
      BY <2>2 DEF RemoveBridge, sockVars, connVars
    <2> QED BY <2>1, <2>2
  <1>2. /\ \/ AddBridge(c) /\ pc[c] = "stamped" /\ pc' = [pc EXCEPT ![c] = "added"]
           \/ ~AddBridge(c) /\ pc[c] = "serving" /\ pc' = [pc EXCEPT ![c] = "removed"]
        /\ Idle(c) /\ Acts(c)
    BY DEF AddBridge, RemoveBridge, Leaving, Goto, Acts, HandlerStep, GroupInv, NothingToWrite
  <1>3. /\ c \in BridgeConns /\ cid \in BridgeIDs /\ g \in Conns /\ c # nil
        /\ SameGroups({g}) /\ grp'[g].Phones = grp[g].Phones
    BY AddBridgeMaps, RemoveBridgeMaps, ConnsAssumption DEF IInv
  <1>4. grp'[g].Bridges = after
    <2>1. CASE AddBridge(c)
      BY <2>1, AddBridgeMaps DEF IInv
    <2>2. CASE RemoveBridge(c) /\ Current(c) /\ ~AddBridge(c)
      BY <2>2, RemoveBridgeMaps DEF IInv
    <2> QED BY <2>1, <2>2
  <1>5. /\ pc \in [Conns -> Phases] /\ Structure /\ Structure' /\ grp \in [Conns -> Group]
        /\ grp' \in [Conns -> Group] /\ group \in [Conns -> Ptr]
    BY DEF IInv, Structure, StructureTypes
  <1>6. Unwritten = {} /\ \A w : w \in Unwritten' <=> \E s \in sequences : \E i \in DOMAIN s : w = s[i]
    BY <1>1, <1>2, AnnouncedAlone
  <1> HIDE DEF after
  <1>7. ASSUME NEW p \in AllPhones(G)
        PROVE  /\ p \in PhoneConns /\ p \in Conns /\ p # c /\ pc[p] = "serving" /\ group[p] = g
               /\ Target(p) = targetLocked(G.Bridges, ConnectedAt, p)
               /\ Target(p)' = targetLocked(after, ConnectedAt, p)
               /\ ConnID[p] \in ConnIDs /\ G.Phones[ConnID[p]] = p
    <2>1. p \in PhoneConns /\ p \in Conns /\ p # c /\ pc[p] = "serving" /\ group[p] = g
      BY <1>3, <1>5, EntriesAreMembers DEF PhoneConns
    <2>2. ConnID[p] \in ConnIDs /\ G.Phones[ConnID[p]] = p
      BY <1>5, <2>1 DEF Structure, StructureTypes, SlotOwned
    <2> QED BY <1>1, <1>4, <2>1, <2>2 DEF Target
  <1>8. ASSUME NEW w
        PROVE  w \in Unwritten' <=> \E p \in AllPhones(G) :
                    BridgeNews(w, p, Target(p), Target(p)', after)
    <2>1. w \in Unwritten' <=> \E p \in AllPhones(G) :
                BridgeNews(w, p, targetLocked(G.Bridges, ConnectedAt, p),
                           targetLocked(after, ConnectedAt, p), after)
      <3>1. (\E s \in sequences : \E i \in DOMAIN s : w = s[i]) <=>
              \E p \in AllPhones(G) :
                BridgeNews(w, p, targetLocked(G.Bridges, ConnectedAt, p),
                           targetLocked(after, ConnectedAt, p), after)
        BY ChangeWrites
      <3> HIDE DEF sequences, G
      <3> QED BY <1>6, <3>1
    <2> QED BY <1>7, <2>1
  <1>9. ASSUME NEW p \in PhoneConns, pc'[p] = "serving"
        PROVE  /\ p \in Conns /\ p # c /\ pc[p] = "serving" /\ group[p] \in Conns
               /\ p \in AllPhones(G) <=> group[p] = g
               /\ p \notin AllPhones(G) => /\ grp'[group[p]] = grp[group[p]]
                                           /\ Target(p)' = Target(p)
    <2>1. p \in Conns /\ p # c /\ pc[p] = "serving"
      BY <1>2, <1>3, <1>5, <1>9 DEF PhoneConns
    <2>2. group[p] \in Conns
      BY <1>5, <2>1 DEF Structure, HandlersHoldGroups, Ptr
    <2>3. p \in AllPhones(G) <=> group[p] = g
      BY <1>3, <1>5, <2>1, EntriesAreMembers
    <2>4. group[p] # g => grp'[group[p]] = grp[group[p]]
      BY <1>3, <2>2 DEF SameGroups
    <2> QED BY <1>1, <2>1, <2>2, <2>3, <2>4 DEF Target
  <1>10. ASSUME NEW p \in AllPhones(G)
         PROVE  /\ Target(p) # nil => Target(p) \in BridgeConns /\ Target(p) \in Conns
                                      /\ Member(Target(p)) /\ group[Target(p)] = g
                /\ Target(p)' # nil => Target(p)' \in BridgeConns /\ Target(p)' \in Conns
                                      /\ pc'[Target(p)'] \in InGroup /\ Target(p)' \notin displaced'
                                      /\ group[Target(p)'] = g
                /\ BridgeID[p] # NoID /\ Target(p) # nil => BridgeID[Target(p)] = BridgeID[p]
    <2>1. Target(p) # nil => Target(p) \in LiveBridges(G.Bridges)
      BY <1>3, <1>5, <1>7, <1>10, TargetInMap DEF Group
    <2>2. Target(p)' # nil => Target(p)' \in LiveBridges(after)
      BY <1>3, <1>4, <1>5, <1>7, <1>10, TargetInMap DEF Group
    <2>3. Target(p)' # nil => /\ Target(p)' \in BridgeConns /\ group'[Target(p)'] = g
                              /\ pc'[Target(p)'] \in InGroup /\ Target(p)' \notin displaced'
      <3>1. \A b : b \in LiveBridges(after) =>
                b \in BridgeConns /\ (pc'[b] \in InGroup /\ b \notin displaced') /\ group'[b] = g
        BY <1>3, <1>4, <1>5
           DEF LiveBridges, Online, Structure, SlotOwned, BridgeEntry
      <3> QED BY <2>2, <3>1
    <2>4. BridgeID[p] # NoID /\ Target(p) # nil => BridgeID[Target(p)] = BridgeID[p]
      <3>1. G.Bridges \in BridgeMap /\ (BridgeID[p] # NoID => BridgeID[p] \in BridgeIDs)
        BY <1>3, <1>5, <1>7, <1>10, ConnsAssumption DEF Group
      <3>2. BridgeID[p] # NoID => Target(p) = G.Bridges[BridgeID[p]]
        BY <1>7, <1>10, <3>1, TargetInMap
      <3> QED BY <1>3, <1>5, <3>1, <3>2, EntriesAreMembers
    <2> QED BY <1>1, <1>3, <1>5, <2>1, <2>3, <2>4, EntriesAreMembers, ConnsAssumption
  <1>11. ASSUME NEW w, w \in Unwritten'
         PROVE  /\ w.type \in NoticeTypes \cup RosterTypes
                /\ w.type \in NoticeTypes =>
                     /\ w.to \in AllPhones(G) /\ Target(w.to)' # Target(w.to)
                     /\ IF Target(w.to)' # nil
                        THEN w.type = "bridge_connected" /\ w.id = BridgeID[Target(w.to)']
                        ELSE w.type = "bridge_disconnected"
                             /\ w.id = IF Target(w.to) = nil THEN NoID ELSE BridgeID[Target(w.to)]
                /\ w.type \in RosterTypes =>
                     \E q \in AllPhones(G) :
                       /\ Target(q)' # Target(q) /\ w.connID = ConnID[q] /\ w.to # nil
                       /\ \/ w.type = "phone_connected" /\ w.to = Target(q)'
                          \/ /\ w.type = "phone_disconnected" /\ w.to = Target(q)
                             /\ after[BridgeID[w.to]] = w.to
    <2>1. PICK q \in AllPhones(G) : BridgeNews(w, q, Target(q), Target(q)', after)
      BY <1>8, <1>11
    <2> QED BY <2>1 DEF BridgeNews, ToPhone, ToBridge, NoticeTypes, RosterTypes
  <1>12. NoticesRight'
    <2> SUFFICES ASSUME NEW p \in PhoneConns, pc'[p] = "serving"
                 PROVE  /\ \A w \in Notices(p)' : RightNotice(p, w)'
                        /\ Notices(p)' = {} /\ sock'[p] = "open" => RightNotice(p, client[p].notice)'
      BY DEF NoticesRight
    <2>1. CASE p \notin AllPhones(G) \/ Target(p)' = Target(p)
      <3>1. Notices(p)' = {}
        BY <1>11, <2>1 DEF Notices
      <3>2. Notices(p) = {}
        BY <1>6 DEF Notices
      <3>3. \A n : RightNotice(p, n)' <=> RightNotice(p, n)
        BY <1>9, <2>1 DEF RightNotice
      <3> QED BY <1>1, <1>9, <3>1, <3>2, <3>3 DEF ClientsInv, NoticesRight, RightNotice
    <2>2. CASE p \in AllPhones(G) /\ Target(p)' # Target(p)
      <3>1. ASSUME NEW w \in Notices(p)'
            PROVE  RightNotice(p, w)'
        <4>1. /\ Target(p)' = nil \/ (w.type = "bridge_connected" /\ w.id = BridgeID[Target(p)'])
              /\ Target(p)' # nil \/ (w.type = "bridge_disconnected" /\ w.id = BridgeID[Target(p)])
          BY <1>11, <2>2 DEF Notices
        <4> QED BY <1>10, <2>2, <4>1 DEF RightNotice
      <3>2. Notices(p)' # {}
        <4> DEFINE m == IF Target(p)' = nil
                        THEN ToPhone(p, "bridge_disconnected",
                                     IF Target(p) = nil THEN NoID ELSE BridgeID[Target(p)])
                        ELSE ToPhone(p, "bridge_connected", BridgeID[Target(p)'])
        <4>1. m \in Unwritten'
          <5>1. BridgeNews(m, p, Target(p), Target(p)', after)
            BY <2>2 DEF BridgeNews
          <5> QED BY <1>8, <2>2, <5>1
        <4>2. m.to = p /\ m.type \in NoticeTypes
          BY DEF ToPhone, NoticeTypes
        <4> QED BY <4>1, <4>2 DEF Notices
      <3> QED BY <3>1, <3>2
    <2> QED BY <2>1, <2>2
  <1>13. RostersRight'
    <2> SUFFICES ASSUME NEW b \in BridgeConns, NEW k \in ConnIDs, Member(b)'
                 PROVE  /\ \A w \in RosterWrites(b, k)' : w.type = "phone_connected" <=> TalksTo(k, b)'
                        /\ RosterWrites(b, k)' = {} /\ sock'[b] = "open" =>
                                (k \in client'[b].roster <=> TalksTo(k, b)')
      BY DEF RostersRight, Member
    <2>1. /\ b \in Conns /\ b # nil /\ group[b] \in Conns
          /\ grp'[group[b]].Bridges[BridgeID[b]] = b
          /\ b # c => Member(b)
          /\ b = c => pc[c] = "stamped"
      <3>1. b \in Conns /\ b # nil /\ group[b] # nil
        BY <1>1, <1>5, ConnsAssumption DEF Member, Structure, SlotOwned
      <3>2. grp'[group[b]].Bridges[BridgeID[b]] = b
        BY <1>1, <1>5 DEF Member, Structure, SlotOwned, Current, IsCurrentBridge
      <3> QED BY <1>1, <1>2, <1>5, <3>1, <3>2 DEF Member, InGroup, Ptr
    <2>2. RosterWrites(b, k) = {}
      BY <1>6 DEF RosterWrites
    <2>3. sock[b] = "open" => (k \in client[b].roster <=> TalksTo(k, b))
      <3>1. CASE b # c
        BY <2>1, <2>2, <3>1 DEF ClientsInv, RostersRight, Member
      <3>2. CASE b = c
        <4>1. k \notin client[b].roster
          BY <2>1, <3>2 DEF ClientsInv, NewcomersKnowNothing, NewClient
        <4>2. G.Phones[k] # nil => Target(G.Phones[k]) # c
          <5>1. G.Phones[k] # nil => G.Phones[k] \in AllPhones(G)
            BY DEF AllPhones, UsedConnIDs
          <5> QED BY <1>3, <1>10, <2>1, <3>2, <5>1 DEF Member, InGroup
        <4> QED BY <3>2, <4>1, <4>2 DEF TalksTo
      <3> QED BY <3>1, <3>2
    <2>4. ASSUME NEW w \in RosterWrites(b, k)'
          PROVE  \E q \in AllPhones(G) :
                   /\ Target(q)' # Target(q) /\ k = ConnID[q] /\ G.Phones[k] = q /\ group[b] = g
                   /\ \/ w.type = "phone_connected" /\ b = Target(q)'
                      \/ w.type = "phone_disconnected" /\ b = Target(q)
      <3>1. w \in Unwritten' /\ w.to = b /\ w.type \in RosterTypes /\ w.connID = k
        BY DEF RosterWrites, RosterTypes
      <3>2. PICK q \in AllPhones(G) :
                       /\ Target(q)' # Target(q) /\ w.connID = ConnID[q]
                       /\ \/ w.type = "phone_connected" /\ w.to = Target(q)'
                          \/ w.type = "phone_disconnected" /\ w.to = Target(q)
        BY <1>11, <3>1
      <3> QED BY <1>7, <1>10, <2>1, <3>1, <3>2
    <2>5. CASE group[b] # g
      <3>1. RosterWrites(b, k)' = {}
        BY <2>4, <2>5
      <3>2. grp'[group[b]] = grp[group[b]]
        BY <1>3, <2>1, <2>5 DEF SameGroups
      <3>3. PICK p : p = grp[group[b]].Phones[k]
        OBVIOUS
      <3>4. p # nil => p \in PhoneConns /\ pc'[p] = "serving" /\ group[p] = group[b]
        BY <1>1, <1>5, <2>1, <3>2, <3>3 DEF Structure, SlotOwned, PhoneEntry
      <3>5. TalksTo(k, b)' <=> TalksTo(k, b)
        BY <1>1, <1>9, <2>5, <3>2, <3>3, <3>4 DEF TalksTo
      <3> QED BY <1>1, <2>3, <3>1, <3>5
    <2>6. CASE group[b] = g /\ G.Phones[k] = nil
      <3>1. RosterWrites(b, k)' = {}
        BY <1>7, <2>4, <2>6, ConnsAssumption
      <3>2. ~TalksTo(k, b)' /\ ~TalksTo(k, b)
        BY <1>1, <1>3, <2>6 DEF TalksTo
      <3> QED BY <1>1, <2>3, <3>1, <3>2
    <2>7. CASE group[b] = g /\ G.Phones[k] # nil
      <3>0. PICK p : p = G.Phones[k]
        OBVIOUS
      <3>1. p \in AllPhones(G) /\ ConnID[p] = k
        <4>1. p \in AllPhones(G)
          BY <2>7, <3>0 DEF AllPhones, UsedConnIDs
        <4> QED BY <1>3, <1>5, <2>7, <3>0, <4>1, EntriesAreMembers
      <3>2. (TalksTo(k, b) <=> Target(p) = b) /\ (TalksTo(k, b)' <=> Target(p)' = b)
        BY <1>1, <1>3, <2>7, <3>0 DEF TalksTo
      <3>3. ASSUME NEW w \in RosterWrites(b, k)'
            PROVE  w.type = "phone_connected" <=> Target(p)' = b
        BY <2>4, <3>0, <3>3
      <3>4. ASSUME RosterWrites(b, k)' = {}
            PROVE  Target(p) = b <=> Target(p)' = b
        <4>1. ASSUME Target(p)' = b, Target(p) # b
              PROVE  FALSE
          <5> DEFINE m == ToBridge(b, "phone_connected", k)
          <5>1. BridgeNews(m, p, Target(p), Target(p)', after)
            BY <2>1, <3>1, <4>1 DEF BridgeNews
          <5>2. m \in Unwritten'
            BY <1>8, <3>1, <5>1
          <5>3. m.to = b /\ m.type = "phone_connected" /\ m.connID = k
            BY DEF ToBridge
          <5> QED BY <3>4, <5>2, <5>3 DEF RosterWrites
        <4>2. ASSUME Target(p) = b, Target(p)' # b
              PROVE  FALSE
          <5> DEFINE m == ToBridge(b, "phone_disconnected", k)
          <5>1. after[BridgeID[b]] = b
            BY <1>4, <2>1, <2>7
          <5>2. BridgeNews(m, p, Target(p), Target(p)', after)
            BY <2>1, <3>1, <4>2, <5>1 DEF BridgeNews
          <5>3. m \in Unwritten'
            BY <1>8, <3>1, <5>2
          <5>4. m.to = b /\ m.type = "phone_disconnected" /\ m.connID = k
            BY DEF ToBridge
          <5> QED BY <3>4, <5>3, <5>4 DEF RosterWrites
        <4> QED BY <4>1, <4>2
      <3> QED BY <1>1, <2>3, <3>2, <3>3, <3>4
    <2> QED BY <2>5, <2>6, <2>7
  <1>14. PresencesRight'
    <2> SUFFICES ASSUME NEW p \in PhoneConns, NEW id \in BridgeIDs, pc'[p] = "serving",
                        ~Unannounced(group[p], id)'
                 PROVE  LET live == grp'[group[p]].Bridges[id] # nil IN
                        /\ \A w \in PresenceWrites(p, id)' : w.type = "bridge_online" <=> live
                        /\ PresenceWrites(p, id)' = {} /\ sock[p] = "open"
                                /\ client[p].presence[id] # "unknown"
                            => (client[p].presence[id] = "bridge_online" <=> live)
      BY <1>1 DEF PresencesRight
    <2>1. PresenceWrites(p, id)' = {} /\ PresenceWrites(p, id) = {}
      BY <1>6, <1>11 DEF PresenceWrites, NoticeTypes, RosterTypes
    <2>2. group[p] # g \/ id # cid
      BY <1>1, <1>2, <1>3, <1>5 DEF Unannounced
    <2>3. grp'[group[p]].Bridges[id] = grp[group[p]].Bridges[id]
      BY <1>3, <1>4, <1>5, <1>9, <2>2 DEF SameGroups, Group, BridgeMap, after
    <2>4. ~Unannounced(group[p], id)
      BY <1>1, <1>2, <1>5, ConnsAssumption DEF Unannounced
    <2> QED BY <1>9, <2>1, <2>3, <2>4 DEF ClientsInv, PresencesRight
  <1> QED BY <1>12, <1>13, <1>14

-------------------------------------------------------------------------------
(* The invariant holds *)

\* Only a bridge in its read loop is displaced: the others are not at work.
LEMMA AnnouncesAsMemberStep ==
    ASSUME IInv, AnnouncesAsMember, [SerialNext]_vars
    PROVE  AnnouncesAsMember'
  <1> DEFINE Early == {"added", "online"}
  <1>1. pc \in [Conns -> Phases] /\ Structure /\ displaced \subseteq Conns
    BY DEF IInv, Structure, StructureTypes
  <1>2. ASSUME displaced' = displaced, \A x \in Conns : pc'[x] \in Early => pc[x] \in Early
        PROVE  AnnouncesAsMember'
    BY <1>1, <1>2 DEF AnnouncesAsMember
  <1>3. ASSUME NEW c \in Conns, Alone(c), AddBridge(c)
        PROVE  AnnouncesAsMember'
    <2> DEFINE previous == grp[group[c]].Bridges[BridgeID[c]]
    <2>1. /\ pc[c] = "stamped" /\ pc' = [pc EXCEPT ![c] = "added"]
          /\ displaced' = displaced \cup ({previous} \ {nil})
      BY <1>3 DEF AddBridge, Goto
    <2>2. previous # nil => previous \in Conns /\ pc[previous] \in InGroup
      BY <1>1, <1>3, AddBridgeMaps, ConnsAssumption DEF Structure, SlotOwned, BridgeEntry
    <2>3. previous # nil => previous # c /\ pc[previous] = "serving"
      BY <1>3, <2>1, <2>2 DEF InGroup, Alone, Busy
    <2>4. c \notin displaced
      BY <1>1, <2>1 DEF Structure, DisplacedPhases, InGroup
    <2> HIDE DEF previous
    <2> QED BY <1>1, <2>1, <2>2, <2>3, <2>4 DEF AnnouncesAsMember
  <1>4. ASSUME NEW c \in Conns, Acts(c), ~AddBridge(c)
        PROVE  AnnouncesAsMember'
    <2> USE DEF Goto, Return
    <2>1. displaced' = displaced /\ (pc'[c] \in Early => pc[c] \in Early)
      <3>1. CASE \/ GetOrCreateGroup(c) \/ NewBridgeConnection(c) \/ RejectFull(c)
                 \/ AnnounceOnline(c) \/ ReportConnected(c) \/ AddPhone(c) \/ WriteNext(c)
        BY <1>1, <3>1 DEF GetOrCreateGroup, NewBridgeConnection, RejectFull, AnnounceOnline,
                          ReportConnected, AddPhone, WriteNext
      <3>2. CASE \/ RemoveBridge(c) \/ CheckReplaced(c) \/ AnnounceOffline(c)
                 \/ ReportDisconnected(c) \/ RemovePhone(c) \/ RemoveGroupIfEmpty(c)
                 \/ DeleteGroup(c) \/ BridgeFrame(c) \/ PhoneFrame(c) \/ Revoke(c) \/ Drop(c)
        BY <1>1, <3>2 DEF RemoveBridge, CheckReplaced, AnnounceOffline, ReportDisconnected,
                          RemovePhone, RemoveGroupIfEmpty, DeleteGroup, BridgeFrame, PhoneFrame,
                          Revoke, Drop
      <3> QED BY <1>4, <3>1, <3>2 DEF Acts, HandlerStep, ClientStep
    <2>2. \A x \in Conns : x # c => pc'[x] = pc[x]
      BY <1>4, OthersStay
    <2> QED BY <1>2, <2>1, <2>2
  <1>5. ASSUME NEW c \in Conns, CloseDisplaced(c)
        PROVE  AnnouncesAsMember'
    BY <1>2, <1>5 DEF CloseDisplaced
  <1>6. ASSUME UNCHANGED vars
        PROVE  AnnouncesAsMember'
    BY <1>2, <1>6 DEF vars
  <1> QED BY <1>3, <1>4, <1>5, <1>6, SerialCases

\* Nothing is written to a client before its connection is in its group.
LEMMA NewcomersStep ==
    ASSUME IInv, RInv, NewcomersKnowNothing, [SerialNext]_vars
    PROVE  NewcomersKnowNothing'
  <1>1. pc \in [Conns -> Phases] /\ client \in [Conns -> Client]
    BY DEF IInv, Structure, StructureTypes, Traffic
  <1>2. ASSUME NEW c \in Conns, HandlerStep(c) \/ ClientStep(c) \/ CloseDisplaced(c)
        PROVE  NewcomersKnowNothing'
    <2>1. \A x \in Conns : pc'[x] \in Outside => pc[x] \in Outside
      BY <1>2, Advances DEF Advance
    <2>2. \A x \in Conns : pc[x] \in Outside => client'[x] = client[x] \/ client'[x] = NewClient
      <3>1. CASE WriteNext(c)
        <4>1. PICK s \in jobs[c] \cup {out[c]} :
                /\ s \in Seq(Write) /\ s # <<>>
                /\ \/ client' = [client EXCEPT ![s[1].to] = Received(s[1])]
                   \/ HangUp(s[1].to)
          BY <3>1, OneWrite
        <4>2. 1 \in DOMAIN s
          BY <4>1
        <4>3. pc[s[1].to] \notin Outside
          BY <4>1, <4>2 DEF RInv, WritesArrive
        <4> QED BY <1>1, <4>1, <4>3 DEF HangUp
      <3>2. CASE RejectFull(c) \/ Revoke(c) \/ Drop(c) \/ CloseDisplaced(c)
        BY <1>1, <3>2 DEF RejectFull, Revoke, Drop, CloseDisplaced, HangUp
      <3>3. CASE ~WriteNext(c) /\ ~(RejectFull(c) \/ Revoke(c) \/ Drop(c) \/ CloseDisplaced(c))
        <4>1. client' = client
          BY <1>2, <3>3
             DEF HandlerStep, ClientStep, GetOrCreateGroup, NewBridgeConnection, AddBridge,
                 AnnounceOnline, ReportConnected, AddPhone, RemoveBridge, CheckReplaced,
                 AnnounceOffline, ReportDisconnected, RemovePhone, RemoveGroupIfEmpty,
                 DeleteGroup, BridgeFrame, PhoneFrame, sockVars
        <4> QED BY <4>1
      <3> QED BY <3>1, <3>2, <3>3
    <2> QED BY <2>1, <2>2 DEF NewcomersKnowNothing, Outside
  <1>3. ASSUME UNCHANGED vars
        PROVE  NewcomersKnowNothing'
    BY <1>3 DEF vars, sockVars, NewcomersKnowNothing
  <1> QED BY <1>2, <1>3, SerialCases DEF Acts

\* Every step keeps what clients know right.
LEMMA ClientsInvStep ==
    ASSUME IInv, IInv', RInv, GroupInv, ClientsInv, [SerialNext]_vars
    PROVE  ClientsInv'
  <1>1. AnnouncesAsMember' /\ NewcomersKnowNothing'
    BY AnnouncesAsMemberStep, NewcomersStep DEF ClientsInv
  <1>2. ASSUME NEW c \in Conns, Alone(c), Acts(c)
        PROVE  NoticesRight' /\ RostersRight' /\ PresencesRight'
    <2>1. CASE AddBridge(c) \/ (RemoveBridge(c) /\ Current(c))
      BY <1>2, <2>1, ClientsBridgeChange
    <2>2. CASE AddPhone(c)
      BY <1>2, <2>2, ClientsAddPhone
    <2>3. CASE RemovePhone(c)
      BY <1>2, <2>3, ClientsRemovePhone
    <2>4. CASE AnnounceOnline(c) \/ AnnounceOffline(c)
      BY <1>2, <2>4, ClientsPresence
    <2>5. CASE WriteNext(c)
      BY <2>5, ClientsWrite
    <2>6. CASE BridgeFrame(c) \/ PhoneFrame(c)
      BY <1>2, <2>6, ClientsFrame
    <2>7. CASE Revoke(c) \/ Drop(c)
      BY <2>7, ClientsHangUp
    <2>8. CASE \/ GetOrCreateGroup(c) \/ NewBridgeConnection(c) \/ RejectFull(c)
               \/ ReportConnected(c) \/ CheckReplaced(c) \/ ReportDisconnected(c)
               \/ RemoveGroupIfEmpty(c) \/ DeleteGroup(c) \/ (RemoveBridge(c) /\ ~Current(c))
      BY <2>8, ClientsSilent
    <2> QED BY <1>2, <2>1, <2>2, <2>3, <2>4, <2>5, <2>6, <2>7, <2>8
            DEF Acts, HandlerStep, ClientStep
  <1>3. ASSUME NEW c \in Conns, CloseDisplaced(c)
        PROVE  NoticesRight' /\ RostersRight' /\ PresencesRight'
    BY <1>3, ClientsHangUp
  <1>4. ASSUME UNCHANGED vars
        PROVE  NoticesRight' /\ RostersRight' /\ PresencesRight'
    <2>1. UNCHANGED <<pc, grp, group, displaced, ConnectedAt, sock, client>> /\ UNCHANGED writeVars
      BY <1>4 DEF vars, connVars, sockVars
    <2>2. ClientsStay /\ MembersStay /\ AnnouncementsStay
      BY <2>1 DEF ClientsStay, MembersStay, Member, AnnouncementsStay, Unannounced
    <2> QED BY <2>1, <2>2, ControlKept, TargetsKept, ClientsKept DEF ClientsInv
  <1> QED BY <1>1, <1>2, <1>3, <1>4, SerialCases DEF ClientsInv

\* At the start nobody is in a group and nobody was told anything.
LEMMA ClientsInvInit == Init => ClientsInv
  <1> SUFFICES ASSUME Init
               PROVE  ClientsInv
    OBVIOUS
  <1>1. (\A c \in Conns : pc[c] = "start" /\ client[c] = NewClient) /\ displaced = {}
    BY DEF Init
  <1> QED BY <1>1, ConnsAssumption
          DEF ClientsInv, AnnouncesAsMember, NewcomersKnowNothing, NoticesRight, RostersRight,
              PresencesRight, PhoneConns, InGroup

\* The invariant of what clients know holds in every state that serial handlers
\* reach.
THEOREM ClientsInvariance == SerialSpec => [](IInv /\ ClientsInv)
  <1>1. Init => IInv /\ RInv /\ GroupInv /\ ClientsInv
    BY IInvInit, RInvInit, GroupInvInit, ClientsInvInit
  <1>2. IInv /\ RInv /\ ClientsInv /\ GroupInv /\ GroupInv' /\ [SerialNext]_vars
            => IInv' /\ RInv' /\ ClientsInv'
    BY SerialIInv, RInvStep, SerialCases, ClientsInvStep
  <1> QED BY <1>1, <1>2, SerialInvariance, PTL DEF SerialSpec

-------------------------------------------------------------------------------
(* What clients know once nothing is left to announce *)

\* When all handlers are in their read loops there is nothing to write and
\* nothing to announce.
LEMMA QuietIsAnnounced ==
    ASSUME Quiet
    PROVE  Unwritten = {} /\ \A g, id : ~Unannounced(g, id)
  <1>1. \A c \in Conns : Idle(c) /\ pc[c] \in {"start", "serving", "done"}
    BY DEF Quiet, Busy
  <1>2. Unwritten = {}
    BY <1>1, NothingUnwritten
  <1> QED BY <1>1, <1>2, ConnsAssumption DEF Unannounced

\* The last notice of a phone is about the bridge its frames go to, as long as
\* one handler is at work at a time: announceTargetChanges and the first notices
\* of handlePhone leave no phone with the wrong one.
THEOREM NoticeCorrect == SerialSpec => []NoticeMatchesTarget
  <1>1. IInv /\ ClientsInv => NoticeMatchesTarget
    <2> SUFFICES ASSUME IInv, ClientsInv, Quiet, NEW p \in PhoneConns, Serving(p)
                 PROVE  IF Target(p) # nil
                        THEN client[p].notice = [type |-> "bridge_connected", id |-> BridgeID[Target(p)]]
                        ELSE /\ client[p].notice.type = "bridge_disconnected"
                             /\ BridgeID[p] # NoID => client[p].notice.id = BridgeID[p]
      BY DEF NoticeMatchesTarget, Target
    <2>1. Notices(p) = {}
      BY QuietIsAnnounced DEF Notices
    <2>2. RightNotice(p, client[p].notice)
      BY <2>1 DEF ClientsInv, NoticesRight, Serving
    <2>3. client[p].notice \in Notice
      BY DEF IInv, Traffic, Client, PhoneConns
    <2>4. client[p].notice = [type |-> client[p].notice.type, id |-> client[p].notice.id]
      BY <2>3 DEF Notice
    <2> QED BY <2>2, <2>4 DEF RightNotice
  <1> QED BY <1>1, ClientsInvariance, PTL

\* phone_connected and phone_disconnected leave every current bridge with exactly
\* the phones that talk to it, as long as one handler is at work at a time.
THEOREM RosterCorrect == SerialSpec => []RosterMatchesTargets
  <1>1. IInv /\ ClientsInv => RosterMatchesTargets
    <2> SUFFICES ASSUME IInv, ClientsInv, Quiet, NEW b \in BridgeConns, Serving(b), Current(b)
                 PROVE  client[b].roster =
                          {ConnID[p] : p \in PhonesTargeting(grp[group[b]], ConnectedAt, b)}
      BY DEF RosterMatchesTargets
    <2> DEFINE G == grp[group[b]]
    <2>1. b \in Conns /\ pc[b] = "serving" /\ sock[b] = "open" /\ group[b] \in Conns
      BY ConnsAssumption
         DEF Serving, IInv, Structure, StructureTypes, HandlersHoldGroups, Ptr
    <2>2. b \notin displaced
      BY <2>1, ConnsAssumption
         DEF Current, IsCurrentBridge, IInv, Structure, SlotOwned, BridgeEntry
    <2>3. \A k \in ConnIDs : k \in client[b].roster <=> TalksTo(k, b)
      <3>1. \A k : RosterWrites(b, k) = {}
        BY QuietIsAnnounced DEF RosterWrites
      <3> QED BY <2>1, <2>2, <3>1 DEF ClientsInv, RostersRight, InGroup
    <2>4. \A p : p \in PhonesTargeting(G, ConnectedAt, b) <=> p \in AllPhones(G) /\ Target(p) = b
      <3>1. \A p \in AllPhones(G) : Target(p) = targetLocked(G.Bridges, ConnectedAt, p)
        BY <2>1, EntriesAreMembers DEF IInv, Target
      <3> QED BY <3>1 DEF PhonesTargeting, Current
    <2>5. ASSUME NEW k \in ConnIDs, TalksTo(k, b)
          PROVE  \E p \in AllPhones(G) : Target(p) = b /\ ConnID[p] = k
      <3>1. G.Phones[k] # nil /\ Target(G.Phones[k]) = b
        BY <2>5 DEF TalksTo
      <3>2. G.Phones[k] \in AllPhones(G) /\ ConnID[G.Phones[k]] = k
        BY <2>1, <3>1, EntriesAreMembers DEF IInv, AllPhones, UsedConnIDs
      <3> QED BY <3>1, <3>2
    <2>6. ASSUME NEW p \in AllPhones(G), Target(p) = b
          PROVE  ConnID[p] \in ConnIDs /\ TalksTo(ConnID[p], b)
      <3>1. PICK k \in ConnIDs : G.Phones[k] = p /\ p # nil
        BY DEF AllPhones, UsedConnIDs
      <3>2. ConnID[p] = k
        BY <2>1, <3>1, EntriesAreMembers DEF IInv
      <3> QED BY <2>6, <3>1, <3>2 DEF TalksTo
    <2>7. client[b].roster \subseteq ConnIDs
      BY <2>1 DEF IInv, Traffic, Client
    <2> HIDE DEF G
    <2>8. \A k : k \in client[b].roster <=>
                    \E p \in PhonesTargeting(G, ConnectedAt, b) : k = ConnID[p]
      BY <2>3, <2>4, <2>5, <2>6, <2>7
    <2>9. client[b].roster = {ConnID[p] : p \in PhonesTargeting(G, ConnectedAt, b)}
      BY <2>8
    <2> QED BY <2>9 DEF G
  <1> QED BY <1>1, ClientsInvariance, PTL

\* A phone that was told anything about a bridge was last told the truth, as long
\* as one handler is at work at a time: bridge_presence goes to every phone of
\* the group, also when the bridge is not its target.
THEOREM PresenceCorrect == SerialSpec => []PresenceMatchesLive
  <1>1. IInv /\ ClientsInv => PresenceMatchesLive
    <2> SUFFICES ASSUME IInv, ClientsInv, Quiet, NEW p \in PhoneConns, NEW id \in BridgeIDs,
                        Serving(p), client[p].presence[id] # "unknown"
                 PROVE  client[p].presence[id] = "bridge_online" <=> grp[group[p]].Bridges[id] # nil
      BY DEF PresenceMatchesLive
    <2>1. PresenceWrites(p, id) = {} /\ ~Unannounced(group[p], id)
      BY QuietIsAnnounced DEF PresenceWrites
    <2> QED BY <2>1 DEF ClientsInv, PresencesRight, Serving
  <1> QED BY <1>1, ClientsInvariance, PTL
===============================================================================
