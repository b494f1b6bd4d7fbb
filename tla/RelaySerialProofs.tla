--------------------------- MODULE RelaySerialProofs ---------------------------
(***************************************************************************)
(* What module Relay does when one handler is at work at a time, for any   *)
(* set of connections, accounts, bridge ids and any limits.  The runs      *)
(* race_groups and race_status show that both results need that.           *)
(***************************************************************************)
EXTENDS RelayRefinement

-------------------------------------------------------------------------------
(* The invariant that serial handlers add to IInv *)

\* At most one handler is at work.
OneBusy == \A c, d \in Conns : Busy(c) /\ Busy(d) => c = d

\* Handlers hold the group that is registered for their account; one that was
\* displaced may outlive it.
HoldsRegistered ==
    \A c \in Conns : group[c] # nil /\ c \notin displaced => registry[User[c]] = group[c]

\* The group that a handler is about to delete is still empty.
DeletesEmpty == \A c \in Conns : pc[c] = "deleting" => IsEmpty(grp[group[c]])

\* No live bridge has the id that a handler is about to report as gone.
VanishedIsGone ==
    \A c \in Conns :
        pc[c] \in {"removed", "vanishing", "offline"} => ~HasLiveBridgeWithID(User[c], BridgeID[c])

\* A live bridge in its read loop is reported as connected.
ServingReported ==
    \A u \in Users, id \in BridgeIDs :
        /\ HasLiveBridgeWithID(u, id)
        /\ pc[grp[registry[u]].Bridges[id]] = "serving"
        => status[u][id] = "connected"

\* A handler has nothing to write before it is in its group and whenever it goes
\* on without waiting for its writes.
NothingToWrite ==
    \A c \in Conns :
        pc[c] \in {"start", "joined", "stamped", "vanishing", "deleting", "done"} => Idle(c)

GroupInv ==
    /\ OneBusy
    /\ NothingToWrite
    /\ HoldsRegistered
    /\ DeletesEmpty
    /\ VanishedIsGone
    /\ ServingReported

-------------------------------------------------------------------------------
(* One handler at work *)

\* Nobody else is at work while c takes a step.
Alone(c) == \A other \in Conns \ {c} : ~Busy(other)

Acts(c) == HandlerStep(c) \/ ClientStep(c)

\* A step of one handler leaves the phases and writes of the others alone.
LEMMA OthersStay ==
    ASSUME IInv, NEW c \in Conns, Acts(c), NEW x \in Conns, x # c
    PROVE  pc'[x] = pc[x] /\ jobs'[x] = jobs[x] /\ out'[x] = out[x]
  <1>1. /\ pc \in [Conns -> Phases]
        /\ jobs \in [Conns -> SUBSET (Seq(SafeWrite) \ {<<>>})]
        /\ out \in [Conns -> Seq(SafeWrite)]
    BY DEF IInv, Structure, StructureTypes, Traffic
  <1>2. pc'[x] = pc[x]
    BY Advances DEF Acts, Advance
  <1> USE DEF Announce, writeVars
  <1>3. CASE \/ GetOrCreateGroup(c) \/ NewBridgeConnection(c) \/ RejectFull(c)
             \/ AddBridge(c) \/ AnnounceOnline(c) \/ ReportConnected(c) \/ AddPhone(c)
    BY <1>1, <1>2, <1>3 DEF GetOrCreateGroup, NewBridgeConnection, RejectFull, AddBridge,
                            AnnounceOnline, ReportConnected, AddPhone
  <1>4. CASE WriteNext(c)
    BY <1>1, <1>2, <1>4 DEF WriteNext
  <1>5. CASE BridgeFrame(c) \/ PhoneFrame(c)
    BY <1>1, <1>2, <1>5 DEF BridgeFrame, PhoneFrame
  <1>6. CASE \/ RemoveBridge(c) \/ CheckReplaced(c) \/ AnnounceOffline(c)
             \/ ReportDisconnected(c) \/ RemovePhone(c)
    BY <1>1, <1>2, <1>6 DEF RemoveBridge, CheckReplaced, AnnounceOffline, ReportDisconnected,
                            RemovePhone
  <1>7. CASE RemoveGroupIfEmpty(c) \/ DeleteGroup(c) \/ Revoke(c) \/ Drop(c)
    BY <1>1, <1>2, <1>7 DEF RemoveGroupIfEmpty, DeleteGroup, Revoke, Drop
  <1> QED BY <1>3, <1>4, <1>5, <1>6, <1>7 DEF Acts, HandlerStep, ClientStep

\* A serial step is a step of a handler that is alone, a closed socket or nothing.
LEMMA SerialCases ==
    ASSUME [SerialNext]_vars
    PROVE  /\ [Next]_vars
           /\ \/ \E c \in Conns : Alone(c) /\ Acts(c)
              \/ \E c \in Conns : CloseDisplaced(c)
              \/ UNCHANGED vars
  BY DEF SerialNext, Next, Alone, Acts, Finished

\* Handlers stay one at a time.
LEMMA OneBusyStep ==
    ASSUME IInv, OneBusy, [SerialNext]_vars
    PROVE  OneBusy'
  <1>1. ASSUME NEW c \in Conns, Alone(c), Acts(c)
        PROVE  OneBusy'
    <2>1. ASSUME NEW x \in Conns, x # c
          PROVE  ~Busy(x)'
      BY <1>1, <2>1, OthersStay DEF Alone, Busy, Idle
    <2> QED BY <2>1 DEF OneBusy
  <1>2. ASSUME UNCHANGED <<pc, jobs, out>>
        PROVE  OneBusy'
    BY <1>2 DEF OneBusy, Busy, Idle
  <1>3. ASSUME NEW c \in Conns, CloseDisplaced(c)
        PROVE  UNCHANGED <<pc, jobs, out>>
    BY <1>3 DEF CloseDisplaced, writeVars
  <1>4. UNCHANGED vars => UNCHANGED <<pc, jobs, out>>
    BY DEF vars, writeVars
  <1> QED BY <1>1, <1>2, <1>3, <1>4, SerialCases

\* Handlers go to the phases of NothingToWrite only when they are idle.
LEMMA NothingToWriteStep ==
    ASSUME IInv, NothingToWrite, [SerialNext]_vars
    PROVE  NothingToWrite'
  <1> DEFINE Free == {"start", "joined", "stamped", "vanishing", "deleting", "done"}
  <1>1. /\ pc \in [Conns -> Phases]
        /\ jobs \in [Conns -> SUBSET (Seq(SafeWrite) \ {<<>>})]
        /\ out \in [Conns -> Seq(SafeWrite)]
    BY DEF IInv, Structure, StructureTypes, Traffic
  <1>2. ASSUME NEW c \in Conns, Acts(c)
        PROVE  pc'[c] \in Free => Idle(c)'
    <2> USE DEF Announce, writeVars, Goto, Return, Idle
    <2>3. CASE GetOrCreateGroup(c) \/ NewBridgeConnection(c) \/ RejectFull(c)
      BY <1>1, <2>3 DEF GetOrCreateGroup, NewBridgeConnection, RejectFull, NothingToWrite
    <2>4. CASE \/ AddBridge(c) \/ AnnounceOnline(c) \/ ReportConnected(c) \/ AddPhone(c)
               \/ AnnounceOffline(c) \/ ReportDisconnected(c) \/ RemovePhone(c)
      BY <1>1, <2>4 DEF AddBridge, AnnounceOnline, ReportConnected, AddPhone, AnnounceOffline,
                        ReportDisconnected, RemovePhone
    <2>5. CASE WriteNext(c)
      BY <1>1, <2>5 DEF WriteNext, NothingToWrite
    <2>6. CASE BridgeFrame(c) \/ PhoneFrame(c) \/ Revoke(c) \/ Drop(c)
      BY <1>1, <2>6 DEF BridgeFrame, PhoneFrame, Reading, Revoke, Drop, InGroup
    <2>7. CASE RemoveBridge(c)
      BY <1>1, <2>7 DEF RemoveBridge
    <2>8. CASE CheckReplaced(c) \/ RemoveGroupIfEmpty(c) \/ DeleteGroup(c)
      BY <1>1, <2>8 DEF CheckReplaced, RemoveGroupIfEmpty, DeleteGroup, NothingToWrite
    <2> QED BY <1>2, <2>3, <2>4, <2>5, <2>6, <2>7, <2>8 DEF Acts, HandlerStep, ClientStep
  <1>3. ASSUME NEW c \in Conns, Acts(c)
        PROVE  NothingToWrite'
    BY <1>2, <1>3, OthersStay DEF NothingToWrite, Idle
  <1>4. ASSUME UNCHANGED <<pc, jobs, out>>
        PROVE  NothingToWrite'
    BY <1>4 DEF NothingToWrite, Idle
  <1>5. ASSUME NEW c \in Conns, CloseDisplaced(c)
        PROVE  UNCHANGED <<pc, jobs, out>>
    BY <1>5 DEF CloseDisplaced, writeVars
  <1>6. UNCHANGED vars => UNCHANGED <<pc, jobs, out>>
    BY DEF vars, writeVars
  <1> QED BY <1>3, <1>4, <1>5, <1>6, SerialCases

-------------------------------------------------------------------------------
(* One group per account *)

\* A handler that is not at work but holds a group is a member of it or displaced.
LEMMA RestingHolders ==
    ASSUME Structure, NEW x \in Conns, ~Busy(x), group[x] # nil
    PROVE  /\ pc[x] = "serving"
           /\ x \in displaced \/ ~IsEmpty(grp[group[x]])
  <1>1. pc[x] = "serving"
    BY DEF Busy, Structure, HandlersHoldGroups
  <1>2. /\ group[x] \in Conns /\ ConnID[x] \in ConnIDs
        /\ grp[group[x]].Phones \in PhoneMap /\ grp[group[x]].Bridges \in BridgeMap
    BY DEF Structure, StructureTypes, Ptr, Group
  <1>3. CASE x \in BridgeConns /\ x \notin displaced
    <2>1. grp[group[x]].Bridges[BridgeID[x]] = x /\ BridgeID[x] \in BridgeIDs /\ x # nil
      BY <1>1, <1>3, ConnsAssumption DEF Structure, SlotOwned, InGroup, Current, IsCurrentBridge
    <2> QED BY <1>1, <2>1 DEF IsEmpty, Online
  <1>4. CASE x \notin BridgeConns
    <2>1. grp[group[x]].Phones[ConnID[x]] = x /\ x # nil
      BY <1>1, <1>4, ConnsAssumption DEF Structure, SlotOwned, PhoneConns
    <2> QED BY <1>1, <1>2, <2>1 DEF IsEmpty, UsedConnIDs
  <1> QED BY <1>1, <1>3, <1>4

\* Handlers join the registered group, and the one that deletes it leaves nobody
\* but displaced handlers behind.
LEMMA HoldsRegisteredStep ==
    ASSUME IInv, GroupInv, [SerialNext]_vars
    PROVE  HoldsRegistered'
  <1>1. Structure /\ StructureTypes /\ HoldsRegistered
    BY DEF IInv, Structure, GroupInv
  <1>2. ASSUME UNCHANGED <<registry, group>>, displaced \subseteq displaced'
        PROVE  HoldsRegistered'
    BY <1>1, <1>2 DEF HoldsRegistered
  <1>3. ASSUME NEW c \in Conns, GetOrCreateGroup(c)
        PROVE  HoldsRegistered'
    <2>1. UNCHANGED displaced
      BY <1>3 DEF GetOrCreateGroup
    <2>2. (\A x \in Conns : User[x] \in Users) /\ c # nil
      BY UsersAssumption, ConnsAssumption
    <2>3. group[c] = nil
      BY <1>1, <1>3 DEF GetOrCreateGroup, Structure, HandlersHoldGroups
    <2> QED BY <1>1, <1>3, <2>1, <2>2, <2>3 DEF GetOrCreateGroup, HoldsRegistered, StructureTypes
  <1>4. ASSUME NEW c \in Conns, RejectFull(c) \/ RemoveGroupIfEmpty(c)
        PROVE  HoldsRegistered'
    <2>1. UNCHANGED <<registry, displaced>>
      BY <1>4 DEF RejectFull, RemoveGroupIfEmpty, mgrVars
    <2>2. group' = group \/ group' = [group EXCEPT ![c] = nil]
      BY <1>4 DEF RejectFull, RemoveGroupIfEmpty, Return
    <2> QED BY <1>1, <2>1, <2>2 DEF HoldsRegistered, StructureTypes
  <1>5. ASSUME NEW c \in Conns, Alone(c), DeleteGroup(c)
        PROVE  HoldsRegistered'
    <2>1. IsEmpty(grp[group[c]]) /\ registry[User[c]] = group[c]
      BY <1>1, <1>5 DEF DeleteGroup, GroupInv, DeletesEmpty, Structure, LockHeld
    <2>2. ASSUME NEW x \in Conns, x # c, group[x] # nil, x \notin displaced
          PROVE  User[x] # User[c]
      <3>1. ~IsEmpty(grp[group[x]])
        BY <1>1, <1>5, <2>2, RestingHolders DEF Alone
      <3>2. registry[User[x]] = group[x]
        BY <1>1, <2>2 DEF HoldsRegistered
      <3> QED BY <2>1, <3>1, <3>2
    <2>3. UNCHANGED displaced /\ registry' = [registry EXCEPT ![User[c]] = nil]
          /\ group' = [group EXCEPT ![c] = nil]
      BY <1>5 DEF DeleteGroup, Return
    <2> QED BY <1>1, <2>2, <2>3, UsersAssumption DEF HoldsRegistered, StructureTypes
  <1>6. CASE Still
    BY <1>2, <1>6 DEF Still
  <1>7. ASSUME NEW c \in Conns, \/ Walk(c) \/ AddBridge(c) \/ AddPhone(c) \/ RemoveBridge(c)
                                \/ RemovePhone(c)
        PROVE  HoldsRegistered'
    BY <1>2, <1>7 DEF Walk, AddBridge, AddPhone, RemoveBridge, RemovePhone, mgrVars
  <1>8. ASSUME NEW c \in Conns, DeleteGroup(c)
        PROVE  Alone(c)
    <2>1. Busy(c)
      BY <1>8 DEF DeleteGroup, Busy
    <2> QED BY <2>1 DEF GroupInv, OneBusy, Alone
  <1> QED BY <1>1, <1>3, <1>4, <1>5, <1>6, <1>7, <1>8, SerialCases, Shapes

\* Nobody joins between IsEmpty and the delete.
LEMMA DeletesEmptyStep ==
    ASSUME IInv, GroupInv, [SerialNext]_vars
    PROVE  DeletesEmpty'
  <1>1. pc \in [Conns -> Phases]
    BY DEF IInv, Structure, StructureTypes
  <1>2. ASSUME UNCHANGED <<pc, grp, group>>
        PROVE  DeletesEmpty'
    BY <1>2 DEF GroupInv, DeletesEmpty
  <1>3. ASSUME NEW c \in Conns, Alone(c), Acts(c)
        PROVE  DeletesEmpty'
    <2>1. ASSUME NEW x \in Conns, x # c
          PROVE  pc'[x] # "deleting"
      BY <1>3, <2>1, OthersStay DEF Alone, Busy
    <2>2. ASSUME pc'[c] = "deleting"
          PROVE  IsEmpty(grp'[group'[c]])
      <3> USE DEF Goto, Return, mgrVars
      <3>1. CASE \/ WriteNext(c) \/ BridgeFrame(c) \/ PhoneFrame(c) \/ Revoke(c) \/ Drop(c)
        <4>1. UNCHANGED <<pc, grp, group>>
          BY <3>1 DEF WriteNext, BridgeFrame, PhoneFrame, Revoke, Drop
        <4> QED BY <2>2, <4>1 DEF GroupInv, DeletesEmpty
      <3>2. CASE RemoveGroupIfEmpty(c)
        BY <1>1, <2>2, <3>2 DEF RemoveGroupIfEmpty
      <3>3. CASE \/ GetOrCreateGroup(c) \/ NewBridgeConnection(c) \/ RejectFull(c)
                 \/ AddBridge(c) \/ AnnounceOnline(c) \/ ReportConnected(c) \/ AddPhone(c)
        BY <1>1, <2>2, <3>3 DEF GetOrCreateGroup, NewBridgeConnection, RejectFull, AddBridge,
                                AnnounceOnline, ReportConnected, AddPhone
      <3>4. CASE \/ RemoveBridge(c) \/ CheckReplaced(c) \/ AnnounceOffline(c)
                 \/ ReportDisconnected(c) \/ RemovePhone(c) \/ DeleteGroup(c)
        BY <1>1, <2>2, <3>4 DEF RemoveBridge, CheckReplaced, AnnounceOffline,
                                ReportDisconnected, RemovePhone, DeleteGroup
      <3> QED BY <1>3, <3>1, <3>2, <3>3, <3>4 DEF Acts, HandlerStep, ClientStep
    <2> QED BY <2>1, <2>2 DEF DeletesEmpty
  <1>4. ASSUME NEW c \in Conns, CloseDisplaced(c)
        PROVE  UNCHANGED <<pc, grp, group>>
    BY <1>4 DEF CloseDisplaced
  <1>5. UNCHANGED vars => UNCHANGED <<pc, grp, group>>
    BY DEF vars
  <1> QED BY <1>2, <1>3, <1>4, <1>5, SerialCases

-------------------------------------------------------------------------------
(* What joining and leaving do to the maps *)

\* A group's maps before and after a step.
SameGroups(S) == \A g \in Conns \ S : grp'[g] = grp[g]

\* AddBridge puts the bridge under its id in the map of its group.
LEMMA AddBridgeMaps ==
    ASSUME Structure, NEW c \in Conns, AddBridge(c)
    PROVE  /\ c \in BridgeConns /\ BridgeID[c] \in BridgeIDs /\ group[c] \in Conns
           /\ SameGroups({group[c]})
           /\ grp'[group[c]].Bridges = [grp[group[c]].Bridges EXCEPT ![BridgeID[c]] = c]
           /\ grp'[group[c]].Phones = grp[group[c]].Phones
  <1>1. c \in BridgeConns /\ BridgeID[c] \in BridgeIDs /\ group[c] \in Conns
    BY ConnsAssumption DEF AddBridge, Structure, StructureTypes, HandlersHoldGroups, BridgePhases, Ptr
  <1>2. grp \in [Conns -> Group]
    BY DEF Structure, StructureTypes
  <1>3. grp' = [grp EXCEPT ![group[c]].Bridges =
                              [grp[group[c]].Bridges EXCEPT ![BridgeID[c]] = c]]
    BY DEF AddBridge
  <1> QED BY <1>1, <1>2, <1>3 DEF SameGroups, Group

\* RemoveBridge takes it out, if it is still the one under its id.
LEMMA RemoveBridgeMaps ==
    ASSUME Structure, NEW c \in Conns, RemoveBridge(c)
    PROVE  /\ c \in BridgeConns /\ BridgeID[c] \in BridgeIDs /\ group[c] \in Conns
           /\ Current(c) => /\ SameGroups({group[c]})
                            /\ grp'[group[c]].Bridges =
                                    [grp[group[c]].Bridges EXCEPT ![BridgeID[c]] = nil]
                            /\ grp'[group[c]].Phones = grp[group[c]].Phones
           /\ ~Current(c) => grp' = grp
  <1>1. c \in BridgeConns /\ BridgeID[c] \in BridgeIDs /\ group[c] \in Conns
    BY ConnsAssumption DEF RemoveBridge, Leaving, Structure, StructureTypes, HandlersHoldGroups, Ptr
  <1>2. grp \in [Conns -> Group]
    BY DEF Structure, StructureTypes
  <1>3. IF Current(c)
        THEN grp' = [grp EXCEPT ![group[c]].Bridges =
                                   [grp[group[c]].Bridges EXCEPT ![BridgeID[c]] = nil]]
        ELSE grp' = grp
    BY DEF RemoveBridge
  <1> QED BY <1>1, <1>2, <1>3 DEF SameGroups, Group

\* AddPhone puts the phone under a free connId.
LEMMA AddPhoneMaps ==
    ASSUME Structure, NEW c \in Conns, AddPhone(c)
    PROVE  /\ c \in PhoneConns /\ group[c] \in Conns
           /\ SameGroups({group[c]})
           /\ grp'[group[c]].Bridges = grp[group[c]].Bridges
           /\ ConnID'[c] \in ConnIDs
           /\ ConnID' = [ConnID EXCEPT ![c] = ConnID'[c]]
           /\ grp[group[c]].Phones[ConnID'[c]] = nil
           /\ grp'[group[c]].Phones = [grp[group[c]].Phones EXCEPT ![ConnID'[c]] = c]
  <1>1. c \in PhoneConns /\ group[c] \in Conns
    BY DEF AddPhone, Structure, StructureTypes, HandlersHoldGroups, Ptr
  <1>2. grp \in [Conns -> Group] /\ ConnID \in [Conns -> ConnIDs]
    BY DEF Structure, StructureTypes
  <1>3. PICK id \in ConnIDs :
            /\ assignConnIDLocked(grp[group[c]], id)
            /\ grp' = [grp EXCEPT ![group[c]].Phones[id] = c,
                                  ![group[c]].NextConnID = NextAfter(id)]
            /\ ConnID' = [ConnID EXCEPT ![c] = id]
    BY DEF AddPhone
  <1>4. ConnID'[c] = id /\ grp[group[c]].Phones[id] = nil
    BY <1>2, <1>3 DEF assignConnIDLocked
  <1> QED BY <1>1, <1>2, <1>3, <1>4 DEF SameGroups, Group

\* RemovePhone clears the entry of the phone's connId.
LEMMA RemovePhoneMaps ==
    ASSUME Structure, NEW c \in Conns, RemovePhone(c)
    PROVE  /\ c \in PhoneConns /\ group[c] \in Conns /\ ConnID[c] \in ConnIDs
           /\ SameGroups({group[c]})
           /\ grp'[group[c]].Bridges = grp[group[c]].Bridges
           /\ grp'[group[c]].Phones = [grp[group[c]].Phones EXCEPT ![ConnID[c]] = nil]
  <1>1. c \in PhoneConns /\ group[c] \in Conns /\ ConnID[c] \in ConnIDs
    BY DEF RemovePhone, Leaving, Structure, StructureTypes, HandlersHoldGroups, Ptr
  <1>2. grp \in [Conns -> Group]
    BY DEF Structure, StructureTypes
  <1>3. grp' = [grp EXCEPT ![group[c]].Phones[ConnID[c]] = nil]
    BY DEF RemovePhone
  <1> QED BY <1>1, <1>2, <1>3 DEF SameGroups, Group

-------------------------------------------------------------------------------
(* Reports *)

\* The bridge with an id that left its group left no other with that id.
LEMMA VanishedIsGoneStep ==
    ASSUME IInv, GroupInv, [SerialNext]_vars
    PROVE  VanishedIsGone'
  <1> DEFINE Left == {"removed", "vanishing", "offline"}
  <1>1. /\ pc \in [Conns -> Phases] /\ grp \in [Conns -> Group] /\ Structure
        /\ group \in [Conns -> Ptr] /\ registry \in [Users -> Ptr]
    BY DEF IInv, Structure, StructureTypes
  <1>2. ASSUME UNCHANGED <<registry, grp>>, \A x \in Conns : pc'[x] \in Left => pc[x] \in Left
        PROVE  VanishedIsGone'
    BY <1>2 DEF GroupInv, VanishedIsGone, HasLiveBridgeWithID
  <1>3. ASSUME NEW c \in Conns, Alone(c), Acts(c)
        PROVE  VanishedIsGone'
    <2>1. ASSUME NEW x \in Conns, x # c
          PROVE  pc'[x] \notin Left
      BY <1>3, <2>1, OthersStay DEF Alone, Busy
    <2> USE DEF Goto, Return, mgrVars
    <2>2. CASE RemoveBridge(c)
      <3>1. CASE Current(c)
        <4>1. /\ group[c] \in Conns /\ BridgeID[c] \in BridgeIDs /\ User[c] \in Users
              /\ c \in BridgeConns /\ c # nil
          BY <1>1, <2>2, ConnsAssumption, UsersAssumption
             DEF RemoveBridge, Leaving, Structure, HandlersHoldGroups, Ptr
        <4>2. c \notin displaced
          BY <1>1, <3>1, <4>1 DEF Current, IsCurrentBridge, Structure, SlotOwned, BridgeEntry
        <4>3. registry[User[c]] = group[c]
          BY <4>1, <4>2, ConnsAssumption DEF GroupInv, HoldsRegistered
        <4>4. grp' = [grp EXCEPT ![group[c]].Bridges =
                                    [grp[group[c]].Bridges EXCEPT ![BridgeID[c]] = nil]]
              /\ registry' = registry
          BY <2>2, <3>1 DEF RemoveBridge
        <4>5. grp'[group[c]].Bridges[BridgeID[c]] = nil
          BY <1>1, <4>1, <4>4 DEF Group, BridgeMap
        <4>6. ~HasLiveBridgeWithID(User[c], BridgeID[c])'
          BY <4>3, <4>4, <4>5 DEF HasLiveBridgeWithID
        <4> QED BY <2>1, <4>6 DEF VanishedIsGone
      <3>2. CASE ~Current(c)
        <4>1. pc'[c] = "cleanup"
          BY <1>1, <2>2, <3>2 DEF RemoveBridge
        <4> QED BY <2>1, <4>1 DEF VanishedIsGone
      <3> QED BY <3>1, <3>2
    <2>3. CASE \/ WriteNext(c) \/ BridgeFrame(c) \/ PhoneFrame(c) \/ Revoke(c) \/ Drop(c)
      BY <1>2, <2>3 DEF WriteNext, BridgeFrame, PhoneFrame, Revoke, Drop
    <2>4. CASE \/ CheckReplaced(c) \/ AnnounceOffline(c) \/ ReportDisconnected(c)
      BY <1>1, <1>2, <2>4 DEF CheckReplaced, AnnounceOffline, ReportDisconnected
    <2>5. ASSUME pc'[c] \notin Left
          PROVE  VanishedIsGone'
      BY <2>1, <2>5 DEF VanishedIsGone
    <2>6. CASE \/ GetOrCreateGroup(c) \/ NewBridgeConnection(c) \/ RejectFull(c)
               \/ AddBridge(c) \/ AnnounceOnline(c) \/ ReportConnected(c) \/ AddPhone(c)
      BY <1>1, <2>5, <2>6 DEF GetOrCreateGroup, NewBridgeConnection, RejectFull, AddBridge,
                              AnnounceOnline, ReportConnected, AddPhone
    <2>7. CASE RemovePhone(c) \/ RemoveGroupIfEmpty(c) \/ DeleteGroup(c)
      BY <1>1, <2>5, <2>7 DEF RemovePhone, RemoveGroupIfEmpty, DeleteGroup
    <2> QED BY <1>3, <2>2, <2>3, <2>4, <2>6, <2>7 DEF Acts, HandlerStep, ClientStep
  <1>4. ASSUME NEW c \in Conns, CloseDisplaced(c)
        PROVE  UNCHANGED <<pc, registry, grp>>
    BY <1>4 DEF CloseDisplaced, mgrVars
  <1>5. UNCHANGED vars => UNCHANGED <<pc, registry, grp>>
    BY DEF vars, mgrVars
  <1> QED BY <1>2, <1>3, <1>4, <1>5, SerialCases

\* Every bridge reaches its read loop by way of its connected report, and a late
\* cleanup reports nothing about a live one.
LEMMA ServingReportedStep ==
    ASSUME IInv, GroupInv, [SerialNext]_vars
    PROVE  ServingReported'
  <1> DEFINE Bridge(u, id) == grp[registry[u]].Bridges[id]
  <1>1. /\ pc \in [Conns -> Phases] /\ grp \in [Conns -> Group] /\ Structure
        /\ group \in [Conns -> Ptr] /\ registry \in [Users -> Ptr]
        /\ status \in [Users -> [BridgeIDs -> {"unknown", "connected", "disconnected"}]]
        /\ ServingReported
    BY DEF IInv, Structure, StructureTypes, OtherTypes, GroupInv
  <1>2. ASSUME status' = status,
               \A u \in Users, id \in BridgeIDs :
                    HasLiveBridgeWithID(u, id)' /\ Bridge(u, id)' \in Conns
                        /\ pc'[Bridge(u, id)'] = "serving"
                    => HasLiveBridgeWithID(u, id) /\ pc[Bridge(u, id)] = "serving"
        PROVE  ServingReported'
    <2>1. \A u \in Users, id \in BridgeIDs : HasLiveBridgeWithID(u, id)' => Bridge(u, id)' \in Conns
      BY StructureStep, SerialCases, <1>1
         DEF HasLiveBridgeWithID, Structure, StructureTypes, Group, BridgeMap, Ptr
    <2> QED BY <1>1, <1>2, <2>1 DEF ServingReported
  <1>3. ASSUME status' = status, UNCHANGED <<registry, grp>>,
               \A x \in Conns : pc'[x] = "serving" => pc[x] = "serving" \/ x \notin BridgeConns
        PROVE  ServingReported'
    <2>1. \A u \in Users, id \in BridgeIDs : HasLiveBridgeWithID(u, id) => Bridge(u, id) \in BridgeConns
      BY <1>1 DEF HasLiveBridgeWithID, Structure, SlotOwned, BridgeEntry, Ptr
    <2> QED BY <1>2, <1>3, <2>1 DEF HasLiveBridgeWithID
  <1>4. ASSUME NEW c \in Conns, ReportConnected(c)
        PROVE  ServingReported'
    <2>1. /\ c \in BridgeConns /\ BridgeID[c] \in BridgeIDs /\ User[c] \in Users
      BY <1>1, <1>4, ConnsAssumption, UsersAssumption
         DEF ReportConnected, Structure, HandlersHoldGroups, BridgePhases
    <2>2. /\ pc' = [pc EXCEPT ![c] = "serving"] /\ UNCHANGED <<registry, grp>>
          /\ status' = [status EXCEPT ![User[c]][BridgeID[c]] = "connected"]
      BY <1>4 DEF ReportConnected, Goto, mgrVars
    <2>3. ASSUME NEW u \in Users, NEW id \in BridgeIDs, HasLiveBridgeWithID(u, id), Bridge(u, id) = c
          PROVE  u = User[c] /\ id = BridgeID[c]
      BY <1>1, <2>3 DEF HasLiveBridgeWithID, Structure, SlotOwned, BridgeEntry, GroupsOfAccount, Ptr
    <2>4. ASSUME NEW u \in Users, NEW id \in BridgeIDs, HasLiveBridgeWithID(u, id),
                 Bridge(u, id) # c, pc'[Bridge(u, id)] = "serving"
          PROVE  status'[u][id] = "connected"
      <3>1. Bridge(u, id) \in Conns
        BY <1>1, <2>4 DEF HasLiveBridgeWithID, Group, BridgeMap, Ptr
      <3>2. status[u][id] = "connected"
        BY <1>1, <2>2, <2>4, <3>1 DEF ServingReported
      <3> QED BY <1>1, <2>1, <2>2, <3>2
    <2>5. status'[User[c]][BridgeID[c]] = "connected"
      BY <1>1, <2>1, <2>2
    <2>6. ASSUME NEW u \in Users, NEW id \in BridgeIDs, HasLiveBridgeWithID(u, id)',
                 pc'[Bridge(u, id)'] = "serving"
          PROVE  status'[u][id] = "connected"
      <3>1. HasLiveBridgeWithID(u, id) /\ Bridge(u, id)' = Bridge(u, id)
        BY <2>2, <2>6 DEF HasLiveBridgeWithID
      <3> QED BY <2>3, <2>4, <2>5, <2>6, <3>1
    <2> QED BY <2>6 DEF ServingReported
  <1>5. ASSUME NEW c \in Conns, ReportDisconnected(c)
        PROVE  ServingReported'
    <2>1. /\ c \in BridgeConns /\ BridgeID[c] \in BridgeIDs /\ User[c] \in Users
      BY <1>1, <1>5, ConnsAssumption, UsersAssumption
         DEF ReportDisconnected, Structure, HandlersHoldGroups, BridgePhases
    <2>2. /\ pc' = [pc EXCEPT ![c] = "cleanup"] /\ UNCHANGED <<registry, grp>>
          /\ status' = [status EXCEPT ![User[c]][BridgeID[c]] = "disconnected"]
      BY <1>5 DEF ReportDisconnected, Goto, mgrVars
    <2>3. ~HasLiveBridgeWithID(User[c], BridgeID[c])
      BY <1>5 DEF ReportDisconnected, GroupInv, VanishedIsGone
    <2>4. ASSUME NEW u \in Users, NEW id \in BridgeIDs, HasLiveBridgeWithID(u, id)',
                 pc'[Bridge(u, id)'] = "serving"
          PROVE  status'[u][id] = "connected"
      <3>1. HasLiveBridgeWithID(u, id) /\ Bridge(u, id)' = Bridge(u, id)
        BY <2>2, <2>4 DEF HasLiveBridgeWithID
      <3>2. Bridge(u, id) \in Conns
        BY <1>1, <3>1 DEF HasLiveBridgeWithID, Group, BridgeMap, Ptr
      <3>3. status[u][id] = "connected"
        BY <1>1, <2>2, <2>4, <3>1, <3>2 DEF ServingReported
      <3>4. u # User[c] \/ id # BridgeID[c]
        BY <2>3, <3>1
      <3> QED BY <1>1, <2>1, <2>2, <3>3, <3>4
    <2> QED BY <2>4 DEF ServingReported
  <1>6. ASSUME NEW c \in Conns, \/ WriteNext(c) \/ BridgeFrame(c) \/ PhoneFrame(c) \/ Revoke(c)
                                \/ Drop(c) \/ CloseDisplaced(c)
        PROVE  ServingReported'
    BY <1>3, <1>6 DEF WriteNext, BridgeFrame, PhoneFrame, Revoke, Drop, CloseDisplaced, mgrVars
  <1>7. ASSUME NEW c \in Conns, \/ NewBridgeConnection(c) \/ AnnounceOnline(c) \/ CheckReplaced(c)
                                \/ AnnounceOffline(c) \/ RejectFull(c) \/ RemoveGroupIfEmpty(c)
        PROVE  ServingReported'
    <2>1. UNCHANGED <<status, registry, grp>>
      BY <1>7 DEF NewBridgeConnection, AnnounceOnline, CheckReplaced, AnnounceOffline, RejectFull,
                  RemoveGroupIfEmpty, mgrVars
    <2>2. \A x \in Conns : pc'[x] = "serving" => pc[x] = "serving"
      BY <1>1, <1>7 DEF NewBridgeConnection, AnnounceOnline, CheckReplaced, AnnounceOffline,
                        RejectFull, RemoveGroupIfEmpty, Goto, Return
    <2> QED BY <1>3, <2>1, <2>2
  <1>8. ASSUME NEW c \in Conns, GetOrCreateGroup(c)
        PROVE  ServingReported'
    <2>1. status' = status /\ pc' = [pc EXCEPT ![c] = "joined"]
      BY <1>8 DEF GetOrCreateGroup, Goto
    <2>2. CASE registry[User[c]] # nil
      BY <1>1, <1>3, <1>8, <2>1, <2>2 DEF GetOrCreateGroup
    <2>3. CASE registry[User[c]] = nil
      <3>1. /\ registry' = [registry EXCEPT ![User[c]] = c]
            /\ grp' = [grp EXCEPT ![c] = NewAccountGroup]
        BY <1>8, <2>3 DEF GetOrCreateGroup
      <3>2. \A u \in Users : registry[u] # c
        BY <1>1, <1>8, ConnsAssumption DEF GetOrCreateGroup, Structure, GroupsOfAccount
      <3>3. ASSUME NEW u \in Users, NEW id \in BridgeIDs, HasLiveBridgeWithID(u, id)'
            PROVE  HasLiveBridgeWithID(u, id) /\ Bridge(u, id)' = Bridge(u, id)
        <4>1. CASE u = User[c]
          <5>1. registry'[u] = c /\ grp'[c] = NewAccountGroup
            BY <1>1, <3>1, <4>1
          <5> QED BY <3>3, <5>1 DEF HasLiveBridgeWithID, NewAccountGroup
        <4>2. CASE u # User[c]
          <5>1. registry'[u] = registry[u]
            BY <1>1, <3>1, <4>2
          <5>2. registry[u] # nil => grp'[registry[u]] = grp[registry[u]]
            BY <1>1, <3>1, <3>2
          <5> QED BY <3>3, <5>1, <5>2 DEF HasLiveBridgeWithID
        <4> QED BY <4>1, <4>2
      <3>4. \A x \in Conns : pc'[x] = "serving" => pc[x] = "serving"
        BY <1>1, <2>1
      <3> QED BY <1>2, <2>1, <3>3, <3>4
    <2> QED BY <2>2, <2>3
  <1>9. ASSUME NEW c \in Conns, DeleteGroup(c)
        PROVE  ServingReported'
    <2>1. /\ status' = status /\ pc' = [pc EXCEPT ![c] = "done"] /\ grp' = grp
          /\ registry' = [registry EXCEPT ![User[c]] = nil]
      BY <1>9 DEF DeleteGroup, Return, Goto
    <2>2. \A u \in Users : registry'[u] = registry[u] \/ registry'[u] = nil
      BY <1>1, <2>1
    <2>3. \A x \in Conns : pc'[x] = "serving" => pc[x] = "serving"
      BY <1>1, <2>1
    <2> QED BY <1>2, <2>1, <2>2, <2>3 DEF HasLiveBridgeWithID
  <1>10. ASSUME NEW c \in Conns, \/ AddBridge(c) \/ AddPhone(c) \/ RemoveBridge(c) \/ RemovePhone(c)
         PROVE  ServingReported'
    <2>1. /\ status' = status /\ registry' = registry
      BY <1>10 DEF AddBridge, AddPhone, RemoveBridge, RemovePhone, mgrVars
    <2>2. ASSUME NEW g \in Conns, NEW id \in BridgeIDs, grp'[g].Bridges[id] # nil
          PROVE  grp'[g].Bridges[id] = grp[g].Bridges[id] \/ (grp'[g].Bridges[id] = c /\ AddBridge(c))
      <3>1. grp[g].Bridges \in BridgeMap
        BY <1>1 DEF Group
      <3>2. CASE AddBridge(c)
        <4>1. g # group[c] => grp'[g] = grp[g]
          BY <1>1, <3>2, AddBridgeMaps DEF SameGroups
        <4>2. /\ BridgeID[c] \in BridgeIDs
              /\ g = group[c] => grp'[g].Bridges = [grp[g].Bridges EXCEPT ![BridgeID[c]] = c]
          BY <1>1, <3>2, AddBridgeMaps
        <4> QED BY <3>1, <3>2, <4>1, <4>2 DEF BridgeMap
      <3>3. CASE RemoveBridge(c)
        <4>1. g # group[c] => grp'[g] = grp[g]
          BY <1>1, <3>3, RemoveBridgeMaps DEF SameGroups
        <4>2. /\ BridgeID[c] \in BridgeIDs
              /\ g = group[c] => \/ grp'[g].Bridges = [grp[g].Bridges EXCEPT ![BridgeID[c]] = nil]
                                 \/ grp'[g] = grp[g]
          BY <1>1, <3>3, RemoveBridgeMaps
        <4> QED BY <2>2, <3>1, <4>1, <4>2 DEF BridgeMap
      <3>4. CASE AddPhone(c) \/ RemovePhone(c)
        BY <1>1, <3>4, AddPhoneMaps, RemovePhoneMaps DEF SameGroups
      <3> QED BY <1>10, <3>2, <3>3, <3>4
    <2>3. \A x \in Conns : pc'[x] = "serving" => pc[x] = "serving" \/ (x = c /\ AddPhone(c))
      BY <1>1, <1>10 DEF AddBridge, AddPhone, RemoveBridge, RemovePhone, Leaving, Goto
    <2>4. AddBridge(c) => pc'[c] # "serving"
      BY <1>1 DEF AddBridge, Goto
    <2>5. AddPhone(c) => \A g \in Conns, id \in BridgeIDs : grp[g].Bridges[id] # c
      BY <1>1, ConnsAssumption
         DEF AddPhone, Structure, SlotOwned, BridgeEntry, InGroup
    <2>6. AddPhone(c) => ~AddBridge(c)
      BY DEF AddPhone, AddBridge
    <2> QED BY <1>1, <1>2, <2>1, <2>2, <2>3, <2>4, <2>5, <2>6 DEF HasLiveBridgeWithID, Ptr
  <1>11. CASE UNCHANGED vars
    BY <1>3, <1>11 DEF vars, mgrVars
  <1> QED BY <1>4, <1>5, <1>6, <1>7, <1>8, <1>9, <1>10, <1>11, SerialCases
          DEF Acts, HandlerStep, ClientStep

-------------------------------------------------------------------------------
(* Groups and reports, one handler at a time *)

\* The invariant of module RelayProofs holds of serial handlers too.
LEMMA SerialIInv ==
    ASSUME IInv, [SerialNext]_vars
    PROVE  IInv'
  BY StructureStep, TrafficStep, OtherTypesStep, SerialCases DEF IInv

\* The invariant holds at the start.
LEMMA GroupInvInit == Init => GroupInv
  BY DEF Init, GroupInv, OneBusy, Busy, Idle, NothingToWrite, HoldsRegistered, DeletesEmpty,
         VanishedIsGone, ServingReported, HasLiveBridgeWithID

\* The invariant of serial handlers holds in every state they reach.
THEOREM SerialInvariance == SerialSpec => [](IInv /\ GroupInv)
  <1>1. Init => IInv /\ GroupInv
    BY GroupInvInit, IInvInit
  <1>2. IInv /\ GroupInv /\ [SerialNext]_vars => (IInv /\ GroupInv)'
    BY SerialIInv, OneBusyStep, NothingToWriteStep, HoldsRegisteredStep, DeletesEmptyStep,
       VanishedIsGoneStep, ServingReportedStep DEF GroupInv
  <1> QED BY <1>1, <1>2, PTL DEF SerialSpec

\* All members of an account share the group that the manager has for it as long
\* as one handler is at work at a time: GetOrCreateGroup and RemoveGroupIfEmpty
\* are right apart from the races between them and AddBridge or AddPhone.
THEOREM OneGroupCorrect == SerialSpec => []OneGroupPerAccount
  <1>1. IInv /\ GroupInv => OneGroupPerAccount
    <2> SUFFICES ASSUME IInv, GroupInv, NEW g \in Conns, NEW x \in Members(g)
                 PROVE  registry[User[g]] = g
      BY DEF OneGroupPerAccount
    <2>1. x \in Conns /\ group[x] = g /\ x \notin displaced
      <3>1. CASE x \in LiveBridges(grp[g].Bridges)
        BY <3>1, ConnsAssumption
           DEF LiveBridges, Online, IInv, Structure, SlotOwned, BridgeEntry
      <3>2. CASE x \in AllPhones(grp[g])
        BY <3>2, ConnsAssumption
           DEF AllPhones, UsedConnIDs, IInv, Structure, SlotOwned, PhoneEntry, PhoneConns,
               DisplacedPhases
      <3> QED BY <3>1, <3>2 DEF Members
    <2>2. g # nil
      BY ConnsAssumption
    <2> QED BY <2>1, <2>2 DEF IInv, Structure, GroupsOfAccount, GroupInv, HoldsRegistered
  <1> QED BY <1>1, SerialInvariance, PTL

\* The newest report about a live bridge says that it is connected, whatever
\* cleanups of older connections with its id come late, as long as they are not
\* interrupted (handler.go:319, group_manager.go:56).
THEOREM ReportedOnlineCorrect == SerialSpec => []LiveBridgeReportedOnline
  <1>1. IInv /\ GroupInv => LiveBridgeReportedOnline
    <2> SUFFICES ASSUME IInv, GroupInv, Quiet, NEW u \in Users, NEW id \in BridgeIDs,
                        HasLiveBridgeWithID(u, id)
                 PROVE  status[u][id] = "connected"
      BY DEF LiveBridgeReportedOnline
    <2> DEFINE b == grp[registry[u]].Bridges[id]
    <2>1. registry[u] \in Conns /\ b # nil
      BY DEF HasLiveBridgeWithID, IInv, Structure, StructureTypes, Ptr
    <2>2. b \in Conns /\ pc[b] \in InGroup
      BY <2>1, ConnsAssumption DEF IInv, Structure, SlotOwned, BridgeEntry
    <2>3. pc[b] = "serving"
      BY <2>2 DEF Quiet, Busy, InGroup
    <2> QED BY <2>3 DEF GroupInv, ServingReported
  <1> QED BY <1>1, SerialInvariance, PTL
===============================================================================
