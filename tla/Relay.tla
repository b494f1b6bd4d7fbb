--------------------------------- MODULE Relay ---------------------------------
(***************************************************************************)
(* The connection handlers of internal/relay/handler.go from the moment a  *)
(* connection is authenticated, with the group manager and the account     *)
(* groups they share.                                                      *)
(*                                                                         *)
(* Every connection is served by one goroutine.  A step of it is what the  *)
(* code does between two points where another goroutine can interfere: one *)
(* critical section of a mutex, one websocket write, one event of its read *)
(* loop.  A lookup made under a lock and the writes made with its result   *)
(* after the unlock are therefore separate steps.                          *)
(*                                                                         *)
(* A group is named by the connection whose handler created it: a handler  *)
(* creates at most one, so the name is as unique as the pointer.           *)
(***************************************************************************)
EXTENDS AccountGroup, Sequences

CONSTANTS
    Users,      \* accounts
    User,       \* the account of each connection, from its JWT
    Talkers     \* connections that send data frames in this instance

ASSUME UsersAssumption == User \in [Conns -> Users] /\ Talkers \subseteq Conns

VARIABLES
    pc,             \* where the handler of each connection is
    registry,       \* GroupManager.groups
    mgrLock,        \* the handler inside RemoveGroupIfEmpty's critical section
    grp,            \* the heap of AccountGroups
    group,          \* the group variable of each handler
    ConnID,         \* Connection.ConnID
    ConnectedAt,    \* Connection.ConnectedAt
    clock,          \* time.Now()
    jobs,           \* what a handler has yet to write: a set, in any order ...
    out,            \* ... of sequences of writes; out is the one under way
    sock,           \* "closed" as soon as the handler's Read fails
    displaced,      \* connections a same-id reconnect has taken over
    status,         \* newest bridge status reported to the auth server
    client          \* what each client made of the messages it received

mgrVars    == <<registry, mgrLock>>
connVars   == <<ConnID, ConnectedAt, clock>>
writeVars  == <<jobs, out>>
sockVars   == <<sock, client>>
vars == <<pc, mgrVars, grp, group, connVars, writeVars, sockVars, displaced, status>>

(***************************************************************************)
(* start     authenticated, before GetOrCreateGroup                        *)
(* joined    holds a group, not in it yet                                  *)
(* stamped   (bridge) Connection built, before AddBridge                   *)
(* added     (bridge) in the group, announcing target changes              *)
(* online    (bridge) announcing presence                                  *)
(* serving   in the read loop; a phone first writes its connect notices    *)
(* removed   (bridge) left the group as its current connection, announcing *)
(* vanishing (bridge) found itself not replaced, before AllPhones          *)
(* offline   (bridge) announcing its absence                               *)
(* cleanup   before RemoveGroupIfEmpty                                     *)
(* deleting  inside it, the group found empty, before the delete           *)
(* done      the handler returned                                          *)
(***************************************************************************)
Phases == {"start", "joined", "stamped", "added", "online", "serving",
           "removed", "vanishing", "offline", "cleanup", "deleting", "done"}

\* The phases between AddBridge and RemoveBridge, AddPhone and RemovePhone.
InGroup == {"added", "online", "serving"}

-------------------------------------------------------------------------------
(* Messages.  A write names its destination; id, connID and from are filled *)
(* in as far as the message type has them.                                  *)

NoticeTypes == {"bridge_connected", "bridge_disconnected"}
WriteTypes == NoticeTypes \cup {"phone_connected", "phone_disconnected",
                                "bridge_online", "bridge_offline", "data"}

Write == [to : Conns, type : WriteTypes, id : BridgeIDs \cup {NoID},
          connID : ConnIDs, from : Ptr]

\* bridge_connected, bridge_disconnected and both values of bridge_presence.
ToPhone(phone, type, id) ==
    [to |-> phone, type |-> type, id |-> id, connID |-> 0, from |-> nil]

\* phone_connected and phone_disconnected.
ToBridge(bridge, type, connID) ==
    [to |-> bridge, type |-> type, id |-> NoID, connID |-> connID, from |-> nil]

\* A binary frame; phone -> bridge frames carry the phone's connID.
DataFrame(from, to, connID) ==
    [to |-> to, type |-> "data", id |-> NoID, connID |-> connID, from |-> from]

\* The loss of the previous bridge is told after the gain of the next (a mutant
\* of announceTargetChanges).
announceLossLast(change) ==
    LET gained == IF change.next = nil THEN <<>>
                  ELSE <<ToPhone(change.phone, "bridge_connected", BridgeID[change.next]),
                         ToBridge(change.next, "phone_connected", ConnID[change.phone])>>
        lost == IF change.next # nil /\ change.previousBridgeID = NoID THEN <<>>
                ELSE <<ToPhone(change.phone, "bridge_disconnected", change.previousBridgeID)>>
    IN  gained \o lost

\* The writes announceTargetChanges makes for one change, in order.
announceTargetChanges(change) ==
    LET k == ConnID[change.phone]
        left == IF change.previous = nil THEN <<>>
                ELSE <<ToBridge(change.previous, "phone_disconnected", k)>>
        moved == IF change.next = nil
                 THEN <<ToPhone(change.phone, "bridge_disconnected", change.previousBridgeID)>>
                 ELSE <<ToPhone(change.phone, "bridge_connected", BridgeID[change.next]),
                        ToBridge(change.next, "phone_connected", k)>>
    IN  left \o moved

announcePresence(phones, id, type) == {<<ToPhone(p, type, id)>> : p \in phones}

-------------------------------------------------------------------------------
(* Clients.  A client is what it has made of the messages it received: a    *)
(* phone keeps the last notice about its target and the presence of every   *)
(* bridge, a bridge the connIds of its phones, both whom they got data from.*)

Notice == [type : NoticeTypes \cup {"none"}, id : BridgeIDs \cup {NoID}]

Client == [notice : Notice,
           presence : [BridgeIDs -> {"unknown", "bridge_online", "bridge_offline"}],
           roster : SUBSET ConnIDs,
           heard : SUBSET Ptr]

NewClient == [notice |-> [type |-> "none", id |-> NoID],
              presence |-> [id \in BridgeIDs |-> "unknown"],
              roster |-> {},
              heard |-> {}]

\* The client after it received w.
Received(w) ==
    LET old == client[w.to] IN
    CASE w.type \in NoticeTypes ->
            [old EXCEPT !.notice = [type |-> w.type, id |-> w.id]]
      [] w.type \in {"bridge_online", "bridge_offline"} ->
            [old EXCEPT !.presence[w.id] = w.type]
      [] w.type = "phone_connected" -> [old EXCEPT !.roster = @ \cup {w.connID}]
      [] w.type = "phone_disconnected" -> [old EXCEPT !.roster = @ \ {w.connID}]
      [] w.type = "data" -> [old EXCEPT !.heard = @ \cup {w.from}]

\* The websocket of c is closed, by whichever side; what its client knew is gone.
HangUp(c) ==
    /\ sock' = [sock EXCEPT ![c] = "closed"]
    /\ client' = [client EXCEPT ![c] = NewClient]

-------------------------------------------------------------------------------
Init ==
    /\ pc = [c \in Conns |-> "start"]
    /\ registry = [u \in Users |-> nil]
    /\ mgrLock = nil
    /\ grp = [c \in Conns |-> NewAccountGroup]
    /\ group = [c \in Conns |-> nil]
    /\ ConnID = [c \in Conns |-> 0]
    /\ ConnectedAt = [c \in Conns |-> 0]
    /\ clock = 0
    /\ jobs = [c \in Conns |-> {}]
    /\ out = [c \in Conns |-> <<>>]
    /\ sock = [c \in Conns |-> "open"]
    /\ displaced = {}
    /\ status = [u \in Users |-> [id \in BridgeIDs |-> "unknown"]]
    /\ client = [c \in Conns |-> NewClient]

\* The handler has written everything it had to write.
Idle(c) == jobs[c] = {} /\ out[c] = <<>>

Goto(c, phase) == pc' = [pc EXCEPT ![c] = phase]

\* The handler returns and its pointer to the group goes away.
Return(c) ==
    /\ Goto(c, "done")
    /\ group' = [group EXCEPT ![c] = nil]

\* Start writing a set of sequences of writes.
Announce(c, sequences) ==
    /\ jobs' = [jobs EXCEPT ![c] = sequences]
    /\ UNCHANGED out

Current(b) == IsCurrentBridge(grp[group[b]], b)

-------------------------------------------------------------------------------
(* Joining *)

\* The manager finds whatever group there is (a mutant of GetOrCreateGroup).
GetAnyGroup(c) ==
    LET groups == {registry[u] : u \in Users} \ {nil}
        found == IF groups = {} THEN c ELSE CHOOSE g \in groups : TRUE
    IN
    /\ pc[c] = "start"
    /\ mgrLock = nil
    /\ group' = [group EXCEPT ![c] = found]
    /\ registry' = [registry EXCEPT ![User[c]] = found]
    /\ Goto(c, "joined")
    /\ UNCHANGED <<mgrLock, grp, connVars, writeVars, sockVars, displaced, status>>

GetOrCreateGroup(c) ==
    LET found == registry[User[c]] IN
    /\ pc[c] = "start"
    /\ mgrLock = nil
    /\ IF found # nil
       THEN /\ group' = [group EXCEPT ![c] = found]
            /\ UNCHANGED <<registry, grp>>
       ELSE /\ group' = [group EXCEPT ![c] = c]
            /\ registry' = [registry EXCEPT ![User[c]] = c]
            /\ grp' = [grp EXCEPT ![c] = NewAccountGroup]
    /\ Goto(c, "joined")
    /\ UNCHANGED <<mgrLock, connVars, writeVars, sockVars, displaced, status>>

\* handleBridge builds its Connection; two calls of time.Now() may agree.
NewBridgeConnection(b) ==
    /\ pc[b] = "joined" /\ b \in BridgeConns
    /\ ConnectedAt' = [ConnectedAt EXCEPT ![b] = clock]
    /\ clock' \in {clock, clock + 1}
    /\ Goto(b, "stamped")
    /\ UNCHANGED <<mgrVars, grp, group, ConnID, writeVars, sockVars, displaced, status>>

\* The account is full: close with CloseAccountFull and return.
RejectFull(c) ==
    /\ \/ /\ pc[c] = "stamped"
          /\ grp[group[c]].Bridges[BridgeID[c]] = nil
          /\ BridgesFull(grp[group[c]])
       \/ /\ pc[c] = "joined" /\ c \in PhoneConns
          /\ PhonesFull(grp[group[c]])
    /\ HangUp(c)
    /\ Return(c)
    /\ UNCHANGED <<mgrVars, grp, connVars, writeVars, displaced, status>>

AddBridge(b) ==
    LET g == grp[group[b]]
        previous == g.Bridges[BridgeID[b]]
        after == [g.Bridges EXCEPT ![BridgeID[b]] = b]
    IN
    /\ pc[b] = "stamped"
    /\ previous # nil \/ ~BridgesFull(g)
    /\ grp' = [grp EXCEPT ![group[b]].Bridges = after]
    /\ displaced' = displaced \cup ({previous} \ {nil})
    /\ Announce(b, {announceTargetChanges(ch) :
                        ch \in changeBridgesLocked(g, after, ConnectedAt)})
    /\ Goto(b, "added")
    /\ UNCHANGED <<mgrVars, group, connVars, sockVars, status>>

AnnounceOnline(b) ==
    /\ pc[b] = "added" /\ Idle(b)
    /\ Announce(b, announcePresence(AllPhones(grp[group[b]]), BridgeID[b], "bridge_online"))
    /\ Goto(b, "online")
    /\ UNCHANGED <<mgrVars, grp, group, connVars, sockVars, displaced, status>>

\* The connected report gets its timestamp here and is sent by a goroutine.
ReportConnected(b) ==
    /\ pc[b] = "online" /\ Idle(b)
    /\ status' = [status EXCEPT ![User[b]][BridgeID[b]] = "connected"]
    /\ Goto(b, "serving")
    /\ UNCHANGED <<mgrVars, grp, group, connVars, writeVars, sockVars, displaced>>

AddPhone(p) ==
    LET g == grp[group[p]]
        target == targetLocked(g.Bridges, ConnectedAt, p)
    IN
    /\ pc[p] = "joined" /\ p \in PhoneConns
    /\ ~PhonesFull(g)
    /\ \E id \in ConnIDs :
        /\ assignConnIDLocked(g, id)
        /\ grp' = [grp EXCEPT ![group[p]].Phones[id] = p,
                              ![group[p]].NextConnID = NextAfter(id)]
        /\ ConnID' = [ConnID EXCEPT ![p] = id]
        /\ Announce(p, {IF target = nil
                        THEN <<ToPhone(p, "bridge_disconnected", BridgeID[p])>>
                        ELSE <<ToBridge(target, "phone_connected", id),
                               ToPhone(p, "bridge_connected", BridgeID[target])>>})
    /\ Goto(p, "serving")
    /\ UNCHANGED <<mgrVars, group, ConnectedAt, clock, sockVars, displaced, status>>

-------------------------------------------------------------------------------
(* Writing *)

\* A failed write is forgotten and the peer stays (a mutant of WriteNext).
WriteNextOrSkip(c) ==
    \E s \in IF out[c] # <<>> THEN {out[c]} ELSE jobs[c] :
        /\ out' = [out EXCEPT ![c] = Tail(s)]
        /\ jobs' = [jobs EXCEPT ![c] = IF out[c] # <<>> THEN @ ELSE @ \ {s}]
        /\ \/ /\ sock[Head(s).to] = "open"
              /\ client' = [client EXCEPT ![Head(s).to] = Received(Head(s))]
              /\ UNCHANGED sock
           \/ UNCHANGED sockVars
        /\ UNCHANGED <<pc, mgrVars, grp, group, connVars, displaced, status>>

\* One call of writeOrDrop: delivered, or the peer is (or already was) closed.
WriteNext(c) ==
    \E s \in IF out[c] # <<>> THEN {out[c]} ELSE jobs[c] :
        /\ out' = [out EXCEPT ![c] = Tail(s)]
        /\ jobs' = [jobs EXCEPT ![c] = IF out[c] # <<>> THEN @ ELSE @ \ {s}]
        /\ \/ /\ sock[Head(s).to] = "open"
              /\ client' = [client EXCEPT ![Head(s).to] = Received(Head(s))]
              /\ UNCHANGED sock
           \/ HangUp(Head(s).to)
        /\ UNCHANGED <<pc, mgrVars, grp, group, connVars, displaced, status>>

-------------------------------------------------------------------------------
(* Read loops *)

Reading(c) == pc[c] = "serving" /\ Idle(c) /\ sock[c] = "open" /\ c \in Talkers

\* A frame for connID 0 goes to every phone of the bridge, else to one.
BridgeFrame(b) ==
    /\ Reading(b) /\ b \in BridgeConns
    /\ \E k \in ConnIDs :
        LET g == grp[group[b]]
            targets == IF k = 0 THEN PhonesTargeting(g, ConnectedAt, b)
                       ELSE PhoneTargeting(g, ConnectedAt, b, k)
        IN  /\ targets # {}
            /\ Announce(b, {<<DataFrame(b, p, 0)>> : p \in targets})
    /\ UNCHANGED <<pc, mgrVars, grp, group, connVars, sockVars, displaced, status>>

PhoneFrame(p) ==
    LET bridge == BridgeForPhone(grp[group[p]], ConnectedAt, p, ConnID[p]) IN
    /\ Reading(p) /\ p \in PhoneConns
    /\ bridge # nil
    /\ Announce(p, {<<DataFrame(p, bridge, ConnID[p])>>})
    /\ UNCHANGED <<pc, mgrVars, grp, group, connVars, sockVars, displaced, status>>

-------------------------------------------------------------------------------
(* Leaving: the deferred cleanup that runs once Read has failed *)

Leaving(c) == pc[c] = "serving" /\ Idle(c) /\ sock[c] = "closed"

\* A connection that is not current is reported as gone all the same (a mutant
\* of RemoveBridge).
RemoveBridgeReporting(b) ==
    LET g == grp[group[b]]
        after == [g.Bridges EXCEPT ![BridgeID[b]] = nil]
    IN
    /\ Leaving(b) /\ b \in BridgeConns
    /\ IF Current(b)
       THEN /\ grp' = [grp EXCEPT ![group[b]].Bridges = after]
            /\ Announce(b, {announceTargetChanges(ch) :
                                ch \in changeBridgesLocked(g, after, ConnectedAt)})
            /\ Goto(b, "removed")
       ELSE /\ Goto(b, "offline")
            /\ UNCHANGED <<grp, writeVars>>
    /\ UNCHANGED <<mgrVars, group, connVars, sockVars, displaced, status>>

RemoveBridge(b) ==
    LET g == grp[group[b]]
        after == [g.Bridges EXCEPT ![BridgeID[b]] = nil]
    IN
    /\ Leaving(b) /\ b \in BridgeConns
    /\ IF Current(b)
       THEN /\ grp' = [grp EXCEPT ![group[b]].Bridges = after]
            /\ Announce(b, {announceTargetChanges(ch) :
                                ch \in changeBridgesLocked(g, after, ConnectedAt)})
            /\ Goto(b, "removed")
       ELSE /\ Goto(b, "cleanup")
            /\ UNCHANGED <<grp, writeVars>>
    /\ UNCHANGED <<mgrVars, group, connVars, sockVars, displaced, status>>

\* Replaced already, maybe in a newer group: stay silent.
HasLiveBridgeWithID(u, id) ==
    registry[u] # nil /\ grp[registry[u]].Bridges[id] # nil

CheckReplaced(b) ==
    /\ pc[b] = "removed" /\ Idle(b)
    /\ mgrLock = nil
    /\ Goto(b, IF HasLiveBridgeWithID(User[b], BridgeID[b]) THEN "cleanup" ELSE "vanishing")
    /\ UNCHANGED <<mgrVars, grp, group, connVars, writeVars, sockVars, displaced, status>>

\* Only the phones of the bridge are told (a mutant of AnnounceOffline).
AnnounceOfflineToTargets(b) ==
    /\ pc[b] = "vanishing"
    /\ Announce(b, announcePresence(PhonesTargeting(grp[group[b]], ConnectedAt, b),
                                    BridgeID[b], "bridge_offline"))
    /\ Goto(b, "offline")
    /\ UNCHANGED <<mgrVars, grp, group, connVars, sockVars, displaced, status>>

AnnounceOffline(b) ==
    /\ pc[b] = "vanishing"
    /\ Announce(b, announcePresence(AllPhones(grp[group[b]]), BridgeID[b], "bridge_offline"))
    /\ Goto(b, "offline")
    /\ UNCHANGED <<mgrVars, grp, group, connVars, sockVars, displaced, status>>

ReportDisconnected(b) ==
    /\ pc[b] = "offline" /\ Idle(b)
    /\ status' = [status EXCEPT ![User[b]][BridgeID[b]] = "disconnected"]
    /\ Goto(b, "cleanup")
    /\ UNCHANGED <<mgrVars, grp, group, connVars, writeVars, sockVars, displaced>>

\* Deletes its map entry by key, without looking at who is registered there.
RemovePhone(p) ==
    LET g == grp[group[p]]
        bridge == targetLocked(g.Bridges, ConnectedAt, p)
    IN
    /\ Leaving(p) /\ p \in PhoneConns
    /\ grp' = [grp EXCEPT ![group[p]].Phones[ConnID[p]] = nil]
    /\ Announce(p, IF bridge = nil THEN {}
                   ELSE {<<ToBridge(bridge, "phone_disconnected", ConnID[p])>>})
    /\ Goto(p, "cleanup")
    /\ UNCHANGED <<mgrVars, group, connVars, sockVars, displaced, status>>

\* A group its handler did not create is left to others (a mutant of
\* RemoveGroupIfEmpty).
RemoveOwnGroupIfEmpty(c) ==
    /\ pc[c] = "cleanup" /\ Idle(c)
    /\ mgrLock = nil
    /\ IF registry[User[c]] = c /\ IsEmpty(grp[c])
       THEN mgrLock' = c /\ Goto(c, "deleting") /\ UNCHANGED group
       ELSE Return(c) /\ UNCHANGED mgrLock
    /\ UNCHANGED <<registry, grp, connVars, writeVars, sockVars, displaced, status>>

\* IsEmpty holds the group's mutex only while it looks; the manager's mutex
\* stays locked until the delete.
RemoveGroupIfEmpty(c) ==
    /\ pc[c] = "cleanup" /\ Idle(c)
    /\ mgrLock = nil
    /\ IF registry[User[c]] = group[c] /\ IsEmpty(grp[group[c]])
       THEN mgrLock' = c /\ Goto(c, "deleting") /\ UNCHANGED group
       ELSE Return(c) /\ UNCHANGED mgrLock
    /\ UNCHANGED <<registry, grp, connVars, writeVars, sockVars, displaced, status>>

DeleteGroup(c) ==
    /\ pc[c] = "deleting"
    /\ registry' = [registry EXCEPT ![User[c]] = nil]
    /\ mgrLock' = nil
    /\ Return(c)
    /\ UNCHANGED <<grp, connVars, writeVars, sockVars, displaced, status>>

-------------------------------------------------------------------------------
(* Other goroutines and the clients *)

\* The displaced connection is closed only if still current, which it never is
\* (a mutant of CloseDisplaced).
CloseDisplacedIfCurrent(b) ==
    /\ b \in displaced /\ sock[b] = "open"
    /\ group[b] # nil /\ Current(b)
    /\ HangUp(b)
    /\ UNCHANGED <<pc, mgrVars, grp, group, connVars, writeVars, displaced, status>>

\* Close(4007) followed by Cancel, in a goroutine of the bridge that took over.
CloseDisplaced(b) ==
    /\ b \in displaced /\ sock[b] = "open"
    /\ HangUp(b)
    /\ UNCHANGED <<pc, mgrVars, grp, group, connVars, writeVars, displaced, status>>

\* The auth server answers the connected report with a 404: close the bridge.
\* Any other answer, a timeout and a transport error change nothing.
Revoke(b) ==
    /\ pc[b] = "serving" /\ b \in BridgeConns /\ sock[b] = "open"
    /\ HangUp(b)
    /\ UNCHANGED <<pc, mgrVars, grp, group, connVars, writeVars, displaced, status>>

\* The client leaves, the network breaks, or a ping goes unanswered.  Before the
\* connection is in its group nobody could tell.
Drop(c) ==
    /\ pc[c] \in InGroup /\ sock[c] = "open"
    /\ HangUp(c)
    /\ UNCHANGED <<pc, mgrVars, grp, group, connVars, writeVars, displaced, status>>

-------------------------------------------------------------------------------
\* A step of a goroutine that the code takes without waiting for a client.
HandlerStep(c) ==
    \/ NewBridgeConnection(c) \/ RejectFull(c)
    \/ AddBridge(c) \/ AnnounceOnline(c) \/ ReportConnected(c)
    \/ AddPhone(c)
    \/ WriteNext(c)
    \/ RemoveBridge(c) \/ CheckReplaced(c) \/ AnnounceOffline(c) \/ ReportDisconnected(c)
    \/ RemovePhone(c)
    \/ RemoveGroupIfEmpty(c) \/ DeleteGroup(c)

\* A step that a client, the network or the auth server decides on.
ClientStep(c) ==
    \/ GetOrCreateGroup(c)
    \/ BridgeFrame(c) \/ PhoneFrame(c)
    \/ Revoke(c) \/ Drop(c)

\* Every connection of the instance is over.
Finished == (\A c \in Conns : pc[c] = "done") /\ UNCHANGED vars

Next ==
    \/ \E c \in Conns : HandlerStep(c) \/ ClientStep(c) \/ CloseDisplaced(c)
    \/ Finished

(***************************************************************************)
(* Goroutines run, writes end by their deadline, the HTTP client times     *)
(* out.  Nothing makes a client connect, talk or leave.                    *)
(***************************************************************************)
Fairness == \A c \in Conns : WF_vars(HandlerStep(c)) /\ WF_vars(CloseDisplaced(c))

Spec == Init /\ [][Next]_vars /\ Fairness

(***************************************************************************)
(* The same system with one handler at work at a time: a handler that left *)
(* its read loop (or has not reached it) finishes its critical sections    *)
(* and announcements before another one moves.  This is what a sequential  *)
(* test sees; it separates what the announcement algorithm gets right from *)
(* what interleaving does to it.                                           *)
(***************************************************************************)
Busy(c) == pc[c] \notin {"start", "serving", "done"} \/ ~Idle(c)

SerialNext ==
    \/ \E c \in Conns :
        \/ /\ \A other \in Conns \ {c} : ~Busy(other)
           /\ HandlerStep(c) \/ ClientStep(c)
        \/ CloseDisplaced(c)
    \/ Finished

SerialSpec == Init /\ [][SerialNext]_vars

-------------------------------------------------------------------------------
(* Properties of every interleaving *)

\* Every variable has its type: handlers are in a known phase, registered
\* pointers are connections, and pending writes are well-formed messages.
TypeOK ==
    /\ pc \in [Conns -> Phases]
    /\ registry \in [Users -> Ptr]
    /\ mgrLock \in Ptr
    /\ grp \in [Conns -> Group]
    /\ group \in [Conns -> Ptr]
    /\ ConnID \in [Conns -> ConnIDs]
    /\ ConnectedAt \in [Conns -> Nat]
    /\ clock \in Nat
    /\ jobs \in [Conns -> SUBSET (Seq(Write) \ {<<>>})]
    /\ out \in [Conns -> Seq(Write)]
    /\ sock \in [Conns -> {"open", "closed"}]
    /\ displaced \in SUBSET Conns
    /\ status \in [Users -> [BridgeIDs -> {"unknown", "connected", "disconnected"}]]
    /\ client \in [Conns -> Client]

\* An entry of a Bridges map is a bridge between its AddBridge and RemoveBridge,
\* in this group and under its own id, that nobody displaced.
BridgeEntry(g, id) ==
    LET b == grp[g].Bridges[id] IN
    b # nil => /\ b \in BridgeConns /\ BridgeID[b] = id
               /\ group[b] = g /\ pc[b] \in InGroup
               /\ b \notin displaced

\* An entry of a Phones map is a phone between its AddPhone and RemovePhone, in
\* this group and under its own connId, which is not the broadcast address.
PhoneEntry(g, k) ==
    LET p == grp[g].Phones[k] IN
    p # nil => /\ p \in PhoneConns /\ ConnID[p] = k /\ k # 0
               /\ group[p] = g /\ pc[p] = "serving"

\* Map entries and handlers agree.  An entry belongs to a handler that is still
\* serving it; a phone keeps its entry for that whole time, so RemovePhone's
\* unconditional delete (account_group.go:221) can only hit its own; a bridge
\* keeps its entry until a same-id reconnect takes it over, and the old
\* handler's late RemoveBridge leaves the new one's entry alone.
SlotOwned ==
    /\ \A g \in Conns, id \in BridgeIDs : BridgeEntry(g, id)
    /\ \A g \in Conns, k \in ConnIDs : PhoneEntry(g, k)
    /\ \A p \in PhoneConns :
         pc[p] = "serving" => group[p] # nil /\ grp[group[p]].Phones[ConnID[p]] = p
    /\ \A b \in BridgeConns :
         pc[b] \in InGroup /\ b \notin displaced => group[b] # nil /\ Current(b)

\* No group holds more bridges or phones than its caps (account_group.go:122
\* and 204), whatever handlers race for the last place.
CapsHold ==
    \A g \in Conns :
        /\ Cardinality(Online(grp[g].Bridges)) <= MaxBridges
        /\ Cardinality(UsedConnIDs(grp[g])) <= MaxPhones

\* README: "Group is torn down when all connections close".  Once no handler
\* of an account is at work its group is gone from the manager, although a
\* handler rejected by a full account returns without cleaning up and a
\* cleanup that finds the group in use leaves it to others.
TornDown ==
    \A u \in Users :
        (\A c \in Conns : User[c] = u => pc[c] \in {"start", "done"}) => registry[u] = nil

\* Data never crosses accounts: whatever a client received was sent by a
\* connection of its own account, also through groups that were deleted and
\* recreated in between.
AccountIsolation == \A c \in Conns : \A s \in client[c].heard : s # nil /\ User[s] = User[c]

\* Data goes between phones and bridges only, and a pinned phone exchanges it
\* with no bridge but its own (handler.go:372, PhoneTargeting).
PinIsolation ==
    \A c \in Conns : \A s \in client[c].heard :
        /\ (s \in BridgeConns) # (c \in BridgeConns)
        /\ LET phone == IF c \in BridgeConns THEN s ELSE c
                bridge == IF c \in BridgeConns THEN c ELSE s
           IN  BridgeID[phone] # NoID => BridgeID[phone] = BridgeID[bridge]

\* "A connection displaced by a same-id reconnect ... changes nothing and
\* reports nothing" (handler.go:308): it never reaches the phases that
\* announce or report a bridge as gone.
DisplacedSilent ==
    \A b \in BridgeConns :
        b \in displaced => pc[b] \notin {"removed", "vanishing", "offline"}

\* "A connection displaced by a same-id reconnect reaches none" (handler.go:373):
\* once another connection has its id, it starts no more data writes; only
\* those it looked up before the takeover may still go out.
DisplacedRelaysNothing ==
    [][\A b \in displaced : \A s \in jobs'[b] \ jobs[b] : s[1].type # "data"]_vars

\* AddPhone's loop (account_group.go:207), which runs with the group locked,
\* always finds a connId: it never spins in a group that is not full.
ConnIDAvailable ==
    \A g \in Conns : PhonesFull(grp[g]) \/ \E id \in ConnIDs : assignConnIDLocked(grp[g], id)

\* A handler ends once its socket is closed, by its client, a failed write or a
\* revocation, or once its connection is displaced: its cleanup waits for the
\* manager's lock, a peer or another handler for a while at most.  A socket
\* stays closed, a connection displaced and a handler done, so that from some
\* point on every such handler has returned.
HandlersEnd ==
    <>[](\A c \in Conns : sock[c] = "closed" \/ c \in displaced => pc[c] = "done")

\* The part of the state that Membership speaks of.  A connection is in its room
\* from AddBridge or AddPhone to RemoveBridge or RemovePhone; data is on its way
\* from the lookup of its receivers to the write.
Writes(s) == {s[i] : i \in DOMAIN s}
Pending(c) == UNION {Writes(s) : s \in jobs[c] \cup {out[c]}}

Life(c) ==
    CASE pc[c] \in {"start", "joined", "stamped"} -> "outside"
      [] pc[c] \in InGroup -> IF c \in displaced THEN "displaced" ELSE "member"
      [] OTHER -> "gone"

Lives == [c \in Conns |-> Life(c)]
Room == [c \in Conns |-> IF pc[c] \in InGroup THEN group[c] ELSE nil]
Flight == {<<w.from, w.to>> : w \in {v \in UNION {Pending(c) : c \in Conns} : v.type = "data"}}
Heard == [c \in Conns |-> client[c].heard]

Promise == INSTANCE Membership WITH
        life <- Lives, room <- Room, line <- sock, flight <- Flight, heard <- Heard

\* The handlers, with their lookups under one lock and writes after it, do
\* nothing that Membership does not allow: in particular a lookup that races a
\* takeover (handler.go:378, account_group.go:178) still sends from a member to
\* members of the room it is in, and data is lost only with its receiver
\* (writeOrDrop).
ImplementsMembership == Promise!Spec

-------------------------------------------------------------------------------
(* What clients and the auth server know once nothing is left to announce *)

Quiet == \A c \in Conns : ~Busy(c)

Serving(c) == pc[c] = "serving" /\ sock[c] = "open"

\* The last notice of a phone is about the bridge its frames go to: README,
\* "bridge_connected ... bridgeId names the new target" and
\* "bridge_disconnected ... The phone has no target bridge".
NoticeMatchesTarget ==
    Quiet => \A p \in PhoneConns : Serving(p) =>
        LET target == targetLocked(grp[group[p]].Bridges, ConnectedAt, p) IN
        IF target # nil
        THEN client[p].notice = [type |-> "bridge_connected", id |-> BridgeID[target]]
        ELSE /\ client[p].notice.type = "bridge_disconnected"
             /\ BridgeID[p] # NoID => client[p].notice.id = BridgeID[p]

\* phone_connected and phone_disconnected leave a bridge with exactly the
\* phones that talk to it.
RosterMatchesTargets ==
    Quiet => \A b \in BridgeConns : Serving(b) /\ Current(b) =>
        client[b].roster = {ConnID[p] : p \in PhonesTargeting(grp[group[b]], ConnectedAt, b)}

\* A phone that was told anything about the presence of a bridge was last told
\* the truth, also when the bridge is not its target (handler.go:480).
PresenceMatchesLive ==
    Quiet => \A p \in PhoneConns, id \in BridgeIDs :
        Serving(p) /\ client[p].presence[id] # "unknown" =>
            (client[p].presence[id] = "bridge_online" <=> grp[group[p]].Bridges[id] # nil)

\* The newest status the auth server holds of a live bridge is "connected":
\* "the old handler's late teardown must not mark that live bridge offline in
\* the auth server" (group_manager.go:56).
LiveBridgeReportedOnline ==
    Quiet => \A u \in Users, id \in BridgeIDs :
        HasLiveBridgeWithID(u, id) => status[u][id] = "connected"

Members(g) == LiveBridges(grp[g].Bridges) \cup AllPhones(grp[g])

\* All members of an account are in the group the manager has for it: README,
\* "Relay extracts userId from each JWT and groups connections by account".
OneGroupPerAccount ==
    \A g \in Conns : Members(g) # {} => registry[User[g]] = g
===============================================================================
