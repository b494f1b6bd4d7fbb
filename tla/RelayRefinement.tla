---------------------------- MODULE RelayRefinement ----------------------------
(***************************************************************************)
(* Module Relay implements module Membership, for any set of connections,  *)
(* accounts, bridge ids and any limits.                                    *)
(***************************************************************************)
EXTENDS RelayProofs, SequenceTheorems

-------------------------------------------------------------------------------
(* The invariant that the mapping to Membership needs besides IInv *)

Outside == {"start", "joined", "stamped"}
Gone == Phases \ (Outside \cup InGroup)

\* What the handler of c writes for a frame it read: one data message from c.
DataJob(c, s) ==
    s \in Seq(Write) /\ Len(s) = 1 /\ s[1].type = "data" /\ s[1].from = c

\* Data is written in messages of its own, and never inside an announcement.
JobsFit(js, o) ==
    /\ \A c \in Conns : o[c] \in Seq(ControlWrite(Conns))
    /\ \A c \in Conns : \A s \in js[c] : s \in Seq(ControlWrite(Conns)) \/ DataJob(c, s)

\* A handler with data to write is in its read loop, and has one message for
\* each receiver.
DataInLoop ==
    \A c \in Conns : \A s \in jobs[c] : DataJob(c, s) =>
        /\ pc[c] = "serving"
        /\ \A t \in jobs[c] : DataJob(c, t) /\ t[1].to = s[1].to => t = s

\* Nobody writes to a connection before it is in its group.
WritesArrive ==
    \A c \in Conns : \A s \in jobs[c] \cup {out[c]} :
        \A i \in DOMAIN s : pc[s[i].to] \notin Outside

\* A handler leaves its group with its socket closed, and the client behind a
\* closed socket is gone with all it had received.
LinesCut ==
    \A c \in Conns :
        /\ pc[c] \in Gone => sock[c] = "closed"
        /\ sock[c] = "closed" => client[c].heard = {}

RInv == JobsFit(jobs, out) /\ DataInLoop /\ WritesArrive /\ LinesCut

-------------------------------------------------------------------------------
(* The invariant holds *)

\* How a step changes phases: only that of the handler that takes it, never back
\* to before it was in its group, not away from data it has to write, and out of
\* its group only with its socket closed.
Advance(c) ==
    /\ \A x \in Conns : x # c => pc'[x] = pc[x]
    /\ pc'[c] = pc[c] \/ pc[c] # "serving" \/ Idle(c)
    /\ pc[c] \notin Outside => pc'[c] \notin Outside
    /\ pc'[c] \in Gone => pc[c] \in Gone \/ sock'[c] = "closed"

\* How a step changes sockets and what clients received.
CutsLines ==
    \A x \in Conns :
        /\ sock[x] = "closed" => sock'[x] = "closed"
        /\ sock'[x] = "closed" => client'[x].heard = {}

\* Every handler goes forward.
LEMMA Advances ==
    ASSUME IInv, NEW c \in Conns, HandlerStep(c) \/ ClientStep(c) \/ CloseDisplaced(c)
    PROVE  Advance(c)
  <1> USE DEF Goto, Return, Outside, Gone, InGroup, Phases
  <1>1. pc \in [Conns -> Phases] /\ sock \in [Conns -> {"open", "closed"}]
    BY DEF IInv, Structure, StructureTypes, OtherTypes
  <1>2. CASE \/ WriteNext(c) \/ BridgeFrame(c) \/ PhoneFrame(c) \/ CloseDisplaced(c)
             \/ Revoke(c) \/ Drop(c)
    <2>1. pc' = pc
      BY <1>2 DEF WriteNext, BridgeFrame, PhoneFrame, CloseDisplaced, Revoke, Drop
    <2> QED BY <2>1 DEF Advance
  <1>3. CASE \/ GetOrCreateGroup(c) \/ NewBridgeConnection(c) \/ AddBridge(c)
             \/ AnnounceOnline(c) \/ ReportConnected(c) \/ AddPhone(c)
    BY <1>1, <1>3 DEF GetOrCreateGroup, NewBridgeConnection, AddBridge, AnnounceOnline,
                      ReportConnected, AddPhone, Advance
  <1>4. CASE \/ CheckReplaced(c) \/ AnnounceOffline(c) \/ ReportDisconnected(c)
             \/ RemoveGroupIfEmpty(c) \/ DeleteGroup(c)
    BY <1>1, <1>4 DEF CheckReplaced, AnnounceOffline, ReportDisconnected, RemoveGroupIfEmpty,
                      DeleteGroup, Advance
  <1>5. CASE RejectFull(c)
    BY <1>1, <1>5 DEF RejectFull, HangUp, Advance
  <1>6. CASE RemoveBridge(c) \/ RemovePhone(c)
    BY <1>1, <1>6 DEF RemoveBridge, RemovePhone, Leaving, sockVars, Advance
  <1> QED BY <1>2, <1>3, <1>4, <1>5, <1>6 DEF HandlerStep, ClientStep

\* A handler outside its read loop, or idle in it, has no data to write.
LEMMA NoData ==
    ASSUME DataInLoop, NEW c \in Conns, pc[c] # "serving" \/ Idle(c)
    PROVE  \A s \in jobs[c] : ~DataJob(c, s)
  BY DEF DataInLoop, Idle

\* Every write goes to a connection.
LEMMA JobsTyped ==
    ASSUME NEW js, NEW o, JobsFit(js, o), NEW c \in Conns, NEW s \in js[c] \cup {o[c]}
    PROVE  s \in Seq(Write) /\ \A i \in DOMAIN s : s[i] \in Write /\ s[i].to \in Conns
  <1>1. ControlWrite(Conns) \subseteq Write
    BY DEF ControlWrite
  <1>2. s \in Seq(ControlWrite(Conns)) \/ DataJob(c, s)
    BY DEF JobsFit
  <1>3. s \in Seq(Write)
    BY <1>1, <1>2 DEF DataJob
  <1>4. \A i \in DOMAIN s : s[i] \in Write
    BY <1>3
  <1>5. \A w \in Write : w.to \in Conns
    BY DEF Write
  <1> QED BY <1>3, <1>4, <1>5

\* A step that begins no write and ends none.
LEMMA WritesKept ==
    ASSUME RInv, NEW c \in Conns, Advance(c), UNCHANGED <<jobs, out>>
    PROVE  JobsFit(jobs', out') /\ DataInLoop' /\ WritesArrive'
  <1>1. JobsFit(jobs', out')
    BY DEF RInv
  <1>2. DataInLoop'
    BY NoData DEF RInv, DataInLoop, Advance
  <1>3. \A x \in Conns : pc[x] \notin Outside => pc'[x] \notin Outside
    BY DEF Advance
  <1>4. ASSUME NEW x \in Conns, NEW s \in jobs'[x] \cup {out'[x]}, NEW i \in DOMAIN s
        PROVE  pc'[s[i].to] \notin Outside
    <2>1. s[i].to \in Conns
      BY JobsTyped DEF RInv
    <2>2. pc[s[i].to] \notin Outside
      BY DEF RInv, WritesArrive
    <2> QED BY <1>3, <2>1, <2>2
  <1> QED BY <1>1, <1>2, <1>4 DEF WritesArrive

\* A step that begins to write something: control messages or data to connections
\* that are in their group.
LEMMA WritesBegun ==
    ASSUME RInv, NEW c \in Conns, Advance(c), NEW sequences, out' = out,
           jobs \in [Conns -> SUBSET (Seq(SafeWrite) \ {<<>>})],
           jobs' = [jobs EXCEPT ![c] = sequences],
           \A s \in sequences :
              \/ s \in Seq(ControlWrite(Conns))
              \/ /\ DataJob(c, s) /\ pc'[c] = "serving"
                 /\ \A t \in sequences : DataJob(c, t) /\ t[1].to = s[1].to => t = s,
           \A s \in sequences : \A i \in DOMAIN s : pc'[s[i].to] \notin Outside
    PROVE  JobsFit(jobs', out') /\ DataInLoop' /\ WritesArrive'
  <1>1. \A x \in Conns : jobs'[x] = IF x = c THEN sequences ELSE jobs[x]
    OBVIOUS
  <1>2. JobsFit(jobs', out')
    BY <1>1 DEF RInv, JobsFit
  <1>3. \A s \in Seq(ControlWrite(Conns)) : ~DataJob(c, s)
    <2> SUFFICES ASSUME NEW s \in Seq(ControlWrite(Conns)), DataJob(c, s)
                 PROVE  FALSE
      OBVIOUS
    <2>1. s[1] \in ControlWrite(Conns)
      BY DEF DataJob
    <2> QED BY <2>1 DEF DataJob, ControlWrite
  <1>4. DataInLoop'
    <2> SUFFICES ASSUME NEW x \in Conns, NEW s \in jobs'[x], DataJob(x, s)
                 PROVE  /\ pc'[x] = "serving"
                        /\ \A t \in jobs'[x] : DataJob(x, t) /\ t[1].to = s[1].to => t = s
      BY DEF DataInLoop
    <2>1. CASE x = c
      BY <1>1, <1>3, <2>1
    <2>2. CASE x # c
      BY <1>1, <2>2 DEF RInv, DataInLoop, Advance
    <2> QED BY <2>1, <2>2
  <1>5. \A x \in Conns : pc[x] \notin Outside => pc'[x] \notin Outside
    BY DEF Advance
  <1>6. ASSUME NEW x \in Conns, NEW s \in jobs'[x] \cup {out'[x]}, NEW i \in DOMAIN s
        PROVE  pc'[s[i].to] \notin Outside
    <2>1. s[i].to \in Conns
      BY <1>2, JobsTyped
    <2>2. CASE x = c /\ s \in sequences
      BY <2>2
    <2>3. CASE s \in jobs[x] \cup {out[x]}
      BY <1>5, <2>1, <2>3 DEF RInv, WritesArrive
    <2> QED BY <1>1, <2>2, <2>3
  <1> QED BY <1>2, <1>4, <1>6 DEF WritesArrive

\* An announcement.
LEMMA WritesAnnounced ==
    ASSUME IInv, RInv, NEW c \in Conns, Advance(c), Announces(c), pc'[c] \notin Outside
    PROVE  JobsFit(jobs', out') /\ DataInLoop' /\ WritesArrive'
  <1>1. CASE UNCHANGED writeVars
    BY <1>1, WritesKept DEF writeVars
  <1>2. CASE ~UNCHANGED writeVars
    <2>1. PICK sequences \in SUBSET (Seq(ControlWrite(Present(c))) \ {<<>>}) :
              jobs' = [jobs EXCEPT ![c] = sequences] /\ out' = out
      BY <1>2 DEF Announces, Announce
    <2>2. ControlWrite(Present(c)) \subseteq ControlWrite(Conns)
      BY DEF ControlWrite, Present
    <2>3. \A s \in sequences : s \in Seq(ControlWrite(Present(c)))
      BY <2>1
    <2>4. \A s \in sequences : s \in Seq(ControlWrite(Conns))
      BY <2>2, <2>3
    <2>5. \A x \in Present(c) : pc'[x] \notin Outside
      BY DEF Present, Advance, Outside, InGroup
    <2>6. ASSUME NEW s \in sequences, NEW i \in DOMAIN s
          PROVE  pc'[s[i].to] \notin Outside
      <3>1. s[i] \in ControlWrite(Present(c))
        BY <2>3
      <3> QED BY <2>5, <3>1 DEF ControlWrite
    <2>7. jobs \in [Conns -> SUBSET (Seq(SafeWrite) \ {<<>>})]
      BY DEF IInv, Traffic
    <2> QED BY <2>1, <2>4, <2>6, <2>7, WritesBegun
  <1> QED BY <1>1, <1>2

\* Who a frame goes to: peers that are members of the sender's group, and the
\* sender is one itself.
LEMMA FrameReceivers ==
    ASSUME Structure, NEW c \in Conns, BridgeFrame(c) \/ PhoneFrame(c)
    PROVE  /\ pc[c] = "serving" /\ Idle(c) /\ sock[c] = "open" /\ c \notin displaced
           /\ group[c] \in Conns
           /\ UNCHANGED <<pc, group, displaced, sock, client, out>>
           /\ \E k \in ConnIDs : \E receivers \in SUBSET Conns :
                /\ jobs' = [jobs EXCEPT ![c] = {<<DataFrame(c, d, k)>> : d \in receivers}]
                /\ c \notin BridgeConns => \E d : receivers = {d}
                /\ \A d \in receivers : /\ Peers(c, d) /\ group[d] = group[c]
                                        /\ pc[d] \in InGroup /\ d \notin displaced
  <1>1. /\ pc[c] = "serving" /\ Idle(c) /\ sock[c] = "open"
        /\ UNCHANGED <<pc, group, displaced, sock, client, out>>
    BY DEF BridgeFrame, PhoneFrame, Reading, sockVars, Announce
  <1>2. c \notin displaced
    BY SenderIsMember
  <1>3. group[c] # nil /\ group[c] \in Conns /\ ConnID[c] \in ConnIDs
    BY <1>1 DEF Structure, StructureTypes, HandlersHoldGroups, Ptr
  <1> DEFINE g == grp[group[c]]
  <1>4. CASE BridgeFrame(c)
    <2>1. PICK k \in ConnIDs :
              jobs' = [jobs EXCEPT ![c] = {<<DataFrame(c, p, 0)>> :
                p \in IF k = 0 THEN PhonesTargeting(g, ConnectedAt, c)
                      ELSE PhoneTargeting(g, ConnectedAt, c, k)}]
      BY <1>4 DEF BridgeFrame, Announce
    <2> DEFINE targets == IF k = 0 THEN PhonesTargeting(g, ConnectedAt, c)
                          ELSE PhoneTargeting(g, ConnectedAt, c, k)
    <2>2. ASSUME NEW p \in targets
          PROVE  /\ p \in Conns /\ Peers(c, p) /\ group[p] = group[c]
                 /\ pc[p] \in InGroup /\ p \notin displaced
      <3>1. PICK j \in ConnIDs : p = g.Phones[j] /\ p # nil
        BY <2>2 DEF PhonesTargeting, PhoneTargeting, AllPhones, UsedConnIDs
      <3>2. targetLocked(g.Bridges, ConnectedAt, p) = c /\ p \in AllPhones(g)
        BY <2>2, <3>1 DEF PhonesTargeting, PhoneTargeting, AllPhones, UsedConnIDs
      <3>3. PhoneEntry(group[c], j)
        BY <1>3 DEF Structure, SlotOwned
      <3>4. p \in PhoneConns /\ group[p] = group[c] /\ pc[p] = "serving"
        BY <3>1, <3>3 DEF PhoneEntry
      <3>5. p \in Conns /\ p \notin displaced /\ pc[p] \in InGroup
        BY <3>4 DEF PhoneConns, InGroup, Structure, DisplacedPhases
      <3>6. User[p] = User[c] /\ c # nil
        BY <1>3, <3>2, SameAccount, ConnsAssumption
      <3>7. Peers(c, p)
        BY <1>3, <3>2, <3>4, <3>6, TargetIsPeer
      <3> QED BY <3>4, <3>5, <3>7
    <2>3. c \in BridgeConns /\ 0 \in ConnIDs
      BY <1>4, LimitsAssumption DEF BridgeFrame, ConnIDs
    <2>4. targets \in SUBSET Conns
      BY <2>2
    <2> HIDE DEF targets
    <2>5. jobs' = [jobs EXCEPT ![c] = {<<DataFrame(c, d, 0)>> : d \in targets}]
      BY <2>1 DEF targets
    <2> QED BY <1>1, <1>2, <1>3, <2>2, <2>3, <2>4, <2>5
  <1>5. CASE PhoneFrame(c)
    <2>1. PICK b : b = BridgeForPhone(g, ConnectedAt, c, ConnID[c])
      OBVIOUS
    <2>2. /\ c \in PhoneConns /\ b # nil
          /\ jobs' = [jobs EXCEPT ![c] = {<<DataFrame(c, b, ConnID[c])>>}]
      BY <1>5, <2>1 DEF PhoneFrame, Announce
    <2>3. b = targetLocked(g.Bridges, ConnectedAt, c)
      BY <2>1, <2>2 DEF BridgeForPhone
    <2>4. b \in BridgeConns /\ Peers(c, b)
      BY <1>3, <2>2, <2>3, TargetIsPeer
    <2>5. b \in LiveBridges(g.Bridges)
      <3>1. g.Bridges \in BridgeMap
        BY <1>3, SameAccount DEF Group
      <3> QED BY <2>2, <2>3, <3>1, TargetInMap
    <2>6. PICK id \in BridgeIDs : b = g.Bridges[id]
      BY <2>5 DEF LiveBridges, Online
    <2>7. BridgeEntry(group[c], id)
      BY <1>3 DEF Structure, SlotOwned
    <2>8. group[b] = group[c] /\ pc[b] \in InGroup /\ b \notin displaced
      BY <2>2, <2>6, <2>7 DEF BridgeEntry
    <2>9. b \in Conns
      BY <2>4, ConnsAssumption
    <2>10. {<<DataFrame(c, b, ConnID[c])>>} = {<<DataFrame(c, d, ConnID[c])>> : d \in {b}}
      OBVIOUS
    <2>11. jobs' = [jobs EXCEPT ![c] = {<<DataFrame(c, d, ConnID[c])>> : d \in {b}}]
      BY <2>2, <2>10
    <2>12. \A d \in {b} : /\ Peers(c, d) /\ group[d] = group[c]
                          /\ pc[d] \in InGroup /\ d \notin displaced
      BY <2>4, <2>8
    <2>13. {b} \in SUBSET Conns /\ \E d : {b} = {d}
      BY <2>9
    <2> QED BY <1>1, <1>2, <1>3, <2>11, <2>12, <2>13
  <1> QED BY <1>4, <1>5

\* The data of a frame.
LEMMA WritesFrame ==
    ASSUME IInv, RInv, NEW c \in Conns, Advance(c), BridgeFrame(c) \/ PhoneFrame(c)
    PROVE  JobsFit(jobs', out') /\ DataInLoop' /\ WritesArrive'
  <1>1. Structure /\ jobs \in [Conns -> SUBSET (Seq(SafeWrite) \ {<<>>})]
    BY DEF IInv, Traffic
  <1>2. PICK k \in ConnIDs, receivers \in SUBSET Conns :
            /\ jobs' = [jobs EXCEPT ![c] = {<<DataFrame(c, d, k)>> : d \in receivers}]
            /\ \A d \in receivers : pc[d] \in InGroup
    BY <1>1, FrameReceivers
  <1>3. pc[c] = "serving" /\ pc' = pc /\ out' = out
    BY <1>1, FrameReceivers
  <1> DEFINE sequences == {<<DataFrame(c, d, k)>> : d \in receivers}
  <1>4. ASSUME NEW s \in sequences
        PROVE  /\ DataJob(c, s)
               /\ \A t \in sequences : t[1].to = s[1].to => t = s
               /\ \A i \in DOMAIN s : s[i].to \in receivers
    <2>1. PICK d \in receivers : s = <<DataFrame(c, d, k)>>
      OBVIOUS
    <2>2. DataFrame(c, d, k) \in Write
      BY DEF DataFrame, Write, WriteTypes, Ptr
    <2>3. s \in Seq(Write) /\ Len(s) = 1 /\ s[1] = DataFrame(c, d, k) /\ DOMAIN s = {1}
      BY <2>1, <2>2
    <2>4. DataJob(c, s) /\ s[1].to = d
      BY <2>3 DEF DataJob, DataFrame
    <2>5. ASSUME NEW t \in sequences, t[1].to = s[1].to
          PROVE  t = s
      <3>1. PICK e \in receivers : t = <<DataFrame(c, e, k)>>
        OBVIOUS
      <3>2. t[1].to = e
        BY <3>1 DEF DataFrame
      <3> QED BY <2>1, <2>4, <2>5, <3>1, <3>2
    <2> QED BY <2>3, <2>4, <2>5
  <1>5. \A s \in sequences : \A i \in DOMAIN s : pc'[s[i].to] \notin Outside
    BY <1>2, <1>3, <1>4 DEF InGroup, Outside
  <1>6. jobs' = [jobs EXCEPT ![c] = sequences]
    BY <1>2
  <1> HIDE DEF sequences
  <1>7. \A s \in sequences :
            /\ DataJob(c, s) /\ pc'[c] = "serving"
            /\ \A t \in sequences : DataJob(c, t) /\ t[1].to = s[1].to => t = s
    BY <1>3, <1>4
  <1> QED BY <1>1, <1>3, <1>5, <1>6, <1>7, WritesBegun

\* One write: the next of the announcement under way, or the first of another.
LEMMA OneWrite ==
    ASSUME IInv, RInv, NEW c \in Conns, WriteNext(c)
    PROVE  \E s \in jobs[c] \cup {out[c]} :
             /\ s \in Seq(Write) /\ s # <<>>
             /\ out' = [out EXCEPT ![c] = Tail(s)]
             /\ \/ s \in Seq(ControlWrite(Conns)) /\ jobs' = jobs
                \/ s \in jobs[c] /\ jobs' = [jobs EXCEPT ![c] = @ \ {s}]
             /\ \/ /\ sock[s[1].to] = "open" /\ sock' = sock
                   /\ client' = [client EXCEPT ![s[1].to] = Received(s[1])]
                \/ HangUp(s[1].to)
             /\ UNCHANGED <<pc, group, displaced>>
  <1>1. PICK s \in IF out[c] # <<>> THEN {out[c]} ELSE jobs[c] :
            /\ out' = [out EXCEPT ![c] = Tail(s)]
            /\ jobs' = [jobs EXCEPT ![c] = IF out[c] # <<>> THEN @ ELSE @ \ {s}]
            /\ \/ /\ sock[Head(s).to] = "open" /\ sock' = sock
                  /\ client' = [client EXCEPT ![Head(s).to] = Received(Head(s))]
               \/ HangUp(Head(s).to)
            /\ UNCHANGED <<pc, group, displaced>>
    BY DEF WriteNext
  <1>2. /\ jobs \in [Conns -> SUBSET (Seq(SafeWrite) \ {<<>>})]
        /\ out[c] \in Seq(ControlWrite(Conns))
    BY DEF IInv, Traffic, RInv, JobsFit
  <1>3. s \in jobs[c] \cup {out[c]} /\ s # <<>>
    BY <1>1, <1>2
  <1>4. s \in Seq(Write)
    BY <1>3, JobsTyped DEF RInv
  <1>5. Head(s) = s[1]
    BY <1>3, <1>4
  <1>6. CASE out[c] # <<>>
    <2>1. s = out[c] /\ jobs' = jobs
      BY <1>1, <1>2, <1>6
    <2> QED BY <1>1, <1>2, <1>3, <1>4, <1>5, <2>1
  <1>7. CASE out[c] = <<>>
    <2>1. s \in jobs[c] /\ jobs' = [jobs EXCEPT ![c] = @ \ {s}]
      BY <1>1, <1>7
    <2> QED BY <1>1, <1>3, <1>4, <1>5, <2>1
  <1> QED BY <1>6, <1>7

\* After the first write of an announcement the rest is control messages; data is
\* a single write.
LEMMA RestIsControl ==
    ASSUME NEW c, NEW s \in Seq(Write), s # <<>>, s \in Seq(ControlWrite(Conns)) \/ DataJob(c, s)
    PROVE  /\ Tail(s) \in Seq(ControlWrite(Conns))
           /\ \A i \in DOMAIN Tail(s) : i + 1 \in DOMAIN s /\ Tail(s)[i] = s[i + 1]
  <1>1. CASE s \in Seq(ControlWrite(Conns))
    BY <1>1
  <1>2. CASE DataJob(c, s)
    <2>1. Tail(s) \in Seq(Write) /\ Len(Tail(s)) = 0
      BY <1>2 DEF DataJob
    <2>2. Tail(s) = <<>>
      BY <2>1, EmptySeq
    <2>3. <<>> \in Seq(ControlWrite(Conns)) /\ DOMAIN <<>> = {}
      OBVIOUS
    <2> QED BY <2>2, <2>3
  <1> QED BY <1>1, <1>2

\* writeOrDrop takes its message off the writes to be made and adds none.
LEMMA WritesOne ==
    ASSUME IInv, RInv, NEW c \in Conns, WriteNext(c)
    PROVE  JobsFit(jobs', out') /\ DataInLoop' /\ WritesArrive'
  <1>1. PICK s \in jobs[c] \cup {out[c]} :
            /\ s \in Seq(Write) /\ s # <<>>
            /\ out' = [out EXCEPT ![c] = Tail(s)]
            /\ jobs' = jobs \/ jobs' = [jobs EXCEPT ![c] = @ \ {s}]
            /\ pc' = pc
    BY OneWrite
  <1>2. /\ jobs \in [Conns -> SUBSET (Seq(SafeWrite) \ {<<>>})]
        /\ out \in [Conns -> Seq(SafeWrite)]
        /\ JobsFit(jobs, out)
    BY DEF IInv, Traffic, RInv
  <1>3. s \in Seq(ControlWrite(Conns)) \/ DataJob(c, s)
    BY <1>2 DEF JobsFit
  <1>4. /\ Tail(s) \in Seq(ControlWrite(Conns))
        /\ \A i \in DOMAIN Tail(s) : i + 1 \in DOMAIN s /\ Tail(s)[i] = s[i + 1]
    BY <1>1, <1>3, RestIsControl
  <1>5. /\ \A x \in Conns : jobs'[x] \subseteq jobs[x]
        /\ \A x \in Conns : out'[x] = IF x = c THEN Tail(s) ELSE out[x]
    BY <1>1, <1>2
  <1>6. JobsFit(jobs', out')
    BY <1>2, <1>4, <1>5 DEF JobsFit
  <1>7. DataInLoop'
    BY <1>1, <1>5 DEF RInv, DataInLoop
  <1>8. ASSUME NEW x \in Conns, NEW t \in jobs'[x] \cup {out'[x]}, NEW i \in DOMAIN t
        PROVE  pc'[t[i].to] \notin Outside
    <2>1. CASE t \in jobs[x] \cup {out[x]}
      BY <1>1, <2>1 DEF RInv, WritesArrive
    <2>2. CASE x = c /\ t = Tail(s)
      <3>1. t[i] = s[i + 1] /\ i + 1 \in DOMAIN s
        BY <1>4, <2>2
      <3> QED BY <1>1, <3>1 DEF RInv, WritesArrive
    <2> QED BY <1>5, <2>1, <2>2
  <1> QED BY <1>6, <1>7, <1>8 DEF WritesArrive

\* Sockets only close, and closing one takes all its client had received.
LEMMA LinesStep ==
    ASSUME IInv, RInv, NEW c \in Conns, HandlerStep(c) \/ ClientStep(c) \/ CloseDisplaced(c)
    PROVE  CutsLines
  <1>1. /\ sock \in [Conns -> {"open", "closed"}] /\ client \in [Conns -> Client]
        /\ \A x \in Conns : sock[x] = "closed" => client[x].heard = {}
    BY DEF IInv, OtherTypes, Traffic, RInv, LinesCut
  <1>2. CASE UNCHANGED sockVars
    BY <1>1, <1>2 DEF CutsLines, sockVars
  <1>3. ASSUME NEW x \in Conns, HangUp(x)
        PROVE  CutsLines
    BY <1>1, <1>3, NewClientType DEF CutsLines, HangUp
  <1>4. CASE WriteNext(c)
    <2>1. PICK s \in jobs[c] \cup {out[c]} :
              /\ s \in Seq(Write) /\ s # <<>>
              /\ \/ /\ sock[s[1].to] = "open" /\ sock' = sock
                    /\ client' = [client EXCEPT ![s[1].to] = Received(s[1])]
                 \/ HangUp(s[1].to)
      BY <1>4, OneWrite
    <2>2. s[1].to \in Conns
      <3>1. 1 \in DOMAIN s
        BY <2>1
      <3> QED BY <3>1, JobsTyped DEF RInv
    <2>3. CASE HangUp(s[1].to)
      BY <1>3, <2>2, <2>3
    <2>4. CASE /\ sock[s[1].to] = "open" /\ sock' = sock
               /\ client' = [client EXCEPT ![s[1].to] = Received(s[1])]
      <3>1. \A x \in Conns : sock[x] = "closed" => client'[x] = client[x]
        BY <1>1, <2>4
      <3> QED BY <1>1, <2>4, <3>1 DEF CutsLines
    <2> QED BY <2>1, <2>3, <2>4
  <1>5. CASE RejectFull(c) \/ CloseDisplaced(c) \/ Revoke(c) \/ Drop(c)
    BY <1>3, <1>5 DEF RejectFull, CloseDisplaced, Revoke, Drop
  <1>6. CASE \/ GetOrCreateGroup(c) \/ NewBridgeConnection(c) \/ AddBridge(c)
             \/ AnnounceOnline(c) \/ ReportConnected(c) \/ AddPhone(c) \/ RemoveBridge(c)
             \/ CheckReplaced(c) \/ AnnounceOffline(c) \/ ReportDisconnected(c)
             \/ RemovePhone(c) \/ RemoveGroupIfEmpty(c) \/ DeleteGroup(c)
             \/ BridgeFrame(c) \/ PhoneFrame(c)
    <2>1. UNCHANGED sockVars
      BY <1>6 DEF GetOrCreateGroup, NewBridgeConnection, AddBridge, AnnounceOnline,
                  ReportConnected, AddPhone, RemoveBridge, CheckReplaced, AnnounceOffline,
                  ReportDisconnected, RemovePhone, RemoveGroupIfEmpty, DeleteGroup,
                  BridgeFrame, PhoneFrame
    <2> QED BY <1>2, <2>1
  <1> QED BY <1>4, <1>5, <1>6 DEF HandlerStep, ClientStep

\* Every step keeps the invariant.
LEMMA RInvStep ==
    ASSUME IInv, RInv, [Next]_vars
    PROVE  RInv'
  <1>1. ASSUME NEW c \in Conns, HandlerStep(c) \/ ClientStep(c) \/ CloseDisplaced(c)
        PROVE  RInv'
    <2>1. Advance(c) /\ CutsLines
      BY <1>1, Advances, LinesStep
    <2>2. LinesCut'
      BY <2>1 DEF Advance, CutsLines, RInv, LinesCut
    <2>3. CASE \/ AddBridge(c) \/ AnnounceOnline(c) \/ AddPhone(c) \/ RemoveBridge(c)
               \/ AnnounceOffline(c) \/ RemovePhone(c)
      <3>1. Structure /\ pc \in [Conns -> Phases]
        BY DEF IInv, Structure, StructureTypes
      <3>2. Announces(c)
        BY <2>3, <3>1, AnnouncesBridgeChange, AnnouncesPresence, AnnouncesPhone
      <3>3. pc'[c] \notin Outside
        BY <2>3, <3>1 DEF AddBridge, AnnounceOnline, AddPhone, RemoveBridge, AnnounceOffline,
                          RemovePhone, Goto, Outside
      <3> QED BY <2>1, <2>2, <3>2, <3>3, WritesAnnounced DEF RInv
    <2>4. CASE BridgeFrame(c) \/ PhoneFrame(c)
      BY <2>1, <2>2, <2>4, WritesFrame DEF RInv
    <2>5. CASE WriteNext(c)
      BY <2>2, <2>5, WritesOne DEF RInv
    <2>6. CASE \/ GetOrCreateGroup(c) \/ NewBridgeConnection(c) \/ ReportConnected(c)
               \/ CheckReplaced(c) \/ ReportDisconnected(c) \/ RemoveGroupIfEmpty(c)
               \/ DeleteGroup(c) \/ RejectFull(c) \/ CloseDisplaced(c) \/ Revoke(c) \/ Drop(c)
      <3>1. UNCHANGED <<jobs, out>>
        BY <2>6 DEF GetOrCreateGroup, NewBridgeConnection, ReportConnected, CheckReplaced,
                    ReportDisconnected, RemoveGroupIfEmpty, DeleteGroup, RejectFull,
                    CloseDisplaced, Revoke, Drop, writeVars
      <3> QED BY <2>1, <2>2, <3>1, WritesKept DEF RInv
    <2> QED BY <1>1, <2>3, <2>4, <2>5, <2>6 DEF HandlerStep, ClientStep
  <1>2. CASE UNCHANGED vars
    BY <1>2 DEF vars, writeVars, sockVars, RInv, DataInLoop, WritesArrive, LinesCut
  <1> QED BY <1>1, <1>2 DEF Next, Finished

\* The invariant holds at the start.
LEMMA RInvInit == Init => RInv
  <1> SUFFICES ASSUME Init
               PROVE  RInv
    OBVIOUS
  <1>1. JobsFit(jobs, out)
    BY DEF Init, JobsFit
  <1>2. DataInLoop /\ WritesArrive
    BY DEF Init, DataInLoop, WritesArrive
  <1>3. LinesCut
    BY NewClientType DEF Init, LinesCut, Gone, Outside
  <1> QED BY <1>1, <1>2, <1>3 DEF RInv

-------------------------------------------------------------------------------
(* Data on its way *)

\* Flight, of any jobs and sequences under way.
Carried(js, o) ==
    {<<w.from, w.to>> :
        w \in {v \in UNION {UNION {Writes(s) : s \in js[c] \cup {o[c]}} : c \in Conns} :
                  v.type = "data"}}

\* The mapping's data under way is that of the writes to be made.
LEMMA FlightIsCarried == Flight = Carried(jobs, out) /\ Flight' = Carried(jobs', out')
  BY DEF Flight, Pending, Carried

\* The data on its way is that of the data messages.
LEMMA CarriedByJobs ==
    ASSUME NEW js, NEW o, JobsFit(js, o), NEW f
    PROVE  f \in Carried(js, o) <=>
               \E c \in Conns : \E s \in js[c] : DataJob(c, s) /\ f = <<c, s[1].to>>
  <1>1. ASSUME NEW c \in Conns, NEW s \in js[c], DataJob(c, s), f = <<c, s[1].to>>
        PROVE  f \in Carried(js, o)
    <2>1. s[1] \in Writes(s) /\ s[1].type = "data" /\ f = <<s[1].from, s[1].to>>
      BY <1>1 DEF DataJob, Writes
    <2> QED BY <2>1 DEF Carried
  <1>2. ASSUME f \in Carried(js, o)
        PROVE  \E c \in Conns : \E s \in js[c] : DataJob(c, s) /\ f = <<c, s[1].to>>
    <2>1. PICK c, s, w : /\ c \in Conns /\ s \in js[c] \cup {o[c]} /\ w \in Writes(s)
                         /\ w.type = "data" /\ f = <<w.from, w.to>>
      BY <1>2 DEF Carried
    <2>2. PICK i \in DOMAIN s : w = s[i]
      BY <2>1 DEF Writes
    <2>3. s \notin Seq(ControlWrite(Conns))
      <3>1. ASSUME s \in Seq(ControlWrite(Conns))
            PROVE  FALSE
        <4>1. s[i] \in ControlWrite(Conns)
          BY <3>1
        <4> QED BY <2>1, <2>2, <4>1 DEF ControlWrite
      <3> QED BY <3>1
    <2>4. s \in js[c] /\ DataJob(c, s)
      BY <2>1, <2>3 DEF JobsFit
    <2>5. i = 1
      BY <2>4 DEF DataJob
    <2> QED BY <2>1, <2>2, <2>4, <2>5 DEF DataJob
  <1> QED BY <1>1, <1>2

\* It stays the same if the data messages do.
LEMMA CarriedSame ==
    ASSUME NEW js, NEW o, JobsFit(js, o), NEW ks, NEW q, JobsFit(ks, q),
           \A c \in Conns : \A s : DataJob(c, s) => (s \in js[c] <=> s \in ks[c])
    PROVE  Carried(ks, q) = Carried(js, o)
  <1>1. \A f : f \in Carried(ks, q) <=> f \in Carried(js, o)
    BY CarriedByJobs
  <1> QED BY <1>1

\* A data message written is one datum less.
LEMMA CarriedLess ==
    ASSUME NEW js, NEW o, JobsFit(js, o), NEW ks, NEW q, JobsFit(ks, q),
           NEW c \in Conns, NEW s \in js[c], DataJob(c, s),
           \A t \in js[c] : DataJob(c, t) /\ t[1].to = s[1].to => t = s,
           \A x \in Conns : x # c => ks[x] = js[x], ks[c] = js[c] \ {s}, NEW f
    PROVE  f \in Carried(ks, q) <=> f \in Carried(js, o) /\ f # <<c, s[1].to>>
  <1>1. ASSUME f \in Carried(ks, q)
        PROVE  f \in Carried(js, o) /\ f # <<c, s[1].to>>
    <2>1. PICK x, t : x \in Conns /\ t \in ks[x] /\ DataJob(x, t) /\ f = <<x, t[1].to>>
      BY <1>1, CarriedByJobs
    <2>2. t \in js[x] /\ (x = c => t # s)
      BY <2>1
    <2>3. f \in Carried(js, o)
      BY <2>1, <2>2, CarriedByJobs
    <2>4. f # <<c, s[1].to>>
      BY <2>1, <2>2
    <2> QED BY <2>3, <2>4
  <1>2. ASSUME f \in Carried(js, o), f # <<c, s[1].to>>
        PROVE  f \in Carried(ks, q)
    <2>1. PICK x, t : x \in Conns /\ t \in js[x] /\ DataJob(x, t) /\ f = <<x, t[1].to>>
      BY <1>2, CarriedByJobs
    <2>2. t \in ks[x]
      BY <1>2, <2>1
    <2> QED BY <2>1, <2>2, CarriedByJobs
  <1> QED BY <1>1, <1>2

\* A frame read is a datum more for each receiver.
LEMMA CarriedMore ==
    ASSUME NEW js, NEW o, JobsFit(js, o), NEW ks, NEW q, JobsFit(ks, q),
           NEW c \in Conns, \A s \in js[c] : ~DataJob(c, s),
           NEW k \in ConnIDs, NEW receivers \in SUBSET Conns,
           \A x \in Conns : x # c => ks[x] = js[x],
           \A s : s \in ks[c] <=> \E d \in receivers : s = <<DataFrame(c, d, k)>>,
           NEW f
    PROVE  f \in Carried(ks, q) <=> f \in Carried(js, o) \/ \E d \in receivers : f = <<c, d>>
  <1>1. ASSUME NEW d \in receivers
        PROVE  DataJob(c, <<DataFrame(c, d, k)>>) /\ <<DataFrame(c, d, k)>>[1].to = d
    <2>1. DataFrame(c, d, k) \in Write
      BY DEF DataFrame, Write, WriteTypes, Ptr
    <2> QED BY <2>1 DEF DataJob, DataFrame
  <1>2. ASSUME f \in Carried(ks, q)
        PROVE  f \in Carried(js, o) \/ \E d \in receivers : f = <<c, d>>
    <2>1. PICK x, t : x \in Conns /\ t \in ks[x] /\ DataJob(x, t) /\ f = <<x, t[1].to>>
      BY <1>2, CarriedByJobs
    <2>2. CASE x = c
      <3>1. PICK d \in receivers : t = <<DataFrame(c, d, k)>>
        BY <2>1, <2>2
      <3>2. t[1].to = d
        BY <1>1, <3>1
      <3> QED BY <2>1, <2>2, <3>2
    <2>3. CASE x # c
      BY <2>1, <2>3, CarriedByJobs
    <2> QED BY <2>2, <2>3
  <1>3. ASSUME f \in Carried(js, o)
        PROVE  f \in Carried(ks, q)
    <2>1. PICK x, t : x \in Conns /\ t \in js[x] /\ DataJob(x, t) /\ f = <<x, t[1].to>>
      BY <1>3, CarriedByJobs
    <2>2. x # c /\ t \in ks[x]
      BY <2>1
    <2> QED BY <2>1, <2>2, CarriedByJobs
  <1>4. ASSUME NEW d \in receivers
        PROVE  <<c, d>> \in Carried(ks, q)
    <2>1. <<DataFrame(c, d, k)>> \in ks[c]
      OBVIOUS
    <2> QED BY <1>1, <2>1, CarriedByJobs
  <1> QED BY <1>2, <1>3, <1>4

-------------------------------------------------------------------------------
(* The members of a room *)

\* A map that takes no value twice has as many values as keys.
LEMMA SameCount ==
    ASSUME NEW S, IsFiniteSet(S), NEW m, \A i, j \in S : m[i] = m[j] => i = j
    PROVE  Cardinality({m[i] : i \in S}) = Cardinality(S)
  <1> DEFINE T == {m[i] : i \in S}
             f == [i \in S |-> m[i]]
  <1>1. f \in Bijection(S, T)
    BY DEF Bijection, Injection, Surjection, IsInjective
  <1>2. ExistsBijection(S, T)
    BY <1>1 DEF ExistsBijection
  <1> QED BY <1>2, FS_Bijection

\* The members of a room are the entries of the group's maps, and its sides have
\* as many members as the maps have entries.
LEMMA SidesAreMaps ==
    ASSUME Structure, NEW g \in Conns, NEW c \in Conns
    PROVE  /\ c \in BridgeConns =>
                /\ Promise!Side(c, g) = LiveBridges(grp[g].Bridges)
                /\ Cardinality(Promise!Side(c, g)) = Cardinality(Online(grp[g].Bridges))
           /\ c \notin BridgeConns =>
                /\ Promise!Side(c, g) = AllPhones(grp[g])
                /\ Cardinality(Promise!Side(c, g)) = Cardinality(UsedConnIDs(grp[g]))
  <1>1. \A d : d \in Promise!Members(g) <=>
                 d \in Conns /\ pc[d] \in InGroup /\ d \notin displaced /\ group[d] = g
    <2>1. \A d \in Conns : Lives[d] = Life(d) /\ Room[d] = IF pc[d] \in InGroup THEN group[d] ELSE nil
      BY DEF Lives, Room
    <2>2. \A d \in Conns : Life(d) = "member" <=> pc[d] \in InGroup /\ d \notin displaced
      BY DEF Life, InGroup
    <2> QED BY <2>1, <2>2 DEF Promise!Members
  <1>2. \A id \in BridgeIDs : BridgeEntry(g, id)
    BY DEF Structure, SlotOwned
  <1>3. \A k \in ConnIDs : PhoneEntry(g, k)
    BY DEF Structure, SlotOwned
  <1>4. ASSUME NEW d \in BridgeConns
        PROVE  d \in Promise!Members(g) <=> d \in LiveBridges(grp[g].Bridges)
    <2>1. d \in Conns /\ d # nil /\ BridgeID[d] \in BridgeIDs
      BY ConnsAssumption
    <2>2. ASSUME d \in Promise!Members(g)
          PROVE  d \in LiveBridges(grp[g].Bridges)
      BY <1>1, <2>1, <2>2 DEF Structure, SlotOwned, Current, IsCurrentBridge, LiveBridges, Online
    <2>3. ASSUME d \in LiveBridges(grp[g].Bridges)
          PROVE  d \in Promise!Members(g)
      BY <1>1, <1>2, <2>1, <2>3 DEF BridgeEntry, LiveBridges, Online
    <2> QED BY <2>2, <2>3
  <1>5. ASSUME NEW d \in PhoneConns
        PROVE  d \in Promise!Members(g) <=> d \in AllPhones(grp[g])
    <2>1. /\ d \in Conns /\ d \notin BridgeConns /\ d # nil /\ d \notin displaced
          /\ pc[d] \in InGroup => pc[d] = "serving"
          /\ ConnID[d] \in ConnIDs
      BY ConnsAssumption DEF PhoneConns, Structure, StructureTypes, DisplacedPhases,
                             HandlersHoldGroups, BridgePhases, InGroup
    <2>2. ASSUME d \in Promise!Members(g)
          PROVE  d \in AllPhones(grp[g])
      <3>1. grp[g].Phones[ConnID[d]] = d
        BY <1>1, <2>1, <2>2 DEF Structure, SlotOwned
      <3> QED BY <2>1, <3>1 DEF AllPhones, UsedConnIDs
    <2>3. ASSUME d \in AllPhones(grp[g])
          PROVE  d \in Promise!Members(g)
      <3>1. PICK k \in ConnIDs : d = grp[g].Phones[k]
        BY <2>3 DEF AllPhones, UsedConnIDs
      <3>2. group[d] = g /\ pc[d] = "serving"
        BY <1>3, <2>1, <3>1 DEF PhoneEntry
      <3> QED BY <1>1, <2>1, <3>2 DEF InGroup
    <2> QED BY <2>2, <2>3
  <1>6. LiveBridges(grp[g].Bridges) \subseteq BridgeConns
    BY <1>2 DEF BridgeEntry, LiveBridges, Online
  <1>7. AllPhones(grp[g]) \subseteq PhoneConns
    BY <1>3 DEF PhoneEntry, AllPhones, UsedConnIDs
  <1>8. Cardinality(LiveBridges(grp[g].Bridges)) = Cardinality(Online(grp[g].Bridges))
    <2>1. PICK m : m = grp[g].Bridges
      OBVIOUS
    <2>2. \A i, j \in Online(m) : m[i] = m[j] => i = j
      BY <1>2, <2>1 DEF BridgeEntry, Online
    <2>3. IsFiniteSet(Online(m))
      BY FiniteMembers DEF Online
    <2>4. Cardinality({m[i] : i \in Online(m)}) = Cardinality(Online(m))
      BY <2>2, <2>3, SameCount
    <2> QED BY <2>1, <2>4 DEF LiveBridges
  <1>9. Cardinality(AllPhones(grp[g])) = Cardinality(UsedConnIDs(grp[g]))
    <2>1. PICK m : m = grp[g].Phones
      OBVIOUS
    <2>2. PICK S : S = UsedConnIDs(grp[g])
      OBVIOUS
    <2>3. \A i, j \in S : m[i] = m[j] => i = j
      BY <1>3, <2>1, <2>2 DEF PhoneEntry, UsedConnIDs
    <2>4. IsFiniteSet(S)
      BY <2>2, FiniteMembers DEF UsedConnIDs
    <2>5. Cardinality({m[i] : i \in S}) = Cardinality(S)
      BY <2>3, <2>4, SameCount
    <2> QED BY <2>1, <2>2, <2>5 DEF AllPhones
  <1>10. ASSUME c \in BridgeConns
         PROVE  Promise!Side(c, g) = LiveBridges(grp[g].Bridges)
    <2>1. \A d : d \in Promise!Side(c, g) <=> d \in Promise!Members(g) /\ d \in BridgeConns
      BY <1>10 DEF Promise!Side
    <2> QED BY <1>4, <1>6, <2>1
  <1>11. ASSUME c \notin BridgeConns
         PROVE  Promise!Side(c, g) = AllPhones(grp[g])
    <2>1. \A d : d \in Promise!Side(c, g) <=> d \in Promise!Members(g) /\ d \notin BridgeConns
      BY <1>11 DEF Promise!Side
    <2>2. \A d : d \in Promise!Side(c, g) <=> d \in Promise!Members(g) /\ d \in PhoneConns
      BY <1>1, <2>1 DEF PhoneConns
    <2> QED BY <1>5, <1>7, <2>2
  <1> QED BY <1>8, <1>9, <1>10, <1>11

-------------------------------------------------------------------------------
(* Every step of the relay is a step of Membership or none *)

\* Membership counts as Relay does.
LEMMA SameCardinality ==
    ASSUME NEW S
    PROVE  Promise!Cardinality(S) = Cardinality(S)
  BY DEF Promise!Cardinality, Cardinality

\* What a connection's life and room are.
LEMMA LifeAndRoom ==
    ASSUME NEW x \in Conns
    PROVE  /\ Lives[x] = IF pc[x] \in Outside THEN "outside"
                         ELSE IF pc[x] \in InGroup
                         THEN IF x \in displaced THEN "displaced" ELSE "member"
                         ELSE "gone"
           /\ Lives'[x] = IF pc'[x] \in Outside THEN "outside"
                          ELSE IF pc'[x] \in InGroup
                          THEN IF x \in displaced' THEN "displaced" ELSE "member"
                          ELSE "gone"
           /\ Room[x] = IF pc[x] \in InGroup THEN group[x] ELSE nil
           /\ Room'[x] = IF pc'[x] \in InGroup THEN group'[x] ELSE nil
           /\ Heard[x] = client[x].heard
           /\ Heard'[x] = client'[x].heard
  BY DEF Lives, Life, Room, Heard, Outside, InGroup

\* Lives, rooms and what was heard are functions on the connections.
LEMMA MapDomains ==
    /\ Lives = [x \in Conns |-> Lives[x]] /\ Lives' = [x \in Conns |-> Lives'[x]]
    /\ Room = [x \in Conns |-> Room[x]] /\ Room' = [x \in Conns |-> Room'[x]]
    /\ Heard = [x \in Conns |-> Heard[x]] /\ Heard' = [x \in Conns |-> Heard'[x]]
  BY DEF Lives, Room, Heard

\* A step that neither enters nor leaves a group.
LEMMA MapKept ==
    ASSUME displaced' = displaced,
           \A x \in Conns : /\ pc[x] \in Outside <=> pc'[x] \in Outside
                            /\ pc[x] \in InGroup <=> pc'[x] \in InGroup
                            /\ pc[x] \in InGroup => group'[x] = group[x]
    PROVE  Lives' = Lives /\ Room' = Room
  <1>1. \A x \in Conns : Lives'[x] = Lives[x] /\ Room'[x] = Room[x]
    BY LifeAndRoom
  <1> QED BY <1>1, MapDomains

\* A step that writes no data and begins none.
LEMMA FlightKept ==
    ASSUME IInv, RInv, RInv', NEW c \in Conns, Announces(c), pc[c] # "serving" \/ Idle(c)
    PROVE  Flight' = Flight /\ Heard' = Heard /\ sock' = sock
  <1>1. UNCHANGED <<client, sock>>
    BY DEF Announces, sockVars
  <1>2. Heard' = Heard
    BY <1>1 DEF Heard
  <1>3. CASE UNCHANGED writeVars
    BY <1>1, <1>2, <1>3, FlightIsCarried DEF writeVars
  <1>4. CASE ~UNCHANGED writeVars
    <2>1. PICK sequences \in SUBSET (Seq(ControlWrite(Present(c))) \ {<<>>}) :
              jobs' = [jobs EXCEPT ![c] = sequences]
      BY <1>4 DEF Announces, Announce
    <2>2. jobs \in [Conns -> SUBSET (Seq(SafeWrite) \ {<<>>})]
      BY DEF IInv, Traffic
    <2>3. \A x \in Conns : jobs'[x] = IF x = c THEN sequences ELSE jobs[x]
      BY <2>1, <2>2
    <2>4. \A s \in jobs[c] : ~DataJob(c, s)
      BY NoData DEF RInv
    <2>5. ASSUME NEW s \in sequences
          PROVE  ~DataJob(c, s)
      <3>1. s \in Seq(ControlWrite(Present(c))) /\ s # <<>>
        BY <2>1
      <3>2. s[1] \in ControlWrite(Present(c))
        BY <3>1
      <3> QED BY <3>2 DEF ControlWrite, DataJob
    <2>6. \A x \in Conns : \A s : DataJob(x, s) => (s \in jobs[x] <=> s \in jobs'[x])
      BY <2>3, <2>4, <2>5
    <2>7. JobsFit(jobs, out) /\ JobsFit(jobs', out')
      BY DEF RInv
    <2> QED BY <1>1, <1>2, <2>6, <2>7, CarriedSame, FlightIsCarried
  <1> QED BY <1>1, <1>2, <1>3, <1>4

\* Nothing that Membership speaks of happens before a handler is in its group or
\* after it left, nor when it only announces.
LEMMA MapsToStutter ==
    ASSUME IInv, RInv, RInv', NEW c \in Conns,
           \/ GetOrCreateGroup(c) \/ NewBridgeConnection(c) \/ AnnounceOnline(c)
           \/ ReportConnected(c) \/ CheckReplaced(c) \/ AnnounceOffline(c)
           \/ ReportDisconnected(c) \/ RemoveGroupIfEmpty(c) \/ DeleteGroup(c)
    PROVE  UNCHANGED Promise!vars
  <1>1. pc \in [Conns -> Phases] /\ group \in [Conns -> Ptr]
    BY DEF IInv, Structure, StructureTypes
  <1>2. PICK phase : /\ pc' = [pc EXCEPT ![c] = phase]
                     /\ pc[c] \in Outside <=> phase \in Outside
                     /\ pc[c] \in InGroup <=> phase \in InGroup
    BY DEF GetOrCreateGroup, NewBridgeConnection, AnnounceOnline, ReportConnected, CheckReplaced,
           AnnounceOffline, ReportDisconnected, RemoveGroupIfEmpty, DeleteGroup, Goto, Return,
           Outside, InGroup
  <1>3. /\ \A x \in Conns : x # c => group'[x] = group[x]
        /\ pc[c] \in InGroup => group'[c] = group[c]
    BY <1>1 DEF GetOrCreateGroup, NewBridgeConnection, AnnounceOnline, ReportConnected,
           CheckReplaced, AnnounceOffline, ReportDisconnected, RemoveGroupIfEmpty, DeleteGroup,
           Return, InGroup
  <1>4. displaced' = displaced /\ pc[c] # "serving"
    BY DEF GetOrCreateGroup, NewBridgeConnection, AnnounceOnline, ReportConnected, CheckReplaced,
           AnnounceOffline, ReportDisconnected, RemoveGroupIfEmpty, DeleteGroup
  <1>5. Lives' = Lives /\ Room' = Room
    BY <1>1, <1>2, <1>3, <1>4, MapKept
  <1>6. Announces(c)
    <2>1. CASE AnnounceOnline(c) \/ AnnounceOffline(c)
      BY <2>1, AnnouncesPresence DEF IInv
    <2>2. CASE ~(AnnounceOnline(c) \/ AnnounceOffline(c))
      BY <2>2 DEF GetOrCreateGroup, NewBridgeConnection, ReportConnected, CheckReplaced,
                  ReportDisconnected, RemoveGroupIfEmpty, DeleteGroup, Announces
    <2> QED BY <2>1, <2>2
  <1>7. Flight' = Flight /\ Heard' = Heard /\ sock' = sock
    BY <1>4, <1>6, FlightKept
  <1> QED BY <1>5, <1>7 DEF Promise!vars

\* The members of a room are in its group and not displaced.
LEMMA RoomMembers ==
    ASSUME NEW g \in Conns, NEW d
    PROVE  d \in Promise!Members(g) <=>
               d \in Conns /\ pc[d] \in InGroup /\ d \notin displaced /\ group[d] = g
  BY LifeAndRoom DEF Promise!Members, InGroup, Outside

\* Closing a socket cuts its connection off.
LEMMA HangUpCutsOff ==
    ASSUME client \in [Conns -> Client], NEW x \in Conns, HangUp(x)
    PROVE  Promise!CutOff(x)
  <1>1. \A y \in Conns : Heard'[y] = IF y = x THEN {} ELSE Heard[y]
    BY NewClientType, LifeAndRoom DEF HangUp
  <1> QED BY <1>1, MapDomains DEF HangUp, Promise!CutOff

\* A handler comes into its group.
LEMMA Enters ==
    ASSUME NEW c \in Conns, NEW g \in Conns, NEW R, NEW phase \in InGroup,
           pc \in [Conns -> Phases],
           pc[c] \in Outside, pc' = [pc EXCEPT ![c] = phase],
           group' = group, group[c] = g, User[g] = User[c],
           R = Promise!Rivals(c, g), displaced' = displaced \cup R, c \notin displaced',
           R # {} \/ Cardinality(Promise!Side(c, g)) < Promise!Cap(c),
           Flight' = Flight, Heard' = Heard, sock' = sock
    PROVE  Promise!Enter(c)
  <1>1. R \subseteq Promise!Members(g)
    BY DEF Promise!Rivals, Promise!Side
  <1>2. \A d \in R : d \in Conns /\ pc[d] \in InGroup
    BY <1>1, RoomMembers
  <1>3. \A x \in Conns : pc'[x] = IF x = c THEN phase ELSE pc[x]
    OBVIOUS
  <1>4. Lives[c] = "outside"
    BY LifeAndRoom
  <1>5. \A x \in Conns : Lives'[x] = IF x = c THEN "member" ELSE IF x \in R THEN "displaced" ELSE Lives[x]
    <2>1. Lives'[c] = "member"
      BY <1>3, LifeAndRoom DEF InGroup, Outside
    <2>2. ASSUME NEW x \in Conns, x # c
          PROVE  Lives'[x] = IF x \in R THEN "displaced" ELSE Lives[x]
      <3>1. pc'[x] = pc[x] /\ (x \in R => pc[x] \in InGroup)
        BY <1>2, <1>3, <2>2
      <3>2. x \in displaced' <=> x \in displaced \/ x \in R
        OBVIOUS
      <3> QED BY <3>1, <3>2, LifeAndRoom DEF InGroup, Outside
    <2> QED BY <2>1, <2>2
  <1>6. \A x \in Conns : Room'[x] = IF x = c THEN g ELSE Room[x]
    BY <1>3, LifeAndRoom
  <1>7. Lives' = [d \in Conns |-> IF d = c THEN "member" ELSE IF d \in R THEN "displaced" ELSE Lives[d]]
    BY <1>5, MapDomains
  <1>8. Room' = [Room EXCEPT ![c] = g]
    BY <1>6, MapDomains
  <1>9. g \in Promise!Rooms(c)
    BY DEF Promise!Rooms
  <1> QED BY <1>4, <1>7, <1>8, <1>9, SameCardinality DEF Promise!Enter

\* AddBridge: the connection that had the id is the one rival.
LEMMA MapsToEnterBridge ==
    ASSUME IInv, RInv, RInv', NEW c \in Conns, AddBridge(c)
    PROVE  Promise!Enter(c)
  <1>1. PICK g : g = group[c]
    OBVIOUS
  <1>2. PICK previous : previous = grp[g].Bridges[BridgeID[c]]
    OBVIOUS
  <1>3. Structure /\ pc \in [Conns -> Phases]
    BY DEF IInv, Structure, StructureTypes
  <1>4. /\ pc[c] = "stamped" /\ pc' = [pc EXCEPT ![c] = "added"] /\ group' = group
        /\ previous # nil \/ ~BridgesFull(grp[g])
        /\ displaced' = displaced \cup ({previous} \ {nil})
    BY <1>1, <1>2 DEF AddBridge, Goto
  <1>5. /\ c \in BridgeConns /\ BridgeID[c] \in BridgeIDs /\ c # nil
        /\ g \in Conns /\ User[g] = User[c]
    BY <1>1, <1>3, <1>4, ConnsAssumption
       DEF Structure, StructureTypes, HandlersHoldGroups, GroupsOfAccount, BridgePhases, Ptr
  <1>6. BridgeEntry(g, BridgeID[c])
    BY <1>3, <1>5 DEF Structure, SlotOwned
  <1>7. c \notin displaced' /\ c # previous
    BY <1>2, <1>3, <1>4, <1>5, <1>6 DEF Structure, DisplacedPhases, BridgeEntry, InGroup
  <1>8. /\ Promise!Side(c, g) = LiveBridges(grp[g].Bridges)
        /\ Cardinality(Promise!Side(c, g)) = Cardinality(Online(grp[g].Bridges))
    BY <1>3, <1>5, SidesAreMaps
  <1>9. Promise!Rivals(c, g) = {previous} \ {nil}
    <2>1. ASSUME NEW d \in Promise!Rivals(c, g)
          PROVE  d = previous /\ d # nil
      <3>1. d \in LiveBridges(grp[g].Bridges) /\ BridgeID[d] = BridgeID[c]
        BY <1>8 DEF Promise!Rivals
      <3>2. PICK id \in BridgeIDs : d = grp[g].Bridges[id] /\ d # nil
        BY <3>1 DEF LiveBridges, Online
      <3>3. BridgeEntry(g, id)
        BY <1>3, <1>5 DEF Structure, SlotOwned
      <3> QED BY <1>2, <3>1, <3>2, <3>3 DEF BridgeEntry
    <2>2. ASSUME previous # nil
          PROVE  previous \in Promise!Rivals(c, g)
      BY <1>2, <1>5, <1>6, <1>8, <2>2 DEF Promise!Rivals, BridgeEntry, LiveBridges, Online
    <2> QED BY <2>1, <2>2
  <1>10. {previous} \ {nil} # {} \/ Cardinality(Promise!Side(c, g)) < Promise!Cap(c)
    <2>1. Cardinality(Online(grp[g].Bridges)) \in Nat /\ MaxBridges \in Nat
      BY FiniteMembers, LimitsAssumption DEF Online
    <2> QED BY <1>4, <1>5, <1>8, <2>1 DEF Promise!Cap, BridgesFull
  <1>11. Announces(c)
    BY <1>3, AnnouncesBridgeChange
  <1>12. Flight' = Flight /\ Heard' = Heard /\ sock' = sock
    BY <1>4, <1>11, FlightKept
  <1>13. "added" \in InGroup /\ pc[c] \in Outside
    BY <1>4 DEF InGroup, Outside
  <1> QED BY <1>1, <1>3, <1>4, <1>5, <1>7, <1>9, <1>10, <1>12, <1>13, Enters

\* AddPhone.
LEMMA MapsToEnterPhone ==
    ASSUME IInv, RInv, RInv', NEW c \in Conns, AddPhone(c)
    PROVE  Promise!Enter(c)
  <1>1. PICK g : g = group[c]
    OBVIOUS
  <1>2. Structure /\ pc \in [Conns -> Phases]
    BY DEF IInv, Structure, StructureTypes
  <1>3. /\ pc[c] = "joined" /\ pc' = [pc EXCEPT ![c] = "serving"] /\ group' = group
        /\ c \in PhoneConns /\ ~PhonesFull(grp[g]) /\ displaced' = displaced
    BY <1>1 DEF AddPhone, Goto
  <1>4. c \notin BridgeConns /\ c \notin displaced /\ g \in Conns /\ User[g] = User[c]
    BY <1>1, <1>2, <1>3
       DEF Structure, StructureTypes, HandlersHoldGroups, GroupsOfAccount, DisplacedPhases,
           PhoneConns, Ptr
  <1>5. Cardinality(Promise!Side(c, g)) = Cardinality(UsedConnIDs(grp[g]))
    BY <1>2, <1>4, SidesAreMaps
  <1>6. Promise!Rivals(c, g) = {}
    BY <1>4 DEF Promise!Rivals
  <1>7. Cardinality(Promise!Side(c, g)) < Promise!Cap(c)
    <2>1. Cardinality(UsedConnIDs(grp[g])) \in Nat /\ MaxPhones \in Nat
      BY FiniteMembers, LimitsAssumption DEF UsedConnIDs
    <2> QED BY <1>3, <1>4, <1>5, <2>1 DEF Promise!Cap, PhonesFull
  <1>8. Announces(c)
    BY <1>2, AnnouncesPhone
  <1>9. Flight' = Flight /\ Heard' = Heard /\ sock' = sock
    BY <1>3, <1>8, FlightKept
  <1>10. "serving" \in InGroup /\ pc[c] \in Outside /\ displaced' = displaced \cup {}
    BY <1>3 DEF InGroup, Outside
  <1>11. c \notin displaced'
    BY <1>3, <1>4
  <1> QED BY <1>1, <1>2, <1>3, <1>4, <1>6, <1>7, <1>9, <1>10, <1>11, Enters

\* RejectFull: the side is at its cap, and no rival makes room.
LEMMA MapsToTurnAway ==
    ASSUME IInv, CapsHold, NEW c \in Conns, RejectFull(c)
    PROVE  Promise!TurnAway(c)
  <1>1. PICK g : g = group[c]
    OBVIOUS
  <1>2. Structure /\ pc \in [Conns -> Phases] /\ client \in [Conns -> Client]
    BY DEF IInv, Structure, StructureTypes, Traffic
  <1>3. /\ pc[c] \in {"joined", "stamped"} /\ pc' = [pc EXCEPT ![c] = "done"]
        /\ group' = [group EXCEPT ![c] = nil]
        /\ HangUp(c) /\ UNCHANGED <<jobs, out, displaced>>
    BY DEF RejectFull, Return, Goto, writeVars
  <1>4. /\ g \in Conns /\ User[g] = User[c]
        /\ pc[c] = "stamped" => c \in BridgeConns
    BY <1>1, <1>2, <1>3
       DEF Structure, StructureTypes, HandlersHoldGroups, GroupsOfAccount, BridgePhases, Ptr
  <1>5. Promise!Rivals(c, g) = {} /\ Cardinality(Promise!Side(c, g)) = Promise!Cap(c)
    <2>1. CASE c \in BridgeConns
      <3>1. grp[g].Bridges[BridgeID[c]] = nil /\ BridgesFull(grp[g])
        BY <1>1, <2>1 DEF RejectFull, PhoneConns
      <3>2. /\ Promise!Side(c, g) = LiveBridges(grp[g].Bridges)
            /\ Cardinality(Promise!Side(c, g)) = Cardinality(Online(grp[g].Bridges))
        BY <1>2, <1>4, <2>1, SidesAreMaps
      <3>3. Cardinality(Online(grp[g].Bridges)) = MaxBridges
        <4>1. Cardinality(Online(grp[g].Bridges)) \in Nat /\ MaxBridges \in Nat
          BY FiniteMembers, LimitsAssumption DEF Online
        <4> QED BY <1>4, <3>1, <4>1 DEF CapsHold, BridgesFull
      <3>4. ASSUME NEW d \in LiveBridges(grp[g].Bridges)
            PROVE  BridgeID[d] # BridgeID[c]
        <4>1. PICK id \in BridgeIDs : d = grp[g].Bridges[id] /\ d # nil
          BY DEF LiveBridges, Online
        <4>2. BridgeEntry(g, id)
          BY <1>2, <1>4 DEF Structure, SlotOwned
        <4> QED BY <3>1, <4>1, <4>2 DEF BridgeEntry
      <3> QED BY <2>1, <3>2, <3>3, <3>4 DEF Promise!Rivals, Promise!Cap
    <2>2. CASE c \notin BridgeConns
      <3>1. PhonesFull(grp[g])
        BY <1>1, <1>4, <2>2 DEF RejectFull
      <3>2. Cardinality(Promise!Side(c, g)) = Cardinality(UsedConnIDs(grp[g]))
        BY <1>2, <1>4, <2>2, SidesAreMaps
      <3>3. Cardinality(UsedConnIDs(grp[g])) = MaxPhones
        <4>1. Cardinality(UsedConnIDs(grp[g])) \in Nat /\ MaxPhones \in Nat
          BY FiniteMembers, LimitsAssumption DEF UsedConnIDs
        <4> QED BY <1>4, <3>1, <4>1 DEF CapsHold, PhonesFull
      <3> QED BY <2>2, <3>2, <3>3 DEF Promise!Rivals, Promise!Cap
    <2> QED BY <2>1, <2>2
  <1>6. \A x \in Conns : pc'[x] = IF x = c THEN "done" ELSE pc[x]
    BY <1>2, <1>3
  <1>7. \A x \in Conns : x # c => group'[x] = group[x]
    BY <1>2, <1>3 DEF Structure, StructureTypes
  <1>8. Lives[c] = "outside" /\ Lives' = [Lives EXCEPT ![c] = "gone"]
    <2>1. Lives[c] = "outside" /\ Lives'[c] = "gone"
      BY <1>3, <1>6, LifeAndRoom DEF Outside, InGroup
    <2>2. \A x \in Conns : x # c => Lives'[x] = Lives[x]
      BY <1>3, <1>6, LifeAndRoom
    <2> QED BY <2>1, <2>2, MapDomains
  <1>9. Room' = Room
    <2>1. \A x \in Conns : Room'[x] = Room[x]
      BY <1>3, <1>6, <1>7, LifeAndRoom DEF InGroup
    <2> QED BY <2>1, MapDomains
  <1>10. Flight' = Flight
    BY <1>3, FlightIsCarried
  <1>11. Promise!CutOff(c)
    BY <1>2, <1>3, HangUpCutsOff
  <1>12. g \in Promise!Rooms(c)
    BY <1>4 DEF Promise!Rooms
  <1> QED BY <1>5, <1>8, <1>9, <1>10, <1>11, <1>12, SameCardinality DEF Promise!TurnAway

\* A handler with no data to write has none under way.
LEMMA NothingUnderway ==
    ASSUME RInv, NEW c \in Conns, pc[c] # "serving" \/ Idle(c)
    PROVE  Promise!Underway(c) = {}
  <1>1. \A s \in jobs[c] : ~DataJob(c, s)
    BY NoData DEF RInv
  <1>2. ASSUME NEW f \in Flight, f[1] = c
        PROVE  FALSE
    <2>1. PICK x, s : x \in Conns /\ s \in jobs[x] /\ DataJob(x, s) /\ f = <<x, s[1].to>>
      BY CarriedByJobs, FlightIsCarried DEF RInv
    <2> QED BY <1>1, <1>2, <2>1
  <1> QED BY <1>2 DEF Promise!Underway

\* RemoveBridge and RemovePhone, once the socket is closed.
LEMMA MapsToLeave ==
    ASSUME IInv, RInv, RInv', NEW c \in Conns, RemoveBridge(c) \/ RemovePhone(c)
    PROVE  Promise!Leave(c)
  <1>1. Structure /\ pc \in [Conns -> Phases]
    BY DEF IInv, Structure, StructureTypes
  <1>2. /\ pc[c] = "serving" /\ Idle(c) /\ sock[c] = "closed"
        /\ UNCHANGED <<group, displaced>>
    BY DEF RemoveBridge, RemovePhone, Leaving
  <1>3. PICK phase \in {"removed", "cleanup"} : pc' = [pc EXCEPT ![c] = phase]
    BY DEF RemoveBridge, RemovePhone, Goto
  <1>4. \A x \in Conns : pc'[x] = IF x = c THEN phase ELSE pc[x]
    BY <1>1, <1>3
  <1>5. Lives[c] \in {"member", "displaced"} /\ Lives'[c] = "gone" /\ Room'[c] = nil
    BY <1>2, <1>4, LifeAndRoom DEF InGroup, Outside
  <1>6. \A x \in Conns : x # c => Lives'[x] = Lives[x] /\ Room'[x] = Room[x]
    BY <1>2, <1>4, LifeAndRoom
  <1>7. Lives' = [Lives EXCEPT ![c] = "gone"] /\ Room' = [Room EXCEPT ![c] = nil]
    BY <1>5, <1>6, MapDomains
  <1>8. Announces(c)
    BY <1>1, AnnouncesBridgeChange, AnnouncesPhone
  <1>9. Flight' = Flight /\ Heard' = Heard /\ sock' = sock
    BY <1>2, <1>8, FlightKept
  <1>10. Promise!Underway(c) = {}
    BY <1>2, NothingUnderway
  <1> QED BY <1>2, <1>5, <1>7, <1>9, <1>10 DEF Promise!Leave

\* A frame: the receivers looked up under the lock are members of the room.
LEMMA MapsToSend ==
    ASSUME IInv, RInv, RInv', NEW c \in Conns, BridgeFrame(c) \/ PhoneFrame(c)
    PROVE  Promise!Send(c)
  <1>1. Structure /\ jobs \in [Conns -> SUBSET (Seq(SafeWrite) \ {<<>>})]
    BY DEF IInv, Traffic
  <1>2. /\ pc[c] = "serving" /\ Idle(c) /\ sock[c] = "open" /\ c \notin displaced
        /\ group[c] \in Conns
        /\ UNCHANGED <<pc, group, displaced, sock, client, out>>
    BY <1>1, FrameReceivers
  <1>3. PICK k \in ConnIDs, receivers \in SUBSET Conns :
            /\ jobs' = [jobs EXCEPT ![c] = {<<DataFrame(c, d, k)>> : d \in receivers}]
            /\ c \notin BridgeConns => \E d : receivers = {d}
            /\ \A d \in receivers : /\ Peers(c, d) /\ group[d] = group[c]
                                    /\ pc[d] \in InGroup /\ d \notin displaced
    BY <1>1, FrameReceivers
  <1>4. Lives[c] = "member" /\ Room[c] = group[c]
    BY <1>2, LifeAndRoom DEF InGroup, Outside
  <1>5. Promise!Underway(c) = {}
    BY <1>2, NothingUnderway
  <1>6. receivers \in SUBSET {d \in Promise!Members(Room[c]) : Promise!Peers(c, d)}
    <2> SUFFICES ASSUME NEW d \in receivers
                 PROVE  d \in Promise!Members(Room[c]) /\ Promise!Peers(c, d)
      OBVIOUS
    <2>1. d \in Promise!Members(Room[c])
      BY <1>2, <1>3, <1>4, RoomMembers
    <2>2. Peers(c, d)
      BY <1>3
    <2>3. CASE c \in BridgeConns
      BY <2>1, <2>2, <2>3 DEF Peers, Promise!Peers
    <2>4. CASE c \notin BridgeConns
      BY <2>1, <2>2, <2>4 DEF Peers, Promise!Peers
    <2> QED BY <2>1, <2>3, <2>4
  <1>7. c \notin BridgeConns => Promise!Cardinality(receivers) = 1
    BY <1>3, FS_Singleton, SameCardinality
  <1>8. Flight' = Flight \cup {<<c, d>> : d \in receivers}
    <2>1. /\ \A x \in Conns : x # c => jobs'[x] = jobs[x]
          /\ \A s : s \in jobs'[c] <=> \E d \in receivers : s = <<DataFrame(c, d, k)>>
      BY <1>1, <1>3
    <2>2. \A s \in jobs[c] : ~DataJob(c, s)
      BY <1>2, NoData DEF RInv
    <2>3. JobsFit(jobs, out) /\ JobsFit(jobs', out')
      BY DEF RInv
    <2>4. k \in ConnIDs /\ receivers \in SUBSET Conns
      BY <1>3
    <2>5. ASSUME NEW f
          PROVE  f \in Carried(jobs', out') <=>
                     f \in Carried(jobs, out) \/ \E d \in receivers : f = <<c, d>>
      BY <2>1, <2>2, <2>3, <2>4, CarriedMore
    <2> QED BY <2>5, FlightIsCarried
  <1>9. UNCHANGED <<Lives, Room, sock, Heard>>
    BY <1>2, MapKept DEF Heard
  <1> QED BY <1>2, <1>4, <1>5, <1>6, <1>7, <1>8, <1>9 DEF Promise!Send

\* A socket that is closed while its handler is in the group, or was before.
LEMMA MapsToBreak ==
    ASSUME IInv, RInv, NEW x \in Conns, HangUp(x), pc[x] \notin Outside,
           UNCHANGED <<pc, group, displaced>>, Flight' = Flight
    PROVE  Promise!Break(x) \/ UNCHANGED Promise!vars
  <1>1. /\ pc \in [Conns -> Phases] /\ sock \in [Conns -> {"open", "closed"}]
        /\ client \in [Conns -> Client]
    BY DEF IInv, Structure, StructureTypes, OtherTypes, Traffic
  <1>2. Lives' = Lives /\ Room' = Room
    BY MapKept
  <1>3. Promise!CutOff(x)
    BY <1>1, HangUpCutsOff
  <1>4. CASE sock[x] = "open"
    <2>1. pc[x] \in InGroup
      BY <1>1, <1>4 DEF RInv, LinesCut, Gone
    <2>2. Lives[x] \in {"member", "displaced"}
      BY <2>1, LifeAndRoom
    <2> QED BY <1>2, <1>3, <1>4, <2>2 DEF Promise!Break
  <1>5. CASE sock[x] = "closed"
    <2>1. sock' = sock
      BY <1>1, <1>5 DEF HangUp
    <2>2. \A y \in Conns : Heard'[y] = Heard[y]
      BY <1>1, <1>5, NewClientType, LifeAndRoom DEF HangUp, RInv, LinesCut
    <2>3. Heard' = Heard
      BY <2>2, MapDomains
    <2> QED BY <1>2, <2>1, <2>3 DEF Promise!vars
  <1> QED BY <1>1, <1>4, <1>5

\* A socket closed by a takeover, a revocation or its client breaks the line, if
\* it was not broken before.
LEMMA MapsToCut ==
    ASSUME IInv, RInv, NEW c \in Conns, CloseDisplaced(c) \/ Revoke(c) \/ Drop(c)
    PROVE  Promise!Break(c) \/ UNCHANGED Promise!vars
  <1>1. HangUp(c) /\ UNCHANGED <<pc, group, displaced, jobs, out>>
    BY DEF CloseDisplaced, Revoke, Drop, writeVars
  <1>2. pc[c] \notin Outside
    BY DEF CloseDisplaced, Revoke, Drop, IInv, Structure, DisplacedPhases, InGroup, Outside
  <1>3. Flight' = Flight
    BY <1>1, FlightIsCarried
  <1> QED BY <1>1, <1>2, <1>3, MapsToBreak

\* Only data adds to what a client has heard.
LEMMA ReceivedHeard ==
    ASSUME NEW w \in Write, client[w.to] \in Client
    PROVE  Received(w).heard = IF w.type = "data" THEN client[w.to].heard \cup {w.from}
                               ELSE client[w.to].heard
  <1> DEFINE old == client[w.to]
  <1>1. w.type \in WriteTypes
    BY DEF Write
  <1>2. CASE w.type \in NoticeTypes
    <2>1. Received(w) = [old EXCEPT !.notice = [type |-> w.type, id |-> w.id]]
      BY <1>2 DEF Received, NoticeTypes
    <2> QED BY <1>2, <2>1 DEF Client, NoticeTypes
  <1>3. CASE w.type \in {"bridge_online", "bridge_offline"}
    <2>1. Received(w) = [old EXCEPT !.presence[w.id] = w.type]
      BY <1>3 DEF Received, NoticeTypes
    <2> QED BY <1>3, <2>1 DEF Client
  <1>4. CASE w.type = "phone_connected"
    <2>1. Received(w) = [old EXCEPT !.roster = @ \cup {w.connID}]
      BY <1>4 DEF Received, NoticeTypes
    <2> QED BY <1>4, <2>1 DEF Client
  <1>5. CASE w.type = "phone_disconnected"
    <2>1. Received(w) = [old EXCEPT !.roster = @ \ {w.connID}]
      BY <1>5 DEF Received, NoticeTypes
    <2> QED BY <1>5, <2>1 DEF Client
  <1>6. CASE w.type = "data"
    <2>1. Received(w) = [old EXCEPT !.heard = @ \cup {w.from}]
      BY <1>6 DEF Received, NoticeTypes
    <2> QED BY <1>6, <2>1 DEF Client
  <1> QED BY <1>1, <1>2, <1>3, <1>4, <1>5, <1>6 DEF WriteTypes

\* A write delivers data, loses it with its receiver, or is no business of
\* Membership but for the connection it may cut off.
LEMMA MapsToWrite ==
    ASSUME IInv, RInv, RInv', NEW c \in Conns, WriteNext(c)
    PROVE  Promise!Next \/ UNCHANGED Promise!vars
  <1>1. PICK s \in jobs[c] \cup {out[c]} :
            /\ s \in Seq(Write) /\ s # <<>>
            /\ \/ s \in Seq(ControlWrite(Conns)) /\ jobs' = jobs
               \/ s \in jobs[c] /\ jobs' = [jobs EXCEPT ![c] = @ \ {s}]
            /\ \/ /\ sock[s[1].to] = "open" /\ sock' = sock
                  /\ client' = [client EXCEPT ![s[1].to] = Received(s[1])]
               \/ HangUp(s[1].to)
            /\ UNCHANGED <<pc, group, displaced>>
    BY OneWrite
  <1>2. PICK w : w = s[1]
    OBVIOUS
  <1>3. /\ client \in [Conns -> Client]
        /\ jobs \in [Conns -> SUBSET (Seq(SafeWrite) \ {<<>>})]
        /\ JobsFit(jobs, out) /\ JobsFit(jobs', out')
    BY DEF IInv, Traffic, RInv
  <1>4. 1 \in DOMAIN s
    BY <1>1
  <1>5. w \in Write /\ w.to \in Conns /\ pc[w.to] \notin Outside
    <2>1. w \in Write /\ w.to \in Conns
      BY <1>1, <1>2, <1>3, <1>4, JobsTyped
    <2>2. pc[w.to] \notin Outside
      BY <1>1, <1>2, <1>4 DEF RInv, WritesArrive
    <2> QED BY <2>1, <2>2
  <1>6. \/ /\ sock[w.to] = "open" /\ sock' = sock
           /\ client' = [client EXCEPT ![w.to] = Received(w)]
        \/ HangUp(w.to)
    BY <1>1, <1>2
  <1>7. Lives' = Lives /\ Room' = Room
    BY <1>1, MapKept
  <1>8. Received(w).heard = IF w.type = "data" THEN client[w.to].heard \cup {w.from}
                            ELSE client[w.to].heard
    BY <1>3, <1>5, ReceivedHeard
  <1>9. CASE DataJob(c, s)
    <2>1. s \notin Seq(ControlWrite(Conns))
      <3>1. ASSUME s \in Seq(ControlWrite(Conns))
            PROVE  FALSE
        <4>1. s[1] \in ControlWrite(Conns)
          BY <1>4, <3>1
        <4> QED BY <1>9, <4>1 DEF ControlWrite, DataJob
      <3> QED BY <3>1
    <2>2. s \in jobs[c] /\ jobs' = [jobs EXCEPT ![c] = @ \ {s}]
      BY <1>1, <2>1
    <2>3. (\A x \in Conns : x # c => jobs'[x] = jobs[x]) /\ jobs'[c] = jobs[c] \ {s}
      BY <1>3, <2>2
    <2>4. \A t \in jobs[c] : DataJob(c, t) /\ t[1].to = s[1].to => t = s
      BY <1>9, <2>2 DEF RInv, DataInLoop
    <2> DEFINE f == <<c, w.to>>
    <2>5. Flight' = Flight \ {f} /\ f \in Flight
      <3>1. JobsFit(jobs, out) /\ JobsFit(jobs', out') /\ s \in jobs[c]
        BY <1>3, <2>2
      <3>2. ASSUME NEW x
            PROVE  x \in Carried(jobs', out') <=> x \in Carried(jobs, out) /\ x # <<c, s[1].to>>
        BY <1>9, <2>3, <2>4, <3>1, CarriedLess
      <3>3. <<c, s[1].to>> \in Carried(jobs, out)
        BY <1>9, <3>1, CarriedByJobs
      <3> QED BY <1>2, <3>2, <3>3, FlightIsCarried
    <2>6. CASE HangUp(w.to)
      <3>1. Promise!CutOff(w.to)
        BY <1>3, <1>5, <2>6, HangUpCutsOff
      <3>2. Promise!Lose(f)
        BY <1>7, <2>5, <3>1 DEF Promise!Lose
      <3> QED BY <2>5, <3>2 DEF Promise!Next
    <2>7. CASE /\ sock[w.to] = "open" /\ sock' = sock
               /\ client' = [client EXCEPT ![w.to] = Received(w)]
      <3>1. w.type = "data" /\ w.from = c
        BY <1>2, <1>9 DEF DataJob
      <3>2. \A x \in Conns : Heard'[x] = IF x = w.to THEN Heard[x] \cup {c} ELSE Heard[x]
        <4>1. \A x \in Conns : client'[x] = IF x = w.to THEN Received(w) ELSE client[x]
          BY <1>3, <2>7
        <4>2. Received(w).heard = client[w.to].heard \cup {c}
          BY <1>8, <3>1
        <4>3. \A x \in Conns : Heard[x] = client[x].heard /\ Heard'[x] = client'[x].heard
          BY LifeAndRoom
        <4>4. \A x \in Conns : x # w.to => Heard'[x] = Heard[x]
          BY <4>1, <4>3
        <4>5. Heard'[w.to] = Heard[w.to] \cup {c}
          BY <1>5, <4>1, <4>2, <4>3
        <4> QED BY <4>4, <4>5
      <3>3. Heard' = [Heard EXCEPT ![w.to] = @ \cup {c}]
        BY <3>2, MapDomains
      <3>4. Promise!Deliver(f)
        BY <1>7, <2>5, <2>7, <3>3 DEF Promise!Deliver
      <3> QED BY <2>5, <3>4 DEF Promise!Next
    <2> QED BY <1>6, <2>6, <2>7
  <1>10. CASE ~DataJob(c, s)
    <2>1. s \in Seq(ControlWrite(Conns))
      BY <1>1, <1>3, <1>10 DEF JobsFit
    <2>2. w.type # "data"
      <3>1. s[1] \in ControlWrite(Conns)
        BY <1>4, <2>1
      <3> QED BY <1>2, <3>1 DEF ControlWrite
    <2>3. Flight' = Flight
      <3>1. ASSUME NEW x \in Conns, NEW t, DataJob(x, t)
            PROVE  t \in jobs[x] <=> t \in jobs'[x]
        <4>1. x = c => t # s
          BY <1>10, <3>1
        <4> QED BY <1>1, <1>3, <4>1
      <3>2. Carried(jobs', out') = Carried(jobs, out)
        BY <1>3, <3>1, CarriedSame
      <3> QED BY <3>2, FlightIsCarried
    <2>4. CASE HangUp(w.to)
      BY <1>1, <1>5, <2>3, <2>4, MapsToBreak DEF Promise!Next
    <2>5. CASE /\ sock[w.to] = "open" /\ sock' = sock
               /\ client' = [client EXCEPT ![w.to] = Received(w)]
      <3>1. \A x \in Conns : Heard'[x] = Heard[x]
        BY <1>3, <1>8, <2>2, <2>5, LifeAndRoom
      <3>2. Heard' = Heard
        BY <3>1, MapDomains
      <3> QED BY <1>7, <2>3, <2>5, <3>2 DEF Promise!vars
    <2> QED BY <1>6, <2>4, <2>5
  <1> QED BY <1>9, <1>10

\* Every step of the relay.
LEMMA MapsToStep ==
    ASSUME IInv, CapsHold, RInv, RInv', [Next]_vars
    PROVE  [Promise!Next]_(Promise!vars)
  <1>1. ASSUME NEW c \in Conns, HandlerStep(c) \/ ClientStep(c) \/ CloseDisplaced(c)
        PROVE  Promise!Next \/ UNCHANGED Promise!vars
    BY <1>1, MapsToStutter, MapsToEnterBridge, MapsToEnterPhone, MapsToTurnAway, MapsToLeave,
       MapsToSend, MapsToCut, MapsToWrite
       DEF HandlerStep, ClientStep, Promise!Next
  <1>2. CASE UNCHANGED vars
    <2>1. UNCHANGED <<pc, group, displaced, sock, client, jobs, out>>
      BY <1>2 DEF vars, writeVars, sockVars
    <2>2. Lives' = Lives /\ Room' = Room
      BY <2>1, MapKept
    <2>3. Flight' = Flight /\ Heard' = Heard
      BY <2>1, FlightIsCarried DEF Heard
    <2> QED BY <2>1, <2>2, <2>3 DEF Promise!vars
  <1> QED BY <1>1, <1>2 DEF Next, Finished

\* The connection handlers implement Membership: with lookups under one lock and
\* writes after it, takeovers and closed sockets in between, they do nothing that
\* it does not allow.
THEOREM MembershipCorrect == Spec => ImplementsMembership
  <1>1. Init => Promise!Init
    <2> SUFFICES ASSUME Init
                 PROVE  Promise!Init
      OBVIOUS
    <2>1. \A x \in Conns : Lives[x] = "outside" /\ Room[x] = nil /\ Heard[x] = {}
      BY NewClientType, LifeAndRoom DEF Init, Outside, InGroup
    <2>2. Flight = {}
      <3>1. JobsFit(jobs, out) /\ \A x \in Conns : jobs[x] = {}
        BY RInvInit DEF RInv, Init
      <3>2. \A f : f \notin Carried(jobs, out)
        BY <3>1, CarriedByJobs
      <3> QED BY <3>2, FlightIsCarried
    <2>3. sock = [x \in Conns |-> "open"]
      BY DEF Init
    <2> QED BY <2>1, <2>2, <2>3, MapDomains DEF Promise!Init
  <1>2. Spec => []RInv
    <2>1. IInv /\ RInv /\ [Next]_vars => RInv'
      BY RInvStep
    <2> QED BY <2>1, RInvInit, Invariance, PTL DEF Spec
  <1>3. IInv /\ CapsHold /\ RInv /\ RInv' /\ [Next]_vars => [Promise!Next]_(Promise!vars)
    BY MapsToStep
  <1> QED BY <1>1, <1>2, <1>3, Invariance, CapsCorrect, PTL
          DEF Spec, ImplementsMembership, Promise!Spec
===============================================================================
