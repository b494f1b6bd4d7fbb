------------------------- MODULE ControlReportsProofs -------------------------
(***************************************************************************)
(* ControlReports' safety properties for any number of sockets, policies   *)
(* and control messages, and that it implements the safety part of         *)
(* LatestValue.                                                            *)
(*                                                                         *)
(* The invariant follows a report from the read loop over the channel and  *)
(* the sender to the auth server.  Its core is that the clock of a socket  *)
(* tells its reports apart: the newest one is the only one stamped with    *)
(* the socket's present time, and it is always somewhere.                  *)
(***************************************************************************)
EXTENDS ControlReports, TLAPS

(* Sockets *)

\* A report that the read loop of s made.
OwnReport(s, r) ==
    /\ r \in Report /\ r.Status = "connected"
    /\ IF s \in Bridges
       THEN r.Event = "notification_policy" /\ r.ConnectionID = ConnectionID[s]
       ELSE r.Event = "connection_observed"
    /\ r.Timestamp <= clock[s]

\* The socket's phases in which its last report is stamped.
Reported(s) == pc[s] \in {"serving", "full", "refill"}

\* What a socket holds: the report of its read loop, the one in the channel and
\* the one of its sender are its own, and only its last has the present time.
SocketHolds(s) ==
    /\ report[s] # none => OwnReport(s, report[s])
    /\ queue[s] # <<>> => OwnReport(s, Head(queue[s])) /\ Head(queue[s]).Timestamp # 0
    /\ held[s] # none => OwnReport(s, held[s]) /\ held[s].Timestamp # 0
    /\ sender[s] \in {"received", "posting"} => held[s] # none
    /\ pc[s] \in {"noted", "full", "refill"} => report[s] # none
    /\ Reported(s) /\ report[s] # none => report[s].Timestamp = clock[s] /\ clock[s] # 0
    /\ Reported(s) /\ held[s] # none /\ held[s].Timestamp = clock[s] => held[s] = report[s]
    /\ Reported(s) /\ queue[s] # <<>> /\ Head(queue[s]).Timestamp = clock[s]
        => Head(queue[s]) = report[s]

\* Before its first control message a socket holds nothing.
Fresh(s) ==
    /\ pc[s] \in {"outside", "joined"} => report[s] = none /\ clock[s] = 0
    /\ pc[s] \in {"outside", "joined", "serving"} /\ report[s] = none
        => queue[s] = <<>> /\ held[s] = none
    /\ pc[s] = "serving" /\ report[s] = none /\ s \in Bridges => clock[s] = 1

\* What RefillHasRoom and NewestKept say of one socket.
Kept(s) ==
    /\ pc[s] = "refill" => queue[s] = <<>>
    /\ pc[s] = "serving" /\ ctx[s] = "open" /\ report[s] # none =>
            IF queue[s] = <<>> THEN held[s] = report[s] ELSE Head(queue[s]) = report[s]

SocketInv(s) ==
    /\ pc[s] \in {"outside", "joined", "removed", "vanished"} => s \in Bridges
    /\ SocketHolds(s)
    /\ Fresh(s)
    /\ Kept(s)

SocketsInv == \A s \in Sockets : SocketInv(s)

(* Policies *)

Awake(policies) == {i \in DOMAIN policies : policies[i] # "suppress"}

\* There is a last policy other than "suppress", or none at all.
HasLast(policies) ==
    Awake(policies) = {} \/ \E i \in Awake(policies) : \A j \in Awake(policies) : j <= i

PoliciesInv ==
    \A b \in Bridges :
        /\ pc[b] \notin {"outside", "done"} => accepted[b] # <<>>
        /\ accepted[b] # <<>> => HasLast(accepted[b]) /\ disconnectPolicy[b] = LastAwake(accepted[b])
        /\ report[b] # none => report[b].NotificationPolicy = policy[b]

(* The auth server *)

\* Whatever is under way or arrived is stamped, by the connection it is about
\* unless a phone made it; a disconnected report is the last of its connection.
Sound(r) ==
    /\ r \in Report /\ r.Timestamp # 0
    /\ r.ConnectionID # none /\ r.Event # "connection_observed"
        => r.Timestamp <= clock[r.ConnectionID]
    /\ r.ConnectionID # none /\ r.Status = "disconnected"
        => /\ pc[r.ConnectionID] = "done" /\ accepted[r.ConnectionID] # <<>>
           /\ r.Timestamp = clock[r.ConnectionID]
           /\ r.NotificationPolicy = disconnectPolicy[r.ConnectionID]

AuthInv ==
    /\ \A r \in net : Sound(r)
    /\ \A b \in Bridges : record[b] # none => /\ Sound(record[b]) /\ record[b].ConnectionID = b
                                              /\ record[b].Event # "connection_observed"

\* The newest report of a bridge: its last policy report or its connected one.
Newest(b) ==
    IF report[b] # none THEN report[b]
    ELSE [Status |-> "connected", Event |-> none, NotificationPolicy |-> policy[b],
          ConnectionID |-> ConnectionID[b], Timestamp |-> 1]

\* The auth server and the network have no other report of the present time.
Unrivalled(b, r) ==
    r # none /\ r.ConnectionID = b /\ r.Event # "connection_observed" /\ r.Timestamp = clock[b]
        => r = Newest(b)

\* The newest report waits, is about to be sent, is under way or has arrived.
Somewhere(b) ==
    \/ queue[b] # <<>> /\ Head(queue[b]) = Newest(b)
    \/ sender[b] = "received" /\ held[b] = Newest(b)
    \/ Newest(b) \in net
    \/ record[b] = Newest(b)

NewestInv ==
    \A b \in Bridges :
        ConnectionID[b] = b /\ Reported(b) =>
            /\ \A r \in net \cup {record[b]} : Unrivalled(b, r)
            /\ pc[b] = "serving" /\ ctx[b] = "open" => Somewhere(b)

IInv ==
    /\ TypeOK
    /\ SocketsInv
    /\ PoliciesInv
    /\ AuthInv
    /\ NewestInv

-------------------------------------------------------------------------------
(* Reports *)

USE DEF Goto, Tick, episodeVars, handlerVars, senderVars, authVars

\* The constants, as the steps use them.
LEMMA Constants ==
    /\ Bridges \subseteq Sockets /\ Phones \subseteq Sockets /\ Bridges \cap Phones = {}
    /\ \A s \in Sockets : s # none
    /\ none \notin Policies /\ none \notin Report /\ none # "connection_observed"
    /\ \A b \in Bridges : ConnectionID[b] \in {b, none}
    /\ \A b \in Bridges : Requests[b] \subseteq Policies \cup {none}
  BY SocketsAssumption DEF Sockets

\* normalizeNotificationPolicy always yields a known policy (handler.go:560).
LEMMA NormalizedKnown ==
    ASSUME NEW requested PROVE normalizeNotificationPolicy(requested) \in Policies
  BY DEF normalizeNotificationPolicy, Policies

\* A bridge's report is a report, with the fields it was given.
LEMMA BridgeReportFields ==
    ASSUME NEW b \in Bridges, NEW status \in {"connected", "disconnected"},
           NEW event \in {none, "notification_policy", "connection_observed"},
           NEW pol \in Policies \cup {none}
    PROVE  LET r == BridgeReport(b, status, event, pol) IN
           /\ r \in Report
           /\ r.Status = status /\ r.Event = event /\ r.NotificationPolicy = pol
           /\ r.ConnectionID = ConnectionID[b] /\ r.Timestamp = 0
  BY Constants DEF BridgeReport, Report

\* Stamping changes the timestamp only.
LEMMA StampedFields ==
    ASSUME NEW s \in Sockets, NEW r \in Report, clock[s] \in Nat
    PROVE  /\ Stamped(s, r) \in Report
           /\ Stamped(s, r).Timestamp = clock[s] + 1 /\ Stamped(s, r).Timestamp # 0
           /\ Stamped(s, r).Status = r.Status /\ Stamped(s, r).Event = r.Event
           /\ Stamped(s, r).NotificationPolicy = r.NotificationPolicy
           /\ Stamped(s, r).ConnectionID = r.ConnectionID
  BY DEF Stamped, Report

\* A channel of capacity one is empty or holds one report.
LEMMA Channel ==
    ASSUME TypeOK, NEW s \in Sockets
    PROVE  /\ queue[s] \in Seq(Report)
           /\ queue[s] # <<>> => Head(queue[s]) \in Report
  BY DEF TypeOK

-------------------------------------------------------------------------------
(* Types *)

\* Every step keeps the type invariant, given what the sockets hold.
LEMMA TypeStep == TypeOK /\ SocketsInv /\ PoliciesInv /\ [Next]_vars => TypeOK'
<1> SUFFICES ASSUME TypeOK, SocketsInv, PoliciesInv, [Next]_vars PROVE TypeOK'
  OBVIOUS
<1> USE Constants
<1>1. ASSUME NEW b \in Sockets, JoinBridge(b) PROVE TypeOK'
  <2>1. PICK initial \in Policies :
          /\ policy' = [policy EXCEPT ![b] = initial]
          /\ disconnectPolicy' = [disconnectPolicy EXCEPT ![b] = initial]
          /\ accepted' = [accepted EXCEPT ![b] = <<initial>>]
    BY <1>1, NormalizedKnown DEF JoinBridge
  <2>2. b \in Bridges /\ current' = b /\ pc' = [pc EXCEPT ![b] = "joined"]
    BY <1>1 DEF JoinBridge
  <2>3. UNCHANGED <<ctx, report, queue, senderVars, authVars, clock>>
    BY <1>1 DEF JoinBridge
  <2>4. accepted' \in [Sockets -> Seq(Policies \cup {none})]
    BY <2>1 DEF TypeOK
  <2>5. \A d \in Bridges : accepted'[d] # <<>> => {policy'[d], disconnectPolicy'[d]} \subseteq Policies
    BY <2>1 DEF TypeOK
  <2> QED BY <2>1, <2>2, <2>3, <2>4, <2>5 DEF TypeOK, Phases
<1>2. ASSUME NEW b \in Sockets, ReportConnected(b) PROVE TypeOK'
  <2>1. b \in Bridges /\ clock[b] \in Nat
    BY <1>2 DEF ReportConnected, SocketsInv, SocketInv, TypeOK
  <2> DEFINE r == BridgeReport(b, "connected", none, policy[b])
  <2>2. r \in Report
    BY <2>1, BridgeReportFields DEF TypeOK
  <2>3. Stamped(b, r) \in Report /\ Stamped(b, r).Timestamp # 0
    BY <2>1, <2>2, StampedFields
  <2>4. net' = net \cup {Stamped(b, r)} /\ clock' = [clock EXCEPT ![b] = @ + 1]
    BY <1>2 DEF ReportConnected, Send
  <2> HIDE DEF r
  <2> QED BY <1>2, <2>1, <2>3, <2>4 DEF ReportConnected, TypeOK, Phases
<1>3. ASSUME NEW b \in Bridges, NEW requested \in Requests[b], NotificationPolicy(b, requested) PROVE TypeOK'
  <2> DEFINE updated == normalizeNotificationPolicy(requested)
             r == BridgeReport(b, "connected", "notification_policy", updated)
  <2>1. updated \in Policies
    BY NormalizedKnown
  <2>2. r \in Report
    BY <2>1, BridgeReportFields
  <2>3. /\ policy' = [policy EXCEPT ![b] = updated]
        /\ disconnectPolicy' = [disconnectPolicy EXCEPT ![b] = disconnectPolicyAfter(b, updated)]
        /\ accepted' = [accepted EXCEPT ![b] = Append(@, updated)]
        /\ report' = [report EXCEPT ![b] = r]
        /\ pc' = [pc EXCEPT ![b] = "noted"] /\ pc[b] = "serving"
        /\ UNCHANGED <<current, ctx, queue, senderVars, authVars, clock>>
    BY <1>3 DEF NotificationPolicy, Reading
  <2> HIDE DEF updated, r
  <2>4. disconnectPolicyAfter(b, updated) \in Policies
    BY <2>1, <2>3 DEF disconnectPolicyAfter, TypeOK, PoliciesInv
  <2>5. accepted' \in [Sockets -> Seq(Policies \cup {none})]
    BY <2>1, <2>3 DEF TypeOK
  <2>6. \A d \in Bridges : accepted'[d] # <<>> => {policy'[d], disconnectPolicy'[d]} \subseteq Policies
    BY <2>1, <2>3, <2>4 DEF TypeOK
  <2>7. policy' \in [Bridges -> Policies \cup {none}] /\ disconnectPolicy' \in [Bridges -> Policies \cup {none}]
    BY <2>1, <2>3, <2>4 DEF TypeOK
  <2> QED BY <2>2, <2>3, <2>5, <2>6, <2>7 DEF TypeOK, Phases
<1>4. ASSUME NEW p \in Sockets, ConnectionObserved(p) PROVE TypeOK'
  <2> DEFINE r == BridgeReport(current, "connected", "connection_observed", none)
  <2>1. r \in Report
    BY <1>4, BridgeReportFields DEF ConnectionObserved, TypeOK
  <2>2. /\ p \in Phones /\ report' = [report EXCEPT ![p] = r]
        /\ accepted' = [accepted EXCEPT ![p] = Append(@, none)]
        /\ pc' = [pc EXCEPT ![p] = "noted"]
        /\ UNCHANGED <<current, policy, disconnectPolicy, ctx, queue, senderVars, authVars, clock>>
    BY <1>4 DEF ConnectionObserved
  <2> HIDE DEF r
  <2>3. accepted' \in [Sockets -> Seq(Policies \cup {none})]
    BY <2>2 DEF TypeOK
  <2>4. \A d \in Bridges : accepted'[d] = accepted[d]
    BY <2>2 DEF TypeOK
  <2> QED BY <2>1, <2>2, <2>3, <2>4 DEF TypeOK, Phases
<1>5. ASSUME NEW s \in Sockets, Offer(s) PROVE TypeOK'
  <2>1. clock[s] \in Nat /\ report[s] \in Report
    BY <1>5 DEF Offer, SocketsInv, SocketInv, SocketHolds, OwnReport, TypeOK
  <2>2. Stamped(s, report[s]) \in Report
    BY <2>1, StampedFields
  <2>3. /\ report' = [report EXCEPT ![s] = Stamped(s, report[s])]
        /\ clock' = [clock EXCEPT ![s] = @ + 1]
        /\ UNCHANGED <<episodeVars, ctx, senderVars, authVars>>
        /\ pc' = [pc EXCEPT ![s] = "serving"] \/ pc' = [pc EXCEPT ![s] = "full"]
        /\ queue' = queue \/ queue' = [queue EXCEPT ![s] = <<report'[s]>>]
    BY <1>5 DEF Offer, TypeOK
  <2>4. report'[s] \in Report
    BY <2>2, <2>3 DEF TypeOK
  <2>5. queue' \in [Sockets -> Seq(Report)] /\ \A t \in Sockets : Len(queue'[t]) <= 1
    <3>1. CASE queue' = queue
      BY <3>1 DEF TypeOK
    <3>2. CASE queue' = [queue EXCEPT ![s] = <<report'[s]>>]
      BY <2>4, <3>2 DEF TypeOK
    <3> QED BY <2>3, <3>1, <3>2
  <2>6. pc' \in [Sockets -> Phases]
    BY <2>3 DEF TypeOK, Phases
  <2>8. clock' \in [Sockets -> Nat] /\ report' \in [Sockets -> Report \cup {none}]
    BY <2>1, <2>2, <2>3 DEF TypeOK
  <2>7. UNCHANGED <<episodeVars, ctx, senderVars, authVars>>
    BY <2>3
  <2> QED BY <2>5, <2>6, <2>7, <2>8 DEF TypeOK
<1>6. ASSUME NEW s \in Sockets, Drain(s) PROVE TypeOK'
  BY <1>6 DEF Drain, TypeOK, Phases
<1>7. ASSUME NEW s \in Sockets, Refill(s) PROVE TypeOK'
  <2>1. report[s] \in Report
    BY <1>7 DEF Refill, SocketsInv, SocketInv, SocketHolds, OwnReport
  <2>2. queue' \in [Sockets -> Seq(Report)] /\ \A t \in Sockets : Len(queue'[t]) <= 1
    BY <1>7, <2>1 DEF Refill, TypeOK
  <2> QED BY <1>7, <2>2 DEF Refill, TypeOK, Phases
<1>8. ASSUME NEW s \in Sockets, Receive(s) PROVE TypeOK'
  <2>1. Head(queue[s]) \in Report
    BY <1>8, Channel DEF Receive
  <2> QED BY <1>8, <2>1 DEF Receive, TypeOK
<1>9. ASSUME NEW s \in Sockets, SeeDone(s) PROVE TypeOK'
  BY <1>9 DEF SeeDone, Stop, TypeOK
<1>10. ASSUME NEW s \in Sockets, Post(s) PROVE TypeOK'
  <2>1. held[s] \in Report /\ held[s].Timestamp # 0
    BY <1>10 DEF Post, SocketsInv, SocketInv, SocketHolds, OwnReport
  <2>2. CASE ctx[s] = "done"
    BY <1>10, <2>2 DEF Post, Stop, TypeOK
  <2>3. CASE ctx[s] # "done"
    <3>1. /\ sender' = [sender EXCEPT ![s] = "posting"] /\ net' = net \cup {held[s]}
          /\ UNCHANGED <<handlerVars, ctx, report, queue, held, record, clock>>
      BY <1>10, <2>3 DEF Post
    <3>2. net' \subseteq Report /\ \A r \in net' : r.Timestamp # 0
      BY <2>1, <3>1 DEF TypeOK
    <3> QED BY <3>1, <3>2 DEF TypeOK
  <2> QED BY <2>2, <2>3
<1>11. ASSUME NEW s \in Sockets, PostEnds(s) PROVE TypeOK'
  BY <1>11 DEF PostEnds, TypeOK
<1>12. ASSUME NEW s \in Sockets, Cancel(s) PROVE TypeOK'
  BY <1>12 DEF Cancel, TypeOK
<1>13. ASSUME NEW s \in Sockets, Leave(s) PROVE TypeOK'
  BY <1>13 DEF Leave, TypeOK, Phases
<1>14. ASSUME NEW b \in Sockets, CheckReplaced(b) PROVE TypeOK'
  BY <1>14 DEF CheckReplaced, TypeOK, Phases
<1>15. ASSUME NEW b \in Sockets, ReportDisconnected(b) PROVE TypeOK'
  <2>1. b \in Bridges /\ clock[b] \in Nat
    BY <1>15 DEF ReportDisconnected, SocketsInv, SocketInv, TypeOK
  <2> DEFINE r == BridgeReport(b, "disconnected", none, disconnectPolicy[b])
  <2>2. r \in Report
    BY <2>1, BridgeReportFields DEF TypeOK
  <2>3. Stamped(b, r) \in Report /\ Stamped(b, r).Timestamp # 0
    BY <2>1, <2>2, StampedFields
  <2>4. net' = net \cup {Stamped(b, r)} /\ clock' = [clock EXCEPT ![b] = @ + 1]
    BY <1>15 DEF ReportDisconnected, Send
  <2> HIDE DEF r
  <2> QED BY <1>15, <2>1, <2>3, <2>4 DEF ReportDisconnected, TypeOK, Phases
<1>16. ASSUME NEW r \in net, Arrive(r) PROVE TypeOK'
  <2>1. record' \in [Bridges -> Report \cup {none}]
    BY <1>16 DEF Arrive, TypeOK
  <2> QED BY <1>16, <2>1 DEF Arrive, TypeOK
<1>17. CASE Finished \/ UNCHANGED vars
  BY <1>17 DEF Finished, vars, TypeOK
<1> QED
  BY <1>1, <1>2, <1>3, <1>4, <1>5, <1>6, <1>7, <1>8, <1>9, <1>10, <1>11, <1>12, <1>13,
     <1>14, <1>15, <1>16, <1>17 DEF Next, SenderStep, HandlerStep, ClientStep

-------------------------------------------------------------------------------
(* Steps of one socket *)

StepBy(s) == SenderStep(s) \/ HandlerStep(s) \/ ClientStep(s) \/ Cancel(s)

\* Nothing of socket t changes.
Same(t) ==
    /\ pc'[t] = pc[t] /\ ctx'[t] = ctx[t] /\ clock'[t] = clock[t]
    /\ report'[t] = report[t] /\ queue'[t] = queue[t]
    /\ sender'[t] = sender[t] /\ held'[t] = held[t]
    /\ accepted'[t] = accepted[t]
    /\ t \in Bridges => policy'[t] = policy[t] /\ disconnectPolicy'[t] = disconnectPolicy[t]

\* A socket's steps touch no other socket: a handler has its own channel, sender
\* and policies (handler.go:206, 514).
LEMMA OthersSame ==
    ASSUME TypeOK, NEW s \in Sockets, StepBy(s), NEW t \in Sockets, t # s PROVE Same(t)
<1> USE DEF TypeOK, Same
<1>1. CASE JoinBridge(s)
  BY <1>1 DEF JoinBridge
<1>2. CASE ReportConnected(s)
  BY <1>2 DEF ReportConnected, Send
<1>3. ASSUME NEW requested, NotificationPolicy(s, requested) PROVE Same(t)
  BY <1>3 DEF NotificationPolicy
<1>4. CASE ConnectionObserved(s)
  BY <1>4 DEF ConnectionObserved
<1>5. CASE Offer(s)
  <2>1. /\ UNCHANGED <<episodeVars, ctx, senderVars>>
        /\ clock' = [clock EXCEPT ![s] = @ + 1] /\ report' = [report EXCEPT ![s] = Stamped(s, @)]
    BY <1>5 DEF Offer
  <2>2. pc' = [pc EXCEPT ![s] = "serving"] \/ pc' = [pc EXCEPT ![s] = "full"]
    BY <1>5 DEF Offer
  <2>3. queue' = queue \/ queue' = [queue EXCEPT ![s] = <<report'[s]>>]
    BY <1>5 DEF Offer
  <2>4. pc'[t] = pc[t]
    BY <2>2
  <2>5. queue'[t] = queue[t]
    BY <2>3
  <2> QED BY <2>1, <2>4, <2>5
<1>6. CASE Drain(s)
  BY <1>6 DEF Drain
<1>7. CASE Refill(s)
  BY <1>7 DEF Refill
<1>8. CASE Receive(s)
  BY <1>8 DEF Receive
<1>9. CASE SeeDone(s)
  BY <1>9 DEF SeeDone, Stop
<1>10. CASE Post(s)
  BY <1>10 DEF Post, Stop
<1>11. CASE PostEnds(s)
  BY <1>11 DEF PostEnds
<1>12. CASE Cancel(s)
  BY <1>12 DEF Cancel
<1>13. CASE Leave(s)
  BY <1>13 DEF Leave
<1>14. CASE CheckReplaced(s)
  BY <1>14 DEF CheckReplaced
<1>15. CASE ReportDisconnected(s)
  BY <1>15 DEF ReportDisconnected, Send
<1> QED
  BY <1>1, <1>2, <1>3, <1>4, <1>5, <1>6, <1>7, <1>8, <1>9, <1>10, <1>11, <1>12, <1>13,
     <1>14, <1>15 DEF StepBy, SenderStep, HandlerStep, ClientStep

\* An arrival touches no socket, nor does the end.
LEMMA AllSame ==
    ASSUME (\E r \in net : Arrive(r)) \/ Finished \/ UNCHANGED vars, NEW t \in Sockets PROVE Same(t)
  BY DEF Arrive, Finished, vars, Same

\* A step is a socket's, an arrival, or changes nothing.
LEMMA Steps ==
    [Next]_vars => \/ \E s \in Sockets : StepBy(s)
                   \/ \E r \in net : Arrive(r)
                   \/ UNCHANGED vars
  BY DEF Next, StepBy, Finished

\* A report stays its socket's while the clock runs.
LEMMA OwnKept ==
    ASSUME NEW s \in Sockets, NEW r, OwnReport(s, r), clock[s] \in Nat, clock'[s] \in Nat, clock[s] <= clock'[s]
    PROVE  OwnReport(s, r)'
  BY DEF OwnReport, Report

\* A socket that nothing happens to keeps what holds of it.
LEMMA SocketKept == ASSUME NEW t \in Sockets, SocketInv(t), Same(t) PROVE SocketInv(t)'
<1>1. \A r : OwnReport(t, r)' <=> OwnReport(t, r)
  BY DEF OwnReport, Same
<1> QED BY <1>1 DEF SocketInv, SocketHolds, Fresh, Kept, Reported, Same

\* A step of a socket keeps what holds of it: whichever of the drain and the
\* sender's receive comes first, the newest report is kept (handler.go:538).
LEMMA SocketStep == ASSUME TypeOK, TypeOK', NEW s \in Sockets, SocketInv(s), StepBy(s) PROVE SocketInv(s)'
<1> USE DEF SocketInv, SocketHolds, Fresh, Kept, Reported
<1>0. /\ clock[s] \in Nat /\ report[s] \in Report \cup {none} /\ held[s] \in Report \cup {none}
      /\ queue[s] \in Seq(Report) /\ Len(queue[s]) <= 1 /\ ctx[s] \in {"open", "done"}
  BY DEF TypeOK
<1>a. ASSUME clock'[s] = clock[s] PROVE \A r : OwnReport(s, r)' <=> OwnReport(s, r)
  BY <1>a DEF OwnReport
<1>1. CASE JoinBridge(s)
  <2>1. /\ s \in Bridges /\ pc[s] = "outside" /\ pc'[s] = "joined" /\ clock'[s] = clock[s]
        /\ UNCHANGED <<ctx, report, queue, sender, held>>
    BY <1>1 DEF JoinBridge, TypeOK
  <2> QED BY <2>1, <1>a
<1>2. CASE ReportConnected(s)
  <2>1. /\ pc[s] = "joined" /\ pc'[s] = "serving" /\ clock'[s] = clock[s] + 1
        /\ UNCHANGED <<ctx, report, queue, sender, held>>
    BY <1>2 DEF ReportConnected, Send, TypeOK
  <2> QED BY <2>1
<1>3. ASSUME s \in Bridges, NEW requested, NotificationPolicy(s, requested) PROVE SocketInv(s)'
  <2> DEFINE updated == normalizeNotificationPolicy(requested)
             r == BridgeReport(s, "connected", "notification_policy", updated)
  <2>1. /\ pc[s] = "serving" /\ pc'[s] = "noted" /\ clock'[s] = clock[s] /\ report'[s] = r
        /\ UNCHANGED <<ctx, queue, sender, held>>
    BY <1>3 DEF NotificationPolicy, Reading, TypeOK
  <2>2. OwnReport(s, r) /\ r # none
    BY <1>0, <1>3, BridgeReportFields, NormalizedKnown, Constants DEF OwnReport
  <2> HIDE DEF r
  <2> QED BY <1>a, <2>1, <2>2
<1>4. CASE ConnectionObserved(s)
  <2> DEFINE r == BridgeReport(current, "connected", "connection_observed", none)
  <2>1. /\ pc[s] = "serving" /\ pc'[s] = "noted" /\ clock'[s] = clock[s] /\ report'[s] = r
        /\ s \in Phones /\ current \in Bridges
        /\ UNCHANGED <<ctx, queue, sender, held>>
    BY <1>4 DEF ConnectionObserved, Reading, TypeOK
  <2>2. OwnReport(s, r) /\ r # none
    BY <1>0, <2>1, BridgeReportFields, Constants DEF OwnReport
  <2> HIDE DEF r
  <2> QED BY <1>a, <2>1, <2>2
<1>5. CASE Offer(s)
  <2>1. /\ pc[s] = "noted" /\ report'[s] = Stamped(s, report[s]) /\ clock'[s] = clock[s] + 1
        /\ UNCHANGED <<ctx, sender, held>>
        /\ \/ queue[s] = <<>> /\ queue'[s] = <<report'[s]>> /\ pc'[s] = "serving"
           \/ queue[s] # <<>> /\ queue'[s] = queue[s] /\ pc'[s] = "full"
    BY <1>5 DEF Offer, TypeOK
  <2>2. report[s] # none /\ OwnReport(s, report[s])
    BY <2>1
  <2>3. OwnReport(s, report[s])'
    BY <1>0, <2>1, <2>2, StampedFields DEF OwnReport
  <2>4. report'[s].Timestamp = clock'[s] /\ report'[s] # none /\ clock'[s] # 0
    BY <1>0, <2>1, <2>2, StampedFields, Constants DEF OwnReport
  <2>5. held[s] # none => OwnReport(s, held[s])' /\ held[s].Timestamp # clock'[s]
    BY <1>0, <2>1 DEF OwnReport, Report
  <2>6. queue[s] # <<>> => OwnReport(s, Head(queue[s]))' /\ Head(queue[s]).Timestamp # clock'[s]
    BY <1>0, <2>1 DEF OwnReport, Report
  <2>7. CASE queue[s] = <<>>
    <3>1. queue'[s] # <<>> /\ Head(queue'[s]) = report'[s] /\ pc'[s] = "serving"
      BY <2>1, <2>7
    <3> QED BY <2>1, <2>3, <2>4, <2>5, <3>1
  <2>8. CASE queue[s] # <<>>
    BY <2>1, <2>3, <2>4, <2>5, <2>6, <2>8
  <2> QED BY <2>7, <2>8
<1>6. CASE Drain(s)
  <2>1. /\ pc[s] = "full" /\ pc'[s] = "refill" /\ clock'[s] = clock[s] /\ queue'[s] = <<>>
        /\ UNCHANGED <<ctx, report, sender, held>>
    BY <1>6 DEF Drain, TypeOK
  <2> QED BY <1>a, <2>1
<1>7. CASE Refill(s)
  <2>1. /\ pc[s] = "refill" /\ pc'[s] = "serving" /\ clock'[s] = clock[s]
        /\ queue'[s] # <<>> /\ Head(queue'[s]) = report[s]
        /\ UNCHANGED <<ctx, report, sender, held>>
    BY <1>7 DEF Refill, TypeOK
  <2> QED BY <1>a, <2>1
<1>8. CASE Receive(s)
  <2>1. /\ queue[s] # <<>> /\ held'[s] = Head(queue[s]) /\ queue'[s] = <<>>
        /\ clock'[s] = clock[s] /\ UNCHANGED <<pc, ctx, report>>
    BY <1>8 DEF Receive, TypeOK
  <2>2. held'[s] # none
    BY <2>1, Channel, Constants
  <2> QED BY <1>a, <2>1, <2>2
<1>9. CASE SeeDone(s)
  <2>1. /\ ctx[s] = "done" /\ held'[s] = none /\ sender'[s] = "stopped"
        /\ clock'[s] = clock[s] /\ UNCHANGED <<pc, ctx, report, queue>>
    BY <1>9 DEF SeeDone, Stop, TypeOK
  <2> QED BY <1>a, <2>1
<1>10. CASE Post(s)
  <2>1. /\ clock'[s] = clock[s] /\ UNCHANGED <<pc, ctx, report, queue>> /\ sender[s] = "received"
        /\ \/ ctx[s] = "done" /\ held'[s] = none /\ sender'[s] = "stopped"
           \/ held'[s] = held[s] /\ sender'[s] = "posting"
    BY <1>10 DEF Post, Stop, TypeOK
  <2>2. CASE held'[s] = none
    BY <1>a, <2>1, <2>2
  <2>3. CASE held'[s] = held[s]
    BY <1>a, <2>1, <2>3
  <2> QED BY <2>1, <2>2, <2>3
<1>11. CASE PostEnds(s)
  <2>1. /\ clock'[s] = clock[s] /\ UNCHANGED <<pc, ctx, report, queue, held>> /\ sender'[s] = "select"
    BY <1>11 DEF PostEnds, TypeOK
  <2> QED BY <1>a, <2>1
<1>12. CASE Cancel(s)
  <2>1. /\ clock'[s] = clock[s] /\ UNCHANGED <<pc, report, queue, held, sender>> /\ ctx'[s] = "done"
    BY <1>12 DEF Cancel, TypeOK
  <2> QED BY <1>a, <2>1
<1>13. CASE Leave(s)
  <2>1. /\ clock'[s] = clock[s] /\ UNCHANGED <<queue, held, sender>> /\ ctx'[s] = "done"
        /\ report'[s] = none /\ pc'[s] = IF current = s THEN "removed" ELSE "done"
    BY <1>13 DEF Leave, TypeOK
  <2>2. pc'[s] \in {"removed", "done"} /\ (pc'[s] = "removed" => s \in Bridges)
    BY <2>1, Constants DEF TypeOK
  <2> QED BY <1>a, <2>1, <2>2
<1>14. CASE CheckReplaced(s)
  <2>1. /\ clock'[s] = clock[s] /\ UNCHANGED <<ctx, report, queue, held, sender>>
        /\ pc[s] = "removed" /\ pc'[s] \in {"done", "vanished"}
    BY <1>14 DEF CheckReplaced, TypeOK
  <2> QED BY <1>a, <2>1
<1>15. CASE ReportDisconnected(s)
  <2>1. /\ clock'[s] = clock[s] + 1 /\ UNCHANGED <<ctx, report, queue, held, sender>>
        /\ pc'[s] = "done"
    BY <1>15 DEF ReportDisconnected, Send, TypeOK
  <2>2. \A r : OwnReport(s, r) => OwnReport(s, r)'
    BY <1>0, <2>1 DEF OwnReport, Report
  <2> QED BY <2>1, <2>2
<1> HIDE DEF SocketInv, SocketHolds, Fresh, Kept, Reported
<1> QED
  BY <1>1, <1>2, <1>3, <1>4, <1>5, <1>6, <1>7, <1>8, <1>9, <1>10, <1>11, <1>12, <1>13,
     <1>14, <1>15 DEF StepBy, SenderStep, HandlerStep, ClientStep

\* Every step keeps what holds of every socket.
LEMMA SocketsStep == TypeOK /\ TypeOK' /\ SocketsInv /\ [Next]_vars => SocketsInv'
<1> SUFFICES ASSUME TypeOK, TypeOK', SocketsInv, [Next]_vars, NEW t \in Sockets PROVE SocketInv(t)'
  BY DEF SocketsInv
<1>1. SocketInv(t)
  BY DEF SocketsInv
<1>2. ASSUME NEW s \in Sockets, StepBy(s) PROVE SocketInv(t)'
  BY <1>1, <1>2, OthersSame, SocketKept, SocketStep
<1> QED BY <1>1, <1>2, Steps, AllSame, SocketKept

-------------------------------------------------------------------------------
(* Policies *)

\* The first policy of a socket is its last one so far, suppressed or not.
LEMMA LastAwakeFirst ==
    ASSUME NEW u PROVE HasLast(<<u>>) /\ LastAwake(<<u>>) = u
<1>1. DOMAIN <<u>> = {1} /\ <<u>>[1] = u
  OBVIOUS
<1>2. CASE u = "suppress"
  <2>1. Awake(<<u>>) = {}
    BY <1>1, <1>2 DEF Awake
  <2> QED BY <1>2, <2>1 DEF HasLast, LastAwake, Awake
<1>3. CASE u # "suppress"
  <2>1. Awake(<<u>>) = {1}
    BY <1>1, <1>3 DEF Awake
  <2>2. HasLast(<<u>>)
    BY <2>1 DEF HasLast
  <2>3. (CHOOSE i \in {1} : \A j \in {1} : j <= i) = 1
    OBVIOUS
  <2>4. LastAwake(<<u>>) = <<u>>[CHOOSE i \in {1} : \A j \in {1} : j <= i]
    BY <2>1 DEF LastAwake, Awake
  <2> QED BY <1>1, <2>2, <2>3, <2>4
<1> QED BY <1>2, <1>3

\* The next policy becomes the last one awake unless it suppresses: what
\* disconnectPolicy follows one update at a time (handler.go:356).
LEMMA LastAwakeNext ==
    ASSUME NEW P, NEW policies \in Seq(P), NEW u \in P, HasLast(policies)
    PROVE  /\ HasLast(Append(policies, u))
           /\ LastAwake(Append(policies, u)) = IF u # "suppress" THEN u ELSE LastAwake(policies)
<1> DEFINE more == Append(policies, u)
           n == Len(policies)
<1>1. /\ n \in Nat /\ DOMAIN policies = 1 .. n /\ DOMAIN more = 1 .. (n + 1)
      /\ more[n + 1] = u /\ \A i \in 1 .. n : more[i] = policies[i]
  OBVIOUS
<1> HIDE DEF more, n
<1>2. CASE u = "suppress"
  <2>1. Awake(more) = Awake(policies)
    BY <1>1, <1>2 DEF Awake
  <2>2. HasLast(more)
    BY <2>1 DEF HasLast
  <2>3. CASE Awake(policies) = {}
    BY <1>2, <2>1, <2>2, <2>3 DEF LastAwake, Awake, more
  <2>4. CASE Awake(policies) # {}
    <3> DEFINE last == CHOOSE i \in Awake(policies) : \A j \in Awake(policies) : j <= i
    <3>1. last \in Awake(policies)
      BY <2>4 DEF HasLast
    <3>2. LastAwake(policies) = policies[last]
      BY <2>4 DEF LastAwake, Awake
    <3>3. LastAwake(more) = more[last]
      BY <2>1, <2>4 DEF LastAwake, Awake
    <3>4. last \in 1 .. n
      BY <1>1, <3>1 DEF Awake
    <3> HIDE DEF last
    <3>5. more[last] = policies[last]
      BY <1>1, <3>4
    <3> QED BY <1>2, <2>2, <3>2, <3>3, <3>5 DEF more
  <2> QED BY <2>3, <2>4
<1>3. CASE u # "suppress"
  <2>1. n + 1 \in Awake(more) /\ \A j \in Awake(more) : j <= n + 1 /\ j \in Nat
    BY <1>1, <1>3 DEF Awake
  <2>2. HasLast(more) /\ Awake(more) # {}
    BY <2>1 DEF HasLast
  <2> DEFINE last == CHOOSE i \in Awake(more) : \A j \in Awake(more) : j <= i
  <2>3. last \in Awake(more) /\ \A j \in Awake(more) : j <= last
    BY <2>1
  <2>4. LastAwake(more) = more[last]
    BY <2>2 DEF LastAwake, Awake
  <2> HIDE DEF last
  <2>5. last = n + 1
    BY <1>1, <2>1, <2>3
  <2> QED BY <1>1, <1>3, <2>2, <2>4, <2>5 DEF more
<1> QED BY <1>2, <1>3

\* What PoliciesInv says of one bridge.
PolicyInv(b) ==
    /\ pc[b] \notin {"outside", "done"} => accepted[b] # <<>>
    /\ accepted[b] # <<>> => HasLast(accepted[b]) /\ disconnectPolicy[b] = LastAwake(accepted[b])
    /\ report[b] # none => report[b].NotificationPolicy = policy[b]

\* A step of a bridge keeps what holds of its policies.
LEMMA PolicyStep ==
    ASSUME TypeOK, SocketsInv, NEW b \in Bridges, PolicyInv(b), StepBy(b) PROVE PolicyInv(b)'
<1> USE Constants DEF PolicyInv
<1>0. b \in Sockets /\ report[b] \in Report \cup {none} /\ clock[b] \in Nat
      /\ accepted[b] \in Seq(Policies \cup {none}) /\ SocketInv(b)
  BY DEF TypeOK, SocketsInv
<1>1. CASE JoinBridge(b)
  <2>1. PICK initial \in Policies :
          /\ disconnectPolicy'[b] = initial /\ accepted'[b] = <<initial>>
    BY <1>1, NormalizedKnown DEF JoinBridge, TypeOK
  <2>2. report'[b] = none
    BY <1>0, <1>1 DEF JoinBridge, SocketInv, Fresh
  <2>3. HasLast(accepted'[b]) /\ LastAwake(accepted'[b]) = initial /\ accepted'[b] # <<>>
    BY <2>1, LastAwakeFirst
  <2>4. HasLast(accepted[b])' /\ LastAwake(accepted[b])' = initial
    BY <2>3 DEF HasLast, LastAwake, Awake
  <2> QED BY <2>1, <2>2, <2>3, <2>4
<1>2. ASSUME NEW requested, NotificationPolicy(b, requested) PROVE PolicyInv(b)'
  <2> DEFINE u == normalizeNotificationPolicy(requested)
  <2>1. u \in Policies
    BY NormalizedKnown
  <2>2. /\ pc[b] = "serving" /\ policy'[b] = u
        /\ disconnectPolicy'[b] = disconnectPolicyAfter(b, u) /\ accepted'[b] = Append(accepted[b], u)
        /\ report'[b] = BridgeReport(b, "connected", "notification_policy", u)
    BY <1>0, <1>2 DEF NotificationPolicy, Reading, TypeOK
  <2> HIDE DEF u
  <2>3. report'[b].NotificationPolicy = u
    BY <2>1, <2>2, BridgeReportFields
  <2>4. HasLast(accepted[b]) /\ disconnectPolicy[b] = LastAwake(accepted[b])
    BY <2>2
  <2>5. /\ HasLast(Append(accepted[b], u))
        /\ LastAwake(Append(accepted[b], u)) = IF u # "suppress" THEN u ELSE LastAwake(accepted[b])
    BY <1>0, <2>1, <2>4, LastAwakeNext
  <2>6. disconnectPolicyAfter(b, u) = LastAwake(accepted'[b]) /\ HasLast(accepted'[b])
    BY <2>2, <2>4, <2>5 DEF disconnectPolicyAfter
  <2>7. LastAwake(accepted[b])' = LastAwake(accepted'[b]) /\ (HasLast(accepted[b])' <=> HasLast(accepted'[b]))
    BY DEF HasLast, LastAwake, Awake
  <2>8. accepted'[b] # <<>>
    BY <1>0, <2>1, <2>2
  <2> QED BY <2>2, <2>3, <2>6, <2>7, <2>8
<1>3. CASE Offer(b)
  <2>1. /\ report'[b] = Stamped(b, report[b]) /\ UNCHANGED <<accepted, policy, disconnectPolicy>>
        /\ pc[b] = "noted"
    BY <1>0, <1>3 DEF Offer, TypeOK
  <2>2. report[b] \in Report
    BY <1>0, <2>1 DEF SocketInv, SocketHolds
  <2>3. report'[b].NotificationPolicy = report[b].NotificationPolicy
    BY <1>0, <2>1, <2>2, StampedFields
  <2>4. HasLast(accepted[b])' <=> HasLast(accepted[b])
    BY <2>1 DEF HasLast, Awake
  <2>5. LastAwake(accepted[b])' = LastAwake(accepted[b])
    BY <2>1 DEF LastAwake
  <2> QED BY <2>1, <2>2, <2>3, <2>4, <2>5
<1>4. ASSUME UNCHANGED <<accepted, policy, disconnectPolicy>>,
             report'[b] = report[b] \/ report'[b] = none,
             pc'[b] \notin {"outside", "done"} => pc[b] \notin {"outside", "done"}
      PROVE  PolicyInv(b)'
  <2>1. HasLast(accepted[b])' <=> HasLast(accepted[b])
    BY <1>4 DEF HasLast, Awake
  <2>2. LastAwake(accepted[b])' = LastAwake(accepted[b])
    BY <1>4 DEF LastAwake
  <2> QED BY <1>4, <2>1, <2>2
<1>5. CASE SenderStep(b)
  BY <1>4, <1>5 DEF SenderStep, Receive, SeeDone, Post, PostEnds
<1>6. CASE ReportConnected(b) \/ Drain(b) \/ Refill(b)
  BY <1>0, <1>4, <1>6 DEF ReportConnected, Drain, Refill, TypeOK
<1>7. CASE Leave(b)
  BY <1>0, <1>4, <1>7 DEF Leave, TypeOK
<1>8. CASE CheckReplaced(b) \/ ReportDisconnected(b) \/ Cancel(b)
  BY <1>0, <1>4, <1>8 DEF CheckReplaced, ReportDisconnected, Cancel, TypeOK
<1>9. ~ConnectionObserved(b)
  BY DEF ConnectionObserved
<1> HIDE DEF PolicyInv
<1> QED
  BY <1>1, <1>2, <1>3, <1>5, <1>6, <1>7, <1>8, <1>9 DEF StepBy, HandlerStep, ClientStep

\* Every step keeps what holds of the policies.
LEMMA PoliciesStep == TypeOK /\ SocketsInv /\ PoliciesInv /\ [Next]_vars => PoliciesInv'
<1> SUFFICES ASSUME TypeOK, SocketsInv, PoliciesInv, [Next]_vars, NEW b \in Bridges PROVE PolicyInv(b)'
  BY DEF PoliciesInv, PolicyInv
<1>1. PolicyInv(b) /\ b \in Sockets
  BY Constants DEF PoliciesInv, PolicyInv
<1>2. ASSUME Same(b) PROVE PolicyInv(b)'
  <2>1. accepted'[b] = accepted[b]
    BY <1>2 DEF Same
  <2>2. HasLast(accepted[b])' <=> HasLast(accepted[b])
    BY <2>1 DEF HasLast, Awake
  <2>3. LastAwake(accepted[b])' = LastAwake(accepted[b])
    BY <2>1 DEF LastAwake
  <2> QED BY <1>1, <1>2, <2>2, <2>3 DEF PolicyInv, Same
<1>3. ASSUME NEW s \in Sockets, StepBy(s) PROVE PolicyInv(b)'
  BY <1>1, <1>2, <1>3, OthersSame, PolicyStep
<1> QED BY <1>1, <1>2, <1>3, Steps, AllSame

-------------------------------------------------------------------------------
(* The auth server *)

\* Clocks run forward.
LEMMA ClockRuns ==
    ASSUME TypeOK, NEW s \in Sockets, StepBy(s) PROVE clock'[s] \in {clock[s], clock[s] + 1}
<1> USE DEF TypeOK
<1>1. CASE SenderStep(s)
  BY <1>1 DEF SenderStep, Receive, SeeDone, Post, PostEnds
<1>2. CASE HandlerStep(s)
  BY <1>2 DEF HandlerStep, ReportConnected, Send, Offer, Drain, Refill, Leave, CheckReplaced, ReportDisconnected
<1>3. CASE ClientStep(s) \/ Cancel(s)
  BY <1>3 DEF ClientStep, JoinBridge, NotificationPolicy, ConnectionObserved, Leave, Cancel
<1> QED BY <1>1, <1>2, <1>3 DEF StepBy

\* After its handler returned only a socket's sender moves.
LEMMA DoneStays ==
    ASSUME TypeOK, NEW b \in Bridges, pc[b] = "done", StepBy(b)
    PROVE  /\ pc'[b] = pc[b] /\ clock'[b] = clock[b] /\ accepted'[b] = accepted[b]
           /\ disconnectPolicy'[b] = disconnectPolicy[b]
<1>1. SenderStep(b)
  BY DEF StepBy, HandlerStep, ClientStep, ReportConnected, Offer, Drain, Refill, Leave, CheckReplaced,
         ReportDisconnected, JoinBridge, NotificationPolicy, ConnectionObserved, Cancel, Reading
<1> QED BY <1>1 DEF SenderStep, Receive, SeeDone, Post, PostEnds

\* What is true of a report stays true of it: once disconnected, a connection
\* makes no other report.
LEMMA SoundKept == ASSUME TypeOK, TypeOK', [Next]_vars, NEW r, Sound(r) PROVE Sound(r)'
<1>1. CASE r.ConnectionID = none
  BY <1>1 DEF Sound
<1>2. CASE r.ConnectionID # none
  <2> DEFINE b == r.ConnectionID
  <2>1. b \in Bridges /\ b \in Sockets /\ r.Timestamp \in Nat
    BY <1>2, Constants DEF Sound, Report
  <2>2. clock[b] \in Nat
    BY <2>1 DEF TypeOK
  <2>3. /\ clock'[b] \in {clock[b], clock[b] + 1}
        /\ pc[b] = "done" => /\ pc'[b] = pc[b] /\ clock'[b] = clock[b] /\ accepted'[b] = accepted[b]
                             /\ disconnectPolicy'[b] = disconnectPolicy[b]
    <3>1. CASE Same(b)
      BY <2>1, <3>1 DEF Same
    <3>2. CASE StepBy(b)
      BY <2>1, <3>2, ClockRuns, DoneStays
    <3> QED BY <2>1, <3>1, <3>2, Steps, AllSame, OthersSame
  <2> QED BY <1>2, <2>1, <2>2, <2>3 DEF Sound
<1> QED BY <1>1, <1>2

\* What a socket sends is sound, and among the reports of a bridge with the
\* present time there is none but the newest.
LEMMA Sent ==
    ASSUME TypeOK, TypeOK', SocketsInv, PoliciesInv, NEW s \in Sockets, StepBy(s)
    PROVE  /\ record' = record
           /\ \/ net' = net
              \/ \E r : /\ net' = net \cup {r} /\ Sound(r)'
                       /\ \A b \in Bridges : Reported(b)' => Unrivalled(b, r)'
<1> USE Constants
<1>0. SocketInv(s) /\ clock[s] \in Nat
  BY DEF SocketsInv, TypeOK
<1>1. CASE ReportConnected(s)
  <2> DEFINE plain == BridgeReport(s, "connected", none, policy[s])
  <2>0. PICK r : r = Stamped(s, plain)
    OBVIOUS
  <2>1. /\ pc[s] = "joined" /\ net' = net \cup {r} /\ record' = record /\ clock'[s] = clock[s] + 1
        /\ report' = report /\ policy' = policy
    BY <1>1, <2>0 DEF ReportConnected, Send, TypeOK
  <2>2. s \in Bridges /\ clock[s] = 0 /\ report[s] = none
    BY <1>0, <2>1 DEF SocketInv, Fresh
  <2>3. policy[s] \in Policies \cup {none}
    BY <2>2 DEF TypeOK
  <2>4. plain \in Report
    BY <2>2, <2>3, BridgeReportFields
  <2>5. r \in Report /\ r.Timestamp = 1 /\ r.Status = "connected" /\ r.ConnectionID = ConnectionID[s]
    BY <1>0, <2>0, <2>2, <2>3, <2>4, BridgeReportFields, StampedFields
  <2>6. r = [Status |-> "connected", Event |-> none, NotificationPolicy |-> policy[s],
             ConnectionID |-> ConnectionID[s], Timestamp |-> 1]
    BY <2>0, <2>2 DEF Stamped, BridgeReport
  <2> HIDE DEF plain
  <2>7. Sound(r)'
    BY <2>1, <2>2, <2>5 DEF Sound
  <2>8. \A b \in Bridges : Unrivalled(b, r)'
    BY <2>1, <2>2, <2>5, <2>6 DEF Unrivalled, Newest
  <2> QED BY <2>1, <2>7, <2>8
<1>2. CASE ReportDisconnected(s)
  <2> DEFINE plain == BridgeReport(s, "disconnected", none, disconnectPolicy[s])
  <2>0. PICK r : r = Stamped(s, plain)
    OBVIOUS
  <2>1. /\ pc[s] = "vanished" /\ net' = net \cup {r} /\ record' = record /\ clock'[s] = clock[s] + 1
        /\ pc'[s] = "done" /\ UNCHANGED <<disconnectPolicy, accepted>>
    BY <1>2, <2>0 DEF ReportDisconnected, Send, TypeOK
  <2>2. s \in Bridges
    BY <1>0, <2>1 DEF SocketInv
  <2>3. disconnectPolicy[s] \in Policies \cup {none} /\ accepted[s] # <<>>
    BY <2>1, <2>2 DEF TypeOK, PoliciesInv
  <2>4. plain \in Report
    BY <2>2, <2>3, BridgeReportFields
  <2>5. /\ r \in Report /\ r.Timestamp = clock[s] + 1 /\ r.ConnectionID = ConnectionID[s]
        /\ r.NotificationPolicy = disconnectPolicy[s]
    BY <1>0, <2>0, <2>2, <2>3, <2>4, BridgeReportFields, StampedFields
  <2> HIDE DEF plain
  <2>6. Sound(r)'
    BY <1>0, <2>1, <2>2, <2>3, <2>5 DEF Sound
  <2>7. \A b \in Bridges : Reported(b)' => Unrivalled(b, r)'
    BY <2>1, <2>2, <2>5 DEF Unrivalled, Reported
  <2> QED BY <2>1, <2>6, <2>7
<1>3. CASE Post(s) /\ ctx[s] # "done"
  <2>0. PICK r : r = held[s]
    OBVIOUS
  <2>1. /\ sender[s] = "received" /\ net' = net \cup {r}
        /\ UNCHANGED <<pc, clock, report, policy, record>>
    BY <1>3, <2>0 DEF Post
  <2>2. r # none /\ OwnReport(s, r) /\ r.Timestamp # 0
    BY <1>0, <2>0, <2>1 DEF SocketInv, SocketHolds
  <2>3. Sound(r)'
    BY <2>1, <2>2 DEF Sound, OwnReport
  <2>4. ASSUME NEW b \in Bridges, Reported(b)' PROVE Unrivalled(b, r)'
    <3>1. CASE b = s
      <4>1. r.Timestamp = clock[s] => r = report[s]
        BY <1>0, <2>0, <2>1, <2>2, <2>4, <3>1 DEF SocketInv, SocketHolds, Reported
      <4> QED BY <2>1, <2>2, <3>1, <4>1 DEF Unrivalled, Newest
    <3>2. CASE b # s
      <4>1. r.ConnectionID # b \/ r.Event = "connection_observed"
        BY <2>2, <3>2 DEF OwnReport
      <4> QED BY <4>1 DEF Unrivalled
    <3> QED BY <3>1, <3>2
  <2> QED BY <2>1, <2>3, <2>4
<1>4. CASE Post(s) /\ ctx[s] = "done"
  BY <1>4 DEF Post
<1>5. ASSUME ~ReportConnected(s), ~ReportDisconnected(s), ~Post(s) PROVE record' = record /\ net' = net
  <2>1. CASE SenderStep(s)
    BY <1>5, <2>1 DEF SenderStep, Receive, SeeDone, PostEnds
  <2>2. CASE HandlerStep(s)
    BY <1>5, <2>2 DEF HandlerStep, Offer, Drain, Refill, Leave, CheckReplaced
  <2>3. CASE ClientStep(s) \/ Cancel(s)
    BY <2>3 DEF ClientStep, JoinBridge, NotificationPolicy, ConnectionObserved, Leave, Cancel
  <2> QED BY <2>1, <2>2, <2>3 DEF StepBy
<1> QED BY <1>1, <1>2, <1>3, <1>4, <1>5

\* Every step keeps what holds of the auth server's side.
LEMMA AuthStep ==
    TypeOK /\ TypeOK' /\ SocketsInv /\ PoliciesInv /\ AuthInv /\ [Next]_vars => AuthInv'
<1> SUFFICES ASSUME TypeOK, TypeOK', SocketsInv, PoliciesInv, AuthInv, [Next]_vars PROVE AuthInv'
  OBVIOUS
<1>1. /\ \A r \in net : Sound(r)'
      /\ \A b \in Bridges : record[b] # none => Sound(record[b]) /\ record[b].ConnectionID = b
                                                /\ record[b].Event # "connection_observed"
  BY SoundKept DEF AuthInv
<1>2. \A b \in Bridges : \A r : record[b] = r /\ r # none => Sound(r)'
  BY <1>1, SoundKept
<1>3. ASSUME NEW s \in Sockets, StepBy(s) PROVE AuthInv'
  <2>1. record' = record /\ (net' = net \/ \E r : net' = net \cup {r} /\ Sound(r)')
    BY <1>3, Sent
  <2>2. \A b \in Bridges : record'[b] # none => Sound(record[b])' /\ record'[b].ConnectionID = b
                                                 /\ record'[b].Event # "connection_observed"
    BY <1>1, <1>2, <2>1 DEF Sound
  <2> QED BY <1>1, <2>1, <2>2 DEF AuthInv
<1>4. ASSUME NEW r0 \in net, Arrive(r0) PROVE AuthInv'
  <2>1. net' = net \ {r0}
    BY <1>4 DEF Arrive
  <2>2. ASSUME NEW b \in Bridges, record'[b] # none
        PROVE  Sound(record[b])' /\ record'[b].ConnectionID = b /\ record'[b].Event # "connection_observed"
    <3>1. \/ record'[b] = record[b]
          \/ record'[b] = r0 /\ r0.ConnectionID = b /\ r0.Event # "connection_observed"
      BY <1>4 DEF Arrive
    <3>2. CASE record'[b] = record[b]
      BY <1>1, <1>2, <2>2, <3>2 DEF Sound
    <3>3. CASE record'[b] = r0 /\ r0.ConnectionID = b /\ r0.Event # "connection_observed"
      BY <1>1, <3>3 DEF Sound
    <3> QED BY <3>1, <3>2, <3>3
  <2> QED BY <1>1, <2>1, <2>2 DEF AuthInv
<1>5. CASE UNCHANGED vars
  BY <1>1, <1>2, <1>5 DEF AuthInv, vars, Sound
<1> QED BY <1>3, <1>4, <1>5, Steps

-------------------------------------------------------------------------------
(* The newest report *)

\* What NewestInv says of one bridge.
BridgeNewest(b) ==
    ConnectionID[b] = b /\ Reported(b) =>
        /\ \A r \in net \cup {record[b]} : Unrivalled(b, r)
        /\ pc[b] = "serving" /\ ctx[b] = "open" => Somewhere(b)

\* The newest report of a bridge has its present time.
LEMMA NewestStamped ==
    ASSUME TypeOK, SocketsInv, NEW b \in Bridges, ConnectionID[b] = b, Reported(b),
           pc[b] = "serving" \/ report[b] # none
    PROVE  /\ Newest(b) # none /\ Newest(b).ConnectionID = b
           /\ Newest(b).Event # "connection_observed" /\ Newest(b).Timestamp = clock[b]
<1>1. b \in Sockets /\ SocketInv(b) /\ report[b] \in Report \cup {none} /\ policy[b] \in Policies \cup {none}
  BY Constants DEF SocketsInv, TypeOK
<1>2. CASE report[b] # none
  BY <1>1, <1>2 DEF Newest, SocketInv, SocketHolds, OwnReport
<1>3. CASE report[b] = none
  <2>1. clock[b] = 1
    BY <1>1, <1>3 DEF SocketInv, Fresh
  <2>2. Newest(b) \in Report
    BY <1>1, <1>3, Constants DEF Newest, Report
  <2> QED BY <1>3, <2>1, <2>2, Constants DEF Newest
<1> QED BY <1>2, <1>3

\* A step of the bridge: its newest report moves on from the channel to the
\* sender and the network and is not lost on the way.
LEMMA NewestOwnStep ==
    ASSUME TypeOK, TypeOK', SocketsInv, SocketsInv', PoliciesInv, AuthInv,
           NEW b \in Bridges, BridgeNewest(b), StepBy(b)
    PROVE  BridgeNewest(b)'
<1> SUFFICES ASSUME ConnectionID[b] = b, Reported(b)'
             PROVE  /\ \A r \in net' \cup {record'[b]} : Unrivalled(b, r)'
                    /\ (pc[b] = "serving" /\ ctx[b] = "open" => Somewhere(b))'
  BY DEF BridgeNewest, Unrivalled
<1>0. /\ b \in Sockets /\ SocketInv(b) /\ clock[b] \in Nat /\ record' = record
      /\ ctx[b] \in {"open", "done"}
  BY Constants, Sent DEF SocketsInv, TypeOK
<1>1. ASSUME NEW r \in net' \cup {record[b]} PROVE r \in net \cup {record[b]} \/ Unrivalled(b, r)'
  BY <1>0, Sent
<1>2. ASSUME NEW r \in net \cup {record[b]}, r # none, r.ConnectionID = b, r.Event # "connection_observed"
      PROVE  r.Timestamp \in Nat /\ r.Timestamp # 0 /\ r.Timestamp <= clock[b]
  BY <1>2, Constants DEF AuthInv, Sound, Report
\* With a new time on the clock there is no old report of that time.
<1>3. ASSUME clock'[b] = clock[b] + 1 PROVE \A r \in net' \cup {record'[b]} : Unrivalled(b, r)'
  BY <1>0, <1>1, <1>2, <1>3 DEF Unrivalled
\* Without one the newest report is as it was.
<1>4. ASSUME Reported(b), UNCHANGED <<clock, report, policy>>
      PROVE  (\A r \in net' \cup {record'[b]} : Unrivalled(b, r)') /\ Newest(b)' = Newest(b)
  <2>1. \A r \in net \cup {record[b]} : Unrivalled(b, r)
    BY <1>4 DEF BridgeNewest
  <2>2. Newest(b)' = Newest(b)
    BY <1>4 DEF Newest
  <2> QED BY <1>0, <1>1, <1>4, <2>1, <2>2 DEF Unrivalled
<1>5. CASE ReportConnected(b)
  <2>1. /\ pc[b] = "joined" /\ clock'[b] = clock[b] + 1 /\ report' = report /\ policy' = policy
        /\ net' = net \cup {Stamped(b, BridgeReport(b, "connected", none, policy[b]))}
    BY <1>0, <1>5 DEF ReportConnected, Send, TypeOK
  <2>2. clock[b] = 0 /\ report[b] = none
    BY <1>0, <2>1 DEF SocketInv, Fresh
  <2>3. Stamped(b, BridgeReport(b, "connected", none, policy[b])) = Newest(b)'
    BY <2>1, <2>2 DEF Newest, Stamped, BridgeReport
  <2> QED BY <1>3, <2>1, <2>3 DEF Somewhere
<1>6. CASE Offer(b)
  <2>1. /\ clock'[b] = clock[b] + 1
        /\ pc'[b] = "serving" => queue'[b] = <<report'[b]>>
    BY <1>0, <1>6 DEF Offer, TypeOK
  <2>2. report'[b] # none
    <3>1. report[b] \in Report
      BY <1>0, <1>6 DEF Offer, SocketInv, SocketHolds, OwnReport
    <3>2. report'[b] = Stamped(b, report[b])
      BY <1>0, <1>6 DEF Offer, TypeOK
    <3> QED BY <1>0, <3>1, <3>2, StampedFields, Constants
  <2>3. pc'[b] = "serving" => queue'[b] # <<>> /\ Head(queue'[b]) = Newest(b)'
    BY <2>1, <2>2 DEF Newest
  <2> QED BY <1>3, <2>1, <2>3 DEF Somewhere
<1>7. CASE Drain(b)
  <2>1. Reported(b) /\ pc'[b] = "refill" /\ UNCHANGED <<clock, report, policy>>
    BY <1>0, <1>7 DEF Drain, Reported, TypeOK
  <2> QED BY <1>4, <2>1
<1>8. CASE Refill(b)
  <2>1. /\ Reported(b) /\ pc[b] = "refill" /\ UNCHANGED <<clock, report, policy>>
        /\ queue'[b] = <<report[b]>>
    BY <1>0, <1>8 DEF Refill, Reported, TypeOK
  <2>2. report[b] # none
    BY <1>0, <2>1 DEF SocketInv, SocketHolds
  <2>3. queue'[b] # <<>> /\ Head(queue'[b]) = Newest(b)'
    BY <2>1, <2>2 DEF Newest
  <2> QED BY <1>4, <2>1, <2>3 DEF Somewhere
<1>9. CASE SenderStep(b)
  <2>1. UNCHANGED <<pc, ctx, clock, report, policy>> /\ Reported(b)
    BY <1>9 DEF SenderStep, Receive, SeeDone, Post, PostEnds, Reported
  <2>2. ASSUME pc[b] = "serving", ctx[b] = "open" PROVE Somewhere(b)'
    <3>1. Newest(b)' = Newest(b) /\ Somewhere(b)
      BY <1>4, <2>1, <2>2 DEF BridgeNewest
    <3>2. CASE Receive(b)
      <4>1. /\ sender[b] = "select" /\ sender'[b] = "received" /\ held'[b] = Head(queue[b])
            /\ net' = net
        BY <1>0, <3>2 DEF Receive, TypeOK
      <4> QED BY <1>0, <3>1, <4>1 DEF Somewhere
    <3>3. CASE Post(b)
      <4>1. net' = net \cup {held[b]} /\ queue' = queue
        BY <2>2, <3>3 DEF Post
      <4> QED BY <1>0, <3>1, <4>1 DEF Somewhere
    <3>4. CASE PostEnds(b)
      <4>1. sender[b] = "posting" /\ net' = net /\ queue' = queue
        BY <3>4 DEF PostEnds
      <4> QED BY <1>0, <3>1, <4>1 DEF Somewhere
    <3>5. ~SeeDone(b)
      BY <2>2 DEF SeeDone
    <3> QED BY <1>9, <3>2, <3>3, <3>4, <3>5 DEF SenderStep
  <2> QED BY <1>4, <2>1, <2>2
<1>10. CASE Cancel(b)
  <2>1. UNCHANGED <<pc, clock, report, policy>> /\ ctx'[b] = "done" /\ Reported(b)
    BY <1>0, <1>10 DEF Cancel, Reported, TypeOK
  <2> QED BY <1>4, <2>1
<1>11. ~(JoinBridge(b) \/ ConnectionObserved(b) \/ Leave(b) \/ CheckReplaced(b) \/ ReportDisconnected(b))
  BY <1>0, Constants DEF JoinBridge, ConnectionObserved, Leave, CheckReplaced, ReportDisconnected, Reported, TypeOK
<1>12. ~\E requested : NotificationPolicy(b, requested)
  BY <1>0 DEF NotificationPolicy, Reported, TypeOK
<1> QED
  BY <1>5, <1>6, <1>7, <1>8, <1>9, <1>10, <1>11, <1>12 DEF StepBy, HandlerStep, ClientStep

\* Every step keeps the newest reports somewhere: no arrival, in whatever order,
\* replaces one in the auth server's record.
LEMMA NewestStep ==
    TypeOK /\ TypeOK' /\ SocketsInv /\ SocketsInv' /\ PoliciesInv /\ AuthInv /\ NewestInv /\ [Next]_vars
        => NewestInv'
<1> SUFFICES ASSUME TypeOK, TypeOK', SocketsInv, SocketsInv', PoliciesInv, AuthInv, NewestInv, [Next]_vars,
                    NEW b \in Bridges
             PROVE  BridgeNewest(b)'
  BY DEF NewestInv, BridgeNewest
<1>1. BridgeNewest(b) /\ b \in Sockets
  BY Constants DEF NewestInv, BridgeNewest
<1>2. ASSUME Same(b) PROVE Newest(b)' = Newest(b) /\ (Reported(b)' <=> Reported(b))
  BY <1>2 DEF Same, Newest, Reported
<1>3. ASSUME NEW s \in Sockets, StepBy(s), s # b PROVE BridgeNewest(b)'
  <2>1. Same(b)
    BY <1>1, <1>3, OthersSame
  <2>2. record' = record /\ \A r \in net' : r \in net \/ (Reported(b)' => Unrivalled(b, r)')
    BY <1>3, Sent
  <2>3. net \subseteq net'
    BY <1>3, Sent
  <2>4. ASSUME ConnectionID[b] = b, Reported(b)' PROVE \A r \in net' \cup {record'[b]} : Unrivalled(b, r)'
    BY <1>1, <1>2, <2>1, <2>2, <2>4 DEF BridgeNewest, Unrivalled, Same
  <2>5. ASSUME ConnectionID[b] = b, (Reported(b) /\ pc[b] = "serving" /\ ctx[b] = "open")' PROVE Somewhere(b)'
    BY <1>1, <1>2, <2>1, <2>2, <2>3, <2>5 DEF BridgeNewest, Somewhere, Same
  <2> QED BY <2>4, <2>5 DEF BridgeNewest, Unrivalled
<1>4. ASSUME NEW r0 \in net, Arrive(r0) PROVE BridgeNewest(b)'
  <2>1. Same(b)
    BY <1>1, <1>4, AllSame
  <2>2. net' = net \ {r0}
    BY <1>4 DEF Arrive
  <2>3. record'[b] = IF /\ r0.ConnectionID = b /\ r0.Event # "connection_observed"
                        /\ record[b] = none \/ record[b].Timestamp < r0.Timestamp
                     THEN r0 ELSE record[b]
    BY <1>4 DEF Arrive
  <2>4. ASSUME ConnectionID[b] = b, Reported(b)' PROVE \A r \in net' \cup {record'[b]} : Unrivalled(b, r)'
    <3>1. \A r \in net \cup {record[b]} : Unrivalled(b, r)
      BY <1>1, <1>2, <2>1, <2>4 DEF BridgeNewest
    <3>2. net' \cup {record'[b]} \subseteq net \cup {record[b]}
      BY <2>2, <2>3
    <3> QED BY <1>2, <2>1, <3>1, <3>2 DEF Unrivalled, Same
  <2>5. ASSUME ConnectionID[b] = b, (Reported(b) /\ pc[b] = "serving" /\ ctx[b] = "open")' PROVE Somewhere(b)'
    <3>1. /\ Somewhere(b) /\ Reported(b) /\ pc[b] = "serving"
          /\ \A r \in net \cup {record[b]} : Unrivalled(b, r)
      BY <1>1, <1>2, <2>1, <2>5 DEF BridgeNewest, Same
    <3>2. /\ Newest(b) # none /\ Newest(b).ConnectionID = b
          /\ Newest(b).Event # "connection_observed" /\ Newest(b).Timestamp = clock[b]
      BY <2>5, <3>1, NewestStamped
    <3>3. clock[b] \in Nat /\ Sound(r0) /\ (record[b] # none => Sound(record[b]) /\ record[b].ConnectionID = b
                                                /\ record[b].Event # "connection_observed")
      BY <1>1 DEF AuthInv, TypeOK
    <3>4. CASE record[b] = Newest(b)
      <4>1. r0.ConnectionID = b /\ r0.Event # "connection_observed" => ~(record[b].Timestamp < r0.Timestamp)
        BY <3>2, <3>3, <3>4, Constants DEF Sound, Report
      <4>2. record'[b] = record[b]
        BY <2>3, <3>2, <3>4, <4>1
      <4> QED BY <1>2, <2>1, <3>4, <4>2 DEF Somewhere
    <3>5. CASE Newest(b) = r0
      <4>1. record[b] # none => record[b].Timestamp \in Nat /\ record[b].Timestamp <= clock[b]
        BY <3>3, Constants DEF Sound, Report
      <4>2. record[b] # none /\ record[b].Timestamp = clock[b] => record[b] = Newest(b)
        BY <3>1, <3>3 DEF Unrivalled
      <4>3. record'[b] = Newest(b)
        BY <2>3, <3>2, <3>3, <3>5, <4>1, <4>2
      <4> QED BY <1>2, <2>1, <4>3 DEF Somewhere
    <3>6. CASE Newest(b) \in net /\ Newest(b) # r0
      BY <1>2, <2>1, <2>2, <3>6 DEF Somewhere
    <3>7. CASE (queue[b] # <<>> /\ Head(queue[b]) = Newest(b)) \/ (sender[b] = "received" /\ held[b] = Newest(b))
      BY <1>2, <2>1, <3>7 DEF Somewhere, Same
    <3> QED BY <3>1, <3>4, <3>5, <3>6, <3>7 DEF Somewhere
  <2> QED BY <2>4, <2>5 DEF BridgeNewest, Unrivalled
<1>5. CASE UNCHANGED vars
  BY <1>1, <1>5 DEF BridgeNewest, Unrivalled, Somewhere, Newest, Reported, vars
<1>6. CASE StepBy(b)
  BY <1>1, <1>6, NewestOwnStep
<1> QED BY <1>3, <1>4, <1>5, <1>6, Steps

-------------------------------------------------------------------------------
(* Theorems *)

\* The initial states satisfy the invariant.
LEMMA InitIInv == Init => IInv
<1> SUFFICES ASSUME Init PROVE IInv
  OBVIOUS
<1> USE Constants
<1>0. /\ \A s \in Sockets : /\ report[s] = none /\ queue[s] = <<>> /\ held[s] = none /\ clock[s] = 0
                            /\ accepted[s] = <<>> /\ sender[s] \in {"select", "stopped"}
      /\ net = {} /\ \A b \in Bridges : record[b] = none
  BY DEF Init
<1>1. PICK cast \in Casts :
        /\ pc = [s \in Sockets |-> CASE s \notin cast -> "done"
                                     [] s \in cast \cap Bridges -> "outside"
                                     [] OTHER -> "serving"]
        /\ ctx = [s \in Sockets |-> IF s \in cast THEN "open" ELSE "done"]
        /\ sender = [s \in Sockets |-> IF s \in cast THEN "select" ELSE "stopped"]
  BY DEF Init
<1>2. \A s \in Sockets : pc[s] \in {"done", "outside", "serving"} /\ (pc[s] = "outside" <=> s \in cast /\ s \in Bridges)
                        /\ (pc[s] = "serving" => s \notin Bridges)
  BY <1>1
<1>3. pc \in [Sockets -> Phases]
  BY <1>1, <1>2 DEF Phases
<1>4. TypeOK
  <2>1. /\ ctx \in [Sockets -> {"open", "done"}] /\ sender \in [Sockets -> {"select", "received", "posting", "stopped"}]
    BY <1>1
  <2>2. /\ queue \in [Sockets -> Seq(Report)] /\ \A s \in Sockets : Len(queue[s]) <= 1
        /\ accepted \in [Sockets -> Seq(Policies \cup {none})]
    BY DEF Init
  <2>3. /\ current = none /\ policy \in [Bridges -> {none}] /\ disconnectPolicy \in [Bridges -> {none}]
        /\ report \in [Sockets -> {none}] /\ held \in [Sockets -> {none}] /\ record \in [Bridges -> {none}]
        /\ clock \in [Sockets -> Nat]
    BY DEF Init
  <2> QED BY <1>0, <1>3, <2>1, <2>2, <2>3 DEF TypeOK
<1>5. SocketsInv
  BY <1>0, <1>2 DEF SocketsInv, SocketInv, SocketHolds, Fresh, Kept, Reported
<1>6. PoliciesInv
  BY <1>0, <1>2 DEF PoliciesInv
<1>7. AuthInv
  BY <1>0 DEF AuthInv
<1>8. NewestInv
  BY <1>0, <1>2 DEF NewestInv, Reported
<1> QED BY <1>4, <1>5, <1>6, <1>7, <1>8 DEF IInv

\* The invariant holds in every reachable state.
LEMMA Invariant == Spec => []IInv
<1>1. IInv /\ [Next]_vars => IInv'
  BY TypeStep, SocketsStep, PoliciesStep, AuthStep, NewestStep DEF IInv
<1> QED BY InitIInv, <1>1, PTL DEF Spec

\* Handlers, senders, channels and reports keep their types, and a bridge in the
\* group has a known policy whatever its client sent.
THEOREM TypeCorrect == Spec => []TypeOK
<1>1. IInv => TypeOK
  BY DEF IInv
<1> QED BY Invariant, <1>1, PTL

\* The plain send of reportControl never waits (handler.go:553).
THEOREM RefillCorrect == Spec => []RefillHasRoom
<1>1. IInv => RefillHasRoom
  BY DEF IInv, SocketsInv, SocketInv, Kept, RefillHasRoom
<1> QED BY Invariant, <1>1, PTL

\* reportControl never drops the newest report of an open socket, however its
\* drain and the sender's receive interleave.
THEOREM NewestKeptCorrect == Spec => []NewestKept
<1>1. IInv => NewestKept
  BY DEF IInv, SocketsInv, SocketInv, Kept, NewestKept
<1> QED BY Invariant, <1>1, PTL

\* A disconnected report carries the last policy of its socket that was not a
\* suppression, for any number of updates (handler.go:353, 283).
THEOREM DisconnectEligibilityCorrect == Spec => []DisconnectEligibility
<1>1. IInv => DisconnectEligibility
  <2> SUFFICES ASSUME IInv, NEW r \in net \cup {record[b] : b \in Bridges},
                      r # none, r.Status = "disconnected", r.ConnectionID # none
               PROVE  r.NotificationPolicy = LastAwake(accepted[r.ConnectionID])
    BY DEF DisconnectEligibility
  <2>1. Sound(r)
    BY DEF IInv, AuthInv
  <2>2. r.ConnectionID \in Bridges
    BY <2>1 DEF Sound, Report
  <2> QED BY <2>1, <2>2 DEF Sound, IInv, PoliciesInv
<1> QED BY Invariant, <1>1, PTL

\* Once everything a bridge reported has arrived, in whatever order, the auth
\* server holds its last policy.
THEOREM AuthHoldsPolicyCorrect == Spec => []AuthHoldsPolicy
<1>1. IInv => AuthHoldsPolicy
  <2> SUFFICES ASSUME IInv, NEW b \in Bridges,
                      pc[b] = "serving", ctx[b] = "open", ConnectionID[b] # none,
                      queue[b] = <<>>, sender[b] = "select", \A r \in net : r.ConnectionID # b
               PROVE  /\ record[b] # none
                      /\ record[b].Status = "connected" /\ record[b].NotificationPolicy = policy[b]
    BY DEF AuthHoldsPolicy
  <2>1. ConnectionID[b] = b /\ Reported(b) /\ b \in Sockets
    BY Constants DEF Reported
  <2>2. Newest(b) # none /\ Newest(b).ConnectionID = b
    BY <2>1, NewestStamped DEF IInv
  <2>3. record[b] = Newest(b)
    BY <2>1, <2>2 DEF IInv, NewestInv, Somewhere
  <2>4. Newest(b).Status = "connected" /\ Newest(b).NotificationPolicy = policy[b]
    <3>1. CASE report[b] # none
      BY <2>1, <3>1 DEF Newest, IInv, SocketsInv, SocketInv, SocketHolds, OwnReport, PoliciesInv
    <3>2. CASE report[b] = none
      BY <3>2 DEF Newest
    <3> QED BY <3>1, <3>2
  <2> QED BY <2>2, <2>3, <2>4
<1> QED BY Invariant, <1>1, PTL

\* No late report revives a connection that the auth server knows to be gone.
THEOREM GoneStaysGoneCorrect == Spec => GoneStaysGone
<1> DEFINE Stays == \A b \in Bridges : record[b] # none /\ record[b].Status = "disconnected"
                                            => record'[b] = record[b]
<1>1. IInv /\ [Next]_vars => [Stays]_vars
  <2> SUFFICES ASSUME IInv, [Next]_vars, NEW b \in Bridges,
                      record[b] # none, record[b].Status = "disconnected"
               PROVE  record'[b] = record[b]
    OBVIOUS
  <2> USE DEF IInv
  <2>1. ASSUME NEW s \in Sockets, StepBy(s) PROVE record'[b] = record[b]
    <3>1. TypeOK'
      BY TypeStep
    <3> QED BY <2>1, <3>1, Sent
  <2>2. ASSUME NEW r \in net, Arrive(r) PROVE record'[b] = record[b]
    <3>1. Sound(r) /\ Sound(record[b]) /\ record[b].ConnectionID = b
      BY DEF AuthInv
    <3>2. record[b].Timestamp = clock[b] /\ clock[b] \in Nat
      BY <3>1, Constants DEF Sound, TypeOK
    <3>3. r.ConnectionID = b /\ r.Event # "connection_observed" => ~(record[b].Timestamp < r.Timestamp)
      BY <3>1, <3>2, Constants DEF Sound, Report
    <3> QED BY <2>2, <3>3 DEF Arrive
  <2>3. CASE UNCHANGED vars
    BY <2>3 DEF vars
  <2> QED BY <2>1, <2>2, <2>3, Steps
<1> QED BY Invariant, <1>1, PTL DEF Spec, GoneStaysGone

-------------------------------------------------------------------------------
(* LatestValue *)

\* The registers are functions of what their socket holds.
LEMMA Mapped ==
    /\ Waiting = [s \in Sockets |-> Waiting[s]] /\ Waiting' = [s \in Sockets |-> Waiting'[s]]
    /\ UnderWay = [s \in Sockets |-> UnderWay[s]] /\ UnderWay' = [s \in Sockets |-> UnderWay'[s]]
    /\ Open = [s \in Sockets |-> Open[s]] /\ Open' = [s \in Sockets |-> Open'[s]]
    /\ \A s \in Sockets :
        /\ Waiting[s] = IF pc[s] = "refill" THEN report[s]
                        ELSE IF queue[s] # <<>> THEN Head(queue[s]) ELSE none
        /\ Waiting'[s] = IF pc'[s] = "refill" THEN report'[s]
                         ELSE IF queue'[s] # <<>> THEN Head(queue'[s]) ELSE none
        /\ UnderWay[s] = IF sender[s] = "posting" \/ (sender[s] = "received" /\ ctx[s] = "open")
                         THEN held[s] ELSE none
        /\ UnderWay'[s] = IF sender'[s] = "posting" \/ (sender'[s] = "received" /\ ctx'[s] = "open")
                          THEN held'[s] ELSE none
        /\ Open[s] = (ctx[s] = "open") /\ Open'[s] = (ctx'[s] = "open")
  BY DEF Waiting, UnderWay, Open

\* A socket that nothing happens to keeps its register.
LEMMA MappedSame ==
    ASSUME NEW t \in Sockets, Same(t)
    PROVE  Waiting'[t] = Waiting[t] /\ UnderWay'[t] = UnderWay[t] /\ Open'[t] = Open[t]
<1>1. Waiting'[t] = Waiting[t]
  BY Mapped DEF Same
<1>2. UnderWay'[t] = UnderWay[t]
  BY Mapped DEF Same
<1>3. Open'[t] = Open[t]
  BY Mapped DEF Same
<1> QED BY <1>1, <1>2, <1>3

\* A step of one socket changes its register only.
LEMMA MappedStep ==
    ASSUME TypeOK, NEW s \in Sockets, StepBy(s)
    PROVE  /\ Waiting' = [Waiting EXCEPT ![s] = Waiting'[s]] /\ (Waiting'[s] = Waiting[s] => Waiting' = Waiting)
           /\ UnderWay' = [UnderWay EXCEPT ![s] = UnderWay'[s]] /\ (UnderWay'[s] = UnderWay[s] => UnderWay' = UnderWay)
           /\ Open' = [Open EXCEPT ![s] = Open'[s]] /\ (Open'[s] = Open[s] => Open' = Open)
<1>1. \A t \in Sockets : t # s => Waiting'[t] = Waiting[t] /\ UnderWay'[t] = UnderWay[t] /\ Open'[t] = Open[t]
  BY OthersSame, MappedSame
<1>2. /\ Waiting = [t \in Sockets |-> Waiting[t]] /\ Waiting' = [t \in Sockets |-> Waiting'[t]]
      /\ UnderWay = [t \in Sockets |-> UnderWay[t]] /\ UnderWay' = [t \in Sockets |-> UnderWay'[t]]
      /\ Open = [t \in Sockets |-> Open[t]] /\ Open' = [t \in Sockets |-> Open'[t]]
  BY Mapped
<1>3. Waiting' = [Waiting EXCEPT ![s] = Waiting'[s]] /\ (Waiting'[s] = Waiting[s] => Waiting' = Waiting)
  BY <1>1, <1>2
<1>4. UnderWay' = [UnderWay EXCEPT ![s] = UnderWay'[s]] /\ (UnderWay'[s] = UnderWay[s] => UnderWay' = UnderWay)
  BY <1>1, <1>2
<1>5. Open' = [Open EXCEPT ![s] = Open'[s]] /\ (Open'[s] = Open[s] => Open' = Open)
  BY <1>1, <1>2
<1> QED BY <1>3, <1>4, <1>5

\* A socket's step is one of its register or none at all: the first select or
\* the drain publishes, the receive takes, a cancelled context closes.
LEMMA RegisterStep ==
    ASSUME TypeOK, SocketsInv, NEW s \in Sockets, StepBy(s) PROVE [LV!Next]_(LV!vars)
<1>0. /\ SocketInv(s) /\ ctx[s] \in {"open", "done"} /\ queue[s] \in Seq(Report)
      /\ (queue[s] # <<>> => Head(queue[s]) # none)
  BY Channel, Constants DEF SocketsInv, TypeOK
<1>1. ASSUME Waiting'[s] = Waiting[s], UnderWay'[s] = UnderWay[s], Open'[s] = Open[s]
      PROVE  [LV!Next]_(LV!vars)
  BY <1>1, MappedStep DEF LV!vars
<1>2. ASSUME Waiting'[s] # none, UnderWay'[s] = UnderWay[s], Open'[s] = Open[s] PROVE LV!Next
  BY <1>2, MappedStep DEF LV!Next, LV!Publish
<1>3. ASSUME ctx[s] = "open", ctx'[s] = "done", Waiting'[s] = Waiting[s], UnderWay'[s] \in {UnderWay[s], none}
      PROVE  LV!Next
  <2>1. Open[s] /\ Open' = [Open EXCEPT ![s] = FALSE]
    BY <1>3, Mapped, MappedStep
  <2> QED BY <1>3, <2>1, MappedStep DEF LV!Next, LV!Close
<1>4. CASE JoinBridge(s) \/ ReportConnected(s) \/ CheckReplaced(s) \/ ReportDisconnected(s)
  <2>1. /\ UNCHANGED <<ctx, queue, sender, held>> /\ pc[s] # "refill" /\ pc'[s] # "refill"
    BY <1>4 DEF JoinBridge, ReportConnected, CheckReplaced, ReportDisconnected, TypeOK
  <2>2. Waiting'[s] = Waiting[s] /\ UnderWay'[s] = UnderWay[s] /\ Open'[s] = Open[s]
    BY <2>1, Mapped
  <2> QED BY <1>1, <2>2
<1>5. ASSUME (\E requested : NotificationPolicy(s, requested)) \/ ConnectionObserved(s) PROVE [LV!Next]_(LV!vars)
  <2>1. /\ UNCHANGED <<ctx, queue, sender, held>> /\ pc[s] # "refill" /\ pc'[s] # "refill"
    BY <1>5 DEF NotificationPolicy, ConnectionObserved, Reading, TypeOK
  <2>2. Waiting'[s] = Waiting[s] /\ UnderWay'[s] = UnderWay[s] /\ Open'[s] = Open[s]
    BY <2>1, Mapped
  <2> QED BY <1>1, <2>2
<1>6. CASE Offer(s)
  <2>1. /\ UNCHANGED <<ctx, sender, held>> /\ pc[s] = "noted" /\ pc'[s] # "refill"
        /\ report'[s] = Stamped(s, report[s])
        /\ queue'[s] = IF queue[s] = <<>> THEN <<report'[s]>> ELSE queue[s]
    BY <1>6 DEF Offer, TypeOK
  <2>2. UnderWay'[s] = UnderWay[s] /\ Open'[s] = Open[s]
    BY <2>1, Mapped
  <2>3. report[s] \in Report /\ clock[s] \in Nat
    BY <1>0, <2>1 DEF SocketInv, SocketHolds, OwnReport, TypeOK
  <2>4. report'[s] # none
    BY <2>1, <2>3, StampedFields, Constants
  <2>5. queue'[s] # <<>> /\ Head(queue'[s]) # none
    BY <1>0, <2>1, <2>4
  <2>6. Waiting'[s] # none
    BY <2>1, <2>5, Mapped
  <2> QED BY <1>2, <2>2, <2>6
<1>7. CASE Drain(s)
  <2>1. UNCHANGED <<ctx, report, sender, held>> /\ pc[s] = "full" /\ pc'[s] = "refill"
    BY <1>7 DEF Drain, TypeOK
  <2>2. UnderWay'[s] = UnderWay[s] /\ Open'[s] = Open[s] /\ Waiting'[s] = report[s]
    BY <2>1, Mapped
  <2>3. report[s] # none
    BY <1>0, <2>1 DEF SocketInv, SocketHolds
  <2> QED BY <1>2, <2>2, <2>3
<1>8. CASE Refill(s)
  <2>1. /\ UNCHANGED <<ctx, report, sender, held>> /\ pc[s] = "refill" /\ pc'[s] = "serving"
        /\ queue'[s] # <<>> /\ Head(queue'[s]) = report[s]
    BY <1>8 DEF Refill, TypeOK
  <2>2. UnderWay'[s] = UnderWay[s] /\ Open'[s] = Open[s] /\ Waiting'[s] = Waiting[s]
    BY <2>1, Mapped
  <2> QED BY <1>1, <2>2
<1>9. CASE Receive(s)
  <2>1. /\ queue[s] # <<>> /\ queue'[s] = <<>> /\ held'[s] = Head(queue[s])
        /\ sender[s] = "select" /\ sender'[s] = "received" /\ UNCHANGED <<pc, ctx, report>>
    BY <1>9 DEF Receive, TypeOK
  <2>2. pc[s] # "refill"
    BY <1>0, <2>1 DEF SocketInv, Kept
  <2>3. Waiting[s] = Head(queue[s]) /\ Waiting'[s] = none /\ Open'[s] = Open[s] /\ UnderWay[s] = none
    BY <2>1, <2>2, Mapped
  <2>4. CASE ctx[s] = "open"
    <3>1. UnderWay'[s] = Head(queue[s]) /\ Open[s]
      BY <2>1, <2>4, Mapped
    <3>2. LV!Take(s)
      BY <1>0, <2>1, <2>3, <3>1, MappedStep DEF LV!Take
    <3> QED BY <3>2 DEF LV!Next
  <2>5. CASE ctx[s] = "done"
    <3>1. UnderWay'[s] = none /\ ~Open[s]
      BY <2>1, <2>5, Mapped
    <3>2. LV!Discard(s)
      BY <1>0, <2>1, <2>3, <3>1, MappedStep DEF LV!Discard
    <3> QED BY <3>2 DEF LV!Next
  <2> QED BY <1>0, <2>4, <2>5
<1>10. CASE SeeDone(s) \/ Post(s)
  <2>1. /\ UNCHANGED <<pc, ctx, report, queue>>
        /\ \/ sender[s] \in {"select", "received"} /\ ctx[s] = "done" /\ sender'[s] = "stopped"
           \/ sender[s] = "received" /\ ctx[s] = "open" /\ sender'[s] = "posting" /\ held' = held
    BY <1>0, <1>10 DEF SeeDone, Post, Stop, TypeOK
  <2>2. Waiting'[s] = Waiting[s] /\ Open'[s] = Open[s]
    BY <2>1, Mapped
  <2>3. UnderWay'[s] = UnderWay[s]
    BY <2>1, Mapped
  <2> QED BY <1>1, <2>2, <2>3
<1>11. CASE PostEnds(s)
  <2>1. UNCHANGED <<pc, ctx, report, queue, held>> /\ sender[s] = "posting" /\ sender'[s] = "select"
    BY <1>11 DEF PostEnds, TypeOK
  <2>2. held[s] # none
    BY <1>0, <2>1 DEF SocketInv, SocketHolds
  <2>3. Waiting'[s] = Waiting[s] /\ Open'[s] = Open[s]
    BY <2>1, Mapped
  <2>4. UnderWay[s] # none /\ UnderWay'[s] = none
    BY <2>1, <2>2, Mapped
  <2>5. LV!Done(s)
    BY <2>3, <2>4, MappedStep DEF LV!Done
  <2> QED BY <2>5 DEF LV!Next
<1>12. CASE Cancel(s) \/ Leave(s)
  <2>1. /\ UNCHANGED <<queue, sender, held>> /\ ctx'[s] = "done"
        /\ \/ pc'[s] = pc[s] /\ report' = report
           \/ pc[s] # "refill" /\ pc'[s] # "refill"
    BY <1>12 DEF Cancel, Leave, TypeOK
  <2>2. Waiting'[s] = Waiting[s]
    BY <2>1, Mapped
  <2>3. UnderWay'[s] \in {UnderWay[s], none}
    BY <2>1, Mapped
  <2>4. CASE ctx[s] = "open"
    BY <1>3, <2>1, <2>2, <2>3, <2>4
  <2>5. CASE ctx[s] = "done"
    <3>1. UnderWay'[s] = UnderWay[s] /\ Open'[s] = Open[s]
      BY <2>1, <2>5, Mapped
    <3> QED BY <1>1, <2>2, <3>1
  <2> QED BY <1>0, <2>4, <2>5
<1> QED
  BY <1>4, <1>5, <1>6, <1>7, <1>8, <1>9, <1>10, <1>11, <1>12 DEF StepBy, SenderStep, HandlerStep, ClientStep

\* The channel, the sender and the read loop of a socket are a latest-value
\* register (handler.go:514-558): one report under way at most, one waiting, the
\* newest replacing the waiting one, and nothing new under way once the socket
\* is closed.
THEOREM LatestValueSafety == Spec => LV!Safety
<1>1. Init => LV!Init
  <2> SUFFICES ASSUME Init PROVE LV!Init
    OBVIOUS
  <2>1. TypeOK /\ SocketsInv
    BY InitIInv DEF IInv
  <2>2. \A s \in Sockets : pc[s] # "refill" /\ queue[s] = <<>> /\ sender[s] \in {"select", "stopped"}
    BY <2>1 DEF Init, SocketsInv, SocketInv, SocketHolds
  <2>3. Waiting = [s \in Sockets |-> none]
    BY <2>2 DEF Waiting
  <2>4. UnderWay = [s \in Sockets |-> none]
    BY <2>2 DEF UnderWay
  <2>5. Open \in [Sockets -> BOOLEAN]
    BY DEF Open
  <2> QED BY <2>3, <2>4, <2>5 DEF LV!Init
<1>2. IInv /\ [Next]_vars => [LV!Next]_(LV!vars)
  <2> SUFFICES ASSUME IInv, [Next]_vars PROVE [LV!Next]_(LV!vars)
    OBVIOUS
  <2>1. ASSUME NEW s \in Sockets, StepBy(s) PROVE [LV!Next]_(LV!vars)
    BY <2>1, RegisterStep DEF IInv
  <2>2. ASSUME \A t \in Sockets : Same(t) PROVE [LV!Next]_(LV!vars)
    <3>1. Waiting' = Waiting /\ UnderWay' = UnderWay /\ Open' = Open
      BY <2>2, Mapped, MappedSame
    <3> QED BY <3>1 DEF LV!vars
  <2> QED BY <2>1, <2>2, Steps, AllSame
<1> QED BY Invariant, <1>1, <1>2, PTL DEF Spec, LV!Safety

===============================================================================
