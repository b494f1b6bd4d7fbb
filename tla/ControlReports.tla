---------------------------- MODULE ControlReports ----------------------------
(***************************************************************************)
(* What the relay reports to the auth server about one bridge id:          *)
(* registration and disconnect reports of handleBridge, each sent by a     *)
(* goroutine of its own, and the advisory control reports of bridges and   *)
(* phones, sent by newControlReportSender (internal/relay/handler.go) with *)
(* NotifyBridgeStatus (internal/notifications/client.go).                  *)
(*                                                                         *)
(* The sockets are successive connections with the same bridge id, and     *)
(* phones that talk to it.  Each has a read loop, which is the only        *)
(* producer of its one-slot channel, and a sender.  Module Relay has the   *)
(* group and its announcements; here it is who holds the bridge id.        *)
(***************************************************************************)
EXTENDS Integers, Sequences

CONSTANTS
    Bridges,    \* sockets that authenticate with the bridge id
    Phones,     \* sockets whose target it is
    ConnectionID,   \* newConnectionID of each bridge, none if rand.Read fails
    Requests,   \* policies each client asks for; none is anything unknown or missing
    Casts,      \* bound: which sockets connect in the same behaviour
    MaxUpdates, \* bound: control messages each socket sends
    none        \* the empty string, the empty register, the nil pointer

Sockets == Bridges \cup Phones

Policies == {"normal", "suppress", "conservative"}

\* BridgeStatusPayload, as far as reports about one bridge differ.  Timestamps
\* count the reports of their socket, as no others are ever compared; 0 is not
\* stamped yet.
Report == [Status : {"connected", "disconnected"},
           Event : {none, "notification_policy", "connection_observed"},
           NotificationPolicy : Policies \cup {none},
           ConnectionID : Bridges \cup {none},
           Timestamp : Nat]

ASSUME SocketsAssumption ==
    /\ Bridges \cap Phones = {}
    /\ none \notin Sockets \cup Policies \cup {"notification_policy", "connection_observed"} \cup Report
    /\ Requests \in [Bridges -> SUBSET (Policies \cup {none})]
    /\ \A b \in Bridges : ConnectionID[b] \in {b, none}
    /\ Casts \subseteq SUBSET Sockets
    /\ MaxUpdates \in [Sockets -> Nat]

VARIABLES
    pc,                 \* where the handler of each socket is
    current,            \* the socket the group has for the bridge id
    policy,             \* handleBridge's policy ...
    disconnectPolicy,   \* ... and disconnectPolicy
    ctx,                \* connCtx: "open" or "done"
    report,             \* the report a read loop is handing over, or the last one
    queue,              \* the channel: at most one report
    sender,             \* where the sender of each socket is
    held,               \* the report the sender took from the channel
    net,                \* requests to the auth server that have not arrived
    record,             \* what the auth server holds of each connection
    clock,              \* time.Now() as each socket's reports tell it
    accepted            \* the policies a bridge socket had, one entry per message

episodeVars == <<current, policy, disconnectPolicy, accepted>>
handlerVars == <<pc, episodeVars>>
senderVars  == <<sender, held>>
authVars    == <<net, record>>
vars == <<handlerVars, ctx, report, queue, senderVars, authVars, clock>>

(***************************************************************************)
(* outside    (bridge) before AddBridge                                    *)
(* joined     (bridge) in the group, before its connected report           *)
(* serving    in the read loop                                             *)
(* noted      accepted a control message, before reportControl             *)
(* full       reportControl found the channel full                         *)
(* refill     emptied it, before the second, blocking send                 *)
(* removed    (bridge) left the group as its current connection            *)
(* vanished   (bridge) not replaced, before its disconnected report        *)
(* done       the handler returned                                         *)
(***************************************************************************)
Phases == {"outside", "joined", "serving", "noted", "full", "refill",
           "removed", "vanished", "done"}

Init ==
    /\ \E cast \in Casts :
        /\ pc = [s \in Sockets |-> CASE s \notin cast -> "done"
                                     [] s \in cast \cap Bridges -> "outside"
                                     [] OTHER -> "serving"]
        /\ ctx = [s \in Sockets |-> IF s \in cast THEN "open" ELSE "done"]
        /\ sender = [s \in Sockets |-> IF s \in cast THEN "select" ELSE "stopped"]
    /\ current = none
    /\ policy = [b \in Bridges |-> none]
    /\ disconnectPolicy = [b \in Bridges |-> none]
    /\ report = [s \in Sockets |-> none]
    /\ queue = [s \in Sockets |-> <<>>]
    /\ held = [s \in Sockets |-> none]
    /\ net = {}
    /\ record = [b \in Bridges |-> none]
    /\ clock = [s \in Sockets |-> 0]
    /\ accepted = [s \in Sockets |-> <<>>]

Goto(s, phase) == pc' = [pc EXCEPT ![s] = phase]

\* What the client sent is taken as it is (a mutant of
\* normalizeNotificationPolicy).
takePolicyVerbatim(requested) == requested

normalizeNotificationPolicy(requested) ==
    IF requested \in Policies THEN requested ELSE "conservative"

\* Timestamps in whole seconds, so that reports share them (a mutant of
\* Stamped).
StampedInSeconds(s, r) == [r EXCEPT !.Timestamp = (clock[s] + 2) \div 2]

\* The code takes the wall clock in nanoseconds.  That the timestamps of a socket
\* increase is an assumption: two reports of a socket never share one, and the
\* clock is not set back while the socket is open.
Stamped(s, r) == [r EXCEPT !.Timestamp = clock[s] + 1]

Tick(s) == clock' = [clock EXCEPT ![s] = @ + 1]

\* A goroutine of its own sends the report, with context.Background().
Send(s, r) == net' = net \cup {Stamped(s, r)} /\ Tick(s)

BridgeReport(b, status, event, pol) ==
    [Status |-> status, Event |-> event, NotificationPolicy |-> pol,
     ConnectionID |-> ConnectionID[b], Timestamp |-> 0]

-------------------------------------------------------------------------------
(* Handlers *)

\* AddBridge, taking the bridge id over if another socket has it.
JoinBridge(b) ==
    /\ b \in Bridges /\ pc[b] = "outside"
    /\ \E requested \in Requests[b] :
        LET initial == normalizeNotificationPolicy(requested) IN
        /\ policy' = [policy EXCEPT ![b] = initial]
        /\ disconnectPolicy' = [disconnectPolicy EXCEPT ![b] = initial]
        /\ accepted' = [accepted EXCEPT ![b] = <<initial>>]
    /\ current' = b
    /\ Goto(b, "joined")
    /\ UNCHANGED <<ctx, report, queue, senderVars, authVars, clock>>

ReportConnected(b) ==
    /\ pc[b] = "joined"
    /\ Send(b, BridgeReport(b, "connected", none, policy[b]))
    /\ Goto(b, "serving")
    /\ UNCHANGED <<episodeVars, ctx, report, queue, senderVars, record>>

\* The read loop has a message left to read.
Reading(s) == pc[s] = "serving" /\ ctx[s] = "open"

\* Suppress replaces the eligibility earned before (a mutant of
\* disconnectPolicyAfter).
disconnectPolicyReplaced(b, updated) == updated

disconnectPolicyAfter(b, updated) ==
    IF updated # "suppress" THEN updated ELSE disconnectPolicy[b]

\* bridge_connection_notification_policy; ignored from a displaced connection.
NotificationPolicy(b, requested) ==
    LET updated == normalizeNotificationPolicy(requested) IN
    /\ Reading(b) /\ Len(accepted[b]) <= MaxUpdates[b]
    /\ current = b
    /\ policy' = [policy EXCEPT ![b] = updated]
    /\ disconnectPolicy' = [disconnectPolicy EXCEPT ![b] = disconnectPolicyAfter(b, updated)]
    /\ accepted' = [accepted EXCEPT ![b] = Append(@, updated)]
    /\ report' = [report EXCEPT ![b] = BridgeReport(b, "connected", "notification_policy", updated)]
    /\ Goto(b, "noted")
    /\ UNCHANGED <<current, ctx, queue, senderVars, authVars, clock>>

\* bridge_connection_observed with a valid device id; ignored when the phone has
\* no target, or one without a connection id.
ConnectionObserved(p) ==
    /\ Reading(p) /\ p \in Phones /\ Len(accepted[p]) < MaxUpdates[p]
    /\ current # none /\ ConnectionID[current] # none
    /\ report' = [report EXCEPT ![p] = BridgeReport(current, "connected", "connection_observed", none)]
    /\ accepted' = [accepted EXCEPT ![p] = Append(@, none)]
    /\ Goto(p, "noted")
    /\ UNCHANGED <<current, policy, disconnectPolicy,
                   ctx, queue, senderVars, authVars, clock>>

-------------------------------------------------------------------------------
(* reportControl: a select with default, and in the default case another one *)
(* that empties the channel before a plain send fills it                     *)

\* A full channel keeps its report (a mutant of Offer).
OfferOrForget(s) ==
    /\ pc[s] = "noted"
    /\ Tick(s)
    /\ report' = [report EXCEPT ![s] = Stamped(s, @)]
    /\ queue' = [queue EXCEPT ![s] = IF @ = <<>> THEN <<report'[s]>> ELSE @]
    /\ Goto(s, "serving")
    /\ UNCHANGED <<episodeVars, ctx, senderVars, authVars>>

Offer(s) ==
    /\ pc[s] = "noted"
    /\ Tick(s)
    /\ report' = [report EXCEPT ![s] = Stamped(s, @)]
    /\ IF queue[s] = <<>>
       THEN queue' = [queue EXCEPT ![s] = <<report'[s]>>] /\ Goto(s, "serving")
       ELSE UNCHANGED queue /\ Goto(s, "full")
    /\ UNCHANGED <<episodeVars, ctx, senderVars, authVars>>

\* The obsolete report stays (a mutant of Drain).
DrainNothing(s) ==
    /\ pc[s] = "full"
    /\ Goto(s, "refill")
    /\ UNCHANGED <<episodeVars, ctx, report, queue, senderVars, authVars, clock>>

\* Whatever is in the channel: the sender may have been faster.
Drain(s) ==
    /\ pc[s] = "full"
    /\ queue' = [queue EXCEPT ![s] = <<>>]
    /\ Goto(s, "refill")
    /\ UNCHANGED <<episodeVars, ctx, report, senderVars, authVars, clock>>

Refill(s) ==
    /\ pc[s] = "refill"
    /\ queue[s] = <<>>
    /\ queue' = [queue EXCEPT ![s] = <<report[s]>>]
    /\ Goto(s, "serving")
    /\ UNCHANGED <<episodeVars, ctx, report, senderVars, authVars, clock>>

-------------------------------------------------------------------------------
(* The sender *)

Receive(s) ==
    /\ sender[s] = "select" /\ queue[s] # <<>>
    /\ held' = [held EXCEPT ![s] = Head(queue[s])]
    /\ queue' = [queue EXCEPT ![s] = <<>>]
    /\ sender' = [sender EXCEPT ![s] = "received"]
    /\ UNCHANGED <<handlerVars, ctx, report, authVars, clock>>

\* The sender goes round its loop instead of returning (a mutant of SeeDone).
SeeDoneContinue(s) == sender[s] = "select" /\ ctx[s] = "done" /\ UNCHANGED vars

\* The goroutine returns, and with it its local variables.
Stop(s) ==
    /\ sender' = [sender EXCEPT ![s] = "stopped"]
    /\ held' = [held EXCEPT ![s] = none]

SeeDone(s) ==
    /\ sender[s] = "select" /\ ctx[s] = "done"
    /\ Stop(s)
    /\ UNCHANGED <<handlerVars, ctx, report, queue, authVars, clock>>

\* The context is not tested again after the select (a mutant of Post).
PostUnchecked(s) ==
    /\ sender[s] = "received"
    /\ sender' = [sender EXCEPT ![s] = "posting"]
    /\ net' = net \cup {held[s]}
    /\ UNCHANGED <<handlerVars, ctx, report, queue, held, record, clock>>

\* select picks at random when both cases are ready, hence the second test.
Post(s) ==
    /\ sender[s] = "received"
    /\ IF ctx[s] = "done"
       THEN Stop(s) /\ UNCHANGED net
       ELSE /\ sender' = [sender EXCEPT ![s] = "posting"]
            /\ net' = net \cup {held[s]}
            /\ UNCHANGED held
    /\ UNCHANGED <<handlerVars, ctx, report, queue, record, clock>>

\* NotifyBridgeStatus returns: an answer (a 404 changes nothing here), an error,
\* the client's timeout or the cancelled context.  Only an answer tells whether
\* the request arrived; it may also arrive later, or never.
PostEnds(s) ==
    /\ sender[s] = "posting"
    /\ sender' = [sender EXCEPT ![s] = "select"]
    /\ UNCHANGED <<handlerVars, ctx, report, queue, held, authVars, clock>>

-------------------------------------------------------------------------------
(* The end of a socket *)

\* The ping loop, or the handler of the bridge that took over, cancels connCtx.
Cancel(s) ==
    /\ pc[s] \notin {"outside", "removed", "vanished", "done"} /\ ctx[s] = "open"
    /\ ctx' = [ctx EXCEPT ![s] = "done"]
    /\ UNCHANGED <<handlerVars, report, queue, senderVars, authVars, clock>>

\* Read fails, for whatever reason: connCancel, then RemoveBridge or RemovePhone.
Leave(s) ==
    /\ pc[s] = "serving"
    /\ ctx' = [ctx EXCEPT ![s] = "done"]
    /\ current' = IF current = s THEN none ELSE current
    /\ report' = [report EXCEPT ![s] = none]
    /\ Goto(s, IF current = s THEN "removed" ELSE "done")
    /\ UNCHANGED <<policy, disconnectPolicy, accepted, queue, senderVars, authVars, clock>>

\* HasLiveBridgeWithID: the bridge id is live again.
CheckReplaced(b) ==
    /\ pc[b] = "removed"
    /\ Goto(b, IF current # none THEN "done" ELSE "vanished")
    /\ UNCHANGED <<episodeVars, ctx, report, queue, senderVars, authVars, clock>>

\* The report carries the time of the connection (a mutant of
\* ReportDisconnected).
ReportDisconnectedBackdated(b) ==
    /\ pc[b] = "vanished"
    /\ net' = net \cup {[BridgeReport(b, "disconnected", none, disconnectPolicy[b])
                         EXCEPT !.Timestamp = 1]}
    /\ Goto(b, "done")
    /\ UNCHANGED <<episodeVars, ctx, report, queue, senderVars, record, clock>>

ReportDisconnected(b) ==
    /\ pc[b] = "vanished"
    /\ Send(b, BridgeReport(b, "disconnected", none, disconnectPolicy[b]))
    /\ Goto(b, "done")
    /\ UNCHANGED <<episodeVars, ctx, report, queue, senderVars, record>>

-------------------------------------------------------------------------------
(* The auth server *)

\* A request arrives.  The auth server is assumed to keep the newest report of a
\* connection, by connectionId and timestamp; connection_observed only withholds
\* a push.
Arrive(r) ==
    /\ r \in net
    /\ net' = net \ {r}
    /\ record' = [b \in Bridges |->
                    IF /\ r.ConnectionID = b /\ r.Event # "connection_observed"
                       /\ record[b] = none \/ record[b].Timestamp < r.Timestamp
                    THEN r ELSE record[b]]
    /\ UNCHANGED <<handlerVars, ctx, report, queue, senderVars, clock>>

-------------------------------------------------------------------------------
SenderStep(s) == Receive(s) \/ SeeDone(s) \/ Post(s) \/ PostEnds(s)

HandlerStep(s) ==
    \/ ReportConnected(s)
    \/ Offer(s) \/ Drain(s) \/ Refill(s)
    \/ ctx[s] = "done" /\ Leave(s)
    \/ CheckReplaced(s) \/ ReportDisconnected(s)

\* What clients decide on.
ClientStep(s) ==
    \/ JoinBridge(s)
    \/ s \in Bridges /\ \E requested \in Requests[s] : NotificationPolicy(s, requested)
    \/ ConnectionObserved(s)
    \/ ctx[s] = "open" /\ Leave(s)

Finished ==
    /\ \A s \in Sockets : pc[s] = "done" /\ sender[s] = "stopped"
    /\ UNCHANGED vars

Next ==
    \/ \E s \in Sockets : SenderStep(s) \/ HandlerStep(s) \/ ClientStep(s) \/ Cancel(s)
    \/ \E r \in net : Arrive(r)
    \/ Finished

\* Goroutines run and HTTP requests end; messages need not come or arrive.
Fairness == \A s \in Sockets : WF_vars(SenderStep(s)) /\ WF_vars(HandlerStep(s))

Spec == Init /\ [][Next]_vars /\ Fairness

-------------------------------------------------------------------------------
(* Properties *)

\* Handlers and senders are in a known phase, the channel holds one report at
\* most, requests are stamped, and a bridge in the group has a known policy
\* whatever its client sent: "Missing or invalid metadata falls back to normal
\* conservative notification behavior" (README).
TypeOK ==
    /\ pc \in [Sockets -> Phases]
    /\ current \in Bridges \cup {none}
    /\ policy \in [Bridges -> Policies \cup {none}]
    /\ disconnectPolicy \in [Bridges -> Policies \cup {none}]
    /\ \A b \in Bridges : accepted[b] # <<>> => {policy[b], disconnectPolicy[b]} \subseteq Policies
    /\ ctx \in [Sockets -> {"open", "done"}]
    /\ report \in [Sockets -> Report \cup {none}]
    /\ queue \in [Sockets -> Seq(Report)] /\ \A s \in Sockets : Len(queue[s]) <= 1
    /\ sender \in [Sockets -> {"select", "received", "posting", "stopped"}]
    /\ held \in [Sockets -> Report \cup {none}]
    /\ net \subseteq Report /\ \A r \in net : r.Timestamp # 0
    /\ record \in [Bridges -> Report \cup {none}]
    /\ clock \in [Sockets -> Nat]
    /\ accepted \in [Sockets -> Seq(Policies \cup {none})]

\* "Single producer: the queue now has room" (handler.go:553): the plain send
\* after the drain never waits for the sender, so the read loop never waits
\* for HTTP.
RefillHasRoom == \A s \in Sockets : pc[s] = "refill" => queue[s] = <<>>

\* Once reportControl has returned the newest report of an open socket waits,
\* is being sent or was the last one sent: the drain and the sender's receive
\* may come in any order and it is still never the newest that is dropped.
NewestKept ==
    \A s \in Sockets :
        pc[s] = "serving" /\ ctx[s] = "open" /\ report[s] # none =>
            IF queue[s] = <<>> THEN held[s] = report[s] ELSE Head(queue[s]) = report[s]

\* The channel, the sender and the read loop together are a latest-value
\* register.  A report is published when the first select puts it into the
\* channel or the second has emptied the channel for it.
Waiting == [s \in Sockets |-> IF pc[s] = "refill" THEN report[s]
                              ELSE IF queue[s] # <<>> THEN Head(queue[s]) ELSE none]

UnderWay == [s \in Sockets |->
                IF sender[s] = "posting" \/ (sender[s] = "received" /\ ctx[s] = "open")
                THEN held[s] ELSE none]

Open == [s \in Sockets |-> ctx[s] = "open"]

LV == INSTANCE LatestValue WITH pending <- Waiting, sending <- UnderWay, open <- Open

\* README: "Advisory control reports use one HTTP sender and one latest-value
\* pending slot per socket ... In-flight advisory requests end with the socket
\* context": what leaves is what LatestValue lets leave, and it does leave.
ImplementsLatestValue == LV!Spec

\* The sender's goroutine ends with the context of its socket.
SendersEnd == \A s \in Sockets : (ctx[s] = "done") ~> (sender[s] = "stopped")

\* The last policy of a bridge that was not "suppress", if there was one.
LastAwake(policies) ==
    LET awake == {i \in DOMAIN policies : policies[i] # "suppress"} IN
    IF awake = {} THEN "suppress"
    ELSE policies[CHOOSE i \in awake : \A j \in awake : j <= i]

\* README: "A socket that earned offline notification eligibility while normally
\* awake retains it across later sleep suppression; a suppress-only socket
\* stays quiet unless a normal/full-wake update promotes it".  A disconnected
\* report carries the last policy of its socket that was not a suppression.
DisconnectEligibility ==
    \A r \in net \cup {record[b] : b \in Bridges} :
        r # none /\ r.Status = "disconnected" /\ r.ConnectionID # none
            => r.NotificationPolicy = LastAwake(accepted[r.ConnectionID])

\* Once everything a bridge socket reported has arrived, in whatever order, the
\* auth server holds its last policy: the connected report's goroutine may be
\* overtaken by a policy report, and replaced reports are obsolete.
AuthHoldsPolicy ==
    \A b \in Bridges :
        /\ pc[b] = "serving" /\ ctx[b] = "open" /\ ConnectionID[b] # none
        /\ queue[b] = <<>> /\ sender[b] = "select"
        /\ \A r \in net : r.ConnectionID # b
        => /\ record[b] # none
           /\ record[b].Status = "connected" /\ record[b].NotificationPolicy = policy[b]

\* A connection the auth server knows to be disconnected stays so: whatever
\* arrives late about it (handler.go:283, 326) was stamped earlier.
GoneStaysGone ==
    [][\A b \in Bridges : record[b] # none /\ record[b].Status = "disconnected"
                            => record'[b] = record[b]]_vars
===============================================================================
