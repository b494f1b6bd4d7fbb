# Verification of the Sesori relay server

TLA+ models of the relay in `src/`, TLC runs over small instances of them, and
TLAPS proofs for instances of any size. Line numbers refer to the sources under
`src/internal/relay/` unless another path is given.

## 1. The system

The relay forwards end-to-end encrypted frames between the *bridges*
(computers) and the *phones* of one account. Every connection is one websocket
served by one goroutine (`handleWebSocket`, then `handleBridge` or
`handlePhone`); connections of an account share an `AccountGroup`, and groups
are registered in the `GroupManager`. Nothing is persisted.

| Component | State it keeps | Operations | What makes it correct |
|---|---|---|---|
| Rate limiter, `ratelimit.go` | connections per client address | `AllowConnection`, `ReleaseConnection`, `AllowGroup` | counts are exact on every path; the caps hold; a silent client loses its slot |
| Admission, `handler.go:95-182` | progress of one request | upgrade, group cap, auth message with a 5 s deadline, join | every way out returns the slot once |
| Group manager, `group_manager.go` | account → group | `GetOrCreateGroup`, `RemoveGroupIfEmpty`, `HasLiveBridgeWithID`, `Count` | one group per account; only empty groups are deleted; none is leaked |
| Account group, `account_group.go` | bridges by id, phones by connId, next connId | `AddBridge`, `RemoveBridge`, `AddPhone`, `RemovePhone`, target lookups | entries belong to live handlers; caps; connIds unique, never 0; a phone's target is its pin or the newest bridge |
| Bridge handler, `handler.go:205-390` | the connection, its notification policy | takeover of a same-id connection, announcements, reports, read loop, cleanup | a displaced connection relays and reports nothing; cleanup always ends |
| Phone handler, `handler.go:394-457` | the connection, its connId | connect notices, read loop, cleanup | the phone knows its target |
| Announcements, `handler.go:459-520` | – | `announceTargetChanges`, `announcePresence`, `writeOrDrop` | what clients were told is true; a stalled peer is dropped |
| Control report sender, `handler.go:522-558` | one pending report | replace the pending report, send | never blocks the read loop; the newest report wins |
| Notification client, `internal/notifications` | – | POST a bridge status, 404 means revoked | the newest report about a live bridge says connected |
| JWT and key store, `internal/auth` | the current public key | verify, refresh and verify again, periodic refresh | only access tokens of the backend are accepted; a rotated key is found, whatever refreshes overlap or fail |
| Address resolution, `handler.go:54-93` | – | pure | one client has one address, in any spelling and through any proxy |
| Server and command line, `server.go`, `cmd/relay` | – | load the key, start, shutdown, health | no service without a key |
| Wire protocol, `internal/protocol` | – | message types, parsing, framing | – |

**Interactions.** Handlers call the manager and the group under their mutexes,
copy what they need, unlock, and then write to *other* connections' websockets.
The bridge that takes over an id closes the old socket from a goroutine of its
own; another goroutine reports to the auth server and closes the bridge if the
answer is a 404. A failed write closes the peer, whose handler then cleans up.

**What is hard here.** Nearly every lookup is made under a lock and used after
it: the group pointer (line 144), the target changes (275, 312), the connect
notice (408-413), "was I replaced?" (319), "is the group empty?"
(`group_manager.go:40`), "is there room for a group?" (121), "am I current?"
(351), the fetched key (`keystore.go:57`). Cleanups run late,
after a newer connection of the same bridge is up. `PROJECT.json` lists each of
these as a hazard with the properties that would catch it going wrong.

## 2. Modules

| Module | Models | Style |
|---|---|---|
| `AccountGroup` | the data of a group and every function its methods compute | operators only, no state |
| `Relay` | handlers from the moment of authentication, manager, groups, writes, clients | state machine over `AccountGroup` |
| `MCRelay` | instances of `Relay` | constants for TLC |
| `RelayProofs` | the inductive invariant of `Relay` and its theorems | TLAPS |
| `RelayRefinement` | `Relay` implements `Membership` | TLAPS, extends `RelayProofs` |
| `RelaySerialProofs`, `RelayClientsProofs` | one handler at work at a time: the manager and the auth server; what clients were told | TLAPS, each extends the one before |
| `Admission` | `handleWebSocket` and the rate limiter | state machine |
| `MCAdmission`, `AdmissionProofs` | its instance and its theorems | |
| `Membership` | what the relay promises its clients: entering, displacing, leaving, sending | abstract specification, implemented by `Relay` |
| `ControlReports`, `MCControlReports`, `ControlReportsProofs` | reports to the auth server about one bridge id: policies, the one-slot sender, arrival in any order | state machine, TLAPS |
| `LatestValue` | what the control report sender promises: `Safety`, and with `Progress` its `Spec` | abstract specification, implemented by `ControlReports` |
| `KeyStore`, `MCKeyStore`, `KeyStoreProofs` | the public key, its refreshes, validation of tokens | state machine, TLAPS |

### Relay

A *connection* is one `*Connection`; a client that reconnects is another
connection, so pointer comparisons of the code are equality in the model. Role,
bridge id (a phone's pin) and account are constants, because they are fixed by
the auth message. A group is named by the connection whose handler created it.

| Variable | Code |
|---|---|
| `pc` | where the handler is; the phases are listed in the module |
| `registry`, `mgrLock` | `GroupManager.groups`; who is inside `RemoveGroupIfEmpty` |
| `grp`, `group` | the heap of `AccountGroup`s; the handler's `group` variable |
| `ConnID`, `ConnectedAt`, `clock` | fields of `Connection`; `time.Now()`, which may repeat |
| `jobs`, `out` | the writes a handler has yet to make, in the order the code fixes and any order where the code ranges over a map |
| `sock` | "closed" once the handler's `Read` fails |
| `displaced` | connections taken over by a same-id reconnect |
| `status` | the newest status reported to the auth server, by report timestamp |
| `client` | what the client at the other end made of the messages it got |

A step is what the code does between two points where others can interfere: one
critical section, one websocket write, one event of the read loop.

| Action | Code |
|---|---|
| `GetOrCreateGroup` | `group_manager.go:16` |
| `NewBridgeConnection` | `handler.go:205-213`; the timestamp is taken before the lock |
| `AddBridge`, `RejectFull` | `account_group.go:118`, `handler.go:214` |
| `AnnounceOnline`, `ReportConnected` | `handler.go:278`, `280` |
| `AddPhone` (with the choice of its connId and its notices) | `account_group.go:201`, `handler.go:397-414` |
| `WriteNext` | one `writeOrDrop`: delivered, or the peer is closed |
| `BridgeFrame`, `PhoneFrame` | the binary branches of the read loops |
| `RemoveBridge`, `CheckReplaced`, `AnnounceOffline`, `ReportDisconnected` | the deferred cleanup of `handleBridge` |
| `RemovePhone` | the deferred cleanup of `handlePhone` |
| `RemoveGroupIfEmpty`, `DeleteGroup` | the test and the delete: the manager's mutex is held over both, the group's over the first only |
| `CloseDisplaced` | `Close`, then `Cancel`, `handler.go:269` |
| `Revoke` | the 404 branch, `handler.go:290` |
| `Drop` | the client leaves, or a ping goes unanswered |

Abstractions: payloads are reduced to their sender; a write's deadline is a
choice between delivery and a closed peer; bridge ids are numbers, compared as
Go compares strings; the auth server is assumed to be configured and to order
reports by timestamp. `writeOrDrop`'s early return for a cancelled request
context is left out: that context lives as long as the handler that writes.

### Membership

Each connection is outside, a member of a room, displaced in it, or gone. A
bridge that enters displaces the member with its id; a connection is turned away
only by a full room; only members send, to members of their room on the other
side that their pins allow, one lot of data at a time; data is delivered or lost
together with its receiver; a connection leaves only when its line is closed and
its own data is delivered. There are no locks, maps, connIds, target choices or
announcements. An account may have several rooms: that is what `race_groups`
finds in the code, and the rest is promised in spite of it. `Relay` implements
it under the mapping `Promise` (`Lives`, `Room`, `Flight`, `Heard`) at the end of the module: a connection is a
member from `AddBridge`/`AddPhone` to `RemoveBridge`/`RemovePhone`, and data is
on its way from the lookup of its receivers to the write.

### Admission

One phase per point of `handleWebSocket` between two calls that touch shared
state. `jwtAuth` is chosen at start-up. What happens inside `handleBridge` and
`handlePhone` is one phase during which the account has a group; how the group
can go while another handler is about to enter it is module `Relay`'s subject.
The client's address is computed as the code does, from the header values and
the peer address of each request, which are constants; `Canonical` stands for
`netip.ParseAddr(...).Unmap().String()`. `ConnectionStats`, which reads the
counters for a log line, is left out.

### ControlReports

The sockets are connections with one bridge id, one after the other or at once,
and phones that talk to it. `current` is the entry of the group (module `Relay`
has the rest of it).

| Variable | Code |
|---|---|
| `pc`, `ctx` | where the handler is; `connCtx` |
| `policy`, `disconnectPolicy` | the variables of `handleBridge` (206, 210) |
| `report`, `queue`, `sender`, `held` | the report being handed over, the channel (529), the sender goroutine and its report |
| `net`, `record` | requests on their way; what the auth server holds of each connection |
| `clock`, `accepted` | timestamps per socket; the policies a socket had, for the properties |

`Offer`, `Drain` and `Refill` are the first select, the inner select and the
plain send of the producer; `Receive`, `SeeDone`, `Post` and `PostEnds` are the
sender. `Send` is a report with a goroutine of its own. A request may arrive
after its sender gave up on it, in any order, or never. The auth server is
external: it is taken to keep the newest report of a connection by timestamp,
which is what the timestamps are for. The code stamps reports with the wall
clock (281, 325, 360; UTC, nanoseconds). That the timestamps of one socket
increase is an assumption with two halves: two reports of a socket never share
one, and the clock is not set back while the socket is open. `AuthHoldsPolicy`
and `GoneStaysGone` rest on it. Timestamps of different sockets are never
compared. A relay
without a webhook secret reports nothing and is not an instance.

**Two views of the auth server.** Its code is not here, and the two modules
assume no more of it than their questions need:

| | `Relay.status` | `ControlReports.record` |
|---|---|---|
| keyed by | bridge id | connection id, which the reports carry |
| keeps | the newest status of all connections with that id | the newest report of each connection |
| arrival | at once | in any order, late or never |
| asked | is a live bridge believed online? (`LiveBridgeReportedOnline`) | is the last policy known, does a gone connection stay gone? |

A record per connection means that the report of a connection that was displaced
after its test at line 351 cannot touch its successor's record. That is assumed,
not shown: with one policy per bridge id it could, and the hazard is listed
without a property.

### KeyStore

Keys are numbered in the order the backend publishes them. A refresh is a fetch
without a lock and a store under it, by the ticker or by a connection whose
token did not parse; the fetch fails while the backend is down. Claims are
records whose values have the type their JSON has, so that missing claims,
claims of another type and the two forms of `aud` are told apart. Line 92 of
`jwt.go` asks whether the signing method is one of the three RSA methods
(`RSAMethods`), where the documentation says RS256: run `keystore_methods`.
`Genuine` follows the code.

## 3. Runs

`tlc -config <run>.cfg <module>`; every passing run is exhaustive and
takes at most a few minutes on two cores.

### The properties that hold

| Run | Instance | Shows |
|---|---|---|
| `relay_reconnect` | bridge, same-id reconnect, phone; the first bridge sends data | `TypeOK`; `SlotOwned`: map entries and handlers agree, so the unconditional delete of `RemovePhone` and the late `RemoveBridge` of a displaced handler hit nobody else; `TornDown`: no group outlives its handlers, however their cleanups race; `DisplacedSilent` and `DisplacedRelaysNothing`: a connection that was taken over reports nothing and starts no more data writes; `ImplementsMembership`, which also says that the same-id reconnect gets into the full account; `HandlersEnd`: a handler whose socket is closed or whose connection is displaced returns |
| `relay_isolation` | two bridges with different ids for one place, both sending to every connId, a pinned phone, a phone of another account; everybody sends | `TornDown`, although a handler that a full account rejects does not clean up; `CapsHold` for bridges; `AccountIsolation`, `PinIsolation` |
| `relay_phones` | four phones for two places, connIds 1 to 3 | `SlotOwned` over a wrapping counter; `CapsHold` for phones, with an id to spare so that the cap and not the id space keeps the third phone out; `ConnIDAvailable`: the search for an id, made with the group locked, ends; `ImplementsMembership`: only a full account turns a phone away |
| `relay_serial` | two computers, one reconnecting, a pinned and an unpinned phone, one handler at work at a time | what phones (`NoticeMatchesTarget`, `PresenceMatchesLive`), bridges (`RosterMatchesTargets`) and the auth server (`LiveBridgeReportedOnline`) were told is true once nothing is left to announce, and `OneGroupPerAccount`: the algorithms are right. It says nothing of handlers that interleave; that is what the race runs are for |
| `admission` | five requests, two clients, an IPv4-mapped and a malformed spelling, cap 2, header trusted or not | `SlotsAccounted` on all ways out; `ClientCap`: the cap holds per client, not per spelling or proxy; `SlotUsedOrReturned` |
| `control_reports` | a bridge with three policy updates; a takeover or reconnect; a bridge with a phone | `RefillHasRoom`: the read loop never waits for HTTP; `NewestKept`; `ImplementsLatestValue`; `SendersEnd`: no goroutine is left behind; `DisconnectEligibility`: the disconnected report has the last policy that was not a suppression; `AuthHoldsPolicy` and `GoneStaysGone`: whatever the order of arrival, the auth server ends up with the last policy of a live connection, and a connection it knows to be gone stays gone |
| `keystore` | two connections, two keys, good, forged, expired and malformed tokens, outages | `OnlyGenuineAccepted`; `FreshTokenAccepted`: a token of the published key is refused only if the connection's own fetch failed or an older key was stored meanwhile; `KeyRecovers`: an older key stored last, or an outage, is made good by the periodic refresh |

**Bounds.** Each instance has more connections than the limit it exercises admits:
a takeover needs two connections of one id, a cap one too many, a wrap one more
assignment than there are ids. Connections do not come back as themselves; a
client that returns is a connection of its own, so the number of connections
bounds the length of a run and no counter needs a cap of its own (`clock` moves
only when a bridge connects). `Talkers` says who sends data in a run;
runs about control messages leave data out. TLC sees data of a phone in
`relay_isolation` only; that it fits `Membership` rests on the proof.
`control_reports` starts with one of three casts of sockets; `MaxUpdates` bounds
the messages of a socket: with three, one report is under way, one waits in the
channel, and one finds the channel full and replaces it. `MaxKeys` is 2 in `keystore`: one rotation is what a
refresh, a store and a token can straddle; outages and arrivals are unbounded.

**Fairness.** `Spec` has weak fairness for every handler and for the goroutine
that closes a displaced socket: the Go scheduler runs goroutines, writes have a
deadline (line 504), a close handshake times out, and the mutexes are held only
over code that does not block. In `Admission` also the 5-second deadline on the
auth message (line 155); in `ControlReports` the sender, whose requests end
after 5 seconds (`client.go:46`) or with their context; in `KeyStore` the ticker
and the fetches, which end after 10 seconds. Nothing is assumed of clients: they need not connect,
send, or leave, and nothing of the network: reports need not arrive.

### Where documentation and code disagree

What clients and the auth server are told, and where an account's connections
are, is right as long as handlers run one at a time (`SerialSpec`, what a
sequential test sees; proved for any instance in section 4) and can go wrong when they interleave. So can
the number of groups; the signing method differs without any interleaving. Each of these runs
ends in a counterexample to a sentence of the repository; `PROJECT.json` quotes
it.

| Run | Property | Counterexample in short |
|---|---|---|
| `race_groups` | `OneGroupPerAccount` | a handler holds the group, the last member leaves and the group is deleted, the handler joins it: the next connection of the account gets another group, and the two never meet. The window between `IsEmpty` and the delete (`group_manager.go:40`) is another way there |
| `race_notice` | `NoticeMatchesTarget` | a phone joins without a bridge; before it writes `bridge_disconnected` a bridge joins and writes `bridge_connected` |
| `race_status` | `LiveBridgeReportedOnline` | the bridge reconnects after `HasLiveBridgeWithID` and before the disconnected report takes its timestamp, which makes it the newer one; the offline notices to the phones have the same window |
| `race_rooms` | `GroupCap` | two requests pass the test of line 121 before either creates its group |

| `keystore_methods` | `OnlyRS256Accepted` | "Tokens must be RS256-signed" (`README.md:77`, and `jwt.go:21`), but a token signed with RS384 by the backend's key is accepted; it still needs that key |

All but the last need another handler to act within a narrow window. The
interleavings of `group_manager.go:40` and `handler.go:144`, `312`, `319` and
`413` are covered by these runs alone (`TornDown` and `AccountIsolation` hold
in them): the properties of `relay_serial` do not reach them.
`TornDown`, `AccountIsolation` and `SlotOwned` hold even so, for any number of
connections (next section): a split account is a matter of
availability, not of data reaching the wrong place.

## 4. Proofs

Seven modules hold proofs, `tlapm <module>.tla` checks one; each extends the
module it is about.

```
tlapm AdmissionProofs.tla        tlapm RelayProofs.tla
tlapm KeyStoreProofs.tla         tlapm RelayRefinement.tla
tlapm ControlReportsProofs.tla   tlapm RelaySerialProofs.tla
                                 tlapm RelayClientsProofs.tla
```

The constants are arbitrary, under the named assumptions of the modules, which
TLC evaluates on every instance:

| Assumption | Says | Why the code grants it |
|---|---|---|
| `ConnsAssumption` | bridges are connections with an id; ids are finitely many | an auth message of a bridge without an id is refused |
| `LimitsAssumption` | limits are positive; no more phones than connIds | 10, 5 and 65535 |
| `UsersAssumption` | a connection has one account | the account is the `userId` claim of its token |
| `AdmissionAssumption` | finitely many requests; addresses and headers have their types | – |
| `SocketsAssumption` | a socket is a bridge or a phone; the missing value `none` is no socket, policy, event or report; a bridge's reports carry its own connection id or none | one role per connection; a nil pointer or empty string is none of these |
| `KeyStoreAssumption` | the ticker is no connection; `""` is no account; a claim is a string, a number, a list of strings or something else | JSON, as the `jwt` library decodes it; line 123 of `jwt.go` refuses an empty `userId` |

Every invariant and action property that a passing run checks is also a theorem.

| Theorem | States |
|---|---|
| **`RelayProofs`** | |
| `TypeCorrect` | `Spec => []TypeOK` |
| `SlotsCorrect` | `Spec => []SlotOwned` |
| `TornDownCorrect` | `Spec => []TornDown` |
| `DisplacedSilentCorrect` | `Spec => []DisplacedSilent` |
| `DisplacedRelaysNothingCorrect` | `Spec => DisplacedRelaysNothing` |
| `AccountIsolationCorrect`, `PinIsolationCorrect` | `Spec => []AccountIsolation`, `Spec => []PinIsolation` |
| `CapsCorrect` | `Spec => []CapsHold` |
| `ConnIDAvailableCorrect` | `Spec => []ConnIDAvailable` |
| **`RelayRefinement`** | |
| `MembershipCorrect` | `Spec => ImplementsMembership` |
| **`RelaySerialProofs`** | |
| `OneGroupCorrect` | `SerialSpec => []OneGroupPerAccount` |
| `ReportedOnlineCorrect` | `SerialSpec => []LiveBridgeReportedOnline` |
| **`RelayClientsProofs`** | |
| `NoticeCorrect` | `SerialSpec => []NoticeMatchesTarget` |
| `RosterCorrect` | `SerialSpec => []RosterMatchesTargets` |
| `PresenceCorrect` | `SerialSpec => []PresenceMatchesLive` |
| **`AdmissionProofs`** | |
| `TypeCorrect`, `SlotsCorrect`, `ClientCapCorrect` | `TypeOK`, `SlotsAccounted`, `ClientCap` |
| **`ControlReportsProofs`** | |
| `TypeCorrect`, `RefillCorrect`, `NewestKeptCorrect` | `TypeOK`, `RefillHasRoom`, `NewestKept` |
| `DisconnectEligibilityCorrect`, `AuthHoldsPolicyCorrect` | `DisconnectEligibility`, `AuthHoldsPolicy` |
| `GoneStaysGoneCorrect` | the action property `GoneStaysGone` |
| `LatestValueSafety` | `Spec => LV!Safety` |
| **`KeyStoreProofs`** | |
| `TypeCorrect`, `OnlyGenuineCorrect`, `FreshTokenCorrect` | `TypeOK`, `OnlyGenuineAccepted`, `FreshTokenAccepted` |

### Every interleaving of handlers (`RelayProofs`)

`IInv` has three parts. `Structure` is about groups and
handlers. `SlotOwned` alone is not inductive: that `RemovePhone` deletes its own
entry needs that no other handler can have been given the id, which needs that
entries are in the group their handler holds; that a fresh group is empty needs
that nobody holds a group before its creator passed `GetOrCreateGroup`
(`GroupsOfAccount`); that a rejected handler may return without cleaning up
needs that a full group has a member and every member's handler still holds the
group (`GroupInUse`); that `DeleteGroup` deletes the group it tested needs the
manager's lock (`LockHeld`); that a displaced handler stays silent needs to know
which phases it can be in (`DisplacedPhases`). `Traffic` says that every write
still to be made and every message already received goes between *peers*: a
phone and a bridge of one account, the phone's own if it is pinned. It must
cover pending writes because a frame looked up before a change of target is
still delivered after it. `OtherTypes` is the rest of the types.

`Shapes` reduces the steps to those that change the structure, one lemma each;
the lemmas on `Traffic` follow the announcements from `targetLocked` to the
client. `CapsCorrect` rests on `MembersStep`: a step adds at most one member to
a group, and none to a full one. `DisplacedRelaysNothingCorrect` rests on
`SenderIsMember`: what a bridge looks up for its frames is empty unless it is
current, and a displaced one is not.

`ConnIDAvailableCorrect` is about the loop that picks a connId. A group that is
not full has fewer used ids than there are ids, so one is free (pigeonhole, from
`MaxPhones <= MaxConnID`). Of the free ids the loop stops at the one for which
the set of ids it passes over is smallest: were one of those free too, the ids
passed on the way to *it* would be a strict subset (`PassedOverShrinks`), and
strict subsets of a finite set are well-founded.

### The refinement of `Membership` (`RelayRefinement`)

The mapping needs more than `IInv`. `RInv` says that data is written in messages
of its own, never inside an announcement (`JobsFit`), by a handler in its read
loop that has one message for each receiver (`DataInLoop`), so that one
`WriteNext` is one `Deliver` or `Lose`; that nothing is written to a connection
that is not in its group yet (`WritesArrive`); and that a handler leaves its
group with its socket closed, and the client behind a closed socket is gone
(`LinesCut`). `CapsHold` turns a full map into a full room. `MapsToStep` then
goes through the actions: `AddBridge` enters and displaces in one step,
`RejectFull` turns away, a frame sends, everything that only announces or
reports is a stutter.

### One handler at a time (`RelaySerialProofs`, `RelayClientsProofs`)

The race runs show that these five properties fail when handlers interleave.
Under `SerialSpec` they hold for any number of connections: the algorithms are
right, their windows are what goes wrong. Failed writes, dropped and displaced
sockets are part of `SerialSpec`; only handlers at work exclude each other.

`GroupInv` says that at most one handler is at work (`OneBusy`), that handlers
which were not displaced hold the registered group (`HoldsRegistered`; a
displaced one may outlive it), that a group is still empty when it is deleted,
and that the id of a bridge about to be reported as gone has no live bridge
(`VanishedIsGone`).

`ClientsInv` is about what clients know. A property of quiet states is far from
inductive; the invariant says for every client and every thing it is told about
that *each message still to be written about it is right, and if none is left,
what the client knows is right*. In that form a delivery in any order preserves
it (`ClientsWrite`), and so does a lost one, since the receiver is closed with
it. What is left is that each change of the maps comes with the messages it
needs: `ClientsBridgeChange` for `AddBridge` and `RemoveBridge`, where a phone's
old target is told only if it is still in the map and a phone without a target
is told the id it lost; `ClientsAddPhone`, `ClientsRemovePhone` and
`ClientsPresence` for the rest. Presence is exempt between the change of the map
and its announcement (`Unannounced`), and a newcomer must know nothing
(`NewcomersKnowNothing`), which needs `WritesArrive`.

### The other components

`AdmissionProofs`: `SlotsAccounted` is inductive given the types;
the argument counts the handlers of an address
that are between their `AllowConnection` and their one release, and needs that
an address resolves to the same string at both (`ResolvedOnce`).
`ClientCapCorrect` follows: all requests of a client resolve to its canonical
address, for any parser of addresses.

`ControlReportsProofs`: the invariant follows a report from the read loop over
the channel and the sender to the auth server. `SocketsInv` says what the three
places of a socket may hold, and that of these only the socket's last report is
stamped with its present time. `AuthInv` bounds what is under way or arrived by
that clock and makes a disconnected report the last of its connection, which is
why no late report can revive it. `NewestInv` says that nothing else rivals the
newest report (`Unrivalled`) and that it is waiting, about to be sent, under way
or arrived (`Somewhere`); with everything arrived, the auth server holds it.
`PoliciesInv` ties `disconnectPolicy` to the policies the socket had, of any
number.

`LatestValueSafety` maps the channel, or the report being handed over, to the
pending value and the sender to the value under way (`Waiting`, `UnderWay`,
`Open`).

`KeyStoreProofs`: `FetchHoldsKey` and `TokenPresented` carry a key and a token
from one step to the next; `SecondIsFresh` says that a handler nothing disturbed
makes its second parse with the published key. `ClaimsExact` shows that
`validateClaims` accepts exactly the claims of an access token.

**Model-checked only.** Liveness under fairness, which the prover cannot
express: `HandlersEnd`, `SendersEnd`, `KeyRecovers`, `SlotUsedOrReturned` and
the `Progress` part of `LatestValue` (`ImplementsLatestValue` is therefore
proved in part). `HandlersEnd` speaks of the manager's mutex (`mgrLock`); a critical section of a
group is one step and its mutex no variable, so a wrong order of the two locks
could not show. The code holds both in two places only (`group_manager.go:40`
and `64`), the group's inside the manager's. The race runs and
`keystore_methods` are counterexamples and need no proof.
No module declares a RECURSIVE operator and nothing here needs induction over
data.

## 5. What is not modelled

`JWTAuthenticator.Authenticate` (`jwt.go:35-71`) and `ParseMessage`, which the
relay never calls; the encryption framing (`framing.go`) and close codes, which
have no state and which the relay does not use for routing; the HTTP endpoints,
the statistics log, flags, environment and logging. `Shutdown` does not wait for
upgraded connections, and the process ends without disconnected reports: what
the auth server makes of a silent relay is outside this repository. Nothing is
persisted, so a restart is the initial state. Connection deadlines and sizes in
seconds and bytes are abstracted to the choices they lead to.

## 6. Plan

1. `AccountGroup`, `Relay`, `Admission`: done, with the first proofs.
2. `ControlReports` with `LatestValue`, `KeyStore`, `Membership`, address
   resolution: done.
3. Theorems for every invariant and action property of the passing runs, and for
   both refinements as far as they are safety: done.
4. To come: what every interleaving still guarantees where only the serial
   system is right today (which clients can be told what, in the windows the
   race runs show), stated and proved under `Spec`; shorter proofs where a leaf
   repeats the facts of its neighbours.
