------------------------------ MODULE Admission ------------------------------
(***************************************************************************)
(* What a connection goes through before and after its handler runs:       *)
(* handleWebSocket of internal/relay/handler.go with the RateLimiter of    *)
(* ratelimit.go and the count of groups it consults.  Module Relay has     *)
(* what happens inside handleBridge and handlePhone; here that is one      *)
(* phase, during which the account of the connection has a group.          *)
(***************************************************************************)
EXTENDS Integers, Sequences, FiniteSets

CONSTANTS
    Reqs,       \* requests to /ws
    Addresses,  \* strings that stand for an address, in any spelling
    Canonical,  \* netip.ParseAddr(...).Unmap().String(), invalid if it fails
    invalid,
    RemoteAddr, \* r.RemoteAddr of each request, without its port
    Header,     \* its CF-Connecting-IP values
    Users,      \* accounts
    User,       \* the account of each request's token
    MaxPerIP,   \* defaultMaxPerIP (20)
    MaxRooms    \* defaultMaxRooms (10000)

ASSUME AdmissionAssumption ==
    /\ IsFiniteSet(Reqs)
    /\ invalid \notin Addresses
    /\ Canonical \in [Addresses -> Addresses \cup {invalid}]
    /\ RemoteAddr \in [Reqs -> Addresses]
    /\ Header \in [Reqs -> Seq(Addresses)]
    /\ User \in [Reqs -> Users]
    /\ MaxPerIP \in Nat \ {0}
    /\ MaxRooms \in Nat \ {0}

VARIABLES
    pc,         \* where the handler of each request is
    jwtAuth,    \* Server.jwtAuth: "nil" when no auth backend is configured
    trustCFConnectingIP,    \* the Server's flag
    counts,     \* RateLimiter.counts, a missing key reads as 0
    rejectedConnections,
    groups      \* the accounts that have a group in the GroupManager

serverVars == <<jwtAuth, trustCFConnectingIP>>
limiterVars == <<counts, rejectedConnections>>
vars == <<pc, serverVars, limiterVars, groups>>

(***************************************************************************)
(* arrived    before AllowConnection                                       *)
(* allowed    before websocket.Accept                                      *)
(* upgraded   before AllowGroup; the deferred release is now in place      *)
(* auth       reading and validating the auth message                      *)
(* valid      authenticated, before GetOrCreateGroup                       *)
(* inside     in handleBridge or handlePhone                               *)
(* returning  before the deferred ReleaseConnection                        *)
(* done       the handler returned                                         *)
(***************************************************************************)
Phases == {"arrived", "allowed", "upgraded", "auth", "valid", "inside", "returning", "done"}

Init ==
    /\ pc = [r \in Reqs |-> "arrived"]
    /\ jwtAuth \in {"nil", "set"}
    /\ trustCFConnectingIP \in BOOLEAN
    /\ counts = [ip \in Addresses |-> 0]
    /\ rejectedConnections = 0
    /\ groups = {}

(* The client's address *)

\* An address counts as it is spelled (a mutant of canonicalIPAddress).
canonicalIPAddressAsSpelled(value) == value

canonicalIPAddress(value) == Canonical[value]

\* What does not parse is used as it is.
remoteIPAddress(value) ==
    IF canonicalIPAddress(value) # invalid THEN canonicalIPAddress(value) ELSE value

\* The header decides only if trusted, there exactly once and an address.
resolveClientIP(r) ==
    IF /\ trustCFConnectingIP
       /\ Len(Header[r]) = 1 /\ canonicalIPAddress(Header[r][1]) # invalid
    THEN canonicalIPAddress(Header[r][1])
    ELSE remoteIPAddress(RemoteAddr[r])

-------------------------------------------------------------------------------
(* handleWebSocket *)

Goto(r, phase) == pc' = [pc EXCEPT ![r] = phase]

\* The cap tested with > instead of >= (a mutant of AllowConnection).
AllowConnectionOffByOne(r) ==
    /\ pc[r] = "arrived"
    /\ IF counts[resolveClientIP(r)] > MaxPerIP
       THEN /\ rejectedConnections' = rejectedConnections + 1
            /\ Goto(r, "done")
            /\ UNCHANGED counts
       ELSE /\ counts' = [counts EXCEPT ![resolveClientIP(r)] = @ + 1]
            /\ Goto(r, "allowed")
            /\ UNCHANGED rejectedConnections
    /\ UNCHANGED <<serverVars, groups>>

\* Refused with 429, or counted.
AllowConnection(r) ==
    /\ pc[r] = "arrived"
    /\ IF counts[resolveClientIP(r)] >= MaxPerIP
       THEN /\ rejectedConnections' = rejectedConnections + 1
            /\ Goto(r, "done")
            /\ UNCHANGED counts
       ELSE /\ counts' = [counts EXCEPT ![resolveClientIP(r)] = @ + 1]
            /\ Goto(r, "allowed")
            /\ UNCHANGED rejectedConnections
    /\ UNCHANGED <<serverVars, groups>>

\* A count of 1 deletes the entry, a missing entry stays missing.
ReleaseConnection(ip) ==
    /\ counts' = [counts EXCEPT ![ip] = IF @ <= 1 THEN 0 ELSE @ - 1]
    /\ UNCHANGED rejectedConnections

Accept(r) ==
    /\ pc[r] = "allowed"
    /\ Goto(r, "upgraded")
    /\ UNCHANGED <<serverVars, limiterVars, groups>>

\* The failed upgrade returns without its slot (a mutant of AcceptFails).
AcceptFailsUnreleased(r) ==
    /\ pc[r] = "allowed"
    /\ Goto(r, "done")
    /\ UNCHANGED <<serverVars, limiterVars, groups>>

AcceptFails(r) ==
    /\ pc[r] = "allowed"
    /\ ReleaseConnection(resolveClientIP(r))
    /\ Goto(r, "done")
    /\ UNCHANGED <<serverVars, groups>>

\* Without an authenticator every client is turned away with CloseAuthRequired.
AuthUnavailable(r) ==
    /\ pc[r] = "upgraded" /\ jwtAuth = "nil"
    /\ Goto(r, "returning")
    /\ UNCHANGED <<serverVars, limiterVars, groups>>

\* AllowGroup(Count()): at the cap also members of existing groups are refused.
AllowGroup(r) ==
    /\ pc[r] = "upgraded" /\ jwtAuth # "nil"
    /\ Goto(r, IF Cardinality(groups) < MaxRooms THEN "auth" ELSE "returning")
    /\ UNCHANGED <<serverVars, limiterVars, groups>>

\* readAndValidateAuth and the bridgeId tests succeed.
Authenticate(r) ==
    /\ pc[r] = "auth"
    /\ Goto(r, "valid")
    /\ UNCHANGED <<serverVars, limiterVars, groups>>

\* A client that sends nothing is waited for (a mutant of RejectAuth).
RejectAuthNever(r) ==
    /\ pc[r] = "auth" /\ FALSE
    /\ UNCHANGED vars

\* The auth message is malformed or refused, or does not come within 5 seconds.
RejectAuth(r) ==
    /\ pc[r] = "auth"
    /\ Goto(r, "returning")
    /\ UNCHANGED <<serverVars, limiterVars, groups>>

GetOrCreateGroup(r) ==
    /\ pc[r] = "valid"
    /\ groups' = groups \cup {User[r]}
    /\ Goto(r, "inside")
    /\ UNCHANGED <<serverVars, limiterVars>>

\* handleBridge or handlePhone returns.  The group goes with the last handler of
\* its account; it may go before that, while another one has not entered it yet.
LeaveGroup(r) ==
    /\ pc[r] = "inside"
    /\ \/ groups' = groups \ {User[r]}
       \/ /\ \E other \in Reqs \ {r} : pc[other] = "inside" /\ User[other] = User[r]
          /\ UNCHANGED groups
    /\ Goto(r, "returning")
    /\ UNCHANGED <<serverVars, limiterVars>>

DeferredRelease(r) ==
    /\ pc[r] = "returning"
    /\ ReleaseConnection(resolveClientIP(r))
    /\ Goto(r, "done")
    /\ UNCHANGED <<serverVars, groups>>

\* What the server does without waiting for a client.
ServerStep(r) ==
    \/ AllowConnection(r) \/ Accept(r) \/ AcceptFails(r) \/ AuthUnavailable(r) \/ AllowGroup(r)
    \/ RejectAuth(r) \/ GetOrCreateGroup(r) \/ DeferredRelease(r)

Finished == (\A r \in Reqs : pc[r] = "done") /\ UNCHANGED vars

Next ==
    \/ \E r \in Reqs : ServerStep(r) \/ Authenticate(r) \/ LeaveGroup(r)
    \/ Finished

\* Goroutines run and the 5 second deadline on the auth message expires.
Fairness == \A r \in Reqs : WF_vars(ServerStep(r))

Spec == Init /\ [][Next]_vars /\ Fairness

-------------------------------------------------------------------------------
(* Properties *)

\* Handlers are in a known phase, counts are within the cap and groups belong
\* to accounts.
TypeOK ==
    /\ pc \in [Reqs -> Phases]
    /\ jwtAuth \in {"nil", "set"} /\ trustCFConnectingIP \in BOOLEAN
    /\ counts \in [Addresses -> 0 .. MaxPerIP]
    /\ rejectedConnections \in Nat
    /\ groups \subseteq Users

\* The handlers from an address that hold a slot of it.
Holding == {"allowed", "upgraded", "auth", "valid", "inside", "returning"}
Holders(ip) == {r \in Reqs : resolveClientIP(r) = ip /\ pc[r] \in Holding}

\* The count of an address is the number of its handlers between AllowConnection
\* and their one release, whichever of the six ways out they take: no slot
\* leaks and none is returned twice (handler.go:104-124), so that the cap on the
\* count is README's "Max 20 connections per resolved client IP".
SlotsAccounted ==
    \A ip \in Addresses : /\ counts[ip] = Cardinality(Holders(ip))
                          /\ Cardinality(Holders(ip)) <= MaxPerIP

\* Where requests of the client with address ip show it: behind Cloudflare in
\* the header, spelled one way or another, without it in the peer address.
CameFrom(r, ip) ==
    IF trustCFConnectingIP
    THEN Len(Header[r]) = 1 /\ Canonical[Header[r][1]] = ip
    ELSE Canonical[RemoteAddr[r]] = ip

\* The cap holds per client, not per spelling of its address or per proxy:
\* IPv4-mapped and plain forms (handler.go:92) count together, and so do
\* requests that reach the relay through different Cloudflare addresses.
ClientCap ==
    \A ip \in Addresses :
        Cardinality({r \in Reqs : CameFrom(r, ip) /\ pc[r] \in Holding}) <= MaxPerIP

\* A client that never authenticates does not keep its slot: every handler that
\* holds one joins a group or returns it (handler.go:155).
SlotUsedOrReturned ==
    \A r \in Reqs : (pc[r] \in Holding) ~> (pc[r] \in {"inside", "done"})

\* README: "max 10,000 active groups globally".
GroupCap == Cardinality(groups) <= MaxRooms
===============================================================================
