------------------------------- MODULE KeyStore -------------------------------
(***************************************************************************)
(* The auth backend's public key in the relay and the tokens checked with  *)
(* it: internal/auth/keystore.go, verifyToken and validateClaims of        *)
(* internal/auth/jwt.go, and the part of cmd/relay/main.go that loads the  *)
(* key and starts its periodic refresh.                                    *)
(*                                                                         *)
(* A refresh fetches the key without a lock and stores it under one, so    *)
(* refreshes by the ticker and by connections overlap.  Keys are numbered  *)
(* in the order the backend publishes them.                                *)
(***************************************************************************)
EXTENDS Integers, Sequences

CONSTANTS
    Conns,      \* connections that authenticate, again and again
    Tokens,     \* tokens each presents, without the key they are signed with
    Ticker,     \* the goroutine of StartPeriodicRefresh
    MaxKeys,    \* bound: how many keys the backend publishes
    Users       \* userIds that tokens name, the empty one left out

Refreshers == Conns \cup {Ticker}

\* No key yet; as a token's key, a signature the backend did not make.
NoKey == 0
Keys == 1 .. MaxKeys

\* The methods of *jwt.SigningMethodRSA.
RSAMethods == {"RS256", "RS384", "RS512"}

(***************************************************************************)
(* Claims map names to values.  A value has the type its JSON has: a       *)
(* string holds one val, a list of strings any number of them, any other   *)
(* type (a list with something else in it too) none that matters.          *)
(***************************************************************************)
ClaimNames == {"userId", "tokenType", "aud", "iss", "exp"}

ClaimValue(v) ==
    /\ v \in [type : {"string", "number", "list", "other"}, val : Seq(STRING)]
    /\ v.type = "string" => Len(v.val) = 1

WellFormed(claims) ==
    /\ DOMAIN claims \subseteq ClaimNames
    /\ \A name \in DOMAIN claims : ClaimValue(claims[name])
    /\ "userId" \in DOMAIN claims /\ claims["userId"].type = "string"
        => claims["userId"].val[1] \in Users \cup {""}

ASSUME KeyStoreAssumption ==
    /\ Ticker \notin Conns
    /\ MaxKeys \in Nat \ {0}
    /\ "" \notin Users
    /\ \A c \in Conns : \A t \in Tokens[c] : WellFormed(t.claims)

VARIABLES
    server,     \* "starting", "running" or "exited"
    backend,    \* "up" when GET /auth/public-key answers with an RSA key
    published,  \* the key it answers with
    key,        \* KeyStore.key
    refresh,    \* where each refresher is in Refresh
    fetched,    \* the key fetchAndParse returned to it
    pc,         \* where the handler of each connection is in Validate
    token,      \* the token it validates
    disturbed   \* its refresh failed, or an older key was stored meanwhile

refreshVars == <<refresh, fetched>>
connVars    == <<pc, token, disturbed>>
vars == <<server, backend, published, key, refreshVars, connVars>>

Validating(c) == pc[c] \in {"first", "refreshing", "second"}

NoToken == [alg |-> "none", expired |-> TRUE, claims |-> <<>>, key |-> NoKey]

Init ==
    /\ server = "starting"
    /\ backend \in {"up", "down"}
    /\ published = 1
    /\ key = NoKey
    /\ refresh = [x \in Refreshers |-> "idle"]
    /\ fetched = [x \in Refreshers |-> NoKey]
    /\ pc = [c \in Conns |-> "away"]
    /\ token = [c \in Conns |-> NoToken]
    /\ disturbed = [c \in Conns |-> FALSE]

-------------------------------------------------------------------------------
(* Claims *)

\* The value of the claim as a set, empty for the error.
requiredStringClaim(claims, name) ==
    IF name \in DOMAIN claims /\ claims[name].type = "string"
    THEN {claims[name].val[1]} ELSE {}

requiredFloatClaim(claims, name) ==
    name \in DOMAIN claims /\ claims[name].type = "number"

\* Any list with the audience will do (a mutant of audienceClaim).
audienceClaimFirst(claims) ==
    IF "aud" \in DOMAIN claims /\ claims["aud"].val # <<>>
    THEN {claims["aud"].val[1]} ELSE {}

\* A string, or a list of one.
audienceClaim(claims) ==
    IF "aud" \in DOMAIN claims /\ \/ claims["aud"].type = "string"
                                  \/ claims["aud"].type = "list" /\ Len(claims["aud"].val) = 1
    THEN {claims["aud"].val[1]} ELSE {}

validateClaims(claims) ==
    /\ requiredStringClaim(claims, "userId") \notin {{}, {""}}
    /\ requiredStringClaim(claims, "tokenType") = {"access"}
    /\ audienceClaim(claims) = {"mobile"}
    /\ requiredStringClaim(claims, "iss") = {"auth-backend"}
    /\ requiredFloatClaim(claims, "exp")

\* jwt.Parse with the key store's key; like the signature, an exp that passed or
\* is no number fails it, a missing one does not.
Parses(t) ==
    /\ t.alg \in RSAMethods /\ t.key = key
    /\ ~t.expired /\ ("exp" \in DOMAIN t.claims => requiredFloatClaim(t.claims, "exp"))

-------------------------------------------------------------------------------
(* The key *)

\* The relay serves without a key (a mutant of Load).
LoadOptional ==
    /\ server = "starting"
    /\ server' = "running"
    /\ key' = IF backend = "up" THEN published ELSE key
    /\ UNCHANGED <<backend, published, refreshVars, connVars>>

\* main loads the key before it serves, and exits without one.
Load ==
    /\ server = "starting"
    /\ IF backend = "up"
       THEN server' = "running" /\ key' = published
       ELSE server' = "exited" /\ UNCHANGED key
    /\ UNCHANGED <<backend, published, refreshVars, connVars>>

\* No answer within 10 seconds, or not a PEM encoded RSA key: the refresh is over
\* and the key stays; a handler is left with the error of its first parse.
fetchAndParseFails(x) ==
    /\ server = "running" /\ refresh[x] = "fetching" /\ backend = "down"
    /\ refresh' = [refresh EXCEPT ![x] = "idle"]
    /\ pc' = [c \in Conns |-> IF c = x THEN "refused" ELSE pc[c]]
    /\ disturbed' = [c \in Conns |-> disturbed[c] \/ c = x]
    /\ UNCHANGED <<server, backend, published, key, fetched, token>>

fetchAndParse(x) ==
    /\ server = "running" /\ refresh[x] = "fetching" /\ backend = "up"
    /\ refresh' = [refresh EXCEPT ![x] = "fetched"]
    /\ fetched' = [fetched EXCEPT ![x] = published]
    /\ UNCHANGED <<server, backend, published, key, connVars>>

\* The lock is held for the assignment only.
Store(x) ==
    /\ server = "running" /\ refresh[x] = "fetched"
    /\ key' = fetched[x]
    /\ refresh' = [refresh EXCEPT ![x] = "idle"]
    /\ fetched' = [fetched EXCEPT ![x] = NoKey]
    /\ pc' = [c \in Conns |-> IF c = x THEN "second" ELSE pc[c]]
    /\ disturbed' = [c \in Conns |-> disturbed[c] \/ (Validating(c) /\ fetched[x] # published)]
    /\ UNCHANGED <<server, backend, published, token>>

\* The key is fetched only while it is missing (a mutant of
\* StartPeriodicRefresh).
RefreshIfMissing ==
    /\ server = "running" /\ refresh[Ticker] = "idle" /\ key = NoKey
    /\ refresh' = [refresh EXCEPT ![Ticker] = "fetching"]
    /\ UNCHANGED <<server, backend, published, key, fetched, connVars>>

\* Every 5 minutes.
StartPeriodicRefresh ==
    /\ server = "running" /\ refresh[Ticker] = "idle"
    /\ refresh' = [refresh EXCEPT ![Ticker] = "fetching"]
    /\ UNCHANGED <<server, backend, published, key, fetched, connVars>>

-------------------------------------------------------------------------------
(* Validate *)

\* A client comes with a token of any key published so far, or forged.
Arrive(c) ==
    /\ server = "running" /\ pc[c] \in {"away", "accepted", "refused"}
    /\ \E t \in Tokens[c], k \in {NoKey} \cup 1 .. published :
        token' = [token EXCEPT ![c] = [alg |-> t.alg, expired |-> t.expired,
                                       claims |-> t.claims, key |-> k]]
    /\ pc' = [pc EXCEPT ![c] = "first"]
    /\ disturbed' = [disturbed EXCEPT ![c] = FALSE]
    /\ UNCHANGED <<server, backend, published, key, refreshVars>>

Verdict(c) == IF validateClaims(token[c].claims) THEN "accepted" ELSE "refused"

\* verifyToken's first parse; any error at all makes it refresh the key.
FirstParse(c) ==
    /\ server = "running" /\ pc[c] = "first"
    /\ IF Parses(token[c])
       THEN pc' = [pc EXCEPT ![c] = Verdict(c)] /\ UNCHANGED refresh
       ELSE /\ pc' = [pc EXCEPT ![c] = "refreshing"]
            /\ refresh' = [refresh EXCEPT ![c] = "fetching"]
    /\ UNCHANGED <<server, backend, published, key, fetched, token, disturbed>>

\* The error of the first parse stands (a mutant of SecondParse).
SecondParseSkipped(c) ==
    /\ server = "running" /\ pc[c] = "second"
    /\ pc' = [pc EXCEPT ![c] = "refused"]
    /\ UNCHANGED <<server, backend, published, key, refreshVars, token, disturbed>>

SecondParse(c) ==
    /\ server = "running" /\ pc[c] = "second"
    /\ pc' = [pc EXCEPT ![c] = IF Parses(token[c]) THEN Verdict(c) ELSE "refused"]
    /\ UNCHANGED <<server, backend, published, key, refreshVars, token, disturbed>>

-------------------------------------------------------------------------------
(* The backend, and the end of the process *)

Rotate ==
    /\ published < MaxKeys
    /\ published' = published + 1
    /\ UNCHANGED <<server, backend, key, refreshVars, connVars>>

Outage ==
    /\ backend' = IF backend = "up" THEN "down" ELSE "up"
    /\ UNCHANGED <<server, published, key, refreshVars, connVars>>

\* SIGINT or SIGTERM.
Exit ==
    /\ server = "running" /\ server' = "exited"
    /\ UNCHANGED <<backend, published, key, refreshVars, connVars>>

RefreshStep(x) == fetchAndParse(x) \/ fetchAndParseFails(x) \/ Store(x)

Next ==
    \/ Load \/ StartPeriodicRefresh \/ Exit
    \/ \E x \in Refreshers : RefreshStep(x)
    \/ \E c \in Conns : Arrive(c) \/ FirstParse(c) \/ SecondParse(c)
    \/ Rotate \/ Outage

\* The process starts, its ticker ticks and its goroutines run.
Fairness ==
    /\ WF_vars(Load) /\ WF_vars(StartPeriodicRefresh)
    /\ \A x \in Refreshers : WF_vars(RefreshStep(x))
    /\ \A c \in Conns : WF_vars(FirstParse(c) \/ SecondParse(c))

Spec == Init /\ [][Next]_vars /\ Fairness

-------------------------------------------------------------------------------
(* Properties *)

\* Refreshers and handlers are in a known phase, and a running relay has a key
\* that the backend published.
TypeOK ==
    /\ server \in {"starting", "running", "exited"}
    /\ backend \in {"up", "down"}
    /\ published \in Keys
    /\ key \in 0 .. published /\ (server = "running" => key # NoKey)
    /\ refresh \in [Refreshers -> {"idle", "fetching", "fetched"}]
    /\ fetched \in [Refreshers -> 0 .. published]
    /\ pc \in [Conns -> {"away", "first", "refreshing", "second", "accepted", "refused"}]
    /\ \A c \in Conns : /\ token[c].key \in 0 .. published
                        /\ pc[c] = "refreshing" <=> refresh[c] # "idle"
    /\ disturbed \in [Conns -> BOOLEAN]

\* An access token of the backend for the mobile app, as it issues them.
AccessToken(claims) ==
    /\ DOMAIN claims = ClaimNames
    /\ \E user \in Users : claims["userId"] = [type |-> "string", val |-> <<user>>]
    /\ claims["tokenType"] = [type |-> "string", val |-> <<"access">>]
    /\ claims["aud"].type \in {"string", "list"} /\ claims["aud"].val = <<"mobile">>
    /\ claims["iss"] = [type |-> "string", val |-> <<"auth-backend">>]
    /\ claims["exp"].type = "number"

Genuine(t) == t.alg \in RSAMethods /\ t.key # NoKey /\ ~t.expired /\ AccessToken(t.claims)

\* "Only user access tokens (tokenType "access", aud "mobile") are accepted; every
\* other token type ... is rejected" (jwt.go:110): however often the key is
\* replaced while a token is checked, only one that the backend signed, that
\* has not expired and that has every claim in its one right form is accepted.
OnlyGenuineAccepted == \A c \in Conns : pc[c] = "accepted" => Genuine(token[c])

\* "Tokens must be RS256-signed" (README), "a signed RS256 JWT" (jwt.go:21): no
\* token signed in another way is accepted.  verifyToken lets every RSA method
\* pass (jwt.go:92).
OnlyRS256Accepted == \A c \in Conns : pc[c] = "accepted" => token[c].alg = "RS256"

\* "On failure it tries one key refresh before giving up, which handles key
\* rotation gracefully" (jwt.go:87): a genuine token signed with the published
\* key is refused only when the handler's own fetch failed or another refresh
\* stored an older key while the token was checked.
FreshTokenAccepted ==
    \A c \in Conns :
        pc[c] = "refused" /\ Genuine(token[c]) /\ token[c].key = published => disturbed[c]

\* Overlapping refreshes may store keys out of order (keystore.go:57), and an
\* outage may fail any number of them; once the backend stays up the relay
\* ends up with the published key for good.
KeyRecovers ==
    <>[](backend = "up") => <>[](server = "exited" \/ key = published)
===============================================================================
