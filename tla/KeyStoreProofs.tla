--------------------------- MODULE KeyStoreProofs ---------------------------
(***************************************************************************)
(* KeyStore's safety properties for any number of connections, tokens and  *)
(* keys.  TypeOK is strengthened by what a refresh carries from its fetch  *)
(* to its store, by where the token under check came from and, for the     *)
(* second parse, by what an undisturbed handler knows of the key it parses *)
(* with: it is the published one or was replaced by it.                    *)
(***************************************************************************)
EXTENDS KeyStore, TLAPS

USE DEF NoKey, Keys, Refreshers

\* Between fetch and store a refresh holds a key.
FetchHoldsKey == \A x \in Refreshers : refresh[x] = "fetched" => fetched[x] # NoKey

\* What a handler checks is a token its client has.
TokenPresented ==
    /\ token = [c \in Conns |-> token[c]]
    /\ \A c \in Conns : pc[c] # "away" => \E t \in Tokens[c] : token[c].claims = t.claims

\* A handler that nothing disturbed parses a fresh token with the fresh key the
\* second time.
SecondIsFresh ==
    \A c \in Conns :
        pc[c] = "second" /\ token[c].key = published => disturbed[c] \/ key = published

IInv ==
    /\ TypeOK
    /\ FetchHoldsKey
    /\ TokenPresented
    /\ SecondIsFresh
    /\ OnlyGenuineAccepted
    /\ FreshTokenAccepted

-----------------------------------------------------------------------------
(* Claims *)

\* validateClaims (jwt.go:110) accepts exactly the claims of an access token,
\* whatever the types and values of the claims.
LEMMA ClaimsExact ==
    ASSUME NEW claims, WellFormed(claims)
    PROVE  validateClaims(claims) <=> AccessToken(claims)
<1> DEFINE S(name, v) == claims[name] = [type |-> "string", val |-> <<v>>]
<1>1. ASSUME NEW name \in DOMAIN claims, claims[name].type = "string"
      PROVE  S(name, claims[name].val[1])
  <2>1. claims[name] \in [type : {"string", "number", "list", "other"}, val : Seq(STRING)] /\ Len(claims[name].val) = 1
    BY <1>1 DEF WellFormed, ClaimValue
  <2>2. claims[name].val = <<claims[name].val[1]>>
    BY <2>1
  <2> QED BY <1>1, <2>1, <2>2
<1>2. ASSUME NEW name, NEW v
      PROVE  requiredStringClaim(claims, name) = {v} <=> name \in DOMAIN claims /\ S(name, v)
  <2>1. CASE name \in DOMAIN claims /\ claims[name].type = "string"
    <3>1. requiredStringClaim(claims, name) = {claims[name].val[1]}
      BY <2>1 DEF requiredStringClaim
    <3>2. S(name, claims[name].val[1])
      BY <1>1, <2>1
    <3> QED BY <3>1, <3>2, <2>1
  <2>2. CASE ~(name \in DOMAIN claims /\ claims[name].type = "string")
    BY <1>2, <2>2 DEF requiredStringClaim
  <2> QED BY <2>1, <2>2
<1>3. audienceClaim(claims) = {"mobile"} <=>
        /\ "aud" \in DOMAIN claims
        /\ claims["aud"].type \in {"string", "list"} /\ claims["aud"].val = <<"mobile">>
  <2>1. CASE "aud" \in DOMAIN claims
    <3>1. /\ claims["aud"] \in [type : {"string", "number", "list", "other"}, val : Seq(STRING)]
          /\ claims["aud"].type = "string" => Len(claims["aud"].val) = 1
      BY <2>1 DEF WellFormed, ClaimValue
    <3> DEFINE val == claims["aud"].val
    <3>2. val \in Seq(STRING)
      BY <3>1
    <3>3. val = <<"mobile">> <=> Len(val) = 1 /\ val[1] = "mobile"
      <4>1. ASSUME val = <<"mobile">> PROVE Len(val) = 1 /\ val[1] = "mobile"
        BY <4>1
      <4>2. ASSUME Len(val) = 1, val[1] = "mobile" PROVE val = <<"mobile">>
        <5> HIDE DEF val
        <5> QED BY <3>2, <4>2
      <4> QED BY <4>1, <4>2
    <3> DEFINE one == claims["aud"].type = "string" \/ (claims["aud"].type = "list" /\ Len(val) = 1)
    <3>4. audienceClaim(claims) = IF one THEN {val[1]} ELSE {}
      BY <2>1 DEF audienceClaim
    <3>5. one <=> claims["aud"].type \in {"string", "list"} /\ Len(val) = 1
      BY <3>1
    <3> HIDE DEF one, val
    <3>6. audienceClaim(claims) = {"mobile"} <=> one /\ val[1] = "mobile"
      BY <3>4
    <3> QED BY <2>1, <3>3, <3>5, <3>6 DEF val
  <2>2. CASE "aud" \notin DOMAIN claims
    BY <2>2 DEF audienceClaim
  <2> QED BY <2>1, <2>2
<1>4. requiredStringClaim(claims, "userId") \notin {{}, {""}}
        <=> "userId" \in DOMAIN claims /\ \E user \in Users : S("userId", user)
  <2>1. CASE "userId" \in DOMAIN claims /\ claims["userId"].type = "string"
    <3>1. requiredStringClaim(claims, "userId") = {claims["userId"].val[1]}
      BY <2>1 DEF requiredStringClaim
    <3>2. claims["userId"].val[1] \in Users \cup {""}
      BY <2>1 DEF WellFormed
    <3>3. S("userId", claims["userId"].val[1])
      BY <1>1, <2>1
    <3>4. ASSUME NEW user \in Users, S("userId", user)
          PROVE  claims["userId"].val[1] # ""
      <4>1. claims["userId"].val[1] = user
        BY <3>4
      <4> QED BY <4>1, KeyStoreAssumption
    <3> HIDE DEF S
    <3> QED BY <2>1, <3>1, <3>2, <3>3, <3>4
  <2>2. CASE ~("userId" \in DOMAIN claims /\ claims["userId"].type = "string")
    <3>1. requiredStringClaim(claims, "userId") = {}
      BY <2>2 DEF requiredStringClaim
    <3>2. ASSUME NEW user \in Users, S("userId", user)
          PROVE  claims["userId"].type = "string"
      BY <3>2
    <3> HIDE DEF S
    <3> QED BY <2>2, <3>1, <3>2
  <2> QED BY <2>1, <2>2
<1>5. /\ requiredStringClaim(claims, "tokenType") = {"access"}
            <=> "tokenType" \in DOMAIN claims /\ S("tokenType", "access")
      /\ requiredStringClaim(claims, "iss") = {"auth-backend"}
            <=> "iss" \in DOMAIN claims /\ S("iss", "auth-backend")
  BY <1>2
<1>6. DOMAIN claims = ClaimNames <=>
        /\ "userId" \in DOMAIN claims /\ "tokenType" \in DOMAIN claims
        /\ "aud" \in DOMAIN claims /\ "iss" \in DOMAIN claims /\ "exp" \in DOMAIN claims
  BY DEF WellFormed, ClaimNames
<1> QED
  BY <1>3, <1>4, <1>5, <1>6 DEF validateClaims, AccessToken, requiredFloatClaim

-----------------------------------------------------------------------------
(* Steps *)

USE DEF refreshVars, connVars

\* The ticker is no connection, and there is a first key (keystore.go:63).
LEMMA Constants == Ticker \notin Conns /\ MaxKeys \in Nat \ {0}
  BY KeyStoreAssumption

\* The initial state satisfies the invariant.
LEMMA InitIInv == Init => IInv
<1> SUFFICES ASSUME Init PROVE IInv
  OBVIOUS
<1>1. TypeOK
  <2>1. \A c \in Conns : token[c].key = 0
    BY DEF Init, NoToken
  <2>2. 0 \in 0 .. published /\ published \in Keys
    BY Constants DEF Init
  <2> QED BY <2>1, <2>2, Constants DEF Init, TypeOK
<1>2. FetchHoldsKey /\ SecondIsFresh /\ OnlyGenuineAccepted /\ FreshTokenAccepted
  BY DEF Init, FetchHoldsKey, SecondIsFresh, OnlyGenuineAccepted, FreshTokenAccepted
<1>3. TokenPresented
  BY DEF Init, TokenPresented
<1> QED BY <1>1, <1>2, <1>3 DEF IInv

\* Every step keeps the type invariant and that a fetch brings a key.
LEMMA TypeStep == TypeOK /\ FetchHoldsKey /\ TokenPresented /\ [Next]_vars => TypeOK' /\ FetchHoldsKey'
<1> SUFFICES ASSUME TypeOK, FetchHoldsKey, TokenPresented, [Next]_vars PROVE TypeOK' /\ FetchHoldsKey'
  OBVIOUS
<1> USE Constants DEF TypeOK, FetchHoldsKey
<1>0. /\ published \in Nat \ {0} /\ MaxKeys \in Nat /\ published <= MaxKeys
      /\ \A k : k \in 0 .. published <=> k \in Nat /\ k <= published
      /\ key \in Nat /\ key <= published
  OBVIOUS
<1>1. CASE Load
  <2>1. UNCHANGED <<backend, published, refresh, fetched, pc, token, disturbed>>
    BY <1>1 DEF Load
  <2>2. server' \in {"running", "exited"} /\ key' \in 0 .. published /\ (server' = "running" => key' # 0)
    BY <1>0, <1>1 DEF Load
  <2> QED BY <2>1, <2>2
<1>2. CASE StartPeriodicRefresh
  BY <1>2 DEF StartPeriodicRefresh
<1>3. CASE Exit
  BY <1>3 DEF Exit
<1>4. ASSUME NEW x \in Refreshers, fetchAndParse(x) PROVE TypeOK' /\ FetchHoldsKey'
  <2>1. UNCHANGED <<server, backend, published, key, pc, token, disturbed>>
    BY <1>4 DEF fetchAndParse
  <2>2. /\ refresh[x] = "fetching" /\ refresh' = [refresh EXCEPT ![x] = "fetched"]
        /\ fetched' = [fetched EXCEPT ![x] = published] /\ published \in 0 .. published
    BY <1>0, <1>4 DEF fetchAndParse
  <2> QED BY <1>0, <2>1, <2>2
<1>5. ASSUME NEW x \in Refreshers, fetchAndParseFails(x) PROVE TypeOK' /\ FetchHoldsKey'
  BY <1>5 DEF fetchAndParseFails
<1>6. ASSUME NEW x \in Refreshers, Store(x) PROVE TypeOK' /\ FetchHoldsKey'
  <2>1. UNCHANGED <<server, backend, published, token>> /\ server = "running"
    BY <1>6 DEF Store
  <2>2. /\ refresh[x] = "fetched" /\ refresh' = [refresh EXCEPT ![x] = "idle"]
        /\ fetched' = [fetched EXCEPT ![x] = 0] /\ 0 \in 0 .. published
    BY <1>0, <1>6 DEF Store
  <2>3. key' \in 0 .. published /\ key' # 0
    BY <1>6 DEF Store
  <2>4. /\ pc' \in [Conns -> {"away", "first", "refreshing", "second", "accepted", "refused"}]
        /\ \A c \in Conns : pc'[c] = "refreshing" <=> refresh'[c] # "idle"
    BY <1>6, <2>2 DEF Store
  <2>5. disturbed' \in [Conns -> BOOLEAN]
    BY <1>6, Zenon DEF Store
  <2> QED BY <2>1, <2>2, <2>3, <2>4, <2>5
<1>7. ASSUME NEW c \in Conns, Arrive(c) PROVE TypeOK' /\ FetchHoldsKey'
  <2>1. UNCHANGED <<server, backend, published, key, refresh, fetched>>
    BY <1>7 DEF Arrive
  <2>2. /\ pc[c] \in {"away", "accepted", "refused"} /\ pc' = [pc EXCEPT ![c] = "first"]
        /\ disturbed' = [disturbed EXCEPT ![c] = FALSE]
    BY <1>7 DEF Arrive
  <2>3. \A d \in Conns : token'[d].key \in 0 .. published
    <3>1. PICK t \in Tokens[c], k \in {NoKey} \cup 1 .. published :
            token' = [token EXCEPT ![c] = [alg |-> t.alg, expired |-> t.expired,
                                           claims |-> t.claims, key |-> k]]
      BY <1>7 DEF Arrive
    <3>2. k \in 0 .. published
      BY <1>0
    <3>3. token'[c].key = k /\ \A d \in Conns \ {c} : token'[d] = token[d]
      BY <3>1 DEF TokenPresented
    <3> QED BY <3>2, <3>3
  <2> QED BY <2>1, <2>2, <2>3
<1>8. ASSUME NEW c \in Conns, FirstParse(c) PROVE TypeOK' /\ FetchHoldsKey'
  BY <1>8 DEF FirstParse, Verdict
<1>9. ASSUME NEW c \in Conns, SecondParse(c) PROVE TypeOK' /\ FetchHoldsKey'
  BY <1>9 DEF SecondParse, Verdict
<1>10. CASE Rotate
  <2>1. UNCHANGED <<server, backend, key, refresh, fetched, pc, token, disturbed>>
    BY <1>10 DEF Rotate
  <2>2. published' \in Keys /\ \A k \in 0 .. published : k \in 0 .. published'
    BY <1>0, <1>10 DEF Rotate
  <2> QED BY <2>1, <2>2
<1>11. CASE Outage
  BY <1>11 DEF Outage
<1>12. CASE UNCHANGED vars
  BY <1>12 DEF vars
<1> QED
  BY <1>1, <1>2, <1>3, <1>4, <1>5, <1>6, <1>7, <1>8, <1>9, <1>10, <1>11, <1>12
  DEF Next, RefreshStep

\* A handler's token comes from its client and stays while it is checked.
LEMMA TokenStep == TypeOK /\ TokenPresented /\ [Next]_vars => TokenPresented'
<1> SUFFICES ASSUME TypeOK, TokenPresented, [Next]_vars PROVE TokenPresented'
  OBVIOUS
<1>1. ASSUME NEW c \in Conns, Arrive(c) PROVE TokenPresented'
  <2>1. PICK t \in Tokens[c], k \in {NoKey} \cup 1 .. published :
          token' = [token EXCEPT ![c] = [alg |-> t.alg, expired |-> t.expired,
                                         claims |-> t.claims, key |-> k]]
    BY <1>1 DEF Arrive
  <2>2. pc' = [pc EXCEPT ![c] = "first"]
    BY <1>1 DEF Arrive
  <2>3. token'[c].claims = t.claims /\ token' = [d \in Conns |-> token'[d]]
    BY <2>1 DEF TokenPresented
  <2>4. \A d \in Conns \ {c} : token'[d] = token[d] /\ pc'[d] = pc[d]
    BY <2>1, <2>2 DEF TokenPresented, TypeOK
  <2> QED BY <2>3, <2>4 DEF TokenPresented
<1>2. ASSUME token' = token, \A c \in Conns : pc[c] = "away" => pc'[c] = "away"
      PROVE  TokenPresented'
  BY <1>2 DEF TokenPresented
<1>3. ASSUME ~\E c \in Conns : Arrive(c)
      PROVE  token' = token /\ \A c \in Conns : pc[c] = "away" => pc'[c] = "away"
  <2> USE DEF TypeOK
  <2>1. CASE Load \/ StartPeriodicRefresh \/ Exit \/ Rotate \/ Outage \/ UNCHANGED vars
    BY <2>1 DEF Load, StartPeriodicRefresh, Exit, Rotate, Outage, vars
  <2>2. ASSUME NEW x \in Refreshers, RefreshStep(x)
        PROVE  token' = token /\ \A c \in Conns : pc[c] = "away" => pc'[c] = "away"
    BY <2>2 DEF RefreshStep, fetchAndParse, fetchAndParseFails, Store
  <2>3. ASSUME NEW c \in Conns, FirstParse(c) \/ SecondParse(c)
        PROVE  token' = token /\ \A d \in Conns : pc[d] = "away" => pc'[d] = "away"
    BY <2>3 DEF FirstParse, SecondParse
  <2> QED BY <1>3, <2>1, <2>2, <2>3 DEF Next
<1> QED BY <1>1, <1>2, <1>3

\* A genuine token passes the parse with its key and the claims after it, and
\* nothing else does (jwt.go:89, 110).
LEMMA ParseExact ==
    ASSUME TypeOK, TokenPresented, server = "running", NEW c \in Conns, pc[c] # "away"
    PROVE  /\ Verdict(c) = "accepted" <=> AccessToken(token[c].claims)
           /\ Parses(token[c]) /\ Verdict(c) = "accepted" => Genuine(token[c])
           /\ Genuine(token[c]) => Verdict(c) = "accepted"
           /\ Genuine(token[c]) /\ token[c].key = key => Parses(token[c])
<1>1. WellFormed(token[c].claims)
  BY KeyStoreAssumption DEF TokenPresented
<1>2. validateClaims(token[c].claims) <=> AccessToken(token[c].claims)
  BY <1>1, ClaimsExact
<1>3. Verdict(c) = "accepted" <=> AccessToken(token[c].claims)
  BY <1>2 DEF Verdict
<1>4. Parses(token[c]) /\ Verdict(c) = "accepted" => Genuine(token[c])
  BY <1>3 DEF Parses, Genuine, TypeOK
<1>5. Genuine(token[c]) => Verdict(c) = "accepted"
  BY <1>3 DEF Genuine
<1>6. Genuine(token[c]) /\ token[c].key = key => Parses(token[c])
  BY DEF Genuine, Parses, AccessToken, requiredFloatClaim
<1> QED BY <1>3, <1>4, <1>5, <1>6

\* Steps of one handler or refresher leave the other handlers' verdicts alone,
\* and a new verdict is right.
LEMMA VerdictStep ==
    TypeOK /\ TokenPresented /\ SecondIsFresh /\ OnlyGenuineAccepted /\ FreshTokenAccepted /\ [Next]_vars
        => SecondIsFresh' /\ OnlyGenuineAccepted' /\ FreshTokenAccepted'
<1> SUFFICES ASSUME TypeOK, TokenPresented, SecondIsFresh, OnlyGenuineAccepted, FreshTokenAccepted,
                    [Next]_vars
             PROVE  SecondIsFresh' /\ OnlyGenuineAccepted' /\ FreshTokenAccepted'
  OBVIOUS
<1> DEFINE Right(c) ==
      /\ (pc[c] = "second" /\ token[c].key = published => disturbed[c] \/ key = published)'
      /\ (pc[c] = "accepted" => Genuine(token[c]))'
      /\ (pc[c] = "refused" /\ Genuine(token[c]) /\ token[c].key = published => disturbed[c])'
<1> SUFFICES ASSUME NEW c \in Conns PROVE Right(c)
  BY DEF SecondIsFresh, OnlyGenuineAccepted, FreshTokenAccepted
<1>0. /\ pc[c] = "second" /\ token[c].key = published => disturbed[c] \/ key = published
      /\ pc[c] = "accepted" => Genuine(token[c])
      /\ pc[c] = "refused" /\ Genuine(token[c]) /\ token[c].key = published => disturbed[c]
  BY DEF SecondIsFresh, OnlyGenuineAccepted, FreshTokenAccepted
\* Nothing of the handler changes, and the key only becomes the published one.
<1>1. ASSUME pc'[c] = pc[c], token'[c] = token[c], disturbed'[c] = disturbed[c], published' = published,
             key' = key \/ key' = published
      PROVE  Right(c)
  <2>1. Genuine(token[c])' <=> Genuine(token[c])
    BY <1>1 DEF Genuine, AccessToken
  <2> QED BY <1>0, <1>1, <2>1
<1>2. CASE Load \/ StartPeriodicRefresh \/ Exit \/ Outage \/ UNCHANGED vars
  BY <1>1, <1>2 DEF Load, StartPeriodicRefresh, Exit, Outage, vars
<1>3. CASE Rotate
  <2>1. /\ pc'[c] = pc[c] /\ token'[c] = token[c]
        /\ published \in Nat /\ published' = published + 1 /\ token[c].key \in 0 .. published
    BY <1>3, Constants DEF Rotate, TypeOK
  <2>2. token'[c].key # published'
    BY <2>1
  <2>3. Genuine(token[c])' <=> Genuine(token[c])
    BY <2>1 DEF Genuine, AccessToken
  <2> QED BY <1>0, <2>1, <2>2, <2>3
<1>4. ASSUME NEW x \in Refreshers, fetchAndParse(x) PROVE Right(c)
  BY <1>1, <1>4 DEF fetchAndParse
<1>5. ASSUME NEW x \in Refreshers, fetchAndParseFails(x) PROVE Right(c)
  <2>1. CASE c = x
    <3>1. pc'[c] = "refused" /\ disturbed'[c]
      BY <1>5, <2>1 DEF fetchAndParseFails
    <3> QED BY <3>1
  <2>2. CASE c # x
    <3>1. /\ pc'[c] = pc[c] /\ token'[c] = token[c]
          /\ published' = published /\ key' = key
      BY <1>5, <2>2 DEF fetchAndParseFails
    <3>2. disturbed'[c] = disturbed[c]
      BY <1>5, <2>2 DEF fetchAndParseFails, TypeOK
    <3> QED BY <1>1, <3>1, <3>2
  <2> QED BY <2>1, <2>2
<1>6. ASSUME NEW x \in Refreshers, Store(x) PROVE Right(c)
  <2>1. /\ token'[c] = token[c] /\ published' = published /\ key' = fetched[x]
        /\ pc'[c] = IF c = x THEN "second" ELSE pc[c]
    BY <1>6 DEF Store
  <2>2. disturbed'[c] <=> disturbed[c] \/ (Validating(c) /\ fetched[x] # published)
    BY <1>6 DEF Store
  <2>3. Genuine(token[c])' <=> Genuine(token[c])
    BY <2>1 DEF Genuine, AccessToken
  <2>4. c = x => pc[c] = "refreshing"
    BY <1>6 DEF Store, TypeOK
  <2>5. pc'[c] = "second" => Validating(c)
    BY <2>1, <2>4 DEF Validating
  <2>6. pc'[c] # "second" => pc'[c] = pc[c]
    BY <2>1
  <2> QED BY <1>0, <2>1, <2>2, <2>3, <2>5, <2>6
<1>7. ASSUME NEW d \in Conns, Arrive(d) PROVE Right(c)
  <2>1. CASE c = d
    <3>1. pc'[c] = "first"
      BY <1>7, <2>1 DEF Arrive, TypeOK
    <3> QED BY <3>1
  <2>2. CASE c # d
    BY <1>1, <1>7, <2>2 DEF Arrive, TypeOK, TokenPresented
  <2> QED BY <2>1, <2>2
<1>8. ASSUME NEW d \in Conns, FirstParse(d) PROVE Right(c)
  <2>1. CASE c = d
    <3>1. /\ server = "running" /\ pc[c] = "first" /\ token' = token
          /\ pc'[c] = IF Parses(token[c]) THEN Verdict(c) ELSE "refreshing"
      BY <1>8, <2>1 DEF FirstParse, TypeOK
    <3>2. /\ Parses(token[c]) /\ Verdict(c) = "accepted" => Genuine(token[c])
          /\ Genuine(token[c]) => Verdict(c) = "accepted"
      BY <3>1, ParseExact
    <3>3. Genuine(token[c])' <=> Genuine(token[c])
      BY <3>1 DEF Genuine, AccessToken
    <3>4. Verdict(c) \in {"accepted", "refused"}
      BY DEF Verdict
    <3> QED BY <3>1, <3>2, <3>3, <3>4
  <2>2. CASE c # d
    BY <1>1, <1>8, <2>2 DEF FirstParse, TypeOK
  <2> QED BY <2>1, <2>2
<1>9. ASSUME NEW d \in Conns, SecondParse(d) PROVE Right(c)
  <2>1. CASE c = d
    <3>1. /\ server = "running" /\ pc[c] = "second"
          /\ UNCHANGED <<published, key, token, disturbed>>
          /\ pc'[c] = IF Parses(token[c]) THEN Verdict(c) ELSE "refused"
      BY <1>9, <2>1 DEF SecondParse, TypeOK
    <3>2. /\ Parses(token[c]) /\ Verdict(c) = "accepted" => Genuine(token[c])
          /\ Genuine(token[c]) => Verdict(c) = "accepted"
          /\ Genuine(token[c]) /\ token[c].key = key => Parses(token[c])
      BY <3>1, ParseExact
    <3>3. Genuine(token[c])' <=> Genuine(token[c])
      BY <3>1 DEF Genuine, AccessToken
    <3>4. Verdict(c) \in {"accepted", "refused"}
      BY DEF Verdict
    <3> QED BY <1>0, <3>1, <3>2, <3>3, <3>4
  <2>2. CASE c # d
    BY <1>1, <1>9, <2>2 DEF SecondParse, TypeOK
  <2> QED BY <2>1, <2>2
<1> HIDE DEF Right
<1> QED
  BY <1>2, <1>3, <1>4, <1>5, <1>6, <1>7, <1>8, <1>9 DEF Next, RefreshStep

-----------------------------------------------------------------------------
(* Theorems *)

\* The invariant holds in every reachable state.
LEMMA Invariant == Spec => []IInv
<1>1. IInv /\ [Next]_vars => IInv'
  BY TypeStep, TokenStep, VerdictStep DEF IInv
<1> QED BY InitIInv, <1>1, PTL DEF Spec

\* The refreshers and handlers stay in step, and a running relay always has a
\* key that the backend published, however its refreshes overlap.
THEOREM TypeCorrect == Spec => []TypeOK
<1>1. IInv => TypeOK
  BY DEF IInv
<1> QED BY Invariant, <1>1, PTL

\* verifyToken and validateClaims accept only unexpired access tokens that the
\* backend signed with a key it published (jwt.go:87, 110), for every set of
\* tokens and whatever happens to the key meanwhile.
THEOREM OnlyGenuineCorrect == Spec => []OnlyGenuineAccepted
<1>1. IInv => OnlyGenuineAccepted
  BY DEF IInv
<1> QED BY Invariant, <1>1, PTL

\* verifyToken's single refresh is enough for a token of the newest key, unless
\* that refresh failed or another one stored an older key meanwhile.
THEOREM FreshTokenCorrect == Spec => []FreshTokenAccepted
<1>1. IInv => FreshTokenAccepted
  BY DEF IInv
<1> QED BY Invariant, <1>1, PTL
=============================================================================
