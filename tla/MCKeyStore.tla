------------------------------ MODULE MCKeyStore ------------------------------
(* An instance of KeyStore for TLC. *)
EXTENDS KeyStore

CONSTANTS c1, c2

Text(s) == [type |-> "string", val |-> <<s>>]
Number == [type |-> "number", val |-> <<>>]
Other == [type |-> "other", val |-> <<>>]
List(vals) == [type |-> "list", val |-> vals]

Good == [userId |-> Text("u1"), tokenType |-> Text("access"), aud |-> Text("mobile"),
         iss |-> Text("auth-backend"), exp |-> Number]

\* Good claims, and with one of them wrong, of another type or missing.
Claims ==
    {Good, [Good EXCEPT !.aud = List(<<"mobile">>)]}
    \cup {[Good EXCEPT !.userId = v] : v \in {Text(""), Number}}
    \cup {[Good EXCEPT !.aud = v] : v \in {Text("web"), List(<<"mobile", "web">>), Other}}
    \cup {[Good EXCEPT !.tokenType = Text("refresh")], [Good EXCEPT !.iss = Text("other")]}
    \cup {[n \in ClaimNames \ {m} |-> Good[n]] : m \in {"tokenType", "exp"}}

\* One client presents anything, the other an access token.
Token(alg, expired, claims) == [alg |-> alg, expired |-> expired, claims |-> claims]
MCTokens ==
    [c \in {c1, c2} |->
        IF c = c2 THEN {Token("RS256", FALSE, Good)}
        ELSE {Token("RS256", FALSE, claims) : claims \in Claims}
             \cup {Token("RS256", TRUE, Good), Token("RS384", FALSE, Good), Token("HS256", FALSE, Good)}]
===============================================================================
