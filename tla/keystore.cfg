CONSTANTS
    c1 = c1
    c2 = c2
    Ticker = Ticker
    Conns = {c1, c2}
    Tokens <- MCTokens
    Users = {"u1"}
    MaxKeys = 2
SPECIFICATION Spec
INVARIANTS TypeOK OnlyGenuineAccepted FreshTokenAccepted
PROPERTY KeyRecovers
