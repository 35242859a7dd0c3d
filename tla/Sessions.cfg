SPECIFICATION FairSpec
CONSTANTS
    Null = Null
    Sids = {a, b}
    Shops = {s1, s2}
    Users = {u1}
    Requests = {r1, r2}
    TTL = 1
    SweepInterval = 1
INVARIANTS ShopIsEstablished
PROPERTIES LiveKept OperatorKept RevivedInFlight ExpiredReclaimed
