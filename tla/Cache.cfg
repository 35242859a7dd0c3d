SPECIFICATION Spec
CONSTANTS
    Null = Null
    Shops = {s1, s2}
    Customers = {c1}
    Groups = {g1}
    Requests = {r1, r2}
    TTL = 2
    Wait = 1
SYMMETRY Symmetry
INVARIANTS StaleAtMost InvalidationHolds
