SPECIFICATION FairSpec
CONSTANTS
    Null = Null
    Legacy = Legacy
    Shops = {s1, s2}
    Ids = {a}
INVARIANTS TypeOK ServedComplete OneHeir
PROPERTIES Adopts ComesUp
