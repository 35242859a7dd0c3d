SPECIFICATION Spec
CONSTANTS
    Null = Null
    Other = Other
    Emails = {e1}
    Ids = {i1, i2, i3}
    Groups = {g1}
    Handlers = {h1, h2}
    Kinds = {"sync"}
    MaxRetries = 2
    LateCalls = 1
SYMMETRY Symmetry
INVARIANTS MembersAskedFor FirstMembersKept SyncedStaysIn
