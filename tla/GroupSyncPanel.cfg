SPECIFICATION FairSpec
CONSTANTS
    Null = Null
    Other = Other
    Emails = {e1}
    Ids = {i1}
    Groups = {g1, g2}
    Handlers = {h1}
    Kinds = {"sync", "set", "add", "drop"}
    MaxRetries = 2
    LateCalls = 0
PROPERTIES SetTakesEffect Answered
