SPECIFICATION Spec
CONSTANTS
    Null = Null
    f = f
    g1 = g1
    s1 = s1
    d1 = d1
    Shops = {s1}
    Ids = {a, b}
    Deliveries = {d1}
    GroupSets <- OneGroup
    Events <- OneEvent
    Priorities = {0, 1}
    ConditionLists <- TwoConditions
    PanelCounts = {0, 1}
    Payloads <- MCPayloads
    Keys = {k}
    Urls = {u}
    DefaultUrl = u
SYMMETRY Symmetry
INVARIANTS MostUrgentRule
PROPERTIES LoggedUnlessGoneOrStripped
