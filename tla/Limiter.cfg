SPECIFICATION Spec
CONSTANTS
    Null = Null
    Clients = {c1, c2}
    Limit = 2
    Window = 5
    Second = 2
    SweepPeriod = 3
INVARIANTS SlidingBound RetryAfterHonest StaleReclaimed
PROPERTY ImplementsFixedWindow
