SPECIFICATION TokensSpec
CONSTANTS
    None = None
    r1 = r1
    r2 = r2
    Requests <- MCRequests
    Margin = 12
    Timeout = 2
    Tries = 3
    Pause = 1
    Lives <- MCLives
    MaxLife = 15
INVARIANTS
    TokenLasts
