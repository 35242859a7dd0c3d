SPECIFICATION FairSpec
CONSTANTS
    Null = Null
    Shops = {s1}
    Requests = {r1, r2}
    Grace = 3
    Retention = 1
    Period = 2
    MaxAge = 5
INVARIANTS RevokedHasNoTokens RevokedStampFresh RevokedNotOverdue LogsNotOverdue
PROPERTIES ErasedOnlyAfterGrace YoungLogsKept AuditWhileConnected RevokedIsErased
