SPECIFICATION Spec
CONSTANTS
    Keys = {k1, k2}
    Ttls <- MCTtls
    MaxTime = 3
    Slack = 1
    CronLimit = 1
INVARIANTS
    TypeOK
    OneType
    HeapCovers
PROPERTIES
    ReapsOnlyDue
    RewriteKeepsDeadline
    CronMissesNone
    Reclaimed
