CONSTANTS
    Notes = {n1}
    Cards = {k1, k2}
    Spend = Spend
    Values = {Blank, v1}
    Blank = Blank
    Drainers = {d1}
    BatchSize = 1
    MaxAttempts = 2
    MaxIds = 2
SPECIFICATION MirrorSpec
INVARIANTS
    TypeOK
    QueueInv
PROPERTIES
    MirrorFollowsCrew
    RequestsLeaveTheQueue
