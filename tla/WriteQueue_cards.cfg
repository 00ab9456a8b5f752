CONSTANTS
    Notes = {}
    Cards = {k1, k2}
    Spend = Spend
    Values = {Blank, v1}
    Blank = Blank
    Drainers = {d1, d2}
    BatchSize = 2
    MaxAttempts = 2
    MaxIds = 2
    MaxRequests = 2
SPECIFICATION QueueSpec
SYMMETRY Symmetry
INVARIANTS
    UnracedRequestWins
    AbandonedOnlyAfterMaxFailures
