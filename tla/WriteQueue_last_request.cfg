CONSTANTS
    Notes = {n1}
    Cards = {}
    Spend = Spend
    Values = {Blank, v1, v2}
    Blank = Blank
    Drainers = {d1}
    BatchSize = 1
    MaxAttempts = 2
    MaxIds = 2
    MaxRequests = 2
SPECIFICATION AppSpec
INVARIANTS
    LastRequestWins
