CONSTANTS
    t1 = t1
    t2 = t2
    u1 = u1
    u2 = u2
    r1 = r1
    w1 = w1
    w2 = w2
    w3 = w3
    Txns = {t1}
    Users = {u1}
    Owner <- FirstIsCardSwipe
    Nobody = Nobody
    Suggestions = {s}
    NoMatch = NoMatch
    Replicas = {r1}
    Workers = {w1}
    Home <- OneProcess
    Background = {}
    NoTxn = NoTxn
    QueueSize = 1
    SweepLimit = 1
    MaxEdits = 1
    MaxCrashes = 0
SPECIFICATION HandSpec
PROPERTIES
    HandWrittenStays
CHECK_DEADLOCK FALSE
