CONSTANTS
    Conns = {c1}
    Replicas = {r1, r2}
    NoHolder = NoHolder
    MaxPerReplica = 0
    MaxEpoch = 2
    MaxToken = 1
SPECIFICATION FailoverSpec
PROPERTIES
    DisconnectStopsRunner
    GoodConnectionIsWatched
CHECK_DEADLOCK FALSE
