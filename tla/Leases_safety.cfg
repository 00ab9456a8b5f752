CONSTANTS
    Conns = {c1, c2, c3}
    Replicas = {r1, r2}
    NoHolder = NoHolder
    MaxPerReplica = 2
    MaxEpoch = 2
    MaxToken = 3
SPECIFICATION SafetySpec
SYMMETRY Symmetry
INVARIANTS
    TypeOK
    ActiveTokenIsFromLatestLogin
    StoredTokenUsable
    OwnerUsesStoredToken
    RunnersAreTracked
    LeaseInv
    WithinLimit
PROPERTIES
    NoFalseAlarm
