CONSTANTS
    Conns = {c1}
    Replicas = {r1}
    NoHolder = NoHolder
    MaxPerReplica = 0
    MaxEpoch = 1
    MaxToken = 2
SPECIFICATION SafetySpec
INVARIANTS
    DisabledHasNoToken
