CONSTANTS
    Members = {m1, m2}
    Households = {"h"}
    HouseholdOf <- OneHousehold
    Unknown = Unknown
    Requests = {q1, q2}
    Logins = {l1, l2}
    Families = {f1, f2}
    NoFamily = NoFamily
    Sessions = {s1}
    Nobody = Nobody
    MaxAttempts = 2
    PerIP = 2
    PerPhone = 1
    MaxLost = 1
SPECIFICATION SafetySpec
SYMMETRY Symmetry
INVARIANTS
    TypeOK
    HouseholdShares
    SessionsAreComplete
    AttemptsAreBounded
PROPERTIES
    PlacedForGood
    ImplementsPlacement
CHECK_DEADLOCK FALSE
