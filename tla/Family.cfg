CONSTANTS
    Txns = {t1, t2}
    Merchants = {m1}
    MerchantOf <- OneMerchant
    Cats = {s, c1, c2}
    System = {s}
    Names = {A, B, S}
    SystemName <- OneSystemName
    Remark = Remark
    Blank = Blank
    None = None
    Rules = {1}
    Requests = {q1, q2}
    Limit = 2
    MinSamples = 1
    MaxFaults = 1
    MaxNaming = 5
    MaxDeciding = 3
    MaxLabeling = 4
    MaxOneByOne = 3
    Charges = {1, 2, 3, 4, 5, 6}
    Days <- Year
    DayOfMonth <- Calendar
    Amounts = {5000, 5050, 9000}
    Workers = {w1, w2}
    NoCharge = NoCharge
    NoRow = NoRow
    MaxDisturbing = 1
SPECIFICATION SafetySpec
SYMMETRY Symmetry
INVARIANTS
    TypeOK
    
    RemarksStay
    LabelledOrDismissed
    RecurringTypeOK
    SeriesFollowsHistory
    SteadyBillIsSubscription
CHECK_DEADLOCK FALSE
