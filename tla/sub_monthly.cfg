SPECIFICATION Spec
CONSTANTS
    Plans = {"MONTHLY"}
    Recurring = {"MONTHLY"}
    Installments <- MCInstallments
    Price <- MCPrice
    PayerTotal <- MCPayerTotal
    ScheduleMonths = 2
    Coupons <- SomeCoupons
    OrderIds = {o1}
    PreapprovalIds = {p1, p2}
    NoId = NoId
    Faults = {}
    DevMode = FALSE
    RefusalsToCancel = 1
    MaxMonth = 1
    MaxContracts = 2
    MaxCycles = 1
    MaxCharges = 4
CHECK_DEADLOCK FALSE
SYMMETRY GatewaySymmetry
INVARIANTS
    GatewayFollowsDocument
    PaidIsCredited
    MirrorFollowsDocument
