SPECIFICATION Spec
CONSTANTS
    Plans = {"MONTHLY"}
    Recurring = {"MONTHLY"}
    Installments <- MCInstallments
    Price <- MCPrice
    PayerTotal <- MCPayerTotal
    ScheduleMonths = 2
    Coupons <- OnlyNoCoupon
    OrderIds = {o1}
    PreapprovalIds = {p1}
    NoId = NoId
    Faults = {"redeliver"}
    DevMode = FALSE
    RefusalsToCancel = 1
    MaxMonth = 1
    MaxContracts = 1
    MaxCycles = 1
    MaxCharges = 4
CHECK_DEADLOCK FALSE
INVARIANT PaidIsCredited
