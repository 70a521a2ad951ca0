SPECIFICATION FairSpec
CONSTANTS
    Plans = {"MONTHLY", "SEMIANNUAL"}
    Recurring = {"MONTHLY"}
    Installments <- MCInstallments
    Price <- MCPrice
    PayerTotal <- MCPayerTotal
    ScheduleMonths = 2
    Coupons <- FreeMonths
    OrderIds = {o1}
    PreapprovalIds = {p1}
    NoId = NoId
    Faults = {"read", "lost", "pending", "release"}
    DevMode = FALSE
    RefusalsToCancel = 1
    MaxMonth = 1
    MaxContracts = 2
    MaxCycles = 1
    MaxCharges = 7
CHECK_DEADLOCK FALSE
PROPERTY GatewayNewsIsRecorded
