SPECIFICATION Spec
CONSTANTS
    Plans = {"MONTHLY"}
    Recurring = {"MONTHLY"}
    Installments <- MCInstallments
    Price <- MCPrice
    PayerTotal <- MCPayerTotal
    ScheduleMonths = 2
    Coupons <- FreeMonth
    OrderIds = {o1}
    PreapprovalIds = {p1}
    NoId = NoId
    Faults = {"sync", "read", "lost", "pending", "release", "update", "redeliver", "stale_key"}
    DevMode = TRUE
    RefusalsToCancel = 1
    MaxMonth = 1
    MaxContracts = 2
    MaxCycles = 1
    MaxCharges = 4
CHECK_DEADLOCK FALSE
SYMMETRY GatewaySymmetry
INVARIANTS
    TypeOK
    AccessIsWhatWasPaid
    ScheduleIsAWindow
PROPERTIES
    AccessNeverShrinks
    PaymentsAreKept
