SPECIFICATION Spec
CONSTANTS
    Plans = {"MONTHLY", "SEMIANNUAL"}
    Recurring = {"MONTHLY"}
    Installments <- MCInstallments
    Price <- MCPrice
    PayerTotal <- MCPayerTotal
    ScheduleMonths = 2
    Coupons <- SomeCoupons
    OrderIds = {o1, o2}
    PreapprovalIds = {p1}
    NoId = NoId
    Faults = {"save"}
    DevMode = FALSE
    RefusalsToCancel = 1
    MaxMonth = 2
    MaxContracts = 2
    MaxCycles = 1
    MaxCharges = 3
CHECK_DEADLOCK FALSE
SYMMETRY GatewaySymmetry
INVARIANTS
    ContractDebitedOnce
    PaidContractsWereCredited
    DebitIsWhatWasAccepted
    ClosedPlanAllOrNothing
PROPERTIES
    ImplementsLifecycle
