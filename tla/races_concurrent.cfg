SPECIFICATION Spec
CONSTANTS
    Plans = {"MONTHLY", "SEMIANNUAL"}
    Recurring = {"MONTHLY"}
    Installments <- MCInstallments
    Price <- MCPrice
    PayerTotal <- MCPayerTotal
    ScheduleMonths = 2
    Coupons <- MCCoupons
    OrderIds = {o1, o2}
    PreapprovalIds = {p1}
    NoId = NoId
    Workers = {w1, w2}
    Crashes = TRUE
    CycleIds = {c1, c2}
    ThePreapproval = p1
    MaxCharges = 6
CHECK_DEADLOCK FALSE
SYMMETRY RacesSymmetry
INVARIANTS
    DocumentsAreCoherent
    PeriodIsPaidFor
