\* Two requests at once over a student and a teacher at any stage.
SPECIFICATION FinanceSpec
CONSTANTS
    Students = {s1}
    Teachers = {t1}
    Clients = {k1, k2}
    MaxRequests = 2
    MaxStops = 1
    Fresh = Fresh
    NoDoc = NoDoc
    NoOne = NoOne
    NoArg = NoArg
    GrantDays = 2
    Days = {0, 2}
    NoDate = NoDate
    MonthsInYear = 2
    Years = 2
    ThisMonth = 3
    Targets = {1}
CHECK_DEADLOCK FALSE
INVARIANTS
    TheStoresAgree
    AccessMatchesPayments
    YearAddsUpItsMonths
    GoalsAreKept
PROPERTIES
    RefundsTakeTheLast
    StudentsHaveTheirTeacher
    RegistrationIsKept
