SPECIFICATION ClassesSpec
CONSTANTS
    Students = {s1}
    Turmas = {t1}
    Weekdays <- OneDay
    LastSlot = 3
    Free = Free
    DayLength = 3
    WeekLength = 1
    OpensBefore = 1
    MissedAfter = 1
    ClosesAfter = 2
    AdvanceNotice = 2
    ManualWindow = 3
    MaxWeeksAhead = 2
    MakeupSlot <- LateSlot
    NoSlot = NoSlot
    Placeholder = Placeholder
    NoLesson = NoLesson
    NoRequest = NoRequest
    Readers = {r1}
    RequestIds = {}
    Rates = {low}
    NoRate = NoRate
    GridUntil = 2
    MaxNow = 1
    MaxDate = 0
    MaxLessons = 2
INVARIANTS GridIsWhole
PROPERTIES NoTwinLessons
SYMMETRY RateSymmetry
