SPECIFICATION ClassesSpec
CONSTANTS
    Students = {s1}
    Turmas = {}
    Weekdays <- OneDay
    LastSlot = 1
    Free = Free
    DayLength = 3
    WeekLength = 1
    OpensBefore = 1
    MissedAfter = 1
    ClosesAfter = 2
    AdvanceNotice = 2
    ManualWindow = 3
    MaxWeeksAhead = 2
    MakeupSlot <- LateSlot
    NoSlot = NoSlot
    Placeholder = Placeholder
    NoLesson = NoLesson
    NoRequest = NoRequest
    Readers = {r1}
    RequestIds = {q1}
    Rates = {low, high}
    NoRate = NoRate
    GridUntil = 1
    MaxNow = 4
    MaxDate = 1
    MaxLessons = 3
INVARIANTS ClassesTypeOK PaidWhenDue OneMakeupPerMiss ClosingAddsUp
PROPERTIES RateIsFrozen ClosedStaysClosed
SYMMETRY RateSymmetry
