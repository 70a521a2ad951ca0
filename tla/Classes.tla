------------------------------ MODULE Classes ------------------------------
(***************************************************************************)
(* The dated lessons of one teacher: born from the weekly grid, attended,  *)
(* missed, made up, rescheduled and priced (lessons/, reschedules/,        *)
(* billing/), on top of the grid of Agenda.                                *)
(*                                                                         *)
(* A handler is one step, with two exceptions the code makes visible: the  *)
(* closing of overdue lessons works through a list read before its first   *)
(* save, one lesson a step; and a handler that saves several documents may *)
(* stop between two of them.  Time is counted in ticks, DayLength a day.   *)
(***************************************************************************)
EXTENDS Agenda, Integers, FiniteSetsExt, Functions

CONSTANTS
    DayLength, WeekLength,
    OpensBefore, MissedAfter, ClosesAfter,   \* the window of a lesson
    AdvanceNotice, ManualWindow,
    MaxWeeksAhead,                           \* MAX_WEEKS_AHEAD
    MakeupSlot,      \* [Students -> [day, hour]] or NoSlot
    NoSlot,
    Placeholder,     \* 'turma': stands for the group in a rescheduled lesson's id
    NoLesson, NoRequest, NoRate,
    Readers,         \* list requests that may be under way at once
    RequestIds,      \* bound: requests
    Rates,           \* the hourly rates
    MaxNow, MaxDate, MaxLessons,             \* bounds: clock, range, documents
    GridUntil                                \* bound: the grid changes before this tick

LessonIds == [who : Occupants \cup {Placeholder}, date : Nat, hour : Slots]

ASSUME ClassesAssumption ==
    /\ {DayLength, WeekLength} \subseteq Nat \ {0}
    /\ {OpensBefore, MissedAfter, ClosesAfter, AdvanceNotice, ManualWindow} \subseteq Nat
    /\ MissedAfter < ClosesAfter /\ ClosesAfter <= ManualWindow
    /\ {MaxWeeksAhead, MaxNow, MaxDate, MaxLessons, GridUntil} \subseteq Nat
    /\ Weekdays \subseteq 0 .. (WeekLength - 1)
    /\ MakeupSlot \in [Students -> [day : Nat, hour : Slots] \cup {NoSlot}]
    /\ Placeholder \notin Occupants
    /\ NoLesson \notin LessonIds /\ NoRate \notin Rates

VARIABLES
    lessons,   \* id -> document
    requests,  \* [RequestIds -> request or NoRequest]
    closing,   \* [Readers -> overdue lessons still to close, as they were read]
    rate,      \* the hourly rate in force
    now,
    stopped    \* history: lessons whose handler stopped between two saves

lessonVars == <<lessons, requests, closing, rate, now, stopped>>
gridVars == <<grid, turmas, torn>>
vars == <<grid, turmas, torn, lessons, requests, closing, rate, now, stopped>>

Statuses == {"scheduled", "completed", "no_show", "cancelled", "absence"}

Unmarked == [source |-> "none", present |-> FALSE]
Mark(source, present) == [source |-> source, present |-> present]

\* A document with no field set.
Blank == [status |-> "none", origin |-> "none", from |-> NoLesson, to |-> NoLesson,
          joinedS |-> FALSE, joinedT |-> FALSE, attendance |-> Unmarked,
          rated |-> FALSE, rate |-> NoRate, payable |-> "unset"]

\* save: fields the document does not set keep what the stored one has.
Merge(stored, document) ==
    [f \in DOMAIN Blank |-> IF document[f] = Blank[f] THEN stored[f] ELSE document[f]]

Save(docs, id, document) ==
    IF id \in DOMAIN docs
    THEN [docs EXCEPT ![id] = Merge(@, document)]
    ELSE [i \in DOMAIN docs \cup {id} |-> IF i = id THEN document ELSE docs[i]]

-----------------------------------------------------------------------------
(* Clock and calendar *)

Today == now \div DayLength
DayOfWeek(date) == date % WeekLength
Start(id) == id.date * DayLength + id.hour

NextDateForDayOfWeek(after, day) == (after + 1) + ((day - (after + 1)) % WeekLength)

StudentState(id) ==
    IF now + OpensBefore < Start(id) THEN "closed"
    ELSE IF now < Start(id) + MissedAfter THEN "open"
    ELSE IF now < Start(id) + ClosesAfter THEN "missed" ELSE "closed"

TeacherState(id) == IF now + OpensBefore < Start(id) THEN "closed" ELSE "open"
IsPastWindow(id) == now >= Start(id) + ClosesAfter
IsPastManualWindow(id) == now >= Start(id) + ManualWindow
HasAdvanceNotice(id) == now + AdvanceNotice <= Start(id)

-----------------------------------------------------------------------------
(* Pricing *)

IsPayable(status) == status \in {"completed", "no_show", "cancelled"}

\* Mutant: the price follows the settings at every closing.
PriceAgain(lesson) ==
    [lesson EXCEPT !.payable = IF IsPayable(lesson.status) THEN "yes" ELSE "no",
                   !.rate = IF IsPayable(lesson.status) THEN rate ELSE @]

PriceLesson(lesson) ==
    [lesson EXCEPT !.payable = IF IsPayable(lesson.status) THEN "yes" ELSE "no",
                   !.rate = IF IsPayable(lesson.status) /\ @ = NoRate THEN rate ELSE @]

UpdateSettings(value) ==
    /\ rate' = value
    /\ UNCHANGED <<gridVars, lessons, requests, closing, now, stopped>>

-----------------------------------------------------------------------------
(* Materialisation *)

Regular(date, hour) ==
    [who |-> grid[DayOfWeek(date)][hour].occupant, date |-> date, hour |-> hour]

Candidates(from, to) ==
    UNION {{Regular(date, hour) : hour \in BlockStarts(DayOfWeek(date))} :
              date \in {d \in from .. to : d >= Today /\ DayOfWeek(d) \in Weekdays}}

\* Mutant: a lesson is born without its status.
EnsureWithoutStatus(from, to) ==
    [id \in DOMAIN lessons \cup Candidates(from, to) |->
        IF id \in DOMAIN lessons THEN lessons[id] ELSE [Blank EXCEPT !.origin = "regular"]]

EnsureLessons(from, to) ==
    [id \in DOMAIN lessons \cup Candidates(from, to) |->
        IF id \in DOMAIN lessons THEN lessons[id]
        ELSE [Blank EXCEPT !.status = "scheduled", !.origin = "regular"]]

\* Mutant: whatever is past the manual window is closed.
OverdueWhatever(docs, from, to) ==
    {id \in DOMAIN docs : id.date \in from .. to /\ IsPastManualWindow(id)}

Overdue(docs, from, to) ==
    {id \in DOMAIN docs : /\ id.date \in from .. to
                          /\ docs[id].status = "scheduled"
                          /\ IsPastManualWindow(id)}

Listed(docs, ids) == [id \in ids |-> docs[id]]

-----------------------------------------------------------------------------
(* Makeups *)

\* The weeks the makeup may be pushed to.
MakeupDates(id, slot) ==
    {NextDateForDayOfWeek(id.date, slot.day) + week * WeekLength : week \in 0 .. (MaxWeeksAhead - 1)}

FreeDates(docs, id, slot) ==
    {date \in MakeupDates(id, slot) :
        \A other \in DOMAIN docs : other.date = date => other.hour # slot.hour}

\* Mutant: a lesson that already has a replacement gets another one.
GetsAnotherMakeup(docs, id, lesson) ==
    /\ id.who \in Students
    /\ MakeupSlot[id.who] # NoSlot
    /\ FreeDates(docs, id, MakeupSlot[id.who]) # {}

\* Mutant: only a lesson of the grid is made up for.
OnlyRegularGetsMakeup(docs, id, lesson) ==
    lesson.origin = "regular" /\ lesson.to = NoLesson /\ GetsAnotherMakeup(docs, id, lesson)

GetsMakeup(docs, id, lesson) ==
    /\ id.who \in Students
    /\ lesson.to = NoLesson
    /\ MakeupSlot[id.who] # NoSlot
    /\ FreeDates(docs, id, MakeupSlot[id.who]) # {}

MakeupId(docs, id) ==
    LET slot == MakeupSlot[id.who]
    IN  [who |-> id.who, date |-> Min(FreeDates(docs, id, slot)), hour |-> slot.hour]

Replacement(origin, id) ==
    [Blank EXCEPT !.status = "scheduled", !.origin = origin, !.from = id]

WithinBounds(docs) == Cardinality(DOMAIN docs) <= MaxLessons

\* Bound: one handler of a behaviour stops half way.
MayStop == stopped = {}

(* The student missed: `lesson` is saved, then the makeup, then the link   *)
(* to it; the handler may stop after the first or the second save.         *)
Missed(id, lesson) ==
    LET closed == Save(lessons, id, lesson)
        makeup == MakeupId(closed, id)
        booked == Save(closed, makeup, Replacement("makeup", id))
    IN  IF GetsMakeup(closed, id, lesson)
        THEN /\ WithinBounds(booked)
             /\ \/ /\ lessons' = Save(booked, id, [lesson EXCEPT !.to = makeup])
                   /\ stopped' = stopped
                \/ /\ MayStop
                   /\ lessons' \in {closed, booked}
                   /\ stopped' = stopped \cup {id}
        ELSE lessons' = closed /\ stopped' = stopped

Closed(lesson, status, mark) ==
    PriceLesson([lesson EXCEPT !.status = status, !.attendance = mark])

-----------------------------------------------------------------------------
(* Handlers of a lesson *)

ClassesInit ==
    /\ GridInit
    /\ lessons = [id \in {} |-> Blank]
    /\ requests = [r \in RequestIds |-> NoRequest]
    /\ closing = [reader \in Readers |-> [id \in {} |-> Blank]]
    /\ rate \in Rates
    /\ now = 0
    /\ stopped = {}

\* findByStudent: materialises and lists, closes nothing.
ListStudentLessons(from, to) ==
    /\ WithinBounds(EnsureLessons(from, to))
    /\ lessons' = EnsureLessons(from, to)
    /\ UNCHANGED <<gridVars, requests, closing, rate, now, stopped>>

\* findRange, findByDate: materialise, list, then close what is overdue.
ListLessons(reader, from, to) ==
    /\ closing[reader] = <<>>
    /\ WithinBounds(EnsureLessons(from, to))
    /\ lessons' = EnsureLessons(from, to)
    /\ closing' = [closing EXCEPT ![reader] = Listed(lessons', Overdue(lessons', from, to))]
    /\ UNCHANGED <<gridVars, requests, rate, now, stopped>>

\* One turn of autoCloseOverdue, on the lesson as it was listed.
CloseOverdue(reader, id) ==
    LET listed == closing[reader][id]
        present == listed.joinedS
        status == IF present THEN "completed" ELSE "no_show"
        lesson == Closed(listed, status, Mark("auto", present))
    IN  /\ IF present
           THEN lessons' = Save(lessons, id, lesson) /\ stopped' = stopped
           ELSE Missed(id, lesson)
        /\ closing' = [closing EXCEPT ![reader] = Restrict(@, DOMAIN @ \ {id})]
        /\ UNCHANGED <<gridVars, requests, rate, now>>

\* The request dies with lessons still to close.
StopReading(reader) ==
    /\ closing[reader] # <<>>
    /\ closing' = [closing EXCEPT ![reader] = <<>>]
    /\ UNCHANGED <<gridVars, lessons, requests, rate, now, stopped>>

TeacherJoins(id) ==
    /\ TeacherState(id) = "open"
    /\ lessons' = [lessons EXCEPT ![id].joinedT = TRUE]
    /\ UNCHANGED <<gridVars, requests, closing, rate, now, stopped>>

\* isStudentOf: the student, or a member of a group that still exists.
HasStudent(id) == id.who \in Students \cup turmas

StudentJoins(id) ==
    /\ HasStudent(id) /\ StudentState(id) = "open"
    /\ lessons' = [lessons EXCEPT ![id].joinedS = TRUE]
    /\ UNCHANGED <<gridVars, requests, closing, rate, now, stopped>>

StudentComesLate(id) ==
    /\ HasStudent(id) /\ StudentState(id) = "missed"
    /\ lessons[id].status = "scheduled"
    /\ Missed(id, Closed(lessons[id], "no_show", Mark("auto", FALSE)))
    /\ UNCHANGED <<gridVars, requests, closing, rate, now>>

\* markAttendance asks nothing of the status.
MarkAttendance(id, present) ==
    LET status == IF present THEN "completed" ELSE "no_show"
        lesson == Closed(lessons[id], status, Mark("manual", present))
    IN  /\ now >= Start(id) /\ ~IsPastManualWindow(id)
        /\ IF present
           THEN lessons' = Save(lessons, id, lesson) /\ stopped' = stopped
           ELSE Missed(id, lesson)
        /\ UNCHANGED <<gridVars, requests, closing, rate, now>>

StudentCancel(id) ==
    /\ id.who \in Students
    /\ lessons[id].status = "scheduled"
    /\ HasAdvanceNotice(id)
    /\ Missed(id, Closed(lessons[id], "cancelled", Mark("manual", FALSE)))
    /\ UNCHANGED <<gridVars, requests, closing, rate, now>>

RateLesson(id) ==
    /\ HasStudent(id)
    /\ lessons[id].status = "completed" /\ ~lessons[id].rated
    /\ lessons' = [lessons EXCEPT ![id].rated = TRUE]
    /\ UNCHANGED <<gridVars, requests, closing, rate, now, stopped>>

-----------------------------------------------------------------------------
(* Reschedules *)

\* Mutant: only a lesson that is still to come takes its slot.
IsSlotScheduled(date, hour) ==
    \E id \in DOMAIN lessons :
        id.date = date /\ id.hour = hour /\ lessons[id].status = "scheduled"

IsSlotTaken(date, hour) ==
    \E id \in DOMAIN lessons :
        id.date = date /\ id.hour = hour /\ lessons[id].status # "absence"

\* resolveKind: the teacher never came, so no notice is asked.
MissedByTeacher(id) == IsPastWindow(id) /\ ~lessons[id].joinedT

RequestReschedule(request, id, date, hour) ==
    /\ requests[request] = NoRequest
    /\ MissedByTeacher(id) \/ HasAdvanceNotice(id)
    /\ \A r \in RequestIds : requests[r] # NoRequest =>
          ~(requests[r].lesson = id /\ requests[r].status = "pending")
    /\ ~IsSlotTaken(date, hour)
    /\ requests' = [requests EXCEPT ![request] =
          [lesson |-> id, date |-> date, hour |-> hour, status |-> "pending"]]
    /\ UNCHANGED <<gridVars, lessons, closing, rate, now, stopped>>

\* The rescheduled lesson of a group belongs to no group.
RescheduledId(request) ==
    LET id == requests[request].lesson
    IN  [who |-> IF id.who \in Students THEN id.who ELSE Placeholder,
         date |-> requests[request].date, hour |-> requests[request].hour]

Pending(request) ==
    requests[request] # NoRequest /\ requests[request].status = "pending"

\* Mutant: the absence keeps what the lesson was worth.
AbsenceAsPriced(id, new) == [lessons[id] EXCEPT !.status = "absence", !.to = new]

Absence(id, new) == [lessons[id] EXCEPT !.status = "absence", !.payable = "no", !.to = new]

\* approve: the new lesson, then the absence, then the request are saved.
Approve(request) ==
    LET id == requests[request].lesson
        new == RescheduledId(request)
        booked == Save(lessons, new, Replacement("rescheduled", id))
        moved == Save(booked, id, Absence(id, new))
    IN  /\ Pending(request)
        /\ ~IsSlotTaken(new.date, new.hour)
        /\ WithinBounds(booked)
        /\ \/ /\ lessons' = moved
              /\ requests' = [requests EXCEPT ![request].status = "approved"]
              /\ stopped' = stopped
           \/ /\ MayStop
              /\ lessons' \in {booked, moved}
              /\ requests' = requests
              /\ stopped' = stopped \cup {id}
        /\ UNCHANGED <<gridVars, closing, rate, now>>

Reject(request) ==
    /\ Pending(request)
    /\ requests' = [requests EXCEPT ![request].status = "rejected"]
    /\ UNCHANGED <<gridVars, lessons, closing, rate, now, stopped>>

-----------------------------------------------------------------------------
(* The closing of a month, which only reads: its days, from one to another *)

Within(from, to) == {id \in DOMAIN lessons : id.date \in from .. to}

\* Mutant: every lesson at the rate of the day.
LineAtTheRate(lesson) == IF IsPayable(lesson.status) THEN rate ELSE NoRate

\* toLine: NoRate stands for zero.
Line(lesson) ==
    IF ~IsPayable(lesson.status) THEN NoRate
    ELSE IF lesson.rate # NoRate THEN lesson.rate ELSE rate

Detail(from, to) == [id \in Within(from, to) |-> Line(lessons[id])]

\* summary: the total, as how many lessons are owed at each rate.
Summary(from, to) ==
    LET payable == {id \in Within(from, to) : IsPayable(lessons[id].status)}
        owed(id) == IF lessons[id].rate = NoRate THEN rate ELSE lessons[id].rate
    IN  [payable   |-> Cardinality(payable),
         unpayable |-> Cardinality(Within(from, to)) - Cardinality(payable),
         total     |-> [value \in Rates |-> Cardinality({id \in payable : owed(id) = value})]]

-----------------------------------------------------------------------------
Tick ==
    /\ now < MaxNow
    /\ now' = now + 1
    /\ UNCHANGED <<gridVars, lessons, requests, closing, rate, stopped>>

Materialise ==
    \E from, to \in 0 .. MaxDate :
       \/ ListStudentLessons(from, to)
       \/ \E reader \in Readers : ListLessons(reader, from, to)

Attend ==
    \/ \E reader \in Readers :
          \/ \E id \in DOMAIN closing[reader] : CloseOverdue(reader, id)
          \/ StopReading(reader)
    \/ \E id \in DOMAIN lessons :
          \/ TeacherJoins(id)
          \/ StudentJoins(id)
          \/ StudentComesLate(id)
          \/ \E present \in BOOLEAN : MarkAttendance(id, present)
          \/ StudentCancel(id)
          \/ RateLesson(id)

Reschedule ==
    \E request \in RequestIds :
       \/ \E id \in DOMAIN lessons, date \in 0 .. MaxDate, hour \in Slots :
             RequestReschedule(request, id, date, hour)
       \/ Approve(request)
       \/ Reject(request)

ClassesNext ==
    \/ now < GridUntil /\ GridNext /\ UNCHANGED lessonVars
    \/ Materialise
    \/ Attend
    \/ Reschedule
    \/ \E value \in Rates : UpdateSettings(value)
    \/ Tick

ClassesSpec == ClassesInit /\ [][ClassesNext]_vars
=============================================================================
