------------------------- MODULE ClassesProperties -------------------------
(***************************************************************************)
(* What must hold of the lessons of a teacher, and the mutants that break  *)
(* each property.                                                          *)
(***************************************************************************)
EXTENDS Classes

LessonType ==
    [status : Statuses, origin : {"regular", "makeup", "rescheduled"},
     from : LessonIds \cup {NoLesson}, to : LessonIds \cup {NoLesson},
     joinedS : BOOLEAN, joinedT : BOOLEAN,
     attendance : [source : {"none", "auto", "manual"}, present : BOOLEAN],
     rated : BOOLEAN, rate : {NoRate} \cup Rates, payable : {"unset", "yes", "no"}]

RequestType ==
    [lesson : LessonIds, date : Nat, hour : Slots,
     status : {"pending", "approved", "rejected"}]

\* The documents have the shape of lesson.entity.ts, agenda.entity.ts and
\* reschedule.entity.ts, and a request speaks of a lesson that exists.
ClassesTypeOK ==
    /\ grid \in [Weekdays -> [Slots -> Blocks \cup {Free}]]
    /\ turmas \subseteq Turmas /\ torn \subseteq Weekdays
    /\ DOMAIN lessons \subseteq LessonIds
    /\ \A id \in DOMAIN lessons : lessons[id] \in LessonType
    /\ \A request \in RequestIds : requests[request] # NoRequest =>
          requests[request] \in RequestType /\ requests[request].lesson \in DOMAIN lessons
    /\ \A reader \in Readers :
          /\ DOMAIN closing[reader] \subseteq DOMAIN lessons
          /\ \A id \in DOMAIN closing[reader] : closing[reader][id] \in LessonType
    /\ rate \in Rates /\ now \in Nat /\ stopped \subseteq LessonIds

\* Both halves of a block are in the grid, saying the same (spec 011 RF5, agenda.service.ts):
\* whatever was assigned over it or freed, no half hour points at a block that is gone.
GridIsWhole ==
    \A day \in Weekdays \ torn, hour \in Slots : grid[day][hour] # Free =>
        /\ hour \in Covered(grid[day][hour])
        /\ \A half \in Covered(grid[day][hour]) :
              half \in Slots /\ grid[day][half] = grid[day][hour]

\* What the teacher is paid for follows from how the lesson ended, whichever of the four
\* services ended it, and a payable lesson has its price (billing.service.ts, isPayable).
PaidWhenDue ==
    \A id \in DOMAIN lessons :
        LET lesson == lessons[id]
        IN  /\ (lesson.payable = "yes") <=> IsPayable(lesson.status)
            /\ lesson.payable = "yes" => lesson.rate # NoRate

\* A missed lesson gets one makeup however often it is closed again (createMakeup), unless
\* a handler stopped before it had linked the two.
AtMostOneMakeup ==
    \A id \in DOMAIN lessons \ stopped :
        Cardinality({other \in DOMAIN lessons :
            lessons[other].origin = "makeup" /\ lessons[other].from = id}) <= 1

\* A student who missed has another lesson, or every week the makeup could be pushed to
\* was taken: whichever handler recorded the absence (onStudentMissed, studentCancel).
EveryMissIsReplaced ==
    \A id \in DOMAIN lessons \ stopped :
        /\ id.who \in Students /\ lessons[id].status \in {"no_show", "cancelled"}
        /\ MakeupSlot[id.who] # NoSlot
        => \/ lessons[id].to \in DOMAIN lessons
           \/ FreeDates(lessons, id, MakeupSlot[id.who]) = {}

\* An absence has one replacement, no more and, while a week is free, no less.
OneMakeupPerMiss == AtMostOneMakeup /\ EveryMissIsReplaced

\* rateApplied is frozen when the lesson is first closed: no later handler, rescheduling
\* or change of the settings moves the price of the past.
RateIsFrozen ==
    [][\A id \in DOMAIN lessons : lessons[id].rate # NoRate => lessons'[id].rate = lessons[id].rate]_vars

\* A lesson the teacher is paid for is never on the agenda again: a reschedule approved
\* onto its time does not bring it back (isSlotTaken, save with merge).  Nor does the
\* automatic closing replace what a person recorded of it ("soberano sobre o automatico",
\* lesson.service.ts:225).
ClosedStaysClosed ==
    [][\A id \in DOMAIN lessons : IsPayable(lessons[id].status) =>
          /\ lessons'[id].status # "scheduled"
          /\ lessons[id].attendance.source = "manual" => lessons'[id].attendance.source = "manual"]_vars

\* What the teacher is owed for a month, its lines and what was stored when each lesson was
\* closed tell the same, whatever the rate has become (billing-summary.service.ts: summary
\* and detail judge the status and fall back on the rate of the day).
ClosingAddsUp ==
    \A from, to \in 0 .. MaxDate :
        LET lines == Detail(from, to)  closed == Summary(from, to)
            stored == {id \in DOMAIN lines : lessons[id].payable = "yes"}
        IN  /\ closed.payable = Cardinality(stored)
            /\ \A value \in Rates :
                  /\ {id \in DOMAIN lines : lines[id] = value} = {id \in stored : lessons[id].rate = value}
                  /\ closed.total[value] = Cardinality({id \in stored : lessons[id].rate = value})

\* An hour of the grid becomes one lesson, never one per half hour: lessons that are
\* materialised together do not overlap (README "Uma aula por bloco").
NoTwinLessons ==
    [][LET born == {id \in DOMAIN lessons' \ DOMAIN lessons : lessons'[id].origin = "regular"}
       IN  \A a, b \in born : a # b /\ a.date = b.date =>
              LET day == DayOfWeek(a.date) IN grid[day][a.hour] # grid[day][b.hour]]_vars
=============================================================================
