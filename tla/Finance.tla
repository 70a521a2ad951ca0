------------------------------ MODULE Finance ------------------------------
(***************************************************************************)
(* The panel of the manager (finance/): the goals of a year, what the      *)
(* infrastructure costs from a month on, and the month and the year added  *)
(* up from the payments of People.  What the teachers cost is the closing  *)
(* of Classes, and the charges of subscriptions are in Subscription.       *)
(***************************************************************************)
EXTENDS People, Sequences

LOCAL INSTANCE FiniteSetsExt
LOCAL INSTANCE SequencesExt

CONSTANTS
    MonthsInYear,
    Years,          \* bound: the years, from the first
    ThisMonth,      \* of the run; months are counted from the first year
    Targets         \* the goals asked for

ASSUME FinanceAssumption ==
    /\ MonthsInYear \in Nat \ {0} /\ Years \in Nat \ {0}
    /\ ThisMonth \in 2 .. MonthsInYear * Years
    /\ Targets \subseteq Nat \ {0}

VARIABLES
    goals,      \* [year -> the document]
    asked,      \* history: the goals as they were asked for
    overtaken,  \* history: years saved from a reading no longer true
    expenses    \* infrastructure_expenses, as findAll gives them

finance == <<goals, asked, overtaken, expenses>>
financeVars == <<vars, finance>>

Months == 1 .. MonthsInYear * Years
YearOf(month) == 1 + (month - 1) \div MonthsInYear
MonthsOfYear(year) == {m \in Months : YearOf(m) = year}
First(year) == 1 + (year - 1) * MonthsInYear

NoGoals == [annual |-> 0, monthly |-> [m \in {} |-> 0]]

FinanceInit ==
    /\ PeopleInit
    /\ goals = [y \in 1 .. Years |-> NoGoals] /\ asked = goals
    /\ overtaken = {}
    /\ expenses = <<[from |-> 1, amount |-> 1]>>

-----------------------------------------------------------------------------
(* Goals: one document a year                                              *)

Put(targets, month, target) ==
    [m \in DOMAIN targets \cup {month} |-> IF m = month THEN target ELSE targets[m]]

\* A merge goes into the map, but for an empty one, which replaces it.
SaveGoals(doc, goal) ==
    [annual  |-> goal.annual,
     monthly |-> IF DOMAIN goal.monthly = {} THEN goal.monthly
                 ELSE [m \in DOMAIN doc.monthly \cup DOMAIN goal.monthly |->
                          IF m \in DOMAIN goal.monthly THEN goal.monthly[m] ELSE doc.monthly[m]]]

\* who: none; arg: the year, the month (0 for the annual goal) and the target.
SetGoal(k, year, month, target) ==
    /\ Begin(k, Request("goal", "get", NoOne, [year |-> year, month |-> month, target |-> target]))
    /\ UNCHANGED <<paid, finance>>

SetGoalReads(k) ==
    /\ At(k, "goal", "get")
    /\ Proceed(k, "save", goals[requests[k].arg.year])
    /\ OnlyRequests /\ UNCHANGED <<paid, finance>>

\* Mutant: the annual goal starts a new document.
WithTargetAlone(goal, month, target) ==
    IF month = 0 THEN [NoGoals EXCEPT !.annual = target]
    ELSE [goal EXCEPT !.monthly = Put(@, month, target)]

WithTarget(goal, month, target) ==
    IF month = 0 THEN [goal EXCEPT !.annual = target]
    ELSE [goal EXCEPT !.monthly = Put(@, month, target)]

SetGoalSaves(k) ==
    LET a == requests[k].arg  copy == requests[k].got IN
    /\ At(k, "goal", "save")
    /\ goals' = [goals EXCEPT ![a.year] = SaveGoals(@, WithTarget(copy, a.month, a.target))]
    /\ asked' = [asked EXCEPT ![a.year] =
           IF a.month = 0 THEN [@ EXCEPT !.annual = a.target]
           ELSE [@ EXCEPT !.monthly = Put(asked[a.year].monthly, a.month, a.target)]]
    /\ overtaken' = IF copy = goals[a.year] THEN overtaken ELSE overtaken \cup {a.year}
    /\ End(k)
    /\ OnlyRequests /\ UNCHANGED <<paid, expenses>>

-----------------------------------------------------------------------------
(* What the infrastructure costs: a value holds from its month on          *)

\* findAll sorts by the month; of two of one month, the ids decide.
Sorted(s) == \A i, j \in DOMAIN s : i < j => s[i].from <= s[j].from

\* setExpense: a new document, and one await.
SetExpense(from, amount) ==
    /\ started < MaxRequests
    /\ \E i \in 1 .. Len(expenses) + 1 :
          /\ expenses' = InsertAt(expenses, i, [from |-> from, amount |-> amount])
          /\ Sorted(expenses')
    /\ started' = started + 1
    /\ UNCHANGED <<accounts, users, signedIn, requests, stops, outdated, cut, paid,
                   goals, asked, overtaken>>

UpTo(snapshots, month) == SelectSeq(snapshots, LAMBDA e : e.from <= month)

LastAmount(snapshots) == IF snapshots = <<>> THEN 0 ELSE Last(snapshots).amount

GetForMonth(month) == LastAmount(UpTo(expenses, month))

Within(year) == SelectSeq(expenses, LAMBDA e : YearOf(e.from) = year)

\* Mutant: what held before the year is forgotten.
FindWithinYear(year) == Within(year)

\* The last before the year, and those of the year.
FindForYear(year) ==
    LET previous == UpTo(expenses, First(year) - 1) IN
    IF previous = <<>> THEN Within(year) ELSE <<Last(previous)>> \o Within(year)

ResolveAmountForMonth(snapshots, month) == LastAmount(UpTo(snapshots, month))

-----------------------------------------------------------------------------
(* The month and the year                                                  *)

\* The payment of the initial states was granted a month earlier.
MonthOf(payment) == IF payment.at = 0 THEN ThisMonth - 1 ELSE ThisMonth

FindByMonth(month) == {m \in payments : MonthOf(m) = month}
FindByYear(year) == {m \in payments : YearOf(MonthOf(m)) = year}

SumManualPayments(found, month) ==
    MapThenSumSet(LAMBDA m : m.amount, {m \in found : MonthOf(m) = month /\ IsCounted(m)})

CountPayingStudents(found, month) ==
    Cardinality({m.student : m \in {n \in found : MonthOf(n) = month /\ IsCounted(n) /\ n.amount > 0}})

GetMonthlyOverview(month) ==
    LET found == FindByMonth(month)  revenue == SumManualPayments(found, month) IN
    [revenue  |-> revenue,
     infra    |-> GetForMonth(month),
     profit   |-> revenue - GetForMonth(month),
     students |-> CountPayingStudents(found, month)]

GetAnnualOverview(year) ==
    LET manual == FindByYear(year)  breakdown == FindForYear(year)
        revenue(m) == SumManualPayments(manual, m)
        infra(m) == ResolveAmountForMonth(breakdown, m)
    IN  [months |-> [m \in MonthsOfYear(year) |->
                       [revenue |-> revenue(m), infra |-> infra(m), profit |-> revenue(m) - infra(m)]],
         totalRevenue  |-> MapThenSumSet(revenue, MonthsOfYear(year)),
         totalExpenses |-> MapThenSumSet(infra, MonthsOfYear(year))]

-----------------------------------------------------------------------------
FinanceNext ==
    \/ PeopleNext /\ UNCHANGED finance
    \/ \E k \in Clients :
          \/ \E target \in Targets, month \in {0} \cup MonthsOfYear(YearOf(ThisMonth)) :
                SetGoal(k, YearOf(ThisMonth), month, target)
          \/ SetGoalReads(k) \/ SetGoalSaves(k)
    \/ \E from \in Months : SetExpense(from, 2)

FinanceSpec == FinanceInit /\ [][FinanceNext]_financeVars
=============================================================================
