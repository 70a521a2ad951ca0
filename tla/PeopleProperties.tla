-------------------------- MODULE PeopleProperties --------------------------
(* What accounts, documents, payments, rosters and reports promise. *)
EXTENDS Finance

Busy(p, ops) == \E k \in Clients : requests[k].who = p /\ requests[k].op \in ops

\* Between requests a person has a document and an account, or neither: nobody
\* removed can sign in, and nobody on a list cannot.  Only a request that
\* failed or stopped half way, or wrote over a deletion, leaves one alone.
DocumentHasItsAccount ==
    \A p \in People :
        p \notin outdated \cup cut /\ ~Busy(p, {"create", "invite", "delete", "uninvite"}) =>
            (users[p] # NoDoc <=> Live(p))

\* A registered person is seen by the guards with the role of the document,
\* through sign-ins and migrations that find the claim missing: a token is
\* never delivered without a role, and none signs in as less than they are.
SeenWithTheirRole ==
    \A p \in People :
        Live(p) /\ Has(users[p], "role") /\ p \notin outdated /\ ~Busy(p, {"create", "invite"}) =>
            /\ accounts[p].claim = users[p].role \/ (accounts[p].claim = "none" /\ p \in cut)
            /\ tokens[p] # "none"
            /\ Authenticated(p) =>
                  \A role \in {"student", "teacher"} : Admitted(p, {role}) <=> role = users[p].role

\* The address of the document is the one that signs in, through a change that
\* fails between the two stores: only an edit made from an older copy, or of
\* the address itself by the panel, parts them.
EmailsAgree ==
    \A p \in People :
        Live(p) /\ Has(users[p], "email") /\ p \notin outdated \cup cut /\ ~Busy(p, {"email"}) =>
            users[p].email = accounts[p].email

\* Firebase and the documents tell the same of a person: who they are, what
\* they may do and where they are written to.
TheStoresAgree == DocumentHasItsAccount /\ SeenWithTheirRole /\ EmailsAgree

\* The date of a registration is of the edit that completed it: it is set on a
\* whole registration only, and no edit moves it; none takes it away, not even one
\* made of a copy from before.  What the registration says may still be erased:
\* the date stays on an incomplete one.  The save of a creation, of somebody who
\* signed in before it, writes over both.
RegistrationIsKept ==
    [][ \A p \in People :
            users[p] # NoDoc /\ users'[p] # NoDoc /\ ~Busy(p, {"create", "invite"}) =>
                /\ Has(users[p], "onboarded") => Has(users'[p], "onboarded")
                /\ \/ p \in outdated'
                   \/ Has(users'[p], "onboarded") =>
                         IF Has(users[p], "onboarded") THEN users'[p].onboarded = users[p].onboarded
                         ELSE Complete(users'[p]) ]_vars

\* Every payment in the revenue gives days of its own, on top of those left:
\* until their end the student passes the guard, unless the access was taken
\* back, two writers overlapped or a grant and a revocation crossed.
PaidDaysAreGiven ==
    \A s \in Students : s \notin outdated \cup crossed \cup cut /\ users[s] # NoDoc =>
        LET standing == {m \in InRevenue : m.student = s /\ m.at \notin revoked} IN
        \A m \in standing :
            /\ today <= m.until => CanActivate(s)
            /\ \A n \in standing \ {m} :
                  n.until >= m.until + GrantDays \/ m.until >= n.until + GrantDays

\* The hole the register of payments closes: no access stands without a payment, or a
\* courtesy, on record that gives just that date, also when recording fails.
AccessIsRecorded ==
    \A s \in Students :
        s \notin outdated \cup crossed \cup cut /\ Until(users[s]) # NoDate /\ ~Busy(s, {"grant", "revoke"}) =>
            \E m \in CountedPayments(s) : m.until = Until(users[s])

\* Access and payments account for each other, through grants, courtesies and
\* refunds that overlap or fail between their two writes.
AccessMatchesPayments == PaidDaysAreGiven /\ AccessIsRecorded

\* A refund takes a payment whose days were taken back, and the last of those that
\* count: neither one that still gives access nor an older one, however
\* revocations, refunds and grants follow or overtake one another.  Set apart is
\* a grant that writes between the two writes of a revocation, or a revocation
\* between those of a grant: there the code takes back the wrong one.
RefundsTakeTheLast ==
    [][ \A m \in InRevenue \ InRevenue' :
            \/ m.student \in outdated' \cup crossed
            \/ /\ m.at \in revoked
               /\ \A n \in InRevenue : n.student = m.student /\ n.at > m.at => n.at \notin revoked
      ]_vars

\* A deactivation that has written and has its students still to mark.
Deactivating(t) ==
    \E k \in Clients : requests[k].who = t /\ (At(k, "active", "query") \/ At(k, "active", "batch"))

\* Students a teacher earns for who is gone or inactive: nobody lists them as waiting.
Forsaken(t) == IF AtWork(t) \/ Deactivating(t) THEN {} ELSE ActiveStudents(t)

\* The panel gives a student to a teacher: she is only asked to exist.
Given(k, t, s) ==
    \/ At(k, "assign", "save") /\ requests[k].who = t /\ requests[k].got = s
    \/ At(k, "assignment", "save") /\ requests[k].who = s /\ requests[k].arg = t

\* The route of the users deletes a teacher: it does not ask for her students.
Dismissed(k, t) == At(k, "delete", "doc") /\ requests[k].who = t

\* The two doors the code leaves open are the only ones: through rosters, edits,
\* deactivations and deleted invitations that overlap, no student is left with a
\* teacher who is gone or inactive without waiting for another, but by a panel that
\* gives the student to her then or deletes her as a user.
StudentsHaveTheirTeacher ==
    [][ \A t \in Teachers \ outdated' : \A s \in (Forsaken(t)' \ Forsaken(t)) \ (outdated' \cup cut') :
            \E k \in Clients : requests'[k] # requests[k] /\ (Given(k, t, s) \/ Dismissed(k, t)) ]_vars

\* The month and the year, computed along two ways, tell the same: what was
\* spent before the year still holds in it, and who pays is counted exactly when there is revenue.
YearAddsUpItsMonths ==
    \A y \in 1 .. Years :
        LET year == GetAnnualOverview(y) IN
        /\ \A m \in MonthsOfYear(y) :
              LET month == GetMonthlyOverview(m) IN
              /\ year.months[m].profit = month.profit /\ year.months[m].infra = month.infra
              /\ month.revenue > 0 <=> month.students > 0
        /\ year.totalRevenue =
              Cardinality({m \in InRevenue : YearOf(MonthOf(m)) = y /\ m.amount = 1})

\* A goal is what was last asked for, however annual and monthly goals follow
\* one another: only a save made of an older reading takes one back.
GoalsAreKept ==
    \A y \in (1 .. Years) \ overtaken : goals[y] = asked[y]
=============================================================================
