------------------------------- MODULE People -------------------------------
(***************************************************************************)
(* The access of the students, granted by hand against a payment (users/,  *)
(* manual-payments/, finance/), and the students of each teacher           *)
(* (teachers/), over the accounts and the documents of Accounts.           *)
(*                                                                         *)
(* The students are those without a subscription: isPaying is FALSE.       *)
(***************************************************************************)
EXTENDS Accounts

CONSTANTS
    GrantDays,      \* GRANT_DAYS: days a grant adds
    Days,           \* the days a run may be of: requests take less than one
    NoDate          \* null

\* Any field may be missing of a document.
Fields ==
    {"email", "role", "isPaying", "active", "name", "data", "onboarded", "until", "teacher", "pending"}
Values == BOOLEAN \cup Nat \cup People \cup {Fresh, NoDate, "student", "teacher"}

ASSUME PeopleAssumption ==
    /\ Students # {} /\ Teachers # {}
    /\ GrantDays \in Nat \ {0} /\ Days \subseteq Nat
    /\ NoDate \notin Nat /\ \A fields \in SUBSET Fields : NoDoc \notin [fields -> Values]

VARIABLES
    payments,   \* set of manualPayments
    today,      \* the day, the same for the whole run
    clock,      \* the times a grant took: grantedAt
    revoked,    \* history: payments whose access was taken back
    crossed     \* history: students whose grant and revocation wrote one between the writes of the other

paid == <<payments, today, clock, revoked, crossed>>
vars == <<accountVars, paid>>

Payment(student, at, until, amount) ==
    [student |-> student, at |-> at, until |-> until, amount |-> amount, voided |-> FALSE]

IsCounted(payment) == ~payment.voided
CountedPayments(s) == {m \in payments : m.student = s /\ IsCounted(m)}

\* What the month adds up: a courtesy is a payment of nothing.
InRevenue == {m \in payments : IsCounted(m)}

\* Mutant: the payments come in the order they were made.
FirstPayment(s) ==
    {m \in CountedPayments(s) : \A n \in CountedPayments(s) : n.at >= m.at}

\* lastManualPayment: of those counted, the last granted.
LastPayment(s) ==
    {m \in CountedPayments(s) : \A n \in CountedPayments(s) : n.at <= m.at}

Until(doc) == IF Has(doc, "until") THEN doc.until ELSE NoDate

\* hasPaidAccess, of a document that may have lost its isPaying.
HasPaidAccess(doc) ==
    \/ ~Has(doc, "isPaying")
    \/ IF Until(doc) = NoDate THEN FALSE ELSE today <= Until(doc)

\* canActivate: without a document the guard lets a student in.
CanActivate(s) == IF users[s] = NoDoc THEN TRUE ELSE HasPaidAccess(users[s])

\* Mutant: thirty days from today, whatever was left.
ExtendFromToday(until) == today + GrantDays

\* extendGrant: from the end of what is left.
ExtendGrant(until) ==
    IF until = NoDate THEN today + GrantDays
    ELSE IF until > today THEN until + GrantDays ELSE today + GrantDays

-----------------------------------------------------------------------------
\* A student and a teacher at each stage, the other teachers at work.
PeopleInit ==
    LET s == CHOOSE x \in Students : TRUE
        t == CHOOSE x \in Teachers : TRUE
        at(p, stage) ==
            LET doc == NewDoc(p, p) IN
            CASE stage = "new" -> NoDoc
              [] stage = "invited" -> doc
              [] OTHER -> Dated(Merge(doc, Whole), 0)
    IN  \E student \in {"new", "invited", "registered"},
           teacher \in {"new", "invited", "registered", "inactive"},
           granted, assigned, legacy \in BOOLEAN :
          LET plain == at(s, student)
              dated == IF granted THEN With(plain, "until", 1) ELSE plain
              doc == CASE assigned ->
                            With(With(dated, "teacher", t), "pending", teacher = "inactive")
                       [] legacy -> Without(dated, "role")
                       [] OTHER -> dated
              staff == at(t, teacher)
          IN  /\ student # "registered" => ~granted /\ ~assigned
              /\ legacy => student = "registered" /\ ~assigned /\ ~granted
              /\ assigned => teacher \in {"registered", "inactive"}
              /\ users = [p \in People |->
                    CASE p = s -> doc
                      [] p = t -> IF teacher = "inactive" THEN [staff EXCEPT !.active = FALSE] ELSE staff
                      [] OTHER -> at(p, "registered")]
              /\ accounts = [p \in People |->
                    IF users[p] = NoDoc THEN Account("new", "none", NoOne)
                    ELSE Account("live", IF p = s /\ legacy THEN "none" ELSE RoleOf(p), p)]
              /\ payments = IF granted THEN {Payment(s, 0, 1, 1)} ELSE {}
              /\ cut = IF legacy THEN {s} ELSE {}
              /\ sessions = {} /\ tokens = [p \in People |-> "no"]
              /\ today \in IF granted THEN Days ELSE {0}
              /\ clock = 0 /\ revoked = {} /\ crossed = {}
              /\ requests = [k \in Clients |-> Idle]
              /\ started = 0 /\ stops = 0 /\ outdated = {}

-----------------------------------------------------------------------------
(* setAccessGrant                                                          *)

Grant(k, s, amount) ==
    /\ Listed(s)
    /\ Begin(k, Request("grant", "get", s, amount))
    /\ UNCHANGED paid

\* The date to write is of the day and of the copy.
GrantReads(k) ==
    LET doc == users[requests[k].who] IN
    /\ At(k, "grant", "get")
    /\ IF doc = NoDoc THEN End(k) /\ UNCHANGED clock
       ELSE /\ requests' = [requests EXCEPT ![k].pc = "write", ![k].copy = doc,
                ![k].got = Payment(requests[k].who, clock + 1, ExtendGrant(Until(doc)), requests[k].arg)]
            /\ clock' = clock + 1
    /\ OnlyRequests /\ UNCHANGED <<payments, today, revoked, crossed>>

\* updateManualAccess, merged: over no document it leaves the date alone.
UpdateManualAccess(s, until) == users' = [users EXCEPT ![s] = Merge(@, [until |-> until])]

\* A revocation that took the days back and has its refund still to make: what
\* is granted now is the last payment it finds.
BeingRefunded(s) ==
    \E k \in Clients : requests[k].who = s /\ (At(k, "revoke", "find") \/ At(k, "revoke", "void"))

Cross(s, between) == crossed' = IF between THEN crossed \cup {s} ELSE crossed

GrantWrites(k) ==
    LET s == requests[k].who IN
    /\ At(k, "grant", "write")
    /\ UpdateManualAccess(s, requests[k].got.until)
    /\ Mark({s}, users[s] # NoDoc /\ Until(users[s]) = Until(requests[k].copy))
    /\ Cross(s, BeingRefunded(s))
    /\ Proceed(k, "record", requests[k].got)
    /\ UNCHANGED <<accounts, signedIn, started, stops, cut, payments, today, clock, revoked>>

GrantRecords(k) ==
    LET s == requests[k].who IN
    /\ At(k, "grant", "record")
    /\ \/ /\ payments' = payments \cup {requests[k].got}
          /\ Mark({s}, Until(users[s]) = requests[k].got.until)
          /\ End(k)
          /\ UNCHANGED stops
       \/ Fails /\ Proceed(k, "undo", requests[k].got) /\ UNCHANGED <<payments, outdated>>
    /\ UNCHANGED <<accounts, users, signedIn, started, cut, today, clock, revoked, crossed>>

\* Mutant: what could not be recorded stays granted.
KeepsDays(until, copy) == until

\* The date before, null when there was none.
DaysBefore(until, copy) == Until(copy)

GrantUndoes(k) ==
    LET s == requests[k].who IN
    /\ At(k, "grant", "undo")
    /\ UpdateManualAccess(s, DaysBefore(requests[k].got.until, requests[k].copy))
    /\ Mark({s}, Until(users[s]) = requests[k].got.until)
    /\ End(k)
    /\ UNCHANGED <<accounts, signedIn, started, stops, cut, paid>>

\* refund: "yes", "no" or not told.
Revoke(k, s, refund) ==
    /\ Listed(s)
    /\ Begin(k, Request("revoke", "get", s, refund))
    /\ UNCHANGED paid

RevokeReads(k) ==
    /\ GetOrThrow(k, "revoke", IF requests[k].arg = "untold" THEN "last" ELSE "write")
    /\ UNCHANGED paid

\* Not told of a payment with a value: 400, before anything is written.
RevokeReadsLast(k) ==
    /\ At(k, "revoke", "last")
    /\ IF \E m \in LastPayment(requests[k].who) : m.amount > 0 THEN End(k)
       ELSE Proceed(k, "write", NoArg)
    /\ OnlyRequests /\ UNCHANGED paid

\* A grant whose payment is not there yet: it cannot be taken back with the days.
BeingRecorded(s) ==
    \E k \in Clients : requests[k].who = s /\ (At(k, "grant", "record") \/ At(k, "grant", "undo"))

RevokeWrites(k) ==
    LET s == requests[k].who IN
    /\ At(k, "revoke", "write")
    /\ UpdateManualAccess(s, NoDate)
    /\ revoked' = revoked \cup {m.at : m \in CountedPayments(s)}
    /\ Mark({s}, users[s] # NoDoc)
    /\ Cross(s, BeingRecorded(s))
    /\ IF requests[k].arg = "yes" THEN Proceed(k, "find", NoArg) ELSE End(k)
    /\ UNCHANGED <<accounts, signedIn, started, stops, cut, payments, today, clock>>

RevokeFinds(k) ==
    LET last == LastPayment(requests[k].who) IN
    /\ At(k, "revoke", "find")
    /\ IF last = {} THEN End(k) ELSE Proceed(k, "void", last)
    /\ OnlyRequests /\ UNCHANGED paid

RevokeVoids(k) ==
    LET s == requests[k].who  last == requests[k].got IN
    /\ At(k, "revoke", "void")
    /\ payments' = {IF m.student = s /\ (\E n \in last : n.at = m.at)
                    THEN [m EXCEPT !.voided = TRUE] ELSE m : m \in payments}
    /\ Mark({s}, users[s] # NoDoc /\ LastPayment(s) = last)
    /\ End(k)
    /\ UNCHANGED <<accounts, users, signedIn, started, stops, cut, today, clock, revoked, crossed>>

-----------------------------------------------------------------------------
(* The students of a teacher                                               *)

\* assignStudents: those left out are released, the others assigned, in turn.
\* got: the copies to release; arg: who is to be assigned.
AssignStudents(k, t, students) ==
    /\ Listed(t)
    /\ Begin(k, Request("assign", "get", t, students))
    /\ UNCHANGED paid

AssignReads(k) == GetOrThrow(k, "assign", "current") /\ UNCHANGED paid

AssignReadsCurrent(k) ==
    /\ At(k, "assign", "current")
    /\ Proceed(k, "release", [s \in StudentsOf(requests[k].who) \ requests[k].arg |-> users[s]])
    /\ OnlyRequests /\ UNCHANGED paid

\* teacherId is undefined, hence not written: the document keeps naming them.
Released(copy) == With(Without(copy, "teacher"), "pending", TRUE)

AssignReleases(k) ==
    LET left == requests[k].got IN
    /\ At(k, "assign", "release")
    /\ IF DOMAIN left = {}
       THEN Proceed(k, "student", NoArg) /\ UNCHANGED <<users, outdated>>
       ELSE \E s \in DOMAIN left :
               /\ users' = [users EXCEPT ![s] = Merge(@, Released(left[s]))]
               /\ Mark({s}, users[s] = left[s])
               /\ Proceed(k, "release", [x \in DOMAIN left \ {s} |-> left[x]])
    /\ UNCHANGED <<accounts, signedIn, started, stops, cut, paid>>

\* A student that is not there ends it: 404 half way.
AssignReadsStudent(k) ==
    /\ At(k, "assign", "student")
    /\ IF requests[k].arg = {} THEN End(k)
       ELSE \E s \in requests[k].arg :
               IF users[s] = NoDoc THEN End(k)
               ELSE requests' = [requests EXCEPT ![k].pc = "save", ![k].got = s, ![k].copy = users[s]]
    /\ OnlyRequests /\ UNCHANGED paid

Assigned(copy, t) == With(With(copy, "teacher", t), "pending", FALSE)

\* Those a teacher earns for.
ActiveStudents(t) == {s \in StudentsOf(t) : ~users[s].pending}

AtWork(t) == IF Has(users[t], "active") THEN users[t].active ELSE FALSE

\* The teacher is not read again, nor asked to be active: a student may be given
\* to one who is not.
AssignSaves(k) ==
    LET t == requests[k].who  s == requests[k].got  copy == requests[k].copy IN
    /\ At(k, "assign", "save")
    /\ users' = [users EXCEPT ![s] = Merge(@, Assigned(copy, t))]
    /\ Mark({s}, users[s] = copy)
    /\ requests' = [requests EXCEPT ![k].pc = "student", ![k].arg = @ \ {s}]
    /\ UNCHANGED <<accounts, signedIn, started, stops, cut, paid>>

\* updateStudentAssignment: a teacher, NoOne for null, NoArg to leave it.
UpdateAssignment(k, s, t) ==
    /\ Listed(s)
    /\ Begin(k, Request("assignment", "get", s, t))
    /\ UNCHANGED paid

UpdateAssignmentReads(k) ==
    /\ GetOrThrow(k, "assignment", IF requests[k].arg \in Teachers THEN "teacher" ELSE "save")
    /\ UNCHANGED paid

UpdateAssignmentReadsTeacher(k) ==
    /\ At(k, "assignment", "teacher")
    /\ IF users[requests[k].arg] = NoDoc THEN End(k) ELSE Proceed(k, "save", NoArg)
    /\ OnlyRequests /\ UNCHANGED paid

UpdateAssignmentSaves(k) ==
    LET s == requests[k].who  t == requests[k].arg  copy == requests[k].copy
        doc == CASE t \in Teachers -> Assigned(copy, t)
                 [] t = NoOne -> Released(copy)
                 [] OTHER -> copy
    IN  /\ At(k, "assignment", "save")
        /\ users' = [users EXCEPT ![s] = Merge(@, doc)]
        /\ Mark({s}, users[s] = copy)
        /\ End(k)
        /\ UNCHANGED <<accounts, signedIn, started, stops, cut, paid>>

SetActive(k, t, active) ==
    /\ Listed(t)
    /\ Begin(k, Request("active", "get", t, active))
    /\ UNCHANGED paid

SetActiveReads(k) == GetOrThrow(k, "active", "save") /\ UNCHANGED paid

SetActiveSaves(k) ==
    LET active == requests[k].arg IN
    /\ At(k, "active", "save")
    /\ WriteCopy(k, With(requests[k].copy, "active", active))
    /\ IF active THEN End(k) ELSE Proceed(k, "query", NoArg)
    /\ UNCHANGED <<accounts, signedIn, started, stops, cut, paid>>

\* markStudentsPendingTeacher: a query and a batch.
SetActiveQueries(k) ==
    LET students == StudentsOf(requests[k].who) IN
    /\ At(k, "active", "query")
    /\ IF students = {} THEN End(k) ELSE Proceed(k, "batch", students)
    /\ OnlyRequests /\ UNCHANGED paid

SetActiveMarks(k) ==
    LET t == requests[k].who  ids == requests[k].got IN
    /\ At(k, "active", "batch")
    /\ users' = [p \in People |->
            IF p \in ids THEN Merge(users[p], [pending |-> TRUE]) ELSE users[p]]
    /\ Mark((ids \ StudentsOf(t)) \cup (StudentsOf(t) \ ids), ids = StudentsOf(t))
    /\ End(k)
    /\ UNCHANGED <<accounts, signedIn, started, stops, cut, paid>>

-----------------------------------------------------------------------------
\* Whom a request that stops leaves half way.
LeftHalfWay(k) ==
    CASE requests[k].who = NoOne -> {}
      [] requests[k].op = "active" -> StudentsOf(requests[k].who)
      [] OTHER -> {requests[k].who}

\* A restart: what was written stays.
Stop(k) ==
    /\ requests[k] # Idle
    /\ Fails
    /\ cut' = cut \cup LeftHalfWay(k)
    /\ End(k)
    /\ UNCHANGED <<accounts, users, signedIn, started, outdated, paid>>

Asks(k) ==
    \/ AccountAsks(k) /\ UNCHANGED paid
    \/ \E s \in Students :
          \/ \E amount \in {0, 1} : Grant(k, s, amount)
          \/ \E refund \in {"yes", "no", "untold"} : Revoke(k, s, refund)
          \/ \E t \in Teachers \cup {NoOne, NoArg} : UpdateAssignment(k, s, t)
    \/ \E t \in Teachers :
          \/ \E students \in SUBSET Students : AssignStudents(k, t, students)
          \/ \E active \in BOOLEAN : SetActive(k, t, active)

Handle(k) ==
    \/ AccountHandle(k) /\ UNCHANGED paid
    \/ GrantReads(k) \/ GrantWrites(k) \/ GrantRecords(k) \/ GrantUndoes(k)
    \/ RevokeReads(k) \/ RevokeReadsLast(k) \/ RevokeWrites(k) \/ RevokeFinds(k) \/ RevokeVoids(k)
    \/ AssignReads(k) \/ AssignReadsCurrent(k) \/ AssignReleases(k) \/ AssignReadsStudent(k)
    \/ AssignSaves(k)
    \/ UpdateAssignmentReads(k) \/ UpdateAssignmentReadsTeacher(k) \/ UpdateAssignmentSaves(k)
    \/ SetActiveReads(k) \/ SetActiveSaves(k) \/ SetActiveQueries(k) \/ SetActiveMarks(k)

PeopleNext ==
    \/ \E k \in Clients : Asks(k) \/ Handle(k) \/ Stop(k)
    \/ \E p \in People : Logout(p) /\ UNCHANGED paid

PeopleSpec == PeopleInit /\ [][PeopleNext]_vars
=============================================================================
