------------------------------ MODULE Accounts ------------------------------
(***************************************************************************)
(* The accounts of Firebase beside the documents of `users` (auth/, users/,*)
(* admin/): creation and invitation, sign-in, change of e-mail, edits,     *)
(* deletion and migration.                                                 *)
(*                                                                         *)
(* A request is a record that walks through the awaits of its handler; a   *)
(* read and what follows it up to the next await is one step.  The         *)
(* handlers of People share this machine.                                  *)
(***************************************************************************)
EXTENDS Integers, FiniteSets

CONSTANTS
    Students, Teachers,
    Clients,        \* requests that may be under way at once
    MaxRequests,    \* bound: requests that are begun
    MaxStops,       \* bound: failures, and requests that stop half way
    Fresh,          \* an address that is nobody's to begin with
    NoDoc, NoOne, NoArg

People == Students \cup Teachers

ASSUME AccountsAssumption ==
    /\ Students \cap Teachers = {}
    /\ {Fresh, NoOne} \cap People = {}
    /\ {MaxRequests, MaxStops} \subseteq Nat

VARIABLES
    accounts,   \* [People -> [state, claim, email]]: Firebase
    users,      \* [People -> the document, or NoDoc]
    sessions,   \* people whose refresh token is good
    tokens,     \* [People -> the role in the last token, "none" without, or "no" token]
    requests,   \* [Clients -> the request under way]
    started,    \* requests begun so far
    stops,
    outdated,   \* history: people written from a reading no longer true
    cut         \* history: people whose request did not reach its end

control == <<started, stops, outdated, cut>>
signedIn == <<sessions, tokens>>
accountVars == <<accounts, users, signedIn, requests, control>>

RoleOf(p) == IF p \in Students THEN "student" ELSE "teacher"

\* An address is the one a person began with, or the fresh one.
Addresses(p) == {p, Fresh}

Account(state, claim, email) == [state |-> state, claim |-> claim, email |-> email]
Live(p) == accounts[p].state = "live"
Taken(email) == \E p \in People : Live(p) /\ accounts[p].email = email

Idle == [op |-> "none", pc |-> "none", who |-> NoOne, arg |-> NoArg,
         copy |-> NoDoc, got |-> NoArg]
Request(op, pc, who, arg) ==
    [Idle EXCEPT !.op = op, !.pc = pc, !.who = who, !.arg = arg]

\* Which of the idle clients asks makes no difference.
FreeClient == CHOOSE k \in Clients : requests[k] = Idle

Begin(k, request) ==
    /\ requests[k] = Idle /\ k = FreeClient
    /\ started < MaxRequests
    /\ started' = started + 1
    /\ requests' = [requests EXCEPT ![k] = request]
    /\ UNCHANGED <<accounts, users, signedIn, stops, outdated, cut>>

At(k, op, pc) == requests[k].op = op /\ requests[k].pc = pc
Proceed(k, pc, got) == requests' = [requests EXCEPT ![k].pc = pc, ![k].got = got]
Remember(k, pc, copy) == requests' = [requests EXCEPT ![k].pc = pc, ![k].copy = copy]
End(k) == requests' = [requests EXCEPT ![k] = Idle]
OnlyRequests == UNCHANGED <<accounts, users, signedIn, control>>

Mark(ids, current) == outdated' = IF current THEN outdated ELSE outdated \cup ids
Fails == stops < MaxStops /\ stops' = stops + 1

-----------------------------------------------------------------------------
(* Documents: functions from the fields that are there.  "name" is the     *)
(* fullName, "data" the rest a registration asks for: FALSE where one of   *)
(* them is written empty.  "onboarded" is a date.                          *)

Has(doc, field) == IF doc = NoDoc THEN FALSE ELSE field \in DOMAIN doc

With(doc, field, v) ==
    [f \in DOMAIN doc \cup {field} |-> IF f = field THEN v ELSE doc[f]]
Without(doc, field) == [f \in DOMAIN doc \ {field} |-> doc[f]]

\* Mutant: update writes the whole document.
Replace(doc, patch) == patch

\* update merges: a field that the patch lacks, or holds as undefined, stays;
\* over no document there is one with the patch alone.
Merge(doc, patch) ==
    IF doc = NoDoc THEN patch
    ELSE [f \in DOMAIN doc \cup DOMAIN patch |->
             IF f \in DOMAIN patch THEN patch[f] ELSE doc[f]]

\* What an edit may ask for.
Nothing == [f \in {} |-> TRUE]
Whole == [name |-> TRUE, data |-> TRUE]

NewDoc(p, email) ==
    LET doc == [email |-> email, role |-> RoleOf(p), isPaying |-> FALSE]
    IN  IF p \in Teachers THEN With(doc, "active", TRUE) ELSE doc

\* The panel asks about the people of its lists: their ids are random.
Listed(p) == users[p] # NoDoc

\* A field that is missing and one that is empty are the same.
Says(doc, field) == IF Has(doc, field) THEN doc[field] ELSE FALSE

\* missingOnboardingFields is empty.
Complete(doc) == Says(doc, "name") /\ Says(doc, "data")

\* Mutant: the date is that of the last edit.
DatedAnew(doc, date) == IF Complete(doc) THEN With(doc, "onboarded", date) ELSE doc

\* onboardingCompletedAt: of the edit that completes the registration.  A copy
\* that has a date keeps it, whatever is erased later.
Dated(doc, date) ==
    IF Complete(doc) /\ ~Has(doc, "onboarded") THEN With(doc, "onboarded", date) ELSE doc

\* new Date(): after any date on record.
Now(p) == IF Has(users[p], "onboarded") THEN users[p].onboarded + 1 ELSE 1

IsInvitePending(doc) == ~Has(doc, "onboarded") /\ ~Says(doc, "name")

\* resolveUserRole: without a document, or a role in it, a student.
ResolveUserRole(doc) == IF Has(doc, "role") THEN doc.role ELSE "student"

\* Whom the document names as its teacher: findStudentsByTeacher.
StudentsOf(t) ==
    {s \in Students : IF Has(users[s], "teacher") THEN users[s].teacher = t ELSE FALSE}

-----------------------------------------------------------------------------
(* Creation: createUser and TeacherService.create, and the two invitations *)

Create(k, p, op, email) ==
    /\ accounts[p].state = "new" /\ \A i \in Clients : requests[i].who # p
    /\ Begin(k, Request(op, "create", p, email))

CreateAccount(k) ==
    LET p == requests[k].who  email == requests[k].arg IN
    /\ requests[k].pc = "create"
    /\ IF Taken(email) THEN End(k) /\ UNCHANGED accounts
       ELSE /\ accounts' = [accounts EXCEPT ![p] = Account("live", "none", email)]
            /\ Proceed(k, "claim", NoArg)
    /\ UNCHANGED <<users, signedIn, control>>

ClaimGiven(p) == RoleOf(p)

\* setCustomUserClaims, outside any try: when it fails the account stays alone.
\* The mail of verification that follows never fails.  Who signed in already
\* holds the token of a student.
CreateClaims(k) ==
    LET p == requests[k].who IN
    /\ requests[k].op \in {"create", "invite"} /\ requests[k].pc = "claim"
    /\ \/ /\ accounts' = [accounts EXCEPT ![p].claim = ClaimGiven(p)]
          /\ Mark({p}, accounts[p].claim \in {"none", ClaimGiven(p)})
          /\ Proceed(k, "save", NoArg)
          /\ UNCHANGED <<stops, cut>>
       \/ Fails /\ End(k) /\ cut' = cut \cup {p} /\ UNCHANGED <<accounts, outdated>>
    /\ UNCHANGED <<users, signedIn, started>>

\* save: a new id, a whole document.
CreateSaves(k) ==
    LET p == requests[k].who  op == requests[k].op
        doc == NewDoc(p, requests[k].arg)
    IN  /\ requests[k].op \in {"create", "invite"} /\ requests[k].pc = "save"
        /\ \/ /\ users' = [users EXCEPT ![p] = IF op = "create" THEN With(doc, "name", TRUE) ELSE doc]
              /\ IF op = "invite" THEN Proceed(k, "mail", NoArg) ELSE End(k)
              /\ UNCHANGED stops
           \/ Fails /\ Proceed(k, "undo", NoArg) /\ UNCHANGED users
        /\ UNCHANGED <<accounts, signedIn, started, outdated, cut>>

\* sendPasswordReset.  It fails outside the try of a student, who stays invited,
\* and inside the try of a teacher, whose account is undone under the document.
InviteMails(k) ==
    LET p == requests[k].who IN
    /\ At(k, "invite", "mail")
    /\ \/ End(k) /\ UNCHANGED <<stops, cut>>
       \/ /\ Fails
          /\ IF p \in Students THEN End(k) /\ UNCHANGED cut
             ELSE Proceed(k, "undo", NoArg) /\ cut' = cut \cup {p}
    /\ UNCHANGED <<accounts, users, signedIn, started, outdated>>

CreateUndoes(k) ==
    /\ requests[k].op \in {"create", "invite"} /\ requests[k].pc = "undo"
    /\ accounts' = [accounts EXCEPT ![requests[k].who] = Account("deleted", "none", NoOne)]
    /\ End(k)
    /\ UNCHANGED <<users, signedIn, control>>

-----------------------------------------------------------------------------
(* Signing in.  Firebase ends the session of a deleted account.            *)

Login(k, p) ==
    /\ Live(p)
    /\ Begin(k, Request("login", "sign in", p, NoArg))

Refresh(k, p) ==
    /\ p \in sessions
    /\ Begin(k, Request("refresh", "sign in", p, NoArg))

Valid(p) == Live(p) /\ p \in sessions

\* Mutant: the token is delivered as it came.
IssueAnything(claim) == TRUE

Issuable(claim) == claim # "none"

\* entregar: what goes to the browser replaces the token it had.
Delivered(p, claim) == [tokens EXCEPT ![p] = claim]

\* With the role in the token nothing is written.
SignIn(k) ==
    LET p == requests[k].who  claim == accounts[p].claim
        entered == IF At(k, "login", "sign in") THEN Live(p) ELSE Valid(p)
    IN  /\ requests[k].pc = "sign in"
        /\ sessions' = IF entered THEN sessions \cup {p} ELSE sessions
        /\ tokens' = IF entered /\ Issuable(claim) THEN Delivered(p, claim) ELSE tokens
        /\ IF entered /\ ~Issuable(claim) THEN Proceed(k, "resolve", NoArg) ELSE End(k)
        /\ UNCHANGED <<accounts, users, control>>

LoginResolves(k) ==
    /\ requests[k].pc = "resolve"
    /\ Proceed(k, "sync", ResolveUserRole(users[requests[k].who]))
    /\ OnlyRequests

\* ensureRoleClaim writes what it resolved, whatever was claimed meanwhile.
LoginClaims(k) ==
    LET p == requests[k].who  role == requests[k].got IN
    /\ requests[k].pc = "sync"
    /\ accounts' = IF Live(p) THEN [accounts EXCEPT ![p].claim = role] ELSE accounts
    /\ Mark({p}, role = ResolveUserRole(users[p]) /\ accounts[p].claim = "none")
    /\ IF Live(p) THEN Proceed(k, "reissue", NoArg) ELSE End(k)
    /\ UNCHANGED <<users, signedIn, started, stops, cut>>

\* A claim is only in the tokens issued after it.
LoginReissues(k) ==
    LET p == requests[k].who IN
    /\ requests[k].pc = "reissue"
    /\ tokens' = IF Valid(p) THEN Delivered(p, accounts[p].claim) ELSE tokens
    /\ End(k)
    /\ UNCHANGED <<accounts, users, sessions, control>>

\* logout ends every session; the token lasts its hour.
Logout(p) ==
    /\ p \in sessions
    /\ sessions' = sessions \ {p}
    /\ UNCHANGED <<accounts, users, tokens, requests, control>>

\* The role the guards see: of the token, else as the sign-in finds it.
RoleSeen(p) == IF tokens[p] = "none" THEN ResolveUserRole(users[p]) ELSE tokens[p]

\* The guard of every route, then that of the roles.
Authenticated(p) == tokens[p] # "no"
Admitted(p, roles) == Authenticated(p) /\ RoleSeen(p) \in roles

-----------------------------------------------------------------------------
(* Change of e-mail: the account, then the document                        *)

ChangeEmail(k, p, email) ==
    /\ Live(p) /\ email # accounts[p].email
    /\ Begin(k, [Request("email", "account", p, email) EXCEPT !.got = accounts[p].email])

EmailChangesAccount(k) ==
    LET p == requests[k].who  email == requests[k].arg IN
    /\ At(k, "email", "account")
    /\ IF Taken(email) \/ ~Live(p) THEN End(k) /\ UNCHANGED accounts
       ELSE /\ accounts' = [accounts EXCEPT ![p].email = email]
            /\ Proceed(k, "doc", requests[k].got)
    /\ UNCHANGED <<users, signedIn, control>>

EmailChangesDocument(k) ==
    LET p == requests[k].who  email == requests[k].arg IN
    /\ At(k, "email", "doc")
    /\ \/ /\ users' = [users EXCEPT ![p] = Merge(@, [email |-> email])]
          /\ Mark({p}, users[p] # NoDoc /\ accounts[p].email = email)
          /\ End(k)
          /\ UNCHANGED stops
       \/ Fails /\ Proceed(k, "undo", requests[k].got) /\ UNCHANGED <<users, outdated>>
    /\ UNCHANGED <<accounts, signedIn, started, cut>>

\* Mutant: the account keeps the new address.
EmailLeft(account, email) == account

EmailRestored(account, email) == [account EXCEPT !.email = email]

\* The address left may have been taken meanwhile: then the account keeps the new.
EmailUndoes(k) ==
    LET p == requests[k].who  email == requests[k].got IN
    /\ At(k, "email", "undo")
    /\ accounts' = IF Live(p) /\ ~Taken(email)
                   THEN [accounts EXCEPT ![p] = EmailRestored(@, email)] ELSE accounts
    /\ Mark({p}, accounts[p].email = requests[k].arg
                 /\ (IF Has(users[p], "email") THEN users[p].email = email ELSE TRUE))
    /\ cut' = IF Live(p) /\ ~Taken(email) THEN cut ELSE cut \cup {p}
    /\ End(k)
    /\ UNCHANGED <<users, signedIn, started, stops>>

-----------------------------------------------------------------------------
(* Edits: the document is merged with the copy that was read               *)

\* Most handlers begin so: 404, or the next await.
GetOrThrow(k, op, next) ==
    LET doc == users[requests[k].who] IN
    /\ At(k, op, "get")
    /\ IF doc = NoDoc THEN End(k) ELSE Remember(k, next, doc)
    /\ OnlyRequests

\* The fields of the copy go over those written since.
WriteCopy(k, doc) ==
    LET p == requests[k].who IN
    /\ users' = [users EXCEPT ![p] = Merge(@, doc)]
    /\ Mark({p}, users[p] = requests[k].copy)

\* The person: updateOwnProfile of users and of teachers.  A patch fills
\* fields, or empties them.
UpdateOwnProfile(k, p, patch) ==
    /\ Live(p)
    /\ Begin(k, Request("profile", "get", p, patch))

UpdateOwnProfileReads(k) == GetOrThrow(k, "profile", "save")

UpdateOwnProfileSaves(k) ==
    /\ At(k, "profile", "save")
    /\ WriteCopy(k, Dated(Merge(requests[k].copy, requests[k].arg), Now(requests[k].who)))
    /\ End(k)
    /\ UNCHANGED <<accounts, signedIn, started, stops, cut>>

\* assertCanReach: the manager (NoOne) reaches everybody, the others themselves
\* and a teacher the students whose document names her.
CanReach(requester, p, doc) ==
    \/ requester \in {NoOne, p}
    \/ p \in Students /\ Has(doc, "teacher") /\ doc["teacher"] = requester

\* updateUser, the update of a teacher and the visibility of the phone.  No
\* date is kept.  got: who asks.
UpdateUser(k, requester, p, patch) ==
    /\ Listed(p)
    /\ Begin(k, [Request("edit", "get", p, patch) EXCEPT !.got = requester])

UpdateUserReads(k) ==
    LET p == requests[k].who  doc == users[p] IN
    /\ At(k, "edit", "get")
    /\ requests' = [requests EXCEPT ![k] =
           IF doc = NoDoc THEN Idle
           ELSE IF CanReach(@.got, p, doc) THEN [@ EXCEPT !.pc = "save", !.copy = doc, !.got = NoArg]
           ELSE Idle]
    /\ OnlyRequests

\* The address may be in the patch: then the account is not told.
UpdateUserSaves(k) ==
    LET p == requests[k].who  copy == requests[k].copy  patch == requests[k].arg IN
        /\ At(k, "edit", "save")
        /\ users' = [users EXCEPT ![p] = Merge(@, Merge(copy, patch))]
        /\ Mark({p}, users[p] = copy /\ "email" \notin DOMAIN patch)
        /\ End(k)
        /\ UNCHANGED <<accounts, signedIn, started, stops, cut>>

-----------------------------------------------------------------------------
(* Deletion: the document, then the account                                *)

Delete(k, p) ==
    /\ Listed(p)
    /\ Begin(k, Request("delete", "doc", p, NoArg))

DeleteInvite(k, t) ==
    /\ Listed(t)
    /\ Begin(k, Request("uninvite", "get", t, NoArg))

DeleteInviteReads(k) ==
    LET doc == users[requests[k].who] IN
    /\ At(k, "uninvite", "get")
    /\ IF Has(doc, "role") /\ IsInvitePending(doc) THEN Proceed(k, "students", NoArg) ELSE End(k)
    /\ OnlyRequests

\* Mutant: an invitation with students is deleted all the same.
DeletableAnyway(t) == TRUE

Deletable(t) == StudentsOf(t) = {}

DeleteInviteReadsStudents(k) ==
    /\ At(k, "uninvite", "students")
    /\ IF Deletable(requests[k].who) THEN Proceed(k, "doc", StudentsOf(requests[k].who))
       ELSE End(k)
    /\ OnlyRequests

\* The route of the users does not ask for students, who go on naming her; that
\* of the invitations has asked, and those who came since are outdated.
DeleteDoc(k) ==
    LET p == requests[k].who IN
    /\ requests[k].op \in {"delete", "uninvite"} /\ requests[k].pc = "doc"
    /\ users' = [users EXCEPT ![p] = NoDoc]
    /\ Mark(StudentsOf(p) \ requests[k].got, requests[k].op = "delete")
    /\ Proceed(k, "account", NoArg)
    /\ UNCHANGED <<accounts, signedIn, started, stops, cut>>

\* Mutant: the account is forgotten.
AccountKept(p) == accounts[p]

AccountDeleted(p) == Account("deleted", "none", NoOne)

\* deleteAccount: none there is as good.
DeleteAccount(k) ==
    LET p == requests[k].who IN
    /\ requests[k].op \in {"delete", "uninvite"} /\ requests[k].pc = "account"
    /\ accounts' = [accounts EXCEPT ![p] = AccountDeleted(p)]
    /\ End(k)
    /\ UNCHANGED <<users, signedIn, control>>

-----------------------------------------------------------------------------
(* The migrations: an account and a role for every document.  got: the     *)
(* documents listed and still to do; who: the one whose claim is next.     *)

\* migrateAuth, or migrateRoles.
Migrate(k, op) == Begin(k, Request(op, "list", NoOne, NoArg))

MigrateLists(k) ==
    LET listed == [p \in {q \in People : users[q] # NoDoc} |-> users[p]] IN
    /\ requests[k].pc = "list"
    /\ requests' = [requests EXCEPT ![k].pc = "next", ![k].got = listed,
           ![k].arg = {p \in DOMAIN listed : ~Has(listed[p], "role")}]
    /\ OnlyRequests

Iterating(k) == requests[k].pc = "next" /\ requests[k].who = NoOne
Left(k, p) == LET todo == requests[k].got IN [q \in DOMAIN todo \ {p} |-> todo[q]]

\* The account is looked for and created: without an address, or with that of
\* another, the person is only reported.
MigrateCreates(k, p) ==
    LET doc == requests[k].got[p]
        addressed == Has(doc, "email")
        possible == IF addressed THEN ~Taken(doc.email) ELSE FALSE
    IN  /\ Iterating(k) /\ requests[k].op = "accounts" /\ p \in DOMAIN requests[k].got
        /\ IF (Live(p) /\ addressed) \/ possible
           THEN requests' = [requests EXCEPT ![k].who = p]
           ELSE Proceed(k, "next", Left(k, p))
        /\ IF possible /\ ~Live(p)
           THEN /\ accounts' = [accounts EXCEPT ![p] = Account("live", "none", doc.email)]
                /\ Mark({p}, users[p] = doc)
           ELSE UNCHANGED <<accounts, outdated>>
        /\ UNCHANGED <<users, signedIn, started, stops, cut>>

\* syncRoleClaim: only an account with another role is given its own.
SyncRoleReads(k, p) ==
    LET role == ResolveUserRole(requests[k].got[p]) IN
    /\ Iterating(k) /\ requests[k].op = "roles" /\ p \in DOMAIN requests[k].got
    /\ IF Live(p) /\ accounts[p].claim # role
       THEN requests' = [requests EXCEPT ![k].who = p]
       ELSE Proceed(k, "next", Left(k, p))
    /\ OnlyRequests

MigrateClaims(k) ==
    LET p == requests[k].who  role == ResolveUserRole(requests[k].got[p]) IN
    /\ requests[k].pc = "next" /\ p # NoOne
    /\ accounts' = IF Live(p) THEN [accounts EXCEPT ![p].claim = role] ELSE accounts
    /\ Mark({p}, role = ResolveUserRole(users[p]))
    /\ requests' = [requests EXCEPT ![k].who = NoOne, ![k].got = Left(k, p)]
    /\ UNCHANGED <<users, signedIn, started, stops, cut>>

\* mergeAll, of the roles that were missing.
MigrateEnds(k) ==
    LET ids == IF requests[k].op = "roles" THEN requests[k].arg ELSE {} IN
    /\ Iterating(k) /\ DOMAIN requests[k].got = {}
    /\ users' = [p \in People |->
           IF p \in ids THEN Merge(users[p], [role |-> "student"]) ELSE users[p]]
    /\ Mark({p \in ids : users[p] = NoDoc}, FALSE)
    /\ End(k)
    /\ UNCHANGED <<accounts, signedIn, started, stops, cut>>

-----------------------------------------------------------------------------
AccountAsks(k) ==
    \/ \E p \in People :
          \/ \E op \in {"create", "invite"}, email \in Addresses(p) : Create(k, p, op, email)
          \/ Login(k, p) \/ Refresh(k, p) \/ Delete(k, p)
          \/ \E email \in Addresses(p) : ChangeEmail(k, p, email)
          \/ \E patch \in {Nothing, Whole, [data |-> TRUE], [data |-> FALSE]} : UpdateOwnProfile(k, p, patch)
          \/ \E patch \in {[name |-> TRUE], [name |-> FALSE], [email |-> Fresh]} :
             \E requester \in Teachers \cup {NoOne} : UpdateUser(k, requester, p, patch)
    \/ \E t \in Teachers : DeleteInvite(k, t) \/ UpdateUser(k, NoOne, t, Whole)
    \/ \E op \in {"accounts", "roles"} : Migrate(k, op)

AccountHandle(k) ==
    \/ CreateAccount(k) \/ CreateClaims(k) \/ CreateSaves(k) \/ InviteMails(k) \/ CreateUndoes(k)
    \/ SignIn(k) \/ LoginResolves(k) \/ LoginClaims(k) \/ LoginReissues(k)
    \/ EmailChangesAccount(k) \/ EmailChangesDocument(k) \/ EmailUndoes(k)
    \/ UpdateOwnProfileReads(k) \/ UpdateOwnProfileSaves(k)
    \/ UpdateUserReads(k) \/ UpdateUserSaves(k)
    \/ DeleteInviteReads(k) \/ DeleteInviteReadsStudents(k)
    \/ DeleteDoc(k) \/ DeleteAccount(k)
    \/ MigrateLists(k) \/ MigrateClaims(k) \/ MigrateEnds(k)
    \/ \E p \in People : MigrateCreates(k, p) \/ SyncRoleReads(k, p)
=============================================================================
