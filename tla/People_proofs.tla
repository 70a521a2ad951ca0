--------------------------- MODULE People_proofs ---------------------------
(***************************************************************************)
(* Theorems about modules Accounts, People and Finance, for any number of  *)
(* students, teachers and requests under way, with no bound on requests    *)
(* and failures: documents, registrations, rosters, yearly goals, and the  *)
(* access that payments give and refunds take back.                        *)
(***************************************************************************)
EXTENDS PeopleProperties, TLAPS

-----------------------------------------------------------------------------
(* Documents *)

Dates == Nat \cup {NoDate}
Roles == {"student", "teacher"}
Emails == People \cup {Fresh}

\* A function from some fields: what a registration says is there or empty, its
\* date is a date, and a student with a teacher is told whether they wait.
IsDoc(d) ==
    /\ d = [f \in DOMAIN d |-> d[f]]
    /\ DOMAIN d \subseteq Fields
    /\ \A f \in DOMAIN d : d[f] \in Values
    /\ "email" \in DOMAIN d => d["email"] \in Emails
    /\ "role" \in DOMAIN d => d["role"] \in Roles
    /\ "until" \in DOMAIN d => d["until"] \in Dates
    /\ "name" \in DOMAIN d => d["name"] \in BOOLEAN
    /\ "data" \in DOMAIN d => d["data"] \in BOOLEAN
    /\ "onboarded" \in DOMAIN d => d["onboarded"] \in Nat
    /\ "teacher" \in DOMAIN d => "pending" \in DOMAIN d

Docs == {d \in UNION {[fields -> Values] : fields \in SUBSET Fields} : IsDoc(d)}

LEMMA DocsAre ==
    ASSUME NEW d
    PROVE  d \in Docs <=> IsDoc(d)
PROOF
  <1>1. ASSUME IsDoc(d) PROVE d \in UNION {[fields -> Values] : fields \in SUBSET Fields}
    <2>1. d \in [DOMAIN d -> Values]
      BY <1>1 DEF IsDoc
    <2>2. DOMAIN d \in SUBSET Fields
      BY <1>1 DEF IsDoc
    <2>3. [DOMAIN d -> Values] \in {[F -> Values] : F \in SUBSET Fields}
      BY <2>2
    <2> QED
      BY <2>1, <2>3
  <1> QED
    BY <1>1 DEF Docs

LEMMA NoDocIsNone ==
    NoDoc \notin Docs
PROOF BY PeopleAssumption DEF Docs

LEMMA WithIsDoc ==
    ASSUME NEW d \in Docs, NEW field \in Fields \ {"role", "teacher"}, NEW v \in Values,
           field = "until" => v \in Dates, field = "email" => v \in Emails,
           field \in {"name", "data"} => v \in BOOLEAN, field = "onboarded" => v \in Nat
    PROVE  With(d, field, v) \in Docs
PROOF
  <1> DEFINE e == With(d, field, v)
  <1>1. IsDoc(d)
    BY DocsAre
  <1>2. e = [f \in DOMAIN d \cup {field} |-> IF f = field THEN v ELSE d[f]]
    BY DEF With
  <1>3. IsDoc(e)
    <2> HIDE DEF e
    <2>1. DOMAIN e = DOMAIN d \cup {field} /\ \A f \in DOMAIN e : e[f] = IF f = field THEN v ELSE d[f]
      BY <1>2
    <2>2. e = [f \in DOMAIN e |-> e[f]]
      BY <1>2
    <2> QED
      BY <1>1, <2>1, <2>2 DEF IsDoc
  <1> QED
    BY <1>3, DocsAre

LEMMA AssignedIsDoc ==
    ASSUME NEW d \in Docs, NEW t \in Teachers, NEW b \in BOOLEAN
    PROVE  With(With(d, "teacher", t), "pending", b) \in Docs
PROOF
  <1> DEFINE c == With(d, "teacher", t)
             e == With(c, "pending", b)
  <1>1. IsDoc(d)
    BY DocsAre
  <1>2. c = [f \in DOMAIN d \cup {"teacher"} |-> IF f = "teacher" THEN t ELSE d[f]]
    BY DEF With
  <1>3. e = [f \in DOMAIN c \cup {"pending"} |-> IF f = "pending" THEN b ELSE c[f]]
    BY DEF With
  <1>4. IsDoc(e)
    <2> HIDE DEF c, e
    <2>1. DOMAIN c = DOMAIN d \cup {"teacher"} /\ \A f \in DOMAIN c : c[f] = IF f = "teacher" THEN t ELSE d[f]
      BY <1>2
    <2>2. DOMAIN e = DOMAIN d \cup {"teacher", "pending"}
      BY <1>3, <2>1
    <2>3. e["pending"] = b /\ e["teacher"] = t
          /\ \A f \in DOMAIN e \ {"teacher", "pending"} : f \in DOMAIN d /\ e[f] = d[f]
      BY <1>3, <2>1, <2>2
    <2>4. e = [f \in DOMAIN e |-> e[f]]
      BY <1>3
    <2>5. {"teacher", "pending"} \subseteq Fields /\ t \in Values /\ b \in Values
      BY DEF Fields, Values, People
    <2>6. \A f \in DOMAIN e : e[f] \in Values
      BY <1>1, <2>3, <2>5 DEF IsDoc
    <2>7. /\ "email" \in DOMAIN e => e["email"] \in Emails
          /\ "role" \in DOMAIN e => e["role"] \in Roles
          /\ "until" \in DOMAIN e => e["until"] \in Dates
          /\ "name" \in DOMAIN e => e["name"] \in BOOLEAN
          /\ "data" \in DOMAIN e => e["data"] \in BOOLEAN
          /\ "onboarded" \in DOMAIN e => e["onboarded"] \in Nat
      BY <1>1, <2>2, <2>3 DEF IsDoc
    <2> QED
      BY <1>1, <2>2, <2>4, <2>5, <2>6, <2>7 DEF IsDoc
  <1> QED
    BY <1>4, DocsAre

LEMMA DatedIsDoc ==
    ASSUME NEW d \in Docs, NEW date \in Nat
    PROVE  Dated(d, date) \in Docs
PROOF
  <1>1. CASE Complete(d) /\ ~Has(d, "onboarded")
    <2>1. "onboarded" \in Fields \ {"role", "teacher"} /\ date \in Values
      BY DEF Fields, Values
    <2>2. With(d, "onboarded", date) \in Docs
      BY <2>1, WithIsDoc
    <2> QED
      BY <1>1, <2>2 DEF Dated
  <1>2. CASE ~(Complete(d) /\ ~Has(d, "onboarded"))
    BY <1>2 DEF Dated
  <1> QED
    BY <1>1, <1>2

LEMMA WithoutIsDoc ==
    ASSUME NEW d \in Docs, NEW field \in {"teacher", "role"}
    PROVE  Without(d, field) \in Docs
PROOF
  <1> DEFINE e == Without(d, field)
  <1>1. IsDoc(d)
    BY DocsAre
  <1>2. e = [f \in DOMAIN d \ {field} |-> d[f]]
    BY DEF Without
  <1>3. IsDoc(e)
    <2> HIDE DEF e
    <2>1. DOMAIN e = DOMAIN d \ {field} /\ \A f \in DOMAIN e : e[f] = d[f]
      BY <1>2
    <2>2. e = [f \in DOMAIN e |-> e[f]]
      BY <1>2
    <2> QED
      BY <1>1, <2>1, <2>2 DEF IsDoc
  <1> QED
    BY <1>3, DocsAre

LEMMA MergeIsDoc ==
    ASSUME NEW d \in Docs \cup {NoDoc}, NEW patch \in Docs
    PROVE  Merge(d, patch) \in Docs
PROOF
  <1>1. CASE d = NoDoc
    BY <1>1 DEF Merge
  <1>2. CASE d # NoDoc
    <2> DEFINE e == Merge(d, patch)
    <2>1. d \in Docs /\ IsDoc(d) /\ IsDoc(patch)
      BY <1>2, DocsAre
    <2>2. e = [f \in DOMAIN d \cup DOMAIN patch |-> IF f \in DOMAIN patch THEN patch[f] ELSE d[f]]
      BY <1>2 DEF Merge
    <2>3. IsDoc(e)
      <3> HIDE DEF e
      <3>1. DOMAIN e = DOMAIN d \cup DOMAIN patch
            /\ \A f \in DOMAIN e : e[f] = IF f \in DOMAIN patch THEN patch[f] ELSE d[f]
        BY <2>2
      <3>2. e = [f \in DOMAIN e |-> e[f]]
        BY <2>2
      <3> QED
        BY <2>1, <3>1, <3>2 DEF IsDoc
    <2> QED
      BY <2>3, DocsAre
  <1> QED
    BY <1>1, <1>2

\* The patches of a single field.
LEMMA PatchIsDoc ==
    /\ \A u \in Dates : [until |-> u] \in Docs
    /\ \A a \in Emails : [email |-> a] \in Docs
    /\ [pending |-> TRUE] \in Docs
    /\ [role |-> "student"] \in Docs
PROOF
  <1>1. ASSUME NEW u \in Dates PROVE [until |-> u] \in Docs
    <2>1. IsDoc([until |-> u])
      BY DEF IsDoc, Fields, Values, Dates
    <2> QED
      BY <2>1, DocsAre
  <1>2. ASSUME NEW a \in Emails PROVE [email |-> a] \in Docs
    <2> DEFINE d == [email |-> a]
    <2>0. a \in Values
      BY DEF Values, Emails
    <2>2. d = [f \in {"email"} |-> a] /\ DOMAIN d = {"email"} /\ d["email"] = a
      OBVIOUS
    <2>1. IsDoc(d)
      BY <2>0, <2>2 DEF IsDoc, Fields
    <2> QED
      BY <2>1, DocsAre
  <1>3. [pending |-> TRUE] \in Docs
    <2> DEFINE d == [pending |-> TRUE]
    <2>0. TRUE \in Values
      BY DEF Values
    <2>2. d = [f \in DOMAIN d |-> d[f]] /\ DOMAIN d = {"pending"} /\ d["pending"] = TRUE
      OBVIOUS
    <2>1. IsDoc(d)
      BY <2>0, <2>2 DEF IsDoc, Fields
    <2> QED
      BY <2>1, DocsAre
  <1>4. [role |-> "student"] \in Docs
    <2>1. IsDoc([role |-> "student"])
      BY DEF IsDoc, Fields, Values, Roles
    <2> QED
      BY <2>1, DocsAre
  <1> QED
    BY <1>1, <1>2, <1>3, <1>4

\* The patches an edit may ask for.
LEMMA PatchesAre ==
    /\ Nothing \in Docs /\ DOMAIN Nothing = {}
    /\ Whole \in Docs /\ DOMAIN Whole = {"name", "data"} /\ Whole["name"] = TRUE /\ Whole["data"] = TRUE
    /\ \A b \in BOOLEAN : /\ [data |-> b] \in Docs /\ DOMAIN [data |-> b] = {"data"}
                         /\ [name |-> b] \in Docs /\ DOMAIN [name |-> b] = {"name"}
    /\ [email |-> Fresh] \in Docs /\ DOMAIN [email |-> Fresh] = {"email"}
PROOF
  <1>1. Nothing \in Docs /\ DOMAIN Nothing = {}
    <2>1. Nothing = [f \in DOMAIN Nothing |-> Nothing[f]] /\ DOMAIN Nothing = {}
      BY DEF Nothing
    <2>2. IsDoc(Nothing)
      BY <2>1 DEF IsDoc
    <2> QED
      BY <2>1, <2>2, DocsAre
  <1>2. Whole \in Docs /\ DOMAIN Whole = {"name", "data"} /\ Whole["name"] = TRUE /\ Whole["data"] = TRUE
    <2>1. /\ Whole = [f \in DOMAIN Whole |-> Whole[f]] /\ DOMAIN Whole = {"name", "data"}
          /\ Whole["name"] = TRUE /\ Whole["data"] = TRUE
      BY DEF Whole
    <2>2. TRUE \in Values
      BY DEF Values
    <2>3. IsDoc(Whole)
      BY <2>1, <2>2 DEF IsDoc, Fields
    <2> QED
      BY <2>1, <2>3, DocsAre
  <1>3. ASSUME NEW b \in BOOLEAN PROVE [data |-> b] \in Docs /\ DOMAIN [data |-> b] = {"data"}
    <2> DEFINE d == [data |-> b]
    <2>1. d = [f \in DOMAIN d |-> d[f]] /\ DOMAIN d = {"data"} /\ d["data"] = b
      OBVIOUS
    <2>2. b \in Values
      BY DEF Values
    <2>3. IsDoc(d)
      BY <2>1, <2>2 DEF IsDoc, Fields
    <2> QED
      BY <2>1, <2>3, DocsAre
  <1>4. ASSUME NEW b \in BOOLEAN PROVE [name |-> b] \in Docs /\ DOMAIN [name |-> b] = {"name"}
    <2> DEFINE d == [name |-> b]
    <2>1. d = [f \in DOMAIN d |-> d[f]] /\ DOMAIN d = {"name"} /\ d["name"] = b
      OBVIOUS
    <2>2. b \in Values
      BY DEF Values
    <2>3. IsDoc(d)
      BY <2>1, <2>2 DEF IsDoc, Fields
    <2> QED
      BY <2>1, <2>3, DocsAre
  <1>5. [email |-> Fresh] \in Docs /\ DOMAIN [email |-> Fresh] = {"email"}
    BY PatchIsDoc DEF Emails
  <1> QED
    BY <1>1, <1>2, <1>3, <1>4, <1>5

LEMMA NewIsDoc ==
    ASSUME NEW p \in People, NEW email \in Emails
    PROVE  NewDoc(p, email) \in Docs
PROOF
  <1> DEFINE d == [email |-> email, role |-> RoleOf(p), isPaying |-> FALSE]
  <1>1. d \in Docs
    <2>1. email \in Values /\ RoleOf(p) \in Values /\ FALSE \in Values
          /\ RoleOf(p) \in Roles
      BY DEF Values, RoleOf, Emails, Roles
    <2>2. d = [f \in DOMAIN d |-> d[f]] /\ DOMAIN d = {"email", "role", "isPaying"}
          /\ d["email"] = email /\ d["role"] = RoleOf(p) /\ d["isPaying"] = FALSE
      OBVIOUS
    <2>3. IsDoc(d)
      BY <2>1, <2>2 DEF IsDoc, Fields
    <2> QED
      BY <2>3, DocsAre
  <1>2. With(d, "active", TRUE) \in Docs
    <2> HIDE DEF d
    <2>1. "active" \in Fields \ {"role", "teacher"} /\ TRUE \in Values
      BY DEF Fields, Values
    <2> QED
      BY <1>1, <2>1, WithIsDoc
  <1> QED
    BY <1>1, <1>2 DEF NewDoc

-----------------------------------------------------------------------------
(* What the stores hold and what a request knows *)

Accts == [state : {"new", "live", "deleted"}, claim : Roles \cup {"none"},
          email : Emails \cup {NoOne}]
Payments == [student : Students, at : Nat, until : Nat, amount : {0, 1}, voided : BOOLEAN]

StoresOK ==
    /\ users \in [People -> Docs \cup {NoDoc}]
    /\ accounts \in [People -> Accts]
    /\ tokens \in [People -> Roles \cup {"none", "no"}]
    /\ payments \subseteq Payments
    /\ today \in Nat /\ clock \in Nat
    /\ stops \in Nat
    /\ outdated \subseteq People /\ cut \subseteq People

IsRequest(r) ==
    r = [op |-> r.op, pc |-> r.pc, who |-> r.who, arg |-> r.arg, copy |-> r.copy, got |-> r.got]

Creations == {"create", "invite"}
SignIns == {"login", "refresh"}
Deletions == {"delete", "uninvite"}
Migrations == {"accounts", "roles"}
Ops == {"none", "email", "profile", "edit", "grant", "revoke", "assign", "assignment", "active", "goal"}
          \cup Creations \cup SignIns \cup Deletions \cup Migrations

\* Readings of documents, by person.
ReadingsOK(got, people) ==
    /\ got = [p \in DOMAIN got |-> got[p]]
    /\ DOMAIN got \subseteq people
    /\ \A p \in DOMAIN got : got[p] \in Docs

CreationOK(r) ==
    r.pc \in {"create", "claim", "save", "mail", "undo"} /\ r.who \in People /\ r.arg \in Addresses(r.who)
SignInOK(r) ==
    /\ r.pc \in {"sign in", "resolve", "sync", "reissue"} /\ r.who \in People
    /\ r.pc = "sync" => r.got \in Roles
EmailOK(r) ==
    /\ r.pc \in {"account", "doc", "undo"} /\ r.who \in People /\ r.arg \in Addresses(r.who)
    /\ r.got \in Emails \cup {NoOne}
EditOK(r) ==
    /\ r.pc \in {"get", "save"} /\ r.who \in People
    /\ r.arg \in Docs /\ DOMAIN r.arg \subseteq {"name", "data", "email"}
    /\ r.pc = "save" => r.copy \in Docs
DeletionOK(r) ==
    /\ r.pc \in {"get", "students", "doc", "account"} /\ r.who \in People
    /\ r.pc = "doc" /\ r.op = "uninvite" => r.got = {}
MigrationOK(r) ==
    /\ r.pc \in {"list", "next"} /\ r.who \in People \cup {NoOne}
    /\ r.pc = "list" => r.who = NoOne
    /\ r.pc = "next" => /\ ReadingsOK(r.got, People)
                        /\ r.arg \subseteq People
                        /\ r.who # NoOne => r.who \in DOMAIN r.got
GrantOK(r) ==
    /\ r.pc \in {"get", "write", "record", "undo"} /\ r.who \in Students /\ r.arg \in {0, 1}
    /\ r.pc # "get" => r.copy \in Docs /\ r.got \in Payments /\ r.got.student = r.who
                       /\ ~r.got.voided
RevokeOK(r) ==
    r.pc \in {"get", "last", "write", "find", "void"} /\ r.who \in Students
AssignOK(r) ==
    /\ r.pc \in {"get", "current", "release", "student", "save"} /\ r.who \in Teachers
    /\ r.arg \subseteq Students
    /\ r.pc = "release" => ReadingsOK(r.got, Students)
    /\ r.pc = "save" => r.got \in Students /\ r.copy \in Docs
AssignmentOK(r) ==
    /\ r.pc \in {"get", "teacher", "save"} /\ r.who \in Students
    /\ r.arg \in Teachers \cup {NoOne, NoArg}
    /\ r.pc # "get" => r.copy \in Docs
ActiveOK(r) ==
    /\ r.pc \in {"get", "save", "query", "batch"} /\ r.who \in Teachers /\ r.arg \in BOOLEAN
    /\ r.pc = "save" => r.copy \in Docs
    /\ r.pc = "batch" => r.got \subseteq Students

GoalDocs == [annual : Nat, monthly : UNION {[T -> Nat] : T \in SUBSET Months}]
GoalOK(r) ==
    /\ r.pc \in {"get", "save"} /\ r.who = NoOne
    /\ r.arg \in [year : 1 .. Years, month : {0} \cup Months, target : Nat]
    /\ r.pc = "save" => r.got \in GoalDocs

RequestOK(r) ==
    /\ IsRequest(r) /\ r.op \in Ops
    /\ r.op = "none" => r.pc = "none" /\ r.who = NoOne
    /\ r.op \in Creations => CreationOK(r)
    /\ r.op \in SignIns => SignInOK(r)
    /\ r.op = "email" => EmailOK(r)
    /\ r.op \in {"profile", "edit"} => EditOK(r)
    /\ r.op = "profile" => DOMAIN r.arg \subseteq {"name", "data"}
    /\ r.op \in Deletions => DeletionOK(r)
    /\ r.op \in Migrations => MigrationOK(r)
    /\ r.op = "grant" => GrantOK(r)
    /\ r.op = "revoke" => RevokeOK(r)
    /\ r.op = "assign" => AssignOK(r)
    /\ r.op = "assignment" => AssignmentOK(r)
    /\ r.op = "active" => ActiveOK(r)
    /\ r.op = "goal" => GoalOK(r)

RequestsOK ==
    /\ requests = [k \in Clients |-> requests[k]]
    /\ \A k \in Clients : RequestOK(requests[k])

GoalsOK == goals \in [1 .. Years -> GoalDocs] /\ asked \in [1 .. Years -> GoalDocs]

\* Everything has its type.
PeopleTypeOK == StoresOK /\ RequestsOK /\ GoalsOK

-----------------------------------------------------------------------------
(* How a request goes on *)

Only(k) ==
    /\ requests' = [i \in Clients |-> requests'[i]]
    /\ \A i \in Clients \ {k} : requests'[i] = requests[i]

SameAsk(q, r) == IsRequest(q) /\ q.op = r.op /\ q.who = r.who /\ q.arg = r.arg

LEMMA RecordIs ==
    ASSUME NEW q, NEW op, NEW pc, NEW who, NEW arg, NEW copy, NEW got,
           q = [op |-> op, pc |-> pc, who |-> who, arg |-> arg, copy |-> copy, got |-> got]
    PROVE  /\ IsRequest(q)
           /\ q.op = op /\ q.pc = pc /\ q.who = who /\ q.arg = arg /\ q.copy = copy /\ q.got = got
PROOF BY DEF IsRequest

LEMMA ProceedStep ==
    ASSUME RequestsOK, NEW k \in Clients, NEW pc, NEW got, Proceed(k, pc, got)
    PROVE  /\ Only(k) /\ SameAsk(requests'[k], requests[k])
           /\ requests'[k].pc = pc /\ requests'[k].got = got /\ requests'[k].copy = requests[k].copy
PROOF
  <1>1. IsRequest(requests[k]) /\ requests = [i \in Clients |-> requests[i]]
    BY DEF RequestsOK, RequestOK
  <1>2. requests' = [requests EXCEPT ![k].pc = pc, ![k].got = got]
    BY DEF Proceed
  <1> DEFINE r == requests[k]
             q == [op |-> r.op, pc |-> pc, who |-> r.who, arg |-> r.arg, copy |-> r.copy, got |-> got]
  <1>3. requests'[k] = q
    BY <1>1, <1>2 DEF IsRequest
  <1>4. Only(k)
    BY <1>1, <1>2 DEF Only
  <1> QED
    BY <1>3, <1>4 DEF SameAsk, IsRequest

LEMMA RememberStep ==
    ASSUME RequestsOK, NEW k \in Clients, NEW pc, NEW copy, Remember(k, pc, copy)
    PROVE  /\ Only(k) /\ SameAsk(requests'[k], requests[k])
           /\ requests'[k].pc = pc /\ requests'[k].copy = copy /\ requests'[k].got = requests[k].got
PROOF
  <1>1. IsRequest(requests[k]) /\ requests = [i \in Clients |-> requests[i]]
    BY DEF RequestsOK, RequestOK
  <1>2. requests' = [requests EXCEPT ![k].pc = pc, ![k].copy = copy]
    BY DEF Remember
  <1> DEFINE r == requests[k]
             q == [op |-> r.op, pc |-> pc, who |-> r.who, arg |-> r.arg, copy |-> copy, got |-> r.got]
  <1>3. requests'[k] = q
    BY <1>1, <1>2 DEF IsRequest
  <1>4. Only(k)
    BY <1>1, <1>2 DEF Only
  <1> QED
    BY <1>3, <1>4 DEF SameAsk, IsRequest

LEMMA IdleIs ==
    /\ IsRequest(Idle) /\ Idle.op = "none" /\ Idle.pc = "none" /\ Idle.who = NoOne
PROOF BY DEF Idle, IsRequest

LEMMA EndStep ==
    ASSUME RequestsOK, NEW k \in Clients, End(k)
    PROVE  Only(k) /\ requests'[k] = Idle
PROOF BY DEF RequestsOK, End, Only

\* A request begins as what was asked.
LEMMA RequestIs ==
    ASSUME NEW op, NEW pc, NEW who, NEW arg
    PROVE  LET r == Request(op, pc, who, arg) IN
           IsRequest(r) /\ r.op = op /\ r.pc = pc /\ r.who = who /\ r.arg = arg
           /\ r.copy = NoDoc /\ r.got = NoArg
PROOF
  <1> DEFINE a == [Idle EXCEPT !.op = op]
             b == [a EXCEPT !.pc = pc]
             c == [b EXCEPT !.who = who]
  <1>1. a = [op |-> op, pc |-> "none", who |-> NoOne, arg |-> NoArg, copy |-> NoDoc, got |-> NoArg]
    BY DEF Idle
  <1> HIDE DEF a
  <1>2. b = [op |-> op, pc |-> pc, who |-> NoOne, arg |-> NoArg, copy |-> NoDoc, got |-> NoArg]
    BY <1>1
  <1> HIDE DEF b
  <1>3. c = [op |-> op, pc |-> pc, who |-> who, arg |-> NoArg, copy |-> NoDoc, got |-> NoArg]
    BY <1>2
  <1>4. Request(op, pc, who, arg) = [c EXCEPT !.arg = arg]
    BY DEF Request, a, b
  <1>5. Request(op, pc, who, arg) =
          [op |-> op, pc |-> pc, who |-> who, arg |-> arg, copy |-> NoDoc, got |-> NoArg]
    BY <1>3, <1>4
  <1> QED
    BY <1>5 DEF IsRequest

LEMMA BeginStep ==
    ASSUME RequestsOK, NEW k \in Clients, NEW r, Begin(k, r)
    PROVE  Only(k) /\ requests'[k] = r /\ requests[k] = Idle
PROOF BY DEF RequestsOK, Begin, Only

\* A request that is what its operation may be leaves all of them so.
LEMMA RequestsStay ==
    ASSUME RequestsOK, NEW k \in Clients, Only(k), RequestOK(requests'[k])
    PROVE  RequestsOK'
PROOF BY DEF RequestsOK, Only

\* What a request of an operation knows decides whether it may be.
LEMMA CreationKnows ==
    ASSUME NEW r, IsRequest(r), r.op \in Creations
    PROVE  RequestOK(r) <=> CreationOK(r)
PROOF BY DEF RequestOK, Ops, Creations, SignIns, Deletions, Migrations

LEMMA SignInKnows ==
    ASSUME NEW r, IsRequest(r), r.op \in SignIns
    PROVE  RequestOK(r) <=> SignInOK(r)
PROOF BY DEF RequestOK, Ops, Creations, SignIns, Deletions, Migrations

LEMMA EmailKnows ==
    ASSUME NEW r, IsRequest(r), r.op = "email"
    PROVE  RequestOK(r) <=> EmailOK(r)
PROOF BY DEF RequestOK, Ops, Creations, SignIns, Deletions, Migrations

LEMMA EditKnows ==
    ASSUME NEW r, IsRequest(r), r.op \in {"profile", "edit"}
    PROVE  RequestOK(r) <=> EditOK(r) /\ (r.op = "profile" => DOMAIN r.arg \subseteq {"name", "data"})
PROOF BY DEF RequestOK, Ops, Creations, SignIns, Deletions, Migrations

LEMMA DeletionKnows ==
    ASSUME NEW r, IsRequest(r), r.op \in Deletions
    PROVE  RequestOK(r) <=> DeletionOK(r)
PROOF BY DEF RequestOK, Ops, Creations, SignIns, Deletions, Migrations

LEMMA MigrationKnows ==
    ASSUME NEW r, IsRequest(r), r.op \in Migrations
    PROVE  RequestOK(r) <=> MigrationOK(r)
PROOF BY DEF RequestOK, Ops, Creations, SignIns, Deletions, Migrations

LEMMA PeopleKnow ==
    ASSUME NEW r, IsRequest(r)
    PROVE  /\ r.op = "grant" => (RequestOK(r) <=> GrantOK(r))
           /\ r.op = "revoke" => (RequestOK(r) <=> RevokeOK(r))
           /\ r.op = "assign" => (RequestOK(r) <=> AssignOK(r))
           /\ r.op = "assignment" => (RequestOK(r) <=> AssignmentOK(r))
           /\ r.op = "active" => (RequestOK(r) <=> ActiveOK(r))
           /\ r.op = "goal" => (RequestOK(r) <=> GoalOK(r))
PROOF BY DEF RequestOK, Ops, Creations, SignIns, Deletions, Migrations

LEMMA IdleOK ==
    RequestOK(Idle)
PROOF BY IdleIs DEF RequestOK, Ops, Creations, SignIns, Deletions, Migrations

\* Where a handler is told by the await alone, so is the operation.
LEMMA AwaitTells ==
    ASSUME NEW r, RequestOK(r)
    PROVE  /\ r.pc \in {"create", "claim"} => r.op \in Creations
           /\ r.pc \in {"sign in", "resolve", "sync", "reissue"} => r.op \in SignIns
           /\ r.pc \in {"list", "next"} => r.op \in Migrations
PROOF
  <1>1. r.op \in Ops
    BY DEF RequestOK
  <1>2. CASE r.op \in Creations
    BY <1>2, CreationKnows DEF RequestOK, CreationOK
  <1>3. CASE r.op \in SignIns
    BY <1>3, SignInKnows DEF RequestOK, SignInOK
  <1>4. CASE r.op \in Deletions
    BY <1>4, DeletionKnows DEF RequestOK, DeletionOK
  <1>5. CASE r.op \in Migrations
    BY <1>5, MigrationKnows DEF RequestOK, MigrationOK
  <1>6. CASE r.op \in {"profile", "edit"}
    BY <1>6, EditKnows DEF RequestOK, EditOK
  <1>7. CASE r.op = "email"
    BY <1>7, EmailKnows DEF RequestOK, EmailOK
  <1>8. CASE r.op \in {"grant", "revoke", "assign", "assignment", "active", "goal"}
    BY <1>8, PeopleKnow DEF RequestOK, GrantOK, RevokeOK, AssignOK, AssignmentOK, ActiveOK, GoalOK
  <1>9. CASE r.op = "none"
    BY <1>9 DEF RequestOK
  <1> QED
    BY <1>1, <1>2, <1>3, <1>4, <1>5, <1>6, <1>7, <1>8, <1>9 DEF Ops

-----------------------------------------------------------------------------
(* Each step leaves everything of its type: the requests of accounts *)

\* What a step of a handler shows: the request that goes on, and the stores.
TypeStep(k) == Only(k) /\ RequestOK(requests'[k]) /\ StoresOK'

\* The stores that stay are of their type.
OthersStay == UNCHANGED <<accounts, users, tokens, payments, today, clock, stops, outdated, cut>>

LEMMA AccountStays ==
    ASSUME accounts \in [People -> Accts], NEW p \in People, NEW a \in Accts,
           accounts' = [accounts EXCEPT ![p] = a]
    PROVE  accounts' \in [People -> Accts]
OBVIOUS

LEMMA ResolvedIsRole ==
    ASSUME NEW d \in Docs \cup {NoDoc}
    PROVE  ResolveUserRole(d) \in Roles
PROOF
  <1>1. CASE Has(d, "role")
    <2>1. IsDoc(d) /\ "role" \in DOMAIN d
      BY <1>1, DocsAre DEF Has
    <2> QED
      BY <1>1, <2>1 DEF ResolveUserRole, IsDoc
  <1> QED
    BY <1>1 DEF ResolveUserRole, Roles

LEMMA CreateTypes ==
    ASSUME PeopleTypeOK, NEW k \in Clients,
           CreateAccount(k) \/ CreateClaims(k) \/ CreateSaves(k) \/ InviteMails(k) \/ CreateUndoes(k),
           UNCHANGED paid
    PROVE  TypeStep(k)
PROOF
  <1> DEFINE r == requests[k]
             p == r.who
  <1>0. StoresOK /\ RequestsOK /\ RequestOK(r) /\ IsRequest(r)
    BY DEF PeopleTypeOK, RequestsOK, RequestOK
  <1>a. r.op \in Creations
    BY <1>0, AwaitTells DEF CreateAccount, CreateClaims, CreateSaves, InviteMails, CreateUndoes, At, Creations
  <1>b. CreationOK(r)
    BY <1>0, <1>a, CreationKnows
  <1>c. p \in People /\ r.arg \in Emails
    BY <1>b DEF CreationOK, Addresses, Emails
  <1>d. ASSUME NEW pc \in {"claim", "save", "mail", "undo"}, Proceed(k, pc, NoArg)
        PROVE  Only(k) /\ RequestOK(requests'[k])
    <2>1. Only(k) /\ SameAsk(requests'[k], r) /\ requests'[k].pc = pc
      BY <1>0, <1>d, ProceedStep
    <2>2. CreationOK(requests'[k])
      BY <1>b, <2>1 DEF CreationOK, SameAsk
    <2> QED
      BY <1>a, <2>1, <2>2, CreationKnows DEF SameAsk
  <1>e. ASSUME End(k) PROVE Only(k) /\ RequestOK(requests'[k])
    BY <1>0, <1>e, EndStep, IdleOK
  <1>f. UNCHANGED <<payments, today, clock>>
    BY DEF paid
  <1>1. CASE CreateAccount(k)
    <2>1. Only(k) /\ RequestOK(requests'[k])
      BY <1>1, <1>d, <1>e DEF CreateAccount
    <2>2. Account("live", "none", r.arg) \in Accts
      BY <1>c DEF Account, Accts
    <2>3. accounts' \in [People -> Accts]
      BY <1>0, <1>1, <1>c, <2>2, AccountStays DEF CreateAccount, StoresOK
    <2> QED
      BY <1>0, <1>1, <1>f, <2>1, <2>3 DEF CreateAccount, TypeStep, StoresOK, signedIn, control
  <1>2. CASE CreateClaims(k)
    <2>1. Only(k) /\ RequestOK(requests'[k])
      BY <1>2, <1>d, <1>e DEF CreateClaims
    <2>2. accounts' \in [People -> Accts]
      BY <1>0, <1>2, <1>c DEF CreateClaims, StoresOK, Accts, ClaimGiven, RoleOf, Roles
    <2>3. outdated' \subseteq People /\ cut' \subseteq People /\ stops' \in Nat
      BY <1>0, <1>2, <1>c DEF CreateClaims, StoresOK, Mark, Fails
    <2> QED
      BY <1>0, <1>2, <1>f, <2>1, <2>2, <2>3 DEF CreateClaims, TypeStep, StoresOK, signedIn
  <1>3. CASE CreateSaves(k)
    <2>1. Only(k) /\ RequestOK(requests'[k])
      BY <1>3, <1>d, <1>e DEF CreateSaves
    <2>2. NewDoc(p, r.arg) \in Docs
      BY <1>c, NewIsDoc
    <2>3. With(NewDoc(p, r.arg), "name", TRUE) \in Docs
      <3>1. "name" \in Fields \ {"role", "teacher"} /\ TRUE \in Values
        BY DEF Fields, Values
      <3> QED
        BY <2>2, <3>1, WithIsDoc
    <2>4. users' \in [People -> Docs \cup {NoDoc}] /\ stops' \in Nat
      <3> DEFINE doc == NewDoc(p, r.arg)
                 d == IF r.op = "create" THEN With(doc, "name", TRUE) ELSE doc
      <3>1. d \in Docs
        BY <2>2, <2>3
      <3>2. users' = users \/ users' = [users EXCEPT ![p] = d]
        BY <1>3 DEF CreateSaves
      <3>4. stops' = stops \/ Fails
        BY <1>3 DEF CreateSaves
      <3>3. users \in [People -> Docs \cup {NoDoc}] /\ stops' \in Nat
        BY <1>0, <3>4 DEF StoresOK, Fails
      <3> HIDE DEF d
      <3> QED
        BY <1>c, <3>1, <3>2, <3>3
    <2> QED
      BY <1>0, <1>3, <1>f, <2>1, <2>4 DEF CreateSaves, TypeStep, StoresOK, signedIn
  <1>4. CASE InviteMails(k)
    <2>1. Only(k) /\ RequestOK(requests'[k])
      BY <1>4, <1>d, <1>e DEF InviteMails
    <2>2. cut' \subseteq People /\ stops' \in Nat
      BY <1>0, <1>4, <1>c DEF InviteMails, StoresOK, Fails
    <2> QED
      BY <1>0, <1>4, <1>f, <2>1, <2>2 DEF InviteMails, TypeStep, StoresOK, signedIn
  <1>5. CASE CreateUndoes(k)
    <2>1. Only(k) /\ RequestOK(requests'[k])
      BY <1>5, <1>e DEF CreateUndoes
    <2>2. accounts' \in [People -> Accts]
      BY <1>0, <1>5, <1>c DEF CreateUndoes, StoresOK, Accts, Account
    <2> QED
      BY <1>0, <1>5, <1>f, <2>1, <2>2 DEF CreateUndoes, TypeStep, StoresOK, signedIn, control
  <1> QED
    BY <1>1, <1>2, <1>3, <1>4, <1>5

LEMMA SignInTypes ==
    ASSUME PeopleTypeOK, NEW k \in Clients,
           SignIn(k) \/ LoginResolves(k) \/ LoginClaims(k) \/ LoginReissues(k),
           UNCHANGED paid
    PROVE  TypeStep(k)
PROOF
  <1> DEFINE r == requests[k]
             p == r.who
  <1>0. StoresOK /\ RequestsOK /\ RequestOK(r) /\ IsRequest(r)
    BY DEF PeopleTypeOK, RequestsOK, RequestOK
  <1>a. r.op \in SignIns
    BY <1>0, AwaitTells DEF SignIn, LoginResolves, LoginClaims, LoginReissues
  <1>b. SignInOK(r)
    BY <1>0, <1>a, SignInKnows
  <1>c. p \in People /\ accounts[p] \in Accts /\ users[p] \in Docs \cup {NoDoc}
    BY <1>0, <1>b DEF SignInOK, StoresOK
  <1>d. ASSUME NEW pc \in {"resolve", "sync", "reissue"}, NEW got, pc = "sync" => got \in Roles,
               Proceed(k, pc, got)
        PROVE  Only(k) /\ RequestOK(requests'[k])
    <2>1. Only(k) /\ SameAsk(requests'[k], r) /\ requests'[k].pc = pc /\ requests'[k].got = got
      BY <1>0, <1>d, ProceedStep
    <2>2. SignInOK(requests'[k])
      BY <1>b, <1>d, <2>1 DEF SignInOK, SameAsk
    <2> QED
      BY <1>a, <2>1, <2>2, SignInKnows DEF SameAsk
  <1>e. ASSUME End(k) PROVE Only(k) /\ RequestOK(requests'[k])
    BY <1>0, <1>e, EndStep, IdleOK
  <1>f. UNCHANGED <<payments, today, clock>>
    BY DEF paid
  <1>g. tokens \in [People -> Roles \cup {"none", "no"}] /\ accounts[p].claim \in Roles \cup {"none"}
    BY <1>0, <1>c DEF StoresOK, Accts
  <1>1. CASE SignIn(k)
    <2>1. Only(k) /\ RequestOK(requests'[k])
      BY <1>1, <1>d, <1>e DEF SignIn
    <2>2. tokens' \in [People -> Roles \cup {"none", "no"}]
      BY <1>1, <1>c, <1>g DEF SignIn, Delivered
    <2> QED
      BY <1>0, <1>1, <1>f, <2>1, <2>2 DEF SignIn, TypeStep, StoresOK, control
  <1>2. CASE LoginResolves(k)
    <2>1. Only(k) /\ RequestOK(requests'[k])
      BY <1>2, <1>c, <1>d, ResolvedIsRole DEF LoginResolves
    <2> QED
      BY <1>0, <1>2, <1>f, <2>1 DEF LoginResolves, OnlyRequests, TypeStep, StoresOK, signedIn, control
  <1>3. CASE LoginClaims(k)
    <2>1. Only(k) /\ RequestOK(requests'[k])
      BY <1>3, <1>d, <1>e DEF LoginClaims
    <2>2. r.got \in Roles
      BY <1>b, <1>3 DEF SignInOK, LoginClaims
    <2>3. accounts' \in [People -> Accts]
      BY <1>0, <1>3, <1>c, <2>2 DEF LoginClaims, StoresOK, Accts
    <2>4. outdated' \subseteq People
      BY <1>0, <1>3, <1>c DEF LoginClaims, Mark, StoresOK
    <2> QED
      BY <1>0, <1>3, <1>f, <2>1, <2>3, <2>4 DEF LoginClaims, TypeStep, StoresOK, signedIn
  <1>4. CASE LoginReissues(k)
    <2>1. Only(k) /\ RequestOK(requests'[k])
      BY <1>4, <1>e DEF LoginReissues
    <2>2. tokens' \in [People -> Roles \cup {"none", "no"}]
      BY <1>4, <1>c, <1>g DEF LoginReissues, Delivered
    <2> QED
      BY <1>0, <1>4, <1>f, <2>1, <2>2 DEF LoginReissues, TypeStep, StoresOK, control
  <1> QED
    BY <1>1, <1>2, <1>3, <1>4

LEMMA EmailTypes ==
    ASSUME PeopleTypeOK, NEW k \in Clients,
           EmailChangesAccount(k) \/ EmailChangesDocument(k) \/ EmailUndoes(k),
           UNCHANGED paid
    PROVE  TypeStep(k)
PROOF
  <1> DEFINE r == requests[k]
             p == r.who
  <1>0. StoresOK /\ RequestsOK /\ RequestOK(r) /\ IsRequest(r)
    BY DEF PeopleTypeOK, RequestsOK, RequestOK
  <1>a. r.op = "email"
    BY DEF EmailChangesAccount, EmailChangesDocument, EmailUndoes, At
  <1>b. EmailOK(r)
    BY <1>0, <1>a, EmailKnows
  <1>c. p \in People /\ r.arg \in Emails /\ accounts[p] \in Accts
    BY <1>0, <1>b DEF EmailOK, Addresses, Emails, StoresOK
  <1>d. ASSUME NEW pc \in {"doc", "undo"}, Proceed(k, pc, r.got)
        PROVE  Only(k) /\ RequestOK(requests'[k])
    <2>1. Only(k) /\ SameAsk(requests'[k], r) /\ requests'[k].pc = pc /\ requests'[k].got = r.got
      BY <1>0, <1>d, ProceedStep
    <2>2. EmailOK(requests'[k])
      BY <1>b, <1>d, <2>1 DEF EmailOK, SameAsk
    <2> QED
      BY <1>a, <2>1, <2>2, EmailKnows DEF SameAsk
  <1>e. ASSUME End(k) PROVE Only(k) /\ RequestOK(requests'[k])
    BY <1>0, <1>e, EndStep, IdleOK
  <1>f. UNCHANGED <<payments, today, clock>>
    BY DEF paid
  <1>1. CASE EmailChangesAccount(k)
    <2>1. Only(k) /\ RequestOK(requests'[k])
      BY <1>1, <1>d, <1>e DEF EmailChangesAccount
    <2>2. accounts' \in [People -> Accts]
      BY <1>0, <1>1, <1>c DEF EmailChangesAccount, StoresOK, Accts
    <2> QED
      BY <1>0, <1>1, <1>f, <2>1, <2>2 DEF EmailChangesAccount, TypeStep, StoresOK, signedIn, control
  <1>2. CASE EmailChangesDocument(k)
    <2>1. Only(k) /\ RequestOK(requests'[k])
      BY <1>2, <1>d, <1>e DEF EmailChangesDocument
    <2> DEFINE d == Merge(users[p], [email |-> r.arg])
    <2>2. d \in Docs
      BY <1>0, <1>c, PatchIsDoc, MergeIsDoc DEF StoresOK
    <2>3. users' = users \/ users' = [users EXCEPT ![p] = d]
      BY <1>2 DEF EmailChangesDocument
    <2>4. users' \in [People -> Docs \cup {NoDoc}]
      <3> HIDE DEF d
      <3> QED
        BY <1>0, <1>c, <2>2, <2>3 DEF StoresOK
    <2>5. stops' = stops \/ Fails
      BY <1>2 DEF EmailChangesDocument
    <2>6. outdated' \subseteq People
      BY <1>0, <1>2, <1>c DEF EmailChangesDocument, Mark, StoresOK
    <2> QED
      BY <1>0, <1>2, <1>f, <2>1, <2>4, <2>5, <2>6
      DEF EmailChangesDocument, TypeStep, StoresOK, signedIn, Fails
  <1>3. CASE EmailUndoes(k)
    <2>1. Only(k) /\ RequestOK(requests'[k])
      BY <1>3, <1>e DEF EmailUndoes
    <2>2. r.got \in Emails \cup {NoOne}
      BY <1>b DEF EmailOK
    <2>3. accounts' \in [People -> Accts]
      BY <1>0, <1>3, <1>c, <2>2 DEF EmailUndoes, EmailRestored, StoresOK, Accts
    <2>4. outdated' \subseteq People /\ cut' \subseteq People
      BY <1>0, <1>3, <1>c DEF EmailUndoes, Mark, StoresOK
    <2> QED
      BY <1>0, <1>3, <1>f, <2>1, <2>3, <2>4 DEF EmailUndoes, TypeStep, StoresOK, signedIn
  <1> QED
    BY <1>1, <1>2, <1>3

\* Most handlers begin with the document, or end without one.
LEMMA GetStep ==
    ASSUME PeopleTypeOK, NEW k \in Clients, NEW op, NEW next, GetOrThrow(k, op, next)
    PROVE  /\ At(k, op, "get") /\ Only(k) /\ OnlyRequests
           /\ \/ requests'[k] = Idle
              \/ /\ SameAsk(requests'[k], requests[k]) /\ requests'[k].pc = next
                 /\ requests'[k].copy = users[requests[k].who] /\ requests'[k].copy # NoDoc
                 /\ requests'[k].got = requests[k].got
PROOF
  <1>0. RequestsOK
    BY DEF PeopleTypeOK
  <1> DEFINE doc == users[requests[k].who]
  <1>1. At(k, op, "get") /\ OnlyRequests
        /\ IF doc = NoDoc THEN End(k) ELSE Remember(k, next, doc)
    BY DEF GetOrThrow
  <1>2. CASE End(k)
    BY <1>0, <1>1, <1>2, EndStep
  <1>3. CASE doc # NoDoc /\ Remember(k, next, doc)
    BY <1>0, <1>1, <1>3, RememberStep
  <1> QED
    BY <1>1, <1>2, <1>3

LEMMA NowIsDate ==
    ASSUME StoresOK, NEW p \in People
    PROVE  Now(p) \in Nat
PROOF
  <1>1. CASE Has(users[p], "onboarded")
    <2>1. users[p] \in Docs /\ "onboarded" \in DOMAIN users[p]
      BY <1>1 DEF Has, StoresOK
    <2>2. users[p]["onboarded"] \in Nat
      BY <2>1, DocsAre DEF IsDoc
    <2> QED
      BY <1>1, <2>2 DEF Now
  <1>2. CASE ~Has(users[p], "onboarded")
    BY <1>2 DEF Now
  <1> QED
    BY <1>1, <1>2

LEMMA EditTypes ==
    ASSUME PeopleTypeOK, NEW k \in Clients,
           UpdateOwnProfileReads(k) \/ UpdateOwnProfileSaves(k) \/ UpdateUserReads(k) \/ UpdateUserSaves(k),
           UNCHANGED paid
    PROVE  TypeStep(k)
PROOF
  <1> DEFINE r == requests[k]
             p == r.who
  <1>0. StoresOK /\ RequestsOK /\ RequestOK(r) /\ IsRequest(r)
    BY DEF PeopleTypeOK, RequestsOK, RequestOK
  <1>a. r.op \in {"profile", "edit"}
    BY DEF UpdateOwnProfileReads, GetOrThrow, UpdateOwnProfileSaves, UpdateUserReads, UpdateUserSaves, At
  <1>b. EditOK(r) /\ (r.op = "profile" => DOMAIN r.arg \subseteq {"name", "data"})
    BY <1>0, <1>a, EditKnows
  <1>c. p \in People /\ users[p] \in Docs \cup {NoDoc}
    BY <1>0, <1>b DEF EditOK, StoresOK
  <1>d. ASSUME Only(k), SameAsk(requests'[k], r), requests'[k].pc = "save",
               requests'[k].copy = users[p], users[p] # NoDoc
        PROVE  RequestOK(requests'[k])
    <2>1. EditOK(requests'[k])
      BY <1>b, <1>c, <1>d DEF EditOK, SameAsk
    <2> QED
      BY <1>a, <1>b, <1>d, <2>1, EditKnows DEF SameAsk
  <1>e. ASSUME End(k) PROVE Only(k) /\ RequestOK(requests'[k])
    BY <1>0, <1>e, EndStep, IdleOK
  <1>f. UNCHANGED <<payments, today, clock>>
    BY DEF paid
  <1>1. CASE UpdateOwnProfileReads(k)
    <2>1. Only(k) /\ RequestOK(requests'[k])
      BY <1>1, <1>d, GetStep, IdleOK DEF UpdateOwnProfileReads
    <2> QED
      BY <1>0, <1>1, <1>f, <2>1
      DEF UpdateOwnProfileReads, GetOrThrow, OnlyRequests, TypeStep, StoresOK, signedIn, control
  <1>2. CASE UpdateOwnProfileSaves(k)
    <2>1. Only(k) /\ RequestOK(requests'[k])
      BY <1>2, <1>e DEF UpdateOwnProfileSaves
    <2>2. r.copy \in Docs /\ r.arg \in Docs /\ Now(p) \in Nat
      BY <1>0, <1>2, <1>b, <1>c, NowIsDate DEF EditOK, UpdateOwnProfileSaves, At
    <2> DEFINE d == Merge(users[p], Dated(Merge(r.copy, r.arg), Now(p)))
    <2>3. d \in Docs
      BY <1>c, <2>2, DatedIsDoc, MergeIsDoc
    <2>4. users' = [users EXCEPT ![p] = d]
      BY <1>2 DEF UpdateOwnProfileSaves, WriteCopy
    <2>5. users' \in [People -> Docs \cup {NoDoc}]
      <3> HIDE DEF d
      <3> QED
        BY <1>0, <1>c, <2>3, <2>4 DEF StoresOK
    <2>6. outdated' \subseteq People
      BY <1>0, <1>2, <1>c DEF UpdateOwnProfileSaves, WriteCopy, Mark, StoresOK
    <2> QED
      BY <1>0, <1>2, <1>f, <2>1, <2>5, <2>6 DEF UpdateOwnProfileSaves, TypeStep, StoresOK, signedIn
  <1>3. CASE UpdateUserReads(k)
    <2> DEFINE q == [op |-> r.op, pc |-> "save", who |-> r.who, arg |-> r.arg,
                     copy |-> users[p], got |-> NoArg]
    <2>1. requests' = [requests EXCEPT ![k] = Idle]
          \/ (requests' = [requests EXCEPT ![k] =
                [r EXCEPT !.pc = "save", !.copy = users[p], !.got = NoArg]] /\ users[p] # NoDoc)
      BY <1>3 DEF UpdateUserReads
    <2>2. ASSUME requests' = [requests EXCEPT ![k] = Idle]
          PROVE  Only(k) /\ RequestOK(requests'[k])
      <3>1. End(k)
        BY <2>2 DEF End
      <3> QED
        BY <1>e, <3>1
    <2>3. ASSUME requests' = [requests EXCEPT ![k] =
                   [r EXCEPT !.pc = "save", !.copy = users[p], !.got = NoArg]] /\ users[p] # NoDoc
          PROVE  Only(k) /\ RequestOK(requests'[k])
      <3>1. requests = [i \in Clients |-> requests[i]]
        BY <1>0 DEF RequestsOK
      <3>2. requests'[k] = q /\ Only(k)
        BY <1>0, <2>3, <3>1 DEF IsRequest, Only
      <3>3. SameAsk(requests'[k], r) /\ requests'[k].pc = "save" /\ requests'[k].copy = users[p]
        BY <3>2 DEF SameAsk, IsRequest
      <3>4. Only(k) /\ users[p] # NoDoc
        BY <2>3, <3>2
      <3>5. RequestOK(requests'[k])
        BY <1>d, <3>3, <3>4
      <3> QED
        BY <3>4, <3>5
    <2>4. Only(k) /\ RequestOK(requests'[k])
      <3> HIDE DEF r
      <3> QED
        BY <2>1, <2>2, <2>3
    <2> QED
      BY <1>0, <1>3, <1>f, <2>4 DEF UpdateUserReads, OnlyRequests, TypeStep, StoresOK, signedIn, control
  <1>4. CASE UpdateUserSaves(k)
    <2>1. Only(k) /\ RequestOK(requests'[k])
      BY <1>4, <1>e DEF UpdateUserSaves
    <2>2. r.copy \in Docs /\ r.arg \in Docs
      BY <1>4, <1>b DEF EditOK, UpdateUserSaves, At
    <2> DEFINE d == Merge(users[p], Merge(r.copy, r.arg))
    <2>3. d \in Docs
      BY <1>c, <2>2, MergeIsDoc
    <2>4. users' = [users EXCEPT ![p] = d]
      BY <1>4 DEF UpdateUserSaves
    <2>5. users' \in [People -> Docs \cup {NoDoc}]
      <3> HIDE DEF d
      <3> QED
        BY <1>0, <1>c, <2>3, <2>4 DEF StoresOK
    <2>6. outdated' \subseteq People
      BY <1>0, <1>4, <1>c DEF UpdateUserSaves, Mark, StoresOK
    <2> QED
      BY <1>0, <1>4, <1>f, <2>1, <2>5, <2>6 DEF UpdateUserSaves, TypeStep, StoresOK, signedIn
  <1> QED
    BY <1>1, <1>2, <1>3, <1>4

LEMMA DeletionTypes ==
    ASSUME PeopleTypeOK, NEW k \in Clients,
           DeleteInviteReads(k) \/ DeleteInviteReadsStudents(k) \/ DeleteDoc(k) \/ DeleteAccount(k),
           UNCHANGED paid
    PROVE  TypeStep(k)
PROOF
  <1> DEFINE r == requests[k]
             p == r.who
  <1>0. StoresOK /\ RequestsOK /\ RequestOK(r) /\ IsRequest(r)
    BY DEF PeopleTypeOK, RequestsOK, RequestOK
  <1>a. r.op \in Deletions
    BY DEF DeleteInviteReads, DeleteInviteReadsStudents, DeleteDoc, DeleteAccount, At, Deletions
  <1>b. DeletionOK(r)
    BY <1>0, <1>a, DeletionKnows
  <1>c. p \in People
    BY <1>b DEF DeletionOK
  <1>d. ASSUME NEW pc \in {"students", "doc", "account"}, NEW got, pc = "doc" => got = {},
               Proceed(k, pc, got)
        PROVE  Only(k) /\ RequestOK(requests'[k])
    <2>1. Only(k) /\ SameAsk(requests'[k], r) /\ requests'[k].pc = pc /\ requests'[k].got = got
      BY <1>0, <1>d, ProceedStep
    <2>2. DeletionOK(requests'[k])
      BY <1>b, <1>d, <2>1 DEF DeletionOK, SameAsk
    <2> QED
      BY <1>a, <2>1, <2>2, DeletionKnows DEF SameAsk
  <1>e. ASSUME End(k) PROVE Only(k) /\ RequestOK(requests'[k])
    BY <1>0, <1>e, EndStep, IdleOK
  <1>f. UNCHANGED <<payments, today, clock>>
    BY DEF paid
  <1>1. CASE DeleteInviteReads(k)
    <2>1. Only(k) /\ RequestOK(requests'[k])
      BY <1>1, <1>d, <1>e DEF DeleteInviteReads
    <2> QED
      BY <1>0, <1>1, <1>f, <2>1 DEF DeleteInviteReads, OnlyRequests, TypeStep, StoresOK, signedIn, control
  <1>2. CASE DeleteInviteReadsStudents(k)
    <2>1. Only(k) /\ RequestOK(requests'[k])
      BY <1>2, <1>d, <1>e DEF DeleteInviteReadsStudents, Deletable
    <2> QED
      BY <1>0, <1>2, <1>f, <2>1
      DEF DeleteInviteReadsStudents, OnlyRequests, TypeStep, StoresOK, signedIn, control
  <1>3. CASE DeleteDoc(k)
    <2>1. Only(k) /\ RequestOK(requests'[k])
      BY <1>3, <1>d DEF DeleteDoc
    <2>2. users' \in [People -> Docs \cup {NoDoc}]
      BY <1>0, <1>3, <1>c DEF DeleteDoc, StoresOK
    <2>3. outdated' \subseteq People
      BY <1>0, <1>3 DEF DeleteDoc, Mark, StoresOK, StudentsOf, People
    <2> QED
      BY <1>0, <1>3, <1>f, <2>1, <2>2, <2>3 DEF DeleteDoc, TypeStep, StoresOK, signedIn
  <1>4. CASE DeleteAccount(k)
    <2>1. Only(k) /\ RequestOK(requests'[k])
      BY <1>4, <1>e DEF DeleteAccount
    <2>2. accounts' \in [People -> Accts]
      BY <1>0, <1>4, <1>c DEF DeleteAccount, AccountDeleted, Account, StoresOK, Accts
    <2> QED
      BY <1>0, <1>4, <1>f, <2>1, <2>2 DEF DeleteAccount, TypeStep, StoresOK, signedIn, control
  <1> QED
    BY <1>1, <1>2, <1>3, <1>4

LEMMA LeftIsReadings ==
    ASSUME NEW todo, NEW people, NEW p, ReadingsOK(todo, people)
    PROVE  /\ ReadingsOK([q \in DOMAIN todo \ {p} |-> todo[q]], people)
           /\ DOMAIN [q \in DOMAIN todo \ {p} |-> todo[q]] = DOMAIN todo \ {p}
PROOF
  <1> DEFINE left == [q \in DOMAIN todo \ {p} |-> todo[q]]
  <1>1. DOMAIN left = DOMAIN todo \ {p} /\ \A q \in DOMAIN left : left[q] = todo[q]
    OBVIOUS
  <1>2. left = [q \in DOMAIN left |-> left[q]]
    OBVIOUS
  <1> HIDE DEF left
  <1>3. ReadingsOK(left, people)
    BY <1>1, <1>2 DEF ReadingsOK
  <1> QED
    BY <1>1, <1>3 DEF left

\* What is read of all that have a document.
LEMMA ReadingsAre ==
    ASSUME StoresOK, NEW people, people \subseteq People, \A p \in people : users[p] # NoDoc
    PROVE  ReadingsOK([p \in people |-> users[p]], people)
PROOF
  <1> DEFINE got == [p \in people |-> users[p]]
  <1>1. \A p \in people : users[p] \in Docs
    BY DEF StoresOK
  <1>2. DOMAIN got = people /\ \A p \in people : got[p] = users[p]
    OBVIOUS
  <1>3. got = [p \in DOMAIN got |-> got[p]]
    OBVIOUS
  <1> HIDE DEF got
  <1>4. ReadingsOK(got, people)
    BY <1>1, <1>2, <1>3 DEF ReadingsOK
  <1> QED
    BY <1>4 DEF got

\* The steps of a migration over the requests.
MigrationStep(k) ==
    LET r == requests[k]  q == requests'[k] IN
    /\ Only(k) /\ r.op \in Migrations
    /\ \/ q = Idle
       \/ /\ IsRequest(q) /\ q.op = r.op /\ q.pc = "next"
          /\ \/ /\ r.pc = "list" /\ q.who = NoOne
                /\ q.got = [p \in {x \in People : users[x] # NoDoc} |-> users[p]]
                /\ q.arg = {p \in DOMAIN q.got : ~Has(q.got[p], "role")}
             \/ /\ r.pc = "next" /\ q.arg = r.arg
                /\ \/ r.who = NoOne /\ q.who \in DOMAIN r.got /\ q.got = r.got
                   \/ q.who = NoOne /\ \E p \in People : q.got = Left(k, p)

LEMMA MigrationMoves ==
    ASSUME PeopleTypeOK, NEW k \in Clients,
           \/ MigrateLists(k) \/ MigrateClaims(k) \/ MigrateEnds(k)
           \/ \E p \in People : MigrateCreates(k, p) \/ SyncRoleReads(k, p)
    PROVE  MigrationStep(k) /\ RequestOK(requests'[k])
PROOF
  <1> DEFINE r == requests[k]
             q == requests'[k]
  <1>0. StoresOK /\ RequestsOK /\ RequestOK(r) /\ IsRequest(r)
        /\ requests = [i \in Clients |-> requests[i]]
    BY DEF PeopleTypeOK, RequestsOK, RequestOK
  <1>a. r.op \in Migrations
    BY <1>0, AwaitTells DEF MigrateLists, MigrateClaims, MigrateEnds, MigrateCreates, SyncRoleReads, Iterating
  <1>b. MigrationOK(r)
    BY <1>0, <1>a, MigrationKnows
  <1>c. ASSUME r.pc = "next", NEW p \in People, IsRequest(q), q.op = r.op, q.pc = "next", q.arg = r.arg,
               q.who = NoOne, q.got = Left(k, p)
        PROVE  RequestOK(q)
    <2>1. ReadingsOK(q.got, People)
      <3>1. ReadingsOK(r.got, People)
        BY <1>b, <1>c DEF MigrationOK
      <3>2. Left(k, p) = [x \in DOMAIN r.got \ {p} |-> r.got[x]]
        BY DEF Left
      <3> QED
        BY <1>c, <3>1, <3>2, LeftIsReadings
    <2>2. MigrationOK(q)
      BY <1>b, <1>c, <2>1 DEF MigrationOK
    <2> QED
      BY <1>a, <1>c, <2>2, MigrationKnows
  <1>d. ASSUME r.pc = "next", NEW p \in People, Proceed(k, "next", Left(k, p)), r.who = NoOne
        PROVE  MigrationStep(k) /\ RequestOK(q)
    <2>1. Only(k) /\ SameAsk(q, r) /\ q.pc = "next" /\ q.got = Left(k, p)
      BY <1>0, <1>d, ProceedStep
    <2> QED
      BY <1>a, <1>c, <1>d, <2>1 DEF SameAsk, MigrationStep
  <1>e. ASSUME r.pc = "next", r.who = NoOne, NEW p \in DOMAIN r.got,
               requests' = [requests EXCEPT ![k].who = p]
        PROVE  MigrationStep(k) /\ RequestOK(q)
    <2>1. q = [op |-> r.op, pc |-> r.pc, who |-> p, arg |-> r.arg, copy |-> r.copy, got |-> r.got]
          /\ Only(k)
      BY <1>0, <1>e DEF IsRequest, Only
    <2>2. IsRequest(q) /\ q.op = r.op /\ q.pc = "next" /\ q.arg = r.arg /\ q.who = p /\ q.got = r.got
      BY <1>e, <2>1 DEF IsRequest
    <2>3. p \in People
      BY <1>b, <1>e DEF MigrationOK, ReadingsOK
    <2>4. MigrationOK(q)
      BY <1>b, <1>e, <2>2, <2>3 DEF MigrationOK
    <2> QED
      BY <1>a, <1>e, <2>1, <2>2, <2>4, MigrationKnows DEF MigrationStep
  <1>1. CASE MigrateLists(k)
    <2> DEFINE listed == [p \in {x \in People : users[x] # NoDoc} |-> users[p]]
               ids == {p \in DOMAIN listed : ~Has(listed[p], "role")}
    <2>1. r.pc = "list" /\ requests' = [requests EXCEPT ![k].pc = "next", ![k].got = listed, ![k].arg = ids]
      BY <1>1 DEF MigrateLists
    <2>2. DOMAIN listed \subseteq People /\ ids \subseteq DOMAIN listed
      OBVIOUS
    <2>3. ReadingsOK(listed, {x \in People : users[x] # NoDoc})
      BY <1>0, ReadingsAre
    <2>4. ReadingsOK(listed, People)
      BY <2>3 DEF ReadingsOK
    <2>5. listed = [p \in {x \in People : users[x] # NoDoc} |-> users[p]]
          /\ ids = {p \in DOMAIN listed : ~Has(listed[p], "role")}
      OBVIOUS
    <2> HIDE DEF listed, ids
    <2>6. q = [op |-> r.op, pc |-> "next", who |-> r.who, arg |-> ids, copy |-> r.copy, got |-> listed]
          /\ Only(k)
      BY <1>0, <2>1 DEF IsRequest, Only
    <2>7. IsRequest(q) /\ q.op = r.op /\ q.pc = "next" /\ q.arg = ids /\ q.who = NoOne /\ q.got = listed
      <3>1. r.who = NoOne
        BY <1>b, <2>1 DEF MigrationOK
      <3> QED
        BY <2>6, <3>1, RecordIs
    <2>8. MigrationOK(q)
      BY <2>2, <2>4, <2>7 DEF MigrationOK
    <2>9. MigrationStep(k)
      BY <1>a, <2>1, <2>5, <2>6, <2>7 DEF MigrationStep
    <2> QED
      BY <1>a, <2>7, <2>8, <2>9, MigrationKnows
  <1>2. CASE MigrateClaims(k)
    <2> DEFINE p == r.who
    <2>1. r.pc = "next" /\ p # NoOne /\ requests' = [requests EXCEPT ![k].who = NoOne, ![k].got = Left(k, p)]
      BY <1>2 DEF MigrateClaims
    <2>2. p \in People
      BY <1>b, <2>1 DEF MigrationOK
    <2>6. q = [op |-> r.op, pc |-> r.pc, who |-> NoOne, arg |-> r.arg, copy |-> r.copy, got |-> Left(k, p)]
          /\ Only(k)
      BY <1>0, <2>1 DEF IsRequest, Only
    <2>7. IsRequest(q) /\ q.op = r.op /\ q.pc = "next" /\ q.arg = r.arg /\ q.who = NoOne /\ q.got = Left(k, p)
      BY <2>1, <2>6, RecordIs
    <2>9. MigrationStep(k)
      BY <1>a, <2>1, <2>2, <2>6, <2>7 DEF MigrationStep
    <2> QED
      BY <1>c, <2>1, <2>2, <2>7, <2>9
  <1>3. CASE MigrateEnds(k)
    <2>1. End(k)
      BY <1>3 DEF MigrateEnds
    <2> QED
      BY <1>0, <1>a, <2>1, EndStep, IdleOK DEF MigrationStep
  <1>4. ASSUME NEW p \in People, MigrateCreates(k, p)
        PROVE  MigrationStep(k) /\ RequestOK(q)
    <2>1. r.pc = "next" /\ r.who = NoOne /\ p \in DOMAIN r.got
          /\ (requests' = [requests EXCEPT ![k].who = p] \/ Proceed(k, "next", Left(k, p)))
      BY <1>4 DEF MigrateCreates, Iterating
    <2> QED
      BY <1>d, <1>e, <2>1
  <1>5. ASSUME NEW p \in People, SyncRoleReads(k, p)
        PROVE  MigrationStep(k) /\ RequestOK(q)
    <2>1. r.pc = "next" /\ r.who = NoOne /\ p \in DOMAIN r.got
          /\ (requests' = [requests EXCEPT ![k].who = p] \/ Proceed(k, "next", Left(k, p)))
      BY <1>5 DEF SyncRoleReads, Iterating
    <2> QED
      BY <1>d, <1>e, <2>1
  <1> QED
    BY <1>1, <1>2, <1>3, <1>4, <1>5

LEMMA MigrationTypes ==
    ASSUME PeopleTypeOK, NEW k \in Clients,
           \/ MigrateLists(k) \/ MigrateClaims(k) \/ MigrateEnds(k)
           \/ \E p \in People : MigrateCreates(k, p) \/ SyncRoleReads(k, p),
           UNCHANGED paid
    PROVE  TypeStep(k)
PROOF
  <1> DEFINE r == requests[k]
  <1>0. StoresOK /\ RequestsOK /\ RequestOK(r) /\ Only(k) /\ RequestOK(requests'[k])
    BY MigrationMoves DEF PeopleTypeOK, RequestsOK, MigrationStep
  <1>b. r.op \in Migrations /\ MigrationOK(r)
    BY <1>0, MigrationMoves, MigrationKnows DEF MigrationStep, RequestOK
  <1>f. UNCHANGED <<payments, today, clock>>
    BY DEF paid
  <1>1. CASE MigrateLists(k)
    BY <1>0, <1>1, <1>f DEF MigrateLists, OnlyRequests, TypeStep, StoresOK, signedIn, control
  <1>2. CASE MigrateClaims(k)
    <2> DEFINE p == r.who
               role == ResolveUserRole(r.got[p])
    <2>1. p \in People /\ r.got[p] \in Docs
      BY <1>b, <1>2 DEF MigrateClaims, MigrationOK, ReadingsOK
    <2>2. role \in Roles
      BY <2>1, ResolvedIsRole
    <2>3. accounts' = accounts \/ accounts' = [accounts EXCEPT ![p].claim = role]
      BY <1>2 DEF MigrateClaims
    <2>4. accounts' \in [People -> Accts]
      <3> HIDE DEF role
      <3> QED
        BY <1>0, <2>1, <2>2, <2>3 DEF StoresOK, Accts
    <2>5. outdated' \subseteq People
      BY <1>0, <1>2, <2>1 DEF MigrateClaims, Mark, StoresOK
    <2> QED
      BY <1>0, <1>2, <1>f, <2>4, <2>5 DEF MigrateClaims, TypeStep, StoresOK, signedIn
  <1>3. CASE MigrateEnds(k)
    <2> DEFINE ids == IF r.op = "roles" THEN r.arg ELSE {}
    <2>1. r.pc = "next"
      BY <1>3 DEF MigrateEnds, Iterating
    <2>2. ids \subseteq People
      BY <1>b, <2>1 DEF MigrationOK
    <2>3. \A p \in People : Merge(users[p], [role |-> "student"]) \in Docs
      BY <1>0, PatchIsDoc, MergeIsDoc DEF StoresOK
    <2>4. users' = [p \in People |-> IF p \in ids THEN Merge(users[p], [role |-> "student"]) ELSE users[p]]
      BY <1>3 DEF MigrateEnds
    <2>5. users' \in [People -> Docs \cup {NoDoc}]
      BY <1>0, <2>3, <2>4 DEF StoresOK
    <2>6. outdated' \subseteq People
      BY <1>0, <1>3, <2>2 DEF MigrateEnds, Mark, StoresOK
    <2> QED
      BY <1>0, <1>3, <1>f, <2>5, <2>6 DEF MigrateEnds, TypeStep, StoresOK, signedIn
  <1>4. ASSUME NEW p \in People, MigrateCreates(k, p)
        PROVE  TypeStep(k)
    <2> DEFINE doc == r.got[p]
    <2>1. r.pc = "next" /\ p \in DOMAIN r.got
      BY <1>4 DEF MigrateCreates, Iterating
    <2>2. doc \in Docs
      BY <1>b, <2>1 DEF MigrationOK, ReadingsOK
    <2>3. \/ UNCHANGED <<accounts, outdated>>
          \/ /\ Has(doc, "email") /\ accounts' = [accounts EXCEPT ![p] = Account("live", "none", doc.email)]
             /\ Mark({p}, users[p] = doc)
      BY <1>4 DEF MigrateCreates
    <2>4. accounts' \in [People -> Accts]
      <3>1. Has(doc, "email") => doc.email \in Emails
        BY <2>2, DocsAre DEF Has, IsDoc
      <3>2. Has(doc, "email") => Account("live", "none", doc.email) \in Accts
        BY <3>1 DEF Account, Accts
      <3> HIDE DEF doc
      <3> QED
        BY <1>0, <2>3, <3>2, AccountStays DEF StoresOK
    <2>5. outdated' \subseteq People
      BY <1>0, <2>3 DEF Mark, StoresOK
    <2> QED
      BY <1>0, <1>4, <1>f, <2>4, <2>5 DEF MigrateCreates, TypeStep, StoresOK, signedIn
  <1>5. ASSUME NEW p \in People, SyncRoleReads(k, p)
        PROVE  TypeStep(k)
    BY <1>0, <1>5, <1>f DEF SyncRoleReads, OnlyRequests, TypeStep, StoresOK, signedIn, control
  <1> QED
    BY <1>1, <1>2, <1>3, <1>4, <1>5

-----------------------------------------------------------------------------
(* Each step leaves everything of its type: grants, rosters and goals *)

LEMMA UntilIsDate ==
    ASSUME NEW d \in Docs \cup {NoDoc}
    PROVE  Until(d) \in Dates
PROOF
  <1>1. CASE Has(d, "until")
    <2>1. IsDoc(d) /\ "until" \in DOMAIN d
      BY <1>1, DocsAre DEF Has
    <2> QED
      BY <1>1, <2>1 DEF Until, IsDoc
  <1> QED
    BY <1>1 DEF Until, Dates

LEMMA ExtendedIsLater ==
    ASSUME NEW until \in Dates, today \in Nat
    PROVE  /\ ExtendGrant(until) \in Nat
           /\ ExtendGrant(until) >= today + GrantDays
           /\ until # NoDate => ExtendGrant(until) >= until + GrantDays
PROOF BY PeopleAssumption DEF ExtendGrant, Dates

LEMMA DatedUser ==
    ASSUME StoresOK, NEW s \in People, NEW until \in Dates, UpdateManualAccess(s, until)
    PROVE  users' = [users EXCEPT ![s] = Merge(users[s], [until |-> until])]
           /\ users' \in [People -> Docs \cup {NoDoc}]
PROOF
  <1> DEFINE d == Merge(users[s], [until |-> until])
  <1>1. users' = [users EXCEPT ![s] = d] /\ users \in [People -> Docs \cup {NoDoc}]
    BY DEF UpdateManualAccess, StoresOK
  <1>2. d \in Docs
    BY <1>1, PatchIsDoc, MergeIsDoc
  <1> HIDE DEF d
  <1>3. users' \in [People -> Docs \cup {NoDoc}]
    BY <1>1, <1>2
  <1> QED
    BY <1>1, <1>3 DEF d

LEMMA GrantTypes ==
    ASSUME PeopleTypeOK, NEW k \in Clients,
           GrantReads(k) \/ GrantWrites(k) \/ GrantRecords(k) \/ GrantUndoes(k)
    PROVE  TypeStep(k)
PROOF
  <1> DEFINE r == requests[k]
             s == r.who
  <1>0. StoresOK /\ RequestsOK /\ RequestOK(r) /\ IsRequest(r)
    BY DEF PeopleTypeOK, RequestsOK, RequestOK
  <1>a. r.op = "grant"
    BY DEF GrantReads, GrantWrites, GrantRecords, GrantUndoes, At
  <1>b. GrantOK(r)
    BY <1>0, <1>a, PeopleKnow
  <1>c. s \in Students /\ s \in People /\ users[s] \in Docs \cup {NoDoc}
    BY <1>0, <1>b DEF GrantOK, StoresOK, People
  <1>d. ASSUME NEW pc \in {"record", "undo"}, r.pc # "get", Proceed(k, pc, r.got)
        PROVE  Only(k) /\ RequestOK(requests'[k])
    <2>1. Only(k) /\ SameAsk(requests'[k], r) /\ requests'[k].pc = pc /\ requests'[k].got = r.got
          /\ requests'[k].copy = r.copy
      BY <1>0, <1>d, ProceedStep
    <2>2. GrantOK(requests'[k])
      BY <1>b, <1>d, <2>1 DEF GrantOK, SameAsk
    <2> QED
      BY <1>a, <2>1, <2>2, PeopleKnow DEF SameAsk
  <1>e. ASSUME End(k) PROVE Only(k) /\ RequestOK(requests'[k])
    BY <1>0, <1>e, EndStep, IdleOK
  <1>1. CASE GrantReads(k)
    <2> DEFINE doc == users[s]
               got == Payment(s, clock + 1, ExtendGrant(Until(doc)), r.arg)
    <2>1. ASSUME doc # NoDoc,
                 requests' = [requests EXCEPT ![k].pc = "write", ![k].copy = doc, ![k].got = got]
          PROVE  Only(k) /\ RequestOK(requests'[k])
      <3>1. got \in Payments /\ got.student = s /\ ~got.voided
        <4>1. ExtendGrant(Until(doc)) \in Nat /\ clock + 1 \in Nat /\ r.arg \in {0, 1}
          BY <1>0, <1>b, <1>c, UntilIsDate, ExtendedIsLater DEF StoresOK, GrantOK
        <4> QED
          BY <1>c, <4>1 DEF Payment, Payments
      <3> HIDE DEF got, doc
      <3>2. Only(k) /\ requests'[k] = [op |-> r.op, pc |-> "write", who |-> s, arg |-> r.arg,
                                       copy |-> doc, got |-> got]
        BY <1>0, <2>1 DEF RequestsOK, IsRequest, Only
      <3>3. IsRequest(requests'[k]) /\ requests'[k].op = "grant" /\ requests'[k].pc = "write"
            /\ requests'[k].who = s /\ requests'[k].arg = r.arg /\ requests'[k].copy = doc
            /\ requests'[k].got = got
        BY <1>a, <3>2, RecordIs
      <3>4. doc \in Docs
        BY <1>c, <2>1 DEF doc
      <3>5. GrantOK(requests'[k])
        BY <1>b, <3>1, <3>3, <3>4 DEF GrantOK
      <3> QED
        BY <3>2, <3>3, <3>5, PeopleKnow
    <2>2. Only(k) /\ RequestOK(requests'[k]) /\ clock' \in Nat
      <3>1. (End(k) /\ clock' = clock)
            \/ (doc # NoDoc /\ clock' = clock + 1
                /\ requests' = [requests EXCEPT ![k].pc = "write", ![k].copy = doc, ![k].got = got])
        BY <1>1 DEF GrantReads
      <3> HIDE DEF got, doc
      <3> QED
        BY <1>0, <1>e, <2>1, <3>1 DEF StoresOK
    <2> QED
      BY <1>0, <1>1, <2>2 DEF GrantReads, OnlyRequests, TypeStep, StoresOK, signedIn, control
  <1>2. CASE GrantWrites(k)
    <2>1. Only(k) /\ RequestOK(requests'[k])
      BY <1>2, <1>d DEF GrantWrites, At
    <2>2. r.got.until \in Dates
      BY <1>2, <1>b DEF GrantWrites, At, GrantOK, Payments, Dates
    <2>3. users' \in [People -> Docs \cup {NoDoc}]
      BY <1>0, <1>2, <1>c, <2>2, DatedUser DEF GrantWrites
    <2>4. outdated' \subseteq People
      BY <1>0, <1>2, <1>c DEF GrantWrites, Mark, StoresOK
    <2> QED
      BY <1>0, <1>2, <2>1, <2>3, <2>4 DEF GrantWrites, TypeStep, StoresOK, signedIn, paid
  <1>3. CASE GrantRecords(k)
    <2>1. Only(k) /\ RequestOK(requests'[k])
      BY <1>3, <1>d, <1>e DEF GrantRecords, At
    <2>2. payments' \subseteq Payments
      BY <1>0, <1>b, <1>3 DEF GrantRecords, At, GrantOK, StoresOK
    <2>3. stops' = stops \/ Fails
      BY <1>3 DEF GrantRecords
    <2>4. outdated' \subseteq People
      BY <1>0, <1>3, <1>c DEF GrantRecords, Mark, StoresOK
    <2> QED
      BY <1>0, <1>3, <2>1, <2>2, <2>3, <2>4 DEF GrantRecords, TypeStep, StoresOK, signedIn, Fails
  <1>4. CASE GrantUndoes(k)
    <2>1. Only(k) /\ RequestOK(requests'[k])
      BY <1>4, <1>e DEF GrantUndoes
    <2>2. DaysBefore(r.got.until, r.copy) \in Dates
      BY <1>4, <1>b, UntilIsDate DEF GrantUndoes, At, GrantOK, DaysBefore
    <2>3. users' \in [People -> Docs \cup {NoDoc}]
      BY <1>0, <1>4, <1>c, <2>2, DatedUser DEF GrantUndoes
    <2>4. outdated' \subseteq People
      BY <1>0, <1>4, <1>c DEF GrantUndoes, Mark, StoresOK
    <2> QED
      BY <1>0, <1>4, <2>1, <2>3, <2>4 DEF GrantUndoes, TypeStep, StoresOK, signedIn, paid
  <1> QED
    BY <1>1, <1>2, <1>3, <1>4

LEMMA RevokeTypes ==
    ASSUME PeopleTypeOK, NEW k \in Clients,
           RevokeReads(k) \/ RevokeReadsLast(k) \/ RevokeWrites(k) \/ RevokeFinds(k) \/ RevokeVoids(k)
    PROVE  TypeStep(k)
PROOF
  <1> DEFINE r == requests[k]
             s == r.who
  <1>0. StoresOK /\ RequestsOK /\ RequestOK(r) /\ IsRequest(r)
    BY DEF PeopleTypeOK, RequestsOK, RequestOK
  <1>a. r.op = "revoke"
    BY DEF RevokeReads, GetOrThrow, RevokeReadsLast, RevokeWrites, RevokeFinds, RevokeVoids, At
  <1>b. RevokeOK(r)
    BY <1>0, <1>a, PeopleKnow
  <1>c. s \in Students /\ s \in People
    BY <1>b DEF RevokeOK, People
  <1>d. ASSUME SameAsk(requests'[k], r), requests'[k].pc \in {"last", "write", "find", "void"}
        PROVE  RequestOK(requests'[k])
    <2>2. RevokeOK(requests'[k])
      BY <1>b, <1>d DEF RevokeOK, SameAsk
    <2> QED
      BY <1>a, <1>d, <2>2, PeopleKnow DEF SameAsk
  <1>e. ASSUME NEW pc \in {"write", "find", "void"}, NEW got, End(k) \/ Proceed(k, pc, got)
        PROVE  Only(k) /\ RequestOK(requests'[k])
    BY <1>0, <1>d, <1>e, EndStep, ProceedStep, IdleOK
  <1>1. CASE RevokeReads(k)
    <2>1. Only(k) /\ RequestOK(requests'[k])
      BY <1>1, <1>d, GetStep, IdleOK DEF RevokeReads
    <2> QED
      BY <1>0, <1>1, <2>1
      DEF RevokeReads, GetOrThrow, OnlyRequests, TypeStep, StoresOK, signedIn, control, paid
  <1>2. CASE RevokeReadsLast(k)
    <2>1. Only(k) /\ RequestOK(requests'[k])
      BY <1>2, <1>e DEF RevokeReadsLast
    <2> QED
      BY <1>0, <1>2, <2>1 DEF RevokeReadsLast, OnlyRequests, TypeStep, StoresOK, signedIn, control, paid
  <1>3. CASE RevokeWrites(k)
    <2>1. Only(k) /\ RequestOK(requests'[k])
      BY <1>3, <1>e DEF RevokeWrites
    <2>3. users' \in [People -> Docs \cup {NoDoc}]
      BY <1>0, <1>3, <1>c, DatedUser DEF RevokeWrites, Dates
    <2>4. outdated' \subseteq People
      BY <1>0, <1>3, <1>c DEF RevokeWrites, Mark, StoresOK
    <2> QED
      BY <1>0, <1>3, <2>1, <2>3, <2>4 DEF RevokeWrites, TypeStep, StoresOK, signedIn, paid
  <1>4. CASE RevokeFinds(k)
    <2>1. Only(k) /\ RequestOK(requests'[k])
      BY <1>4, <1>e DEF RevokeFinds
    <2> QED
      BY <1>0, <1>4, <2>1 DEF RevokeFinds, OnlyRequests, TypeStep, StoresOK, signedIn, control, paid
  <1>5. CASE RevokeVoids(k)
    <2>1. Only(k) /\ RequestOK(requests'[k])
      BY <1>5, <1>e DEF RevokeVoids
    <2>2. \A m \in Payments : [m EXCEPT !.voided = TRUE] \in Payments
      BY DEF Payments
    <2>3. payments' \subseteq Payments
      BY <1>0, <1>5, <2>2 DEF RevokeVoids, StoresOK
    <2>4. outdated' \subseteq People
      BY <1>0, <1>5, <1>c DEF RevokeVoids, Mark, StoresOK
    <2> QED
      BY <1>0, <1>5, <2>1, <2>3, <2>4 DEF RevokeVoids, TypeStep, StoresOK, signedIn
  <1> QED
    BY <1>1, <1>2, <1>3, <1>4, <1>5

\* A document that is merged with a whole one.
LEMMA MergedUser ==
    ASSUME StoresOK, NEW p \in People, NEW patch \in Docs,
           users' = [users EXCEPT ![p] = Merge(users[p], patch)]
    PROVE  users' \in [People -> Docs \cup {NoDoc}]
PROOF
  <1> DEFINE d == Merge(users[p], patch)
  <1>1. users' = [users EXCEPT ![p] = d] /\ users \in [People -> Docs \cup {NoDoc}]
    BY DEF StoresOK
  <1>2. d \in Docs
    BY <1>1, MergeIsDoc
  <1> HIDE DEF d
  <1> QED
    BY <1>1, <1>2

LEMMA ReleasedIsDoc ==
    ASSUME NEW copy \in Docs
    PROVE  Released(copy) \in Docs
PROOF
  <1>1. Without(copy, "teacher") \in Docs
    BY WithoutIsDoc
  <1>2. "pending" \in Fields \ {"role", "teacher"} /\ TRUE \in Values
    BY DEF Fields, Values
  <1> QED
    BY <1>1, <1>2, WithIsDoc DEF Released

LEMMA RosterTypes ==
    ASSUME PeopleTypeOK, NEW k \in Clients,
           \/ AssignReads(k) \/ AssignReadsCurrent(k) \/ AssignReleases(k) \/ AssignReadsStudent(k)
           \/ AssignSaves(k)
    PROVE  TypeStep(k)
PROOF
  <1> DEFINE r == requests[k]
             q == requests'[k]
             t == r.who
  <1>0. StoresOK /\ RequestsOK /\ RequestOK(r) /\ IsRequest(r) /\ requests = [i \in Clients |-> requests[i]]
    BY DEF PeopleTypeOK, RequestsOK, RequestOK
  <1>a. r.op = "assign"
    BY DEF AssignReads, GetOrThrow, AssignReadsCurrent, AssignReleases, AssignReadsStudent, AssignSaves, At
  <1>b. AssignOK(r)
    BY <1>0, <1>a, PeopleKnow
  <1>c. t \in Teachers /\ Students \subseteq People
    BY <1>b DEF AssignOK, People
  <1>d. ASSUME NEW pc \in {"release", "student"}, NEW got, pc = "release" => ReadingsOK(got, Students),
               Proceed(k, pc, got)
        PROVE  Only(k) /\ RequestOK(q)
    <2>1. Only(k) /\ SameAsk(q, r) /\ q.pc = pc /\ q.got = got
      BY <1>0, <1>d, ProceedStep
    <2>2. AssignOK(q)
      BY <1>b, <1>d, <2>1 DEF AssignOK, SameAsk
    <2> QED
      BY <1>a, <2>1, <2>2, PeopleKnow DEF SameAsk
  <1>e. ASSUME End(k) PROVE Only(k) /\ RequestOK(q)
    BY <1>0, <1>e, EndStep, IdleOK
  <1>f. ASSUME NEW left, ReadingsOK(left, Students)
        PROVE  \A s \in DOMAIN left : s \in Students /\ left[s] \in Docs
    BY <1>f DEF ReadingsOK
  <1>1. CASE AssignReads(k)
    <2>1. Only(k) /\ (q = Idle \/ (SameAsk(q, r) /\ q.pc = "current"))
      BY <1>1, GetStep DEF AssignReads
    <2>2. RequestOK(q)
      <3>1. ASSUME SameAsk(q, r), q.pc = "current"
            PROVE  RequestOK(q)
        <4>1. AssignOK(q)
          BY <1>b, <3>1 DEF AssignOK, SameAsk
        <4> QED
          BY <1>a, <3>1, <4>1, PeopleKnow DEF SameAsk
      <3> QED
        BY <2>1, <3>1, IdleOK
    <2> QED
      BY <1>0, <1>1, <2>1, <2>2
      DEF AssignReads, GetOrThrow, OnlyRequests, TypeStep, StoresOK, signedIn, control, paid
  <1>2. CASE AssignReadsCurrent(k)
    <2> DEFINE those == StudentsOf(t) \ r.arg
    <2>1. those \subseteq Students /\ \A s \in those : users[s] # NoDoc
      BY DEF StudentsOf, Has
    <2>2. ReadingsOK([s \in those |-> users[s]], those)
      BY <1>0, <1>c, <2>1, ReadingsAre
    <2>3. ReadingsOK([s \in those |-> users[s]], Students)
      BY <2>1, <2>2 DEF ReadingsOK
    <2>4. Only(k) /\ RequestOK(q)
      BY <1>2, <1>d, <2>3 DEF AssignReadsCurrent
    <2> QED
      BY <1>0, <1>2, <2>4 DEF AssignReadsCurrent, OnlyRequests, TypeStep, StoresOK, signedIn, control, paid
  <1>3. CASE AssignReleases(k)
    <2> DEFINE left == r.got
    <2>0. ReadingsOK(left, Students)
      BY <1>3, <1>b DEF AssignReleases, At, AssignOK
    <2>1. \/ /\ Proceed(k, "student", NoArg) /\ UNCHANGED <<users, outdated>>
          \/ \E s \in DOMAIN left :
                /\ users' = [users EXCEPT ![s] = Merge(users[s], Released(left[s]))]
                /\ Mark({s}, users[s] = left[s])
                /\ Proceed(k, "release", [x \in DOMAIN left \ {s} |-> left[x]])
      BY <1>3 DEF AssignReleases
    <2>2. Only(k) /\ RequestOK(q)
      <3>1. ASSUME NEW s, Proceed(k, "release", [x \in DOMAIN left \ {s} |-> left[x]])
            PROVE  Only(k) /\ RequestOK(q)
        <4>1. ReadingsOK([x \in DOMAIN left \ {s} |-> left[x]], Students)
          BY <2>0, LeftIsReadings
        <4> QED
          BY <1>d, <3>1, <4>1
      <3> QED
        BY <1>d, <2>1, <3>1
    <2>3. users' \in [People -> Docs \cup {NoDoc}] /\ outdated' \subseteq People
      <3>1. ASSUME NEW s \in DOMAIN left,
                   users' = [users EXCEPT ![s] = Merge(users[s], Released(left[s]))],
                   Mark({s}, users[s] = left[s])
            PROVE  users' \in [People -> Docs \cup {NoDoc}] /\ outdated' \subseteq People
        <4>1. s \in People /\ Released(left[s]) \in Docs
          BY <1>c, <1>f, <2>0, ReleasedIsDoc
        <4> QED
          BY <1>0, <3>1, <4>1, MergedUser DEF Mark, StoresOK
      <3> QED
        BY <1>0, <2>1, <3>1 DEF StoresOK
    <2> QED
      BY <1>0, <1>3, <2>2, <2>3 DEF AssignReleases, TypeStep, StoresOK, signedIn, paid
  <1>4. CASE AssignReadsStudent(k)
    <2>1. ASSUME NEW s \in r.arg, users[s] # NoDoc,
                 requests' = [requests EXCEPT ![k].pc = "save", ![k].got = s, ![k].copy = users[s]]
          PROVE  Only(k) /\ RequestOK(q)
      <3>1. s \in Students /\ users[s] \in Docs
        BY <1>0, <1>b, <1>c, <2>1 DEF AssignOK, StoresOK
      <3>2. q = [op |-> r.op, pc |-> "save", who |-> r.who, arg |-> r.arg, copy |-> users[s], got |-> s]
            /\ Only(k)
        BY <1>0, <2>1 DEF IsRequest, Only
      <3>3. IsRequest(q) /\ q.op = "assign" /\ q.pc = "save" /\ q.who = r.who /\ q.arg = r.arg
            /\ q.copy = users[s] /\ q.got = s
        BY <1>a, <3>2, RecordIs
      <3>4. AssignOK(q)
        BY <1>b, <3>1, <3>3 DEF AssignOK
      <3> QED
        BY <3>2, <3>3, <3>4, PeopleKnow
    <2>2. Only(k) /\ RequestOK(q)
      BY <1>4, <1>e, <2>1 DEF AssignReadsStudent
    <2> QED
      BY <1>0, <1>4, <2>2 DEF AssignReadsStudent, OnlyRequests, TypeStep, StoresOK, signedIn, control, paid
  <1>5. CASE AssignSaves(k)
    <2> DEFINE s == r.got
    <2>1. s \in Students /\ s \in People /\ r.copy \in Docs /\ r.arg \subseteq Students
      BY <1>5, <1>b, <1>c DEF AssignSaves, At, AssignOK
    <2>2. requests' = [requests EXCEPT ![k].pc = "student", ![k].arg = r.arg \ {s}]
      BY <1>5 DEF AssignSaves
    <2>3. q = [op |-> r.op, pc |-> "student", who |-> r.who, arg |-> r.arg \ {s}, copy |-> r.copy, got |-> r.got]
          /\ Only(k)
      BY <1>0, <2>2 DEF IsRequest, Only
    <2>4. IsRequest(q) /\ q.op = "assign" /\ q.pc = "student" /\ q.who = r.who /\ q.arg = r.arg \ {s}
      BY <1>a, <2>3, RecordIs
    <2>5. AssignOK(q)
      BY <1>b, <2>1, <2>4 DEF AssignOK
    <2>6. users' \in [People -> Docs \cup {NoDoc}]
      <3>1. Assigned(r.copy, t) \in Docs
        BY <1>c, <2>1, AssignedIsDoc DEF Assigned
      <3>2. users' = [users EXCEPT ![s] = Merge(users[s], Assigned(r.copy, t))]
        BY <1>5 DEF AssignSaves
      <3> QED
        BY <1>0, <2>1, <3>1, <3>2, MergedUser
    <2>7. outdated' \subseteq People
      BY <1>0, <1>5, <2>1 DEF AssignSaves, Mark, StoresOK
    <2> QED
      BY <1>0, <1>5, <2>3, <2>4, <2>5, <2>6, <2>7, PeopleKnow DEF AssignSaves, TypeStep, StoresOK, signedIn, paid
  <1> QED
    BY <1>1, <1>2, <1>3, <1>4, <1>5

LEMMA AssignmentTypes ==
    ASSUME PeopleTypeOK, NEW k \in Clients,
           UpdateAssignmentReads(k) \/ UpdateAssignmentReadsTeacher(k) \/ UpdateAssignmentSaves(k)
    PROVE  TypeStep(k)
PROOF
  <1> DEFINE r == requests[k]
             q == requests'[k]
             s == r.who
  <1>0. StoresOK /\ RequestsOK /\ RequestOK(r) /\ IsRequest(r)
    BY DEF PeopleTypeOK, RequestsOK, RequestOK
  <1>a. r.op = "assignment"
    BY DEF UpdateAssignmentReads, GetOrThrow, UpdateAssignmentReadsTeacher, UpdateAssignmentSaves, At
  <1>b. AssignmentOK(r)
    BY <1>0, <1>a, PeopleKnow
  <1>c. s \in Students /\ s \in People /\ users[s] \in Docs \cup {NoDoc}
    BY <1>0, <1>b DEF AssignmentOK, People, StoresOK
  <1>d. ASSUME SameAsk(q, r), q.pc \in {"teacher", "save"}, q.copy \in Docs
        PROVE  RequestOK(q)
    <2>1. AssignmentOK(q)
      BY <1>b, <1>d DEF AssignmentOK, SameAsk
    <2> QED
      BY <1>a, <1>d, <2>1, PeopleKnow DEF SameAsk
  <1>e. ASSUME End(k) PROVE Only(k) /\ RequestOK(q)
    BY <1>0, <1>e, EndStep, IdleOK
  <1>1. CASE UpdateAssignmentReads(k)
    <2>1. Only(k) /\ RequestOK(q)
      BY <1>1, <1>c, <1>d, GetStep, IdleOK DEF UpdateAssignmentReads
    <2> QED
      BY <1>0, <1>1, <2>1
      DEF UpdateAssignmentReads, GetOrThrow, OnlyRequests, TypeStep, StoresOK, signedIn, control, paid
  <1>2. CASE UpdateAssignmentReadsTeacher(k)
    <2>1. ASSUME Proceed(k, "save", NoArg) PROVE Only(k) /\ RequestOK(q)
      <3>1. Only(k) /\ SameAsk(q, r) /\ q.pc = "save" /\ q.copy = r.copy
        BY <1>0, <2>1, ProceedStep
      <3>2. r.copy \in Docs
        BY <1>2, <1>b DEF UpdateAssignmentReadsTeacher, At, AssignmentOK
      <3> QED
        BY <1>d, <3>1, <3>2
    <2>2. Only(k) /\ RequestOK(q)
      BY <1>2, <1>e, <2>1 DEF UpdateAssignmentReadsTeacher
    <2> QED
      BY <1>0, <1>2, <2>2
      DEF UpdateAssignmentReadsTeacher, OnlyRequests, TypeStep, StoresOK, signedIn, control, paid
  <1>3. CASE UpdateAssignmentSaves(k)
    <2>1. Only(k) /\ RequestOK(q)
      BY <1>3, <1>e DEF UpdateAssignmentSaves
    <2>2. r.copy \in Docs /\ r.arg \in Teachers \cup {NoOne, NoArg}
      BY <1>3, <1>b DEF UpdateAssignmentSaves, At, AssignmentOK
    <2> DEFINE doc == CASE r.arg \in Teachers -> Assigned(r.copy, r.arg)
                        [] r.arg = NoOne -> Released(r.copy)
                        [] OTHER -> r.copy
    <2>3. doc \in Docs
      BY <2>2, AssignedIsDoc, ReleasedIsDoc DEF Assigned
    <2>4. users' = [users EXCEPT ![s] = Merge(users[s], doc)]
      BY <1>3 DEF UpdateAssignmentSaves
    <2>5. users' \in [People -> Docs \cup {NoDoc}]
      <3> HIDE DEF doc
      <3> QED
        BY <1>0, <1>c, <2>3, <2>4, MergedUser
    <2>6. outdated' \subseteq People
      BY <1>0, <1>3, <1>c DEF UpdateAssignmentSaves, Mark, StoresOK
    <2> QED
      BY <1>0, <1>3, <2>1, <2>5, <2>6 DEF UpdateAssignmentSaves, TypeStep, StoresOK, signedIn, paid
  <1> QED
    BY <1>1, <1>2, <1>3

LEMMA ActiveTypes ==
    ASSUME PeopleTypeOK, NEW k \in Clients,
           SetActiveReads(k) \/ SetActiveSaves(k) \/ SetActiveQueries(k) \/ SetActiveMarks(k)
    PROVE  TypeStep(k)
PROOF
  <1> DEFINE r == requests[k]
             q == requests'[k]
             t == r.who
  <1>0. StoresOK /\ RequestsOK /\ RequestOK(r) /\ IsRequest(r)
    BY DEF PeopleTypeOK, RequestsOK, RequestOK
  <1>a. r.op = "active"
    BY DEF SetActiveReads, GetOrThrow, SetActiveSaves, SetActiveQueries, SetActiveMarks, At
  <1>b. ActiveOK(r)
    BY <1>0, <1>a, PeopleKnow
  <1>c. t \in Teachers /\ t \in People /\ users[t] \in Docs \cup {NoDoc} /\ Students \subseteq People
    BY <1>0, <1>b DEF ActiveOK, People, StoresOK
  <1>d. ASSUME NEW pc \in {"query", "batch"}, NEW got, pc = "batch" => got \subseteq Students,
               Proceed(k, pc, got)
        PROVE  Only(k) /\ RequestOK(q)
    <2>1. Only(k) /\ SameAsk(q, r) /\ q.pc = pc /\ q.got = got
      BY <1>0, <1>d, ProceedStep
    <2>2. ActiveOK(q)
      BY <1>b, <1>d, <2>1 DEF ActiveOK, SameAsk
    <2> QED
      BY <1>a, <2>1, <2>2, PeopleKnow DEF SameAsk
  <1>e. ASSUME End(k) PROVE Only(k) /\ RequestOK(q)
    BY <1>0, <1>e, EndStep, IdleOK
  <1>g. \A x \in People : StudentsOf(x) \subseteq Students
    BY DEF StudentsOf
  <1>1. CASE SetActiveReads(k)
    <2>1. Only(k) /\ (q = Idle \/ (SameAsk(q, r) /\ q.pc = "save" /\ q.copy = users[t] /\ q.copy # NoDoc))
      BY <1>1, GetStep DEF SetActiveReads
    <2>2. RequestOK(q)
      <3>1. ASSUME SameAsk(q, r), q.pc = "save", q.copy \in Docs
            PROVE  RequestOK(q)
        <4>1. ActiveOK(q)
          BY <1>b, <3>1 DEF ActiveOK, SameAsk
        <4> QED
          BY <1>a, <3>1, <4>1, PeopleKnow DEF SameAsk
      <3> QED
        BY <1>c, <2>1, <3>1, IdleOK
    <2> QED
      BY <1>0, <1>1, <2>1, <2>2
      DEF SetActiveReads, GetOrThrow, OnlyRequests, TypeStep, StoresOK, signedIn, control, paid
  <1>2. CASE SetActiveSaves(k)
    <2>1. Only(k) /\ RequestOK(q)
      BY <1>2, <1>d, <1>e DEF SetActiveSaves
    <2>2. With(r.copy, "active", r.arg) \in Docs
      <3>1. r.copy \in Docs /\ r.arg \in Values /\ "active" \in Fields \ {"role", "teacher"}
        BY <1>2, <1>b DEF SetActiveSaves, At, ActiveOK, Values, Fields
      <3> QED
        BY <3>1, WithIsDoc
    <2>3. users' = [users EXCEPT ![t] = Merge(users[t], With(r.copy, "active", r.arg))]
      BY <1>2 DEF SetActiveSaves, WriteCopy
    <2>4. users' \in [People -> Docs \cup {NoDoc}]
      BY <1>0, <1>c, <2>2, <2>3, MergedUser
    <2>5. outdated' \subseteq People
      BY <1>0, <1>2, <1>c DEF SetActiveSaves, WriteCopy, Mark, StoresOK
    <2> QED
      BY <1>0, <1>2, <2>1, <2>4, <2>5 DEF SetActiveSaves, TypeStep, StoresOK, signedIn, paid
  <1>3. CASE SetActiveQueries(k)
    <2>1. Only(k) /\ RequestOK(q)
      BY <1>3, <1>c, <1>d, <1>e, <1>g DEF SetActiveQueries
    <2> QED
      BY <1>0, <1>3, <2>1 DEF SetActiveQueries, OnlyRequests, TypeStep, StoresOK, signedIn, control, paid
  <1>4. CASE SetActiveMarks(k)
    <2>1. Only(k) /\ RequestOK(q)
      BY <1>4, <1>e DEF SetActiveMarks
    <2>2. r.got \subseteq Students
      BY <1>4, <1>b DEF SetActiveMarks, At, ActiveOK
    <2>3. \A p \in People : Merge(users[p], [pending |-> TRUE]) \in Docs
      BY <1>0, PatchIsDoc, MergeIsDoc DEF StoresOK
    <2>4. users' = [p \in People |-> IF p \in r.got THEN Merge(users[p], [pending |-> TRUE]) ELSE users[p]]
      BY <1>4 DEF SetActiveMarks
    <2>5. users' \in [People -> Docs \cup {NoDoc}]
      BY <1>0, <2>3, <2>4 DEF StoresOK
    <2>6. outdated' \subseteq People
      BY <1>0, <1>4, <1>c, <1>g, <2>2 DEF SetActiveMarks, Mark, StoresOK
    <2> QED
      BY <1>0, <1>4, <2>1, <2>5, <2>6 DEF SetActiveMarks, TypeStep, StoresOK, signedIn, paid
  <1> QED
    BY <1>1, <1>2, <1>3, <1>4

-----------------------------------------------------------------------------
(* Each step leaves everything of its type: what is asked, and the rest *)

LEMMA AskTypes ==
    ASSUME PeopleTypeOK, NEW k \in Clients, NEW r, Begin(k, r), RequestOK(r), UNCHANGED paid
    PROVE  TypeStep(k)
PROOF
  <1>1. StoresOK /\ RequestsOK
    BY DEF PeopleTypeOK
  <1>2. Only(k) /\ RequestOK(requests'[k])
    BY <1>1, BeginStep
  <1>3. StoresOK'
    BY <1>1 DEF Begin, StoresOK, signedIn, paid
  <1> QED
    BY <1>2, <1>3 DEF TypeStep

\* A request that begins with something at hand.
Holding(q, got) == [q EXCEPT !.got = got]

LEMMA HoldingIs ==
    ASSUME NEW q, IsRequest(q), NEW got
    PROVE  LET r == Holding(q, got) IN SameAsk(r, q) /\ r.pc = q.pc /\ r.got = got
PROOF
  <1> DEFINE r == Holding(q, got)
  <1>1. r = [op |-> q.op, pc |-> q.pc, who |-> q.who, arg |-> q.arg, copy |-> q.copy, got |-> got]
    BY DEF IsRequest, Holding
  <1> HIDE DEF r
  <1>2. SameAsk(r, q) /\ r.pc = q.pc /\ r.got = got
    BY <1>1, RecordIs DEF SameAsk
  <1> QED
    BY <1>2 DEF r

\* What the routes of accounts let through.
LEMMA AccountAskTypes ==
    ASSUME PeopleTypeOK, NEW k \in Clients, AccountAsks(k), UNCHANGED paid
    PROVE  TypeStep(k)
PROOF
  <1>0. StoresOK
    BY DEF PeopleTypeOK
  <1>1. ASSUME NEW p \in People, NEW op \in {"create", "invite"}, NEW email \in Addresses(p),
               Create(k, p, op, email)
        PROVE  TypeStep(k)
    <2> DEFINE r == Request(op, "create", p, email)
    <2>1. IsRequest(r) /\ r.op = op /\ r.pc = "create" /\ r.who = p /\ r.arg = email
      BY RequestIs
    <2> HIDE DEF r
    <2>2. RequestOK(r)
      BY <2>1, CreationKnows DEF CreationOK, Creations
    <2> QED
      BY <1>1, <2>2, AskTypes DEF Create, r
  <1>2. ASSUME NEW p \in People, Login(k, p) \/ Refresh(k, p)
        PROVE  TypeStep(k)
    <2> DEFINE pc == "sign in"
    <2>1. PICK op \in SignIns : Begin(k, Request(op, pc, p, NoArg))
      BY <1>2 DEF Login, Refresh, SignIns
    <2> DEFINE r == Request(op, pc, p, NoArg)
    <2> HIDE DEF pc
    <2>2. IsRequest(r) /\ r.op = op /\ r.pc = pc /\ r.who = p
      BY RequestIs
    <2> HIDE DEF r
    <2>3. SignInOK(r)
      BY <2>2 DEF SignInOK, pc
    <2>4. RequestOK(r)
      BY <2>2, <2>3, SignInKnows
    <2> QED
      BY <2>1, <2>4, AskTypes DEF r
  <1>3. ASSUME NEW p \in People, Delete(k, p) \/ DeleteInvite(k, p)
        PROVE  TypeStep(k)
    <2>1. PICK op \in Deletions, pc \in {"doc", "get"} :
             Begin(k, Request(op, pc, p, NoArg)) /\ (op = "uninvite" => pc = "get")
      BY <1>3 DEF Delete, DeleteInvite, Deletions
    <2> DEFINE r == Request(op, pc, p, NoArg)
    <2>2. IsRequest(r) /\ r.op = op /\ r.pc = pc /\ r.who = p
      BY RequestIs
    <2> HIDE DEF r
    <2>3. RequestOK(r)
      BY <2>1, <2>2, DeletionKnows DEF DeletionOK
    <2> QED
      BY <2>1, <2>3, AskTypes DEF r
  <1>4. ASSUME NEW p \in People, NEW email \in Addresses(p), ChangeEmail(k, p, email)
        PROVE  TypeStep(k)
    <2> DEFINE old == accounts[p].email
               q == Request("email", "account", p, email)
               r == Holding(q, old)
    <2>0. IsRequest(q) /\ q.op = "email" /\ q.pc = "account" /\ q.who = p /\ q.arg = email
      BY RequestIs
    <2>1. Begin(k, r)
      BY <1>4 DEF ChangeEmail, Holding
    <2>2. old \in Emails \cup {NoOne}
      BY <1>0 DEF StoresOK, Accts
    <2> HIDE DEF q, old
    <2>3. SameAsk(r, q) /\ r.pc = q.pc /\ r.got = old
      BY <2>0, HoldingIs
    <2> HIDE DEF r
    <2>4. EmailOK(r) /\ IsRequest(r) /\ r.op = "email"
      BY <2>0, <2>2, <2>3 DEF EmailOK, SameAsk
    <2> QED
      BY <2>1, <2>4, AskTypes, EmailKnows
  <1>5. ASSUME NEW p \in People, NEW patch \in Docs, DOMAIN patch \subseteq {"name", "data"},
               UpdateOwnProfile(k, p, patch)
        PROVE  TypeStep(k)
    <2> DEFINE r == Request("profile", "get", p, patch)
    <2>1. IsRequest(r) /\ r.op = "profile" /\ r.pc = "get" /\ r.who = p /\ r.arg = patch
      BY RequestIs
    <2> HIDE DEF r
    <2>2. EditOK(r) /\ DOMAIN r.arg \subseteq {"name", "data"}
      BY <1>5, <2>1 DEF EditOK
    <2>3. RequestOK(r)
      BY <2>1, <2>2, EditKnows
    <2> QED
      BY <1>5, <2>3, AskTypes DEF UpdateOwnProfile, r
  <1>6. ASSUME NEW p \in People, NEW requester, NEW patch \in Docs,
               DOMAIN patch \subseteq {"name", "data", "email"}, UpdateUser(k, requester, p, patch)
        PROVE  TypeStep(k)
    <2> DEFINE q == Request("edit", "get", p, patch)
               r == Holding(q, requester)
    <2>0. IsRequest(q) /\ q.op = "edit" /\ q.pc = "get" /\ q.who = p /\ q.arg = patch
      BY RequestIs
    <2>1. Begin(k, r)
      BY <1>6 DEF UpdateUser, Holding
    <2> HIDE DEF q
    <2>2. SameAsk(r, q) /\ r.pc = q.pc
      BY <2>0, HoldingIs
    <2> HIDE DEF r
    <2>3. EditOK(r) /\ IsRequest(r) /\ r.op = "edit"
      BY <1>6, <2>0, <2>2 DEF EditOK, SameAsk
    <2> QED
      BY <2>1, <2>3, AskTypes, EditKnows
  <1>7. ASSUME NEW op \in {"accounts", "roles"}, Migrate(k, op)
        PROVE  TypeStep(k)
    <2> DEFINE r == Request(op, "list", NoOne, NoArg)
    <2>1. IsRequest(r) /\ r.op = op /\ r.pc = "list" /\ r.who = NoOne
      BY RequestIs
    <2> HIDE DEF r
    <2>2. MigrationOK(r) /\ op \in Migrations
      BY <2>1 DEF MigrationOK, Migrations
    <2>3. RequestOK(r)
      BY <2>1, <2>2, MigrationKnows
    <2> QED
      BY <1>7, <2>3, AskTypes DEF Migrate, r
  <1>8. Teachers \subseteq People
    BY DEF People
  <1>9. ASSUME NEW p \in People, NEW patch \in {Nothing, Whole, [data |-> TRUE], [data |-> FALSE]}
        PROVE  patch \in Docs /\ DOMAIN patch \subseteq {"name", "data"}
    BY PatchesAre
  <1>10. ASSUME NEW patch \in {[name |-> TRUE], [name |-> FALSE], [email |-> Fresh], Whole}
         PROVE  patch \in Docs /\ DOMAIN patch \subseteq {"name", "data", "email"}
    BY PatchesAre
  <1> QED
    BY <1>1, <1>2, <1>3, <1>4, <1>5, <1>6, <1>7, <1>8, <1>9, <1>10 DEF AccountAsks

LEMMA AsksTypes ==
    ASSUME PeopleTypeOK, NEW k \in Clients, Asks(k)
    PROVE  TypeStep(k)
PROOF
  <1>1. CASE AccountAsks(k) /\ UNCHANGED paid
    BY <1>1, AccountAskTypes
  <1>2. ASSUME NEW s \in Students, NEW amount \in {0, 1}, Grant(k, s, amount)
        PROVE  TypeStep(k)
    <2> DEFINE r == Request("grant", "get", s, amount)
    <2>1. IsRequest(r) /\ r.op = "grant" /\ r.pc = "get" /\ r.who = s /\ r.arg = amount
      BY RequestIs
    <2>2. Begin(k, r) /\ UNCHANGED paid
      BY <1>2 DEF Grant
    <2> HIDE DEF r
    <2>3. RequestOK(r)
      BY <2>1, PeopleKnow DEF GrantOK
    <2> QED
      BY <2>2, <2>3, AskTypes
  <1>3. ASSUME NEW s \in Students, NEW refund, Revoke(k, s, refund)
        PROVE  TypeStep(k)
    <2> DEFINE r == Request("revoke", "get", s, refund)
    <2>1. IsRequest(r) /\ r.op = "revoke" /\ r.pc = "get" /\ r.who = s
      BY RequestIs
    <2>2. Begin(k, r) /\ UNCHANGED paid
      BY <1>3 DEF Revoke
    <2> HIDE DEF r
    <2>3. RequestOK(r)
      BY <2>1, PeopleKnow DEF RevokeOK
    <2> QED
      BY <2>2, <2>3, AskTypes
  <1>4. ASSUME NEW s \in Students, NEW t \in Teachers \cup {NoOne, NoArg}, UpdateAssignment(k, s, t)
        PROVE  TypeStep(k)
    <2> DEFINE r == Request("assignment", "get", s, t)
    <2>1. IsRequest(r) /\ r.op = "assignment" /\ r.pc = "get" /\ r.who = s /\ r.arg = t
      BY RequestIs
    <2>2. Begin(k, r) /\ UNCHANGED paid
      BY <1>4 DEF UpdateAssignment
    <2> HIDE DEF r
    <2>3. RequestOK(r)
      BY <2>1, PeopleKnow DEF AssignmentOK
    <2> QED
      BY <2>2, <2>3, AskTypes
  <1>5. ASSUME NEW t \in Teachers, NEW students \in SUBSET Students, AssignStudents(k, t, students)
        PROVE  TypeStep(k)
    <2> DEFINE r == Request("assign", "get", t, students)
    <2>1. IsRequest(r) /\ r.op = "assign" /\ r.pc = "get" /\ r.who = t /\ r.arg = students
      BY RequestIs
    <2>2. Begin(k, r) /\ UNCHANGED paid
      BY <1>5 DEF AssignStudents
    <2> HIDE DEF r
    <2>3. RequestOK(r)
      BY <2>1, PeopleKnow DEF AssignOK
    <2> QED
      BY <2>2, <2>3, AskTypes
  <1>6. ASSUME NEW t \in Teachers, NEW active \in BOOLEAN, SetActive(k, t, active)
        PROVE  TypeStep(k)
    <2> DEFINE r == Request("active", "get", t, active)
    <2>1. IsRequest(r) /\ r.op = "active" /\ r.pc = "get" /\ r.who = t /\ (r.arg <=> active) /\ r.arg \in BOOLEAN
      BY RequestIs
    <2>2. Begin(k, r) /\ UNCHANGED paid
      BY <1>6 DEF SetActive
    <2> HIDE DEF r
    <2>3. ActiveOK(r)
      BY <2>1 DEF ActiveOK
    <2>4. RequestOK(r)
      BY <2>1, <2>3, PeopleKnow
    <2> QED
      BY <2>2, <2>4, AskTypes
  <1> QED
    BY <1>1, <1>2, <1>3, <1>4, <1>5, <1>6 DEF Asks

LEMMA StopTypes ==
    ASSUME PeopleTypeOK, NEW k \in Clients, Stop(k)
    PROVE  TypeStep(k)
PROOF
  <1>0. StoresOK /\ RequestsOK /\ RequestOK(requests[k])
    BY DEF PeopleTypeOK, RequestsOK
  <1>1. Only(k) /\ RequestOK(requests'[k])
    BY <1>0, EndStep, IdleOK DEF Stop
  <1>2. requests[k].who = NoOne \/ requests[k].who \in People
    <2> DEFINE r == requests[k]
    <2>1. r.op \in Ops /\ IsRequest(r)
      BY <1>0 DEF RequestOK
    <2>2. ASSUME r.op \in {"none", "goal"} \cup Migrations PROVE r.who = NoOne \/ r.who \in People
      BY <1>0, <2>1, <2>2, MigrationKnows, PeopleKnow DEF RequestOK, MigrationOK, GoalOK
    <2>3. ASSUME r.op \in Creations \cup SignIns \cup Deletions PROVE r.who \in People
      BY <1>0, <2>1, <2>3, CreationKnows, SignInKnows, DeletionKnows DEF CreationOK, SignInOK, DeletionOK
    <2>4. ASSUME r.op \in {"email", "profile", "edit"} PROVE r.who \in People
      BY <1>0, <2>1, <2>4, EmailKnows, EditKnows DEF EmailOK, EditOK
    <2>5. ASSUME r.op \in {"grant", "revoke", "assign", "assignment", "active"} PROVE r.who \in People
      BY <1>0, <2>1, <2>5, PeopleKnow DEF GrantOK, RevokeOK, AssignOK, AssignmentOK, ActiveOK, People
    <2> QED
      BY <2>1, <2>2, <2>3, <2>4, <2>5 DEF Ops
  <1>3. cut' \subseteq People
    <2>1. LeftHalfWay(k) \subseteq People
      BY <1>2 DEF LeftHalfWay, StudentsOf, People
    <2> QED
      BY <1>0, <2>1 DEF Stop, StoresOK
  <1> QED
    BY <1>0, <1>1, <1>3 DEF Stop, Fails, TypeStep, StoresOK, signedIn, paid

LEMMA HandleTypes ==
    ASSUME PeopleTypeOK, NEW k \in Clients, Handle(k)
    PROVE  TypeStep(k)
PROOF
  <1>1. CASE AccountHandle(k) /\ UNCHANGED paid
    BY <1>1, CreateTypes, SignInTypes, EmailTypes, EditTypes, DeletionTypes, MigrationTypes
    DEF AccountHandle
  <1>2. CASE ~(AccountHandle(k) /\ UNCHANGED paid)
    BY <1>2, GrantTypes, RevokeTypes, RosterTypes, AssignmentTypes, ActiveTypes DEF Handle
  <1> QED
    BY <1>1, <1>2

-----------------------------------------------------------------------------
(* Goals *)

\* The year of a month of the run is one of the run.
LEMMA YearIsKnown ==
    ASSUME NEW m \in Months
    PROVE  YearOf(m) \in 1 .. Years
PROOF
  <1> DEFINE n == m - 1
             q == n \div MonthsInYear
  <1>1. MonthsInYear \in Nat \ {0} /\ Years \in Nat \ {0} /\ MonthsInYear * Years \in Nat
    BY FinanceAssumption
  <1>2. n \in Nat /\ n < MonthsInYear * Years
    BY <1>1 DEF Months
  <1>3. q \in Nat /\ MonthsInYear * q =< n
    <2> HIDE DEF n
    <2> QED
      BY <1>1, <1>2
  <1>4. q < Years
    <2> HIDE DEF n, q
    <2>1. SUFFICES ASSUME q >= Years PROVE FALSE
      BY <1>1, <1>3
    <2>2. MonthsInYear * q >= MonthsInYear * Years
      BY <1>1, <1>3, <2>1
    <2> QED
      BY <1>1, <1>2, <1>3, <2>2
  <1> QED
    BY <1>1, <1>3, <1>4 DEF YearOf

LEMMA ThisYearIsKnown ==
    YearOf(ThisMonth) \in 1 .. Years
PROOF
  <1>1. MonthsInYear * Years \in Nat /\ ThisMonth \in 2 .. MonthsInYear * Years
    BY FinanceAssumption
  <1>2. ThisMonth \in Months
    BY <1>1 DEF Months
  <1> QED
    BY <1>2, YearIsKnown

IsGoal(d) ==
    /\ d = [annual |-> d.annual, monthly |-> d.monthly]
    /\ d.annual \in Nat
    /\ d.monthly = [m \in DOMAIN d.monthly |-> d.monthly[m]]
    /\ DOMAIN d.monthly \subseteq Months
    /\ \A m \in DOMAIN d.monthly : d.monthly[m] \in Nat

LEMMA GoalDocsAre ==
    ASSUME NEW d
    PROVE  d \in GoalDocs <=> IsGoal(d)
PROOF
  <1>1. ASSUME d \in GoalDocs PROVE IsGoal(d)
    <2>1. PICK T \in SUBSET Months : d.monthly \in [T -> Nat]
      BY <1>1 DEF GoalDocs
    <2>2. d = [annual |-> d.annual, monthly |-> d.monthly] /\ d.annual \in Nat
      BY <1>1 DEF GoalDocs
    <2> QED
      BY <2>1, <2>2 DEF IsGoal
  <1>2. ASSUME IsGoal(d) PROVE d \in GoalDocs
    <2> DEFINE T == DOMAIN d.monthly
    <2>1. d.monthly \in [T -> Nat] /\ T \in SUBSET Months
      BY <1>2 DEF IsGoal
    <2>2. d.monthly \in UNION {[S -> Nat] : S \in SUBSET Months}
      BY <2>1
    <2>3. d = [annual |-> d.annual, monthly |-> d.monthly] /\ d.annual \in Nat
      BY <1>2 DEF IsGoal
    <2> DEFINE M == UNION {[S -> Nat] : S \in SUBSET Months}
    <2> HIDE DEF M, T
    <2>4. d \in [annual : Nat, monthly : M]
      BY <2>2, <2>3 DEF M
    <2> QED
      BY <2>4 DEF GoalDocs, M
  <1> QED
    BY <1>1, <1>2

\* Saved over the document it was made of, a goal leaves the document it is
\* meant to: what is asked, and nothing else.
LEMMA SavedOverItsReading ==
    ASSUME NEW d \in GoalDocs, NEW month \in {0} \cup Months, NEW target \in Nat
    PROVE  /\ WithTarget(d, month, target) \in GoalDocs
           /\ SaveGoals(d, WithTarget(d, month, target)) = WithTarget(d, month, target)
PROOF
  <1>0. IsGoal(d)
    BY GoalDocsAre
  <1> DEFINE e == WithTarget(d, month, target)
  <1>1. CASE month = 0
    <2>1. e = [annual |-> target, monthly |-> d.monthly]
      BY <1>0, <1>1 DEF WithTarget, IsGoal
    <2> HIDE DEF e
    <2>2. IsGoal(e)
      BY <1>0, <2>1 DEF IsGoal
    <2>3. SaveGoals(d, e) = e
      <3>1. [m \in DOMAIN d.monthly \cup DOMAIN e.monthly |->
                IF m \in DOMAIN e.monthly THEN e.monthly[m] ELSE d.monthly[m]] = e.monthly
        BY <1>0, <2>1 DEF IsGoal
      <3> QED
        BY <2>1, <3>1 DEF SaveGoals
    <2> QED
      BY <2>2, <2>3, GoalDocsAre DEF e
  <1>2. CASE month # 0
    <2> DEFINE put == Put(d.monthly, month, target)
    <2>1. e = [annual |-> d.annual, monthly |-> put]
      BY <1>0, <1>2 DEF WithTarget, IsGoal
    <2>2. put = [m \in DOMAIN d.monthly \cup {month} |-> IF m = month THEN target ELSE d.monthly[m]]
      BY DEF Put
    <2> HIDE DEF e, put
    <2>3. DOMAIN put = DOMAIN d.monthly \cup {month}
          /\ \A m \in DOMAIN put : put[m] = IF m = month THEN target ELSE d.monthly[m]
      BY <2>2
    <2>4. put = [m \in DOMAIN put |-> put[m]]
      BY <2>2
    <2>5. IsGoal(e)
      BY <1>0, <1>2, <2>1, <2>3, <2>4 DEF IsGoal
    <2>6. SaveGoals(d, e) = e
      <3>1. [m \in DOMAIN d.monthly \cup DOMAIN put |->
                IF m \in DOMAIN put THEN put[m] ELSE d.monthly[m]] = [m \in DOMAIN put |-> put[m]]
        BY <2>3
      <3>2. DOMAIN put # {}
        BY <2>3
      <3> QED
        BY <2>1, <2>4, <3>1, <3>2 DEF SaveGoals
    <2> QED
      BY <2>5, <2>6, GoalDocsAre DEF e
  <1> QED
    BY <1>1, <1>2

\* Over any other document it leaves a document.
LEMMA SavedIsGoal ==
    ASSUME NEW d \in GoalDocs, NEW e \in GoalDocs
    PROVE  SaveGoals(d, e) \in GoalDocs
PROOF
  <1>0. IsGoal(d) /\ IsGoal(e)
    BY GoalDocsAre
  <1> DEFINE both == [m \in DOMAIN d.monthly \cup DOMAIN e.monthly |->
                         IF m \in DOMAIN e.monthly THEN e.monthly[m] ELSE d.monthly[m]]
             monthly == IF DOMAIN e.monthly = {} THEN e.monthly ELSE both
             g == SaveGoals(d, e)
  <1>1. g = [annual |-> e.annual, monthly |-> monthly]
    BY DEF SaveGoals
  <1>2. DOMAIN both = DOMAIN d.monthly \cup DOMAIN e.monthly
        /\ \A m \in DOMAIN both : both[m] = IF m \in DOMAIN e.monthly THEN e.monthly[m] ELSE d.monthly[m]
    OBVIOUS
  <1>3. both = [m \in DOMAIN both |-> both[m]]
    OBVIOUS
  <1> HIDE DEF both
  <1>4. monthly = [m \in DOMAIN monthly |-> monthly[m]] /\ DOMAIN monthly \subseteq Months
        /\ \A m \in DOMAIN monthly : monthly[m] \in Nat
    BY <1>0, <1>2, <1>3 DEF IsGoal
  <1> HIDE DEF monthly, g
  <1>5. IsGoal(g)
    BY <1>0, <1>1, <1>4 DEF IsGoal
  <1> QED
    BY <1>5, GoalDocsAre DEF g

LEMMA SetGoalTypes ==
    ASSUME PeopleTypeOK, NEW k \in Clients, NEW target \in Targets,
           NEW month \in {0} \cup MonthsOfYear(YearOf(ThisMonth)),
           SetGoal(k, YearOf(ThisMonth), month, target)
    PROVE  TypeStep(k)
PROOF
  <1> DEFINE year == YearOf(ThisMonth)
             arg == [year |-> year, month |-> month, target |-> target]
             r == Request("goal", "get", NoOne, arg)
  <1>1. Begin(k, r) /\ UNCHANGED paid
    BY DEF SetGoal
  <1>2. year \in 1 .. Years /\ month \in {0} \cup Months /\ target \in Nat
    BY ThisYearIsKnown, FinanceAssumption DEF MonthsOfYear
  <1> HIDE DEF year
  <1>3. arg \in [year : 1 .. Years, month : {0} \cup Months, target : Nat]
    BY <1>2
  <1> HIDE DEF arg
  <1>4. IsRequest(r) /\ r.op = "goal" /\ r.pc = "get" /\ r.who = NoOne /\ r.arg = arg
    BY RequestIs
  <1> HIDE DEF r
  <1>5. GoalOK(r)
    BY <1>3, <1>4 DEF GoalOK
  <1> QED
    BY <1>1, <1>4, <1>5, AskTypes, PeopleKnow

LEMMA GoalReadTypes ==
    ASSUME PeopleTypeOK, NEW k \in Clients, SetGoalReads(k)
    PROVE  TypeStep(k)
PROOF
  <1> DEFINE r == requests[k]
             q == requests'[k]
  <1>0. StoresOK /\ RequestsOK /\ RequestOK(r) /\ GoalsOK
    BY DEF PeopleTypeOK, RequestsOK
  <1>1. r.op = "goal" /\ r.pc = "get" /\ Proceed(k, "save", goals[r.arg.year])
    BY DEF SetGoalReads, At
  <1>2. GoalOK(r)
    BY <1>0, <1>1, PeopleKnow DEF RequestOK
  <1>3. Only(k) /\ SameAsk(q, r) /\ q.pc = "save" /\ q.got = goals[r.arg.year]
    BY <1>0, <1>1, ProceedStep
  <1>4. q.got \in GoalDocs
    BY <1>0, <1>2, <1>3 DEF GoalOK, GoalsOK
  <1>5. GoalOK(q)
    BY <1>2, <1>3, <1>4 DEF GoalOK, SameAsk
  <1>6. RequestOK(q)
    BY <1>1, <1>3, <1>5, PeopleKnow DEF SameAsk
  <1> QED
    BY <1>0, <1>3, <1>6 DEF SetGoalReads, OnlyRequests, TypeStep, StoresOK, signedIn, control, paid

\* What a save leaves, and what is asked for then.
LEMMA GoalSaved ==
    ASSUME PeopleTypeOK, NEW k \in Clients, SetGoalSaves(k)
    PROVE  /\ TypeStep(k) /\ GoalsOK'
           /\ \A y \in (1 .. Years) \ overtaken' : goals[y] = asked[y] => goals'[y] = asked'[y]
PROOF
  <1> DEFINE r == requests[k]
             a == r.arg
             copy == r.got
             saved == SaveGoals(goals[a.year], WithTarget(copy, a.month, a.target))
             asking == WithTarget(asked[a.year], a.month, a.target)
  <1>0. StoresOK /\ RequestsOK /\ RequestOK(r) /\ GoalsOK
    BY DEF PeopleTypeOK, RequestsOK
  <1>1. r.op = "goal" /\ r.pc = "save" /\ End(k)
    BY DEF SetGoalSaves, At
  <1>2. GoalOK(r)
    BY <1>0, <1>1, PeopleKnow DEF RequestOK
  <1>3. a.year \in 1 .. Years /\ a.month \in {0} \cup Months /\ a.target \in Nat /\ copy \in GoalDocs
        /\ goals[a.year] \in GoalDocs /\ asked[a.year] \in GoalDocs
    BY <1>0, <1>1, <1>2 DEF GoalOK, GoalsOK
  <1>4. TypeStep(k)
    <2>1. Only(k) /\ RequestOK(requests'[k])
      BY <1>0, <1>1, EndStep, IdleOK
    <2> QED
      BY <1>0, <2>1 DEF SetGoalSaves, OnlyRequests, TypeStep, StoresOK, signedIn, control, paid
  <1>5. saved \in GoalDocs /\ asking \in GoalDocs
    BY <1>3, SavedOverItsReading, SavedIsGoal
  <1>6. goals' = [goals EXCEPT ![a.year] = saved]
    BY DEF SetGoalSaves
  <1>7. asked' = [asked EXCEPT ![a.year] = asking]
    <2> DEFINE new == IF a.month = 0 THEN [asked[a.year] EXCEPT !.annual = a.target]
                      ELSE [asked[a.year] EXCEPT !.monthly = Put(asked[a.year].monthly, a.month, a.target)]
    <2>1. asked' = [asked EXCEPT ![a.year] = new]
      BY DEF SetGoalSaves
    <2>2. new = asking
      BY DEF WithTarget
    <2> HIDE DEF new, asking
    <2> QED
      BY <2>1, <2>2
  <1>8. overtaken' = IF copy = goals[a.year] THEN overtaken ELSE overtaken \cup {a.year}
    BY DEF SetGoalSaves
  <1>9. copy = goals[a.year] /\ goals[a.year] = asked[a.year] => saved = asking
    BY <1>3, SavedOverItsReading
  <1> HIDE DEF saved, asking
  <1>10. GoalsOK'
    BY <1>0, <1>5, <1>6, <1>7 DEF GoalsOK
  <1>11. ASSUME NEW y \in (1 .. Years) \ overtaken', goals[y] = asked[y]
         PROVE  goals'[y] = asked'[y]
    <2>1. goals \in [1 .. Years -> GoalDocs] /\ asked \in [1 .. Years -> GoalDocs]
      BY <1>0 DEF GoalsOK
    <2>2. CASE y = a.year
      BY <1>3, <1>6, <1>7, <1>8, <1>9, <1>11, <2>1, <2>2
    <2>3. CASE y # a.year
      BY <1>6, <1>7, <1>11, <2>1, <2>3
    <2> QED
      BY <2>2, <2>3
  <1> QED
    BY <1>4, <1>10, <1>11

-----------------------------------------------------------------------------
(* Everything has its type, and the goals are kept *)

\* The initial states, taken apart.
TheStudent == CHOOSE x \in Students : TRUE
TheTeacher == CHOOSE x \in Teachers : TRUE
Stage(p, stage) ==
    LET doc == NewDoc(p, p) IN
    CASE stage = "new" -> NoDoc
      [] stage = "invited" -> doc
      [] OTHER -> Dated(Merge(doc, Whole), 0)
StudentBegun(student, granted) ==
    LET plain == Stage(TheStudent, student) IN IF granted THEN With(plain, "until", 1) ELSE plain
StudentDoc(dated, waits, assigned, legacy) ==
    CASE assigned -> With(With(dated, "teacher", TheTeacher), "pending", waits)
      [] legacy -> Without(dated, "role")
      [] OTHER -> dated
TeacherDoc(staff, teacher) == IF teacher = "inactive" THEN [staff EXCEPT !.active = FALSE] ELSE staff

LEMMA InitIs ==
    ASSUME FinanceInit
    PROVE  \E student \in {"new", "invited", "registered"},
              teacher \in {"new", "invited", "registered", "inactive"},
              granted \in BOOLEAN, assigned \in BOOLEAN, legacy \in BOOLEAN :
             /\ student # "registered" => ~granted /\ ~assigned
             /\ legacy => student = "registered" /\ ~assigned /\ ~granted
             /\ assigned => teacher \in {"registered", "inactive"}
             /\ users = [p \in People |->
                   CASE p = TheStudent -> StudentDoc(StudentBegun(student, granted), teacher = "inactive", assigned, legacy)
                     [] p = TheTeacher -> TeacherDoc(Stage(TheTeacher, teacher), teacher)
                     [] OTHER -> Stage(p, "registered")]
             /\ accounts = [p \in People |->
                   IF users[p] = NoDoc THEN Account("new", "none", NoOne)
                   ELSE Account("live", IF p = TheStudent /\ legacy THEN "none" ELSE RoleOf(p), p)]
             /\ payments = IF granted THEN {Payment(TheStudent, 0, 1, 1)} ELSE {}
             /\ cut = IF legacy THEN {TheStudent} ELSE {}
             /\ sessions = {} /\ tokens = [p \in People |-> "no"]
             /\ today \in IF granted THEN Days ELSE {0}
             /\ clock = 0 /\ revoked = {} /\ crossed = {}
             /\ requests = [k \in Clients |-> Idle]
             /\ started = 0 /\ stops = 0 /\ outdated = {}
PROOF BY DEF FinanceInit, PeopleInit, TheStudent, TheTeacher, Stage, StudentBegun, StudentDoc, TeacherDoc

LEMMA TheyAre ==
    /\ TheStudent \in Students /\ TheTeacher \in Teachers
    /\ TheStudent \notin Teachers /\ TheTeacher \notin Students
    /\ Students \subseteq People /\ Teachers \subseteq People
PROOF BY PeopleAssumption, AccountsAssumption DEF TheStudent, TheTeacher, People

LEMMA StageIsDoc ==
    ASSUME NEW p \in People, NEW stage
    PROVE  /\ Stage(p, stage) \in Docs \cup {NoDoc}
           /\ stage # "new" => Stage(p, stage) \in Docs
PROOF
  <1>1. NewDoc(p, p) \in Docs
    BY NewIsDoc DEF Emails
  <1>2. Dated(Merge(NewDoc(p, p), Whole), 0) \in Docs
    BY <1>1, PatchesAre, MergeIsDoc, DatedIsDoc
  <1> QED
    BY <1>1, <1>2 DEF Stage

LEMMA BegunIsDoc ==
    ASSUME NEW student, NEW granted \in BOOLEAN, student # "registered" => ~granted
    PROVE  /\ StudentBegun(student, granted) \in Docs \cup {NoDoc}
           /\ student = "registered" => StudentBegun(student, granted) \in Docs
PROOF
  <1> DEFINE plain == Stage(TheStudent, student)
  <1>1. plain \in Docs \cup {NoDoc} /\ (student = "registered" => plain \in Docs)
    BY TheyAre, StageIsDoc
  <1> HIDE DEF plain
  <1>2. "until" \in Fields \ {"role", "teacher", "email"} /\ 1 \in Dates /\ 1 \in Values
    BY DEF Fields, Dates, Values
  <1>3. granted => With(plain, "until", 1) \in Docs
    BY <1>1, <1>2, WithIsDoc
  <1> QED
    BY <1>1, <1>3 DEF StudentBegun, plain

LEMMA StudentDocIsDoc ==
    ASSUME NEW dated \in Docs \cup {NoDoc}, NEW waits \in BOOLEAN, NEW assigned \in BOOLEAN, NEW legacy \in BOOLEAN,
           legacy => ~assigned, assigned \/ legacy => dated \in Docs
    PROVE  StudentDoc(dated, waits, assigned, legacy) \in Docs \cup {NoDoc}
PROOF
  <1>1. ASSUME assigned, NEW b \in BOOLEAN PROVE With(With(dated, "teacher", TheTeacher), "pending", b) \in Docs
    BY <1>1, TheyAre, AssignedIsDoc
  <1>2. ASSUME legacy PROVE Without(dated, "role") \in Docs
    BY <1>2, WithoutIsDoc
  <1>4. CASE assigned
    BY <1>1, <1>4 DEF StudentDoc
  <1>5. CASE ~assigned
    BY <1>2, <1>5 DEF StudentDoc
  <1> QED
    BY <1>4, <1>5

LEMMA TeacherDocIsDoc ==
    ASSUME NEW staff \in Docs \cup {NoDoc}, NEW teacher, teacher = "inactive" => staff \in Docs
    PROVE  TeacherDoc(staff, teacher) \in Docs \cup {NoDoc}
PROOF
  <1>1. ASSUME staff \in Docs PROVE [staff EXCEPT !.active = FALSE] \in Docs
    <2> DEFINE e == [staff EXCEPT !.active = FALSE]
    <2>1. IsDoc(staff)
      BY <1>1, DocsAre
    <2>2. e = [f \in DOMAIN staff |-> IF f = "active" THEN FALSE ELSE staff[f]]
      OBVIOUS
    <2>3. DOMAIN e = DOMAIN staff /\ \A f \in DOMAIN e : e[f] = IF f = "active" THEN FALSE ELSE staff[f]
      BY <2>2
    <2>4. e = [f \in DOMAIN e |-> e[f]] /\ FALSE \in Values
      BY <2>2 DEF Values
    <2> HIDE DEF e
    <2>5. IsDoc(e)
      BY <2>1, <2>3, <2>4 DEF IsDoc
    <2> QED
      BY <2>5, DocsAre DEF e
  <1> QED
    BY <1>1 DEF TeacherDoc

LEMMA InitTypes ==
    ASSUME FinanceInit
    PROVE  PeopleTypeOK
PROOF
  <1>1. PICK student \in {"new", "invited", "registered"},
             teacher \in {"new", "invited", "registered", "inactive"},
             granted \in BOOLEAN, assigned \in BOOLEAN, legacy \in BOOLEAN :
             /\ student # "registered" => ~granted /\ ~assigned
             /\ legacy => student = "registered" /\ ~assigned /\ ~granted
             /\ users = [p \in People |->
                   CASE p = TheStudent -> StudentDoc(StudentBegun(student, granted), teacher = "inactive", assigned, legacy)
                     [] p = TheTeacher -> TeacherDoc(Stage(TheTeacher, teacher), teacher)
                     [] OTHER -> Stage(p, "registered")]
             /\ accounts = [p \in People |->
                   IF users[p] = NoDoc THEN Account("new", "none", NoOne)
                   ELSE Account("live", IF p = TheStudent /\ legacy THEN "none" ELSE RoleOf(p), p)]
             /\ payments = IF granted THEN {Payment(TheStudent, 0, 1, 1)} ELSE {}
             /\ cut = IF legacy THEN {TheStudent} ELSE {}
             /\ tokens = [p \in People |-> "no"]
             /\ today \in IF granted THEN Days ELSE {0}
             /\ clock = 0
             /\ requests = [k \in Clients |-> Idle]
             /\ stops = 0 /\ outdated = {}
    BY InitIs
  <1> DEFINE doc == StudentDoc(StudentBegun(student, granted), teacher = "inactive", assigned, legacy)
             hers == TeacherDoc(Stage(TheTeacher, teacher), teacher)
  <1>2. doc \in Docs \cup {NoDoc}
    BY <1>1, BegunIsDoc, StudentDocIsDoc
  <1>3. hers \in Docs \cup {NoDoc}
    BY TheyAre, StageIsDoc, TeacherDocIsDoc
  <1> HIDE DEF doc, hers
  <1>4. users \in [People -> Docs \cup {NoDoc}]
    <2>1. users = [p \in People |-> CASE p = TheStudent -> doc [] p = TheTeacher -> hers
                                       [] OTHER -> Stage(p, "registered")]
      BY <1>1 DEF doc, hers
    <2>2. \A p \in People : Stage(p, "registered") \in Docs \cup {NoDoc}
      BY StageIsDoc
    <2> QED
      BY <1>2, <1>3, <2>1, <2>2
  <1>5. accounts \in [People -> Accts]
    <2>1. accounts = [p \in People |->
                    IF users[p] = NoDoc THEN Account("new", "none", NoOne)
                    ELSE Account("live", IF p = TheStudent /\ legacy THEN "none" ELSE RoleOf(p), p)]
      BY <1>1
    <2>2. ASSUME NEW p \in People, NEW claim \in Roles \cup {"none"}
          PROVE  Account("new", "none", NoOne) \in Accts /\ Account("live", claim, p) \in Accts
      BY DEF Account, Accts, Emails
    <2>3. \A p \in People : RoleOf(p) \in Roles
      BY DEF RoleOf, Roles
    <2> QED
      BY <2>1, <2>2, <2>3
  <1>6. payments \subseteq Payments
    <2>1. Payment(TheStudent, 0, 1, 1) \in Payments
      BY TheyAre DEF Payment, Payments
    <2> QED
      BY <1>1, <2>1
  <1>7. today \in Nat
    BY <1>1, PeopleAssumption
  <1>8. StoresOK
    BY <1>1, <1>4, <1>5, <1>6, <1>7, TheyAre DEF StoresOK
  <1>9. RequestsOK
    BY <1>1, IdleOK DEF RequestsOK
  <1>10. GoalsOK
    <2>1. IsGoal(NoGoals)
      <3> DEFINE none == [m \in {} |-> 0]
      <3>1. NoGoals = [annual |-> 0, monthly |-> none]
        BY DEF NoGoals
      <3>2. DOMAIN none = {} /\ none = [m \in DOMAIN none |-> none[m]]
        OBVIOUS
      <3> HIDE DEF none
      <3> QED
        BY <3>1, <3>2 DEF IsGoal
    <2> QED
      BY <2>1, GoalDocsAre DEF FinanceInit, GoalsOK
  <1> QED
    BY <1>8, <1>9, <1>10 DEF PeopleTypeOK

\* A step of the handlers and of the routes, with the request that takes it.
LEMMA StepTypes ==
    ASSUME PeopleTypeOK, NEW k \in Clients, TypeStep(k), GoalsOK'
    PROVE  PeopleTypeOK'
PROOF BY RequestsStay DEF PeopleTypeOK, TypeStep

LEMMA LogoutTypes ==
    ASSUME PeopleTypeOK, UNCHANGED <<accounts, users, tokens, requests, stops, outdated, cut, payments, today,
                                    clock, goals, asked>>
    PROVE  PeopleTypeOK'
PROOF
  <1>1. StoresOK' /\ RequestsOK' /\ GoalsOK'
    BY DEF PeopleTypeOK, StoresOK, RequestsOK, GoalsOK
  <1> QED
    BY <1>1 DEF PeopleTypeOK

LEMMA NextTypes ==
    ASSUME PeopleTypeOK, [FinanceNext]_financeVars
    PROVE  PeopleTypeOK' /\ (GoalsAreKept => GoalsAreKept')
PROOF
  <1>0. GoalsOK
    BY DEF PeopleTypeOK
  <1>1. ASSUME UNCHANGED finance PROVE GoalsOK' /\ (GoalsAreKept => GoalsAreKept')
    BY <1>0, <1>1 DEF finance, GoalsOK, GoalsAreKept
  <1>2. ASSUME NEW k \in Clients, Asks(k) \/ Handle(k) \/ Stop(k), UNCHANGED finance
        PROVE  PeopleTypeOK' /\ (GoalsAreKept => GoalsAreKept')
    BY <1>1, <1>2, AsksTypes, HandleTypes, StopTypes, StepTypes
  <1>3. ASSUME NEW p \in People, Logout(p), UNCHANGED paid, UNCHANGED finance
        PROVE  PeopleTypeOK' /\ (GoalsAreKept => GoalsAreKept')
    BY <1>1, <1>3, LogoutTypes DEF Logout, control, paid, finance
  <1>4. ASSUME NEW k \in Clients, NEW target \in Targets,
               NEW month \in {0} \cup MonthsOfYear(YearOf(ThisMonth)),
               SetGoal(k, YearOf(ThisMonth), month, target)
        PROVE  PeopleTypeOK' /\ (GoalsAreKept => GoalsAreKept')
    <2>1. UNCHANGED finance
      BY <1>4 DEF SetGoal
    <2> QED
      BY <1>1, <1>4, <2>1, SetGoalTypes, StepTypes
  <1>5. ASSUME NEW k \in Clients, SetGoalReads(k)
        PROVE  PeopleTypeOK' /\ (GoalsAreKept => GoalsAreKept')
    <2>1. UNCHANGED finance
      BY <1>5 DEF SetGoalReads
    <2> QED
      BY <1>1, <1>5, <2>1, GoalReadTypes, StepTypes
  <1>6. ASSUME NEW k \in Clients, SetGoalSaves(k)
        PROVE  PeopleTypeOK' /\ (GoalsAreKept => GoalsAreKept')
    <2>1. overtaken \subseteq overtaken'
      BY <1>6 DEF SetGoalSaves
    <2>2. TypeStep(k) /\ GoalsOK'
          /\ \A y \in (1 .. Years) \ overtaken' : goals[y] = asked[y] => goals'[y] = asked'[y]
      BY <1>6, GoalSaved
    <2> QED
      BY <2>1, <2>2, StepTypes DEF GoalsAreKept
  <1>7. ASSUME NEW from, SetExpense(from, 2)
        PROVE  PeopleTypeOK' /\ (GoalsAreKept => GoalsAreKept')
    BY <1>7, LogoutTypes DEF SetExpense, signedIn, paid, GoalsAreKept
  <1>8. CASE UNCHANGED financeVars
    BY <1>1, <1>8, LogoutTypes DEF financeVars, vars, accountVars, signedIn, control, paid, finance
  <1>9. CASE FinanceNext
    BY <1>2, <1>3, <1>4, <1>5, <1>6, <1>7, <1>9 DEF FinanceNext, PeopleNext
  <1> QED
    BY <1>8, <1>9

\* Documents, accounts, payments and goals, and all that a request keeps of
\* them over its awaits, are of their type in every state of People and Finance.
THEOREM PeopleTypes == FinanceSpec => []PeopleTypeOK
PROOF
  <1>1. FinanceInit => PeopleTypeOK
    BY InitTypes
  <1>2. PeopleTypeOK /\ [FinanceNext]_financeVars => PeopleTypeOK'
    BY NextTypes
  <1> QED
    BY <1>1, <1>2, PTL DEF FinanceSpec

\* GoalsAreKept for any years, months and targets, and however many requests:
\* the goals of finance.service.ts are as they were last asked for, but for a
\* save made of an older reading.
THEOREM GoalsInvariance == FinanceSpec => []GoalsAreKept
PROOF
  <1>1. FinanceInit => GoalsAreKept
    BY DEF FinanceInit, GoalsAreKept
  <1>2. PeopleTypeOK /\ GoalsAreKept /\ [FinanceNext]_financeVars => GoalsAreKept'
    BY NextTypes
  <1> QED
    BY <1>1, <1>2, PeopleTypes, PTL DEF FinanceSpec

-----------------------------------------------------------------------------
(* What a step does to a registration and to the students of a teacher *)

\* What rosters look at, and what a student is let in and known by.
Roster == {"teacher", "pending", "active"}
Writes(op) ==
    IF op \in {"grant", "revoke"} THEN {"until"}
    ELSE IF op = "email" THEN {"email"} ELSE IF op = "roles" THEN {"role"}
    ELSE IF op = "profile" THEN {"onboarded"} ELSE {}
Held == {"until", "email", "role", "onboarded"}
LeftAlone(op) == Held \ Writes(op)
Seen(op) == Roster \cup LeftAlone(op)

SameView(fields, d, e) == \A f \in fields : (Has(d, f) <=> Has(e, f)) /\ (Has(d, f) => d[f] = e[f])

LEMMA SeenAre ==
    ASSUME NEW op
    PROVE  /\ Roster \in SUBSET Seen(op) /\ LeftAlone(op) \in SUBSET Seen(op)
           /\ Seen(op) \cap {"name", "data"} = {} /\ (op = "profile" => "onboarded" \notin Seen(op))
PROOF BY DEF Seen, LeftAlone, Writes, Held, Roster

LEMMA ViewOfFewer ==
    ASSUME NEW fields, NEW some \in SUBSET fields, NEW d, NEW e, SameView(fields, d, e)
    PROVE  SameView(some, d, e)
PROOF BY DEF SameView

Earns(d, t) == Has(d, "teacher") /\ d["teacher"] = t /\ ~d["pending"]
Works(d) == IF Has(d, "active") THEN d["active"] ELSE FALSE

LEMMA SameViewSays ==
    ASSUME NEW d \in Docs \cup {NoDoc}, NEW e \in Docs \cup {NoDoc}, SameView(Roster, d, e), NEW t
    PROVE  (Earns(e, t) => Earns(d, t)) /\ (Works(d) => Works(e))
PROOF
  <1>1. ASSUME Earns(e, t) PROVE Earns(d, t)
    <2>1. Has(e, "teacher") /\ e["teacher"] = t /\ ~e["pending"]
      BY <1>1 DEF Earns
    <2>2. Has(d, "teacher") /\ d["teacher"] = t
      BY <2>1 DEF SameView, Roster
    <2>3. Has(d, "pending")
      <3>1. d \in Docs /\ "teacher" \in DOMAIN d
        BY <2>2 DEF Has
      <3>2. IsDoc(d)
        BY <3>1, DocsAre
      <3> QED
        BY <2>2, <3>1, <3>2 DEF Has, IsDoc
    <2>4. d["pending"] = e["pending"]
      BY <2>3 DEF SameView, Roster
    <2> QED
      BY <2>1, <2>2, <2>4 DEF Earns
  <1>2. ASSUME Works(d) PROVE Works(e)
    <2>1. Has(d, "active") /\ d["active"]
      BY <1>2 DEF Works
    <2>2. Has(e, "active") /\ d["active"] = e["active"]
      BY <2>1 DEF SameView, Roster
    <2> QED
      BY <2>1, <2>2 DEF Works
  <1> QED
    BY <1>1, <1>2

LEMMA PatchView ==
    ASSUME NEW d \in Docs \cup {NoDoc}, NEW patch \in Docs, NEW fields, DOMAIN patch \cap fields = {}
    PROVE  SameView(fields, d, Merge(d, patch))
PROOF
  <1>0. patch # NoDoc
    BY NoDocIsNone
  <1>1. CASE d = NoDoc
    BY <1>0, <1>1 DEF Merge, SameView, Has
  <1>2. CASE d # NoDoc
    <2> DEFINE e == Merge(d, patch)
    <2>1. e = [f \in DOMAIN d \cup DOMAIN patch |-> IF f \in DOMAIN patch THEN patch[f] ELSE d[f]]
      BY <1>2 DEF Merge
    <2>2. e # NoDoc
      BY MergeIsDoc, NoDocIsNone
    <2> HIDE DEF e
    <2>3. DOMAIN e = DOMAIN d \cup DOMAIN patch /\ \A f \in DOMAIN d \ DOMAIN patch : e[f] = d[f]
      BY <2>1
    <2>4. SameView(fields, d, e)
      BY <1>2, <2>2, <2>3 DEF SameView, Has
    <2> QED
      BY <2>4 DEF e
  <1> QED
    BY <1>1, <1>2

\* A copy still true, written back with what is not looked at.
LEMMA CopyView ==
    ASSUME NEW d \in Docs, NEW e \in Docs, NEW fields, SameView(fields, d, e)
    PROVE  SameView(fields, d, Merge(d, e))
PROOF
  <1> DEFINE m == Merge(d, e)
  <1>0. d # NoDoc /\ e # NoDoc /\ m # NoDoc
    BY NoDocIsNone, MergeIsDoc
  <1>1. m = [f \in DOMAIN d \cup DOMAIN e |-> IF f \in DOMAIN e THEN e[f] ELSE d[f]]
    BY <1>0 DEF Merge
  <1> HIDE DEF m
  <1>2. DOMAIN m = DOMAIN d \cup DOMAIN e /\ \A f \in DOMAIN m : m[f] = IF f \in DOMAIN e THEN e[f] ELSE d[f]
    BY <1>1
  <1>3. SameView(fields, d, m)
    BY <1>0, <1>2 DEF SameView, Has
  <1> QED
    BY <1>3 DEF m

LEMMA WithView ==
    ASSUME NEW d \in Docs, NEW field, NEW fields, field \notin fields, NEW v, With(d, field, v) \in Docs
    PROVE  SameView(fields, d, With(d, field, v))
PROOF
  <1> DEFINE e == With(d, field, v)
  <1>0. d # NoDoc /\ e # NoDoc
    BY NoDocIsNone
  <1>1. e = [f \in DOMAIN d \cup {field} |-> IF f = field THEN v ELSE d[f]]
    BY DEF With
  <1> HIDE DEF e
  <1>2. DOMAIN e = DOMAIN d \cup {field} /\ \A f \in DOMAIN d \ {field} : e[f] = d[f]
    BY <1>1
  <1>3. SameView(fields, d, e)
    BY <1>0, <1>2 DEF SameView, Has
  <1> QED
    BY <1>3 DEF e

LEMMA DatedView ==
    ASSUME NEW d \in Docs, NEW date \in Nat, NEW fields, "onboarded" \notin fields
    PROVE  SameView(fields, d, Dated(d, date))
PROOF
  <1>1. Dated(d, date) \in Docs
    BY DatedIsDoc
  <1>2. CASE Complete(d) /\ ~Has(d, "onboarded")
    BY <1>1, <1>2, WithView DEF Dated
  <1>3. CASE ~(Complete(d) /\ ~Has(d, "onboarded"))
    BY <1>3 DEF Dated, SameView
  <1> QED
    BY <1>2, <1>3

\* A profile saved over the copy it was made of, seen by who does not look at what
\* a registration says.
LEMMA ProfileView ==
    ASSUME NEW d \in Docs, NEW patch \in Docs, NEW date \in Nat, NEW fields,
           DOMAIN patch \cap fields = {}, "onboarded" \notin fields
    PROVE  SameView(fields, d, Dated(Merge(d, patch), date))
PROOF
  <1>1. Merge(d, patch) \in Docs
    BY MergeIsDoc
  <1>2. SameView(fields, d, Merge(d, patch))
    BY PatchView
  <1>3. SameView(fields, Merge(d, patch), Dated(Merge(d, patch), date))
    BY <1>1, DatedView
  <1> QED
    BY <1>2, <1>3 DEF SameView

\* Its date: as it was, or set on a whole registration.
LEMMA ProfileDates ==
    ASSUME NEW d \in Docs, NEW patch \in Docs, NEW date \in Nat, "onboarded" \notin DOMAIN patch
    PROVE  LET m == Merge(d, Dated(Merge(d, patch), date)) IN
           \/ SameView({"onboarded"}, d, m)
           \/ ~Has(d, "onboarded") /\ Complete(m)
PROOF
  <1> DEFINE full == Merge(d, patch)
             e == Dated(full, date)
             m == Merge(d, e)
  <1>1. full \in Docs /\ e \in Docs /\ m \in Docs
    BY MergeIsDoc, DatedIsDoc
  <1>2. full # NoDoc /\ e # NoDoc /\ m # NoDoc /\ d # NoDoc
    BY <1>1, NoDocIsNone
  <1>3. SameView({"onboarded"}, d, full)
    BY PatchView
  <1>4. e = IF Complete(full) /\ ~Has(full, "onboarded") THEN With(full, "onboarded", date) ELSE full
    BY DEF Dated
  <1>5. m = [f \in DOMAIN d \cup DOMAIN e |-> IF f \in DOMAIN e THEN e[f] ELSE d[f]]
    BY <1>2 DEF Merge
  <1> HIDE DEF full, e, m
  <1>6. CASE Complete(full) /\ ~Has(full, "onboarded")
    <2>1. e = [f \in DOMAIN full \cup {"onboarded"} |-> IF f = "onboarded" THEN date ELSE full[f]]
      BY <1>4, <1>6 DEF With
    <2>2. Has(full, "name") /\ Has(full, "data") /\ full["name"] /\ full["data"]
      BY <1>6 DEF Complete, Says
    <2>3. "name" \in DOMAIN e /\ "data" \in DOMAIN e /\ e["name"] = full["name"] /\ e["data"] = full["data"]
      BY <1>2, <2>1, <2>2 DEF Has
    <2>4. "name" \in DOMAIN m /\ "data" \in DOMAIN m /\ m["name"] = e["name"] /\ m["data"] = e["data"]
      BY <1>5, <2>3
    <2>5. Complete(m)
      BY <1>2, <2>2, <2>3, <2>4 DEF Complete, Says, Has
    <2>6. ~Has(d, "onboarded")
      BY <1>3, <1>6 DEF SameView
    <2> QED
      BY <2>5, <2>6 DEF full, e, m
  <1>7. CASE ~(Complete(full) /\ ~Has(full, "onboarded"))
    <2>1. e = full
      BY <1>4, <1>7
    <2>2. SameView({"onboarded"}, d, m)
      BY <1>1, <1>3, <2>1, CopyView DEF m
    <2> QED
      BY <2>2 DEF full, e, m
  <1> QED
    BY <1>6, <1>7

\* A new student has no teacher, and a new teacher works.
LEMMA NewInRosters ==
    ASSUME NEW p \in People, NEW email \in Emails
    PROVE  /\ p \in Students => ~Has(NewDoc(p, email), "teacher")
           /\ p \in Teachers => Works(NewDoc(p, email))
PROOF
  <1> DEFINE base == [email |-> email, role |-> RoleOf(p), isPaying |-> FALSE]
             doc == NewDoc(p, email)
  <1>1. ASSUME p \in Students PROVE ~Has(doc, "teacher")
    <2>1. p \notin Teachers
      BY <1>1, AccountsAssumption
    <2>2. doc = base
      BY <2>1 DEF NewDoc
    <2> QED
      BY <2>2 DEF Has
  <1>2. ASSUME p \in Teachers PROVE Works(doc)
    <2>1. doc = With(base, "active", TRUE)
      BY <1>2 DEF NewDoc
    <2>2. doc \in Docs
      BY NewIsDoc
    <2> HIDE DEF base
    <2>3. "active" \in DOMAIN doc /\ doc["active"] = TRUE
      BY <2>1 DEF With
    <2> HIDE DEF doc
    <2> QED
      BY <2>2, <2>3, NoDocIsNone DEF Works, Has
  <1> QED
    BY <1>1, <1>2

-----------------------------------------------------------------------------
\* A person after a step: as they were, removed by a deletion, created or merged
\* with a whole copy.
Kept(r, p) ==
    \/ users'[p] = users[p]
    \/ users'[p] = NoDoc /\ r.op \in Deletions
    \/ users'[p] # NoDoc /\ r.op \in Creations /\ r.who = p
    \/ \E patch \in Docs : users'[p] = Merge(users[p], patch)

\* Asked to stop, and the students not listed as waiting yet.
Stopping(t, r) == r.who = t /\ r.op = "active" /\ r.pc \in {"query", "batch"}

RosterStep(k) ==
    /\ Only(k) /\ outdated \subseteq outdated' /\ cut \subseteq cut'
    /\ \A s \in Students \ outdated', t \in Teachers :
          Earns(users'[s], t) => Earns(users[s], t) \/ (requests'[k] # requests[k] /\ Given(k, t, s))
    /\ \A t \in Teachers \ outdated' :
          Works(users[t]) => \/ Works(users'[t]) \/ Stopping(t, requests'[k])
                             \/ \A s \in Students \ outdated' : ~Earns(users'[s], t)
                             \/ requests'[k] # requests[k] /\ Dismissed(k, t)
    /\ \A t \in Teachers :
          Stopping(t, requests[k]) =>
             \/ Stopping(t, requests'[k])
             \/ \A s \in Students \ (outdated' \cup cut') : ~Earns(users'[s], t)

\* Saved for the first time, with nothing but who they are.
Creates(r, p) ==
    /\ r.op \in Creations /\ r.pc = "save" /\ r.who = p
    /\ SameView(Held, NewDoc(p, r.arg), users'[p])

\* A document is removed, created, or says what it said of all that is not asked for.
DocStays(r, p) ==
    \/ users'[p] = users[p] \/ users'[p] = NoDoc
    \/ Creates(r, p)
    \/ users[p] # NoDoc /\ SameView(LeftAlone(r.op), users[p], users'[p])

\* The date stays, or is set on a whole registration.
DateStays(p) ==
    \/ SameView({"onboarded"}, users[p], users'[p])
    \/ ~Has(users[p], "onboarded") /\ Complete(users'[p])

PersonStep(k) ==
    /\ RosterStep(k)
    /\ \A p \in People : Kept(requests[k], p)
    /\ \A p \in People \ outdated' :
          DocStays(requests[k], p) /\ (requests[k].op = "profile" => DateStays(p))

Grows == outdated \subseteq outdated' /\ cut \subseteq cut'

\* A step that says nothing new about the rosters of whom it is not outdated for.
LEMMA QuietStep ==
    ASSUME PeopleTypeOK, NEW k \in Clients, TypeStep(k), Grows, requests[k].op # "active",
           \A p \in People : Kept(requests[k], p),
           \A p \in People \ outdated' :
              \/ users'[p] = users[p]
              \/ /\ users[p] # NoDoc /\ SameView(Seen(requests[k].op), users[p], users'[p])
                 /\ requests[k].op = "profile" => DateStays(p)
    PROVE  PersonStep(k)
PROOF
  <1>1. Students \subseteq People /\ Teachers \subseteq People
    BY DEF People
  <1>2. users \in [People -> Docs \cup {NoDoc}] /\ users' \in [People -> Docs \cup {NoDoc}]
    BY DEF PeopleTypeOK, TypeStep, StoresOK
  <1>3. \A p \in People : users[p] \in Docs \cup {NoDoc} /\ users'[p] \in Docs \cup {NoDoc}
    BY <1>2
  <1>4. \A p \in People \ outdated' : SameView(Roster, users[p], users'[p])
    <2>1. \A p \in People : users'[p] = users[p] => SameView(Roster, users[p], users'[p])
      BY DEF SameView
    <2>2. Roster \in SUBSET Seen(requests[k].op)
      BY SeenAre
    <2> QED
      BY <2>1, <2>2, ViewOfFewer
  <1>5. \A p \in People \ outdated' :
           /\ \A t : Earns(users'[p], t) => Earns(users[p], t)
           /\ Works(users[p]) => Works(users'[p])
    BY <1>3, <1>4, SameViewSays
  <1>6. RosterStep(k)
    BY <1>1, <1>5 DEF RosterStep, Stopping, TypeStep, Grows
  <1>7. \A p \in People \ outdated' : DocStays(requests[k], p)
    <2>1. LeftAlone(requests[k].op) \in SUBSET Seen(requests[k].op)
      BY SeenAre
    <2> QED
      BY <2>1, ViewOfFewer DEF DocStays
  <1>8. \A p \in People \ outdated' : requests[k].op = "profile" => DateStays(p)
    BY DEF DateStays, SameView
  <1> QED
    BY <1>6, <1>7, <1>8 DEF PersonStep

LEMMA UnwrittenStep ==
    ASSUME PeopleTypeOK, NEW k \in Clients, TypeStep(k), Grows, requests[k].op # "active",
           UNCHANGED users
    PROVE  PersonStep(k)
PROOF
  <1>1. \A p \in People : Kept(requests[k], p)
    BY DEF Kept
  <1> QED
    BY <1>1, QuietStep

\* A document merged with a patch that leaves the rosters, or else is outdated.
LEMMA MergeStep ==
    ASSUME PeopleTypeOK, NEW k \in Clients, TypeStep(k), Grows, requests[k].op # "active",
           NEW p \in People, NEW patch \in Docs,
           users' = [users EXCEPT ![p] = Merge(users[p], patch)],
           p \notin outdated' =>
              users[p] # NoDoc /\ SameView(Seen(requests[k].op), users[p], Merge(users[p], patch)),
           requests[k].op = "profile" => p \in outdated' \/ DateStays(p)
    PROVE  PersonStep(k)
PROOF
  <1>1. users \in [People -> Docs \cup {NoDoc}]
    BY DEF PeopleTypeOK, StoresOK
  <1> DEFINE d == Merge(users[p], patch)
  <1>2. users' = [users EXCEPT ![p] = d]
    OBVIOUS
  <1> HIDE DEF d
  <1>3. \A x \in People : users'[x] = IF x = p THEN d ELSE users[x]
    BY <1>1, <1>2
  <1>4. \A x \in People : Kept(requests[k], x)
    BY <1>3 DEF Kept, d
  <1>5. \A x \in People \ outdated' :
           \/ users'[x] = users[x]
           \/ /\ users[x] # NoDoc /\ SameView(Seen(requests[k].op), users[x], users'[x])
              /\ requests[k].op = "profile" => DateStays(x)
    BY <1>3 DEF d
  <1> QED
    BY <1>4, <1>5, QuietStep

\* The request that takes a step.
LEMMA WhoSteps ==
    ASSUME PeopleTypeOK, NEW k \in Clients
    PROVE  /\ RequestOK(requests[k]) /\ IsRequest(requests[k])
           /\ users \in [People -> Docs \cup {NoDoc}]
           /\ Students \subseteq People /\ Teachers \subseteq People
PROOF BY DEF PeopleTypeOK, RequestsOK, RequestOK, StoresOK, People

LEMMA CreateSteps ==
    ASSUME PeopleTypeOK, NEW k \in Clients,
           CreateAccount(k) \/ CreateClaims(k) \/ CreateSaves(k) \/ InviteMails(k) \/ CreateUndoes(k),
           UNCHANGED paid
    PROVE  PersonStep(k)
PROOF
  <1> DEFINE r == requests[k]
             p == r.who
  <1>0. RequestOK(r) /\ IsRequest(r) /\ users \in [People -> Docs \cup {NoDoc}]
        /\ Students \subseteq People /\ Teachers \subseteq People
    BY WhoSteps
  <1>a. r.op \in Creations /\ r.op \notin {"active", "profile"}
    BY <1>0, AwaitTells DEF CreateAccount, CreateClaims, CreateSaves, InviteMails, CreateUndoes, At, Creations
  <1>b. CreationOK(r)
    BY <1>0, <1>a, CreationKnows
  <1>c. p \in People /\ r.arg \in Emails
    BY <1>b DEF CreationOK, Addresses, Emails
  <1>d. TypeStep(k)
    BY CreateTypes
  <1>1. CASE UNCHANGED users
    <2>1. Grows
      BY DEF CreateAccount, CreateClaims, CreateSaves, InviteMails, CreateUndoes, control, Mark, Grows
    <2> QED
      BY <1>1, <1>a, <1>d, <2>1, UnwrittenStep
  <1>2. CASE CreateSaves(k) /\ users' # users
    <2> DEFINE doc == NewDoc(p, r.arg)
               d == IF r.op = "create" THEN With(doc, "name", TRUE) ELSE doc
    <2>1. users' = [users EXCEPT ![p] = d] /\ UNCHANGED <<outdated, cut>>
      BY <1>2 DEF CreateSaves
    <2>2. doc \in Docs /\ d \in Docs
      <3>1. doc \in Docs
        BY <1>c, NewIsDoc
      <3>2. "name" \in Fields \ {"role", "teacher"} /\ TRUE \in Values
        BY DEF Fields, Values
      <3> QED
        BY <3>1, <3>2, WithIsDoc
    <2>3. SameView(Held, doc, d) /\ SameView(Roster, doc, d)
      <3>1. SameView(Held, doc, doc) /\ SameView(Roster, doc, doc)
        BY DEF SameView
      <3>2. "name" \notin Held \cup Roster
        BY DEF Held, Roster
      <3>3. r.op = "create" => SameView(Held, doc, With(doc, "name", TRUE))
                               /\ SameView(Roster, doc, With(doc, "name", TRUE))
        BY <2>2, <3>2, WithView
      <3> QED
        BY <3>1, <3>3
    <2>4. (p \in Students => ~Has(doc, "teacher")) /\ (p \in Teachers => Works(doc))
      BY <1>c, NewInRosters
    <2>6. (p \in Students => \A t : ~Earns(d, t)) /\ (p \in Teachers => Works(d))
      <3>1. p \in Students => ~Has(d, "teacher")
        BY <2>3, <2>4 DEF SameView, Roster
      <3>2. p \in Teachers => Works(d)
        BY <2>2, <2>3, <2>4, SameViewSays
      <3> HIDE DEF d
      <3> QED
        BY <3>1, <3>2 DEF Earns
    <2> HIDE DEF d
    <2>7. \A x \in People : users'[x] = IF x = p THEN d ELSE users[x]
      BY <1>0, <2>1
    <2>8. \A x \in People : Kept(requests[k], x)
      <3>1. d # NoDoc
        BY <2>2, NoDocIsNone DEF d
      <3> QED
        BY <1>a, <2>7, <3>1 DEF Kept
    <2>10. \A x \in People : DocStays(r, x)
      BY <1>2, <1>a, <2>3, <2>7 DEF DocStays, Creates, CreateSaves
    <2>9. RosterStep(k)
      BY <1>0, <1>a, <1>d, <2>1, <2>6, <2>7 DEF RosterStep, Stopping, TypeStep
    <2> QED
      BY <1>a, <2>8, <2>9, <2>10 DEF PersonStep
  <1> QED
    BY <1>1, <1>2 DEF CreateAccount, CreateClaims, InviteMails, CreateUndoes

LEMMA SignInSteps ==
    ASSUME PeopleTypeOK, NEW k \in Clients,
           SignIn(k) \/ LoginResolves(k) \/ LoginClaims(k) \/ LoginReissues(k),
           UNCHANGED paid
    PROVE  PersonStep(k)
PROOF
  <1> DEFINE r == requests[k]
  <1>0. RequestOK(r)
    BY WhoSteps
  <1>1. r.op \in SignIns
    BY <1>0, AwaitTells DEF SignIn, LoginResolves, LoginClaims, LoginReissues
  <1>2. Grows /\ UNCHANGED users
    BY DEF SignIn, LoginResolves, LoginClaims, LoginReissues, OnlyRequests, control, Mark, Grows
  <1>3. r.op # "active"
    BY <1>1 DEF SignIns
  <1> QED
    BY <1>2, <1>3, SignInTypes, UnwrittenStep

LEMMA EmailSteps ==
    ASSUME PeopleTypeOK, NEW k \in Clients,
           EmailChangesAccount(k) \/ EmailChangesDocument(k) \/ EmailUndoes(k),
           UNCHANGED paid
    PROVE  PersonStep(k)
PROOF
  <1> DEFINE r == requests[k]
             p == r.who
  <1>0. RequestOK(r) /\ IsRequest(r) /\ users \in [People -> Docs \cup {NoDoc}]
    BY WhoSteps
  <1>1. r.op = "email" /\ r.op # "active"
    BY DEF EmailChangesAccount, EmailChangesDocument, EmailUndoes, At
  <1>2. p \in People /\ r.arg \in Emails
    BY <1>0, <1>1, EmailKnows DEF EmailOK, Addresses, Emails
  <1>3. TypeStep(k)
    BY EmailTypes
  <1>4. Grows
    BY DEF EmailChangesAccount, EmailChangesDocument, EmailUndoes, control, Mark, Grows
  <1>5. \/ UNCHANGED users
        \/ /\ users' = [users EXCEPT ![p] = Merge(users[p], [email |-> r.arg])]
           /\ p \notin outdated' => users[p] # NoDoc
    BY DEF EmailChangesAccount, EmailChangesDocument, EmailUndoes, Mark
  <1> DEFINE patch == [email |-> r.arg]
  <1>6. patch \in Docs /\ DOMAIN patch \cap Seen(r.op) = {}
    BY <1>1, <1>2, PatchIsDoc DEF Seen, LeftAlone, Writes, Held, Roster
  <1> HIDE DEF patch
  <1>7. SameView(Seen(r.op), users[p], Merge(users[p], patch))
    BY <1>0, <1>2, <1>6, PatchView
  <1> QED
    BY <1>1, <1>2, <1>3, <1>4, <1>5, <1>6, <1>7, UnwrittenStep, MergeStep DEF patch

LEMMA EditSteps ==
    ASSUME PeopleTypeOK, NEW k \in Clients,
           UpdateOwnProfileReads(k) \/ UpdateOwnProfileSaves(k) \/ UpdateUserReads(k) \/ UpdateUserSaves(k),
           UNCHANGED paid
    PROVE  PersonStep(k)
PROOF
  <1> DEFINE r == requests[k]
             p == r.who
  <1>0. RequestOK(r) /\ IsRequest(r) /\ users \in [People -> Docs \cup {NoDoc}]
    BY WhoSteps
  <1>1. r.op \in {"profile", "edit"} /\ r.op # "active"
    BY DEF UpdateOwnProfileReads, GetOrThrow, UpdateOwnProfileSaves, UpdateUserReads, UpdateUserSaves, At
  <1>2. EditOK(r) /\ (r.op = "profile" => DOMAIN r.arg \subseteq {"name", "data"}) /\ p \in People
    BY <1>0, <1>1, EditKnows DEF EditOK
  <1>3. TypeStep(k)
    BY EditTypes
  <1>4. Grows
    BY DEF UpdateOwnProfileReads, GetOrThrow, UpdateOwnProfileSaves, UpdateUserReads, UpdateUserSaves,
           WriteCopy, OnlyRequests, control, Mark, Grows
  <1>5. CASE UpdateOwnProfileReads(k) \/ UpdateUserReads(k)
    <2>1. UNCHANGED users
      BY <1>5 DEF UpdateOwnProfileReads, UpdateUserReads, GetOrThrow, OnlyRequests
    <2> QED
      BY <1>1, <1>3, <1>4, <2>1, UnwrittenStep
  <1>6. CASE UpdateOwnProfileSaves(k)
    <2>1. r.op = "profile" /\ r.copy \in Docs /\ r.arg \in Docs /\ DOMAIN r.arg \subseteq {"name", "data"}
      BY <1>6, <1>2 DEF EditOK, UpdateOwnProfileSaves, At
    <2> DEFINE now == Now(p)
               patch == Dated(Merge(r.copy, r.arg), now)
    <2>a. now \in Nat
      BY <1>2, NowIsDate DEF PeopleTypeOK
    <2>3. users' = [users EXCEPT ![p] = Merge(users[p], patch)]
          /\ (p \notin outdated' => users[p] = r.copy)
      BY <1>6 DEF UpdateOwnProfileSaves, WriteCopy, Mark
    <2> HIDE DEF now
    <2>b. DOMAIN r.arg \cap Seen(r.op) = {} /\ "onboarded" \notin Seen(r.op) /\ "onboarded" \notin DOMAIN r.arg
      BY <2>1, SeenAre
    <2>2. patch \in Docs /\ SameView(Seen(r.op), r.copy, patch)
      BY <2>1, <2>a, <2>b, MergeIsDoc, DatedIsDoc, ProfileView
    <2>5. SameView({"onboarded"}, r.copy, Merge(r.copy, patch))
          \/ (~Has(r.copy, "onboarded") /\ Complete(Merge(r.copy, patch)))
      BY <2>1, <2>a, <2>b, ProfileDates
    <2> HIDE DEF patch
    <2>4. p \notin outdated' => users[p] # NoDoc /\ SameView(Seen(r.op), users[p], Merge(users[p], patch))
      BY <2>1, <2>2, <2>3, CopyView, NoDocIsNone
    <2>6. p \notin outdated' => DateStays(p)
      <3> DEFINE m == Merge(users[p], patch)
      <3>1. users' = [users EXCEPT ![p] = m]
        BY <2>3
      <3> HIDE DEF m
      <3>2. users'[p] = m
        BY <1>0, <1>2, <3>1
      <3> QED
        BY <2>3, <2>5, <3>2 DEF DateStays, m
    <2> QED
      BY <1>1, <1>2, <1>3, <1>4, <2>2, <2>3, <2>4, <2>6, MergeStep
  <1>7. CASE UpdateUserSaves(k)
    <2> DEFINE patch == Merge(r.copy, r.arg)
    <2>1. r.op = "edit" /\ r.copy \in Docs /\ r.arg \in Docs /\ DOMAIN r.arg \subseteq {"name", "data", "email"}
      BY <1>7, <1>2 DEF EditOK, UpdateUserSaves, At
    <2>2. patch \in Docs
      BY <2>1, MergeIsDoc
    <2>3. users' = [users EXCEPT ![p] = Merge(users[p], patch)]
          /\ (p \notin outdated' => users[p] = r.copy /\ "email" \notin DOMAIN r.arg)
      BY <1>7 DEF UpdateUserSaves, Mark
    <2>4. "email" \notin DOMAIN r.arg => SameView(Seen(r.op), r.copy, patch)
      BY <2>1, SeenAre, PatchView
    <2> HIDE DEF patch
    <2>5. p \notin outdated' => users[p] # NoDoc /\ SameView(Seen(r.op), users[p], Merge(users[p], patch))
      BY <2>1, <2>2, <2>3, <2>4, CopyView, NoDocIsNone
    <2> QED
      BY <1>1, <1>2, <1>3, <1>4, <2>1, <2>2, <2>3, <2>5, MergeStep
  <1> QED
    BY <1>5, <1>6, <1>7

LEMMA DeletionSteps ==
    ASSUME PeopleTypeOK, NEW k \in Clients,
           DeleteInviteReads(k) \/ DeleteInviteReadsStudents(k) \/ DeleteDoc(k) \/ DeleteAccount(k),
           UNCHANGED paid
    PROVE  PersonStep(k)
PROOF
  <1> DEFINE r == requests[k]
             p == r.who
  <1>0. RequestOK(r) /\ IsRequest(r) /\ users \in [People -> Docs \cup {NoDoc}]
        /\ Students \subseteq People /\ Teachers \subseteq People
    BY WhoSteps
  <1>1. r.op \in Deletions /\ r.op \notin {"active", "profile"}
    BY DEF DeleteInviteReads, DeleteInviteReadsStudents, DeleteDoc, DeleteAccount, At, Deletions
  <1>2. DeletionOK(r) /\ p \in People
    BY <1>0, <1>1, DeletionKnows DEF DeletionOK
  <1>3. TypeStep(k)
    BY DeletionTypes
  <1>4. Grows
    BY DEF DeleteInviteReads, DeleteInviteReadsStudents, DeleteDoc, DeleteAccount, OnlyRequests, control,
           Mark, Grows
  <1>5. CASE UNCHANGED users
    BY <1>1, <1>3, <1>4, <1>5, UnwrittenStep
  <1>6. CASE DeleteDoc(k)
    <2>1. users' = [users EXCEPT ![p] = NoDoc]
      BY <1>6 DEF DeleteDoc
    <2>2. \A x \in People : users'[x] = IF x = p THEN NoDoc ELSE users[x]
      BY <1>0, <2>1
    <2>3. r.op # "delete" => StudentsOf(p) \subseteq outdated'
      BY <1>1, <1>2, <1>6 DEF DeleteDoc, DeletionOK, Mark
    <2>a. requests'[k].pc = "account" /\ requests'[k] # r
      BY <1>0, <1>6, ProceedStep DEF DeleteDoc, PeopleTypeOK
    <2>b. r.op = "delete" => Dismissed(k, p)
      BY <1>6 DEF DeleteDoc, Dismissed, At
    <2>4. \A t : ~Earns(NoDoc, t)
      BY DEF Earns, Has
    <2>5. r.op # "delete" => \A s \in Students \ outdated' : ~Earns(users'[s], p)
      <3>1. \A s \in Students : Earns(users[s], p) => s \in StudentsOf(p)
        BY DEF Earns, StudentsOf
      <3> QED
        BY <1>0, <2>2, <2>3, <2>4, <3>1
    <2>6. \A s \in Students, t \in Teachers : Earns(users'[s], t) => Earns(users[s], t)
      BY <1>0, <2>2, <2>4
    <2>7. \A t \in Teachers : t = p \/ users'[t] = users[t]
      BY <1>0, <2>2
    <2>8. RosterStep(k)
      BY <1>1, <1>3, <1>4, <2>a, <2>b, <2>5, <2>6, <2>7 DEF RosterStep, Stopping, TypeStep, Grows
    <2>9. \A x \in People : Kept(requests[k], x) /\ DocStays(r, x)
      BY <1>1, <2>2 DEF Kept, DocStays
    <2> QED
      BY <1>1, <2>8, <2>9 DEF PersonStep
  <1> QED
    BY <1>5, <1>6 DEF DeleteInviteReads, DeleteInviteReadsStudents, DeleteAccount, OnlyRequests

LEMMA MigrationSteps ==
    ASSUME PeopleTypeOK, NEW k \in Clients,
           \/ MigrateLists(k) \/ MigrateClaims(k) \/ MigrateEnds(k)
           \/ \E p \in People : MigrateCreates(k, p) \/ SyncRoleReads(k, p),
           UNCHANGED paid
    PROVE  PersonStep(k)
PROOF
  <1> DEFINE r == requests[k]
  <1>0. users \in [People -> Docs \cup {NoDoc}] /\ \A p \in People : users[p] \in Docs \cup {NoDoc}
    BY WhoSteps
  <1>1. r.op \notin {"active", "profile"} /\ TypeStep(k)
    BY MigrationMoves, MigrationTypes DEF MigrationStep, Migrations
  <1>2. Grows
    BY DEF MigrateLists, MigrateClaims, MigrateEnds, MigrateCreates, SyncRoleReads, OnlyRequests, control,
           Mark, Grows
  <1>3. CASE UNCHANGED users
    BY <1>1, <1>2, <1>3, UnwrittenStep
  <1>4. CASE MigrateEnds(k)
    <2> DEFINE ids == IF r.op = "roles" THEN r.arg ELSE {}
               patch == [role |-> "student"]
    <2>1. users' = [p \in People |-> IF p \in ids THEN Merge(users[p], patch) ELSE users[p]]
      BY <1>4 DEF MigrateEnds
    <2>2. patch \in Docs /\ (r.op = "roles" => DOMAIN patch \cap Seen(r.op) = {})
      BY PatchIsDoc DEF Seen, LeftAlone, Writes, Held, Roster
    <2>5. (r.op # "roles" => ids = {}) /\ \A p \in ids \ outdated' : users[p] # NoDoc
      BY <1>4 DEF MigrateEnds, Mark
    <2> HIDE DEF patch, ids
    <2>3. \A p \in People : r.op = "roles" => SameView(Seen(r.op), users[p], Merge(users[p], patch))
      BY <1>0, <2>2, PatchView
    <2>4. \A p \in People : Kept(requests[k], p)
      BY <2>1, <2>2 DEF Kept
    <2>6. \A p \in People \ outdated' :
             users'[p] = users[p] \/ (users[p] # NoDoc /\ SameView(Seen(r.op), users[p], users'[p]))
      BY <2>1, <2>3, <2>5
    <2> QED
      BY <1>1, <1>2, <2>4, <2>6, QuietStep
  <1> QED
    BY <1>3, <1>4 DEF MigrateLists, MigrateClaims, MigrateCreates, SyncRoleReads, OnlyRequests

LEMMA AccessSteps ==
    ASSUME PeopleTypeOK, NEW k \in Clients,
           \/ GrantReads(k) \/ GrantWrites(k) \/ GrantRecords(k) \/ GrantUndoes(k)
           \/ RevokeReads(k) \/ RevokeReadsLast(k) \/ RevokeWrites(k) \/ RevokeFinds(k) \/ RevokeVoids(k)
    PROVE  PersonStep(k)
PROOF
  <1> DEFINE r == requests[k]
             p == r.who
  <1>0. RequestOK(r) /\ IsRequest(r) /\ users \in [People -> Docs \cup {NoDoc}] /\ Students \subseteq People
    BY WhoSteps
  <1>1. r.op \in {"grant", "revoke"} /\ r.op # "active"
    BY DEF GrantReads, GrantWrites, GrantRecords, GrantUndoes, RevokeReads, GetOrThrow, RevokeReadsLast,
           RevokeWrites, RevokeFinds, RevokeVoids, At
  <1>2. p \in People
    BY <1>0, <1>1, PeopleKnow DEF GrantOK, RevokeOK
  <1>3. TypeStep(k)
    BY GrantTypes, RevokeTypes
  <1>4. Grows
    BY DEF GrantReads, GrantWrites, GrantRecords, GrantUndoes, RevokeReads, GetOrThrow, RevokeReadsLast,
           RevokeWrites, RevokeFinds, RevokeVoids, OnlyRequests, control, Mark, Grows
  <1>5. ASSUME NEW until \in Dates, UpdateManualAccess(p, until), p \notin outdated' => users[p] # NoDoc
        PROVE  PersonStep(k)
    <2> DEFINE patch == [until |-> until]
    <2>1. patch \in Docs /\ DOMAIN patch \cap Seen(r.op) = {}
      BY <1>1, PatchIsDoc DEF Seen, LeftAlone, Writes, Held, Roster
    <2>2. users' = [users EXCEPT ![p] = Merge(users[p], patch)]
      BY <1>5 DEF UpdateManualAccess
    <2> HIDE DEF patch
    <2>3. SameView(Seen(r.op), users[p], Merge(users[p], patch))
      BY <1>0, <1>2, <2>1, PatchView
    <2> QED
      BY <1>1, <1>2, <1>3, <1>4, <1>5, <2>1, <2>2, <2>3, MergeStep
  <1>6. CASE UNCHANGED users
    BY <1>1, <1>3, <1>4, <1>6, UnwrittenStep
  <1>7. CASE GrantWrites(k)
    <2>1. r.got.until \in Dates
      BY <1>0, <1>7, PeopleKnow DEF GrantWrites, At, GrantOK, Payments, Dates
    <2> QED
      BY <1>5, <1>7, <2>1 DEF GrantWrites, Mark
  <1>8. CASE GrantUndoes(k)
    <2>1. DaysBefore(r.got.until, r.copy) \in Dates
      BY <1>0, <1>8, PeopleKnow, UntilIsDate DEF GrantUndoes, At, GrantOK, DaysBefore
    <2>2. r.got.until \in Nat
      BY <1>0, <1>8, PeopleKnow DEF GrantUndoes, At, GrantOK, Payments
    <2>3. Until(NoDoc) # r.got.until
      BY <2>2, PeopleAssumption DEF Until, Has
    <2>4. p \notin outdated' => users[p] # NoDoc
      BY <1>8, <2>3 DEF GrantUndoes, Mark
    <2> QED
      BY <1>5, <1>8, <2>1, <2>4 DEF GrantUndoes
  <1>9. CASE RevokeWrites(k)
    BY <1>5, <1>9 DEF RevokeWrites, Dates, Mark
  <1> QED
    BY <1>6, <1>7, <1>8, <1>9
    DEF GrantReads, GrantRecords, RevokeReads, GetOrThrow, RevokeReadsLast, RevokeFinds, RevokeVoids, OnlyRequests

\* Over whatever is there, one released waits and earns for nobody.
LEMMA WaitingEarnsNot ==
    ASSUME NEW d \in Docs \cup {NoDoc}, NEW patch \in Docs, "pending" \in DOMAIN patch, patch["pending"] = TRUE
    PROVE  \A t : ~Earns(Merge(d, patch), t)
PROOF
  <1> DEFINE m == Merge(d, patch)
  <1>1. CASE d = NoDoc
    BY <1>1 DEF Merge, Earns
  <1>2. CASE d # NoDoc
    <2>1. m = [f \in DOMAIN d \cup DOMAIN patch |-> IF f \in DOMAIN patch THEN patch[f] ELSE d[f]]
      BY <1>2 DEF Merge
    <2> HIDE DEF m
    <2>2. m["pending"] = TRUE
      BY <2>1
    <2>3. \A t : ~Earns(m, t)
      BY <2>2 DEF Earns
    <2> QED
      BY <2>3 DEF m
  <1> QED
    BY <1>1, <1>2

LEMMA ReleasedWaits ==
    ASSUME NEW copy \in Docs
    PROVE  "pending" \in DOMAIN Released(copy) /\ Released(copy)["pending"] = TRUE
PROOF
  <1> DEFINE c == Without(copy, "teacher")
  <1>1. Released(copy) = [f \in DOMAIN c \cup {"pending"} |-> IF f = "pending" THEN TRUE ELSE c[f]]
    BY DEF Released, With
  <1> HIDE DEF c
  <1> QED
    BY <1>1

LEMMA AssignedTo ==
    ASSUME NEW d \in Docs \cup {NoDoc}, NEW copy \in Docs, NEW t \in Teachers, NEW x,
           Earns(Merge(d, Assigned(copy, t)), x)
    PROVE  x = t
PROOF
  <1> DEFINE c == With(copy, "teacher", t)
             a == Assigned(copy, t)
             m == Merge(d, a)
  <1>1. c = [f \in DOMAIN copy \cup {"teacher"} |-> IF f = "teacher" THEN t ELSE copy[f]]
    BY DEF With
  <1>2. a = [f \in DOMAIN c \cup {"pending"} |-> IF f = "pending" THEN FALSE ELSE c[f]]
    BY DEF With, Assigned
  <1> HIDE DEF c, a
  <1>3. "teacher" \in DOMAIN a /\ a["teacher"] = t
    BY <1>1, <1>2
  <1>4. m["teacher"] = t
    <2>1. CASE d = NoDoc
      BY <1>3, <2>1 DEF Merge
    <2>2. CASE d # NoDoc
      <3>1. m = [f \in DOMAIN d \cup DOMAIN a |-> IF f \in DOMAIN a THEN a[f] ELSE d[f]]
        BY <2>2 DEF Merge
      <3> HIDE DEF m
      <3> QED
        BY <1>3, <3>1
    <2> QED
      BY <2>1, <2>2
  <1>5. Earns(m, x)
    BY DEF a
  <1> HIDE DEF m
  <1> QED
    BY <1>4, <1>5 DEF Earns

\* Assigned or released, a copy says the same of all but the teacher.
LEMMA AssignedView ==
    ASSUME NEW copy \in Docs, NEW t \in Teachers
    PROVE  SameView(Held, copy, Assigned(copy, t)) /\ SameView(Held, copy, Released(copy))
PROOF
  <1> DEFINE c == With(copy, "teacher", t)
             a == Assigned(copy, t)
             w == Without(copy, "teacher")
             d == Released(copy)
  <1>0. copy # NoDoc /\ a # NoDoc /\ d # NoDoc
    BY AssignedIsDoc, ReleasedIsDoc, NoDocIsNone DEF Assigned
  <1>1. c = [f \in DOMAIN copy \cup {"teacher"} |-> IF f = "teacher" THEN t ELSE copy[f]]
        /\ w = [f \in DOMAIN copy \ {"teacher"} |-> copy[f]]
    BY DEF With, Without
  <1>2. a = [f \in DOMAIN c \cup {"pending"} |-> IF f = "pending" THEN FALSE ELSE c[f]]
        /\ d = [f \in DOMAIN w \cup {"pending"} |-> IF f = "pending" THEN TRUE ELSE w[f]]
    BY DEF With, Assigned, Released
  <1> HIDE DEF a, c, d, w
  <1>3. \A f \in Held : f # "teacher" /\ f # "pending"
    BY DEF Held
  <1>4. SameView(Held, copy, a)
    BY <1>0, <1>1, <1>2, <1>3 DEF SameView, Has
  <1>5. SameView(Held, copy, d)
    BY <1>0, <1>1, <1>2, <1>3 DEF SameView, Has
  <1> QED
    BY <1>4, <1>5 DEF a, d

\* A student merged with a patch: who earns for them then, earned before or is given
\* them.
LEMMA StudentStep ==
    ASSUME PeopleTypeOK, NEW k \in Clients, TypeStep(k), Grows, requests[k].op \notin {"active", "profile"},
           NEW s \in Students, NEW patch \in Docs,
           users' = [users EXCEPT ![s] = Merge(users[s], patch)],
           s \notin outdated' =>
              /\ users[s] # NoDoc /\ SameView(LeftAlone(requests[k].op), users[s], Merge(users[s], patch))
              /\ \A t \in Teachers : Earns(Merge(users[s], patch), t) =>
                    Earns(users[s], t) \/ (requests'[k] # requests[k] /\ Given(k, t, s))
    PROVE  PersonStep(k)
PROOF
  <1>0. users \in [People -> Docs \cup {NoDoc}] /\ Students \subseteq People /\ Teachers \subseteq People
    BY WhoSteps
  <1> DEFINE d == Merge(users[s], patch)
  <1>1. \A x \in People : users'[x] = IF x = s THEN d ELSE users[x]
    <2> HIDE DEF d
    <2>1. users' = [users EXCEPT ![s] = d]
      BY DEF d
    <2> QED
      BY <1>0, <2>1
  <1>2. \A x \in People : Kept(requests[k], x)
    <2> HIDE DEF d
    <2>1. d = Merge(users[s], patch)
      BY DEF d
    <2> QED
      BY <1>1, <2>1 DEF Kept
  <1>3. \A t \in Teachers : users'[t] = users[t]
    BY <1>0, <1>1, AccountsAssumption
  <1>4. \A x \in Students \ outdated', t \in Teachers :
           Earns(users'[x], t) => Earns(users[x], t) \/ (requests'[k] # requests[k] /\ Given(k, t, x))
    <2> HIDE DEF d
    <2>1. s \notin outdated' => \A t \in Teachers : Earns(d, t) =>
             Earns(users[s], t) \/ (requests'[k] # requests[k] /\ Given(k, t, s))
      BY DEF d
    <2> QED
      BY <1>0, <1>1, <2>1
  <1>5. \A x \in People \ outdated' : DocStays(requests[k], x)
    BY <1>1 DEF DocStays
  <1>6. RosterStep(k)
    BY <1>3, <1>4 DEF RosterStep, Stopping, TypeStep, Grows
  <1> QED
    BY <1>2, <1>5, <1>6 DEF PersonStep

LEMMA AssignSteps ==
    ASSUME PeopleTypeOK, NEW k \in Clients,
           \/ AssignReads(k) \/ AssignReadsCurrent(k) \/ AssignReleases(k) \/ AssignReadsStudent(k)
           \/ AssignSaves(k)
           \/ UpdateAssignmentReads(k) \/ UpdateAssignmentReadsTeacher(k) \/ UpdateAssignmentSaves(k)
    PROVE  PersonStep(k)
PROOF
  <1> DEFINE r == requests[k]
  <1>0. RequestOK(r) /\ IsRequest(r) /\ users \in [People -> Docs \cup {NoDoc}] /\ Students \subseteq People
    BY WhoSteps
  <1>1. r.op \in {"assign", "assignment"} /\ r.op \notin {"active", "profile"}
    BY DEF AssignReads, GetOrThrow, AssignReadsCurrent, AssignReleases, AssignReadsStudent, AssignSaves,
           UpdateAssignmentReads, UpdateAssignmentReadsTeacher, UpdateAssignmentSaves, At
  <1>2. TypeStep(k)
    BY RosterTypes, AssignmentTypes
  <1>3. Grows
    BY DEF AssignReads, GetOrThrow, AssignReadsCurrent, AssignReleases, AssignReadsStudent, AssignSaves,
           UpdateAssignmentReads, UpdateAssignmentReadsTeacher, UpdateAssignmentSaves, OnlyRequests, control,
           Mark, Grows
  <1>4. CASE UNCHANGED users
    BY <1>1, <1>2, <1>3, <1>4, UnwrittenStep
  <1>a. LeftAlone(r.op) \in SUBSET Held
    BY DEF LeftAlone
  <1>b. ASSUME NEW s \in Students, NEW copy \in Docs, s \notin outdated' => users[s] = copy,
               NEW patch \in Docs, SameView(Held, copy, patch)
        PROVE  s \notin outdated' => users[s] # NoDoc /\ SameView(LeftAlone(r.op), users[s], Merge(users[s], patch))
    BY <1>a, <1>b, CopyView, ViewOfFewer, NoDocIsNone
  <1>5. ASSUME NEW s \in Students, NEW copy \in Docs, s \notin outdated' => users[s] = copy,
               users' = [users EXCEPT ![s] = Merge(users[s], Released(copy))]
        PROVE  PersonStep(k)
    <2>1. Released(copy) \in Docs
      BY ReleasedIsDoc
    <2>2. users[s] \in Docs \cup {NoDoc}
      BY <1>0
    <2>3. \A t : ~Earns(Merge(users[s], Released(copy)), t)
      BY <2>1, <2>2, ReleasedWaits, WaitingEarnsNot
    <2>4. SameView(Held, copy, Released(copy))
      BY AssignedView, PeopleAssumption
    <2>5. s \notin outdated' => users[s] # NoDoc
                                /\ SameView(LeftAlone(r.op), users[s], Merge(users[s], Released(copy)))
      BY <1>b, <1>5, <2>1, <2>4
    <2> QED
      BY <1>1, <1>2, <1>3, <1>5, <2>1, <2>3, <2>5, StudentStep
  <1>6. ASSUME NEW s \in Students, NEW copy \in Docs, NEW t \in Teachers,
               s \notin outdated' => users[s] = copy,
               users' = [users EXCEPT ![s] = Merge(users[s], Assigned(copy, t))],
               Given(k, t, s), requests'[k] # r
        PROVE  PersonStep(k)
    <2>1. Assigned(copy, t) \in Docs
      BY AssignedIsDoc DEF Assigned
    <2>2. users[s] \in Docs \cup {NoDoc}
      BY <1>0
    <2>4. \A x \in Teachers : Earns(Merge(users[s], Assigned(copy, t)), x) => x = t
      BY <2>2, AssignedTo
    <2>5. s \notin outdated' => users[s] # NoDoc
                                /\ SameView(LeftAlone(r.op), users[s], Merge(users[s], Assigned(copy, t)))
      BY <1>b, <1>6, <2>1, AssignedView
    <2> QED
      BY <1>1, <1>2, <1>3, <1>6, <2>1, <2>4, <2>5, StudentStep
  <1>7. CASE AssignReleases(k) /\ users' # users
    <2>1. PICK s \in DOMAIN r.got :
             /\ users' = [users EXCEPT ![s] = Merge(users[s], Released(r.got[s]))]
             /\ s \notin outdated' => users[s] = r.got[s]
      BY <1>7 DEF AssignReleases, Mark
    <2>2. ReadingsOK(r.got, Students)
      BY <1>0, <1>7, PeopleKnow DEF AssignReleases, At, AssignOK
    <2>3. s \in Students /\ r.got[s] \in Docs
      BY <2>1, <2>2 DEF ReadingsOK
    <2> QED
      BY <1>5, <2>1, <2>3
  <1>8. CASE AssignSaves(k)
    <2>1. r.who \in Teachers /\ r.got \in Students /\ r.copy \in Docs
      BY <1>0, <1>8, PeopleKnow DEF AssignSaves, At, AssignOK
    <2>2. (r.got \notin outdated' => users[r.got] = r.copy) /\ Given(k, r.who, r.got)
      BY <1>8 DEF AssignSaves, Mark, Given
    <2>3. requests'[k] # r
      <3>1. requests = [i \in Clients |-> requests[i]] /\ r.pc = "save"
        BY <1>8 DEF PeopleTypeOK, RequestsOK, AssignSaves, At
      <3>2. requests'[k] = [r EXCEPT !.pc = "student", !.arg = r.arg \ {r.got}]
        BY <1>8, <3>1 DEF AssignSaves
      <3>3. requests'[k].pc = "student"
        BY <1>0, <3>2 DEF IsRequest
      <3> QED
        BY <3>1, <3>3
    <2> QED
      BY <1>6, <1>8, <2>1, <2>2, <2>3 DEF AssignSaves
  <1>9. CASE UpdateAssignmentSaves(k)
    <2> DEFINE s == r.who
               t == r.arg
    <2>1. s \in Students /\ r.copy \in Docs /\ t \in Teachers \cup {NoOne, NoArg}
      BY <1>0, <1>9, PeopleKnow DEF UpdateAssignmentSaves, At, AssignmentOK
    <2>2. CASE t \in Teachers
      <3>1. users' = [users EXCEPT ![s] = Merge(users[s], Assigned(r.copy, t))]
        <4> DEFINE doc == CASE t \in Teachers -> Assigned(r.copy, t)
                            [] t = NoOne -> Released(r.copy)
                            [] OTHER -> r.copy
        <4>1. users' = [users EXCEPT ![s] = Merge(users[s], doc)]
          BY <1>9 DEF UpdateAssignmentSaves
        <4>2. t # NoOne
          BY <2>2, AccountsAssumption DEF People
        <4>3. doc = Assigned(r.copy, t)
          BY <2>2, <4>2
        <4> HIDE DEF doc
        <4> QED
          BY <4>1, <4>3
      <3>2. (s \notin outdated' => users[s] = r.copy) /\ Given(k, t, s)
        BY <1>9 DEF UpdateAssignmentSaves, Mark, Given
      <3>3. requests'[k] # r
        BY <1>1, <1>9, EndStep, IdleIs DEF PeopleTypeOK, UpdateAssignmentSaves
      <3> QED
        BY <1>6, <2>1, <2>2, <3>1, <3>2, <3>3
    <2>3. CASE t \notin Teachers /\ t = NoOne
      <3>1. users' = [users EXCEPT ![s] = Merge(users[s], Released(r.copy))]
            /\ (s \notin outdated' => users[s] = r.copy)
        BY <1>9, <2>3 DEF UpdateAssignmentSaves, Mark
      <3> QED
        BY <1>5, <2>1, <3>1
    <2>4. CASE t \notin Teachers /\ t # NoOne
      <3>1. users' = [users EXCEPT ![s] = Merge(users[s], r.copy)]
            /\ (s \notin outdated' => users[s] = r.copy)
        BY <1>9, <2>4 DEF UpdateAssignmentSaves, Mark
      <3>2. SameView(Seen(r.op), r.copy, r.copy)
        BY DEF SameView
      <3>3. s \notin outdated' => users[s] # NoDoc /\ SameView(Seen(r.op), users[s], Merge(users[s], r.copy))
        BY <2>1, <3>1, <3>2, CopyView, NoDocIsNone
      <3> QED
        BY <1>0, <1>1, <1>2, <1>3, <2>1, <3>1, <3>3, MergeStep
    <2> QED
      BY <2>2, <2>3, <2>4
  <1> QED
    BY <1>4, <1>7, <1>8, <1>9
    DEF AssignReads, GetOrThrow, AssignReadsCurrent, AssignReadsStudent,
        UpdateAssignmentReads, UpdateAssignmentReadsTeacher, OnlyRequests

LEMMA ActiveSteps ==
    ASSUME PeopleTypeOK, NEW k \in Clients,
           SetActiveReads(k) \/ SetActiveSaves(k) \/ SetActiveQueries(k) \/ SetActiveMarks(k)
    PROVE  PersonStep(k)
PROOF
  <1> DEFINE r == requests[k]
             q == requests'[k]
             t == r.who
  <1>0. RequestOK(r) /\ IsRequest(r) /\ users \in [People -> Docs \cup {NoDoc}]
        /\ Students \subseteq People /\ Teachers \subseteq People /\ RequestsOK
    BY WhoSteps DEF PeopleTypeOK
  <1>1. r.op = "active"
    BY DEF SetActiveReads, GetOrThrow, SetActiveSaves, SetActiveQueries, SetActiveMarks, At
  <1>2. ActiveOK(r) /\ t \in Teachers /\ t \in People
    BY <1>0, <1>1, PeopleKnow DEF ActiveOK
  <1>3. TypeStep(k) /\ Only(k)
    BY ActiveTypes DEF TypeStep
  <1>4. Grows
    BY DEF SetActiveReads, GetOrThrow, SetActiveSaves, SetActiveQueries, SetActiveMarks, WriteCopy,
           OnlyRequests, control, Mark, Grows
  <1>5. \A s \in Students, x \in Teachers : Earns(users[s], x) => s \in StudentsOf(x)
    BY DEF Earns, StudentsOf
  <1>6. CASE SetActiveReads(k)
    <2>1. UNCHANGED users /\ r.pc = "get"
      BY <1>6 DEF SetActiveReads, GetOrThrow, OnlyRequests, At
    <2> QED
      BY <1>1, <1>3, <1>4, <2>1 DEF PersonStep, RosterStep, Stopping, Kept, DocStays, Grows
  <1>7. CASE SetActiveQueries(k)
    <2>1. UNCHANGED users
      BY <1>7 DEF SetActiveQueries, OnlyRequests
    <2>2. StudentsOf(t) = {} \/ (SameAsk(q, r) /\ q.pc = "batch")
      BY <1>0, <1>7, ProceedStep DEF SetActiveQueries
    <2>3. Stopping(t, q) \/ \A s \in Students : ~Earns(users'[s], t)
      BY <1>1, <1>2, <1>5, <2>1, <2>2 DEF Stopping, SameAsk
    <2> QED
      BY <1>1, <1>3, <1>4, <2>1, <2>3 DEF PersonStep, RosterStep, Stopping, Kept, DocStays, Grows
  <1>8. CASE SetActiveSaves(k)
    <2> DEFINE e == With(r.copy, "active", r.arg)
               d == Merge(users[t], e)
    <2>0. r.pc = "save" /\ r.copy \in Docs /\ r.arg \in BOOLEAN
      BY <1>2, <1>8 DEF SetActiveSaves, At, ActiveOK
    <2>1. e \in Docs
      <3>1. "active" \in Fields \ {"role", "teacher"} /\ r.arg \in Values
        BY <2>0 DEF Fields, Values
      <3> QED
        BY <2>0, <3>1, WithIsDoc
    <2>2. e = [f \in DOMAIN r.copy \cup {"active"} |-> IF f = "active" THEN r.arg ELSE r.copy[f]]
      BY DEF With
    <2>3. "active" \in DOMAIN e /\ e["active"] = r.arg
      <3> HIDE DEF e
      <3> QED
        BY <2>2
    <2> HIDE DEF e
    <2>4. d # NoDoc /\ Has(d, "active") /\ d["active"] = r.arg
      <3>1. d \in Docs
        BY <1>0, <1>2, <2>1, MergeIsDoc
      <3>2. CASE users[t] = NoDoc
        BY <2>1, <2>3, <3>2, NoDocIsNone DEF Merge, Has
      <3>3. CASE users[t] # NoDoc
        <4>1. d = [f \in DOMAIN users[t] \cup DOMAIN e |-> IF f \in DOMAIN e THEN e[f] ELSE users[t][f]]
          BY <3>3 DEF Merge
        <4> HIDE DEF d
        <4> QED
          BY <2>3, <3>1, <4>1, NoDocIsNone DEF Has
      <3> QED
        BY <3>2, <3>3
    <2>5. users' = [users EXCEPT ![t] = Merge(users[t], e)]
      BY <1>8 DEF SetActiveSaves, WriteCopy, e
    <2>6. \A x \in People : users'[x] = IF x = t THEN d ELSE users[x]
      <3> HIDE DEF d
      <3>1. users' = [users EXCEPT ![t] = d]
        BY <2>5 DEF d
      <3> QED
        BY <1>0, <3>1
    <2>7. \A x \in People : Kept(requests[k], x)
      <3> HIDE DEF d
      <3>1. d = Merge(users[t], e)
        BY DEF d
      <3> QED
        BY <2>1, <2>6, <3>1 DEF Kept
    <2>12. \A x \in People \ outdated' : DocStays(r, x)
      <3>1. t \notin outdated' => users[t] = r.copy
        BY <1>8 DEF SetActiveSaves, WriteCopy, Mark
      <3>2. "active" \notin LeftAlone(r.op)
        BY DEF LeftAlone, Held
      <3>3. SameView(LeftAlone(r.op), r.copy, e)
        BY <2>0, <2>1, <3>2, WithView DEF e
      <3>4. t \notin outdated' => users[t] # NoDoc /\ SameView(LeftAlone(r.op), users[t], d)
        BY <2>0, <2>1, <3>1, <3>3, CopyView, NoDocIsNone
      <3> HIDE DEF d
      <3> QED
        BY <2>6, <3>4 DEF DocStays
    <2> HIDE DEF d
    <2>8. Works(users'[t]) \/ Stopping(t, q)
      <3>1. CASE r.arg
        BY <1>2, <2>4, <2>6, <3>1 DEF Works
      <3>2. CASE ~r.arg
        <4>1. Proceed(k, "query", NoArg)
          BY <1>8, <3>2 DEF SetActiveSaves
        <4>2. SameAsk(q, r) /\ q.pc = "query"
          BY <1>0, <4>1, ProceedStep
        <4> QED
          BY <1>1, <4>2 DEF Stopping, SameAsk
      <3> QED
        BY <3>1, <3>2
    <2>9. \A s \in Students : users'[s] = users[s]
      BY <1>0, <1>2, <2>6, AccountsAssumption
    <2>10. \A x \in Teachers : x = t \/ users'[x] = users[x]
      BY <1>0, <2>6
    <2>11. \A x : ~Stopping(x, r)
      BY <2>0 DEF Stopping
    <2> QED
      BY <1>1, <1>3, <1>4, <2>7, <2>8, <2>9, <2>10, <2>11, <2>12 DEF PersonStep, RosterStep, Grows
  <1>9. CASE SetActiveMarks(k)
    <2> DEFINE ids == r.got
               patch == [pending |-> TRUE]
    <2>0. ids \subseteq Students /\ patch \in Docs
      BY <1>2, <1>9, PatchIsDoc DEF SetActiveMarks, At, ActiveOK
    <2>1. users' = [p \in People |-> IF p \in ids THEN Merge(users[p], patch) ELSE users[p]]
      BY <1>9 DEF SetActiveMarks
    <2>2. "pending" \in DOMAIN patch /\ patch["pending"] = TRUE
      OBVIOUS
    <2>11. DOMAIN patch \cap LeftAlone(r.op) = {}
      BY DEF LeftAlone, Held
    <2> HIDE DEF patch
    <2>3. \A s \in ids : \A x : ~Earns(users'[s], x)
      BY <1>0, <2>0, <2>1, <2>2, WaitingEarnsNot
    <2>4. \A x \in People \ ids : users'[x] = users[x]
      BY <2>1
    <2>5. StudentsOf(t) \ ids \subseteq outdated'
      BY <1>9 DEF SetActiveMarks, Mark
    <2>6. \A s \in Students \ outdated' : ~Earns(users'[s], t)
      BY <1>0, <1>2, <1>5, <2>3, <2>4, <2>5
    <2>7. \A p \in People : Kept(requests[k], p)
      BY <2>0, <2>1 DEF Kept
    <2>8. \A x \in Teachers : users'[x] = users[x]
      BY <1>0, <2>0, <2>4, AccountsAssumption
    <2>9. \A s \in Students, x \in Teachers : Earns(users'[s], x) => Earns(users[s], x)
      BY <1>0, <2>3, <2>4
    <2>10. \A x \in Teachers : Stopping(x, r) => x = t
      BY DEF Stopping
    <2>12. \A p \in People \ outdated' : DocStays(r, p)
      <3>1. \A p \in ids \ outdated' : p \in StudentsOf(t)
        BY <1>9 DEF SetActiveMarks, Mark
      <3>2. \A p \in ids \ outdated' : users[p] # NoDoc
        BY <3>1 DEF StudentsOf, Has
      <3>3. \A p \in People : SameView(LeftAlone(r.op), users[p], Merge(users[p], patch))
        BY <1>0, <2>0, <2>11, PatchView
      <3> QED
        BY <2>1, <2>4, <3>2, <3>3 DEF DocStays
    <2> QED
      BY <1>1, <1>3, <1>4, <2>6, <2>7, <2>8, <2>9, <2>10, <2>12 DEF PersonStep, RosterStep, Grows
  <1> QED
    BY <1>6, <1>7, <1>8, <1>9

LEMMA StopSteps ==
    ASSUME PeopleTypeOK, NEW k \in Clients, Stop(k)
    PROVE  PersonStep(k)
PROOF
  <1> DEFINE r == requests[k]
  <1>1. UNCHANGED <<users, outdated>> /\ cut' = cut \cup LeftHalfWay(k)
    BY DEF Stop
  <1>2. Only(k)
    BY StopTypes DEF TypeStep
  <1>3. \A t \in Teachers : Stopping(t, r) => StudentsOf(t) \subseteq cut'
    <2>1. NoOne \notin Teachers
      BY AccountsAssumption DEF People
    <2> QED
      BY <1>1, <2>1 DEF Stopping, LeftHalfWay
  <1>4. \A s \in Students, x \in Teachers : Earns(users[s], x) => s \in StudentsOf(x)
    BY DEF Earns, StudentsOf
  <1> QED
    BY <1>1, <1>2, <1>3, <1>4 DEF PersonStep, RosterStep, Kept, DocStays, DateStays, SameView

LEMMA AskSteps ==
    ASSUME PeopleTypeOK, NEW k \in Clients, Asks(k)
    PROVE  PersonStep(k)
PROOF
  <1>1. PICK r : Begin(k, r)
    BY DEF Asks, AccountAsks, Create, Login, Refresh, Delete, ChangeEmail, UpdateOwnProfile, UpdateUser,
           DeleteInvite, Migrate, Grant, Revoke, UpdateAssignment, AssignStudents, SetActive
  <1>2. UNCHANGED users /\ Grows /\ requests[k] = Idle
    BY <1>1 DEF Begin, Grows
  <1>3. requests[k].op # "active"
    BY <1>2, IdleIs
  <1> QED
    BY <1>2, <1>3, AsksTypes, UnwrittenStep

LEMMA HandleSteps ==
    ASSUME PeopleTypeOK, NEW k \in Clients, Handle(k)
    PROVE  PersonStep(k)
PROOF
  <1>1. CASE AccountHandle(k) /\ UNCHANGED paid
    BY <1>1, CreateSteps, SignInSteps, EmailSteps, EditSteps, DeletionSteps, MigrationSteps
    DEF AccountHandle
  <1>2. CASE ~(AccountHandle(k) /\ UNCHANGED paid)
    BY <1>2, AccessSteps, AssignSteps, ActiveSteps DEF Handle
  <1> QED
    BY <1>1, <1>2

\* A step of People is one of a request, or leaves requests and documents alone.
LEMMA NextSteps ==
    ASSUME PeopleTypeOK, [FinanceNext]_financeVars
    PROVE  (\E k \in Clients : PersonStep(k)) \/ UNCHANGED <<users, requests, outdated, cut>>
PROOF
  <1>1. ASSUME NEW k \in Clients, Asks(k) \/ Handle(k) \/ Stop(k)
        PROVE  PersonStep(k)
    BY <1>1, AskSteps, HandleSteps, StopSteps
  <1>2. ASSUME NEW p \in People, Logout(p)
        PROVE  UNCHANGED <<users, requests, outdated, cut>>
    BY <1>2 DEF Logout, control
  <1>3. ASSUME NEW k \in Clients, NEW target \in Targets,
               NEW month \in {0} \cup MonthsOfYear(YearOf(ThisMonth)),
               SetGoal(k, YearOf(ThisMonth), month, target)
        PROVE  PersonStep(k)
    <2>1. PICK r : Begin(k, r)
      BY <1>3 DEF SetGoal
    <2>2. UNCHANGED users /\ Grows /\ requests[k].op # "active"
      BY <2>1, IdleIs DEF Begin, Grows
    <2> QED
      BY <1>3, <2>2, SetGoalTypes, UnwrittenStep
  <1>4. ASSUME NEW k \in Clients, SetGoalReads(k) \/ SetGoalSaves(k)
        PROVE  PersonStep(k)
    <2>1. UNCHANGED users /\ Grows /\ requests[k].op # "active"
      BY <1>4 DEF SetGoalReads, SetGoalSaves, OnlyRequests, control, Grows, At
    <2> QED
      BY <1>4, <2>1, GoalReadTypes, GoalSaved, UnwrittenStep
  <1>5. ASSUME NEW from, SetExpense(from, 2)
        PROVE  UNCHANGED <<users, requests, outdated, cut>>
    BY <1>5 DEF SetExpense
  <1>6. CASE UNCHANGED financeVars
    BY <1>6 DEF financeVars, vars, accountVars, control
  <1>7. CASE FinanceNext
    BY <1>1, <1>2, <1>3, <1>4, <1>5, <1>7 DEF FinanceNext, PeopleNext
  <1> QED
    BY <1>6, <1>7

-----------------------------------------------------------------------------
(* Registrations, and the students of a teacher *)

\* RegistrationIsKept for any people and requests: the merges of users and
\* teachers never take a date away, whatever copy they were made of, and but for
\* those made of an older copy none moves it, nor sets it on less than a whole
\* registration.
THEOREM RegistrationInvariance == FinanceSpec => RegistrationIsKept
PROOF
  <1>1. ASSUME PeopleTypeOK, PeopleTypeOK', [FinanceNext]_financeVars,
               NEW p \in People, users[p] # NoDoc, users'[p] # NoDoc, ~Busy(p, {"create", "invite"})
        PROVE  /\ Has(users[p], "onboarded") => Has(users'[p], "onboarded")
               /\ \/ p \in outdated'
                  \/ Has(users'[p], "onboarded") =>
                        IF Has(users[p], "onboarded") THEN users'[p]["onboarded"] = users[p]["onboarded"]
                        ELSE Complete(users'[p])
    <2>1. users'[p] = users[p] \/ \E k \in Clients : PersonStep(k)
      BY <1>1, NextSteps
    <2>2. CASE users'[p] = users[p]
      BY <2>2
    <2>3. ASSUME NEW k \in Clients, PersonStep(k)
          PROVE  /\ Has(users[p], "onboarded") => Has(users'[p], "onboarded")
                 /\ p \in outdated' \/ SameView({"onboarded"}, users[p], users'[p])
                      \/ (~Has(users[p], "onboarded") /\ Complete(users'[p]))
      <3>1. ~(requests[k].op \in Creations /\ requests[k].who = p)
        BY <1>1 DEF Busy, Creations
      <3>2. Kept(requests[k], p)
        BY <2>3 DEF PersonStep
      <3>3. Has(users[p], "onboarded") => Has(users'[p], "onboarded")
        <4>1. ASSUME NEW patch \in Docs, users'[p] = Merge(users[p], patch), Has(users[p], "onboarded")
              PROVE  Has(users'[p], "onboarded")
          <5> DEFINE d == Merge(users[p], patch)
          <5>1. d = [f \in DOMAIN users[p] \cup DOMAIN patch |->
                        IF f \in DOMAIN patch THEN patch[f] ELSE users[p][f]]
            BY <1>1 DEF Merge
          <5>2. "onboarded" \in DOMAIN users[p]
            BY <1>1, <4>1 DEF Has
          <5> HIDE DEF d
          <5>3. "onboarded" \in DOMAIN d
            BY <5>1, <5>2
          <5> QED
            BY <1>1, <4>1, <5>3 DEF Has, d
        <4> QED
          BY <1>1, <3>1, <3>2, <4>1 DEF Kept
      <3>4. ASSUME p \notin outdated'
            PROVE  SameView({"onboarded"}, users[p], users'[p])
                      \/ (~Has(users[p], "onboarded") /\ Complete(users'[p]))
        <4>1. DocStays(requests[k], p) /\ (requests[k].op = "profile" => DateStays(p))
          BY <2>3, <3>4 DEF PersonStep
        <4>2. CASE requests[k].op = "profile"
          BY <4>1, <4>2 DEF DateStays
        <4>3. CASE requests[k].op # "profile" /\ SameView(LeftAlone(requests[k].op), users[p], users'[p])
          <5>1. {"onboarded"} \in SUBSET LeftAlone(requests[k].op)
            BY <4>3 DEF LeftAlone, Held, Writes
          <5> QED
            BY <4>3, <5>1, ViewOfFewer
        <4>4. CASE users'[p] = users[p]
          BY <4>4 DEF SameView
        <4> QED
          BY <1>1, <3>1, <4>1, <4>2, <4>3, <4>4 DEF DocStays, Creates
      <3> QED
        BY <3>3, <3>4
    <2>4. SameView({"onboarded"}, users[p], users'[p]) =>
             (Has(users'[p], "onboarded") => Has(users[p], "onboarded")
                                             /\ users'[p]["onboarded"] = users[p]["onboarded"])
      BY DEF SameView
    <2> QED
      BY <2>1, <2>2, <2>3, <2>4
  <1> DEFINE Keeps == \A p \in People :
               users[p] # NoDoc /\ users'[p] # NoDoc /\ ~Busy(p, {"create", "invite"}) =>
                 /\ Has(users[p], "onboarded") => Has(users'[p], "onboarded")
                 /\ \/ p \in outdated'
                    \/ Has(users'[p], "onboarded") =>
                          IF Has(users[p], "onboarded") THEN users'[p].onboarded = users[p].onboarded
                          ELSE Complete(users'[p])
  <1>2. PeopleTypeOK /\ PeopleTypeOK' /\ [FinanceNext]_financeVars => [Keeps]_vars
    BY <1>1
  <1> HIDE DEF Keeps
  <1>3. FinanceSpec => [][Keeps]_vars
    BY <1>2, PeopleTypes, PTL DEF FinanceSpec
  <1> QED
    BY <1>3 DEF RegistrationIsKept, Keeps

\* Whom a step leaves with a teacher who is gone or does not work was given to her
\* by it, or she was deleted by it.
LEMMA ForsakenStep ==
    ASSUME NEW k \in Clients, RosterStep(k), NEW t \in Teachers \ outdated',
           NEW s \in (Forsaken(t)' \ Forsaken(t)) \ (outdated' \cup cut')
    PROVE  requests'[k] # requests[k] /\ (Given(k, t, s) \/ Dismissed(k, t))
PROOF
  <1>1. \A i \in Clients : Stopping(t, requests[i]) => Deactivating(t)
    BY DEF Stopping, Deactivating, At
  <1>2. Deactivating(t) => \E i \in Clients : Stopping(t, requests[i])
    BY DEF Stopping, Deactivating, At
  <1>3. \A i \in Clients : Stopping(t, requests'[i]) => Deactivating(t)'
    BY DEF Stopping, Deactivating, At
  <1>4. s \in Students /\ Earns(users'[s], t) /\ ~Works(users'[t]) /\ ~Deactivating(t)'
    BY DEF Forsaken, AtWork, Works, ActiveStudents, StudentsOf, Earns
  <1>5. Earns(users[s], t) => Works(users[t]) \/ Deactivating(t)
    BY <1>4 DEF Forsaken, AtWork, Works, ActiveStudents, StudentsOf, Earns
  <1>6. s \in Students \ (outdated' \cup cut') /\ s \in Students \ outdated' /\ t \in Teachers
    BY <1>4
  <1>7. CASE ~Earns(users[s], t)
    BY <1>4, <1>6, <1>7 DEF RosterStep
  <1>8. CASE Works(users[t])
    BY <1>3, <1>4, <1>6, <1>8 DEF RosterStep
  <1>9. CASE Deactivating(t)
    <2>1. PICK i \in Clients : Stopping(t, requests[i])
      BY <1>2, <1>9
    <2>2. i = k
      BY <1>3, <1>4, <2>1 DEF RosterStep, Only
    <2> QED
      BY <1>3, <1>4, <1>6, <2>1, <2>2 DEF RosterStep
  <1> QED
    BY <1>5, <1>7, <1>8, <1>9

\* StudentsHaveTheirTeacher for any students, teachers and requests: a student is
\* left with a teacher who is gone or inactive, and is not listed as waiting, only by
\* a panel that gives the student to her then or deletes her as a user.
THEOREM TeachersInvariance == FinanceSpec => StudentsHaveTheirTeacher
PROOF
  <1> DEFINE Doors == \A t \in Teachers \ outdated' :
               \A s \in (Forsaken(t)' \ Forsaken(t)) \ (outdated' \cup cut') :
                  \E k \in Clients : requests'[k] # requests[k] /\ (Given(k, t, s) \/ Dismissed(k, t))
  <1>1. ASSUME PeopleTypeOK, [FinanceNext]_financeVars PROVE Doors
    <2>1. CASE UNCHANGED <<users, requests, outdated, cut>>
      <3>1. \A t \in Teachers : Forsaken(t)' = Forsaken(t)
        BY <2>1 DEF Forsaken, AtWork, Deactivating, At, ActiveStudents, StudentsOf
      <3> QED
        BY <3>1
    <2>2. CASE \E k \in Clients : PersonStep(k)
      BY <2>2, ForsakenStep DEF PersonStep
    <2> QED
      BY <1>1, <2>1, <2>2, NextSteps
  <1>2. PeopleTypeOK /\ [FinanceNext]_financeVars => [Doors]_vars
    BY <1>1
  <1> HIDE DEF Doors
  <1>3. FinanceSpec => [][Doors]_vars
    BY <1>2, PeopleTypes, PTL DEF FinanceSpec
  <1> QED
    BY <1>3 DEF StudentsHaveTheirTeacher, Doors

-----------------------------------------------------------------------------
(* Days and payments: what a grant, a record, an undo and a refund leave *)

\* A date as a number, below any other when there is none.
DayOf(date) == IF date = NoDate THEN -1 ELSE date

\* Days of their own: no payment reaches beyond the last day there is, two are
\* a grant apart, and a grant not recorded yet gives days after those of all the
\* payments and of all the grants it follows.
DaysOK(top, standing, writing, gives, before) ==
    /\ \A m \in standing : m.until <= top
    /\ \A m, n \in standing : m = n \/ n.until >= m.until + GrantDays \/ m.until >= n.until + GrantDays
    /\ \A k \in writing :
          /\ (\A m \in standing : m.until <= before[k]) \/ (\E m \in standing : m.until > gives[k])
          /\ \A j \in writing \ {k} : gives[j] <= before[k] \/ gives[k] <= before[j]
          /\ gives[k] <= top

\* On record: the last day, and the day each grant goes on from, is of a payment
\* or of a grant not recorded yet.
RecordOK(top, counted, writing, gives, before) ==
    /\ top # -1 => (\E m \in counted : m.until = top) \/ (\E k \in writing : gives[k] = top)
    /\ \A k \in writing : before[k] # -1 =>
          (\E m \in counted : m.until = before[k]) \/ (\E j \in writing : gives[j] = before[k])

Grants(writing, gives, before) ==
    \A k \in writing : gives[k] \in Nat /\ before[k] \in Int /\ gives[k] >= before[k] + GrantDays

LEMMA DaysWritten ==
    ASSUME NEW W, NEW k, k \notin W, NEW gives, NEW before, Grants(W \cup {k}, gives, before),
           NEW S \in SUBSET Payments, DaysOK(before[k], S, W, gives, before)
    PROVE  DaysOK(gives[k], S, W \cup {k}, gives, before)
PROOF
  <1>1. GrantDays \in Nat \ {0} /\ \A m \in S : m.until \in Nat
    BY PeopleAssumption DEF Payments
  <1>2. gives[k] \in Nat /\ before[k] \in Int /\ gives[k] >= before[k] + GrantDays
        /\ \A j \in W : gives[j] \in Nat /\ before[j] \in Int /\ gives[j] >= before[j] + GrantDays
    BY DEF Grants
  <1>3. \A m \in S : m.until <= gives[k]
    BY <1>1, <1>2 DEF DaysOK
  <1>4. \A j \in W : gives[j] <= before[k] /\ gives[j] <= gives[k]
    BY <1>1, <1>2 DEF DaysOK
  <1>5. ASSUME NEW i \in W \cup {k}
        PROVE  /\ (\A m \in S : m.until <= before[i]) \/ (\E m \in S : m.until > gives[i])
               /\ \A j \in (W \cup {k}) \ {i} : gives[j] <= before[i] \/ gives[i] <= before[j]
               /\ gives[i] <= gives[k]
    <2>1. CASE i = k
      BY <1>2, <1>4, <2>1 DEF DaysOK
    <2>2. CASE i \in W
      BY <1>4, <2>2 DEF DaysOK
    <2> QED
      BY <2>1, <2>2
  <1> QED
    BY <1>3, <1>5 DEF DaysOK

LEMMA DaysOfFewer ==
    ASSUME NEW W, NEW V \in SUBSET W, NEW gives, NEW before, NEW S, NEW top, DaysOK(top, S, W, gives, before)
    PROVE  DaysOK(top, S, V, gives, before)
PROOF BY DEF DaysOK

LEMMA DaysRecorded ==
    ASSUME NEW W, NEW k \in W, NEW gives, NEW before, Grants(W, gives, before),
           NEW S \in SUBSET Payments, DaysOK(gives[k], S, W, gives, before),
           NEW m \in Payments, m.until = gives[k]
    PROVE  DaysOK(gives[k], S \cup {m}, W \ {k}, gives, before)
PROOF
  <1>1. GrantDays \in Nat \ {0} /\ \A n \in S : n.until \in Nat
    BY PeopleAssumption DEF Payments
  <1>2. \A j \in W : gives[j] \in Nat /\ before[j] \in Int /\ gives[j] >= before[j] + GrantDays
    BY DEF Grants
  <1>3. \A n \in S : n.until <= gives[k]
    BY DEF DaysOK
  <1>4. \A n \in S : n.until <= before[k]
    BY <1>1, <1>2, <1>3 DEF DaysOK
  <1>5. \A n \in S : m.until >= n.until + GrantDays
    BY <1>1, <1>2, <1>4
  <1>6. ASSUME NEW n \in S \cup {m}, NEW o \in S \cup {m}
        PROVE  n = o \/ o.until >= n.until + GrantDays \/ n.until >= o.until + GrantDays
    <2>1. CASE n \in S /\ o \in S
      BY <2>1 DEF DaysOK
    <2>2. CASE n = m \/ o = m
      BY <1>5, <2>2
    <2> QED
      BY <2>1, <2>2
  <1>7. ASSUME NEW i \in W \ {k}
        PROVE  /\ (\A n \in S \cup {m} : n.until <= before[i]) \/ (\E n \in S \cup {m} : n.until > gives[i])
               /\ \A j \in (W \ {k}) \ {i} : gives[j] <= before[i] \/ gives[i] <= before[j]
               /\ gives[i] <= gives[k]
    <2>1. gives[k] <= before[i] \/ gives[i] <= before[k]
      BY DEF DaysOK
    <2>2. gives[i] <= before[k] => m.until > gives[i]
      BY <1>1, <1>2
    <2>3. (\A n \in S : n.until <= before[i]) \/ (\E n \in S : n.until > gives[i])
      BY DEF DaysOK
    <2>4. (\A n \in S \cup {m} : n.until <= before[i]) \/ (\E n \in S \cup {m} : n.until > gives[i])
      BY <2>1, <2>2, <2>3
    <2> QED
      BY <2>4 DEF DaysOK
  <1>8. \A n \in S \cup {m} : n.until <= gives[k]
    BY <1>2, <1>3
  <1> QED
    BY <1>6, <1>7, <1>8 DEF DaysOK

LEMMA DaysUndone ==
    ASSUME NEW W, NEW k \in W, NEW gives, NEW before, Grants(W, gives, before),
           NEW S \in SUBSET Payments, DaysOK(gives[k], S, W, gives, before)
    PROVE  DaysOK(before[k], S, W \ {k}, gives, before)
PROOF
  <1>1. GrantDays \in Nat \ {0} /\ \A n \in S : n.until \in Nat
    BY PeopleAssumption DEF Payments
  <1>2. \A j \in W : gives[j] \in Nat /\ before[j] \in Int /\ gives[j] >= before[j] + GrantDays
    BY DEF Grants
  <1>3. \A n \in S : n.until <= before[k]
    BY <1>1, <1>2 DEF DaysOK
  <1>4. ASSUME NEW i \in W \ {k} PROVE gives[i] <= before[k]
    <2>1. gives[k] <= before[i] \/ gives[i] <= before[k]
      BY DEF DaysOK
    <2>2. gives[i] <= gives[k]
      BY DEF DaysOK
    <2> QED
      BY <1>1, <1>2, <2>1, <2>2
  <1> QED
    BY <1>3, <1>4 DEF DaysOK

\* Where no day is left, nobody is granting and nothing that was paid stands.
LEMMA NothingStands ==
    ASSUME NEW W, NEW gives, NEW before, Grants(W, gives, before),
           NEW S \in SUBSET Payments, DaysOK(-1, S, W, gives, before)
    PROVE  S = {} /\ W = {}
PROOF
  <1>1. \A n \in S : n.until \in Nat
    BY DEF Payments
  <1>2. \A j \in W : gives[j] \in Nat
    BY DEF Grants
  <1>3. S = {}
    BY <1>1 DEF DaysOK
  <1>4. W = {}
    BY <1>2 DEF DaysOK
  <1> QED
    BY <1>3, <1>4

LEMMA NothingIsFine ==
    ASSUME NEW gives, NEW before, NEW C, NEW top
    PROVE  DaysOK(top, {}, {}, gives, before) /\ RecordOK(-1, C, {}, gives, before)
PROOF BY DEF DaysOK, RecordOK

LEMMA RecordWritten ==
    ASSUME NEW W, NEW k, NEW gives, NEW before, NEW C, RecordOK(before[k], C, W, gives, before)
    PROVE  RecordOK(gives[k], C, W \cup {k}, gives, before)
PROOF BY DEF RecordOK

LEMMA RecordRecorded ==
    ASSUME NEW W, NEW k \in W, NEW gives, NEW before, NEW C, NEW top, RecordOK(top, C, W, gives, before),
           NEW m, m.until = gives[k]
    PROVE  RecordOK(top, C \cup {m}, W \ {k}, gives, before)
PROOF
  <1>1. ASSUME NEW day, (\E n \in C : n.until = day) \/ (\E j \in W : gives[j] = day)
        PROVE  (\E n \in C \cup {m} : n.until = day) \/ (\E j \in W \ {k} : gives[j] = day)
    BY <1>1
  <1> QED
    BY <1>1 DEF RecordOK

LEMMA RecordUndone ==
    ASSUME NEW W, NEW k \in W, NEW gives, NEW before, Grants(W, gives, before),
           NEW S, DaysOK(gives[k], S, W, gives, before),
           NEW C, RecordOK(gives[k], C, W, gives, before)
    PROVE  RecordOK(before[k], C, W \ {k}, gives, before)
PROOF
  <1>1. GrantDays \in Nat \ {0}
    BY PeopleAssumption
  <1>2. \A j \in W : gives[j] \in Nat /\ before[j] \in Int /\ gives[j] >= before[j] + GrantDays
    BY DEF Grants
  <1>3. \A j \in W : before[j] # gives[k]
    <2>1. \A j \in W : gives[j] <= gives[k]
      BY DEF DaysOK
    <2> QED
      BY <1>1, <1>2, <2>1
  <1>4. ASSUME NEW i \in W, before[i] # -1
        PROVE  (\E n \in C : n.until = before[i]) \/ (\E j \in W \ {k} : gives[j] = before[i])
    <2>1. (\E n \in C : n.until = before[i]) \/ (\E j \in W : gives[j] = before[i])
      BY <1>4 DEF RecordOK
    <2> QED
      BY <1>3, <2>1
  <1> QED
    BY <1>4 DEF RecordOK

\* Only what the grants under way give matters.
LEMMA GrantsAgree ==
    ASSUME NEW W, NEW gives, NEW before, NEW gives2, NEW before2,
           \A k \in W : gives2[k] = gives[k] /\ before2[k] = before[k], NEW S, NEW top
    PROVE  /\ DaysOK(top, S, W, gives, before) => DaysOK(top, S, W, gives2, before2)
           /\ RecordOK(top, S, W, gives, before) => RecordOK(top, S, W, gives2, before2)
           /\ Grants(W, gives, before) => Grants(W, gives2, before2)
PROOF
  <1>1. DaysOK(top, S, W, gives, before) => DaysOK(top, S, W, gives2, before2)
    BY DEF DaysOK
  <1>2. RecordOK(top, S, W, gives, before) => RecordOK(top, S, W, gives2, before2)
    BY DEF RecordOK
  <1>3. Grants(W, gives, before) => Grants(W, gives2, before2)
    BY DEF Grants
  <1> QED
    BY <1>1, <1>2, <1>3

-----------------------------------------------------------------------------
(* How requests go on: their operation, and those of a creation *)

\* A handler ends its request or goes on with the same operation, and of the same
\* person but for a migration.
LEMMA OpsStay ==
    ASSUME PeopleTypeOK, NEW k \in Clients, Handle(k)
    PROVE  LET r == requests[k]  q == requests'[k] IN
           q = Idle \/ (q.op = r.op /\ (q.who = r.who \/ r.op \in Migrations))
PROOF
  <1> DEFINE r == requests[k]
             q == requests'[k]
             Goes == q = Idle \/ (q.op = r.op /\ (q.who = r.who \/ r.op \in Migrations))
  <1>0. RequestsOK /\ IsRequest(r) /\ requests = [i \in Clients |-> requests[i]]
    BY DEF PeopleTypeOK, RequestsOK, RequestOK
  <1>1. ASSUME NEW pc, NEW got, Proceed(k, pc, got) PROVE Goes
    BY <1>0, <1>1, ProceedStep DEF SameAsk
  <1>2. ASSUME NEW pc, NEW copy, Remember(k, pc, copy) PROVE Goes
    BY <1>0, <1>2, RememberStep DEF SameAsk
  <1>3. ASSUME End(k) PROVE Goes
    BY <1>0, <1>3, EndStep
  <1>4. ASSUME NEW pc, NEW copy, NEW got,
               requests' = [requests EXCEPT ![k] = [r EXCEPT !.pc = pc, !.copy = copy, !.got = got]]
        PROVE  Goes
    BY <1>0, <1>4 DEF IsRequest
  <1>5. ASSUME NEW pc, NEW copy, NEW got,
               requests' = [requests EXCEPT ![k].pc = pc, ![k].copy = copy, ![k].got = got]
        PROVE  Goes
    BY <1>0, <1>5 DEF IsRequest
  <1>6. ASSUME NEW pc, NEW copy, NEW got,
               requests' = [requests EXCEPT ![k].pc = pc, ![k].got = got, ![k].copy = copy]
        PROVE  Goes
    BY <1>0, <1>6 DEF IsRequest
  <1>7. ASSUME NEW pc, NEW arg, requests' = [requests EXCEPT ![k].pc = pc, ![k].arg = arg]
        PROVE  Goes
    BY <1>0, <1>7 DEF IsRequest
  <1>8. UpdateUserReads(k) => Goes
    <2>1. ASSUME UpdateUserReads(k)
          PROVE  \/ requests' = [requests EXCEPT ![k] = Idle]
                 \/ requests' = [requests EXCEPT ![k] =
                       [r EXCEPT !.pc = "save", !.copy = users[r.who], !.got = NoArg]]
      BY <2>1 DEF UpdateUserReads
    <2> QED
      BY <1>3, <1>4, <2>1 DEF End
  <1>9. AssignSaves(k) => Goes
    <2>1. ASSUME AssignSaves(k)
          PROVE  requests' = [requests EXCEPT ![k].pc = "student", ![k].arg = r.arg \ {r.got}]
      BY <2>1 DEF AssignSaves
    <2> QED
      BY <1>7, <2>1
  <1>10. AssignReadsStudent(k) => Goes
    <2>1. ASSUME AssignReadsStudent(k)
          PROVE  End(k) \/ \E s : requests' = [requests EXCEPT ![k].pc = "save", ![k].got = s, ![k].copy = users[s]]
      BY <2>1 DEF AssignReadsStudent
    <2> QED
      BY <1>3, <1>6, <2>1
  <1>11. GrantReads(k) => Goes
    <2>1. ASSUME GrantReads(k)
          PROVE  End(k) \/ \E copy, got :
                    requests' = [requests EXCEPT ![k].pc = "write", ![k].copy = copy, ![k].got = got]
      BY <2>1 DEF GrantReads
    <2> QED
      BY <1>3, <1>5, <2>1
  <1> HIDE DEF Goes
  <1>12. CreateAccount(k) \/ CreateClaims(k) \/ CreateSaves(k) \/ InviteMails(k) \/ CreateUndoes(k) => Goes
    BY <1>1, <1>3 DEF CreateAccount, CreateClaims, CreateSaves, InviteMails, CreateUndoes
  <1>13. SignIn(k) \/ LoginResolves(k) \/ LoginClaims(k) \/ LoginReissues(k) => Goes
    BY <1>1, <1>3 DEF SignIn, LoginResolves, LoginClaims, LoginReissues
  <1>14. EmailChangesAccount(k) \/ EmailChangesDocument(k) \/ EmailUndoes(k) => Goes
    BY <1>1, <1>3 DEF EmailChangesAccount, EmailChangesDocument, EmailUndoes
  <1>15. UpdateOwnProfileReads(k) \/ UpdateOwnProfileSaves(k) \/ UpdateUserSaves(k) => Goes
    BY <1>2, <1>3 DEF UpdateOwnProfileReads, GetOrThrow, UpdateOwnProfileSaves, UpdateUserSaves
  <1>16. DeleteInviteReads(k) \/ DeleteInviteReadsStudents(k) \/ DeleteDoc(k) \/ DeleteAccount(k) => Goes
    BY <1>1, <1>3 DEF DeleteInviteReads, DeleteInviteReadsStudents, DeleteDoc, DeleteAccount
  <1>17. ASSUME \/ MigrateLists(k) \/ MigrateClaims(k) \/ MigrateEnds(k)
                \/ \E p \in People : MigrateCreates(k, p) \/ SyncRoleReads(k, p)
         PROVE  Goes
    BY <1>17, MigrationMoves DEF MigrationStep, Goes
  <1>18. GrantWrites(k) \/ GrantRecords(k) \/ GrantUndoes(k) \/ RevokeReads(k) \/ RevokeReadsLast(k) => Goes
    BY <1>1, <1>2, <1>3 DEF GrantWrites, GrantRecords, GrantUndoes, RevokeReads, GetOrThrow, RevokeReadsLast
  <1>19. RevokeWrites(k) \/ RevokeFinds(k) \/ RevokeVoids(k) => Goes
    BY <1>1, <1>3 DEF RevokeWrites, RevokeFinds, RevokeVoids
  <1>20. AssignReads(k) \/ AssignReadsCurrent(k) \/ AssignReleases(k) => Goes
    BY <1>1, <1>2, <1>3 DEF AssignReads, GetOrThrow, AssignReadsCurrent, AssignReleases
  <1>21. UpdateAssignmentReads(k) \/ UpdateAssignmentReadsTeacher(k) \/ UpdateAssignmentSaves(k) => Goes
    BY <1>1, <1>2, <1>3 DEF UpdateAssignmentReads, GetOrThrow, UpdateAssignmentReadsTeacher, UpdateAssignmentSaves
  <1>22. SetActiveReads(k) \/ SetActiveSaves(k) \/ SetActiveQueries(k) \/ SetActiveMarks(k) => Goes
    BY <1>1, <1>2, <1>3 DEF SetActiveReads, GetOrThrow, SetActiveSaves, SetActiveQueries, SetActiveMarks
  <1>23. AccountHandle(k) => Goes
    BY <1>8, <1>12, <1>13, <1>14, <1>15, <1>16, <1>17 DEF AccountHandle
  <1>24. Goes
    BY <1>9, <1>10, <1>11, <1>18, <1>19, <1>20, <1>21, <1>22, <1>23 DEF Handle
  <1> QED
    BY <1>24 DEF Goes

IsCreating(r) == r.op \in Creations
NotSaved == {"create", "claim", "save"}

\* Never created, or the creation has not saved the document yet.
StillNew(p) ==
    \/ accounts[p].state = "new"
    \/ \E k \in Clients : requests[k].who = p /\ IsCreating(requests[k]) /\ requests[k].pc \in NotSaved

\* A person is created once, by one request.
CreationsInv ==
    /\ \A k, j \in Clients :
          IsCreating(requests[k]) /\ IsCreating(requests[j]) /\ requests[k].who = requests[j].who => k = j
    /\ \A k \in Clients :
          IsCreating(requests[k]) /\ requests[k].pc # "create" => accounts[requests[k].who].state # "new"

CreationStep(k) ==
    LET r == requests[k]  q == requests'[k] IN
    /\ Only(k)
    /\ \A p \in People : accounts'[p].state = "new" => accounts[p].state = "new"
    /\ IsCreating(q) =>
          \/ /\ q.who \in People /\ q.pc = "create" /\ accounts[q.who].state = "new"
             /\ \A i \in Clients : requests[i].who # q.who
          \/ /\ IsCreating(r) /\ q.who = r.who /\ q.who \in People /\ q.pc # "create"
             /\ q.pc \in NotSaved => r.pc \in NotSaved /\ r.pc # "save"
             /\ r.pc = "create" => accounts'[q.who].state # "new"

LEMMA CreationsStay ==
    ASSUME RequestsOK, CreationsInv, NEW k \in Clients, CreationStep(k)
    PROVE  /\ CreationsInv'
           /\ \A p \in People : StillNew(p)' =>
                 StillNew(p) /\ ~(IsCreating(requests[k]) /\ requests[k].who = p /\ requests[k].pc = "save")
PROOF
  <1> DEFINE r == requests[k]
             q == requests'[k]
  <1>1. \A i \in Clients \ {k} : requests'[i] = requests[i]
    BY DEF CreationStep, Only
  <1>2. \A p \in People : accounts'[p].state = "new" => accounts[p].state = "new"
    BY DEF CreationStep
  <1>3. \A i \in Clients : IsCreating(requests[i]) => requests[i].who \in People
    BY CreationKnows DEF RequestsOK, RequestOK, CreationOK, IsCreating
  <1>4. ASSUME NEW i \in Clients, NEW j \in Clients, i # j, IsCreating(requests'[i]), IsCreating(requests'[j]),
               requests'[i].who = requests'[j].who
        PROVE  FALSE
    <2>1. CASE i = k
      BY <1>1, <1>4, <2>1 DEF CreationStep, CreationsInv
    <2>2. CASE j = k
      BY <1>1, <1>4, <2>2 DEF CreationStep, CreationsInv
    <2>3. CASE i # k /\ j # k
      BY <1>1, <1>4, <2>3 DEF CreationsInv
    <2> QED
      BY <2>1, <2>2, <2>3
  <1>5. ASSUME NEW i \in Clients, IsCreating(requests'[i]), requests'[i].pc # "create"
        PROVE  accounts'[requests'[i].who].state # "new"
    <2>1. CASE i = k
      BY <1>2, <1>5, <2>1 DEF CreationStep, CreationsInv
    <2>2. CASE i # k
      BY <1>1, <1>2, <1>3, <1>5, <2>2 DEF CreationsInv
    <2> QED
      BY <2>1, <2>2
  <1>6. ASSUME NEW p \in People, StillNew(p)'
        PROVE  StillNew(p) /\ ~(IsCreating(r) /\ r.who = p /\ r.pc = "save")
    <2>1. CASE accounts'[p].state = "new"
      BY <1>2, <2>1 DEF StillNew, CreationsInv
    <2>2. ASSUME NEW i \in Clients, requests'[i].who = p, IsCreating(requests'[i]), requests'[i].pc \in NotSaved
          PROVE  StillNew(p) /\ ~(IsCreating(r) /\ r.who = p /\ r.pc = "save")
      <3>1. CASE i = k
        BY <2>2, <3>1 DEF StillNew, CreationStep
      <3>2. CASE i # k
        BY <1>1, <2>2, <3>2 DEF StillNew, CreationsInv
      <3> QED
        BY <3>1, <3>2
    <2> QED
      BY <1>6, <2>1, <2>2 DEF StillNew
  <1> QED
    BY <1>4, <1>5, <1>6 DEF CreationsInv

\* A step that neither creates nor goes on with a creation.
LEMMA NoCreation ==
    ASSUME NEW k \in Clients, Only(k), ~IsCreating(requests'[k]),
           \A p \in People : accounts'[p].state = "new" => accounts[p].state = "new"
    PROVE  CreationStep(k)
PROOF BY DEF CreationStep

\* No step makes an account new.
LEMMA NeverNewAgain ==
    ASSUME PeopleTypeOK, NEW k \in Clients, Handle(k) \/ Asks(k) \/ Stop(k)
    PROVE  \A p \in People : accounts'[p].state = "new" => accounts[p].state = "new"
PROOF
  <1> DEFINE Old == \A p \in People : accounts'[p].state = "new" => accounts[p].state = "new"
  <1>0. accounts \in [People -> Accts] /\ RequestOK(requests[k])
    BY DEF PeopleTypeOK, StoresOK, RequestsOK
  <1>1. ASSUME UNCHANGED accounts PROVE Old
    BY <1>1
  <1>2. ASSUME NEW p, NEW state \in {"live", "deleted"}, NEW claim, NEW email,
               accounts' = [accounts EXCEPT ![p] = Account(state, claim, email)]
        PROVE  Old
    <2>1. Account(state, claim, email).state = state
      BY DEF Account
    <2> QED
      BY <1>0, <1>2, <2>1
  <1>3. ASSUME NEW p, NEW claim, accounts' = [accounts EXCEPT ![p].claim = claim]
        PROVE  Old
    BY <1>0, <1>3 DEF Accts
  <1>4. ASSUME NEW p, NEW email, accounts' = [accounts EXCEPT ![p].email = email]
        PROVE  Old
    BY <1>0, <1>4 DEF Accts
  <1> HIDE DEF Old
  <1>a. ASSUME NEW p, accounts' = [accounts EXCEPT ![p] = Account("deleted", "none", NoOne)] PROVE Old
    BY <1>2, <1>a
  <1>b. CreateUndoes(k) \/ DeleteAccount(k) => Old
    BY <1>a DEF CreateUndoes, DeleteAccount, AccountDeleted
  <1>5. CreateAccount(k) \/ CreateClaims(k) \/ CreateSaves(k) \/ InviteMails(k) \/ CreateUndoes(k) => Old
    BY <1>1, <1>2, <1>3, <1>b DEF CreateAccount, CreateClaims, CreateSaves, InviteMails
  <1>6. SignIn(k) \/ LoginResolves(k) \/ LoginClaims(k) \/ LoginReissues(k) => Old
    BY <1>1, <1>3 DEF SignIn, LoginResolves, LoginClaims, LoginReissues, OnlyRequests
  <1>7. EmailChangesAccount(k) \/ EmailChangesDocument(k) \/ EmailUndoes(k) => Old
    BY <1>1, <1>4 DEF EmailChangesAccount, EmailChangesDocument, EmailUndoes, EmailRestored
  <1>8. UpdateOwnProfileReads(k) \/ UpdateOwnProfileSaves(k) \/ UpdateUserReads(k) \/ UpdateUserSaves(k) => Old
    BY <1>1 DEF UpdateOwnProfileReads, GetOrThrow, UpdateOwnProfileSaves, UpdateUserReads, UpdateUserSaves, OnlyRequests
  <1>9. DeleteInviteReads(k) \/ DeleteInviteReadsStudents(k) \/ DeleteDoc(k) \/ DeleteAccount(k) => Old
    BY <1>1, <1>b DEF DeleteInviteReads, DeleteInviteReadsStudents, DeleteDoc, OnlyRequests
  <1>10. MigrateLists(k) \/ MigrateClaims(k) \/ MigrateEnds(k) => Old
    BY <1>1, <1>3 DEF MigrateLists, MigrateClaims, MigrateEnds, OnlyRequests
  <1>11. (\E p \in People : MigrateCreates(k, p) \/ SyncRoleReads(k, p)) => Old
    BY <1>1, <1>2 DEF MigrateCreates, SyncRoleReads, OnlyRequests
  <1>12. AccountHandle(k) => Old
    BY <1>5, <1>6, <1>7, <1>8, <1>9, <1>10, <1>11 DEF AccountHandle
  <1>13. ASSUME GrantReads(k) \/ GrantWrites(k) \/ GrantRecords(k) \/ GrantUndoes(k)
                \/ RevokeReads(k) \/ RevokeReadsLast(k) \/ RevokeWrites(k) \/ RevokeFinds(k) \/ RevokeVoids(k)
         PROVE  Old
    BY <1>1, <1>13 DEF GrantReads, GrantWrites, GrantRecords, GrantUndoes, RevokeReads, GetOrThrow,
       RevokeReadsLast, RevokeWrites, RevokeFinds, RevokeVoids, OnlyRequests
  <1>14. ASSUME AssignReads(k) \/ AssignReadsCurrent(k) \/ AssignReleases(k) \/ AssignReadsStudent(k)
                \/ AssignSaves(k) \/ UpdateAssignmentReads(k) \/ UpdateAssignmentReadsTeacher(k)
                \/ UpdateAssignmentSaves(k)
         PROVE  Old
    BY <1>1, <1>14 DEF AssignReads, GetOrThrow, AssignReadsCurrent, AssignReleases, AssignReadsStudent,
       AssignSaves, UpdateAssignmentReads, UpdateAssignmentReadsTeacher, UpdateAssignmentSaves, OnlyRequests
  <1>15. SetActiveReads(k) \/ SetActiveSaves(k) \/ SetActiveQueries(k) \/ SetActiveMarks(k) => Old
    BY <1>1 DEF SetActiveReads, GetOrThrow, SetActiveSaves, SetActiveQueries, SetActiveMarks, OnlyRequests
  <1>16. Handle(k) => Old
    BY <1>12, <1>13, <1>14, <1>15 DEF Handle
  <1>17. Stop(k) => Old
    BY <1>1 DEF Stop
  <1>18. Asks(k) => Old
    BY <1>1 DEF Asks, AccountAsks, Create, Login, Refresh, Delete, ChangeEmail, UpdateOwnProfile, UpdateUser,
       DeleteInvite, Migrate, Grant, Revoke, UpdateAssignment, AssignStudents, SetActive, Begin
  <1> QED
    BY <1>16, <1>17, <1>18 DEF Old

\* What is asked: a creation only of whom is new, a grant or a revocation from its reading.
LEMMA AsksBegin ==
    ASSUME PeopleTypeOK, NEW k \in Clients, Asks(k)
    PROVE  LET q == requests'[k] IN
           /\ Only(k) /\ requests[k] = Idle
           /\ UNCHANGED <<accounts, users, outdated, cut, payments, clock, revoked, crossed>>
           /\ q.op \in {"grant", "revoke"} => q.pc = "get"
           /\ IsCreating(q) => /\ q.who \in People /\ q.pc = "create" /\ accounts[q.who].state = "new"
                               /\ \A i \in Clients : requests[i].who # q.who
PROOF
  <1> DEFINE q == requests'[k]
             Asked == /\ Only(k) /\ requests[k] = Idle
                      /\ q.op \in {"grant", "revoke"} => q.pc = "get"
                      /\ IsCreating(q) => /\ q.who \in People /\ q.pc = "create" /\ accounts[q.who].state = "new"
                                          /\ \A i \in Clients : requests[i].who # q.who
  <1>0. RequestsOK
    BY DEF PeopleTypeOK
  <1>1. ASSUME NEW op, NEW pc, NEW who, NEW arg, Begin(k, Request(op, pc, who, arg)), op \notin Creations,
               op \in {"grant", "revoke"} => pc = "get"
        PROVE  Asked
    <2>1. Only(k) /\ requests'[k] = Request(op, pc, who, arg) /\ requests[k] = Idle
      BY <1>0, <1>1, BeginStep
    <2>2. requests'[k].op = op /\ requests'[k].pc = pc
      BY <2>1, RequestIs
    <2> QED
      BY <1>1, <2>1, <2>2 DEF IsCreating
  <1>2. ASSUME NEW op, NEW pc, NEW who, NEW arg, NEW got,
               Begin(k, [Request(op, pc, who, arg) EXCEPT !.got = got]), op \notin Creations \cup {"grant", "revoke"}
        PROVE  Asked
    <2> DEFINE r == Request(op, pc, who, arg)
    <2>1. IsRequest(r) /\ r.op = op
      BY RequestIs
    <2> HIDE DEF r
    <2>2. Holding(r, got).op = op
      BY <2>1, HoldingIs DEF SameAsk
    <2>3. Begin(k, Holding(r, got))
      BY <1>2 DEF Holding, r
    <2>4. Only(k) /\ requests'[k] = Holding(r, got) /\ requests[k] = Idle
      BY <1>0, <2>3, BeginStep
    <2> QED
      BY <1>2, <2>2, <2>4 DEF IsCreating
  <1>3. ASSUME NEW p \in People, NEW op \in {"create", "invite"}, NEW email, Create(k, p, op, email)
        PROVE  Asked
    <2>1. Begin(k, Request(op, "create", p, email)) /\ accounts[p].state = "new"
          /\ \A i \in Clients : requests[i].who # p
      BY <1>3 DEF Create
    <2>2. Only(k) /\ requests'[k] = Request(op, "create", p, email) /\ requests[k] = Idle
      BY <1>0, <2>1, BeginStep
    <2>3. requests'[k].op = op /\ requests'[k].pc = "create" /\ requests'[k].who = p
      BY <2>2, RequestIs
    <2> QED
      BY <1>3, <2>1, <2>2, <2>3 DEF IsCreating
  <1>4. \A op \in {"login", "refresh", "profile", "delete", "uninvite", "accounts", "roles",
                   "assignment", "assign", "active"} : op \notin Creations \cup {"grant", "revoke"}
    BY DEF Creations
  <1>5. {"email", "edit"} \cap (Creations \cup {"grant", "revoke"}) = {} /\ {"grant", "revoke"} \cap Creations = {}
    BY DEF Creations
  <1> HIDE DEF Asked
  <1>6. ASSUME NEW p \in People, Login(k, p) \/ Refresh(k, p) \/ Delete(k, p) \/ DeleteInvite(k, p)
        PROVE  Asked
    BY <1>1, <1>4, <1>6 DEF Login, Refresh, Delete, DeleteInvite
  <1>7. ASSUME NEW p \in People, NEW email, ChangeEmail(k, p, email) PROVE Asked
    BY <1>2, <1>5, <1>7 DEF ChangeEmail
  <1>8. ASSUME NEW p \in People, NEW fields, UpdateOwnProfile(k, p, fields) PROVE Asked
    BY <1>1, <1>4, <1>8 DEF UpdateOwnProfile
  <1>9. ASSUME NEW p \in People, NEW requester, NEW fields, UpdateUser(k, requester, p, fields) PROVE Asked
    BY <1>2, <1>5, <1>9 DEF UpdateUser
  <1>10. ASSUME NEW op \in {"accounts", "roles"}, Migrate(k, op) PROVE Asked
    BY <1>1, <1>4, <1>10 DEF Migrate
  <1>11. AccountAsks(k) => Asked
    <2>1. Teachers \subseteq People
      BY DEF People
    <2> QED
      BY <1>3, <1>6, <1>7, <1>8, <1>9, <1>10, <2>1 DEF AccountAsks
  <1>12. ASSUME NEW s, NEW amount, Grant(k, s, amount) PROVE Asked
    BY <1>1, <1>5, <1>12 DEF Grant
  <1>13. ASSUME NEW s, NEW refund, Revoke(k, s, refund) PROVE Asked
    BY <1>1, <1>5, <1>13 DEF Revoke
  <1>14. ASSUME NEW s, NEW t, UpdateAssignment(k, s, t) PROVE Asked
    BY <1>1, <1>4, <1>14 DEF UpdateAssignment
  <1>15. ASSUME NEW t, NEW students, AssignStudents(k, t, students) PROVE Asked
    BY <1>1, <1>4, <1>15 DEF AssignStudents
  <1>16. ASSUME NEW t, NEW active, SetActive(k, t, active) PROVE Asked
    BY <1>1, <1>4, <1>16 DEF SetActive
  <1>17. Asked
    BY <1>11, <1>12, <1>13, <1>14, <1>15, <1>16 DEF Asks
  <1>18. UNCHANGED <<accounts, users, outdated, cut, payments, clock, revoked, crossed>>
    BY DEF Asks, AccountAsks, Create, Login, Refresh, Delete, ChangeEmail, UpdateOwnProfile, UpdateUser,
       DeleteInvite, Migrate, Grant, Revoke, UpdateAssignment, AssignStudents, SetActive, Begin, paid
  <1> QED
    BY <1>17, <1>18 DEF Asked

LEMMA CreateGoesOn ==
    ASSUME PeopleTypeOK, NEW k \in Clients,
           CreateAccount(k) \/ CreateClaims(k) \/ CreateSaves(k) \/ InviteMails(k) \/ CreateUndoes(k),
           UNCHANGED paid, Handle(k)
    PROVE  CreationStep(k)
PROOF
  <1> DEFINE r == requests[k]
             q == requests'[k]
             p == r.who
  <1>0. RequestsOK /\ RequestOK(r) /\ IsRequest(r) /\ accounts \in [People -> Accts]
    BY DEF PeopleTypeOK, RequestsOK, RequestOK, StoresOK
  <1>1. IsCreating(r) /\ p \in People
    BY <1>0, AwaitTells, CreationKnows
    DEF CreateAccount, CreateClaims, CreateSaves, InviteMails, CreateUndoes, Creations, At, IsCreating, CreationOK
  <1>2. Only(k)
    BY CreateTypes DEF TypeStep
  <1>3. \A x \in People : accounts'[x].state = "new" => accounts[x].state = "new"
    BY NeverNewAgain
  <1>4. q = Idle => ~IsCreating(q)
    BY IdleIs DEF IsCreating, Creations
  <1>5. ASSUME NEW pc, NEW got, Proceed(k, pc, got) PROVE q.who = p /\ q.pc = pc
    BY <1>0, <1>5, ProceedStep DEF SameAsk
  <1>6. End(k) => q = Idle
    BY <1>0, EndStep
  <1>7. q # Idle =>
           /\ q.who = p /\ q.pc \in {"claim", "save", "mail", "undo"}
           /\ q.pc \in NotSaved => (r.pc = "create" /\ q.pc = "claim") \/ (r.pc = "claim" /\ q.pc = "save")
           /\ r.pc = "create" => accounts'[p].state = "live"
    <2>1. ASSUME CreateAccount(k), q # Idle
          PROVE  q.who = p /\ q.pc = "claim" /\ r.pc = "create" /\ accounts'[p].state = "live"
      <3>1. accounts' = [accounts EXCEPT ![p] = Account("live", "none", r.arg)] /\ Proceed(k, "claim", NoArg)
        BY <1>6, <2>1 DEF CreateAccount
      <3>2. Account("live", "none", r.arg).state = "live"
        BY DEF Account
      <3> QED
        BY <1>0, <1>1, <1>5, <2>1, <3>1, <3>2 DEF CreateAccount
    <2>2. ASSUME CreateClaims(k), q # Idle PROVE q.who = p /\ q.pc = "save" /\ r.pc = "claim"
      BY <1>5, <1>6, <2>2 DEF CreateClaims
    <2>3. ASSUME CreateSaves(k), q # Idle PROVE q.who = p /\ q.pc \in {"mail", "undo"} /\ r.pc = "save"
      BY <1>5, <1>6, <2>3 DEF CreateSaves
    <2>4. ASSUME InviteMails(k), q # Idle PROVE q.who = p /\ q.pc = "undo" /\ r.pc = "mail"
      BY <1>5, <1>6, <2>4 DEF InviteMails, At
    <2>5. ASSUME CreateUndoes(k) PROVE q = Idle
      BY <1>6, <2>5 DEF CreateUndoes
    <2> QED
      BY <2>1, <2>2, <2>3, <2>4, <2>5 DEF NotSaved
  <1> QED
    BY <1>1, <1>2, <1>3, <1>4, <1>7 DEF CreationStep, NotSaved

\* Who takes a step of another handler creates nobody.
LEMMA OthersCreateNot ==
    ASSUME PeopleTypeOK, NEW k \in Clients, Handle(k),
           ~((CreateAccount(k) \/ CreateClaims(k) \/ CreateSaves(k) \/ InviteMails(k) \/ CreateUndoes(k))
             /\ UNCHANGED paid)
    PROVE  ~IsCreating(requests[k])
PROOF
  <1> DEFINE r == requests[k]
             Other == ~IsCreating(r)
  <1>0. RequestOK(r)
    BY DEF PeopleTypeOK, RequestsOK
  <1>1. Creations = {"create", "invite"}
    BY DEF Creations
  <1>2. SignIn(k) \/ LoginResolves(k) \/ LoginClaims(k) \/ LoginReissues(k) => Other
    BY <1>0, AwaitTells DEF SignIn, LoginResolves, LoginClaims, LoginReissues, IsCreating, Creations, SignIns
  <1>3. EmailChangesAccount(k) \/ EmailChangesDocument(k) \/ EmailUndoes(k) => Other
    BY <1>1 DEF EmailChangesAccount, EmailChangesDocument, EmailUndoes, At, IsCreating
  <1>4. UpdateOwnProfileReads(k) \/ UpdateOwnProfileSaves(k) \/ UpdateUserReads(k) \/ UpdateUserSaves(k) => Other
    BY <1>1 DEF UpdateOwnProfileReads, GetOrThrow, UpdateOwnProfileSaves, UpdateUserReads, UpdateUserSaves, At,
                IsCreating
  <1>5. DeleteInviteReads(k) \/ DeleteInviteReadsStudents(k) \/ DeleteDoc(k) \/ DeleteAccount(k) => Other
    BY <1>1 DEF DeleteInviteReads, DeleteInviteReadsStudents, DeleteDoc, DeleteAccount, At, IsCreating
  <1>6. (MigrateLists(k) \/ MigrateClaims(k) \/ MigrateEnds(k)
         \/ \E p \in People : MigrateCreates(k, p) \/ SyncRoleReads(k, p)) => Other
    BY MigrationMoves DEF MigrationStep, Migrations, IsCreating, Creations
  <1>7. GrantReads(k) \/ GrantWrites(k) \/ GrantRecords(k) \/ GrantUndoes(k) => Other
    BY <1>1 DEF GrantReads, GrantWrites, GrantRecords, GrantUndoes, At, IsCreating
  <1>8. RevokeReads(k) \/ RevokeReadsLast(k) \/ RevokeWrites(k) \/ RevokeFinds(k) \/ RevokeVoids(k) => Other
    BY <1>1 DEF RevokeReads, GetOrThrow, RevokeReadsLast, RevokeWrites, RevokeFinds, RevokeVoids, At, IsCreating
  <1>9. AssignReads(k) \/ AssignReadsCurrent(k) \/ AssignReleases(k) \/ AssignReadsStudent(k) \/ AssignSaves(k)
        => Other
    BY <1>1 DEF AssignReads, GetOrThrow, AssignReadsCurrent, AssignReleases, AssignReadsStudent, AssignSaves, At,
                IsCreating
  <1>10. UpdateAssignmentReads(k) \/ UpdateAssignmentReadsTeacher(k) \/ UpdateAssignmentSaves(k) => Other
    BY <1>1 DEF UpdateAssignmentReads, GetOrThrow, UpdateAssignmentReadsTeacher, UpdateAssignmentSaves, At, IsCreating
  <1>11. SetActiveReads(k) \/ SetActiveSaves(k) \/ SetActiveQueries(k) \/ SetActiveMarks(k) => Other
    BY <1>1 DEF SetActiveReads, GetOrThrow, SetActiveSaves, SetActiveQueries, SetActiveMarks, At, IsCreating
  <1> HIDE DEF Other
  <1>12. Other
    BY <1>2, <1>3, <1>4, <1>5, <1>6, <1>7, <1>8, <1>9, <1>10, <1>11 DEF Handle, AccountHandle
  <1> QED
    BY <1>12 DEF Other

LEMMA CreationSteps ==
    ASSUME PeopleTypeOK, NEW k \in Clients, Handle(k) \/ Asks(k) \/ Stop(k)
    PROVE  CreationStep(k)
PROOF
  <1>1. \A p \in People : accounts'[p].state = "new" => accounts[p].state = "new"
    BY NeverNewAgain
  <1>2. Only(k)
    BY HandleTypes, AsksTypes, StopTypes DEF TypeStep
  <1>3. ~IsCreating(Idle)
    BY IdleIs DEF IsCreating, Creations
  <1>4. CASE Asks(k)
    BY <1>1, <1>2, <1>4, AsksBegin DEF CreationStep
  <1>5. CASE Stop(k)
    <2>1. requests'[k] = Idle
      BY <1>5, EndStep DEF PeopleTypeOK, Stop
    <2> QED
      BY <1>1, <1>2, <1>3, <2>1, NoCreation
  <1>6. CASE Handle(k)
    <2>1. CASE (CreateAccount(k) \/ CreateClaims(k) \/ CreateSaves(k) \/ InviteMails(k) \/ CreateUndoes(k))
               /\ UNCHANGED paid
      BY <1>6, <2>1, CreateGoesOn
    <2>2. CASE ~((CreateAccount(k) \/ CreateClaims(k) \/ CreateSaves(k) \/ InviteMails(k) \/ CreateUndoes(k))
                 /\ UNCHANGED paid)
      <3>1. ~IsCreating(requests[k]) /\ (requests'[k] = Idle \/ requests'[k].op = requests[k].op)
        BY <1>6, <2>2, OthersCreateNot, OpsStay
      <3> QED
        BY <1>1, <1>2, <1>3, <3>1, NoCreation DEF IsCreating
    <2> QED
      BY <2>1, <2>2
  <1> QED
    BY <1>4, <1>5, <1>6

-----------------------------------------------------------------------------
(* Access and payments: what holds of each student *)

\* Set apart: written from a reading no longer true, or by a grant and a revocation
\* that crossed.
Apart == outdated \cup crossed

PaidBy(s) == {m \in payments : m.student = s}
Standing(s) == {m \in payments : m.student = s /\ ~m.voided /\ m.at \notin revoked}

\* A grant that has read, and one that has written and is not recorded yet.
IsGranting(r) == r.op = "grant" /\ r.pc \in {"write", "record", "undo"}
IsWriting(r) == r.op = "grant" /\ r.pc \in {"record", "undo"}
Writing(s) == {k \in Clients : IsWriting(requests[k]) /\ requests[k].who = s}

\* The day a grant gives, and the one it goes on from.
Gives == [k \in Clients |-> requests[k].got.until]
Before == [k \in Clients |-> DayOf(Until(requests[k].copy))]
LastDay(s) == DayOf(Until(users[s]))

\* A revocation that has taken the days back and may refund a payment.
IsRefunding(r) == r.op = "revoke" /\ r.pc \in {"find", "void"}

\* Every grant has a time of its own, and gives days after those it read.
TimesInv ==
    /\ \A m \in payments : m.at <= clock
    /\ \A m, n \in payments : m.at = n.at => m = n
    /\ \A k \in Clients : IsGranting(requests[k]) =>
          /\ requests[k].got.at <= clock /\ \A m \in payments : m.at # requests[k].got.at
          /\ requests[k].got.until >= DayOf(Until(requests[k].copy)) + GrantDays
    /\ \A k, j \in Clients :
          IsGranting(requests[k]) /\ IsGranting(requests[j]) /\ requests[k].got.at = requests[j].got.at => k = j

StudentInv(s) ==
    /\ s \notin Apart /\ StillNew(s) => users[s] = NoDoc /\ PaidBy(s) = {} /\ Writing(s) = {}
    /\ s \notin Apart /\ users[s] # NoDoc =>
          DaysOK(LastDay(s), Standing(s), Writing(s), Gives, Before)
    /\ s \notin Apart \cup cut /\ users[s] # NoDoc =>
          RecordOK(LastDay(s), CountedPayments(s), Writing(s), Gives, Before)
    /\ s \notin Apart /\ BeingRefunded(s) => LastDay(s) = -1

AccessInv == CreationsInv /\ TimesInv /\ \A s \in Students : StudentInv(s)

\* A student whose days and payments a step leaves alone.
Undisturbed(s) ==
    /\ Grows /\ crossed \subseteq crossed'
    /\ s \notin Apart' =>
          /\ \/ users'[s] = users[s] \/ users'[s] = NoDoc
             \/ users[s] # NoDoc /\ Until(users'[s]) = Until(users[s])
          /\ PaidBy(s)' = PaidBy(s) /\ Standing(s)' = Standing(s) /\ CountedPayments(s)' = CountedPayments(s)
          /\ Writing(s)' \subseteq Writing(s) /\ (s \notin cut' => Writing(s)' = Writing(s))
          /\ \A k \in Writing(s)' : Gives'[k] = Gives[k] /\ Before'[k] = Before[k]
          /\ BeingRefunded(s)' => BeingRefunded(s)

LEMMA RefundingIs ==
    ASSUME NEW s
    PROVE  /\ BeingRefunded(s) <=> \E k \in Clients : requests[k].who = s /\ IsRefunding(requests[k])
           /\ BeingRefunded(s)' <=> \E k \in Clients : requests'[k].who = s /\ IsRefunding(requests'[k])
PROOF BY DEF BeingRefunded, At, IsRefunding

\* A refund under way stays one, or ends.
LEMMA RefundingStays ==
    ASSUME NEW k \in Clients, Only(k), NEW s,
           requests'[k].who = s /\ IsRefunding(requests'[k]) => requests[k].who = s /\ IsRefunding(requests[k])
    PROVE  BeingRefunded(s)' => BeingRefunded(s)
PROOF
  <1>1. \A i \in Clients \ {k} : requests'[i] = requests[i]
    BY DEF Only
  <1> QED
    BY <1>1, RefundingIs

LEMMA UndisturbedStays ==
    ASSUME NEW s, StudentInv(s), Undisturbed(s), StillNew(s)' => StillNew(s)
    PROVE  StudentInv(s)'
PROOF
  <1>0. Apart \subseteq Apart' /\ cut \subseteq cut'
    BY DEF Undisturbed, Grows, Apart
  <1>1. ASSUME s \notin Apart', StillNew(s)'
        PROVE  users'[s] = NoDoc /\ PaidBy(s)' = {} /\ Writing(s)' = {}
    BY <1>0, <1>1 DEF Undisturbed, StudentInv
  <1>2. ASSUME s \notin Apart', users'[s] # NoDoc
        PROVE  users[s] # NoDoc /\ LastDay(s)' = LastDay(s)
    BY <1>2 DEF Undisturbed, LastDay
  <1>3. ASSUME s \notin Apart', users'[s] # NoDoc
        PROVE  DaysOK(LastDay(s)', Standing(s)', Writing(s)', Gives', Before')
    <2>1. DaysOK(LastDay(s), Standing(s), Writing(s), Gives, Before)
      BY <1>0, <1>2, <1>3 DEF StudentInv
    <2>2. Writing(s)' \in SUBSET Writing(s) /\ \A k \in Writing(s)' : Gives'[k] = Gives[k] /\ Before'[k] = Before[k]
      BY <1>3 DEF Undisturbed
    <2>3. DaysOK(LastDay(s), Standing(s), Writing(s)', Gives, Before)
      BY <2>1, <2>2, DaysOfFewer
    <2>4. DaysOK(LastDay(s), Standing(s), Writing(s)', Gives', Before')
      BY <2>2, <2>3, GrantsAgree
    <2> QED
      BY <1>2, <1>3, <2>4 DEF Undisturbed
  <1>4. ASSUME s \notin Apart' \cup cut', users'[s] # NoDoc
        PROVE  RecordOK(LastDay(s)', CountedPayments(s)', Writing(s)', Gives', Before')
    <2>1. RecordOK(LastDay(s), CountedPayments(s), Writing(s), Gives, Before)
      BY <1>0, <1>2, <1>4 DEF StudentInv
    <2>2. Writing(s)' = Writing(s) /\ \A k \in Writing(s) : Gives'[k] = Gives[k] /\ Before'[k] = Before[k]
      BY <1>4 DEF Undisturbed
    <2>3. RecordOK(LastDay(s), CountedPayments(s), Writing(s), Gives', Before')
      BY <2>1, <2>2, GrantsAgree
    <2> QED
      BY <1>2, <1>4, <2>2, <2>3 DEF Undisturbed
  <1>5. ASSUME s \notin Apart', BeingRefunded(s)' PROVE LastDay(s)' = -1
    <2>1. LastDay(s) = -1
      BY <1>0, <1>5 DEF Undisturbed, StudentInv
    <2>2. LastDay(s)' = LastDay(s) \/ users'[s] = NoDoc
      BY <1>5 DEF Undisturbed, LastDay
    <2>3. users'[s] = NoDoc => LastDay(s)' = -1
      BY DEF LastDay, DayOf, Until, Has
    <2> QED
      BY <2>1, <2>2, <2>3
  <1> QED
    BY <1>1, <1>3, <1>4, <1>5 DEF StudentInv

\* The document a creation saves: nobody has paid for it.
LEMMA CreatedStays ==
    ASSUME NEW k \in Clients, NEW s \in Students, StudentInv(s), Grows, Only(k), RequestsOK,
           UNCHANGED <<payments, revoked, crossed>>, ~IsWriting(requests'[k]),
           Creates(requests[k], s), ~StillNew(s)'
    PROVE  StudentInv(s)'
PROOF
  <1> DEFINE r == requests[k]
             doc == NewDoc(s, r.arg)
  <1>0. Apart \subseteq Apart'
    BY DEF Grows, Apart
  <1>1. StillNew(s)
    BY DEF Creates, StillNew, IsCreating, NotSaved
  <1>2. \A i \in Clients \ {k} : requests'[i] = requests[i]
    BY DEF Only
  <1>3. s \notin Apart' => PaidBy(s)' = {} /\ Writing(s)' = {}
    <2>1. Writing(s)' \subseteq Writing(s)
      BY <1>2 DEF Writing
    <2> QED
      BY <1>0, <1>1, <2>1 DEF StudentInv, PaidBy
  <1>4. Standing(s)' \subseteq PaidBy(s)' /\ CountedPayments(s)' \subseteq PaidBy(s)'
    BY DEF Standing, PaidBy, CountedPayments
  <1>5. LastDay(s)' = -1
    <2>1. doc = [email |-> r.arg, role |-> RoleOf(s), isPaying |-> FALSE]
      BY AccountsAssumption DEF NewDoc
    <2>2. ~Has(doc, "until")
      BY <2>1 DEF Has
    <2>3. ~Has(users'[s], "until")
      BY <2>2 DEF Creates, SameView, Held
    <2> QED
      BY <2>3 DEF LastDay, Until, DayOf
  <1>6. s \notin Apart' =>
           /\ DaysOK(LastDay(s)', Standing(s)', Writing(s)', Gives', Before')
           /\ RecordOK(LastDay(s)', CountedPayments(s)', Writing(s)', Gives', Before')
    <2>1. ASSUME s \notin Apart' PROVE Standing(s)' = {} /\ Writing(s)' = {}
      BY <1>3, <1>4, <2>1
    <2> QED
      BY <1>5, <2>1, NothingIsFine
  <1> QED
    BY <1>5, <1>6 DEF StudentInv

\* A step that writes no days and takes back no payment.
AwayStep(k) ==
    /\ Only(k) /\ Grows
    /\ UNCHANGED <<payments, revoked, crossed>>
    /\ ~IsWriting(requests'[k])
    /\ IsRefunding(requests'[k]) => IsRefunding(requests[k]) /\ requests'[k].who = requests[k].who
    /\ IsWriting(requests[k]) => requests[k].who \in cut'
    /\ UNCHANGED users \/ requests[k].op \notin {"grant", "revoke"}

LEMMA AwayStays ==
    ASSUME PeopleTypeOK, AccessInv, NEW k \in Clients, AwayStep(k), CreationStep(k),
           \A p \in People \ outdated' : DocStays(requests[k], p)
    PROVE  CreationsInv' /\ \A s \in Students : StudentInv(s)'
PROOF
  <1> DEFINE r == requests[k]
  <1>0. RequestsOK /\ CreationsInv /\ (\A s \in Students : StudentInv(s)) /\ Students \subseteq People
    BY DEF PeopleTypeOK, AccessInv, People
  <1>1. CreationsInv' /\ \A p \in People : StillNew(p)' =>
                 StillNew(p) /\ ~(IsCreating(r) /\ r.who = p /\ r.pc = "save")
    BY <1>0, CreationsStay
  <1>2. \A i \in Clients \ {k} : requests'[i] = requests[i]
    BY DEF AwayStep, Only
  <1>3. ASSUME NEW s \in Students PROVE StudentInv(s)'
    <2>1. CASE Creates(r, s) /\ s \notin Apart'
      <3>1. ~StillNew(s)'
        BY <1>0, <1>1, <2>1 DEF Creates, IsCreating
      <3> QED
        BY <1>0, <2>1, <3>1, CreatedStays DEF AwayStep
    <2>2. CASE ~(Creates(r, s) /\ s \notin Apart')
      <3>1. ASSUME s \notin Apart'
            PROVE  \/ users'[s] = users[s] \/ users'[s] = NoDoc
                   \/ users[s] # NoDoc /\ Until(users'[s]) = Until(users[s])
        <4>1. CASE UNCHANGED users
          BY <4>1
        <4>2. CASE r.op \notin {"grant", "revoke"}
          <5>1. "until" \in LeftAlone(r.op)
            BY <4>2 DEF LeftAlone, Writes, Held
          <5>2. SameView(LeftAlone(r.op), users[s], users'[s]) => Until(users'[s]) = Until(users[s])
            BY <5>1 DEF SameView, Until
          <5> QED
            BY <1>0, <2>2, <3>1, <5>2 DEF DocStays, Apart
        <4> QED
          BY <4>1, <4>2 DEF AwayStep
      <3>2. PaidBy(s)' = PaidBy(s) /\ Standing(s)' = Standing(s) /\ CountedPayments(s)' = CountedPayments(s)
        BY DEF AwayStep, PaidBy, Standing, CountedPayments
      <3>3. Writing(s)' \subseteq Writing(s) /\ (s \notin cut' => Writing(s)' = Writing(s))
        BY <1>2 DEF AwayStep, Writing
      <3>4. k \notin Writing(s)'
        BY DEF AwayStep, Writing
      <3>5. \A i \in Writing(s)' : Gives'[i] = Gives[i] /\ Before'[i] = Before[i]
        <4>1. Writing(s)' \subseteq Clients \ {k}
          BY <3>4 DEF Writing
        <4> QED
          BY <1>2, <4>1 DEF Gives, Before
      <3>6. BeingRefunded(s)' => BeingRefunded(s)
        BY RefundingStays DEF AwayStep
      <3>7. Undisturbed(s)
        BY <3>1, <3>2, <3>3, <3>5, <3>6 DEF Undisturbed, AwayStep
      <3> QED
        BY <1>0, <1>1, <3>7, UndisturbedStays
    <2> QED
      BY <2>1, <2>2
  <1> QED
    BY <1>1, <1>3

LEMMA TimesStay ==
    ASSUME TimesInv, NEW k \in Clients, Only(k), UNCHANGED <<payments, clock>>,
           LET r == requests[k]  q == requests'[k] IN
              IsGranting(q) => IsGranting(r) /\ q.got = r.got /\ q.copy = r.copy
    PROVE  TimesInv'
PROOF
  <1>1. \A i \in Clients : IsGranting(requests'[i]) =>
           IsGranting(requests[i]) /\ requests'[i].got = requests[i].got /\ requests'[i].copy = requests[i].copy
    BY DEF Only
  <1> QED
    BY <1>1 DEF TimesInv

-----------------------------------------------------------------------------
(* The steps that write no days and take back no payment *)

\* Whose step is of neither a grant nor a revocation.
Elsewhere(k) ==
    \/ AccountHandle(k) /\ UNCHANGED paid
    \/ AssignReads(k) \/ AssignReadsCurrent(k) \/ AssignReleases(k) \/ AssignReadsStudent(k) \/ AssignSaves(k)
    \/ UpdateAssignmentReads(k) \/ UpdateAssignmentReadsTeacher(k) \/ UpdateAssignmentSaves(k)
    \/ SetActiveReads(k) \/ SetActiveSaves(k) \/ SetActiveQueries(k) \/ SetActiveMarks(k)

LEMMA NotOfAccess ==
    ASSUME PeopleTypeOK, NEW k \in Clients, Elsewhere(k)
    PROVE  requests[k].op \notin {"grant", "revoke"}
PROOF
  <1> DEFINE r == requests[k]
             Other == r.op \notin {"grant", "revoke"}
  <1>0. RequestOK(r)
    BY DEF PeopleTypeOK, RequestsOK
  <1>1. CreateAccount(k) \/ CreateClaims(k) \/ CreateSaves(k) \/ InviteMails(k) \/ CreateUndoes(k) => Other
    BY <1>0, AwaitTells DEF CreateAccount, CreateClaims, CreateSaves, InviteMails, CreateUndoes, Creations, At
  <1>2. SignIn(k) \/ LoginResolves(k) \/ LoginClaims(k) \/ LoginReissues(k) => Other
    BY <1>0, AwaitTells DEF SignIn, LoginResolves, LoginClaims, LoginReissues, SignIns
  <1>3. EmailChangesAccount(k) \/ EmailChangesDocument(k) \/ EmailUndoes(k) => Other
    BY DEF EmailChangesAccount, EmailChangesDocument, EmailUndoes, At
  <1>4. UpdateOwnProfileReads(k) \/ UpdateOwnProfileSaves(k) \/ UpdateUserReads(k) \/ UpdateUserSaves(k) => Other
    BY DEF UpdateOwnProfileReads, GetOrThrow, UpdateOwnProfileSaves, UpdateUserReads, UpdateUserSaves, At
  <1>5. DeleteInviteReads(k) \/ DeleteInviteReadsStudents(k) \/ DeleteDoc(k) \/ DeleteAccount(k) => Other
    BY DEF DeleteInviteReads, DeleteInviteReadsStudents, DeleteDoc, DeleteAccount, At
  <1>6. (MigrateLists(k) \/ MigrateClaims(k) \/ MigrateEnds(k)
         \/ \E p \in People : MigrateCreates(k, p) \/ SyncRoleReads(k, p)) => Other
    BY MigrationMoves DEF MigrationStep, Migrations
  <1>7. AssignReads(k) \/ AssignReadsCurrent(k) \/ AssignReleases(k) \/ AssignReadsStudent(k) \/ AssignSaves(k)
        => Other
    BY DEF AssignReads, GetOrThrow, AssignReadsCurrent, AssignReleases, AssignReadsStudent, AssignSaves, At
  <1>8. UpdateAssignmentReads(k) \/ UpdateAssignmentReadsTeacher(k) \/ UpdateAssignmentSaves(k) => Other
    BY DEF UpdateAssignmentReads, GetOrThrow, UpdateAssignmentReadsTeacher, UpdateAssignmentSaves, At
  <1>9. SetActiveReads(k) \/ SetActiveSaves(k) \/ SetActiveQueries(k) \/ SetActiveMarks(k) => Other
    BY DEF SetActiveReads, GetOrThrow, SetActiveSaves, SetActiveQueries, SetActiveMarks, At
  <1> HIDE DEF Other
  <1>10. Other
    BY <1>1, <1>2, <1>3, <1>4, <1>5, <1>6, <1>7, <1>8, <1>9 DEF Elsewhere, AccountHandle
  <1> QED
    BY <1>10 DEF Other

LEMMA ElsewherePaysNot ==
    ASSUME NEW k \in Clients, Elsewhere(k)
    PROVE  UNCHANGED paid
PROOF
  <1>1. ASSUME AssignReads(k) \/ AssignReadsCurrent(k) \/ AssignReleases(k) \/ AssignReadsStudent(k) \/ AssignSaves(k)
        PROVE  UNCHANGED paid
    BY <1>1 DEF AssignReads, AssignReadsCurrent, AssignReleases, AssignReadsStudent, AssignSaves
  <1>2. ASSUME UpdateAssignmentReads(k) \/ UpdateAssignmentReadsTeacher(k) \/ UpdateAssignmentSaves(k)
        PROVE  UNCHANGED paid
    BY <1>2 DEF UpdateAssignmentReads, UpdateAssignmentReadsTeacher, UpdateAssignmentSaves
  <1>3. ASSUME SetActiveReads(k) \/ SetActiveSaves(k) \/ SetActiveQueries(k) \/ SetActiveMarks(k)
        PROVE  UNCHANGED paid
    BY <1>3 DEF SetActiveReads, SetActiveSaves, SetActiveQueries, SetActiveMarks
  <1> QED
    BY <1>1, <1>2, <1>3 DEF Elsewhere

\* Away from grants and payments, and at no time of its own.
Leaves(k) ==
    LET r == requests[k]  q == requests'[k] IN
    /\ AwayStep(k) /\ CreationStep(k)
    /\ \A p \in People \ outdated' : DocStays(r, p)
    /\ UNCHANGED clock
    /\ IsGranting(q) => IsGranting(r) /\ q.got = r.got /\ q.copy = r.copy

LEMMA LeavesIt ==
    ASSUME PeopleTypeOK, AccessInv, NEW k \in Clients, Leaves(k)
    PROVE  AccessInv'
PROOF
  <1>1. CreationsInv' /\ \A s \in Students : StudentInv(s)'
    BY AwayStays DEF Leaves
  <1>2. TimesInv'
    BY TimesStay DEF Leaves, AwayStep, AccessInv
  <1> QED
    BY <1>1, <1>2 DEF AccessInv

LEMMA ElsewhereLeaves ==
    ASSUME PeopleTypeOK, NEW k \in Clients, Elsewhere(k)
    PROVE  Leaves(k)
PROOF
  <1>1. Handle(k)
    BY DEF Elsewhere, Handle
  <1>2. requests[k].op \notin {"grant", "revoke"} /\ UNCHANGED paid
    BY NotOfAccess, ElsewherePaysNot
  <1>3. requests'[k].op \notin {"grant", "revoke"}
    BY <1>1, <1>2, OpsStay, IdleIs
  <1>4. PersonStep(k) /\ CreationStep(k)
    BY <1>1, HandleSteps, CreationSteps
  <1>5. Only(k) /\ Grows /\ \A p \in People \ outdated' : DocStays(requests[k], p)
    BY <1>4 DEF PersonStep, RosterStep, Grows
  <1> QED
    BY <1>2, <1>3, <1>4, <1>5 DEF Leaves, AwayStep, IsWriting, IsGranting, IsRefunding, paid

LEMMA AskingLeaves ==
    ASSUME PeopleTypeOK, NEW k \in Clients, Asks(k)
    PROVE  Leaves(k)
PROOF
  <1>1. /\ Only(k) /\ requests[k] = Idle
        /\ UNCHANGED <<accounts, users, outdated, cut, payments, clock, revoked, crossed>>
        /\ requests'[k].op \in {"grant", "revoke"} => requests'[k].pc = "get"
    BY AsksBegin
  <1>2. PersonStep(k) /\ CreationStep(k)
    BY AskSteps, CreationSteps
  <1>3. \A p \in People \ outdated' : DocStays(requests[k], p)
    BY <1>2 DEF PersonStep
  <1> QED
    BY <1>1, <1>2, <1>3, IdleIs DEF Leaves, AwayStep, IsWriting, IsGranting, IsRefunding, Grows

LEMMA StoppingLeaves ==
    ASSUME PeopleTypeOK, NEW k \in Clients, Stop(k)
    PROVE  Leaves(k)
PROOF
  <1>0. RequestsOK /\ RequestOK(requests[k]) /\ IsRequest(requests[k])
    BY DEF PeopleTypeOK, RequestsOK, RequestOK
  <1>1. Only(k) /\ requests'[k] = Idle
    BY <1>0, EndStep DEF Stop
  <1>2. PersonStep(k) /\ CreationStep(k)
    BY StopSteps, CreationSteps
  <1>3. Grows /\ \A p \in People \ outdated' : DocStays(requests[k], p)
    BY <1>2 DEF PersonStep, RosterStep, Grows
  <1>4. ASSUME IsWriting(requests[k]) PROVE requests[k].who \in cut'
    <2>1. requests[k].op = "grant" /\ requests[k].who \in Students
      BY <1>0, <1>4, PeopleKnow DEF IsWriting, GrantOK
    <2>2. requests[k].who # NoOne
      BY <2>1, AccountsAssumption DEF People
    <2>3. LeftHalfWay(k) = {requests[k].who}
      BY <2>1, <2>2 DEF LeftHalfWay
    <2> QED
      BY <2>3 DEF Stop
  <1>5. UNCHANGED <<users, paid>>
    BY DEF Stop
  <1> QED
    BY <1>1, <1>2, <1>3, <1>4, <1>5, IdleIs DEF Leaves, AwayStep, IsWriting, IsGranting, IsRefunding, paid

LEMMA RevocationReadsLeave ==
    ASSUME PeopleTypeOK, NEW k \in Clients, RevokeReads(k) \/ RevokeReadsLast(k) \/ RevokeFinds(k)
    PROVE  Leaves(k)
PROOF
  <1>1. Handle(k) /\ requests[k].op = "revoke"
    BY DEF Handle, RevokeReads, GetOrThrow, RevokeReadsLast, RevokeFinds, At
  <1>2. UNCHANGED users /\ UNCHANGED paid
    BY DEF RevokeReads, GetOrThrow, RevokeReadsLast, RevokeFinds, OnlyRequests
  <1>3. requests'[k].op # "grant"
    BY <1>1, OpsStay, IdleIs
  <1>4. PersonStep(k) /\ CreationStep(k)
    BY <1>1, HandleSteps, CreationSteps
  <1>5. Only(k) /\ Grows /\ \A p \in People \ outdated' : DocStays(requests[k], p)
    BY <1>4 DEF PersonStep, RosterStep, Grows
  <1>6. IsRefunding(requests'[k]) => IsRefunding(requests[k]) /\ requests'[k].who = requests[k].who
    <2>0. RequestsOK /\ ~IsRefunding(Idle)
      BY IdleIs DEF PeopleTypeOK, IsRefunding
    <2>1. ASSUME NEW pc \in {"last", "write"}, NEW got, Proceed(k, pc, got) PROVE ~IsRefunding(requests'[k])
      BY <2>0, <2>1, ProceedStep DEF IsRefunding
    <2>2. ASSUME NEW pc \in {"last", "write"}, NEW copy, Remember(k, pc, copy) PROVE ~IsRefunding(requests'[k])
      BY <2>0, <2>2, RememberStep DEF IsRefunding
    <2>3. End(k) => ~IsRefunding(requests'[k])
      BY <2>0, EndStep
    <2>4. CASE RevokeReads(k)
      BY <2>2, <2>3, <2>4 DEF RevokeReads, GetOrThrow
    <2>5. CASE RevokeReadsLast(k)
      BY <2>1, <2>3, <2>5 DEF RevokeReadsLast
    <2>6. CASE RevokeFinds(k)
      <3>1. IsRefunding(requests[k])
        BY <2>6 DEF RevokeFinds, At, IsRefunding
      <3>2. requests'[k] = Idle \/ requests'[k].who = requests[k].who
        BY <1>1, OpsStay DEF Migrations
      <3> QED
        BY <2>0, <3>1, <3>2
    <2> QED
      BY <2>4, <2>5, <2>6
  <1> QED
    BY <1>1, <1>2, <1>3, <1>4, <1>5, <1>6 DEF Leaves, AwayStep, IsWriting, IsGranting, paid

\* A grant that reads takes the next time, and gives days after those it read.
LEMMA GrantReadsLeave ==
    ASSUME PeopleTypeOK, AccessInv, NEW k \in Clients, GrantReads(k)
    PROVE  AccessInv'
PROOF
  <1> DEFINE r == requests[k]
             q == requests'[k]
             s == r.who
             doc == users[s]
             got == Payment(s, clock + 1, ExtendGrant(Until(doc)), r.arg)
  <1>0. StoresOK /\ RequestsOK /\ RequestOK(r) /\ IsRequest(r)
    BY DEF PeopleTypeOK, RequestsOK, RequestOK
  <1>1. Handle(k) /\ r.op = "grant" /\ r.pc = "get"
    BY DEF Handle, GrantReads, At
  <1>2. UNCHANGED users /\ UNCHANGED <<payments, revoked, crossed>>
    BY DEF GrantReads, OnlyRequests
  <1>3. (End(k) /\ clock' = clock)
        \/ (doc # NoDoc /\ clock' = clock + 1
            /\ requests' = [requests EXCEPT ![k].pc = "write", ![k].copy = doc, ![k].got = got])
    BY DEF GrantReads
  <1>4. PersonStep(k) /\ CreationStep(k)
    BY <1>1, HandleSteps, CreationSteps
  <1>5. Only(k) /\ Grows /\ \A p \in People \ outdated' : DocStays(r, p)
    BY <1>4 DEF PersonStep, RosterStep, Grows
  <1>6. q = Idle \/ (q.op = "grant" /\ q.pc = "write" /\ q.copy = doc /\ q.got = got /\ clock' = clock + 1)
    <2> HIDE DEF doc, got
    <2>1. CASE End(k)
      BY <1>0, <2>1, EndStep
    <2>2. CASE requests' = [requests EXCEPT ![k].pc = "write", ![k].copy = doc, ![k].got = got] /\ clock' = clock + 1
      <3>1. q = [op |-> r.op, pc |-> "write", who |-> r.who, arg |-> r.arg, copy |-> doc, got |-> got]
        BY <1>0, <2>2 DEF RequestsOK, IsRequest
      <3> QED
        BY <1>1, <2>2, <3>1, RecordIs
    <2> QED
      BY <1>3, <2>1, <2>2
  <1>7. ~IsWriting(q) /\ ~IsWriting(r) /\ ~IsRefunding(q)
    BY <1>1, <1>6, IdleIs DEF IsWriting, IsRefunding
  <1>8. CreationsInv' /\ \A x \in Students : StudentInv(x)'
    <2>1. AwayStep(k)
      BY <1>2, <1>5, <1>7 DEF AwayStep
    <2> QED
      BY <1>4, <1>5, <2>1, AwayStays
  <1>9. clock \in Nat /\ clock' \in {clock, clock + 1}
    BY <1>0, <1>3 DEF StoresOK
  <1>10. s \in Students /\ s \in People /\ doc \in Docs \cup {NoDoc} /\ today \in Nat
    <2>1. s \in Students
      BY <1>0, <1>1, PeopleKnow DEF GrantOK
    <2> QED
      BY <1>0, <2>1 DEF StoresOK, People
  <1>11. got.at = clock + 1 /\ got.until = ExtendGrant(Until(doc))
    BY DEF Payment
  <1>12. got.until >= DayOf(Until(doc)) + GrantDays
    <2>1. Until(doc) \in Dates
      BY <1>10, UntilIsDate
    <2>2. ExtendGrant(Until(doc)) \in Nat /\ ExtendGrant(Until(doc)) >= today + GrantDays
          /\ (Until(doc) # NoDate => ExtendGrant(Until(doc)) >= Until(doc) + GrantDays)
      BY <1>10, <2>1, ExtendedIsLater
    <2> QED
      BY <1>10, <1>11, <2>1, <2>2, PeopleAssumption DEF DayOf, Dates
  <1>13. TimesInv
    BY DEF AccessInv
  <1>14. \A i \in Clients \ {k} : requests'[i] = requests[i]
    BY <1>5 DEF Only
  <1>15. \A m \in payments : m.at \in Nat
    BY <1>0 DEF StoresOK, Payments
  <1>16. ASSUME NEW i \in Clients, IsGranting(requests[i])
         PROVE  requests[i].got.at \in Nat
    <2>1. GrantOK(requests[i])
      BY <1>0, <1>16, PeopleKnow DEF RequestsOK, RequestOK, IsGranting
    <2> QED
      BY <1>16, <2>1 DEF GrantOK, IsGranting, Payments
  <1> HIDE DEF got, doc
  <1>17. ASSUME IsGranting(q)
         PROVE  /\ q.got.at = clock + 1 /\ clock' = clock + 1
                /\ q.got.until >= DayOf(Until(q.copy)) + GrantDays
    <2>1. q # Idle
      BY <1>17, IdleIs DEF IsGranting
    <2> QED
      BY <1>6, <1>11, <1>12, <2>1
  <1>18. ASSUME NEW i \in Clients, IsGranting(requests'[i])
         PROVE  /\ requests'[i].got.at <= clock' /\ \A m \in payments' : m.at # requests'[i].got.at
                /\ requests'[i].got.until >= DayOf(Until(requests'[i].copy)) + GrantDays
    <2>1. CASE i = k
      <3>1. \A m \in payments : m.at <= clock
        BY <1>13 DEF TimesInv
      <3> QED
        BY <1>2, <1>9, <1>15, <1>17, <1>18, <2>1, <3>1
    <2>2. CASE i # k
      <3>1. IsGranting(requests[i]) /\ requests'[i] = requests[i]
        BY <1>14, <1>18, <2>2
      <3>2. requests[i].got.at <= clock /\ \A m \in payments : m.at # requests[i].got.at
        BY <1>13, <3>1 DEF TimesInv
      <3>3. requests[i].got.until >= DayOf(Until(requests[i].copy)) + GrantDays
        BY <1>13, <3>1 DEF TimesInv
      <3>4. requests[i].got.at <= clock'
        BY <1>9, <1>16, <3>1, <3>2
      <3> QED
        BY <1>2, <3>1, <3>2, <3>3, <3>4
    <2> QED
      BY <2>1, <2>2
  <1>19. ASSUME NEW i \in Clients, NEW j \in Clients, IsGranting(requests'[i]), IsGranting(requests'[j]),
                requests'[i].got.at = requests'[j].got.at
         PROVE  i = j
    <2>1. ASSUME NEW a \in Clients \ {k}, IsGranting(requests[a]), IsGranting(q)
          PROVE  requests[a].got.at # q.got.at
      <3>1. requests[a].got.at <= clock
        BY <1>13, <2>1 DEF TimesInv
      <3> QED
        BY <1>9, <1>16, <1>17, <2>1, <3>1
    <2>2. CASE i = k \/ j = k
      BY <1>14, <1>19, <2>1, <2>2
    <2>3. CASE i # k /\ j # k
      BY <1>13, <1>14, <1>19, <2>3 DEF TimesInv
    <2> QED
      BY <2>2, <2>3
  <1>20. TimesInv'
    <2>1. \A m \in payments' : m.at <= clock'
      BY <1>2, <1>9, <1>13, <1>15 DEF TimesInv
    <2>2. \A m, n \in payments' : m.at = n.at => m = n
      BY <1>2, <1>13 DEF TimesInv
    <2> QED
      BY <1>18, <1>19, <2>1, <2>2 DEF TimesInv
  <1> QED
    BY <1>8, <1>20 DEF AccessInv

-----------------------------------------------------------------------------
(* The steps that write days and payments *)

LEMMA UntilMerged ==
    ASSUME NEW d \in Docs \cup {NoDoc}, NEW until \in Dates
    PROVE  Until(Merge(d, [until |-> until])) = until
PROOF
  <1> DEFINE patch == [until |-> until]
             e == Merge(d, patch)
  <1>1. patch \in Docs /\ DOMAIN patch = {"until"} /\ patch["until"] = until
    BY PatchIsDoc
  <1>2. e \in Docs
    BY <1>1, MergeIsDoc
  <1> HIDE DEF patch
  <1>3. "until" \in DOMAIN e /\ e["until"] = until
    <2>1. CASE d = NoDoc
      BY <1>1, <2>1 DEF Merge
    <2>2. CASE d # NoDoc
      <3>1. e = [f \in DOMAIN d \cup DOMAIN patch |-> IF f \in DOMAIN patch THEN patch[f] ELSE d[f]]
        BY <2>2 DEF Merge
      <3> HIDE DEF e
      <3> QED
        BY <1>1, <3>1
    <2> QED
      BY <2>1, <2>2
  <1> HIDE DEF e
  <1>4. Until(e) = until
    BY <1>2, <1>3, NoDocIsNone DEF Until, Has
  <1> QED
    BY <1>4 DEF e, patch

\* What a grant under way gives, and goes on from.
LEMMA WritingGrants ==
    ASSUME PeopleTypeOK, TimesInv, NEW s
    PROVE  /\ Grants(Writing(s), Gives, Before)
           /\ \A k \in Clients : IsGranting(requests[k]) =>
                 /\ GrantOK(requests[k])
                 /\ requests[k].got \in Payments /\ requests[k].got.student = requests[k].who
                 /\ ~requests[k].got.voided /\ requests[k].copy \in Docs
                 /\ Gives[k] = requests[k].got.until /\ Gives[k] \in Nat /\ Before[k] \in Nat \cup {-1}
                 /\ Gives[k] >= Before[k] + GrantDays
PROOF
  <1>1. ASSUME NEW k \in Clients, IsGranting(requests[k])
        PROVE  /\ GrantOK(requests[k])
               /\ requests[k].got \in Payments /\ requests[k].got.student = requests[k].who
               /\ ~requests[k].got.voided /\ requests[k].copy \in Docs
               /\ Gives[k] = requests[k].got.until /\ Gives[k] \in Nat /\ Before[k] \in Nat \cup {-1}
               /\ Gives[k] >= Before[k] + GrantDays
    <2>1. GrantOK(requests[k])
      BY <1>1, PeopleKnow DEF PeopleTypeOK, RequestsOK, RequestOK, IsGranting
    <2>2. requests[k].got \in Payments /\ requests[k].got.student = requests[k].who
          /\ ~requests[k].got.voided /\ requests[k].copy \in Docs
      BY <1>1, <2>1 DEF GrantOK, IsGranting
    <2>3. Gives[k] = requests[k].got.until /\ Before[k] = DayOf(Until(requests[k].copy))
      BY DEF Gives, Before
    <2>4. Until(requests[k].copy) \in Dates
      BY <2>2, UntilIsDate
    <2>5. requests[k].got.until \in Nat
      BY <2>2 DEF Payments
    <2>6. requests[k].got.until >= DayOf(Until(requests[k].copy)) + GrantDays
      BY <1>1 DEF TimesInv
    <2>7. Before[k] \in Nat \cup {-1}
      BY <2>3, <2>4 DEF DayOf, Dates
    <2> QED
      BY <2>1, <2>2, <2>3, <2>5, <2>6, <2>7
  <1>2. \A k \in Writing(s) : k \in Clients /\ IsGranting(requests[k])
    BY DEF Writing, IsWriting, IsGranting
  <1> QED
    BY <1>1, <1>2 DEF Grants

\* A student who is not the one a request is about.
LEMMA OthersUndisturbed ==
    ASSUME PeopleTypeOK, NEW k \in Clients, Only(k), Grows, NEW x \in Students, requests[k].who # x,
           requests'[k].who # x, users'[x] = users[x], PaidBy(x)' = PaidBy(x), Standing(x)' = Standing(x),
           crossed \subseteq crossed'
    PROVE  Undisturbed(x)
PROOF
  <1>1. \A i \in Clients \ {k} : requests'[i] = requests[i]
    BY DEF Only
  <1>2. Writing(x)' = Writing(x) /\ k \notin Writing(x)
    BY <1>1 DEF Writing
  <1>3. \A i \in Writing(x)' : Gives'[i] = Gives[i] /\ Before'[i] = Before[i]
    <2>1. Writing(x)' \subseteq Clients \ {k}
      BY <1>2 DEF Writing
    <2> QED
      BY <1>1, <2>1 DEF Gives, Before
  <1>4. CountedPayments(x)' = CountedPayments(x)
    <2>1. CountedPayments(x) = {m \in PaidBy(x) : ~m.voided}
      BY DEF CountedPayments, IsCounted, PaidBy
    <2>2. CountedPayments(x)' = {m \in PaidBy(x)' : ~m.voided}
      BY DEF CountedPayments, IsCounted, PaidBy
    <2> QED
      BY <2>1, <2>2
  <1>5. BeingRefunded(x)' => BeingRefunded(x)
    BY RefundingStays
  <1> QED
    BY <1>2, <1>3, <1>4, <1>5 DEF Undisturbed

\* A step of a request about one student, who was created before.
LEMMA OneStays ==
    ASSUME PeopleTypeOK, AccessInv, NEW k \in Clients, Handle(k), NEW s \in Students, requests[k].who = s,
           End(k) \/ \E pc, got : Proceed(k, pc, got),
           \A x \in Students \ {s} : users'[x] = users[x] /\ PaidBy(x)' = PaidBy(x) /\ Standing(x)' = Standing(x),
           TimesInv', crossed \subseteq crossed',
           s \notin Apart' => users[s] # NoDoc \/ k \in Writing(s),
           s \notin Apart' /\ users'[s] # NoDoc =>
              DaysOK(LastDay(s)', Standing(s)', Writing(s)', Gives', Before'),
           s \notin Apart' \cup cut' /\ users'[s] # NoDoc =>
              RecordOK(LastDay(s)', CountedPayments(s)', Writing(s)', Gives', Before'),
           s \notin Apart' /\ BeingRefunded(s)' => LastDay(s)' = -1
    PROVE  AccessInv'
PROOF
  <1> DEFINE r == requests[k]
             q == requests'[k]
  <1>0. RequestsOK /\ CreationsInv /\ Students \subseteq People
    BY DEF PeopleTypeOK, AccessInv, People
  <1>1. PersonStep(k) /\ CreationStep(k)
    BY HandleSteps, CreationSteps
  <1>2. Only(k) /\ Grows
    BY <1>1 DEF PersonStep, RosterStep, Grows
  <1>3. CreationsInv' /\ \A p \in People : StillNew(p)' => StillNew(p)
    BY <1>0, <1>1, CreationsStay
  <1>4. q.who = s \/ q = Idle
    BY <1>0, EndStep, ProceedStep DEF SameAsk
  <1>5. \A x \in Students : q.who = x => x = s
    BY <1>4, IdleIs, AccountsAssumption DEF People
  <1>6. ASSUME NEW x \in Students \ {s} PROVE StudentInv(x)'
    <2>1. Undisturbed(x)
      BY <1>2, <1>5, OthersUndisturbed
    <2> QED
      BY <1>0, <1>3, <2>1, UndisturbedStays DEF AccessInv
  <1>7. StudentInv(s)'
    <2>1. ASSUME s \notin Apart' PROVE ~StillNew(s)'
      <3>1. StudentInv(s) /\ s \notin Apart
        BY <1>2, <2>1 DEF AccessInv, Grows, Apart
      <3>2. ~StillNew(s)
        BY <2>1, <3>1 DEF StudentInv
      <3> QED
        BY <1>0, <1>3, <3>2
    <2> QED
      BY <2>1 DEF StudentInv
  <1> QED
    BY <1>3, <1>6, <1>7 DEF AccessInv

\* Where a student's payments stay, so do those that stand.
LEMMA PaidStays ==
    ASSUME NEW x, UNCHANGED <<payments, revoked>>
    PROVE  PaidBy(x)' = PaidBy(x) /\ Standing(x)' = Standing(x) /\ CountedPayments(x)' = CountedPayments(x)
PROOF BY DEF PaidBy, Standing, CountedPayments

\* Of the grants being recorded only that of a step changes.
LEMMA WritingAfter ==
    ASSUME NEW k \in Clients, Only(k), NEW s
    PROVE  /\ Writing(s)' = IF IsWriting(requests'[k]) /\ requests'[k].who = s
                            THEN Writing(s) \cup {k} ELSE Writing(s) \ {k}
           /\ \A i \in Clients \ {k} : Gives'[i] = Gives[i] /\ Before'[i] = Before[i]
           /\ requests'[k].got = requests[k].got /\ requests'[k].copy = requests[k].copy =>
                 Gives'[k] = Gives[k] /\ Before'[k] = Before[k]
PROOF
  <1>1. \A i \in Clients \ {k} : requests'[i] = requests[i]
    BY DEF Only
  <1>2. Writing(s)' = IF IsWriting(requests'[k]) /\ requests'[k].who = s
                      THEN Writing(s) \cup {k} ELSE Writing(s) \ {k}
    BY <1>1 DEF Writing
  <1>3. \A i \in Clients \ {k} : Gives'[i] = Gives[i] /\ Before'[i] = Before[i]
    BY <1>1 DEF Gives, Before
  <1>4. requests'[k].got = requests[k].got /\ requests'[k].copy = requests[k].copy =>
           Gives'[k] = Gives[k] /\ Before'[k] = Before[k]
    BY DEF Gives, Before
  <1> QED
    BY <1>2, <1>3, <1>4

\* Who writes the days of a student.
LEMMA DaysOfUsers ==
    ASSUME PeopleTypeOK, NEW s \in People, NEW until \in Dates, UpdateManualAccess(s, until)
    PROVE  /\ LastDay(s)' = DayOf(until)
           /\ \A x \in People \ {s} : users'[x] = users[x]
PROOF
  <1> DEFINE d == Merge(users[s], [until |-> until])
  <1>1. users' = [users EXCEPT ![s] = d] /\ users \in [People -> Docs \cup {NoDoc}]
    BY DEF UpdateManualAccess, PeopleTypeOK, StoresOK
  <1>2. Until(d) = until
    BY <1>1, UntilMerged
  <1> HIDE DEF d
  <1>3. users'[s] = d /\ \A x \in People \ {s} : users'[x] = users[x]
    BY <1>1
  <1> QED
    BY <1>2, <1>3 DEF LastDay

LEMMA GrantWritesKeeps ==
    ASSUME PeopleTypeOK, AccessInv, NEW k \in Clients, GrantWrites(k), NEW s \in Students, requests[k].who = s
    PROVE  AccessInv'
PROOF
  <1> DEFINE r == requests[k]
             q == requests'[k]
  <1>0. RequestsOK /\ Handle(k) /\ r.op = "grant" /\ r.pc = "write" /\ TimesInv
    BY DEF PeopleTypeOK, Handle, GrantWrites, At, AccessInv
  <1>1. IsGranting(r) /\ ~IsWriting(r)
    BY <1>0 DEF IsGranting, IsWriting
  <1>2. Proceed(k, "record", r.got) /\ UNCHANGED <<cut, payments, clock, revoked>>
        /\ crossed \subseteq crossed'
    BY DEF GrantWrites, Cross
  <1>3. Only(k) /\ q.op = "grant" /\ q.pc = "record" /\ q.who = s /\ q.got = r.got /\ q.copy = r.copy
    BY <1>0, <1>2, ProceedStep DEF SameAsk
  <1>4. GrantOK(r) /\ r.copy \in Docs /\ Gives[k] = r.got.until /\ Gives[k] \in Nat
    BY <1>0, <1>1, WritingGrants
  <1>5. s \in People
    BY DEF People
  <1>6. LastDay(s)' = Gives[k] /\ \A x \in People \ {s} : users'[x] = users[x]
    <2>1. UpdateManualAccess(s, r.got.until) /\ r.got.until \in Dates
      BY <1>4 DEF GrantWrites, Dates
    <2>2. DayOf(r.got.until) = Gives[k]
      BY <1>4, PeopleAssumption DEF DayOf
    <2> QED
      BY <1>5, <2>1, <2>2, DaysOfUsers
  <1>7. TimesInv'
    BY <1>0, <1>1, <1>2, <1>3, TimesStay
  <1>8. \A x : PaidBy(x)' = PaidBy(x) /\ Standing(x)' = Standing(x) /\ CountedPayments(x)' = CountedPayments(x)
    BY <1>2, PaidStays
  <1>9. Writing(s)' = Writing(s) \cup {k} /\ k \notin Writing(s)
        /\ \A i \in Writing(s) \cup {k} : Gives'[i] = Gives[i] /\ Before'[i] = Before[i]
    <2>1. IsWriting(q)
      BY <1>3 DEF IsWriting
    <2>2. k \notin Writing(s) /\ Writing(s) \subseteq Clients
      BY <1>1 DEF Writing
    <2> QED
      BY <1>3, <2>1, <2>2, WritingAfter
  <1>10. Grants(Writing(s) \cup {k}, Gives, Before)
    <2>1. Grants(Writing(s), Gives, Before) /\ Before[k] \in Nat \cup {-1} /\ Gives[k] >= Before[k] + GrantDays
      BY <1>0, <1>1, WritingGrants
    <2> QED
      BY <1>4, <2>1 DEF Grants
  <1>11. Standing(s) \in SUBSET Payments
    BY DEF Standing, PeopleTypeOK, StoresOK
  <1>12. ASSUME s \notin Apart'
         PROVE  s \notin Apart /\ users[s] # NoDoc /\ LastDay(s) = Before[k] /\ ~BeingRefunded(s)
    <2>1. s \notin Apart /\ users[s] # NoDoc /\ Until(users[s]) = Until(r.copy) /\ ~BeingRefunded(s)
      BY <1>12 DEF GrantWrites, Mark, Cross, Apart
    <2> QED
      BY <2>1 DEF LastDay, Before
  <1>13. ASSUME s \notin Apart'
         PROVE  DaysOK(LastDay(s)', Standing(s)', Writing(s)', Gives', Before')
    <2>1. DaysOK(Before[k], Standing(s), Writing(s), Gives, Before)
      BY <1>5, <1>12, <1>13 DEF AccessInv, StudentInv
    <2>2. DaysOK(Gives[k], Standing(s), Writing(s) \cup {k}, Gives, Before)
      BY <1>9, <1>10, <1>11, <2>1, DaysWritten
    <2>3. DaysOK(Gives[k], Standing(s), Writing(s)', Gives', Before')
      BY <1>9, <2>2, GrantsAgree
    <2> QED
      BY <1>6, <1>8, <2>3
  <1>14. ASSUME s \notin Apart' \cup cut'
         PROVE  RecordOK(LastDay(s)', CountedPayments(s)', Writing(s)', Gives', Before')
    <2>1. RecordOK(Before[k], CountedPayments(s), Writing(s), Gives, Before)
      BY <1>2, <1>5, <1>12, <1>14 DEF AccessInv, StudentInv
    <2>2. RecordOK(Gives[k], CountedPayments(s), Writing(s) \cup {k}, Gives, Before)
      BY <2>1, RecordWritten
    <2>3. RecordOK(Gives[k], CountedPayments(s), Writing(s)', Gives', Before')
      BY <1>9, <2>2, GrantsAgree
    <2> QED
      BY <1>6, <1>8, <2>3
  <1>15. s \notin Apart' => ~BeingRefunded(s)'
    BY <1>3, <1>12, RefundingStays DEF IsRefunding
  <1> QED
    BY <1>0, <1>2, <1>5, <1>6, <1>7, <1>8, <1>12, <1>13, <1>14, <1>15, OneStays DEF People

\* What is known of a grant that has written the days and is to be recorded.
LEMMA BeingRecordedIs ==
    ASSUME PeopleTypeOK, AccessInv, NEW k \in Clients, NEW s \in Students, requests[k].who = s,
           IsWriting(requests[k])
    PROVE  LET got == requests[k].got IN
           /\ k \in Writing(s) /\ Writing(s) \subseteq Clients /\ IsGranting(requests[k])
           /\ Grants(Writing(s), Gives, Before)
           /\ got \in Payments /\ got.student = s /\ ~got.voided /\ requests[k].copy \in Docs
           /\ Gives[k] = got.until /\ Gives[k] \in Nat
           /\ Standing(s) \in SUBSET Payments
           /\ Until(users[s]) = got.until => users[s] # NoDoc /\ LastDay(s) = Gives[k]
PROOF
  <1>1. k \in Writing(s) /\ Writing(s) \subseteq Clients /\ IsGranting(requests[k])
    BY DEF Writing, IsWriting, IsGranting
  <1>2. Grants(Writing(s), Gives, Before)
        /\ requests[k].got \in Payments /\ requests[k].got.student = s /\ ~requests[k].got.voided
        /\ requests[k].copy \in Docs /\ Gives[k] = requests[k].got.until /\ Gives[k] \in Nat
    BY <1>1, WritingGrants DEF AccessInv
  <1>3. Standing(s) \in SUBSET Payments
    BY DEF Standing, PeopleTypeOK, StoresOK
  <1>4. ASSUME Until(users[s]) = Gives[k] PROVE users[s] # NoDoc /\ LastDay(s) = Gives[k]
    BY <1>2, <1>4, PeopleAssumption DEF Until, Has, LastDay, DayOf
  <1> QED
    BY <1>1, <1>2, <1>3, <1>4

LEMMA GrantRecordsKeeps ==
    ASSUME PeopleTypeOK, AccessInv, NEW k \in Clients, GrantRecords(k), NEW s \in Students, requests[k].who = s
    PROVE  AccessInv'
PROOF
  <1> DEFINE r == requests[k]
             q == requests'[k]
             got == r.got
  <1>0. RequestsOK /\ Handle(k) /\ r.op = "grant" /\ r.pc = "record" /\ TimesInv
    BY DEF PeopleTypeOK, Handle, GrantRecords, At, AccessInv
  <1>1. IsWriting(r)
    BY <1>0 DEF IsWriting
  <1>2. /\ k \in Writing(s) /\ Writing(s) \subseteq Clients /\ IsGranting(r)
        /\ Grants(Writing(s), Gives, Before)
        /\ got \in Payments /\ got.student = s /\ ~got.voided
        /\ Gives[k] = got.until /\ Standing(s) \in SUBSET Payments
        /\ Until(users[s]) = got.until => users[s] # NoDoc /\ LastDay(s) = Gives[k]
    BY <1>1, BeingRecordedIs
  <1>3. UNCHANGED <<users, cut, clock, revoked, crossed>> /\ LastDay(s)' = LastDay(s)
    BY DEF GrantRecords, LastDay
  <1>4. StudentInv(s)
    BY DEF AccessInv
  <1>a. ASSUME Only(k), ~IsRefunding(requests'[k]), Apart \subseteq Apart'
        PROVE  s \notin Apart' /\ BeingRefunded(s)' => LastDay(s)' = -1
    BY <1>3, <1>4, <1>a, RefundingStays DEF StudentInv
  <1>5. CASE End(k) /\ payments' = payments \cup {got} /\ Mark({s}, Until(users[s]) = got.until)
    <2>1. Only(k) /\ q = Idle
      BY <1>0, <1>5, EndStep
    <2>2. ~IsGranting(q) /\ ~IsWriting(q)
      BY <2>1, IdleIs DEF IsGranting, IsWriting
    <2>3. Writing(s)' = Writing(s) \ {k} /\ \A i \in Clients \ {k} : Gives'[i] = Gives[i] /\ Before'[i] = Before[i]
      BY <2>1, <2>2, WritingAfter
    <2>4. TimesInv'
      <3>1. \A i \in Clients : IsGranting(requests'[i]) => i # k /\ requests'[i] = requests[i]
        BY <2>1, <2>2 DEF Only
      <3>2. \A i \in Clients : IsGranting(requests'[i]) =>
               IsGranting(requests[i]) /\ requests[i].got.at # got.at
        BY <1>0, <1>2, <3>1 DEF TimesInv
      <3>3. got.at <= clock /\ \A m \in payments : m.at # got.at
        BY <1>0, <1>2 DEF TimesInv
      <3>4. \A m \in payments' : m.at <= clock'
        BY <1>0, <1>3, <1>5, <3>3 DEF TimesInv
      <3>5. \A m, n \in payments' : m.at = n.at => m = n
        BY <1>0, <1>5, <3>3 DEF TimesInv
      <3>6. \A i \in Clients : IsGranting(requests'[i]) =>
               /\ requests'[i].got.at <= clock' /\ \A m \in payments' : m.at # requests'[i].got.at
               /\ requests'[i].got.until >= DayOf(Until(requests'[i].copy)) + GrantDays
        BY <1>0, <1>3, <1>5, <3>1, <3>2 DEF TimesInv
      <3>7. \A i, j \in Clients : IsGranting(requests'[i]) /\ IsGranting(requests'[j])
                                  /\ requests'[i].got.at = requests'[j].got.at => i = j
        BY <1>0, <3>1 DEF TimesInv
      <3> QED
        BY <3>4, <3>5, <3>6, <3>7 DEF TimesInv
    <2>5. \A x \in Students \ {s} : users'[x] = users[x] /\ PaidBy(x)' = PaidBy(x) /\ Standing(x)' = Standing(x)
      BY <1>2, <1>3, <1>5 DEF PaidBy, Standing
    <2>6. Standing(s)' = IF got.at \in revoked THEN Standing(s) ELSE Standing(s) \cup {got}
      BY <1>2, <1>3, <1>5 DEF Standing
    <2>7. CountedPayments(s)' = CountedPayments(s) \cup {got}
      BY <1>2, <1>5 DEF CountedPayments, IsCounted
    <2>8. s \notin Apart' => s \notin Apart /\ users[s] # NoDoc /\ LastDay(s) = Gives[k]
      BY <1>2, <1>3, <1>5 DEF Mark, Apart
    <2>9. ASSUME s \notin Apart' PROVE DaysOK(LastDay(s)', Standing(s)', Writing(s)', Gives', Before')
      <3>1. DaysOK(Gives[k], Standing(s), Writing(s), Gives, Before)
        BY <1>4, <2>8, <2>9 DEF StudentInv
      <3>2. DaysOK(Gives[k], Standing(s), Writing(s) \ {k}, Gives, Before)
        BY <3>1, DaysOfFewer
      <3>3. DaysOK(Gives[k], Standing(s) \cup {got}, Writing(s) \ {k}, Gives, Before)
        BY <1>2, <3>1, DaysRecorded
      <3>4. DaysOK(Gives[k], Standing(s)', Writing(s)', Gives, Before)
        BY <2>3, <2>6, <3>2, <3>3
      <3>5. \A i \in Writing(s)' : Gives'[i] = Gives[i] /\ Before'[i] = Before[i]
        BY <1>2, <2>3
      <3>6. DaysOK(Gives[k], Standing(s)', Writing(s)', Gives', Before')
        BY <3>4, <3>5, GrantsAgree
      <3> QED
        BY <1>3, <2>8, <2>9, <3>6
    <2>10. ASSUME s \notin Apart' \cup cut'
           PROVE  RecordOK(LastDay(s)', CountedPayments(s)', Writing(s)', Gives', Before')
      <3>1. RecordOK(LastDay(s), CountedPayments(s), Writing(s), Gives, Before)
        BY <1>3, <1>4, <2>8, <2>10 DEF StudentInv
      <3>2. RecordOK(LastDay(s), CountedPayments(s)', Writing(s)', Gives, Before)
        BY <1>2, <2>3, <2>7, <3>1, RecordRecorded
      <3>3. \A i \in Writing(s)' : Gives'[i] = Gives[i] /\ Before'[i] = Before[i]
        BY <1>2, <2>3
      <3>4. RecordOK(LastDay(s), CountedPayments(s)', Writing(s)', Gives', Before')
        BY <3>2, <3>3, GrantsAgree
      <3> QED
        BY <1>3, <3>4
    <2>11. s \notin Apart' /\ BeingRefunded(s)' => LastDay(s)' = -1
      BY <1>3, <1>5, <1>a, <2>1, IdleIs DEF IsRefunding, Mark, Apart
    <2> QED
      BY <1>0, <1>2, <1>3, <1>5, <2>4, <2>5, <2>9, <2>10, <2>11, OneStays
  <1>6. CASE Proceed(k, "undo", got) /\ UNCHANGED <<payments, outdated>>
    <2>1. Only(k) /\ q.op = "grant" /\ q.pc = "undo" /\ q.who = s /\ q.got = got /\ q.copy = r.copy
      BY <1>0, <1>6, ProceedStep DEF SameAsk
    <2>2. IsGranting(q) /\ IsWriting(q)
      BY <2>1 DEF IsGranting, IsWriting
    <2>3. Writing(s)' = Writing(s) /\ \A i \in Clients : Gives'[i] = Gives[i] /\ Before'[i] = Before[i]
      <3>1. Writing(s)' = Writing(s) \cup {k}
        BY <2>1, <2>2, WritingAfter
      <3>2. \A i \in Clients \ {k} : Gives'[i] = Gives[i] /\ Before'[i] = Before[i]
        BY <2>1, WritingAfter
      <3>3. Gives'[k] = Gives[k] /\ Before'[k] = Before[k]
        BY <2>1, WritingAfter
      <3> QED
        BY <1>2, <3>1, <3>2, <3>3
    <2>4. TimesInv'
      BY <1>0, <1>2, <1>3, <1>6, <2>1, TimesStay
    <2>5. \A x : PaidBy(x)' = PaidBy(x) /\ Standing(x)' = Standing(x) /\ CountedPayments(x)' = CountedPayments(x)
      BY <1>3, <1>6, PaidStays
    <2>6. \A i \in Writing(s) : Gives'[i] = Gives[i] /\ Before'[i] = Before[i]
      BY <1>2, <2>3
    <2>7. ASSUME s \notin Apart', users'[s] # NoDoc
          PROVE  DaysOK(LastDay(s)', Standing(s)', Writing(s)', Gives', Before')
      <3>1. DaysOK(LastDay(s), Standing(s), Writing(s), Gives, Before)
        BY <1>3, <1>4, <1>6, <2>7 DEF StudentInv, Apart
      <3>2. DaysOK(LastDay(s), Standing(s), Writing(s), Gives', Before')
        BY <2>6, <3>1, GrantsAgree
      <3> QED
        BY <1>3, <2>3, <2>5, <3>2
    <2>8. ASSUME s \notin Apart' \cup cut', users'[s] # NoDoc
          PROVE  RecordOK(LastDay(s)', CountedPayments(s)', Writing(s)', Gives', Before')
      <3>1. RecordOK(LastDay(s), CountedPayments(s), Writing(s), Gives, Before)
        BY <1>3, <1>4, <1>6, <2>8 DEF StudentInv, Apart
      <3>2. RecordOK(LastDay(s), CountedPayments(s), Writing(s), Gives', Before')
        BY <2>6, <3>1, GrantsAgree
      <3> QED
        BY <1>3, <2>3, <2>5, <3>2
    <2>9. s \notin Apart' /\ BeingRefunded(s)' => LastDay(s)' = -1
      BY <1>3, <1>6, <1>a, <2>1 DEF IsRefunding, Apart
    <2> QED
      BY <1>0, <1>2, <1>3, <1>6, <2>4, <2>5, <2>7, <2>8, <2>9, OneStays
  <1> QED
    BY <1>5, <1>6 DEF GrantRecords

LEMMA GrantUndoesKeeps ==
    ASSUME PeopleTypeOK, AccessInv, NEW k \in Clients, GrantUndoes(k), NEW s \in Students, requests[k].who = s
    PROVE  AccessInv'
PROOF
  <1> DEFINE r == requests[k]
             q == requests'[k]
             until == DaysBefore(r.got.until, r.copy)
  <1>0. RequestsOK /\ Handle(k) /\ r.op = "grant" /\ r.pc = "undo" /\ TimesInv /\ End(k)
        /\ UNCHANGED <<cut, paid>>
    BY DEF PeopleTypeOK, Handle, GrantUndoes, At, AccessInv
  <1>1. IsWriting(r) /\ s \in People
    BY <1>0 DEF IsWriting, People
  <1>2. /\ k \in Writing(s) /\ Writing(s) \subseteq Clients
        /\ Grants(Writing(s), Gives, Before)
        /\ r.copy \in Docs /\ Standing(s) \in SUBSET Payments
        /\ Until(users[s]) = r.got.until => users[s] # NoDoc /\ LastDay(s) = Gives[k]
    BY <1>1, BeingRecordedIs
  <1>a. Gives[k] \in Nat
    BY <1>1, BeingRecordedIs
  <1>3. Only(k) /\ q = Idle
    BY <1>0, EndStep
  <1>4. ~IsGranting(q) /\ ~IsWriting(q)
    BY <1>3, IdleIs DEF IsGranting, IsWriting
  <1>5. LastDay(s)' = Before[k] /\ \A x \in People \ {s} : users'[x] = users[x]
    <2>1. until = Until(r.copy) /\ until \in Dates
      BY <1>2, UntilIsDate DEF DaysBefore
    <2>2. UpdateManualAccess(s, until)
      BY DEF GrantUndoes
    <2>3. DayOf(until) = Before[k]
      BY <2>1 DEF Before
    <2> QED
      BY <1>1, <2>1, <2>2, <2>3, DaysOfUsers
  <1>6. TimesInv'
    BY <1>0, <1>3, <1>4, TimesStay DEF paid
  <1>7. \A x : PaidBy(x)' = PaidBy(x) /\ Standing(x)' = Standing(x) /\ CountedPayments(x)' = CountedPayments(x)
    BY <1>0, PaidStays DEF paid
  <1>8. Writing(s)' = Writing(s) \ {k} /\ \A i \in Writing(s)' : Gives'[i] = Gives[i] /\ Before'[i] = Before[i]
    BY <1>2, <1>3, <1>4, WritingAfter
  <1>9. s \notin Apart' => s \notin Apart /\ users[s] # NoDoc /\ LastDay(s) = Gives[k]
    BY <1>0, <1>2 DEF GrantUndoes, Mark, Apart, paid
  <1>10. ASSUME s \notin Apart' PROVE DaysOK(LastDay(s)', Standing(s)', Writing(s)', Gives', Before')
    <2>1. DaysOK(Gives[k], Standing(s), Writing(s), Gives, Before)
      BY <1>9, <1>10 DEF AccessInv, StudentInv
    <2>2. DaysOK(Before[k], Standing(s), Writing(s)', Gives, Before)
      BY <1>2, <1>8, <2>1, DaysUndone
    <2>3. DaysOK(Before[k], Standing(s), Writing(s)', Gives', Before')
      BY <1>8, <2>2, GrantsAgree
    <2> QED
      BY <1>5, <1>7, <2>3
  <1>11. ASSUME s \notin Apart' \cup cut'
         PROVE  RecordOK(LastDay(s)', CountedPayments(s)', Writing(s)', Gives', Before')
    <2>1. DaysOK(Gives[k], Standing(s), Writing(s), Gives, Before)
          /\ RecordOK(Gives[k], CountedPayments(s), Writing(s), Gives, Before)
      BY <1>0, <1>9, <1>11 DEF AccessInv, StudentInv
    <2>2. RecordOK(Before[k], CountedPayments(s), Writing(s)', Gives, Before)
      BY <1>2, <1>8, <2>1, RecordUndone
    <2>3. RecordOK(Before[k], CountedPayments(s), Writing(s)', Gives', Before')
      BY <1>8, <2>2, GrantsAgree
    <2> QED
      BY <1>5, <1>7, <2>3
  <1>12. ASSUME s \notin Apart' PROVE ~BeingRefunded(s)'
    <2>1. ~BeingRefunded(s)
      BY <1>a, <1>9, <1>12 DEF AccessInv, StudentInv
    <2> QED
      BY <1>3, <2>1, IdleIs, RefundingStays DEF IsRefunding
  <1>13. crossed \subseteq crossed'
    BY <1>0 DEF paid
  <1> QED
    BY <1>0, <1>2, <1>5, <1>6, <1>7, <1>10, <1>11, <1>12, <1>13, OneStays DEF People

\* Nobody is granting days that are not recorded yet.
LEMMA NobodyWriting ==
    ASSUME NEW s, ~BeingRecorded(s)
    PROVE  Writing(s) = {}
PROOF BY DEF BeingRecorded, Writing, IsWriting, At

LEMMA RevokeWritesKeeps ==
    ASSUME PeopleTypeOK, AccessInv, NEW k \in Clients, RevokeWrites(k), NEW s \in Students, requests[k].who = s
    PROVE  AccessInv'
PROOF
  <1> DEFINE r == requests[k]
             q == requests'[k]
  <1>0. RequestsOK /\ Handle(k) /\ r.op = "revoke" /\ TimesInv /\ s \in People
    BY DEF PeopleTypeOK, Handle, RevokeWrites, At, AccessInv, People
  <1>1. UNCHANGED <<cut, payments, clock>> /\ (End(k) \/ \E pc, got : Proceed(k, pc, got))
        /\ revoked' = revoked \cup {m.at : m \in CountedPayments(s)} /\ crossed \subseteq crossed'
    BY DEF RevokeWrites, Cross
  <1>2. Only(k) /\ q.op # "grant"
    <2>1. Only(k) /\ (q = Idle \/ q.op = r.op)
      BY <1>0, <1>1, EndStep, ProceedStep DEF SameAsk
    <2> QED
      BY <1>0, <2>1, IdleIs
  <1>3. TimesInv'
    BY <1>0, <1>1, <1>2, TimesStay DEF IsGranting
  <1>4. LastDay(s)' = -1 /\ \A x \in People \ {s} : users'[x] = users[x]
    <2>1. UpdateManualAccess(s, NoDate) /\ NoDate \in Dates
      BY DEF RevokeWrites, Dates
    <2>2. DayOf(NoDate) = -1
      BY DEF DayOf
    <2> QED
      BY <1>0, <2>1, <2>2, DaysOfUsers
  <1>5. ASSUME NEW x \in Students \ {s}
        PROVE  PaidBy(x)' = PaidBy(x) /\ Standing(x)' = Standing(x)
    <2>1. PaidBy(x)' = PaidBy(x)
      BY <1>1 DEF PaidBy
    <2>2. ASSUME NEW m \in payments, m.student = x, m.at \in revoked' PROVE m.at \in revoked
      <3>1. ASSUME NEW n \in CountedPayments(s) PROVE m.at # n.at
        BY <1>0, <2>2, <3>1 DEF CountedPayments, TimesInv
      <3> QED
        BY <1>1, <2>2, <3>1
    <2>3. Standing(x)' = Standing(x)
      BY <1>1, <2>2 DEF Standing
    <2> QED
      BY <2>1, <2>3
  <1>6. Writing(s)' \subseteq Writing(s)
    <2>1. ~IsWriting(q)
      BY <1>2 DEF IsWriting
    <2> QED
      BY <1>2, <2>1, WritingAfter
  <1>7. Standing(s)' = {}
    <2>1. \A m \in payments : m.student = s /\ ~m.voided => m.at \in revoked'
      BY <1>1 DEF CountedPayments, IsCounted
    <2> QED
      BY <1>1, <2>1 DEF Standing
  <1>8. ASSUME s \notin Apart' PROVE users[s] # NoDoc /\ Writing(s)' = {}
    <2>1. users[s] # NoDoc /\ ~BeingRecorded(s)
      BY <1>8 DEF RevokeWrites, Mark, Cross, Apart
    <2> QED
      BY <1>6, <2>1, NobodyWriting
  <1>9. s \notin Apart' => DaysOK(LastDay(s)', Standing(s)', Writing(s)', Gives', Before')
    BY <1>7, <1>8, NothingIsFine
  <1>10. s \notin Apart' => RecordOK(LastDay(s)', CountedPayments(s)', Writing(s)', Gives', Before')
    BY <1>4, <1>8, NothingIsFine
  <1> QED
    BY <1>0, <1>1, <1>3, <1>4, <1>5, <1>8, <1>9, <1>10, OneStays DEF People

Voided(m) == [m EXCEPT !.voided = TRUE]

LEMMA VoidedIs ==
    ASSUME NEW m \in Payments
    PROVE  /\ Voided(m) \in Payments /\ Voided(m).voided
           /\ Voided(m).student = m.student /\ Voided(m).at = m.at /\ Voided(m).until = m.until
PROOF BY DEF Voided, Payments

\* What a refund makes of a payment, the last of its student read as `last`.
After(m, s, last) == IF m.student = s /\ (\E n \in last : n.at = m.at) THEN Voided(m) ELSE m

LEMMA AfterIs ==
    ASSUME NEW m \in Payments, NEW s, NEW last
    PROVE  /\ After(m, s, last).student = m.student /\ After(m, s, last).at = m.at
           /\ m.student # s => After(m, s, last) = m
           /\ ~After(m, s, last).voided => After(m, s, last) = m
PROOF BY VoidedIs DEF After

LEMMA RevokeVoidsKeeps ==
    ASSUME PeopleTypeOK, AccessInv, NEW k \in Clients, RevokeVoids(k), NEW s \in Students, requests[k].who = s
    PROVE  AccessInv'
PROOF
  <1> DEFINE r == requests[k]
             q == requests'[k]
             last == r.got
  <1>0. RequestsOK /\ Handle(k) /\ TimesInv /\ End(k) /\ payments \subseteq Payments
    BY DEF PeopleTypeOK, StoresOK, Handle, RevokeVoids, AccessInv
  <1>1. UNCHANGED <<users, cut, clock, revoked, crossed>>
    BY DEF RevokeVoids
  <1>2. payments' = {After(m, s, last) : m \in payments}
    BY DEF RevokeVoids, After, Voided
  <1>3. Only(k) /\ q = Idle
    BY <1>0, EndStep
  <1>4. ~IsGranting(q) /\ ~IsWriting(q)
    BY <1>3, IdleIs DEF IsGranting, IsWriting
  <1>5. \A m \in payments : /\ After(m, s, last).student = m.student /\ After(m, s, last).at = m.at
                            /\ m.student # s => After(m, s, last) = m
                            /\ ~After(m, s, last).voided => After(m, s, last) = m
    BY <1>0, AfterIs
  <1>6. TimesInv'
    <2>1. \A i \in Clients : IsGranting(requests'[i]) => i # k /\ requests'[i] = requests[i]
      BY <1>3, <1>4 DEF Only
    <2>2. \A m \in payments' : m.at <= clock'
      BY <1>0, <1>1, <1>2, <1>5 DEF TimesInv
    <2>3. \A m, n \in payments' : m.at = n.at => m = n
      BY <1>0, <1>2, <1>5 DEF TimesInv
    <2>4. \A i \in Clients : IsGranting(requests'[i]) =>
             /\ requests'[i].got.at <= clock' /\ \A m \in payments' : m.at # requests'[i].got.at
             /\ requests'[i].got.until >= DayOf(Until(requests'[i].copy)) + GrantDays
      BY <1>0, <1>1, <1>2, <1>5, <2>1 DEF TimesInv
    <2>5. \A i, j \in Clients : IsGranting(requests'[i]) /\ IsGranting(requests'[j])
                                /\ requests'[i].got.at = requests'[j].got.at => i = j
      BY <1>0, <2>1 DEF TimesInv
    <2> QED
      BY <2>2, <2>3, <2>4, <2>5 DEF TimesInv
  <1>7. ASSUME NEW x \in Students \ {s}
        PROVE  PaidBy(x)' = PaidBy(x) /\ Standing(x)' = Standing(x)
    <2>1. \A m : m \in payments' /\ m.student = x <=> m \in payments /\ m.student = x
      BY <1>2, <1>5
    <2> QED
      BY <1>1, <2>1 DEF PaidBy, Standing
  <1>8. Writing(s)' \subseteq Writing(s)
    BY <1>3, <1>4, WritingAfter
  <1>9. Standing(s)' \subseteq Standing(s)
    BY <1>1, <1>2, <1>5 DEF Standing
  <1>10. ASSUME s \notin Apart'
         PROVE  users[s] # NoDoc /\ LastDay(s)' = -1 /\ Standing(s)' = {} /\ Writing(s)' = {}
    <2>1. s \notin Apart /\ users[s] # NoDoc
      BY <1>1, <1>10 DEF RevokeVoids, Mark, Apart
    <2>a. LastDay(s) = -1
      <3>1. BeingRefunded(s)
        BY DEF RevokeVoids, BeingRefunded
      <3> QED
        BY <2>1, <3>1 DEF AccessInv, StudentInv
    <2>2. DaysOK(-1, Standing(s), Writing(s), Gives, Before)
      BY <2>1, <2>a DEF AccessInv, StudentInv
    <2>3. Standing(s) = {} /\ Writing(s) = {}
      <3>1. Grants(Writing(s), Gives, Before)
        BY <1>0, WritingGrants
      <3>2. Standing(s) \in SUBSET Payments
        BY <1>0 DEF Standing
      <3> QED
        BY <2>2, <3>1, <3>2, NothingStands
    <2> QED
      BY <1>1, <1>8, <1>9, <2>1, <2>a, <2>3 DEF LastDay
  <1>11. s \notin Apart' => DaysOK(LastDay(s)', Standing(s)', Writing(s)', Gives', Before')
    BY <1>10, NothingIsFine
  <1>12. s \notin Apart' => RecordOK(LastDay(s)', CountedPayments(s)', Writing(s)', Gives', Before')
    BY <1>10, NothingIsFine
  <1> QED
    BY <1>0, <1>1, <1>6, <1>7, <1>10, <1>11, <1>12, OneStays

\* The goals of the year are written apart.
LEMMA ApartLeaves ==
    ASSUME PeopleTypeOK, NEW k \in Clients, TypeStep(k), UNCHANGED <<accounts, users, outdated, cut, paid>>,
           requests[k].op \in {"none", "goal"}, requests'[k].op \in {"none", "goal"}
    PROVE  Leaves(k)
PROOF
  <1>1. Grows /\ Only(k)
    BY DEF Grows, TypeStep
  <1>2. PersonStep(k)
    BY <1>1, UnwrittenStep
  <1>3. \A p \in People \ outdated' : DocStays(requests[k], p)
    BY <1>2 DEF PersonStep
  <1>4. CreationStep(k)
    BY <1>1, NoCreation DEF IsCreating, Creations
  <1> QED
    BY <1>1, <1>3, <1>4 DEF Leaves, AwayStep, IsWriting, IsGranting, IsRefunding, paid

LEMMA GoalLeaves ==
    ASSUME PeopleTypeOK, NEW k \in Clients, SetGoalReads(k) \/ SetGoalSaves(k)
    PROVE  Leaves(k)
PROOF
  <1>0. RequestsOK
    BY DEF PeopleTypeOK
  <1>1. TypeStep(k) /\ UNCHANGED <<accounts, users, outdated, cut, paid>> /\ requests[k].op = "goal"
    BY GoalReadTypes, GoalSaved DEF SetGoalReads, SetGoalSaves, OnlyRequests, control, At
  <1>2. requests'[k] = Idle \/ requests'[k].op = requests[k].op
    BY <1>0, EndStep, ProceedStep DEF SetGoalReads, SetGoalSaves, SameAsk
  <1> QED
    BY <1>1, <1>2, IdleIs, ApartLeaves

LEMMA GoalAskLeaves ==
    ASSUME PeopleTypeOK, NEW k \in Clients, NEW target \in Targets,
           NEW month \in {0} \cup MonthsOfYear(YearOf(ThisMonth)),
           SetGoal(k, YearOf(ThisMonth), month, target)
    PROVE  Leaves(k)
PROOF
  <1> DEFINE arg == [year |-> YearOf(ThisMonth), month |-> month, target |-> target]
             r == Request("goal", "get", NoOne, arg)
  <1>0. RequestsOK
    BY DEF PeopleTypeOK
  <1>1. Begin(k, r) /\ UNCHANGED paid
    BY DEF SetGoal
  <1> HIDE DEF arg
  <1>2. r.op = "goal"
    BY RequestIs
  <1> HIDE DEF r
  <1>3. requests'[k] = r /\ requests[k] = Idle
    BY <1>0, <1>1, BeginStep
  <1>4. UNCHANGED <<accounts, users, outdated, cut, paid>>
    BY <1>1 DEF Begin
  <1> QED
    BY <1>2, <1>3, <1>4, IdleIs, SetGoalTypes, ApartLeaves

LEMMA AccessNext ==
    ASSUME PeopleTypeOK, AccessInv, [FinanceNext]_financeVars
    PROVE  AccessInv'
PROOF
  <1>1. ASSUME UNCHANGED <<accounts, users, requests, outdated, cut, payments, clock, revoked, crossed>>
        PROVE  AccessInv'
    BY <1>1 DEF AccessInv, CreationsInv, TimesInv, StudentInv, StillNew, LastDay, PaidBy, Standing,
                CountedPayments, Writing, Gives, Before, Apart, BeingRefunded, At
  <1>2. ASSUME NEW k \in Clients,
               \/ GrantWrites(k) \/ GrantRecords(k) \/ GrantUndoes(k) \/ RevokeWrites(k) \/ RevokeVoids(k)
        PROVE  AccessInv'
    <2>1. requests[k].who \in Students
      <3>1. requests[k].op \in {"grant", "revoke"}
        BY <1>2 DEF GrantWrites, GrantRecords, GrantUndoes, RevokeWrites, RevokeVoids, At
      <3> QED
        BY <3>1, PeopleKnow DEF PeopleTypeOK, RequestsOK, RequestOK, GrantOK, RevokeOK
    <2> QED
      BY <1>2, <2>1, GrantWritesKeeps, GrantRecordsKeeps, GrantUndoesKeeps, RevokeWritesKeeps, RevokeVoidsKeeps
  <1>3. ASSUME NEW k \in Clients, Asks(k) \/ Handle(k) \/ Stop(k)
        PROVE  AccessInv'
    <2>1. Asks(k) \/ Stop(k) => AccessInv'
      BY AskingLeaves, StoppingLeaves, LeavesIt
    <2>2. Elsewhere(k) => AccessInv'
      BY ElsewhereLeaves, LeavesIt
    <2>3. RevokeReads(k) \/ RevokeReadsLast(k) \/ RevokeFinds(k) => AccessInv'
      BY RevocationReadsLeave, LeavesIt
    <2>4. GrantReads(k) => AccessInv'
      BY GrantReadsLeave
    <2> QED
      BY <1>2, <1>3, <2>1, <2>2, <2>3, <2>4 DEF Handle, Elsewhere
  <1>4. ASSUME NEW p \in People, Logout(p), UNCHANGED paid
        PROVE  AccessInv'
    BY <1>1, <1>4 DEF Logout, control, paid
  <1>5. ASSUME NEW from, SetExpense(from, 2)
        PROVE  AccessInv'
    BY <1>1, <1>5 DEF SetExpense, paid
  <1>6. CASE UNCHANGED financeVars
    BY <1>1, <1>6 DEF financeVars, vars, accountVars, control, paid
  <1>7. ASSUME NEW k \in Clients, SetGoalReads(k) \/ SetGoalSaves(k)
        PROVE  AccessInv'
    BY <1>7, GoalLeaves, LeavesIt
  <1>8. ASSUME NEW k \in Clients, NEW target \in Targets, NEW month \in {0} \cup MonthsOfYear(YearOf(ThisMonth)),
               SetGoal(k, YearOf(ThisMonth), month, target)
        PROVE  AccessInv'
    BY <1>8, GoalAskLeaves, LeavesIt
  <1>9. CASE FinanceNext
    BY <1>3, <1>4, <1>5, <1>7, <1>8, <1>9 DEF FinanceNext, PeopleNext
  <1> QED
    BY <1>6, <1>9

LEMMA SameUntil ==
    ASSUME NEW fields, "until" \in fields, NEW d, NEW e, SameView(fields, d, e)
    PROVE  Until(e) = Until(d)
PROOF BY DEF SameView, Until

LEMMA StageUndated ==
    ASSUME NEW s \in Students, NEW stage
    PROVE  Until(Stage(s, stage)) = NoDate
PROOF
  <1> DEFINE new == NewDoc(s, s)
             full == Dated(Merge(new, Whole), 0)
  <1>1. s \in People /\ s \notin Teachers
    BY AccountsAssumption DEF People
  <1>2. new = [email |-> s, role |-> RoleOf(s), isPaying |-> FALSE]
    BY <1>1 DEF NewDoc
  <1>3. Until(new) = NoDate
    BY <1>2 DEF Until, Has
  <1>4. new \in Docs
    BY <1>1, NewIsDoc DEF Emails
  <1> HIDE DEF new
  <1>5. SameView({"until"}, new, full)
    <2>1. {"name", "data"} \cap {"until"} = {} /\ "onboarded" \notin {"until"}
      OBVIOUS
    <2> QED
      BY <1>4, <2>1, PatchesAre, ProfileView
  <1>6. Until(full) = NoDate
    BY <1>3, <1>5, SameUntil
  <1>7. Until(NoDoc) = NoDate
    BY DEF Until, Has
  <1> HIDE DEF full
  <1> QED
    BY <1>3, <1>6, <1>7 DEF Stage, new, full

LEMMA BegunUntil ==
    ASSUME NEW student, NEW granted \in BOOLEAN, student # "registered" => ~granted
    PROVE  Until(StudentBegun(student, granted)) = IF granted THEN 1 ELSE NoDate
PROOF
  <1> DEFINE plain == Stage(TheStudent, student)
             e == With(plain, "until", 1)
  <1>1. Until(plain) = NoDate /\ (student = "registered" => plain \in Docs)
    BY TheyAre, StageUndated, StageIsDoc
  <1> HIDE DEF plain
  <1>2. ASSUME granted PROVE Until(e) = 1
    <2>1. "until" \in Fields \ {"role", "teacher", "email"} /\ 1 \in Dates /\ 1 \in Values
      BY DEF Fields, Dates, Values
    <2>2. e \in Docs
      BY <1>1, <1>2, <2>1, WithIsDoc
    <2>3. e = [f \in DOMAIN plain \cup {"until"} |-> IF f = "until" THEN 1 ELSE plain[f]]
      BY DEF With
    <2> HIDE DEF e
    <2>4. "until" \in DOMAIN e /\ e["until"] = 1
      BY <2>3
    <2> QED
      BY <2>2, <2>4, NoDocIsNone DEF Until, Has
  <1> QED
    BY <1>1, <1>2 DEF StudentBegun, plain

LEMMA StudentDocUntil ==
    ASSUME NEW dated \in Docs \cup {NoDoc}, NEW waits \in BOOLEAN, NEW assigned \in BOOLEAN, NEW legacy \in BOOLEAN,
           legacy => ~assigned, assigned \/ legacy => dated \in Docs
    PROVE  Until(StudentDoc(dated, waits, assigned, legacy)) = Until(dated)
PROOF
  <1>1. CASE assigned
    <2> DEFINE c == With(dated, "teacher", TheTeacher)
               e == With(c, "pending", waits)
    <2>1. e \in Docs
      BY <1>1, TheyAre, AssignedIsDoc
    <2>2. c = [f \in DOMAIN dated \cup {"teacher"} |-> IF f = "teacher" THEN TheTeacher ELSE dated[f]]
      BY DEF With
    <2>3. e = [f \in DOMAIN c \cup {"pending"} |-> IF f = "pending" THEN waits ELSE c[f]]
      BY DEF With
    <2>4. StudentDoc(dated, waits, assigned, legacy) = e
      BY <1>1 DEF StudentDoc
    <2> HIDE DEF c, e
    <2>5. "until" \in DOMAIN e <=> "until" \in DOMAIN dated
      BY <2>2, <2>3
    <2>6. "until" \in DOMAIN dated => e["until"] = dated["until"]
      BY <2>2, <2>3
    <2> QED
      BY <1>1, <2>1, <2>4, <2>5, <2>6, NoDocIsNone DEF Until, Has
  <1>2. CASE legacy /\ ~assigned
    <2> DEFINE e == Without(dated, "role")
    <2>1. e \in Docs
      BY <1>2, WithoutIsDoc
    <2>2. e = [f \in DOMAIN dated \ {"role"} |-> dated[f]]
      BY DEF Without
    <2>3. StudentDoc(dated, waits, assigned, legacy) = e
      BY <1>2 DEF StudentDoc
    <2> HIDE DEF e
    <2>4. ("until" \in DOMAIN e <=> "until" \in DOMAIN dated)
          /\ ("until" \in DOMAIN dated => e["until"] = dated["until"])
      BY <2>2
    <2> QED
      BY <1>2, <2>1, <2>3, <2>4, NoDocIsNone DEF Until, Has
  <1>3. CASE ~assigned /\ ~legacy
    BY <1>3 DEF StudentDoc
  <1> QED
    BY <1>1, <1>2, <1>3

\* Nobody has asked for anything, and one student may hold a first grant.
LEMMA AccessInit ==
    ASSUME FinanceInit
    PROVE  AccessInv
PROOF
  <1>1. PICK student \in {"new", "invited", "registered"},
             teacher \in {"new", "invited", "registered", "inactive"},
             granted \in BOOLEAN, assigned \in BOOLEAN, legacy \in BOOLEAN :
             /\ student # "registered" => ~granted /\ ~assigned
             /\ legacy => student = "registered" /\ ~assigned /\ ~granted
             /\ users = [p \in People |->
                   CASE p = TheStudent -> StudentDoc(StudentBegun(student, granted), teacher = "inactive", assigned, legacy)
                     [] p = TheTeacher -> TeacherDoc(Stage(TheTeacher, teacher), teacher)
                     [] OTHER -> Stage(p, "registered")]
             /\ accounts = [p \in People |->
                   IF users[p] = NoDoc THEN Account("new", "none", NoOne)
                   ELSE Account("live", IF p = TheStudent /\ legacy THEN "none" ELSE RoleOf(p), p)]
             /\ payments = IF granted THEN {Payment(TheStudent, 0, 1, 1)} ELSE {}
             /\ clock = 0 /\ revoked = {} /\ crossed = {}
             /\ requests = [k \in Clients |-> Idle]
    BY InitIs
  <1> DEFINE first == Payment(TheStudent, 0, 1, 1)
             dated == StudentBegun(student, granted)
             waits == teacher = "inactive"
             doc == StudentDoc(dated, waits, assigned, legacy)
  <1>2. /\ first.student = TheStudent /\ first.at = 0 /\ first.until = 1 /\ ~first.voided
        /\ first \in Payments
    BY TheyAre DEF Payment, Payments
  <1>3. \A k \in Clients : ~IsGranting(requests[k]) /\ ~IsWriting(requests[k]) /\ ~IsCreating(requests[k])
    BY <1>1, IdleIs DEF IsGranting, IsWriting, IsCreating, Creations
  <1>4. CreationsInv
    BY <1>3 DEF CreationsInv
  <1> HIDE DEF first
  <1>5. TimesInv
    BY <1>1, <1>2, <1>3 DEF TimesInv, first
  <1>6. \A s : Writing(s) = {}
    BY <1>3 DEF Writing
  <1>a. \A s : ~BeingRefunded(s)
    BY <1>1, IdleIs DEF BeingRefunded, At
  <1>7. users[TheStudent] = doc
        /\ \A x \in Students \ {TheStudent} : users[x] = Stage(x, "registered")
    BY <1>1, TheyAre
  <1>8. dated \in Docs \cup {NoDoc} /\ (student = "registered" => dated \in Docs)
        /\ Until(dated) = IF granted THEN 1 ELSE NoDate
    BY <1>1, BegunIsDoc, BegunUntil
  <1> HIDE DEF dated
  <1>9. Until(doc) = IF granted THEN 1 ELSE NoDate
    <2>1. waits \in BOOLEAN
      OBVIOUS
    <2> HIDE DEF waits
    <2> QED
      BY <1>1, <1>8, <2>1, StudentDocUntil
  <1>10. payments = IF granted THEN {first} ELSE {}
    BY <1>1 DEF first
  <1>11. \A s : StillNew(s) /\ s \in People => users[s] = NoDoc
    <2>1. Account("new", "none", NoOne).state = "new" /\ \A claim, email : Account("live", claim, email).state = "live"
      BY DEF Account
    <2> QED
      BY <1>1, <1>3, <2>1 DEF StillNew
  <1> HIDE DEF doc
  <1>12. ASSUME NEW s \in Students \ {TheStudent} PROVE StudentInv(s)
    <2>1. PaidBy(s) = {} /\ Standing(s) = {} /\ LastDay(s) = -1
      BY <1>2, <1>7, <1>10, StageUndated DEF PaidBy, Standing, LastDay, DayOf
    <2>2. StillNew(s) => users[s] = NoDoc
      BY <1>11, TheyAre
    <2>3. Writing(s) = {}
      BY <1>6
    <2>4. DaysOK(LastDay(s), Standing(s), Writing(s), Gives, Before)
      BY <2>1, <2>3, NothingIsFine
    <2>5. RecordOK(LastDay(s), CountedPayments(s), Writing(s), Gives, Before)
      BY <2>1, <2>3, NothingIsFine
    <2> QED
      BY <1>a, <2>1, <2>2, <2>3, <2>4, <2>5 DEF StudentInv
  <1>13. StudentInv(TheStudent)
    <2> DEFINE s == TheStudent
    <2>1. CASE granted
      <3>1. LastDay(s) = 1 /\ users[s] # NoDoc
        BY <1>7, <1>9, <2>1, PeopleAssumption DEF LastDay, DayOf, Until, Has
      <3>2. Standing(s) = {first} /\ CountedPayments(s) = {first}
        BY <1>1, <1>2, <1>10, <2>1 DEF Standing, CountedPayments, IsCounted
      <3>3. DaysOK(1, {first}, {}, Gives, Before) /\ RecordOK(1, {first}, {}, Gives, Before)
        BY <1>2 DEF DaysOK, RecordOK
      <3>4. ~StillNew(s)
        BY <1>11, <3>1, TheyAre
      <3> QED
        BY <1>6, <1>a, <3>1, <3>2, <3>3, <3>4 DEF StudentInv
    <2>2. CASE ~granted
      <3>1. PaidBy(s) = {} /\ Standing(s) = {} /\ LastDay(s) = -1
        BY <1>7, <1>9, <1>10, <2>2 DEF PaidBy, Standing, LastDay, DayOf
      <3>2. StillNew(s) => users[s] = NoDoc
        BY <1>11, TheyAre
      <3> QED
        BY <1>6, <1>a, <3>1, <3>2, NothingIsFine DEF StudentInv
    <2> QED
      BY <2>1, <2>2
  <1> QED
    BY <1>4, <1>5, <1>12, <1>13 DEF AccessInv

LEMMA Access ==
    FinanceSpec => [](PeopleTypeOK /\ AccessInv)
PROOF
  <1>1. PeopleTypeOK /\ AccessInv /\ [FinanceNext]_financeVars => AccessInv'
    BY AccessNext
  <1> QED
    BY <1>1, AccessInit, PeopleTypes, PTL DEF FinanceSpec

\* AccessMatchesPayments for any students, teachers and requests: the days of
\* every payment of a grant stand on top of the others, and no access is left
\* without a payment on record, also when recording fails.  Set apart are those
\* written from an older reading, and those whose grant and revocation wrote one
\* between the writes of the other.
THEOREM AccessInvariance == FinanceSpec => []AccessMatchesPayments
PROOF
  <1>1. ASSUME PeopleTypeOK, AccessInv
        PROVE  PaidDaysAreGiven
    <2>1. SUFFICES ASSUME NEW s \in Students, s \notin outdated \cup crossed \cup cut, users[s] # NoDoc,
                          NEW m \in InRevenue, m.student = s, m.at \notin revoked
                   PROVE  /\ today <= m.until => CanActivate(s)
                          /\ \A n \in InRevenue : n.student = s /\ n.at \notin revoked /\ n # m =>
                                n.until >= m.until + GrantDays \/ m.until >= n.until + GrantDays
      BY DEF PaidDaysAreGiven
    <2>2. DaysOK(LastDay(s), Standing(s), Writing(s), Gives, Before)
      BY <1>1, <2>1 DEF AccessInv, StudentInv, Apart
    <2>3. \A n : n \in Standing(s) <=> n \in InRevenue /\ n.student = s /\ n.at \notin revoked
      BY DEF Standing, InRevenue, IsCounted
    <2>4. \A n \in InRevenue : n.student = s /\ n.at \notin revoked /\ n # m =>
             n.until >= m.until + GrantDays \/ m.until >= n.until + GrantDays
      BY <2>1, <2>2, <2>3 DEF DaysOK
    <2>5. m.until <= LastDay(s)
      BY <2>1, <2>2, <2>3 DEF DaysOK
    <2>6. m.until \in Nat /\ today \in Nat
      BY <1>1, <2>1 DEF PeopleTypeOK, StoresOK, InRevenue, Payments
    <2>7. Until(users[s]) \in Dates
      <3>1. users[s] \in Docs \cup {NoDoc}
        BY <1>1 DEF PeopleTypeOK, StoresOK, People
      <3> QED
        BY <3>1, UntilIsDate
    <2>8. Until(users[s]) # NoDate /\ m.until <= Until(users[s])
      BY <2>5, <2>6 DEF LastDay, DayOf
    <2>9. today <= m.until => CanActivate(s)
      BY <2>6, <2>7, <2>8 DEF CanActivate, HasPaidAccess, Dates
    <2> QED
      BY <2>4, <2>9
  <1>2. ASSUME PeopleTypeOK, AccessInv
        PROVE  AccessIsRecorded
    <2>1. SUFFICES ASSUME NEW s \in Students, s \notin outdated \cup crossed \cup cut, Until(users[s]) # NoDate,
                          ~Busy(s, {"grant", "revoke"})
                   PROVE  \E m \in CountedPayments(s) : m.until = Until(users[s])
      BY DEF AccessIsRecorded
    <2>2. users[s] # NoDoc /\ users[s] \in Docs \cup {NoDoc}
      BY <1>2, <2>1 DEF Until, Has, PeopleTypeOK, StoresOK, People
    <2>3. Until(users[s]) \in Nat /\ LastDay(s) = Until(users[s])
      BY <2>1, <2>2, UntilIsDate DEF LastDay, DayOf, Dates
    <2>4. Writing(s) = {}
      BY <2>1 DEF Writing, IsWriting, Busy
    <2>5. RecordOK(LastDay(s), CountedPayments(s), {}, Gives, Before)
      BY <1>2, <2>1, <2>2, <2>4 DEF AccessInv, StudentInv, Apart
    <2> QED
      BY <2>3, <2>5 DEF RecordOK
  <1> QED
    BY <1>1, <1>2, Access, PTL DEF AccessMatchesPayments


\* Only a refund takes payments out of the revenue.
LEMMA OnlyRefundsTake ==
    ASSUME PeopleTypeOK, [FinanceNext]_financeVars, NEW m \in InRevenue \ InRevenue'
    PROVE  \E k \in Clients : RevokeVoids(k)
PROOF
  <1>1. ASSUME payments \subseteq payments' PROVE FALSE
    BY <1>1 DEF InRevenue
  <1>2. SUFFICES ASSUME \A k \in Clients : ~RevokeVoids(k) PROVE FALSE
    OBVIOUS
  <1>3. ASSUME NEW k \in Clients, Asks(k) \/ Handle(k) \/ Stop(k)
        PROVE  FALSE
    <2>1. Asks(k) => UNCHANGED payments
      BY AsksBegin
    <2>2. Stop(k) => UNCHANGED payments
      BY DEF Stop, paid
    <2>3. Elsewhere(k) => UNCHANGED payments
      BY ElsewherePaysNot DEF paid
    <2>4. GrantReads(k) \/ GrantWrites(k) \/ GrantUndoes(k) => UNCHANGED payments
      BY DEF GrantReads, GrantWrites, GrantUndoes, paid
    <2>5. GrantRecords(k) => payments \subseteq payments'
      BY DEF GrantRecords
    <2>6. RevokeReads(k) \/ RevokeReadsLast(k) \/ RevokeWrites(k) \/ RevokeFinds(k) => UNCHANGED payments
      BY DEF RevokeReads, RevokeReadsLast, RevokeWrites, RevokeFinds, paid
    <2> QED
      BY <1>1, <1>2, <1>3, <2>1, <2>2, <2>3, <2>4, <2>5, <2>6 DEF Handle, Elsewhere
  <1>4. ASSUME NEW k \in Clients, UNCHANGED paid PROVE FALSE
    BY <1>1, <1>4 DEF paid
  <1>5. CASE UNCHANGED financeVars
    BY <1>1, <1>5 DEF financeVars, vars, paid
  <1>6. ASSUME PeopleNext PROVE FALSE
    BY <1>1, <1>3, <1>6 DEF PeopleNext, paid
  <1>7. CASE FinanceNext
    BY <1>1, <1>6, <1>7 DEF FinanceNext, SetGoal, SetGoalReads, SetGoalSaves, SetExpense, paid
  <1> QED
    BY <1>5, <1>7

\* What a refund takes is the last payment counted, once its days are gone.
LEMMA RefundTakes ==
    ASSUME PeopleTypeOK, AccessInv, NEW k \in Clients, RevokeVoids(k), NEW s, requests[k].who = s,
           NEW m \in InRevenue \ InRevenue', m.student \notin outdated' \cup crossed
    PROVE  /\ m.at \in revoked
           /\ \A n \in InRevenue : n.student = m.student /\ n.at > m.at => n.at \notin revoked
PROOF
  <1> DEFINE last == requests[k].got
  <1>0. payments \subseteq Payments /\ TimesInv
    BY DEF PeopleTypeOK, StoresOK, AccessInv
  <1>1. payments' = {After(x, s, last) : x \in payments}
    BY DEF RevokeVoids, After, Voided
  <1>2. m \in payments /\ m \in Payments /\ ~m.voided /\ m \notin payments'
    BY <1>0 DEF InRevenue, IsCounted
  <1>3. m.student = s /\ \E n \in last : n.at = m.at
    <2>1. After(m, s, last) # m
      BY <1>1, <1>2
    <2> QED
      BY <2>1 DEF After
  <1>4. s \in Students /\ s \notin Apart /\ users[s] # NoDoc /\ LastDay(s) = -1 /\ LastPayment(s) = last
    <2>1. s \in Students
      BY <1>2, <1>3 DEF Payments
    <2>2. s \notin Apart /\ users[s] # NoDoc /\ LastPayment(s) = last
      BY <1>3, <2>1 DEF RevokeVoids, Mark, Apart
    <2>3. BeingRefunded(s)
      BY DEF RevokeVoids, BeingRefunded
    <2> QED
      BY <2>1, <2>2, <2>3 DEF AccessInv, StudentInv
  <1>5. Standing(s) = {}
    <2>1. DaysOK(-1, Standing(s), Writing(s), Gives, Before)
      BY <1>4 DEF AccessInv, StudentInv
    <2>2. Grants(Writing(s), Gives, Before)
      BY <1>0, WritingGrants
    <2>3. Standing(s) \in SUBSET Payments
      BY <1>0 DEF Standing
    <2> QED
      BY <2>1, <2>2, <2>3, NothingStands
  <1>6. m.at \in revoked
    BY <1>2, <1>3, <1>5 DEF Standing
  <1>7. ASSUME NEW n \in InRevenue, n.student = m.student, n.at > m.at PROVE FALSE
    <2>1. n \in CountedPayments(s)
      BY <1>3, <1>7 DEF CountedPayments, InRevenue
    <2>2. n.at <= m.at
      BY <1>3, <1>4, <2>1 DEF LastPayment
    <2>3. n.at \in Nat /\ m.at \in Nat
      BY <1>0, <1>2, <1>7 DEF InRevenue, Payments
    <2> QED
      BY <1>7, <2>2, <2>3
  <1> QED
    BY <1>6, <1>7

\* RefundsTakeTheLast for any students and requests: what leaves the revenue is the
\* last payment that counts, its days taken back.  Set apart are the students of whom a
\* grant wrote between the two writes of a revocation, or a revocation between those of a
\* grant: there the refund takes the payment of a grant nobody undid.
THEOREM RefundsInvariance == FinanceSpec => RefundsTakeTheLast
PROOF
  <1>1. PeopleTypeOK /\ AccessInv /\ [FinanceNext]_financeVars =>
           \A m \in InRevenue \ InRevenue' :
              \/ m.student \in outdated' \cup crossed
              \/ /\ m.at \in revoked
                 /\ \A n \in InRevenue : n.student = m.student /\ n.at > m.at => n.at \notin revoked
    BY OnlyRefundsTake, RefundTakes
  <1>2. PeopleTypeOK /\ AccessInv /\ [FinanceNext]_financeVars =>
           [ \A m \in InRevenue \ InRevenue' :
              \/ m.student \in outdated' \cup crossed
              \/ /\ m.at \in revoked
                 /\ \A n \in InRevenue : n.student = m.student /\ n.at > m.at => n.at \notin revoked ]_vars
    BY <1>1
  <1> QED
    BY <1>2, Access, PTL DEF FinanceSpec, RefundsTakeTheLast
=============================================================================
