--------------------------- MODULE Accounts_proofs ---------------------------
(***************************************************************************)
(* That Firebase and the documents tell the same of each person, for any   *)
(* number of students, teachers and requests under way, with no bound on   *)
(* requests and failures.                                                  *)
(***************************************************************************)
EXTENDS People_proofs, FiniteSetTheorems

-----------------------------------------------------------------------------
(* Firebase and the documents: what holds of each person *)

IsAt(r, p, ops, pcs) == r.who = p /\ r.op \in ops /\ r.pc \in pcs
On(p, ops, pcs) == \E k \in Clients : IsAt(requests[k], p, ops, pcs)

\* It has read the document of the person, or was asked for one.
Knows(r, p) ==
    \/ r.op \in Deletions /\ r.who = p
    \/ r.op \in Migrations /\ r.pc = "next" /\ p \in DOMAIN r.got

\* Nobody knows of a person before their document is saved.
BornInv(p) ==
    /\ StillNew(p) => users[p] = NoDoc /\ \A k \in Clients : ~Knows(requests[k], p)
    /\ accounts[p].state = "new" =>
          /\ tokens[p] = "no" /\ p \notin sessions
          /\ \A k \in Clients : requests[k].who = p => IsCreating(requests[k])
    /\ On(p, Creations, {"create"}) => accounts[p].state = "new"

\* An account without a document is being created or deleted.
PairInv(p) ==
    /\ p \notin cut /\ users[p] # NoDoc => Live(p)
    /\ p \notin cut /\ Live(p) /\ users[p] = NoDoc =>
          On(p, Creations, {"claim", "save", "undo"}) \/ On(p, Deletions, {"account"})
    /\ On(p, Deletions, {"account"}) => users[p] = NoDoc
    /\ On(p, Creations, {"undo"}) => users[p] = NoDoc \/ (p \in Teachers /\ p \in cut)

RoleInv(p) ==
    /\ users[p] # NoDoc => ResolveUserRole(users[p]) = RoleOf(p)
    /\ \A k \in Clients :
          requests[k].op = "roles" /\ requests[k].pc = "next" /\ p \in requests[k].arg => p \in Students

Told(p) == tokens[p] \in {"no", RoleOf(p)}

\* The claim of an account alone is none or what a sign-in resolves without a
\* document: it is given before the document is saved.
ClaimInv(p) ==
    /\ users[p] # NoDoc =>
          Told(p) /\ (Live(p) => accounts[p].claim = RoleOf(p) \/ (accounts[p].claim = "none" /\ p \in cut))
    /\ On(p, Creations, {"save"}) \/ (users[p] # NoDoc /\ On(p, Creations, {"mail", "undo"})) =>
          /\ Live(p) /\ accounts[p].claim = RoleOf(p) /\ Told(p)
          /\ On(p, SignIns, {"reissue"}) => p \in Students
    /\ On(p, Creations, {"claim"}) =>
          /\ Live(p) /\ accounts[p].claim \in {"none", "student"}
          /\ Told(p) \/ accounts[p].claim \notin {"none", RoleOf(p)}
    /\ On(p, SignIns, {"reissue"}) => IF Live(p) THEN accounts[p].claim # "none" ELSE users[p] = NoDoc

\* The changes of address under way, by the address asked for.
Toward(p, a) == {k \in Clients : IsAt(requests[k], p, {"email"}, {"doc", "undo"}) /\ requests[k].arg = a}
Other(p, a) == IF a = Fresh THEN p ELSE Fresh

\* While a person is created the account changes between two addresses: the
\* changes to the other lead by one exactly when the account has it.
TurnsInv(p, a) ==
    /\ accounts[p].email \in Addresses(p)
    /\ \A k \in Clients : requests[k].who = p /\ requests[k].op = "email" =>
          requests[k].got = Other(p, requests[k].arg)
    /\ p \notin cut =>
          /\ IsFiniteSet(Toward(p, a)) /\ IsFiniteSet(Toward(p, Other(p, a)))
          /\ Cardinality(Toward(p, Other(p, a))) =
                Cardinality(Toward(p, a)) + (IF accounts[p].email = a THEN 0 ELSE 1)

\* The address of a creation that has its account and no document yet.
CreatedWith(p, a) ==
    \E k \in Clients : IsAt(requests[k], p, Creations, {"claim", "save"}) /\ requests[k].arg = a

EmailInv(p) ==
    /\ p \notin cut /\ Live(p) /\ Has(users[p], "email") =>
          users[p]["email"] = accounts[p].email \/ On(p, {"email"}, {"doc", "undo"})
    /\ \A a \in Addresses(p) : CreatedWith(p, a) => TurnsInv(p, a)

PersonInv(p) == BornInv(p) /\ PairInv(p) /\ RoleInv(p) /\ ClaimInv(p) /\ EmailInv(p)
StoresInv == CreationsInv /\ \A p \in People \ outdated : PersonInv(p)

-----------------------------------------------------------------------------
(* Whom a step leaves as they were *)

\* What is half done, and what else the invariant looks at.
Open(r, p) ==
    \/ IsAt(r, p, Creations, {"claim", "save", "undo"}) \/ IsAt(r, p, Deletions, {"account"})
    \/ IsAt(r, p, {"email"}, {"doc", "undo"})
Watched(r, p) == Open(r, p) \/ IsAt(r, p, Creations, {"mail"}) \/ IsAt(r, p, SignIns, {"reissue"})
SamePlace(q, r) ==
    /\ q.op = r.op /\ q.who = r.who /\ q.arg = r.arg
    /\ q.pc = r.pc \/ (q.op = "email" /\ {q.pc, r.pc} \subseteq {"doc", "undo"})

\* The request goes on with nothing that concerns the person, or is cut.
GoesOn(r, q, p) ==
    /\ Knows(q, p) => Knows(r, p) \/ users[p] # NoDoc
    /\ q.who = p => IsCreating(q) \/ (r.who = p /\ ~IsCreating(r)) \/ accounts[p].state # "new"
    /\ IsAt(q, p, Creations, {"create"}) => accounts[p].state = "new"
    /\ q.op = "roles" /\ q.pc = "next" /\ p \in q.arg =>
          (r.op = "roles" /\ r.pc = "next" /\ p \in r.arg) \/ p \in Students
    /\ q.who = p /\ q.op = "email" =>
          \/ r.who = p /\ r.op = "email" /\ q.arg = r.arg /\ q.got = r.got
          \/ q.arg \in Addresses(p) /\ q.got = accounts[p].email /\ q.arg # q.got
    /\ Watched(q, p) => SamePlace(q, r)
    /\ Open(r, p) => SamePlace(q, r) \/ p \in cut'

SameStores(p) ==
    /\ accounts'[p] = accounts[p] /\ tokens'[p] = tokens[p]
    /\ p \in sessions' => p \in sessions \/ accounts[p].state # "new"
    /\ users'[p] = NoDoc <=> users[p] = NoDoc
    /\ SameView({"email", "role"}, users[p], users'[p])

Stays(k, p) ==
    /\ Only(k) /\ Grows /\ SameStores(p) /\ (StillNew(p)' => StillNew(p))
    /\ GoesOn(requests[k], requests'[k], p)

\* Nobody comes to a place but whom the step takes there, or leaves it.
LEMMA OnBefore ==
    ASSUME NEW k \in Clients, Only(k), NEW p, NEW ops, NEW pcs,
           IsAt(requests'[k], p, ops, pcs) => IsAt(requests[k], p, ops, pcs)
    PROVE  On(p, ops, pcs)' => On(p, ops, pcs)
PROOF BY DEF Only, On, IsAt

LEMMA OnAfter ==
    ASSUME NEW k \in Clients, Only(k), NEW p, NEW ops, NEW pcs,
           IsAt(requests[k], p, ops, pcs) => IsAt(requests'[k], p, ops, pcs)
    PROVE  On(p, ops, pcs) => On(p, ops, pcs)'
PROOF BY DEF Only, On, IsAt

LEMMA PlacesStay ==
    ASSUME NEW k \in Clients, NEW p, Stays(k, p)
    PROVE  /\ \A pcs \in SUBSET {"claim", "save", "mail", "undo"} : On(p, Creations, pcs)' => On(p, Creations, pcs)
           /\ On(p, Deletions, {"account"})' => On(p, Deletions, {"account"})
           /\ On(p, SignIns, {"reissue"})' => On(p, SignIns, {"reissue"})
           /\ p \notin cut' =>
                 /\ On(p, Creations, {"claim", "save", "undo"}) => On(p, Creations, {"claim", "save", "undo"})'
                 /\ On(p, Deletions, {"account"}) => On(p, Deletions, {"account"})'
                 /\ On(p, {"email"}, {"doc", "undo"}) => On(p, {"email"}, {"doc", "undo"})'
PROOF
  <1> DEFINE r == requests[k]
             q == requests'[k]
  <1>0. Only(k) /\ (Watched(q, p) => SamePlace(q, r)) /\ (Open(r, p) => SamePlace(q, r) \/ p \in cut')
    BY DEF Stays, GoesOn
  <1>1. ASSUME NEW pcs \in SUBSET {"claim", "save", "mail", "undo"}
        PROVE  On(p, Creations, pcs)' => On(p, Creations, pcs)
    <2>1. IsAt(q, p, Creations, pcs) => IsAt(r, p, Creations, pcs)
      BY <1>0 DEF Watched, Open, SamePlace, IsAt, Creations, SignIns, Deletions
    <2> QED
      BY <1>0, <2>1, OnBefore
  <1>2. IsAt(q, p, Deletions, {"account"}) => IsAt(r, p, Deletions, {"account"})
    BY <1>0 DEF Watched, Open, SamePlace, IsAt, Creations, SignIns, Deletions
  <1>3. IsAt(q, p, SignIns, {"reissue"}) => IsAt(r, p, SignIns, {"reissue"})
    BY <1>0 DEF Watched, Open, SamePlace, IsAt, Creations, SignIns, Deletions
  <1>4. ASSUME p \notin cut'
        PROVE  /\ IsAt(r, p, Creations, {"claim", "save", "undo"}) => IsAt(q, p, Creations, {"claim", "save", "undo"})
               /\ IsAt(r, p, Deletions, {"account"}) => IsAt(q, p, Deletions, {"account"})
               /\ IsAt(r, p, {"email"}, {"doc", "undo"}) => IsAt(q, p, {"email"}, {"doc", "undo"})
    BY <1>0, <1>4 DEF Open, SamePlace, IsAt, Creations, Deletions
  <1> QED
    BY <1>0, <1>1, <1>2, <1>3, <1>4, OnBefore, OnAfter

LEMMA BornStays ==
    ASSUME NEW k \in Clients, NEW p, Stays(k, p), BornInv(p)
    PROVE  BornInv(p)'
PROOF
  <1> DEFINE r == requests[k]
             q == requests'[k]
  <1>0. /\ \A i \in Clients \ {k} : requests'[i] = requests[i]
        /\ Knows(q, p) => Knows(r, p) \/ users[p] # NoDoc
        /\ q.who = p => IsCreating(q) \/ (r.who = p /\ ~IsCreating(r)) \/ accounts[p].state # "new"
        /\ IsAt(q, p, Creations, {"create"}) => accounts[p].state = "new"
        /\ StillNew(p)' => StillNew(p)
    BY DEF Stays, GoesOn, Only
  <1>1. /\ accounts'[p] = accounts[p] /\ tokens'[p] = tokens[p] /\ (users'[p] = NoDoc <=> users[p] = NoDoc)
        /\ p \in sessions' => p \in sessions \/ accounts[p].state # "new"
    BY DEF Stays, SameStores
  <1>2. ASSUME StillNew(p)' PROVE users'[p] = NoDoc /\ \A i \in Clients : ~Knows(requests'[i], p)
    BY <1>0, <1>1, <1>2 DEF BornInv
  <1>3. ASSUME accounts'[p].state = "new"
        PROVE  /\ tokens'[p] = "no" /\ p \notin sessions'
               /\ \A i \in Clients : requests'[i].who = p => IsCreating(requests'[i])
    BY <1>0, <1>1, <1>3 DEF BornInv
  <1>4. On(p, Creations, {"create"})' => accounts'[p].state = "new"
    BY <1>0, <1>1 DEF BornInv, On
  <1> QED
    BY <1>2, <1>3, <1>4 DEF BornInv, Knows, IsCreating

LEMMA PairStays ==
    ASSUME NEW k \in Clients, NEW p, Stays(k, p), PairInv(p)
    PROVE  PairInv(p)'
PROOF
  <1>1. accounts'[p] = accounts[p] /\ (users'[p] = NoDoc <=> users[p] = NoDoc) /\ cut \subseteq cut'
    BY DEF Stays, SameStores, Grows
  <1>2. Live(p)' <=> Live(p)
    BY <1>1 DEF Live
  <1>3. /\ On(p, Creations, {"undo"})' => On(p, Creations, {"undo"})
        /\ On(p, Deletions, {"account"})' => On(p, Deletions, {"account"})
        /\ p \notin cut' =>
              /\ On(p, Creations, {"claim", "save", "undo"}) => On(p, Creations, {"claim", "save", "undo"})'
              /\ On(p, Deletions, {"account"}) => On(p, Deletions, {"account"})'
    BY PlacesStay
  <1> QED
    BY <1>1, <1>2, <1>3 DEF PairInv

LEMMA RoleStays ==
    ASSUME NEW k \in Clients, NEW p, Stays(k, p), RoleInv(p)
    PROVE  RoleInv(p)'
PROOF
  <1> DEFINE r == requests[k]
             q == requests'[k]
  <1>0. /\ \A i \in Clients \ {k} : requests'[i] = requests[i]
        /\ q.op = "roles" /\ q.pc = "next" /\ p \in q.arg =>
              (r.op = "roles" /\ r.pc = "next" /\ p \in r.arg) \/ p \in Students
    BY DEF Stays, GoesOn, Only
  <1>1. (users'[p] = NoDoc <=> users[p] = NoDoc) /\ SameView({"email", "role"}, users[p], users'[p])
    BY DEF Stays, SameStores
  <1>2. ResolveUserRole(users'[p]) = ResolveUserRole(users[p])
    BY <1>1 DEF ResolveUserRole, SameView
  <1>3. users'[p] # NoDoc => ResolveUserRole(users'[p]) = RoleOf(p)
    BY <1>1, <1>2 DEF RoleInv
  <1>4. \A i \in Clients :
           requests'[i].op = "roles" /\ requests'[i].pc = "next" /\ p \in requests'[i].arg => p \in Students
    BY <1>0 DEF RoleInv
  <1> QED
    BY <1>3, <1>4 DEF RoleInv, ResolveUserRole, Has

LEMMA ClaimStays ==
    ASSUME NEW k \in Clients, NEW p, Stays(k, p), ClaimInv(p)
    PROVE  ClaimInv(p)'
PROOF
  <1>1. /\ accounts'[p] = accounts[p] /\ tokens'[p] = tokens[p] /\ (users'[p] = NoDoc <=> users[p] = NoDoc)
        /\ cut \subseteq cut'
    BY DEF Stays, SameStores, Grows
  <1>2. (Live(p)' <=> Live(p)) /\ (Told(p)' <=> Told(p))
    BY <1>1 DEF Live, Told
  <1>3. /\ \A pcs \in SUBSET {"claim", "save", "mail", "undo"} : On(p, Creations, pcs)' => On(p, Creations, pcs)
        /\ On(p, SignIns, {"reissue"})' => On(p, SignIns, {"reissue"})
    BY PlacesStay
  <1>4. /\ On(p, Creations, {"save"})' => On(p, Creations, {"save"})
        /\ On(p, Creations, {"claim"})' => On(p, Creations, {"claim"})
        /\ On(p, Creations, {"mail", "undo"})' => On(p, Creations, {"mail", "undo"})
    BY <1>3
  <1> QED
    BY <1>1, <1>2, <1>3, <1>4 DEF ClaimInv

LEMMA TurnsStay ==
    ASSUME NEW k \in Clients, NEW p \in People, NEW a, Stays(k, p), TurnsInv(p, a)
    PROVE  TurnsInv(p, a)'
PROOF
  <1> DEFINE r == requests[k]
             q == requests'[k]
  <1>0. /\ \A i \in Clients \ {k} : requests'[i] = requests[i]
        /\ q.who = p /\ q.op = "email" =>
              \/ r.who = p /\ r.op = "email" /\ q.arg = r.arg /\ q.got = r.got
              \/ q.arg \in Addresses(p) /\ q.got = accounts[p].email /\ q.arg # q.got
        /\ Watched(q, p) => SamePlace(q, r)
        /\ Open(r, p) => SamePlace(q, r) \/ p \in cut'
    BY DEF Stays, GoesOn, Only
  <1>1. accounts'[p] = accounts[p] /\ cut \subseteq cut'
    BY DEF Stays, SameStores, Grows
  <1>2. \A i \in Clients : requests'[i].who = p /\ requests'[i].op = "email" =>
           requests'[i].got = Other(p, requests'[i].arg)
    <2>1. q.who = p /\ q.op = "email" => q.got = Other(p, q.arg)
      <3>1. p # Fresh
        BY AccountsAssumption
      <3> QED
        BY <1>0, <3>1 DEF TurnsInv, Other, Addresses
    <2> QED
      BY <1>0, <2>1 DEF TurnsInv
  <1>3. ASSUME p \notin cut', NEW b PROVE Toward(p, b)' = Toward(p, b)
    <2>1. IsAt(q, p, {"email"}, {"doc", "undo"}) /\ q.arg = b <=> IsAt(r, p, {"email"}, {"doc", "undo"}) /\ r.arg = b
      BY <1>0, <1>3 DEF Open, Watched, SamePlace, IsAt
    <2> QED
      BY <1>0, <2>1 DEF Toward, IsAt
  <1>4. p \notin cut' => Toward(p, a)' = Toward(p, a) /\ Toward(p, Other(p, a))' = Toward(p, Other(p, a))
    BY <1>3
  <1>5. p \notin cut' =>
           /\ IsFiniteSet(Toward(p, a)') /\ IsFiniteSet(Toward(p, Other(p, a))')
           /\ Cardinality(Toward(p, Other(p, a))') = Cardinality(Toward(p, a)') + (IF accounts'[p].email = a THEN 0 ELSE 1)
    BY <1>1, <1>4 DEF TurnsInv
  <1>6. accounts'[p].email \in Addresses(p)
    BY <1>1 DEF TurnsInv
  <1> QED
    BY <1>2, <1>5, <1>6 DEF TurnsInv, Other, Addresses

LEMMA EmailStays ==
    ASSUME NEW k \in Clients, NEW p \in People, Stays(k, p), EmailInv(p)
    PROVE  EmailInv(p)'
PROOF
  <1> DEFINE r == requests[k]
             q == requests'[k]
  <1>0. /\ \A i \in Clients \ {k} : requests'[i] = requests[i]
        /\ Watched(q, p) => SamePlace(q, r)
    BY DEF Stays, GoesOn, Only
  <1>1. /\ accounts'[p] = accounts[p] /\ cut \subseteq cut'
        /\ SameView({"email", "role"}, users[p], users'[p])
    BY DEF Stays, SameStores, Grows
  <1>2. p \notin cut' => (On(p, {"email"}, {"doc", "undo"}) => On(p, {"email"}, {"doc", "undo"})')
    BY PlacesStay
  <1>3. (Live(p)' <=> Live(p))
        /\ (Has(users'[p], "email") => Has(users[p], "email") /\ users'[p]["email"] = users[p]["email"])
    BY <1>1 DEF Live, SameView
  <1>4. ASSUME NEW a, CreatedWith(p, a)' PROVE CreatedWith(p, a)
    BY <1>0, <1>4 DEF CreatedWith, Watched, Open, SamePlace, IsAt, Creations
  <1>5. ASSUME NEW a \in Addresses(p), CreatedWith(p, a)' PROVE TurnsInv(p, a)'
    BY <1>4, <1>5, TurnsStay DEF EmailInv
  <1>6. (p \notin cut /\ Live(p) /\ Has(users[p], "email") =>
            users[p]["email"] = accounts[p].email \/ On(p, {"email"}, {"doc", "undo"}))'
    BY <1>1, <1>2, <1>3 DEF EmailInv, Has
  <1> QED
    BY <1>5, <1>6 DEF EmailInv, Addresses

LEMMA PersonStays ==
    ASSUME NEW k \in Clients, NEW p \in People, Stays(k, p), PersonInv(p)
    PROVE  PersonInv(p)'
PROOF BY BornStays, PairStays, RoleStays, ClaimStays, EmailStays DEF PersonInv

-----------------------------------------------------------------------------
(* The steps that concern one person alone, and those that concern nobody *)

AccountOps == Creations \cup SignIns \cup Deletions \cup {"email"}

LEMMA ApartGoesOn ==
    ASSUME NEW r, NEW q, NEW p \in People, q = Idle \/ (q.op = r.op /\ q.who = r.who),
           r.op \notin Migrations, r.who # p \/ r.op \notin AccountOps
    PROVE  GoesOn(r, q, p)
PROOF
  <1>0. p # NoOne
    BY AccountsAssumption
  <1>1. q.op \notin Migrations /\ (q.who = p => q.op = r.op /\ r.who = p /\ r.op \notin AccountOps)
    BY <1>0, IdleIs DEF Migrations
  <1>2. ~Knows(q, p) /\ ~Watched(q, p)
    BY <1>1 DEF Knows, Watched, Open, IsAt, AccountOps
  <1>3. ~Open(r, p)
    BY DEF Open, IsAt, AccountOps
  <1>4. q.op # "roles" /\ (q.who = p => q.op # "email" /\ ~IsCreating(r)) /\ ~IsAt(q, p, Creations, {"create"})
    BY <1>1 DEF Migrations, AccountOps, IsCreating, IsAt
  <1> QED
    BY <1>1, <1>2, <1>3, <1>4 DEF GoesOn

\* The handlers that write an account.
OfAccount(k) ==
    \/ CreateAccount(k) \/ CreateClaims(k) \/ CreateSaves(k) \/ InviteMails(k) \/ CreateUndoes(k)
    \/ SignIn(k) \/ LoginResolves(k) \/ LoginClaims(k) \/ LoginReissues(k)
    \/ EmailChangesAccount(k) \/ EmailChangesDocument(k) \/ EmailUndoes(k)
    \/ DeleteInviteReads(k) \/ DeleteInviteReadsStudents(k) \/ DeleteDoc(k) \/ DeleteAccount(k)

OfMigration(k) ==
    \/ MigrateLists(k) \/ MigrateClaims(k) \/ MigrateEnds(k)
    \/ \E p \in People : MigrateCreates(k, p) \/ SyncRoleReads(k, p)

OfDocument(k) ==
    \/ UpdateOwnProfileReads(k) \/ UpdateOwnProfileSaves(k) \/ UpdateUserReads(k) \/ UpdateUserSaves(k)
    \/ GrantReads(k) \/ GrantWrites(k) \/ GrantRecords(k) \/ GrantUndoes(k)
    \/ RevokeReads(k) \/ RevokeReadsLast(k) \/ RevokeWrites(k) \/ RevokeFinds(k) \/ RevokeVoids(k)
    \/ AssignReads(k) \/ AssignReadsCurrent(k) \/ AssignReleases(k) \/ AssignReadsStudent(k) \/ AssignSaves(k)
    \/ UpdateAssignmentReads(k) \/ UpdateAssignmentReadsTeacher(k) \/ UpdateAssignmentSaves(k)
    \/ SetActiveReads(k) \/ SetActiveSaves(k) \/ SetActiveQueries(k) \/ SetActiveMarks(k)

LEMMA HandlesAre ==
    ASSUME NEW k, Handle(k)
    PROVE  OfAccount(k) \/ OfMigration(k) \/ OfDocument(k)
PROOF BY DEF Handle, AccountHandle, OfAccount, OfMigration, OfDocument

LEMMA OpsAre ==
    ASSUME PeopleTypeOK, NEW k \in Clients
    PROVE  /\ OfAccount(k) => requests[k].op \in AccountOps
           /\ OfDocument(k) => requests[k].op \notin AccountOps \cup Migrations
PROOF
  <1> DEFINE r == requests[k]
             AsAccount == r.op \in AccountOps
             AsDocument == r.op \notin AccountOps \cup Migrations
  <1>0. RequestOK(r)
    BY DEF PeopleTypeOK, RequestsOK
  <1>1. CreateAccount(k) \/ CreateClaims(k) \/ CreateSaves(k) \/ InviteMails(k) \/ CreateUndoes(k) => AsAccount
    BY <1>0, AwaitTells DEF CreateAccount, CreateClaims, CreateSaves, InviteMails, CreateUndoes, Creations, At,
       AccountOps
  <1>2. SignIn(k) \/ LoginResolves(k) \/ LoginClaims(k) \/ LoginReissues(k) => AsAccount
    BY <1>0, AwaitTells DEF SignIn, LoginResolves, LoginClaims, LoginReissues, SignIns, AccountOps
  <1>3. EmailChangesAccount(k) \/ EmailChangesDocument(k) \/ EmailUndoes(k) => AsAccount
    BY DEF EmailChangesAccount, EmailChangesDocument, EmailUndoes, At, AccountOps
  <1>4. DeleteInviteReads(k) \/ DeleteInviteReadsStudents(k) \/ DeleteDoc(k) \/ DeleteAccount(k) => AsAccount
    BY DEF DeleteInviteReads, DeleteInviteReadsStudents, DeleteDoc, DeleteAccount, At, AccountOps, Deletions
  <1>5. r.op \in {"profile", "edit", "grant", "revoke", "assign", "assignment", "active"} => AsDocument
    BY DEF AccountOps, Creations, SignIns, Deletions, Migrations
  <1>6. UpdateOwnProfileReads(k) \/ UpdateOwnProfileSaves(k) \/ UpdateUserReads(k) \/ UpdateUserSaves(k) => AsDocument
    BY <1>5 DEF UpdateOwnProfileReads, GetOrThrow, UpdateOwnProfileSaves, UpdateUserReads, UpdateUserSaves, At
  <1>7. GrantReads(k) \/ GrantWrites(k) \/ GrantRecords(k) \/ GrantUndoes(k) => AsDocument
    BY <1>5 DEF GrantReads, GrantWrites, GrantRecords, GrantUndoes, At
  <1>8. RevokeReads(k) \/ RevokeReadsLast(k) \/ RevokeWrites(k) \/ RevokeFinds(k) \/ RevokeVoids(k) => AsDocument
    BY <1>5 DEF RevokeReads, GetOrThrow, RevokeReadsLast, RevokeWrites, RevokeFinds, RevokeVoids, At
  <1>9. AssignReads(k) \/ AssignReadsCurrent(k) \/ AssignReleases(k) \/ AssignReadsStudent(k) \/ AssignSaves(k)
        => AsDocument
    BY <1>5 DEF AssignReads, GetOrThrow, AssignReadsCurrent, AssignReleases, AssignReadsStudent, AssignSaves, At
  <1>10. UpdateAssignmentReads(k) \/ UpdateAssignmentReadsTeacher(k) \/ UpdateAssignmentSaves(k) => AsDocument
    BY <1>5 DEF UpdateAssignmentReads, GetOrThrow, UpdateAssignmentReadsTeacher, UpdateAssignmentSaves, At
  <1>11. SetActiveReads(k) \/ SetActiveSaves(k) \/ SetActiveQueries(k) \/ SetActiveMarks(k) => AsDocument
    BY <1>5 DEF SetActiveReads, GetOrThrow, SetActiveSaves, SetActiveQueries, SetActiveMarks, At
  <1> HIDE DEF AsAccount, AsDocument
  <1>12. (OfAccount(k) => AsAccount) /\ (OfDocument(k) => AsDocument)
    BY <1>1, <1>2, <1>3, <1>4, <1>6, <1>7, <1>8, <1>9, <1>10, <1>11 DEF OfAccount, OfDocument
  <1> QED
    BY <1>12 DEF AsAccount, AsDocument

LEMMA SameViewSelf ==
    ASSUME NEW fields, NEW d
    PROVE  SameView(fields, d, d)
PROOF BY DEF SameView

\* The handlers of documents touch neither the accounts nor whether there is a
\* document, nor what it says of address and role.
LEMMA DocumentStays ==
    ASSUME PeopleTypeOK, CreationsInv, NEW k \in Clients, Handle(k), OfDocument(k), NEW p \in People \ outdated'
    PROVE  Stays(k, p)
PROOF
  <1> DEFINE r == requests[k]
             q == requests'[k]
  <1>1. r.op \notin AccountOps \cup Migrations
    BY OpsAre
  <1>2. PersonStep(k) /\ CreationStep(k) /\ RequestsOK
    BY HandleSteps, CreationSteps DEF PeopleTypeOK
  <1>3. Only(k) /\ Grows /\ Kept(r, p) /\ DocStays(r, p)
    BY <1>2 DEF PersonStep, RosterStep, Grows
  <1>4. StillNew(p)' => StillNew(p)
    BY <1>2, CreationsStay
  <1>5. GoesOn(r, q, p)
    BY <1>1, OpsStay, ApartGoesOn
  <1>6. UNCHANGED <<accounts, signedIn>>
    <2>1. UpdateOwnProfileReads(k) \/ UpdateOwnProfileSaves(k) \/ UpdateUserReads(k) \/ UpdateUserSaves(k)
          => UNCHANGED <<accounts, signedIn>>
      BY DEF UpdateOwnProfileReads, GetOrThrow, UpdateOwnProfileSaves, UpdateUserReads, UpdateUserSaves, OnlyRequests
    <2>2. GrantReads(k) \/ GrantWrites(k) \/ GrantRecords(k) \/ GrantUndoes(k) => UNCHANGED <<accounts, signedIn>>
      BY DEF GrantReads, GrantWrites, GrantRecords, GrantUndoes, OnlyRequests
    <2>3. RevokeReads(k) \/ RevokeReadsLast(k) \/ RevokeWrites(k) \/ RevokeFinds(k) \/ RevokeVoids(k)
          => UNCHANGED <<accounts, signedIn>>
      BY DEF RevokeReads, GetOrThrow, RevokeReadsLast, RevokeWrites, RevokeFinds, RevokeVoids, OnlyRequests
    <2>4. AssignReads(k) \/ AssignReadsCurrent(k) \/ AssignReleases(k) \/ AssignReadsStudent(k) \/ AssignSaves(k)
          => UNCHANGED <<accounts, signedIn>>
      BY DEF AssignReads, GetOrThrow, AssignReadsCurrent, AssignReleases, AssignReadsStudent, AssignSaves, OnlyRequests
    <2>5. UpdateAssignmentReads(k) \/ UpdateAssignmentReadsTeacher(k) \/ UpdateAssignmentSaves(k)
          => UNCHANGED <<accounts, signedIn>>
      BY DEF UpdateAssignmentReads, GetOrThrow, UpdateAssignmentReadsTeacher, UpdateAssignmentSaves, OnlyRequests
    <2>6. SetActiveReads(k) \/ SetActiveSaves(k) \/ SetActiveQueries(k) \/ SetActiveMarks(k)
          => UNCHANGED <<accounts, signedIn>>
      BY DEF SetActiveReads, GetOrThrow, SetActiveSaves, SetActiveQueries, SetActiveMarks, OnlyRequests
    <2> QED
      BY <2>1, <2>2, <2>3, <2>4, <2>5, <2>6 DEF OfDocument
  <1>7. (users'[p] = NoDoc <=> users[p] = NoDoc) /\ SameView({"email", "role"}, users[p], users'[p])
    <2>1. r.op \notin Creations \cup Deletions /\ {"email", "role"} \subseteq LeftAlone(r.op)
      BY <1>1 DEF AccountOps, Migrations, LeftAlone, Held, Writes
    <2>2. users[p] \in Docs \cup {NoDoc}
      BY DEF PeopleTypeOK, StoresOK
    <2>3. users[p] # NoDoc => users'[p] # NoDoc
      BY <1>3, <2>1, <2>2, MergeIsDoc, NoDocIsNone DEF Kept
    <2>4. users'[p] = users[p] \/ users'[p] = NoDoc
          \/ (users[p] # NoDoc /\ SameView({"email", "role"}, users[p], users'[p]))
      BY <1>3, <2>1, ViewOfFewer DEF DocStays, Creates
    <2> QED
      BY <2>3, <2>4, SameViewSelf
  <1> QED
    BY <1>3, <1>4, <1>5, <1>6, <1>7 DEF Stays, SameStores, signedIn

\* Of whom the request is, and what it may have written of them.
OneWritten(p) ==
    \A x \in People \ {p} :
        accounts'[x] = accounts[x] /\ tokens'[x] = tokens[x] /\ users'[x] = users[x]
        /\ (x \in sessions' => x \in sessions)

LEMMA OneIsWritten ==
    ASSUME PeopleTypeOK, NEW k \in Clients, OfAccount(k)
    PROVE  OneWritten(requests[k].who)
PROOF
  <1> DEFINE p == requests[k].who
  <1>0. accounts = [x \in People |-> accounts[x]] /\ tokens = [x \in People |-> tokens[x]]
        /\ users = [x \in People |-> users[x]]
    BY DEF PeopleTypeOK, StoresOK
  <1>1. CreateAccount(k) \/ CreateClaims(k) \/ CreateSaves(k) \/ InviteMails(k) \/ CreateUndoes(k) => OneWritten(p)
    BY <1>0 DEF CreateAccount, CreateClaims, CreateSaves, InviteMails, CreateUndoes, OneWritten, signedIn
  <1>2. SignIn(k) \/ LoginResolves(k) \/ LoginClaims(k) \/ LoginReissues(k) => OneWritten(p)
    BY <1>0 DEF SignIn, LoginResolves, LoginClaims, LoginReissues, OnlyRequests, Delivered, OneWritten, signedIn
  <1>3. EmailChangesAccount(k) \/ EmailChangesDocument(k) \/ EmailUndoes(k) => OneWritten(p)
    BY <1>0 DEF EmailChangesAccount, EmailChangesDocument, EmailUndoes, OneWritten, signedIn
  <1>4. DeleteInviteReads(k) \/ DeleteInviteReadsStudents(k) \/ DeleteDoc(k) \/ DeleteAccount(k) => OneWritten(p)
    BY <1>0 DEF DeleteInviteReads, DeleteInviteReadsStudents, DeleteDoc, DeleteAccount, OnlyRequests, OneWritten,
       signedIn
  <1> QED
    BY <1>1, <1>2, <1>3, <1>4 DEF OfAccount

LEMMA AccountsOfOthersStay ==
    ASSUME PeopleTypeOK, CreationsInv, NEW k \in Clients, OfAccount(k), UNCHANGED paid,
           NEW p \in People \ {requests[k].who}
    PROVE  Stays(k, p)
PROOF
  <1> DEFINE r == requests[k]
             q == requests'[k]
  <1>1. Handle(k) /\ r.op \in AccountOps
    BY OpsAre DEF OfAccount, Handle, AccountHandle
  <1>2. PersonStep(k) /\ CreationStep(k) /\ RequestsOK
    BY <1>1, HandleSteps, CreationSteps DEF PeopleTypeOK
  <1>3. Only(k) /\ Grows
    BY <1>2 DEF PersonStep, RosterStep, Grows
  <1>4. StillNew(p)' => StillNew(p)
    BY <1>2, CreationsStay
  <1>5. r.op \notin Migrations
    BY <1>1 DEF AccountOps, Migrations, Creations, SignIns, Deletions
  <1>6. GoesOn(r, q, p)
    BY <1>1, <1>5, OpsStay, ApartGoesOn
  <1>7. SameStores(p)
    BY OneIsWritten, SameViewSelf DEF OneWritten, SameStores
  <1> QED
    BY <1>3, <1>4, <1>6, <1>7 DEF Stays

-----------------------------------------------------------------------------
(* A creation, and the person it creates *)

\* Nobody else creates the person: the places of a creation are those of this one.
LEMMA CreatorIsAlone ==
    ASSUME CreationsInv, NEW k \in Clients, Only(k), IsCreating(requests[k]), NEW p, p = requests[k].who, NEW pcs
    PROVE  On(p, Creations, pcs)' <=> IsAt(requests'[k], p, Creations, pcs)
PROOF
  <1>1. \A i \in Clients \ {k} : ~(IsCreating(requests'[i]) /\ requests'[i].who = p)
    BY DEF CreationsInv, Only
  <1> QED
    BY <1>1 DEF On, IsAt, IsCreating

\* A request stays away from the places of other operations.
LEMMA OtherPlacesStay ==
    ASSUME NEW k \in Clients, Only(k), NEW p \in People, NEW ops, NEW pcs, requests[k].op \notin ops,
           requests'[k] = Idle \/ requests'[k].op = requests[k].op
    PROVE  On(p, ops, pcs)' <=> On(p, ops, pcs)
PROOF
  <1>1. ~IsAt(requests[k], p, ops, pcs) /\ ~IsAt(requests'[k], p, ops, pcs)
    BY IdleIs, AccountsAssumption DEF IsAt
  <1> QED
    BY <1>1 DEF On, Only, IsAt

LEMMA CreationsAre ==
    ASSUME PeopleTypeOK, CreationsInv, NEW k \in Clients, Handle(k), IsCreating(requests[k]),
           NEW p, p = requests[k].who
    PROVE  LET q == requests'[k] IN
           /\ p \in People /\ Only(k) /\ Grows
           /\ q = Idle \/ (q.op = requests[k].op /\ q.who = p)
           /\ \A pcs : On(p, Creations, pcs)' <=> IsAt(q, p, Creations, pcs)
           /\ On(p, Deletions, {"account"})' <=> On(p, Deletions, {"account"})
           /\ On(p, SignIns, {"reissue"})' <=> On(p, SignIns, {"reissue"})
           /\ On(p, {"email"}, {"doc", "undo"})' <=> On(p, {"email"}, {"doc", "undo"})
PROOF
  <1> DEFINE r == requests[k]
             q == requests'[k]
  <1>1. p \in People
    BY CreationKnows DEF PeopleTypeOK, RequestsOK, RequestOK, CreationOK, IsCreating
  <1>2. Only(k) /\ Grows
    BY HandleSteps DEF PersonStep, RosterStep, Grows
  <1>3. r.op \notin Migrations /\ r.op \notin Deletions /\ r.op \notin SignIns /\ r.op \notin {"email"}
    BY DEF IsCreating, Creations, Migrations, Deletions, SignIns
  <1>4. q = Idle \/ (q.op = r.op /\ q.who = p)
    BY <1>3, OpsStay
  <1> QED
    BY <1>1, <1>2, <1>3, <1>4, CreatorIsAlone, OtherPlacesStay

\* Before it saves, nobody knows of the person.
LEMMA BornOfCreation ==
    ASSUME PeopleTypeOK, CreationsInv, NEW k \in Clients, Handle(k), IsCreating(requests[k]),
           NEW p, p = requests[k].who, BornInv(p), UNCHANGED signedIn,
           users'[p] = users[p] \/ requests[k].pc = "save"
    PROVE  BornInv(p)'
PROOF
  <1> DEFINE r == requests[k]
             q == requests'[k]
  <1>1. /\ p \in People /\ Only(k)
        /\ q = Idle \/ (q.op = r.op /\ q.who = p)
    BY CreationsAre
  <1>2. CreationStep(k) /\ RequestsOK
    BY CreationSteps DEF PeopleTypeOK
  <1>3. StillNew(p)' => StillNew(p) /\ r.pc # "save"
    BY <1>1, <1>2, CreationsStay
  <1>4. accounts'[p].state = "new" => accounts[p].state = "new"
    BY <1>1, <1>2 DEF CreationStep
  <1>5. q # Idle => IsCreating(q) /\ q.pc # "create"
    BY <1>1, <1>2 DEF CreationStep, IsCreating
  <1>6. ~Knows(q, p)
    BY <1>1, IdleIs DEF Knows, IsCreating, Creations, Deletions, Migrations
  <1>7. \A i \in Clients \ {k} : requests'[i] = requests[i]
    BY <1>1 DEF Only
  <1>8. StillNew(p)' => users'[p] = NoDoc /\ \A i \in Clients : ~Knows(requests'[i], p)
    BY <1>3, <1>6, <1>7 DEF BornInv
  <1>9. Idle.who # p
    BY <1>1, IdleIs, AccountsAssumption
  <1>10. accounts'[p].state = "new" =>
            /\ tokens'[p] = "no" /\ p \notin sessions'
            /\ \A i \in Clients : requests'[i].who = p => IsCreating(requests'[i])
    BY <1>4, <1>5, <1>7, <1>9 DEF BornInv, signedIn
  <1>11. ~IsAt(q, p, Creations, {"create"})
    BY <1>5, <1>9 DEF IsAt
  <1>12. ~On(p, Creations, {"create"})'
    <2>1. On(p, Creations, {"create"})' => IsAt(q, p, Creations, {"create"})
      BY <1>1, CreatorIsAlone
    <2> QED
      BY <1>11, <2>1
  <1>13. \A i \in Clients : Knows(requests[i], p)' <=> Knows(requests'[i], p)
    BY DEF Knows
  <1> QED
    BY <1>8, <1>10, <1>12 DEF BornInv, Knows, IsCreating

LEMMA RoleOfCreation ==
    ASSUME PeopleTypeOK, CreationsInv, NEW k \in Clients, Handle(k), IsCreating(requests[k]),
           NEW p, p = requests[k].who, RoleInv(p),
           users'[p] # NoDoc => users'[p] = users[p] \/ ResolveUserRole(users'[p]) = RoleOf(p)
    PROVE  RoleInv(p)'
PROOF
  <1>1. Only(k) /\ (requests'[k] = Idle \/ requests'[k].op = requests[k].op)
    BY CreationsAre
  <1>2. requests'[k].op # "roles"
    BY <1>1, IdleIs DEF IsCreating, Creations
  <1>3. \A i \in Clients :
           requests'[i].op = "roles" /\ requests'[i].pc = "next" /\ p \in requests'[i].arg => p \in Students
    BY <1>1, <1>2 DEF RoleInv, Only
  <1>4. users'[p] # NoDoc => ResolveUserRole(users'[p]) = RoleOf(p)
    BY DEF RoleInv
  <1> QED
    BY <1>3, <1>4 DEF RoleInv, ResolveUserRole, Has

\* Another request leaves the changes of address.
LEMMA TurnsElsewhere ==
    ASSUME NEW k \in Clients, Only(k), NEW p, requests[k].op # "email",
           requests'[k] = Idle \/ requests'[k].op = requests[k].op, NEW a,
           accounts'[p].email = accounts[p].email, cut \subseteq cut', TurnsInv(p, a)
    PROVE  TurnsInv(p, a)'
PROOF
  <1>1. requests[k].op # "email" /\ requests'[k].op # "email"
    BY IdleIs
  <1>2. ASSUME NEW b PROVE Toward(p, b)' = Toward(p, b)
    BY <1>1 DEF Toward, IsAt, Only
  <1>3. p \notin cut' =>
           /\ IsFiniteSet(Toward(p, a)') /\ IsFiniteSet(Toward(p, Other(p, a))')
           /\ Cardinality(Toward(p, Other(p, a))') = Cardinality(Toward(p, a)') + (IF accounts'[p].email = a THEN 0 ELSE 1)
    <2>1. Toward(p, a)' = Toward(p, a) /\ Toward(p, Other(p, a))' = Toward(p, Other(p, a))
      BY <1>2
    <2> QED
      BY <2>1 DEF TurnsInv
  <1>4. \A i \in Clients : requests'[i].who = p /\ requests'[i].op = "email" =>
           requests'[i].got = Other(p, requests'[i].arg)
    BY <1>1 DEF TurnsInv, Only
  <1>5. accounts'[p].email \in Addresses(p)
    BY DEF TurnsInv
  <1> QED
    BY <1>3, <1>4, <1>5 DEF TurnsInv, Other, Addresses

\* Where a creation is, and where its step takes it.
LEMMA CreationMoves ==
    ASSUME PeopleTypeOK, CreationsInv, NEW k \in Clients, Handle(k), IsCreating(requests[k]),
           NEW p, p = requests[k].who
    PROVE  LET r == requests[k]  q == requests'[k] IN
           /\ \A pcs : r.pc \in pcs => On(p, Creations, pcs)
           /\ q = Idle => \A pcs : ~On(p, Creations, pcs)'
           /\ q # Idle => IsCreating(q) /\ \A pcs : On(p, Creations, pcs)' <=> q.pc \in pcs
           /\ \A a : CreatedWith(p, a)' <=> q # Idle /\ q.pc \in {"claim", "save"} /\ q.arg = a
           /\ \A a : r.pc \in {"claim", "save"} /\ r.arg = a => CreatedWith(p, a)
PROOF
  <1> DEFINE r == requests[k]
             q == requests'[k]
  <1>1. /\ p \in People /\ Only(k)
        /\ q = Idle \/ (q.op = r.op /\ q.who = p)
        /\ \A pcs : On(p, Creations, pcs)' <=> IsAt(q, p, Creations, pcs)
    BY CreationsAre
  <1>2. Idle.who # p
    BY <1>1, IdleIs, AccountsAssumption
  <1>3. q = Idle => \A pcs : ~IsAt(q, p, Creations, pcs)
    BY <1>2 DEF IsAt
  <1>4. q # Idle => IsCreating(q) /\ \A pcs : IsAt(q, p, Creations, pcs) <=> q.pc \in pcs
    BY <1>1 DEF IsAt, IsCreating
  <1>5. \A pcs : r.pc \in pcs => On(p, Creations, pcs)
    BY DEF On, IsAt, IsCreating
  <1>6. ASSUME NEW a PROVE CreatedWith(p, a)' <=> q # Idle /\ q.pc \in {"claim", "save"} /\ q.arg = a
    <2>1. \A i \in Clients \ {k} : ~IsAt(requests'[i], p, Creations, {"claim", "save"})
      BY <1>1 DEF CreationsInv, Only, IsAt, IsCreating
    <2>2. CreatedWith(p, a)' <=> IsAt(q, p, Creations, {"claim", "save"}) /\ q.arg = a
      BY <2>1 DEF CreatedWith, IsAt
    <2> QED
      BY <1>3, <1>4, <2>2
  <1>7. \A a : r.pc \in {"claim", "save"} /\ r.arg = a => CreatedWith(p, a)
    BY DEF CreatedWith, IsAt, IsCreating
  <1> QED
    BY <1>1, <1>3, <1>4, <1>5, <1>6, <1>7

\* An account for whom nothing else is under way.
LEMMA CreateAccountKeeps ==
    ASSUME PeopleTypeOK, CreationsInv, NEW k \in Clients, Handle(k), CreateAccount(k),
           NEW p, p = requests[k].who, PersonInv(p)
    PROVE  PersonInv(p)'
PROOF
  <1> DEFINE r == requests[k]
             q == requests'[k]
             a == r.arg
  <1>0. RequestsOK /\ RequestOK(r) /\ accounts \in [People -> Accts]
    BY DEF PeopleTypeOK, RequestsOK, StoresOK
  <1>1. r.pc = "create" /\ UNCHANGED <<users, signedIn, control>>
    BY DEF CreateAccount
  <1>2. IsCreating(r) /\ a \in Addresses(p) /\ p \in People
    BY <1>0, <1>1, AwaitTells, CreationKnows DEF IsCreating, RequestOK, CreationOK
  <1>3. /\ \A pcs : r.pc \in pcs => On(p, Creations, pcs)
        /\ q = Idle => \A pcs : ~On(p, Creations, pcs)'
        /\ q # Idle => \A pcs : On(p, Creations, pcs)' <=> q.pc \in pcs
        /\ \A b : CreatedWith(p, b)' <=> q # Idle /\ q.pc \in {"claim", "save"} /\ q.arg = b
    BY <1>2, CreationMoves
  <1>4. /\ Only(k)
        /\ On(p, Deletions, {"account"})' <=> On(p, Deletions, {"account"})
        /\ On(p, SignIns, {"reissue"})' <=> On(p, SignIns, {"reissue"})
        /\ q = Idle \/ (q.op = r.op /\ q.who = p)
    BY <1>2, CreationsAre
  <1>5. accounts[p].state = "new" /\ StillNew(p)
    BY <1>1, <1>3 DEF PersonInv, BornInv, StillNew
  <1>6. users[p] = NoDoc /\ tokens[p] = "no" /\ ~Live(p)
        /\ \A i \in Clients : requests[i].who = p => IsCreating(requests[i])
    BY <1>5 DEF PersonInv, BornInv, Live
  <1>7. users'[p] = NoDoc /\ tokens'[p] = "no" /\ cut' = cut
    BY <1>1, <1>6 DEF signedIn, control
  <1>8. ~On(p, SignIns, {"reissue"}) /\ \A b : Toward(p, b) = {}
    BY <1>6 DEF On, IsAt, Toward, IsCreating, Creations, SignIns
  <1>9. BornInv(p)' /\ RoleInv(p)'
    BY <1>1, <1>2, <1>7, BornOfCreation, RoleOfCreation DEF PersonInv
  <1>10. CASE q = Idle
    <2>1. UNCHANGED accounts
      <3>1. ASSUME Proceed(k, "claim", NoArg) PROVE FALSE
        BY <1>0, <1>10, <3>1, ProceedStep, IdleIs
      <3> QED
        BY <3>1 DEF CreateAccount
    <2>2. ~Live(p)'
      BY <1>6, <2>1 DEF Live
    <2>3. PairInv(p)'
      BY <1>3, <1>7, <1>10, <2>2 DEF PairInv
    <2>4. ClaimInv(p)'
      BY <1>3, <1>4, <1>7, <1>8, <1>10, <2>2 DEF ClaimInv
    <2>5. EmailInv(p)'
      BY <1>3, <1>10, <2>2 DEF EmailInv, Addresses
    <2> QED
      BY <1>9, <2>3, <2>4, <2>5 DEF PersonInv
  <1>11. CASE q # Idle
    <2>1. accounts' = [accounts EXCEPT ![p] = Account("live", "none", a)] /\ Proceed(k, "claim", NoArg)
      BY <1>0, <1>11, EndStep DEF CreateAccount
    <2>2. q.pc = "claim" /\ q.arg = a /\ q.op \in Creations
      BY <1>0, <1>2, <2>1, ProceedStep DEF SameAsk, IsCreating
    <2>3. accounts'[p].state = "live" /\ accounts'[p].claim = "none" /\ accounts'[p].email = a
      BY <1>0, <1>2, <2>1 DEF Account
    <2>4. Live(p)'
      BY <2>3 DEF Live
    <2>5. PairInv(p)'
      BY <1>3, <1>7, <1>11, <2>2, <2>4 DEF PairInv
    <2>6. ClaimInv(p)'
      BY <1>3, <1>4, <1>7, <1>8, <1>11, <2>2, <2>3, <2>4 DEF ClaimInv, Told
    <2>7. \A b : Toward(p, b)' = {}
      <3>1. \A i \in Clients : requests'[i].who = p => requests'[i].op # "email"
        BY <1>4, <1>6, <2>2 DEF Only, IsCreating, Creations
      <3> QED
        BY <3>1 DEF Toward, IsAt
    <2>8. \A i \in Clients : requests'[i].who = p => requests'[i].op # "email"
      BY <1>4, <1>6, <2>2 DEF Only, IsCreating, Creations
    <2>10. ASSUME NEW b \in Addresses(p), CreatedWith(p, b)' PROVE TurnsInv(p, b)'
      <3>1. Toward(p, b)' = {} /\ Toward(p, Other(p, b))' = {}
        BY <2>7
      <3>2. IsFiniteSet({}) /\ Cardinality({}) = 0
        BY FS_EmptySet
      <3>3. accounts'[p].email \in Addresses(p) /\ accounts'[p].email = b
        BY <1>2, <1>3, <2>2, <2>3, <2>10
      <3> QED
        BY <2>8, <3>1, <3>2, <3>3 DEF TurnsInv, Addresses
    <2>11. EmailInv(p)'
      BY <1>7, <2>10 DEF EmailInv, Has, Addresses
    <2> QED
      BY <1>9, <2>5, <2>6, <2>11 DEF PersonInv
  <1> QED
    BY <1>10, <1>11

\* The claim of who is created: none was there, or one in nobody's token but that
\* of a student.
LEMMA CreateClaimsKeeps ==
    ASSUME PeopleTypeOK, CreationsInv, NEW k \in Clients, Handle(k), CreateClaims(k),
           NEW p, p = requests[k].who, p \notin outdated', PersonInv(p)
    PROVE  PersonInv(p)'
PROOF
  <1> DEFINE r == requests[k]
             q == requests'[k]
  <1>0. RequestsOK /\ RequestOK(r) /\ accounts \in [People -> Accts]
    BY DEF PeopleTypeOK, RequestsOK, StoresOK
  <1>1. r.pc = "claim" /\ UNCHANGED <<users, signedIn, started>> /\ IsCreating(r)
    BY DEF CreateClaims, IsCreating, Creations
  <1>3. /\ \A pcs : r.pc \in pcs => On(p, Creations, pcs)
        /\ q = Idle => \A pcs : ~On(p, Creations, pcs)'
        /\ q # Idle => \A pcs : On(p, Creations, pcs)' <=> q.pc \in pcs
        /\ \A b : CreatedWith(p, b)' <=> q # Idle /\ q.pc \in {"claim", "save"} /\ q.arg = b
        /\ \A b : r.pc \in {"claim", "save"} /\ r.arg = b => CreatedWith(p, b)
    BY <1>1, CreationMoves
  <1>4. /\ Only(k) /\ p \in People
        /\ On(p, Deletions, {"account"})' <=> On(p, Deletions, {"account"})
        /\ On(p, SignIns, {"reissue"})' <=> On(p, SignIns, {"reissue"})
        /\ q = Idle \/ (q.op = r.op /\ q.who = p)
        /\ Grows
    BY <1>1, CreationsAre
  <1>5. StillNew(p)
    BY <1>1 DEF StillNew, NotSaved
  <1>6. users[p] = NoDoc /\ \A i \in Clients : ~Knows(requests[i], p)
    BY <1>5 DEF PersonInv, BornInv
  <1>7. users'[p] = NoDoc /\ tokens'[p] = tokens[p]
    BY <1>1, <1>6 DEF signedIn
  <1>8. ~On(p, Deletions, {"account"})
    BY <1>6 DEF On, IsAt, Knows
  <1>9. BornInv(p)' /\ RoleInv(p)'
    BY <1>1, <1>7, BornOfCreation, RoleOfCreation DEF PersonInv
  <1>10. /\ Live(p) /\ accounts[p].claim \in {"none", "student"}
         /\ Told(p) \/ accounts[p].claim \notin {"none", RoleOf(p)}
    BY <1>1, <1>3 DEF PersonInv, ClaimInv
  <1>11. On(p, SignIns, {"reissue"}) => accounts[p].claim # "none"
    BY <1>10 DEF PersonInv, ClaimInv
  <1>12. CASE q = Idle
    <2>1. UNCHANGED accounts /\ cut' = cut \cup {p}
      <3>1. ASSUME Proceed(k, "save", NoArg) PROVE FALSE
        BY <1>0, <1>12, <3>1, ProceedStep, IdleIs
      <3> QED
        BY <3>1 DEF CreateClaims
    <2>2. Live(p)'
      BY <1>10, <2>1 DEF Live
    <2>3. PairInv(p)'
      BY <1>3, <1>7, <1>12, <2>1 DEF PairInv
    <2>4. ClaimInv(p)'
      BY <1>3, <1>4, <1>7, <1>11, <1>12, <2>1, <2>2 DEF ClaimInv
    <2>5. EmailInv(p)'
      BY <1>3, <1>12, <2>1 DEF EmailInv, Addresses
    <2> QED
      BY <1>9, <2>3, <2>4, <2>5 DEF PersonInv
  <1>13. CASE q # Idle
    <2>1. /\ accounts' = [accounts EXCEPT ![p].claim = ClaimGiven(p)] /\ Proceed(k, "save", NoArg) /\ cut' = cut
          /\ Mark({p}, accounts[p].claim \in {"none", ClaimGiven(p)})
      BY <1>0, <1>13, EndStep DEF CreateClaims
    <2>2. q.pc = "save" /\ q.arg = r.arg
      BY <1>0, <2>1, ProceedStep DEF SameAsk
    <2>3. accounts'[p].state = accounts[p].state /\ accounts'[p].claim = RoleOf(p)
          /\ accounts'[p].email = accounts[p].email
      BY <1>0, <1>4, <2>1 DEF ClaimGiven, Accts
    <2>4. Live(p)'
      BY <1>10, <2>3 DEF Live
    <2>5. accounts[p].claim \in {"none", RoleOf(p)}
      BY <2>1 DEF Mark, ClaimGiven
    <2>6. Told(p)'
      BY <1>7, <1>10, <2>5 DEF Told
    <2>7. On(p, SignIns, {"reissue"}) => p \in Students
      BY <1>10, <1>11, <2>5 DEF RoleOf
    <2>8. PairInv(p)'
      BY <1>3, <1>4, <1>7, <1>8, <1>13, <2>2, <2>4 DEF PairInv
    <2>9. ClaimInv(p)'
      <3>1. RoleOf(p) # "none"
        BY DEF RoleOf
      <3> QED
        BY <1>3, <1>4, <1>7, <1>13, <2>2, <2>3, <2>4, <2>6, <2>7, <3>1 DEF ClaimInv
    <2>10. ASSUME NEW b \in Addresses(p), CreatedWith(p, b)' PROVE TurnsInv(p, b)'
      <3>1. b = r.arg
        BY <1>3, <2>2, <2>10
      <3>2. TurnsInv(p, b)
        BY <1>1, <1>3, <2>10, <3>1 DEF PersonInv, EmailInv
      <3>3. r.op # "email"
        BY <1>1 DEF IsCreating, Creations
      <3> QED
        BY <1>4, <2>1, <2>3, <3>2, <3>3, TurnsElsewhere
    <2>11. EmailInv(p)'
      BY <1>7, <2>10 DEF EmailInv, Has, Addresses
    <2> QED
      BY <1>9, <2>8, <2>9, <2>11 DEF PersonInv
  <1> QED
    BY <1>12, <1>13

LEMMA NewDocSays ==
    ASSUME NEW p \in People, NEW email \in Emails
    PROVE  LET d == NewDoc(p, email)  e == With(d, "name", TRUE) IN
           /\ d \in Docs /\ e \in Docs
           /\ Has(d, "email") /\ d["email"] = email /\ ResolveUserRole(d) = RoleOf(p)
           /\ Has(e, "email") /\ e["email"] = email /\ ResolveUserRole(e) = RoleOf(p)
PROOF
  <1> DEFINE b == [email |-> email, role |-> RoleOf(p), isPaying |-> FALSE]
             d == NewDoc(p, email)
             e == With(d, "name", TRUE)
  <1>1. d \in Docs
    BY NewIsDoc
  <1>2. d = b \/ d = With(b, "active", TRUE)
    BY DEF NewDoc
  <1>3. DOMAIN b = {"email", "role", "isPaying"} /\ b["email"] = email /\ b["role"] = RoleOf(p)
    OBVIOUS
  <1> HIDE DEF b, d
  <1>4. "email" \in DOMAIN d /\ d["email"] = email /\ "role" \in DOMAIN d /\ d["role"] = RoleOf(p)
    BY <1>2, <1>3 DEF With
  <1>5. e \in Docs
    <2>1. "name" \in Fields \ {"role", "onboarded", "teacher"} /\ TRUE \in Values
      BY DEF Fields, Values
    <2> QED
      BY <1>1, <2>1, WithIsDoc
  <1>6. "email" \in DOMAIN e /\ e["email"] = email /\ "role" \in DOMAIN e /\ e["role"] = RoleOf(p)
    BY <1>4 DEF With
  <1> HIDE DEF e
  <1>7. d # NoDoc /\ e # NoDoc
    BY <1>1, <1>5, NoDocIsNone
  <1>8. Has(d, "email") /\ d["email"] = email /\ ResolveUserRole(d) = RoleOf(p)
    BY <1>4, <1>7 DEF Has, ResolveUserRole
  <1>9. Has(e, "email") /\ e["email"] = email /\ ResolveUserRole(e) = RoleOf(p)
    BY <1>6, <1>7 DEF Has, ResolveUserRole
  <1> QED
    BY <1>1, <1>5, <1>8, <1>9 DEF d, e

\* The document is saved for whom nobody knows yet, and says the address of the
\* account, or that of a change under way.
LEMMA CreateSavesKeeps ==
    ASSUME PeopleTypeOK, CreationsInv, NEW k \in Clients, Handle(k), CreateSaves(k),
           NEW p, p = requests[k].who, PersonInv(p)
    PROVE  PersonInv(p)'
PROOF
  <1> DEFINE r == requests[k]
             q == requests'[k]
             doc == IF r.op = "create" THEN With(NewDoc(p, r.arg), "name", TRUE) ELSE NewDoc(p, r.arg)
  <1>0. RequestsOK /\ RequestOK(r) /\ users \in [People -> Docs \cup {NoDoc}]
    BY DEF PeopleTypeOK, RequestsOK, StoresOK
  <1>1. r.pc = "save" /\ UNCHANGED <<accounts, signedIn, started, outdated, cut>> /\ IsCreating(r)
    BY DEF CreateSaves, IsCreating, Creations
  <1>2. r.arg \in Addresses(p) /\ r.arg \in Emails
    <2>1. r.arg \in Addresses(p) /\ p \in People
      BY <1>0, <1>1, CreationKnows DEF RequestOK, CreationOK, IsCreating
    <2> QED
      BY <2>1 DEF Addresses, Emails
  <1>3. /\ \A pcs : r.pc \in pcs => On(p, Creations, pcs)
        /\ q = Idle => \A pcs : ~On(p, Creations, pcs)'
        /\ q # Idle => \A pcs : On(p, Creations, pcs)' <=> q.pc \in pcs
        /\ \A b : CreatedWith(p, b)' <=> q # Idle /\ q.pc \in {"claim", "save"} /\ q.arg = b
        /\ \A b : r.pc \in {"claim", "save"} /\ r.arg = b => CreatedWith(p, b)
    BY <1>1, CreationMoves
  <1>4. /\ Only(k) /\ p \in People
        /\ On(p, Deletions, {"account"})' <=> On(p, Deletions, {"account"})
        /\ On(p, SignIns, {"reissue"})' <=> On(p, SignIns, {"reissue"})
        /\ On(p, {"email"}, {"doc", "undo"})' <=> On(p, {"email"}, {"doc", "undo"})
    BY <1>1, CreationsAre
  <1>5. StillNew(p)
    BY <1>1 DEF StillNew, NotSaved
  <1>6. users[p] = NoDoc /\ \A i \in Clients : ~Knows(requests[i], p)
    BY <1>5 DEF PersonInv, BornInv
  <1>7. ~On(p, Deletions, {"account"})
    BY <1>6 DEF On, IsAt, Knows
  <1>8. /\ Live(p) /\ accounts[p].claim = RoleOf(p) /\ Told(p)
        /\ On(p, SignIns, {"reissue"}) => p \in Students
    BY <1>1, <1>3 DEF PersonInv, ClaimInv
  <1>9. Live(p)' /\ accounts'[p].claim = RoleOf(p) /\ Told(p)' /\ cut' = cut
    BY <1>1, <1>8 DEF Live, Told, signedIn
  <1>10. RoleOf(p) # "none"
    BY DEF RoleOf
  <1>11. BornInv(p)'
    BY <1>1, BornOfCreation DEF PersonInv
  <1>12. CASE UNCHANGED users /\ Proceed(k, "undo", NoArg)
    <2>1. q.pc = "undo" /\ q.op = r.op /\ users'[p] = NoDoc
      BY <1>0, <1>6, <1>12, ProceedStep DEF SameAsk
    <2>2. q # Idle
      BY <1>1, <2>1, IdleIs DEF IsCreating, Creations
    <2>3. RoleInv(p)'
      BY <1>1, <2>1, RoleOfCreation DEF PersonInv
    <2>4. PairInv(p)'
      BY <1>3, <2>1, <2>2 DEF PairInv
    <2>5. ClaimInv(p)'
      BY <1>3, <1>9, <1>10, <2>1, <2>2 DEF ClaimInv
    <2>6. EmailInv(p)'
      BY <1>3, <2>1, <2>2 DEF EmailInv, Has, Addresses
    <2> QED
      BY <1>11, <2>3, <2>4, <2>5, <2>6 DEF PersonInv
  <1>13. CASE users' = [users EXCEPT ![p] = doc] /\ (IF r.op = "invite" THEN Proceed(k, "mail", NoArg) ELSE End(k))
    <2>1. q = Idle \/ (q # Idle /\ q.pc = "mail")
      BY <1>0, <1>13, ProceedStep, EndStep DEF SameAsk
    <2>2. doc \in Docs /\ Has(doc, "email") /\ doc["email"] = r.arg /\ ResolveUserRole(doc) = RoleOf(p)
      BY <1>2, <1>4, NewDocSays
    <2>3. users'[p] = doc /\ doc # NoDoc
      BY <1>0, <1>4, <1>13, <2>2, NoDocIsNone
    <2> HIDE DEF doc
    <2>4. RoleInv(p)'
      BY <1>1, <2>2, <2>3, RoleOfCreation DEF PersonInv
    <2>5. PairInv(p)'
      BY <1>3, <1>4, <1>7, <1>9, <2>1, <2>3 DEF PairInv
    <2>6. ClaimInv(p)'
      BY <1>3, <1>4, <1>8, <1>9, <1>10, <2>1 DEF ClaimInv
    <2>7. ASSUME p \notin cut, accounts[p].email # r.arg PROVE On(p, {"email"}, {"doc", "undo"})
      <3> DEFINE A == Toward(p, r.arg)
                 B == Toward(p, Other(p, r.arg))
      <3>1. TurnsInv(p, r.arg)
        BY <1>1, <1>2, <1>3 DEF PersonInv, EmailInv
      <3>2. IsFiniteSet(A) /\ Cardinality(B) = Cardinality(A) + 1
        BY <2>7, <3>1 DEF TurnsInv
      <3>3. Cardinality(A) \in Nat
        BY <3>2, FS_CardinalityType
      <3>4. B # {}
        <4> HIDE DEF A, B
        <4>1. ASSUME B = {} PROVE FALSE
          BY <3>2, <3>3, <4>1, FS_EmptySet
        <4> QED
          BY <4>1
      <3> QED
        BY <3>4 DEF Toward, On
    <2>8. EmailInv(p)'
      BY <1>1, <1>3, <1>4, <2>1, <2>2, <2>3, <2>7 DEF EmailInv, Addresses
    <2> QED
      BY <1>11, <2>4, <2>5, <2>6, <2>8 DEF PersonInv
  <1> QED
    BY <1>12, <1>13 DEF CreateSaves

\* The invitation of a teacher that fails leaves them a document: they are cut.
LEMMA InviteMailsKeeps ==
    ASSUME PeopleTypeOK, CreationsInv, NEW k \in Clients, Handle(k), InviteMails(k),
           NEW p, p = requests[k].who, PersonInv(p)
    PROVE  PersonInv(p)'
PROOF
  <1> DEFINE r == requests[k]
             q == requests'[k]
  <1>0. RequestsOK
    BY DEF PeopleTypeOK
  <1>1. r.pc = "mail" /\ UNCHANGED <<accounts, users, signedIn, started, outdated>> /\ IsCreating(r)
    BY DEF InviteMails, At, IsCreating, Creations
  <1>3. /\ \A pcs : r.pc \in pcs => On(p, Creations, pcs)
        /\ q = Idle => \A pcs : ~On(p, Creations, pcs)'
        /\ q # Idle => \A pcs : On(p, Creations, pcs)' <=> q.pc \in pcs
        /\ \A b : CreatedWith(p, b)' <=> q # Idle /\ q.pc \in {"claim", "save"} /\ q.arg = b
    BY <1>1, CreationMoves
  <1>4. /\ Only(k) /\ p \in People /\ cut \subseteq cut'
        /\ On(p, Deletions, {"account"})' <=> On(p, Deletions, {"account"})
        /\ On(p, SignIns, {"reissue"})' <=> On(p, SignIns, {"reissue"})
        /\ On(p, {"email"}, {"doc", "undo"})' <=> On(p, {"email"}, {"doc", "undo"})
    BY <1>1, CreationsAre DEF Grows
  <1>5. \/ q = Idle
        \/ q # Idle /\ q.pc = "undo" /\ p \in Teachers /\ p \in cut'
    BY <1>0, <1>4, EndStep, ProceedStep DEF InviteMails, SameAsk, People
  <1>6. /\ Live(p)' <=> Live(p)
        /\ Told(p)' <=> Told(p)
        /\ accounts'[p] = accounts[p] /\ users'[p] = users[p]
    BY <1>1 DEF Live, Told, signedIn
  <1>7. ~On(p, Creations, {"claim", "save", "undo"})
    BY <1>1 DEF On, IsAt, CreationsInv, IsCreating
  <1>8. BornInv(p)' /\ RoleInv(p)'
    BY <1>1, BornOfCreation, RoleOfCreation DEF PersonInv
  <1>9. PairInv(p)'
    BY <1>3, <1>4, <1>5, <1>6, <1>7 DEF PersonInv, PairInv
  <1>10. ClaimInv(p)'
    BY <1>1, <1>3, <1>4, <1>5, <1>6 DEF PersonInv, ClaimInv
  <1>11. EmailInv(p)'
    BY <1>3, <1>4, <1>5, <1>6 DEF PersonInv, EmailInv, Addresses
  <1> QED
    BY <1>8, <1>9, <1>10, <1>11 DEF PersonInv

\* The account of a creation that failed goes.
LEMMA CreateUndoesKeeps ==
    ASSUME PeopleTypeOK, CreationsInv, NEW k \in Clients, Handle(k), CreateUndoes(k),
           NEW p, p = requests[k].who, PersonInv(p)
    PROVE  PersonInv(p)'
PROOF
  <1> DEFINE r == requests[k]
             q == requests'[k]
  <1>0. RequestsOK /\ accounts \in [People -> Accts]
    BY DEF PeopleTypeOK, StoresOK
  <1>1. r.pc = "undo" /\ UNCHANGED <<users, signedIn, control>> /\ IsCreating(r) /\ End(k)
        /\ accounts' = [accounts EXCEPT ![p] = Account("deleted", "none", NoOne)]
    BY DEF CreateUndoes, IsCreating, Creations
  <1>2. q = Idle
    BY <1>0, <1>1, EndStep
  <1>3. /\ \A pcs : r.pc \in pcs => On(p, Creations, pcs)
        /\ \A pcs : ~On(p, Creations, pcs)'
        /\ \A b : ~CreatedWith(p, b)'
    BY <1>1, <1>2, CreationMoves
  <1>4. /\ Only(k) /\ p \in People
        /\ On(p, Deletions, {"account"})' <=> On(p, Deletions, {"account"})
        /\ On(p, SignIns, {"reissue"})' <=> On(p, SignIns, {"reissue"})
    BY <1>1, CreationsAre
  <1>5. accounts'[p].state = "deleted"
    BY <1>0, <1>1, <1>4 DEF Account
  <1>6. ~Live(p)' /\ users'[p] = users[p] /\ cut' = cut /\ (Told(p)' <=> Told(p))
    BY <1>1, <1>5 DEF Live, Told, signedIn, control
  <1>7. users[p] = NoDoc \/ (p \in Teachers /\ p \in cut)
    BY <1>1, <1>3 DEF PersonInv, PairInv
  <1>8. On(p, SignIns, {"reissue"}) => users[p] = NoDoc
    <2>1. ASSUME users[p] # NoDoc PROVE On(p, SignIns, {"reissue"}) => p \in Students
      BY <1>1, <1>3, <2>1 DEF PersonInv, ClaimInv
    <2> QED
      BY <1>7, <2>1, AccountsAssumption
  <1>9. BornInv(p)' /\ RoleInv(p)'
    BY <1>1, <1>6, BornOfCreation, RoleOfCreation DEF PersonInv
  <1>10. PairInv(p)'
    BY <1>3, <1>4, <1>6, <1>7 DEF PersonInv, PairInv
  <1>11. ClaimInv(p)'
    BY <1>3, <1>4, <1>6, <1>8 DEF PersonInv, ClaimInv
  <1>12. EmailInv(p)'
    BY <1>3, <1>6 DEF EmailInv, Addresses
  <1> QED
    BY <1>9, <1>10, <1>11, <1>12 DEF PersonInv

-----------------------------------------------------------------------------
(* The other requests, and the person they are of *)

LEMMA OwnMoves ==
    ASSUME PeopleTypeOK, CreationsInv, NEW k \in Clients, Handle(k), requests[k].op \notin Migrations \cup Creations,
           NEW p \in People, p = requests[k].who
    PROVE  LET q == requests'[k] IN
           /\ Only(k) /\ Grows /\ CreationStep(k)
           /\ q = Idle \/ (q.op = requests[k].op /\ q.who = p)
           /\ \A pcs : On(p, Creations, pcs)' <=> On(p, Creations, pcs)
           /\ \A a : CreatedWith(p, a)' <=> CreatedWith(p, a)
           /\ \A ops, pcs : requests[k].op \notin ops => (On(p, ops, pcs)' <=> On(p, ops, pcs))
PROOF
  <1> DEFINE r == requests[k]
             q == requests'[k]
  <1>1. Only(k) /\ Grows
    BY HandleSteps DEF PersonStep, RosterStep, Grows
  <1>2. q = Idle \/ (q.op = r.op /\ q.who = p)
    BY OpsStay
  <1>3. \A ops, pcs : r.op \notin ops => (On(p, ops, pcs)' <=> On(p, ops, pcs))
    BY <1>1, <1>2, OtherPlacesStay
  <1>4. ASSUME NEW a PROVE CreatedWith(p, a)' <=> CreatedWith(p, a)
    <2>1. r.op \notin Creations /\ q.op \notin Creations
      BY <1>2, IdleIs DEF Creations
    <2> QED
      BY <1>1, <2>1 DEF CreatedWith, IsAt, Only
  <1> QED
    BY <1>1, <1>2, <1>3, <1>4, CreationSteps

LEMMA BornOfOthers ==
    ASSUME PeopleTypeOK, CreationsInv, NEW k \in Clients, Handle(k), requests[k].op \notin Migrations \cup Creations,
           NEW p \in People, p = requests[k].who, BornInv(p), users[p] = NoDoc => users'[p] = NoDoc
    PROVE  BornInv(p)' /\ accounts[p].state # "new"
PROOF
  <1> DEFINE r == requests[k]
             q == requests'[k]
  <1>1. /\ Only(k) /\ CreationStep(k)
        /\ q = Idle \/ (q.op = r.op /\ q.who = p)
        /\ On(p, Creations, {"create"})' <=> On(p, Creations, {"create"})
    BY OwnMoves
  <1>2. accounts[p].state # "new"
    BY DEF BornInv, IsCreating
  <1>3. accounts'[p].state # "new"
    BY <1>1, <1>2 DEF CreationStep
  <1>4. StillNew(p)' => StillNew(p)
    BY <1>1, CreationsStay DEF PeopleTypeOK
  <1>5. Knows(q, p) => Knows(r, p)
    BY <1>1, IdleIs DEF Knows, Deletions, Migrations
  <1>6. StillNew(p)' => users'[p] = NoDoc /\ \A i \in Clients : ~Knows(requests'[i], p)
    BY <1>1, <1>4, <1>5 DEF BornInv, Only
  <1>7. ~On(p, Creations, {"create"})'
    BY <1>1, <1>2 DEF BornInv
  <1> QED
    BY <1>2, <1>3, <1>6, <1>7 DEF BornInv, Knows, IsCreating

LEMMA RoleOfOthers ==
    ASSUME PeopleTypeOK, CreationsInv, NEW k \in Clients, Handle(k), requests[k].op \notin Migrations \cup Creations,
           NEW p \in People, p = requests[k].who, RoleInv(p),
           users'[p] = NoDoc \/ (users[p] # NoDoc /\ SameView({"role"}, users[p], users'[p]))
    PROVE  RoleInv(p)'
PROOF
  <1>1. Only(k) /\ (requests'[k] = Idle \/ requests'[k].op = requests[k].op)
    BY OwnMoves
  <1>2. requests'[k].op # "roles"
    BY <1>1, IdleIs DEF Migrations
  <1>3. \A i \in Clients :
           requests'[i].op = "roles" /\ requests'[i].pc = "next" /\ p \in requests'[i].arg => p \in Students
    BY <1>1, <1>2 DEF RoleInv, Only
  <1>4. users'[p] # NoDoc => ResolveUserRole(users'[p]) = RoleOf(p)
    BY DEF RoleInv, ResolveUserRole, SameView
  <1> QED
    BY <1>3, <1>4 DEF RoleInv, ResolveUserRole, Has

\* What a request leaves that changes neither address, document nor existence.
LEMMA RestOfOthers ==
    ASSUME PeopleTypeOK, CreationsInv, NEW k \in Clients, Handle(k), requests[k].op \in SignIns,
           NEW p \in People, p = requests[k].who, PersonInv(p),
           users' = users, cut' = cut,
           accounts'[p].state = accounts[p].state, accounts'[p].email = accounts[p].email
    PROVE  BornInv(p)' /\ PairInv(p)' /\ RoleInv(p)' /\ EmailInv(p)'
PROOF
  <1> DEFINE r == requests[k]
             q == requests'[k]
  <1>0. r.op \notin Migrations \cup Creations /\ r.op \notin Deletions /\ r.op # "email" /\ r.op \notin {"email"}
    BY DEF SignIns, Migrations, Creations, Deletions
  <1>1. /\ Only(k) /\ Grows
        /\ q = Idle \/ (q.op = r.op /\ q.who = p)
        /\ \A pcs : On(p, Creations, pcs)' <=> On(p, Creations, pcs)
        /\ \A a : CreatedWith(p, a)' <=> CreatedWith(p, a)
        /\ On(p, Deletions, {"account"})' <=> On(p, Deletions, {"account"})
        /\ On(p, {"email"}, {"doc", "undo"})' <=> On(p, {"email"}, {"doc", "undo"})
    BY <1>0, OwnMoves
  <1>2. BornInv(p)'
    BY <1>0, BornOfOthers DEF PersonInv
  <1>3. RoleInv(p)'
    BY <1>0, RoleOfOthers, SameViewSelf DEF PersonInv
  <1>4. Live(p)' <=> Live(p)
    BY DEF Live
  <1>5. PairInv(p)'
    BY <1>1, <1>4 DEF PersonInv, PairInv
  <1>6. ASSUME NEW a \in Addresses(p), CreatedWith(p, a)' PROVE TurnsInv(p, a)'
    BY <1>0, <1>1, <1>6, TurnsElsewhere DEF PersonInv, EmailInv, Grows
  <1>7. EmailInv(p)'
    BY <1>1, <1>4, <1>6 DEF PersonInv, EmailInv, Addresses, Has
  <1> QED
    BY <1>2, <1>3, <1>5, <1>7

\* A token is delivered with the claim of the account.
LEMMA DeliveredIsTold ==
    ASSUME NEW p, ClaimInv(p), users'[p] = users[p], accounts'[p] = accounts[p], cut' = cut,
           \/ tokens'[p] = tokens[p]
           \/ Live(p) /\ accounts[p].claim # "none" /\ tokens'[p] = accounts[p].claim,
           \A pcs : On(p, Creations, pcs)' <=> On(p, Creations, pcs),
           On(p, SignIns, {"reissue"})' => On(p, SignIns, {"reissue"})
    PROVE  ClaimInv(p)'
PROOF
  <1>1. Live(p)' <=> Live(p)
    BY DEF Live
  <1>2. Told(p) /\ (Live(p) => accounts[p].claim \in {"none", RoleOf(p)}) => Told(p)'
    BY DEF Told
  <1>3. tokens'[p] # tokens[p] => Live(p) /\ accounts[p].claim # "none" /\ tokens'[p] = accounts[p].claim
    OBVIOUS
  <1>4. users[p] # NoDoc => Told(p)'
    BY <1>2 DEF ClaimInv
  <1>5. On(p, Creations, {"save"}) => Told(p)'
    BY <1>2 DEF ClaimInv
  <1>6. On(p, Creations, {"claim"}) => Told(p)' \/ accounts[p].claim \notin {"none", RoleOf(p)}
    <2>1. ASSUME On(p, Creations, {"claim"}), accounts[p].claim = "none" PROVE Told(p)'
      BY <1>3, <2>1 DEF ClaimInv, Told
    <2>2. ASSUME On(p, Creations, {"claim"}), accounts[p].claim = RoleOf(p) PROVE Told(p)'
      BY <1>2, <2>2 DEF ClaimInv
    <2> QED
      BY <2>1, <2>2
  <1>7. /\ On(p, Creations, {"save"})' <=> On(p, Creations, {"save"})
        /\ On(p, Creations, {"claim"})' <=> On(p, Creations, {"claim"})
        /\ On(p, Creations, {"mail", "undo"})' <=> On(p, Creations, {"mail", "undo"})
    OBVIOUS
  <1> QED
    BY <1>1, <1>4, <1>5, <1>6, <1>7 DEF ClaimInv

LEMMA SignInKeeps ==
    ASSUME PeopleTypeOK, CreationsInv, NEW k \in Clients, Handle(k), SignIn(k) \/ LoginResolves(k) \/ LoginReissues(k),
           NEW p, p = requests[k].who, PersonInv(p)
    PROVE  PersonInv(p)'
PROOF
  <1> DEFINE r == requests[k]
             q == requests'[k]
  <1>0. RequestsOK /\ RequestOK(r) /\ tokens = [x \in People |-> tokens[x]] /\ accounts \in [People -> Accts]
    BY DEF PeopleTypeOK, RequestsOK, StoresOK
  <1>1. r.op \in SignIns /\ p \in People
    BY <1>0, AwaitTells, SignInKnows DEF SignIn, LoginResolves, LoginReissues, RequestOK, SignInOK
  <1>2. r.op \notin Migrations \cup Creations
    BY <1>1 DEF SignIns, Migrations, Creations
  <1>3. UNCHANGED <<accounts, users, control>>
    BY DEF SignIn, LoginResolves, LoginReissues, OnlyRequests
  <1>4. q.pc # "reissue"
    <2>1. ASSUME NEW got, Proceed(k, "resolve", got) \/ Proceed(k, "sync", got) PROVE q.pc # "reissue"
      BY <1>0, <2>1, ProceedStep
    <2>2. ASSUME End(k) PROVE q.pc # "reissue"
      BY <1>0, <2>2, EndStep, IdleIs
    <2> QED
      BY <2>1, <2>2 DEF SignIn, LoginResolves, LoginReissues
  <1>5. Only(k) /\ \A pcs : On(p, Creations, pcs)' <=> On(p, Creations, pcs)
    BY <1>1, <1>2, OwnMoves
  <1>6. On(p, SignIns, {"reissue"})' => On(p, SignIns, {"reissue"})
    BY <1>4, <1>5, OnBefore DEF IsAt
  <1>7. \/ tokens'[p] = tokens[p]
        \/ Live(p) /\ accounts[p].claim # "none" /\ tokens'[p] = accounts[p].claim
    <2>1. CASE SignIn(k)
      BY <1>0, <1>1, <2>1 DEF SignIn, Delivered, Issuable, Valid
    <2>2. CASE LoginResolves(k)
      BY <2>2 DEF LoginResolves, OnlyRequests, signedIn
    <2>3. CASE LoginReissues(k)
      <3>1. r.pc = "reissue" /\ tokens' = IF Valid(p) THEN Delivered(p, accounts[p].claim) ELSE tokens
        BY <2>3 DEF LoginReissues
      <3>2. On(p, SignIns, {"reissue"})
        BY <1>1, <3>1 DEF On, IsAt
      <3>3. Live(p) => accounts[p].claim # "none"
        BY <3>2 DEF PersonInv, ClaimInv
      <3> QED
        BY <1>0, <1>1, <3>1, <3>3 DEF Delivered, Valid
    <2> QED
      BY <2>1, <2>2, <2>3
  <1>8. accounts'[p] = accounts[p] /\ users'[p] = users[p] /\ users' = users /\ cut' = cut
    BY <1>3 DEF control
  <1>9. ClaimInv(p)'
    BY <1>5, <1>6, <1>7, <1>8, DeliveredIsTold DEF PersonInv
  <1>10. BornInv(p)' /\ PairInv(p)' /\ RoleInv(p)' /\ EmailInv(p)'
    BY <1>1, <1>8, RestOfOthers
  <1> QED
    BY <1>9, <1>10 DEF PersonInv

\* What a sign-in resolved is claimed, where nothing was: without a document
\* that of a student, before the creation has given its own.
LEMMA LoginClaimsKeeps ==
    ASSUME PeopleTypeOK, CreationsInv, NEW k \in Clients, Handle(k), LoginClaims(k),
           NEW p, p = requests[k].who, p \notin outdated', PersonInv(p)
    PROVE  PersonInv(p)'
PROOF
  <1> DEFINE r == requests[k]
             q == requests'[k]
  <1>0. RequestsOK /\ RequestOK(r) /\ accounts \in [People -> Accts]
    BY DEF PeopleTypeOK, RequestsOK, StoresOK
  <1>1. r.pc = "sync" /\ r.op \in SignIns /\ p \in People /\ r.got \in Roles
    BY <1>0, AwaitTells, SignInKnows DEF LoginClaims, RequestOK, SignInOK
  <1>2. r.op \notin Migrations \cup Creations
    BY <1>1 DEF SignIns, Migrations, Creations
  <1>3. UNCHANGED <<users, signedIn, started, stops, cut>> /\ r.got = ResolveUserRole(users[p]) /\ accounts[p].claim = "none"
    BY DEF LoginClaims, Mark
  <1>4. /\ Only(k) /\ \A pcs : On(p, Creations, pcs)' <=> On(p, Creations, pcs)
    BY <1>1, <1>2, OwnMoves
  <1>5. accounts'[p].state = accounts[p].state /\ accounts'[p].email = accounts[p].email
        /\ accounts'[p].claim = IF Live(p) THEN r.got ELSE accounts[p].claim
    BY <1>0, <1>1 DEF LoginClaims, Accts
  <1>6. BornInv(p)' /\ PairInv(p)' /\ RoleInv(p)' /\ EmailInv(p)'
    BY <1>1, <1>3, <1>5, RestOfOthers
  <1>7. Live(p)' <=> Live(p)
    BY <1>5 DEF Live
  <1>8. Told(p)' <=> Told(p)
    BY <1>3 DEF Told, signedIn
  <1>9. RoleOf(p) # "none" /\ Roles = {"student", "teacher"}
    BY DEF RoleOf, Roles
  <1>10. ~(On(p, Creations, {"save"}) \/ (users[p] # NoDoc /\ On(p, Creations, {"mail", "undo"})))
    BY <1>3, <1>9 DEF PersonInv, ClaimInv
  <1>11. CASE Live(p)
    <2>1. users[p] # NoDoc => r.got = RoleOf(p) /\ Told(p)
      BY <1>3 DEF PersonInv, RoleInv, ClaimInv
    <2>2. On(p, Creations, {"claim"}) => r.got = "student" /\ Told(p)
      <3>1. On(p, Creations, {"claim"}) => StillNew(p)
        BY DEF On, IsAt, StillNew, IsCreating, NotSaved
      <3>2. On(p, Creations, {"claim"}) => users[p] = NoDoc
        BY <3>1 DEF PersonInv, BornInv
      <3> QED
        BY <1>3, <3>2 DEF PersonInv, ClaimInv, ResolveUserRole, Has
    <2>3. accounts'[p].claim = r.got /\ r.got # "none"
      BY <1>1, <1>5, <1>9, <1>11
    <2>4. /\ On(p, Creations, {"save"})' <=> On(p, Creations, {"save"})
          /\ On(p, Creations, {"claim"})' <=> On(p, Creations, {"claim"})
          /\ On(p, Creations, {"mail", "undo"})' <=> On(p, Creations, {"mail", "undo"})
      BY <1>4
    <2>5. ClaimInv(p)'
      BY <1>3, <1>7, <1>8, <1>10, <1>11, <2>1, <2>2, <2>3, <2>4 DEF ClaimInv
    <2> QED
      BY <1>6, <2>5 DEF PersonInv
  <1>12. CASE ~Live(p)
    <2>1. q = Idle
      BY <1>0, <1>12, EndStep DEF LoginClaims
    <2>2. On(p, SignIns, {"reissue"})' => On(p, SignIns, {"reissue"})
      BY <1>4, <2>1, IdleIs, OnBefore DEF IsAt
    <2>3. accounts'[p] = accounts[p]
      BY <1>12 DEF LoginClaims
    <2>4. ClaimInv(p)'
      BY <1>3, <1>4, <2>2, <2>3, DeliveredIsTold DEF PersonInv, signedIn
    <2> QED
      BY <1>6, <2>4 DEF PersonInv
  <1> QED
    BY <1>11, <1>12

-----------------------------------------------------------------------------
(* Deletions *)

\* The account is the last to go, when the document is gone.
LEMMA DeletionKeeps ==
    ASSUME PeopleTypeOK, CreationsInv, NEW k \in Clients, Handle(k),
           DeleteInviteReads(k) \/ DeleteInviteReadsStudents(k) \/ DeleteDoc(k) \/ DeleteAccount(k),
           NEW p, p = requests[k].who, PersonInv(p)
    PROVE  PersonInv(p)'
PROOF
  <1> DEFINE r == requests[k]
             q == requests'[k]
  <1>0. RequestsOK /\ RequestOK(r) /\ accounts \in [People -> Accts] /\ users \in [People -> Docs \cup {NoDoc}]
    BY DEF PeopleTypeOK, RequestsOK, StoresOK
  <1>1. r.op \in Deletions
    BY DEF DeleteInviteReads, DeleteInviteReadsStudents, DeleteDoc, DeleteAccount, At, Deletions
  <1>2. p \in People
    BY <1>0, <1>1, DeletionKnows DEF RequestOK, DeletionOK
  <1>3. r.op \notin Migrations \cup Creations /\ r.op \notin SignIns /\ r.op \notin {"email"} /\ r.op # "email"
    BY <1>1 DEF SignIns, Migrations, Creations, Deletions
  <1>4. /\ Only(k) /\ Grows
        /\ q = Idle \/ (q.op = r.op /\ q.who = p)
        /\ \A pcs : On(p, Creations, pcs)' <=> On(p, Creations, pcs)
        /\ \A a : CreatedWith(p, a)' <=> CreatedWith(p, a)
        /\ On(p, SignIns, {"reissue"})' <=> On(p, SignIns, {"reissue"})
        /\ On(p, {"email"}, {"doc", "undo"})' <=> On(p, {"email"}, {"doc", "undo"})
    BY <1>2, <1>3, OwnMoves
  <1>5. /\ signedIn' = signedIn /\ cut' = cut
        /\ users'[p] = NoDoc \/ users'[p] = users[p]
        /\ accounts'[p] = accounts[p] \/ DeleteAccount(k)
    BY <1>0, <1>2 DEF DeleteInviteReads, DeleteInviteReadsStudents, DeleteDoc, DeleteAccount, OnlyRequests, control
  <1>6. BornInv(p)' /\ RoleInv(p)'
    BY <1>2, <1>3, <1>5, BornOfOthers, RoleOfOthers, SameViewSelf DEF PersonInv
  <1>7. ~StillNew(p)
    BY <1>1 DEF PersonInv, BornInv, Knows
  <1>8. ~On(p, Creations, {"claim"}) /\ ~On(p, Creations, {"save"}) /\ \A a : ~CreatedWith(p, a)
    BY <1>7 DEF On, IsAt, CreatedWith, StillNew, IsCreating, NotSaved
  <1>9. Told(p)' <=> Told(p)
    BY <1>5 DEF Told, signedIn
  <1>10. \A a : ~CreatedWith(p, a)'
    BY <1>4, <1>8
  <1>11. CASE DeleteInviteReads(k) \/ DeleteInviteReadsStudents(k)
    <2>1. q.pc # "account" /\ users'[p] = users[p] /\ accounts'[p] = accounts[p]
      BY <1>0, <1>11, ProceedStep, EndStep, IdleIs DEF DeleteInviteReads, DeleteInviteReadsStudents, OnlyRequests
    <2>2. r.pc # "account"
      BY <1>11 DEF DeleteInviteReads, DeleteInviteReadsStudents, At
    <2>3. On(p, Deletions, {"account"})' <=> On(p, Deletions, {"account"})
      BY <1>4, <2>1, <2>2, OnBefore, OnAfter DEF IsAt
    <2>4. Live(p)' <=> Live(p)
      BY <2>1 DEF Live
    <2>5. PairInv(p)'
      BY <1>4, <1>5, <2>1, <2>3, <2>4 DEF PersonInv, PairInv
    <2>6. ClaimInv(p)'
      BY <1>4, <1>5, <1>9, <2>1, <2>4 DEF PersonInv, ClaimInv
    <2>7. EmailInv(p)'
      BY <1>4, <1>5, <1>10, <2>1, <2>4 DEF PersonInv, EmailInv, Addresses, Has
    <2> QED
      BY <1>6, <2>5, <2>6, <2>7 DEF PersonInv
  <1>12. CASE DeleteDoc(k)
    <2>1. q.pc = "account" /\ q.op \in Deletions /\ q.who = p
      BY <1>0, <1>1, <1>12, ProceedStep DEF DeleteDoc, SameAsk
    <2>2. users'[p] = NoDoc /\ accounts'[p] = accounts[p]
      BY <1>0, <1>2, <1>12 DEF DeleteDoc
    <2>3. On(p, Deletions, {"account"})'
      BY <2>1 DEF On, IsAt
    <2>4. Live(p)' <=> Live(p)
      BY <2>2 DEF Live
    <2>5. PairInv(p)'
      BY <2>2, <2>3 DEF PairInv
    <2>6. ClaimInv(p)'
      BY <1>4, <1>8, <2>2, <2>4 DEF PersonInv, ClaimInv
    <2>7. EmailInv(p)'
      BY <1>10, <2>2 DEF EmailInv, Addresses, Has
    <2> QED
      BY <1>6, <2>5, <2>6, <2>7 DEF PersonInv
  <1>13. CASE DeleteAccount(k)
    <2>1. r.pc = "account" /\ accounts' = [accounts EXCEPT ![p] = Account("deleted", "none", NoOne)] /\ users' = users
      BY <1>13 DEF DeleteAccount, AccountDeleted
    <2>2. accounts'[p].state = "deleted"
      BY <1>0, <1>2, <2>1 DEF Account
    <2>3. ~Live(p)'
      BY <2>2 DEF Live
    <2>4. On(p, Deletions, {"account"})
      BY <1>1, <2>1 DEF On, IsAt
    <2>5. users'[p] = NoDoc
      BY <2>1, <2>4 DEF PersonInv, PairInv
    <2>6. PairInv(p)'
      BY <2>3, <2>5 DEF PairInv
    <2>7. ClaimInv(p)'
      BY <1>4, <1>8, <2>3, <2>5 DEF ClaimInv
    <2>8. EmailInv(p)'
      BY <1>10, <2>5 DEF EmailInv, Addresses, Has
    <2> QED
      BY <1>6, <2>6, <2>7, <2>8 DEF PersonInv
  <1> QED
    BY <1>11, <1>12, <1>13

-----------------------------------------------------------------------------
(* A change of address *)

\* A request that ends where nothing is half done, or is cut.
LEMMA EndGoesOn ==
    ASSUME NEW r, NEW p \in People, ~Open(r, p) \/ p \in cut'
    PROVE  GoesOn(r, Idle, p)
PROOF
  <1>1. Idle.who # p /\ Idle.op = "none"
    BY IdleIs, AccountsAssumption
  <1> QED
    BY <1>1 DEF GoesOn, Knows, Watched, Open, IsAt, Migrations

LEMMA UnwrittenStays ==
    ASSUME PeopleTypeOK, CreationsInv, NEW k \in Clients, Handle(k) \/ Asks(k) \/ Stop(k),
           NEW p \in People, PersonInv(p), UNCHANGED <<accounts, users, signedIn>>,
           GoesOn(requests[k], requests'[k], p)
    PROVE  PersonInv(p)'
PROOF
  <1>1. Only(k) /\ Grows /\ CreationStep(k)
    BY AskSteps, HandleSteps, StopSteps, CreationSteps DEF PersonStep, RosterStep, Grows
  <1>2. StillNew(p)' => StillNew(p)
    BY <1>1, CreationsStay DEF PeopleTypeOK
  <1>3. SameStores(p)
    BY SameViewSelf DEF SameStores, signedIn
  <1> QED
    BY <1>1, <1>2, <1>3, PersonStays DEF Stays

\* What a change of address leaves: existence, role and claim.
LEMMA RestOfEmail ==
    ASSUME PeopleTypeOK, CreationsInv, NEW k \in Clients, Handle(k), requests[k].op = "email",
           NEW p \in People, p = requests[k].who, PersonInv(p), cut' = cut, signedIn' = signedIn,
           users'[p] = users[p] \/ (users[p] # NoDoc /\ users'[p] # NoDoc /\ SameView({"role"}, users[p], users'[p])),
           accounts'[p].state = accounts[p].state, accounts'[p].claim = accounts[p].claim
    PROVE  BornInv(p)' /\ PairInv(p)' /\ RoleInv(p)' /\ ClaimInv(p)'
PROOF
  <1> DEFINE r == requests[k]
  <1>0. r.op \notin Migrations \cup Creations /\ r.op \notin Deletions /\ r.op \notin SignIns
    BY DEF SignIns, Migrations, Creations, Deletions
  <1>1. /\ \A pcs : On(p, Creations, pcs)' <=> On(p, Creations, pcs)
        /\ On(p, Deletions, {"account"})' <=> On(p, Deletions, {"account"})
        /\ On(p, SignIns, {"reissue"})' <=> On(p, SignIns, {"reissue"})
    BY <1>0, OwnMoves
  <1>2. BornInv(p)'
    BY <1>0, BornOfOthers DEF PersonInv
  <1>3. RoleInv(p)'
    BY <1>0, RoleOfOthers, SameViewSelf DEF PersonInv
  <1>4. (Live(p)' <=> Live(p)) /\ (Told(p)' <=> Told(p)) /\ (users'[p] = NoDoc <=> users[p] = NoDoc)
    BY DEF Live, Told, signedIn
  <1>5. PairInv(p)'
    BY <1>1, <1>4 DEF PersonInv, PairInv
  <1>6. /\ On(p, Creations, {"save"})' <=> On(p, Creations, {"save"})
        /\ On(p, Creations, {"claim"})' <=> On(p, Creations, {"claim"})
        /\ On(p, Creations, {"mail", "undo"})' <=> On(p, Creations, {"mail", "undo"})
    BY <1>1
  <1>7. ClaimInv(p)'
    BY <1>1, <1>4, <1>6 DEF PersonInv, ClaimInv
  <1> QED
    BY <1>2, <1>3, <1>5, <1>7

\* The other address, of two.
LEMMA OtherIs ==
    ASSUME NEW p \in People, NEW a \in Addresses(p)
    PROVE  /\ Other(p, a) \in Addresses(p) /\ Other(p, a) # a /\ Other(p, Other(p, a)) = a
           /\ \A b \in Addresses(p) : b = a \/ b = Other(p, a)
PROOF BY AccountsAssumption DEF Other, Addresses

\* The account takes the address, and one more change leads to it.
LEMMA TurnTaken ==
    ASSUME NEW k \in Clients, Only(k), NEW p \in People, NEW a \in Addresses(p), NEW arg \in Addresses(p),
           IsAt(requests[k], p, {"email"}, {"account"}), requests[k].arg = arg,
           IsAt(requests'[k], p, {"email"}, {"doc"}), requests'[k].arg = arg, requests'[k].got = requests[k].got,
           accounts[p].email # arg, accounts'[p].email = arg, cut' = cut, TurnsInv(p, a)
    PROVE  TurnsInv(p, a)'
PROOF
  <1> DEFINE o == Other(p, a)
             A == Toward(p, a)
             B == Toward(p, o)
  <1>1. \A i \in Clients \ {k} : requests'[i] = requests[i]
    BY DEF Only
  <1>2. \A b : Toward(p, b)' = IF b = arg THEN Toward(p, b) \cup {k} ELSE Toward(p, b)
    BY <1>1 DEF Toward, IsAt
  <1>3. \A b : k \notin Toward(p, b)
    BY DEF Toward, IsAt
  <1>4. o # a /\ (arg = a \/ arg = o) /\ accounts[p].email \in {a, o} /\ o \in Addresses(p)
    BY OtherIs DEF TurnsInv
  <1>5. \A i \in Clients : requests'[i].who = p /\ requests'[i].op = "email" =>
           requests'[i].got = Other(p, requests'[i].arg)
    BY <1>1 DEF TurnsInv, IsAt
  <1>6. ASSUME p \notin cut
        PROVE  /\ IsFiniteSet(A') /\ IsFiniteSet(B')
               /\ Cardinality(B') = Cardinality(A') + (IF accounts'[p].email = a THEN 0 ELSE 1)
    <2>1. IsFiniteSet(A) /\ IsFiniteSet(B) /\ Cardinality(B) = Cardinality(A) + (IF accounts[p].email = a THEN 0 ELSE 1)
      BY <1>6 DEF TurnsInv
    <2>2. k \notin A /\ k \notin B
      BY <1>3
    <2>3. A' = (IF arg = a THEN A \cup {k} ELSE A) /\ B' = (IF arg = o THEN B \cup {k} ELSE B)
      BY <1>2
    <2> HIDE DEF A, B
    <2>4. Cardinality(A) \in Nat /\ Cardinality(B) \in Nat
      BY <2>1, FS_CardinalityType
    <2>5. /\ IsFiniteSet(A \cup {k}) /\ Cardinality(A \cup {k}) = Cardinality(A) + 1
          /\ IsFiniteSet(B \cup {k}) /\ Cardinality(B \cup {k}) = Cardinality(B) + 1
      BY <2>1, <2>2, FS_AddElement
    <2>6. CASE arg = a
      BY <1>4, <2>1, <2>3, <2>4, <2>5, <2>6
    <2>7. CASE arg = o
      BY <1>4, <2>1, <2>3, <2>4, <2>5, <2>7
    <2> QED
      BY <1>4, <2>6, <2>7
  <1> QED
    BY <1>5, <1>6 DEF TurnsInv, Other, Addresses

\* The account gives the address back, and one change less leads to it.
LEMMA TurnUndone ==
    ASSUME NEW k \in Clients, Only(k), NEW p \in People, NEW a \in Addresses(p), NEW arg \in Addresses(p),
           IsAt(requests[k], p, {"email"}, {"undo"}), requests[k].arg = arg, requests'[k] = Idle,
           accounts[p].email = arg, accounts'[p].email = requests[k].got, cut' = cut, TurnsInv(p, a)
    PROVE  TurnsInv(p, a)'
PROOF
  <1> DEFINE o == Other(p, a)
             A == Toward(p, a)
             B == Toward(p, o)
  <1>0. requests'[k].op = "none" /\ requests[k].op = "email" /\ requests[k].who = p
    BY IdleIs DEF IsAt
  <1>1. \A i \in Clients \ {k} : requests'[i] = requests[i]
    BY DEF Only
  <1>2. \A b : Toward(p, b)' = IF b = arg THEN Toward(p, b) \ {k} ELSE Toward(p, b)
    BY <1>0, <1>1 DEF Toward, IsAt
  <1>3. k \in Toward(p, arg)
    BY DEF Toward, IsAt
  <1>4. o # a /\ (arg = a \/ arg = o) /\ accounts[p].email \in {a, o} /\ o \in Addresses(p) /\ Other(p, o) = a
    BY OtherIs DEF TurnsInv
  <1>5. accounts'[p].email = Other(p, arg) /\ accounts'[p].email \in Addresses(p)
    BY <1>0, <1>4 DEF TurnsInv
  <1>6. \A i \in Clients : requests'[i].who = p /\ requests'[i].op = "email" =>
           requests'[i].got = Other(p, requests'[i].arg)
    BY <1>0, <1>1 DEF TurnsInv
  <1>7. ASSUME p \notin cut
        PROVE  /\ IsFiniteSet(A') /\ IsFiniteSet(B')
               /\ Cardinality(B') = Cardinality(A') + (IF accounts'[p].email = a THEN 0 ELSE 1)
    <2>1. IsFiniteSet(A) /\ IsFiniteSet(B) /\ Cardinality(B) = Cardinality(A) + (IF accounts[p].email = a THEN 0 ELSE 1)
      BY <1>7 DEF TurnsInv
    <2>2. (arg = a => k \in A) /\ (arg = o => k \in B)
      BY <1>3
    <2>3. A' = (IF arg = a THEN A \ {k} ELSE A) /\ B' = (IF arg = o THEN B \ {k} ELSE B)
      BY <1>2
    <2> HIDE DEF A, B
    <2>4. Cardinality(A) \in Nat /\ Cardinality(B) \in Nat
      BY <2>1, FS_CardinalityType
    <2>5. /\ IsFiniteSet(A \ {k}) /\ Cardinality(A \ {k}) = IF k \in A THEN Cardinality(A) - 1 ELSE Cardinality(A)
          /\ IsFiniteSet(B \ {k}) /\ Cardinality(B \ {k}) = IF k \in B THEN Cardinality(B) - 1 ELSE Cardinality(B)
      BY <2>1, FS_RemoveElement
    <2>6. CASE arg = a
      BY <1>4, <1>5, <2>1, <2>2, <2>3, <2>4, <2>5, <2>6
    <2>7. CASE arg = o
      BY <1>4, <1>5, <2>1, <2>2, <2>3, <2>4, <2>5, <2>7
    <2> QED
      BY <1>4, <2>6, <2>7
  <1> QED
    BY <1>5, <1>6, <1>7 DEF TurnsInv, Other, Addresses

LEMMA EmailChangesAccountKeeps ==
    ASSUME PeopleTypeOK, CreationsInv, NEW k \in Clients, Handle(k), EmailChangesAccount(k),
           NEW p, p = requests[k].who, PersonInv(p)
    PROVE  PersonInv(p)'
PROOF
  <1> DEFINE r == requests[k]
             q == requests'[k]
  <1>0. RequestsOK /\ RequestOK(r) /\ accounts \in [People -> Accts]
    BY DEF PeopleTypeOK, RequestsOK, StoresOK
  <1>1. r.op = "email" /\ r.pc = "account" /\ UNCHANGED <<users, signedIn, control>>
    BY DEF EmailChangesAccount, At
  <1>2. p \in People /\ r.arg \in Addresses(p)
    BY <1>0, <1>1, EmailKnows DEF RequestOK, EmailOK
  <1>3. CASE UNCHANGED accounts /\ End(k)
    <2>1. q = Idle
      BY <1>0, <1>3, EndStep
    <2>2. ~Open(r, p)
      BY <1>1 DEF Open, IsAt, Creations, Deletions
    <2> QED
      BY <1>1, <1>2, <1>3, <2>1, <2>2, EndGoesOn, UnwrittenStays
  <1>4. CASE /\ Live(p) /\ ~Taken(r.arg) /\ Proceed(k, "doc", r.got)
             /\ accounts' = [accounts EXCEPT ![p].email = r.arg]
    <2>1. accounts'[p].state = accounts[p].state /\ accounts'[p].claim = accounts[p].claim
          /\ accounts'[p].email = r.arg /\ users' = users /\ cut' = cut
      BY <1>0, <1>1, <1>2, <1>4 DEF Accts, control
    <2>2. BornInv(p)' /\ PairInv(p)' /\ RoleInv(p)' /\ ClaimInv(p)'
      BY <1>1, <1>2, <2>1, RestOfEmail
    <2>3. accounts[p].email # r.arg
      BY <1>2, <1>4 DEF Taken
    <2>4. IsAt(q, p, {"email"}, {"doc"}) /\ q.arg = r.arg /\ q.got = r.got
      BY <1>0, <1>1, <1>4, ProceedStep DEF IsAt, SameAsk
    <2>5. IsAt(r, p, {"email"}, {"account"})
      BY <1>1 DEF IsAt
    <2>6. Only(k) /\ \A a : CreatedWith(p, a)' <=> CreatedWith(p, a)
      <3>1. r.op \notin Migrations \cup Creations
        BY <1>1 DEF Migrations, Creations
      <3> QED
        BY <1>2, <3>1, OwnMoves
    <2>7. ASSUME NEW a \in Addresses(p), CreatedWith(p, a)' PROVE TurnsInv(p, a)'
      <3>1. TurnsInv(p, a)
        BY <2>6, <2>7 DEF PersonInv, EmailInv
      <3> QED
        BY <1>2, <2>1, <2>3, <2>4, <2>5, <2>6, <3>1, TurnTaken
    <2>8. On(p, {"email"}, {"doc", "undo"})'
      BY <2>4 DEF On, IsAt
    <2>9. EmailInv(p)'
      BY <2>7, <2>8 DEF EmailInv, Addresses
    <2> QED
      BY <2>2, <2>9 DEF PersonInv
  <1> QED
    BY <1>1, <1>3, <1>4 DEF EmailChangesAccount

\* The document takes the address of the account.
LEMMA EmailChangesDocumentKeeps ==
    ASSUME PeopleTypeOK, CreationsInv, NEW k \in Clients, Handle(k), EmailChangesDocument(k),
           NEW p, p = requests[k].who, p \notin outdated', PersonInv(p)
    PROVE  PersonInv(p)'
PROOF
  <1> DEFINE r == requests[k]
             q == requests'[k]
             patch == [email |-> r.arg]
  <1>0. RequestsOK /\ RequestOK(r) /\ users \in [People -> Docs \cup {NoDoc}]
    BY DEF PeopleTypeOK, RequestsOK, StoresOK
  <1>1. r.op = "email" /\ r.pc = "doc" /\ UNCHANGED <<accounts, signedIn, started, cut>>
    BY DEF EmailChangesDocument, At
  <1>2. p \in People /\ r.arg \in Addresses(p)
    BY <1>0, <1>1, EmailKnows DEF RequestOK, EmailOK
  <1>3. CASE UNCHANGED users /\ Proceed(k, "undo", r.got)
    <2>1. q.op = "email" /\ q.who = p /\ q.arg = r.arg /\ q.pc = "undo" /\ q.got = r.got
      BY <1>0, <1>1, <1>3, ProceedStep DEF SameAsk
    <2>2. SamePlace(q, r)
      BY <1>1, <2>1 DEF SamePlace
    <2>3. GoesOn(r, q, p)
      <3>1. ~Knows(q, p) /\ ~IsCreating(r) /\ ~IsAt(q, p, Creations, {"create"}) /\ q.op # "roles"
        BY <1>1, <2>1 DEF Knows, IsCreating, IsAt, Creations, Deletions, Migrations
      <3> QED
        BY <1>1, <2>1, <2>2, <3>1 DEF GoesOn
    <2> QED
      BY <1>1, <1>2, <1>3, <2>3, UnwrittenStays
  <1>4. CASE /\ users' = [users EXCEPT ![p] = Merge(@, patch)] /\ End(k)
             /\ Mark({p}, users[p] # NoDoc /\ accounts[p].email = r.arg)
    <2>1. users[p] # NoDoc /\ accounts[p].email = r.arg
      BY <1>4 DEF Mark
    <2>2. r.arg \in Emails /\ patch \in Docs
      <3>1. r.arg \in Emails
        BY <1>2 DEF Addresses, Emails
      <3> QED
        BY <3>1, PatchIsDoc
    <2>3. users[p] \in Docs /\ users'[p] = Merge(users[p], patch)
      BY <1>0, <1>2, <1>4, <2>1
    <2>4. users'[p] \in Docs /\ users'[p] # NoDoc
      BY <2>2, <2>3, MergeIsDoc, NoDocIsNone
    <2>5. SameView({"role"}, users[p], users'[p])
      <3>1. DOMAIN patch \cap {"role"} = {}
        OBVIOUS
      <3> HIDE DEF patch
      <3> QED
        BY <2>2, <2>3, <3>1, PatchView
    <2>6. users'[p]["email"] = r.arg
      <3>1. DOMAIN patch = {"email"} /\ patch["email"] = r.arg
        OBVIOUS
      <3> HIDE DEF patch
      <3> QED
        BY <2>1, <2>3, <3>1 DEF Merge
    <2>7. BornInv(p)' /\ PairInv(p)' /\ RoleInv(p)' /\ ClaimInv(p)'
      BY <1>1, <1>2, <2>1, <2>4, <2>5, RestOfEmail
    <2>8. ~StillNew(p)
      BY <2>1 DEF PersonInv, BornInv
    <2>9. \A a : ~CreatedWith(p, a)'
      <3>1. r.op \notin Migrations \cup Creations
        BY <1>1 DEF Migrations, Creations
      <3>2. \A a : CreatedWith(p, a)' <=> CreatedWith(p, a)
        BY <1>2, <3>1, OwnMoves
      <3>3. \A a : ~CreatedWith(p, a)
        BY <2>8 DEF CreatedWith, IsAt, StillNew, IsCreating, NotSaved
      <3> QED
        BY <3>2, <3>3
    <2>10. EmailInv(p)'
      BY <1>1, <2>1, <2>6, <2>9 DEF EmailInv, Addresses
    <2> QED
      BY <2>7, <2>10 DEF PersonInv
  <1> QED
    BY <1>3, <1>4 DEF EmailChangesDocument

\* The account goes back to the address of the document, or both are left apart.
LEMMA EmailUndoesKeeps ==
    ASSUME PeopleTypeOK, CreationsInv, NEW k \in Clients, Handle(k), EmailUndoes(k),
           NEW p, p = requests[k].who, p \notin outdated', PersonInv(p)
    PROVE  PersonInv(p)'
PROOF
  <1> DEFINE r == requests[k]
             q == requests'[k]
  <1>0. RequestsOK /\ RequestOK(r) /\ accounts \in [People -> Accts]
    BY DEF PeopleTypeOK, RequestsOK, StoresOK
  <1>1. r.op = "email" /\ r.pc = "undo" /\ UNCHANGED <<users, signedIn, started, stops>> /\ End(k)
    BY DEF EmailUndoes, At
  <1>2. p \in People /\ r.arg \in Addresses(p)
    BY <1>0, <1>1, EmailKnows DEF RequestOK, EmailOK
  <1>3. q = Idle
    BY <1>0, <1>1, EndStep
  <1>4. accounts[p].email = r.arg /\ (Has(users[p], "email") => users[p]["email"] = r.got)
    BY DEF EmailUndoes, Mark
  <1>5. CASE UNCHANGED accounts /\ cut' = cut \cup {p}
    BY <1>1, <1>2, <1>3, <1>5, EndGoesOn, UnwrittenStays
  <1>6. CASE Live(p) /\ accounts' = [accounts EXCEPT ![p] = EmailRestored(@, r.got)] /\ cut' = cut
    <2>1. accounts'[p].state = accounts[p].state /\ accounts'[p].claim = accounts[p].claim
          /\ accounts'[p].email = r.got
      BY <1>0, <1>2, <1>6 DEF Accts, EmailRestored
    <2>2. BornInv(p)' /\ PairInv(p)' /\ RoleInv(p)' /\ ClaimInv(p)'
      BY <1>1, <1>2, <1>6, <2>1, RestOfEmail
    <2>3. Only(k) /\ \A a : CreatedWith(p, a)' <=> CreatedWith(p, a)
      <3>1. r.op \notin Migrations \cup Creations
        BY <1>1 DEF Migrations, Creations
      <3> QED
        BY <1>2, <3>1, OwnMoves
    <2>4. ASSUME NEW a \in Addresses(p), CreatedWith(p, a)' PROVE TurnsInv(p, a)'
      <3>1. TurnsInv(p, a)
        BY <2>3, <2>4 DEF PersonInv, EmailInv
      <3>2. IsAt(r, p, {"email"}, {"undo"})
        BY <1>1 DEF IsAt
      <3> QED
        BY <1>2, <1>3, <1>4, <1>6, <2>1, <2>3, <3>1, <3>2, TurnUndone
    <2>5. EmailInv(p)'
      BY <1>1, <1>4, <2>1, <2>4 DEF EmailInv, Addresses, Has
    <2> QED
      BY <2>2, <2>5 DEF PersonInv
  <1> QED
    BY <1>5, <1>6 DEF EmailUndoes

-----------------------------------------------------------------------------
(* The migrations *)

\* Who is known of, or has a document, was created.
LEMMA KnownIsBorn ==
    ASSUME NEW p, BornInv(p), users[p] # NoDoc \/ \E i \in Clients : Knows(requests[i], p)
    PROVE  ~StillNew(p) /\ accounts[p].state # "new"
PROOF BY DEF BornInv, StillNew

LEMMA MigrationGoesOn ==
    ASSUME PeopleTypeOK, NEW k \in Clients, OfMigration(k), NEW p \in People, PersonInv(p)
    PROVE  GoesOn(requests[k], requests'[k], p)
PROOF
  <1> DEFINE r == requests[k]
             q == requests'[k]
  <1>0. p # NoOne
    BY AccountsAssumption
  <1>1. MigrationStep(k) /\ RequestOK(r)
    BY MigrationMoves DEF OfMigration, PeopleTypeOK, RequestsOK
  <1>2. r.op \in Migrations /\ MigrationOK(r)
    BY <1>1, MigrationKnows DEF MigrationStep, RequestOK
  <1>3. ~Open(r, p)
    BY <1>2 DEF Open, IsAt, Creations, Deletions, Migrations
  <1>4. CASE q = Idle
    BY <1>3, <1>4, EndGoesOn
  <1>5. CASE q # Idle
    <2>1. q.op = r.op /\ q.pc = "next"
      BY <1>1, <1>5 DEF MigrationStep
    <2>2. ~Watched(q, p) /\ q.op \notin Creations /\ q.op # "email" /\ q.op \notin Deletions
      BY <1>2, <2>1 DEF Watched, Open, IsAt, Creations, Deletions, SignIns, Migrations
    <2>3. ASSUME r.pc = "list", q.who = NoOne, q.got = [x \in {y \in People : users[y] # NoDoc} |-> users[x]],
                 q.arg = {x \in DOMAIN q.got : ~Has(q.got[x], "role")}
          PROVE  GoesOn(r, q, p)
      <3>1. DOMAIN q.got = {y \in People : users[y] # NoDoc} /\ (p \in DOMAIN q.got => q.got[p] = users[p])
        BY <2>3
      <3>2. p \in q.arg => users[p] # NoDoc /\ ~Has(users[p], "role")
        BY <2>3, <3>1
      <3>3. p \in q.arg => p \in Students
        BY <3>2 DEF PersonInv, RoleInv, ResolveUserRole, RoleOf
      <3>4. Knows(q, p) => users[p] # NoDoc
        BY <2>2, <3>1 DEF Knows
      <3> QED
        BY <1>0, <1>3, <2>2, <2>3, <3>3, <3>4 DEF GoesOn, IsAt
    <2>4. ASSUME r.pc = "next", q.arg = r.arg,
                 \/ r.who = NoOne /\ q.who \in DOMAIN r.got /\ q.got = r.got
                 \/ q.who = NoOne /\ \E x \in People : q.got = Left(k, x)
          PROVE  GoesOn(r, q, p)
      <3>1. \A x \in People : DOMAIN Left(k, x) \subseteq DOMAIN r.got
        BY DEF Left
      <3>2. DOMAIN q.got \subseteq DOMAIN r.got
        BY <2>4, <3>1
      <3>3. Knows(q, p) => Knows(r, p)
        BY <1>2, <2>1, <2>2, <2>4, <3>2 DEF Knows
      <3>4. q.who = p => Knows(r, p)
        BY <1>0, <1>2, <2>4 DEF Knows
      <3>5. q.who = p => accounts[p].state # "new"
        BY <3>4, KnownIsBorn DEF PersonInv
      <3> QED
        BY <1>3, <2>1, <2>2, <2>4, <3>3, <3>5 DEF GoesOn, IsAt
    <2> QED
      BY <1>1, <1>5, <2>3, <2>4 DEF MigrationStep
  <1> QED
    BY <1>4, <1>5

\* The person whose account and document a migration leaves.
LEMMA MigrationStays ==
    ASSUME PeopleTypeOK, CreationsInv, NEW k \in Clients, Handle(k), OfMigration(k), NEW p \in People,
           PersonInv(p), SameStores(p)
    PROVE  PersonInv(p)'
PROOF
  <1>1. Only(k) /\ Grows /\ CreationStep(k)
    BY HandleSteps, CreationSteps DEF PersonStep, RosterStep, Grows
  <1>2. StillNew(p)' => StillNew(p)
    BY <1>1, CreationsStay DEF PeopleTypeOK
  <1> QED
    BY <1>1, <1>2, MigrationGoesOn, PersonStays DEF Stays

LEMMA MigrationPlaces ==
    ASSUME PeopleTypeOK, NEW k \in Clients, Handle(k), OfMigration(k), NEW p \in People
    PROVE  /\ Only(k) /\ Grows /\ CreationStep(k)
           /\ requests[k].op # "email" /\ (requests'[k] = Idle \/ requests'[k].op = requests[k].op)
           /\ \A pcs : On(p, Creations, pcs)' <=> On(p, Creations, pcs)
           /\ On(p, Deletions, {"account"})' <=> On(p, Deletions, {"account"})
           /\ On(p, SignIns, {"reissue"})' <=> On(p, SignIns, {"reissue"})
           /\ On(p, {"email"}, {"doc", "undo"})' <=> On(p, {"email"}, {"doc", "undo"})
           /\ \A a : CreatedWith(p, a)' <=> CreatedWith(p, a)
PROOF
  <1> DEFINE r == requests[k]
             q == requests'[k]
  <1>1. Only(k) /\ Grows /\ CreationStep(k)
    BY HandleSteps, CreationSteps DEF PersonStep, RosterStep, Grows
  <1>2. r.op \in Migrations /\ (q = Idle \/ q.op = r.op)
    BY MigrationMoves DEF OfMigration, MigrationStep
  <1>3. r.op \notin Creations /\ r.op \notin Deletions /\ r.op \notin SignIns /\ r.op \notin {"email"}
    BY <1>2 DEF Creations, Deletions, SignIns, Migrations
  <1>4. ASSUME NEW a PROVE CreatedWith(p, a)' <=> CreatedWith(p, a)
    <2>1. r.op \notin Creations /\ q.op \notin Creations
      BY <1>2, <1>3, IdleIs DEF Creations
    <2> QED
      BY <1>1, <2>1 DEF CreatedWith, IsAt, Only
  <1> QED
    BY <1>1, <1>2, <1>3, <1>4, OtherPlacesStay

\* What a migration leaves of the person whose account or document it writes.
LEMMA RestOfMigration ==
    ASSUME PeopleTypeOK, CreationsInv, NEW k \in Clients, Handle(k), OfMigration(k), NEW p \in People,
           PersonInv(p), UNCHANGED signedIn, users'[p] = NoDoc <=> users[p] = NoDoc,
           accounts[p].state # "new",
           users'[p] # NoDoc => ResolveUserRole(users'[p]) = RoleOf(p)
    PROVE  BornInv(p)' /\ RoleInv(p)'
PROOF
  <1> DEFINE r == requests[k]
             q == requests'[k]
  <1>1. Only(k) /\ CreationStep(k) /\ (On(p, Creations, {"create"})' <=> On(p, Creations, {"create"}))
    BY MigrationPlaces
  <1>2. StillNew(p)' => StillNew(p)
    BY <1>1, CreationsStay DEF PeopleTypeOK
  <1>3. accounts'[p].state # "new"
    BY <1>1 DEF CreationStep
  <1>4. /\ Knows(q, p) => Knows(r, p) \/ users[p] # NoDoc
        /\ q.op = "roles" /\ q.pc = "next" /\ p \in q.arg =>
              (r.op = "roles" /\ r.pc = "next" /\ p \in r.arg) \/ p \in Students
    BY MigrationGoesOn DEF GoesOn
  <1>5. StillNew(p)' => users'[p] = NoDoc /\ \A i \in Clients : ~Knows(requests'[i], p)
    BY <1>1, <1>2, <1>4 DEF PersonInv, BornInv, Only
  <1>6. ~On(p, Creations, {"create"})'
    BY <1>1 DEF PersonInv, BornInv
  <1>7. BornInv(p)'
    BY <1>3, <1>5, <1>6 DEF BornInv, Knows, IsCreating
  <1>8. \A i \in Clients :
           requests'[i].op = "roles" /\ requests'[i].pc = "next" /\ p \in requests'[i].arg => p \in Students
    BY <1>1, <1>4 DEF PersonInv, RoleInv, Only
  <1>9. RoleInv(p)'
    BY <1>8 DEF RoleInv, ResolveUserRole, Has
  <1> QED
    BY <1>7, <1>9

LEMMA NotSavedIsNew ==
    ASSUME NEW p
    PROVE  /\ On(p, Creations, {"claim"}) \/ On(p, Creations, {"save"}) => StillNew(p)
           /\ \A a : CreatedWith(p, a) => On(p, Creations, {"claim"}) \/ On(p, Creations, {"save"})
PROOF BY DEF On, IsAt, StillNew, IsCreating, NotSaved, CreatedWith

LEMMA MigrationReadsKeep ==
    ASSUME PeopleTypeOK, CreationsInv, NEW k \in Clients, Handle(k),
           MigrateLists(k) \/ \E x \in People : SyncRoleReads(k, x),
           NEW p \in People, PersonInv(p)
    PROVE  PersonInv(p)'
PROOF
  <1>1. UNCHANGED <<accounts, users, signedIn>>
    BY DEF MigrateLists, SyncRoleReads, OnlyRequests
  <1>2. SameStores(p)
    BY <1>1, SameViewSelf DEF SameStores, signedIn
  <1>3. OfMigration(k)
    BY DEF OfMigration
  <1> QED
    BY <1>2, <1>3, MigrationStays

LEMMA MigrateCreatesKeeps ==
    ASSUME PeopleTypeOK, CreationsInv, NEW k \in Clients, Handle(k), NEW x \in People, MigrateCreates(k, x),
           NEW p \in People \ outdated', PersonInv(p)
    PROVE  PersonInv(p)'
PROOF
  <1> DEFINE r == requests[k]
             doc == r.got[x]
  <1>1. UNCHANGED <<users, signedIn, cut>> /\ r.pc = "next" /\ x \in DOMAIN r.got /\ OfMigration(k)
    BY DEF MigrateCreates, Iterating, OfMigration
  <1>2. \/ accounts' = accounts
        \/ /\ ~Live(x) /\ accounts' = [accounts EXCEPT ![x] = Account("live", "none", doc.email)]
           /\ Mark({x}, users[x] = doc)
    BY DEF MigrateCreates
  <1>3. accounts \in [People -> Accts] /\ RequestOK(r)
    BY DEF PeopleTypeOK, StoresOK, RequestsOK
  <1>4. CASE accounts'[p] = accounts[p]
    <2>1. SameStores(p)
      BY <1>1, <1>4, SameViewSelf DEF SameStores, signedIn
    <2> QED
      BY <1>1, <2>1, MigrationStays
  <1>5. CASE accounts'[p] # accounts[p]
    <2>1. x = p /\ ~Live(p) /\ users[p] = doc /\ accounts'[p] = Account("live", "none", doc.email)
      <3> HIDE DEF doc
      <3> QED
        BY <1>2, <1>3, <1>5 DEF Mark
    <2>2. users[p] # NoDoc /\ Knows(r, p)
      <3>1. r.op \in Migrations /\ MigrationOK(r)
        BY <1>1, <1>3, MigrationMoves, MigrationKnows DEF OfMigration, MigrationStep, RequestOK
      <3> QED
        BY <1>1, <2>1, <3>1, NoDocIsNone DEF MigrationOK, ReadingsOK, Knows
    <2>3. ~StillNew(p) /\ accounts[p].state # "new"
      BY <2>2, KnownIsBorn DEF PersonInv
    <2>4. p \in cut
      BY <2>1, <2>2 DEF PersonInv, PairInv
    <2>5. Live(p)' /\ accounts'[p].claim = "none"
      BY <2>1 DEF Live, Account
    <2>6. BornInv(p)' /\ RoleInv(p)'
      BY <1>1, <2>3, RestOfMigration DEF PersonInv, RoleInv
    <2>7. /\ \A pcs : On(p, Creations, pcs)' <=> On(p, Creations, pcs)
          /\ On(p, Deletions, {"account"})' <=> On(p, Deletions, {"account"})
          /\ On(p, SignIns, {"reissue"})' <=> On(p, SignIns, {"reissue"})
          /\ \A a : CreatedWith(p, a)' <=> CreatedWith(p, a)
      BY <1>1, MigrationPlaces
    <2>8. PairInv(p)'
      BY <1>1, <2>2, <2>4, <2>7 DEF PersonInv, PairInv
    <2>9. /\ ~On(p, Creations, {"claim"})' /\ ~On(p, Creations, {"save"})' /\ \A a : ~CreatedWith(p, a)'
          /\ ~On(p, Creations, {"mail", "undo"})' /\ ~On(p, SignIns, {"reissue"})'
      BY <2>1, <2>2, <2>3, <2>7, NotSavedIsNew DEF PersonInv, ClaimInv
    <2>10. ClaimInv(p)'
      <3>1. Told(p)'
        BY <1>1, <2>2 DEF PersonInv, ClaimInv, Told, signedIn
      <3> QED
        BY <1>1, <2>4, <2>5, <2>9, <3>1 DEF ClaimInv
    <2>11. EmailInv(p)'
      BY <1>1, <2>4, <2>9 DEF EmailInv
    <2> QED
      BY <2>6, <2>8, <2>10, <2>11 DEF PersonInv
  <1> QED
    BY <1>4, <1>5

\* The claim becomes what the document says by now.
LEMMA MigrateClaimsKeeps ==
    ASSUME PeopleTypeOK, CreationsInv, NEW k \in Clients, Handle(k), MigrateClaims(k),
           NEW p \in People \ outdated', PersonInv(p)
    PROVE  PersonInv(p)'
PROOF
  <1> DEFINE r == requests[k]
             role == ResolveUserRole(r.got[r.who])
  <1>1. UNCHANGED <<users, signedIn, cut>> /\ r.pc = "next" /\ r.who # NoOne /\ OfMigration(k)
    BY DEF MigrateClaims, OfMigration
  <1>2. /\ accounts' = IF Live(r.who) THEN [accounts EXCEPT ![r.who].claim = role] ELSE accounts
        /\ Mark({r.who}, role = ResolveUserRole(users[r.who]))
    BY DEF MigrateClaims
  <1>3. accounts \in [People -> Accts] /\ RequestOK(r)
    BY DEF PeopleTypeOK, StoresOK, RequestsOK
  <1>4. r.op \in Migrations /\ MigrationOK(r)
    BY <1>1, <1>3, MigrationMoves, MigrationKnows DEF OfMigration, MigrationStep, RequestOK
  <1>5. role \in Roles
    BY <1>1, <1>4, ResolvedIsRole DEF MigrationOK, ReadingsOK
  <1> HIDE DEF role
  <1>6. CASE p # r.who
    <2>1. SameStores(p)
      BY <1>1, <1>2, <1>3, <1>6, SameViewSelf DEF SameStores, signedIn
    <2> QED
      BY <1>1, <2>1, MigrationStays
  <1>7. CASE p = r.who
    <2>1. Knows(r, p)
      BY <1>1, <1>4, <1>7 DEF MigrationOK, Knows
    <2>2. ~StillNew(p) /\ accounts[p].state # "new"
      BY <2>1, KnownIsBorn DEF PersonInv
    <2>3. /\ accounts'[p].state = accounts[p].state /\ accounts'[p].email = accounts[p].email
          /\ Live(p) => accounts'[p].claim = role
          /\ ~Live(p) => accounts'[p] = accounts[p]
      BY <1>2, <1>3, <1>7 DEF Accts
    <2>4. (Live(p)' <=> Live(p)) /\ (Told(p)' <=> Told(p))
      BY <1>1, <2>3 DEF Live, Told, signedIn
    <2>5. users[p] # NoDoc => role = RoleOf(p)
      BY <1>2, <1>7 DEF Mark, PersonInv, RoleInv
    <2>6. BornInv(p)' /\ RoleInv(p)'
      BY <1>1, <2>2, RestOfMigration DEF PersonInv, RoleInv
    <2>7. /\ Only(k) /\ r.op # "email" /\ (requests'[k] = Idle \/ requests'[k].op = r.op)
          /\ \A pcs : On(p, Creations, pcs)' <=> On(p, Creations, pcs)
          /\ On(p, Deletions, {"account"})' <=> On(p, Deletions, {"account"})
          /\ On(p, SignIns, {"reissue"})' <=> On(p, SignIns, {"reissue"})
          /\ On(p, {"email"}, {"doc", "undo"})' <=> On(p, {"email"}, {"doc", "undo"})
          /\ \A a : CreatedWith(p, a)' <=> CreatedWith(p, a)
      BY <1>1, MigrationPlaces
    <2>8. PairInv(p)'
      BY <1>1, <2>4, <2>7 DEF PersonInv, PairInv
    <2>9. ~On(p, Creations, {"claim"})' /\ ~On(p, Creations, {"save"})' /\ \A a : ~CreatedWith(p, a)'
      BY <2>2, <2>7, NotSavedIsNew
    <2>10. ClaimInv(p)'
      <3>1. /\ On(p, Creations, {"mail", "undo"})' <=> On(p, Creations, {"mail", "undo"})
            /\ "none" \notin Roles
        BY <2>7 DEF Roles
      <3> QED
        BY <1>1, <1>5, <2>3, <2>4, <2>5, <2>7, <2>9, <3>1 DEF PersonInv, ClaimInv
    <2>11. EmailInv(p)'
      BY <1>1, <2>3, <2>4, <2>7, <2>9 DEF PersonInv, EmailInv, Has
    <2> QED
      BY <2>6, <2>8, <2>10, <2>11 DEF PersonInv
  <1> QED
    BY <1>6, <1>7

\* The roles that were missing are those of students.
LEMMA MigrateEndsKeeps ==
    ASSUME PeopleTypeOK, CreationsInv, NEW k \in Clients, Handle(k), MigrateEnds(k),
           NEW p \in People \ outdated', PersonInv(p)
    PROVE  PersonInv(p)'
PROOF
  <1> DEFINE r == requests[k]
             ids == IF r.op = "roles" THEN r.arg ELSE {}
             patch == [role |-> "student"]
  <1>1. UNCHANGED <<accounts, signedIn, cut>> /\ r.pc = "next" /\ OfMigration(k)
    BY DEF MigrateEnds, Iterating, OfMigration
  <1>2. /\ users' = [x \in People |-> IF x \in ids THEN Merge(users[x], patch) ELSE users[x]]
        /\ Mark({x \in ids : users[x] = NoDoc}, FALSE)
    BY DEF MigrateEnds
  <1>3. DOMAIN patch = {"role"} /\ patch["role"] = "student" /\ patch \in Docs
    BY PatchIsDoc
  <1>4. p \in ids => r.op = "roles" /\ p \in r.arg
    OBVIOUS
  <1> HIDE DEF ids, patch
  <1>5. CASE p \notin ids
    <2>1. SameStores(p)
      BY <1>1, <1>2, <1>5, SameViewSelf DEF SameStores, signedIn
    <2> QED
      BY <1>1, <2>1, MigrationStays
  <1>6. CASE p \in ids
    <2>1. users[p] # NoDoc /\ users'[p] = Merge(users[p], patch)
      BY <1>2, <1>6 DEF Mark
    <2>2. p \in Students
      BY <1>1, <1>4, <1>6 DEF PersonInv, RoleInv
    <2>3. users'[p] = [f \in DOMAIN users[p] \cup DOMAIN patch |->
                          IF f \in DOMAIN patch THEN patch[f] ELSE users[p][f]]
      BY <2>1 DEF Merge
    <2>4. users'[p] # NoDoc
      <3>1. users[p] \in Docs
        BY <2>1 DEF PeopleTypeOK, StoresOK
      <3> QED
        BY <1>3, <2>1, <3>1, MergeIsDoc, NoDocIsNone
    <2>5. /\ Has(users'[p], "role") /\ users'[p]["role"] = "student"
          /\ Has(users'[p], "email") => Has(users[p], "email") /\ users'[p]["email"] = users[p]["email"]
      BY <1>3, <2>1, <2>3, <2>4 DEF Has
    <2>6. ResolveUserRole(users'[p]) = RoleOf(p)
      BY <2>2, <2>5 DEF ResolveUserRole, RoleOf
    <2>7. accounts[p].state # "new"
      BY <2>1, KnownIsBorn DEF PersonInv
    <2>8. BornInv(p)' /\ RoleInv(p)'
      BY <1>1, <2>1, <2>4, <2>6, <2>7, RestOfMigration
    <2>9. /\ Only(k) /\ r.op # "email" /\ (requests'[k] = Idle \/ requests'[k].op = r.op)
          /\ \A pcs : On(p, Creations, pcs)' <=> On(p, Creations, pcs)
          /\ On(p, Deletions, {"account"})' <=> On(p, Deletions, {"account"})
          /\ On(p, SignIns, {"reissue"})' <=> On(p, SignIns, {"reissue"})
          /\ On(p, {"email"}, {"doc", "undo"})' <=> On(p, {"email"}, {"doc", "undo"})
          /\ \A a : CreatedWith(p, a)' <=> CreatedWith(p, a)
      BY <1>1, MigrationPlaces
    <2>10. (Live(p)' <=> Live(p)) /\ (Told(p)' <=> Told(p))
      BY <1>1 DEF Live, Told, signedIn
    <2>11. PairInv(p)'
      BY <1>1, <2>1, <2>4, <2>9, <2>10 DEF PersonInv, PairInv
    <2>12. /\ On(p, Creations, {"mail", "undo"})' <=> On(p, Creations, {"mail", "undo"})
           /\ On(p, Creations, {"claim"})' <=> On(p, Creations, {"claim"})
           /\ On(p, Creations, {"save"})' <=> On(p, Creations, {"save"})
      BY <2>9
    <2>13. ClaimInv(p)'
      BY <1>1, <2>1, <2>4, <2>9, <2>10, <2>12 DEF PersonInv, ClaimInv
    <2>14. ~StillNew(p) /\ \A a : ~CreatedWith(p, a)'
      BY <2>1, <2>9, KnownIsBorn, NotSavedIsNew DEF PersonInv
    <2>15. EmailInv(p)'
      BY <1>1, <2>5, <2>9, <2>10, <2>14 DEF PersonInv, EmailInv
    <2> QED
      BY <2>8, <2>11, <2>13, <2>15 DEF PersonInv
  <1> QED
    BY <1>5, <1>6

LEMMA MigrationKeeps ==
    ASSUME PeopleTypeOK, CreationsInv, NEW k \in Clients, Handle(k), OfMigration(k),
           NEW p \in People \ outdated', PersonInv(p)
    PROVE  PersonInv(p)'
PROOF BY MigrationReadsKeep, MigrateCreatesKeeps, MigrateClaimsKeeps, MigrateEndsKeeps DEF OfMigration

-----------------------------------------------------------------------------
(* What is asked, what stops, and what is asked of nobody *)

LEMMA AskedGoesOn ==
    ASSUME NEW q, NEW p \in People,
           q.op \in Creations => q.pc = "create" /\ (q.who = p => accounts[p].state = "new"),
           q.op \notin Creations => (q.who = p => accounts[p].state # "new"),
           q.op \in SignIns => q.pc = "sign in",
           q.op \in Deletions => q.pc # "account" /\ (q.who = p => users[p] # NoDoc),
           q.op \in Migrations => q.pc = "list",
           q.op = "email" => /\ q.pc = "account"
                             /\ q.who = p => q.arg \in Addresses(p) /\ q.got = accounts[p].email /\ q.arg # q.got
    PROVE  GoesOn(Idle, q, p)
PROOF
  <1>1. ~Open(Idle, p)
    BY IdleIs, AccountsAssumption DEF Open, IsAt
  <1>2. ~Watched(q, p)
    BY DEF Watched, Open, IsAt
  <1>3. Knows(q, p) => users[p] # NoDoc
    BY DEF Knows
  <1>4. q.op = "roles" => q.pc # "next"
    BY DEF Migrations
  <1> QED
    BY <1>1, <1>2, <1>3, <1>4 DEF GoesOn, IsAt, IsCreating

LEMMA AsksGoOn ==
    ASSUME PeopleTypeOK, NEW k \in Clients, Asks(k), NEW p \in People, PersonInv(p)
    PROVE  GoesOn(requests[k], requests'[k], p) /\ UNCHANGED <<accounts, users, signedIn>>
PROOF
  <1> DEFINE q == requests'[k]
             Fine == GoesOn(requests[k], requests'[k], p)
  <1>0. RequestsOK
    BY DEF PeopleTypeOK
  <1>a. users[p] # NoDoc \/ Live(p) \/ p \in sessions => accounts[p].state # "new"
    BY DEF PersonInv, BornInv, StillNew, Live
  <1>b. p # NoOne
    BY AccountsAssumption
  \* Of somebody who is there.
  <1>1. ASSUME NEW op \in {"login", "refresh", "profile", "delete", "uninvite", "revoke", "assignment", "assign",
                           "active", "grant"},
               NEW pc, NEW who, NEW arg, Begin(k, Request(op, pc, who, arg)),
               op \in SignIns => pc = "sign in", op \in Deletions => pc # "account" /\ users[who] # NoDoc,
               users[who] # NoDoc \/ Live(who) \/ who \in sessions
        PROVE  Fine
    <2>1. q = Request(op, pc, who, arg) /\ requests[k] = Idle
      BY <1>0, <1>1, BeginStep
    <2>2. q.op = op /\ q.pc = pc /\ q.who = who
      BY <2>1, RequestIs
    <2>3. op \notin Creations /\ op \notin Migrations /\ op # "email"
      BY DEF Creations, Migrations
    <2> QED
      BY <1>1, <1>a, <2>1, <2>2, <2>3, AskedGoesOn
  <1>2. ASSUME NEW op \in {"accounts", "roles"}, Migrate(k, op) PROVE Fine
    <2>1. q = Request(op, "list", NoOne, NoArg) /\ requests[k] = Idle
      BY <1>0, <1>2, BeginStep DEF Migrate
    <2>2. q.op = op /\ q.pc = "list" /\ q.who = NoOne
      BY <2>1, RequestIs
    <2>3. op \notin Creations /\ op \notin SignIns /\ op \notin Deletions /\ op # "email"
      BY DEF Creations, SignIns, Deletions
    <2> QED
      BY <1>b, <2>1, <2>2, <2>3, AskedGoesOn
  <1>3. ASSUME NEW x \in People, NEW op \in {"create", "invite"}, NEW email, Create(k, x, op, email)
        PROVE  Fine
    <2>1. Begin(k, Request(op, "create", x, email)) /\ accounts[x].state = "new"
      BY <1>3 DEF Create
    <2>2. q = Request(op, "create", x, email) /\ requests[k] = Idle
      BY <1>0, <2>1, BeginStep
    <2>3. q.op = op /\ q.pc = "create" /\ q.who = x
      BY <2>2, RequestIs
    <2>4. op \in Creations /\ op \notin SignIns /\ op \notin Deletions /\ op \notin Migrations /\ op # "email"
      BY DEF Creations, SignIns, Deletions, Migrations
    <2> QED
      BY <2>1, <2>2, <2>3, <2>4, AskedGoesOn
  \* What is asked with something in hand.
  <1>4. ASSUME NEW op, NEW pc, NEW who, NEW arg, NEW got,
               Begin(k, [Request(op, pc, who, arg) EXCEPT !.got = got])
        PROVE  q.op = op /\ q.pc = pc /\ q.who = who /\ q.arg = arg /\ q.got = got /\ requests[k] = Idle
    <2> DEFINE r == Request(op, pc, who, arg)
    <2>1. IsRequest(r) /\ r.op = op /\ r.pc = pc /\ r.who = who /\ r.arg = arg
      BY RequestIs
    <2> HIDE DEF r
    <2>2. SameAsk(Holding(r, got), r) /\ Holding(r, got).pc = pc /\ Holding(r, got).got = got
      BY <2>1, HoldingIs
    <2>3. Begin(k, Holding(r, got))
      BY <1>4 DEF Holding, r
    <2>4. q = Holding(r, got) /\ requests[k] = Idle
      BY <1>0, <2>3, BeginStep
    <2> QED
      BY <2>1, <2>2, <2>4 DEF SameAsk
  <1>5. ASSUME NEW x \in People, NEW email \in Addresses(x), ChangeEmail(k, x, email) PROVE Fine
    <2>1. /\ q.op = "email" /\ q.pc = "account" /\ q.who = x /\ q.arg = email /\ q.got = accounts[x].email
          /\ requests[k] = Idle
      BY <1>4, <1>5 DEF ChangeEmail
    <2>2. Live(x) /\ email # accounts[x].email
      BY <1>5 DEF ChangeEmail
    <2>3. "email" \notin Creations /\ "email" \notin SignIns /\ "email" \notin Deletions /\ "email" \notin Migrations
      BY DEF Creations, SignIns, Deletions, Migrations
    <2>4. x = p => accounts[p].state # "new"
      BY <1>a, <2>2
    <2> QED
      BY <1>5, <2>1, <2>2, <2>3, <2>4, AskedGoesOn
  <1>6. ASSUME NEW x \in People, NEW requester, NEW fields, UpdateUser(k, requester, x, fields) PROVE Fine
    <2>1. q.op = "edit" /\ q.who = x /\ requests[k] = Idle
      BY <1>4, <1>6 DEF UpdateUser
    <2>2. users[x] # NoDoc
      BY <1>6 DEF UpdateUser, Listed
    <2>3. "edit" \notin Creations /\ "edit" \notin SignIns /\ "edit" \notin Deletions /\ "edit" \notin Migrations
      BY DEF Creations, SignIns, Deletions, Migrations
    <2>4. x = p => accounts[p].state # "new"
      BY <1>a, <2>2
    <2> QED
      BY <2>1, <2>3, <2>4, AskedGoesOn
  <1> HIDE DEF Fine
  <1>7. ASSUME NEW x \in People, Login(k, x) \/ Refresh(k, x) \/ Delete(k, x) \/ DeleteInvite(k, x) PROVE Fine
    <2>1. Login(k, x) => Fine
      BY <1>1 DEF Login, SignIns, Deletions
    <2>2. Refresh(k, x) => Fine
      BY <1>1 DEF Refresh, SignIns, Deletions
    <2>3. Delete(k, x) => Fine
      BY <1>1 DEF Delete, Listed, SignIns, Deletions
    <2>4. DeleteInvite(k, x) => Fine
      BY <1>1 DEF DeleteInvite, Listed, SignIns, Deletions
    <2> QED
      BY <1>7, <2>1, <2>2, <2>3, <2>4
  <1>8. ASSUME NEW x \in People, NEW fields, UpdateOwnProfile(k, x, fields) PROVE Fine
    BY <1>1, <1>8 DEF UpdateOwnProfile, SignIns, Deletions
  <1>9. AccountAsks(k) => Fine
    <2>1. Teachers \subseteq People
      BY DEF People
    <2> QED
      BY <1>2, <1>3, <1>5, <1>6, <1>7, <1>8, <2>1 DEF AccountAsks
  <1>10. ASSUME NEW s, NEW amount, Grant(k, s, amount) PROVE Fine
    BY <1>1, <1>10 DEF Grant, Listed, SignIns, Deletions
  <1>11. ASSUME NEW s, NEW refund, Revoke(k, s, refund) PROVE Fine
    BY <1>1, <1>11 DEF Revoke, Listed, SignIns, Deletions
  <1>12. ASSUME NEW s, NEW t, UpdateAssignment(k, s, t) PROVE Fine
    BY <1>1, <1>12 DEF UpdateAssignment, Listed, SignIns, Deletions
  <1>13. ASSUME NEW t, NEW students, AssignStudents(k, t, students) PROVE Fine
    BY <1>1, <1>13 DEF AssignStudents, Listed, SignIns, Deletions
  <1>14. ASSUME NEW t, NEW active, SetActive(k, t, active) PROVE Fine
    BY <1>1, <1>14 DEF SetActive, Listed, SignIns, Deletions
  <1>15. Fine
    BY <1>9, <1>10, <1>11, <1>12, <1>13, <1>14 DEF Asks
  <1>16. UNCHANGED <<accounts, users, signedIn>>
    BY DEF Asks, AccountAsks, Create, Login, Refresh, Delete, ChangeEmail, UpdateOwnProfile, UpdateUser,
       DeleteInvite, Migrate, Grant, Revoke, UpdateAssignment, AssignStudents, SetActive, Begin
  <1> QED
    BY <1>15, <1>16 DEF Fine

LEMMA AsksKeep ==
    ASSUME PeopleTypeOK, CreationsInv, NEW k \in Clients, Asks(k), NEW p \in People, PersonInv(p)
    PROVE  PersonInv(p)'
PROOF BY AsksGoOn, UnwrittenStays

LEMMA StopKeeps ==
    ASSUME PeopleTypeOK, CreationsInv, NEW k \in Clients, Stop(k), NEW p \in People, PersonInv(p)
    PROVE  PersonInv(p)'
PROOF
  <1> DEFINE r == requests[k]
  <1>1. requests'[k] = Idle /\ UNCHANGED <<accounts, users, signedIn>> /\ cut' = cut \cup LeftHalfWay(k)
    BY EndStep DEF PeopleTypeOK, Stop
  <1>2. Open(r, p) => p \in cut'
    <2>1. ASSUME Open(r, p) PROVE LeftHalfWay(k) = {p}
      <3>1. r.who = p /\ r.op # "active" /\ p # NoOne
        BY <2>1, AccountsAssumption DEF Open, IsAt, Creations, Deletions
      <3> QED
        BY <3>1 DEF LeftHalfWay
    <2> QED
      BY <1>1, <2>1
  <1> QED
    BY <1>1, <1>2, EndGoesOn, UnwrittenStays

\* A request leaves the stores in agreement about whom it is not outdated for.
LEMMA AccountKeeps ==
    ASSUME PeopleTypeOK, CreationsInv, NEW k \in Clients, Handle(k), OfAccount(k), UNCHANGED paid,
           NEW p \in People \ outdated', PersonInv(p)
    PROVE  PersonInv(p)'
PROOF
  <1>1. CASE p # requests[k].who
    BY <1>1, AccountsOfOthersStay, PersonStays
  <1>2. CASE p = requests[k].who
    <2>1. CreateAccount(k) \/ CreateClaims(k) \/ CreateSaves(k) \/ InviteMails(k) \/ CreateUndoes(k) => PersonInv(p)'
      BY <1>2, CreateAccountKeeps, CreateClaimsKeeps, CreateSavesKeeps, InviteMailsKeeps, CreateUndoesKeeps
    <2>2. SignIn(k) \/ LoginResolves(k) \/ LoginClaims(k) \/ LoginReissues(k) => PersonInv(p)'
      BY <1>2, SignInKeeps, LoginClaimsKeeps
    <2>3. EmailChangesAccount(k) \/ EmailChangesDocument(k) \/ EmailUndoes(k) => PersonInv(p)'
      BY <1>2, EmailChangesAccountKeeps, EmailChangesDocumentKeeps, EmailUndoesKeeps
    <2>4. DeleteInviteReads(k) \/ DeleteInviteReadsStudents(k) \/ DeleteDoc(k) \/ DeleteAccount(k) => PersonInv(p)'
      BY <1>2, DeletionKeeps
    <2> QED
      BY <2>1, <2>2, <2>3, <2>4 DEF OfAccount
  <1> QED
    BY <1>1, <1>2

LEMMA HandleKeeps ==
    ASSUME PeopleTypeOK, CreationsInv, NEW k \in Clients, Handle(k), NEW p \in People \ outdated', PersonInv(p)
    PROVE  PersonInv(p)'
PROOF
  <1>1. (OfAccount(k) /\ UNCHANGED paid) \/ OfMigration(k) \/ OfDocument(k)
    BY DEF Handle, AccountHandle, OfAccount, OfMigration, OfDocument
  <1> QED
    BY <1>1, AccountKeeps, MigrationKeeps, DocumentStays, PersonStays

\* The goals concern nobody.
GoalStep(k) ==
    /\ Only(k) /\ UNCHANGED <<accounts, users, signedIn, outdated, cut>>
    /\ requests[k] = Idle \/ requests[k].op = "goal"
    /\ requests'[k] = Idle \/ (requests'[k].op = "goal" /\ requests'[k].who = NoOne)

LEMMA GoalsAreSteps ==
    ASSUME PeopleTypeOK, NEW k \in Clients,
           \/ SetGoalReads(k) \/ SetGoalSaves(k)
           \/ \E target \in Targets, month \in {0} \cup MonthsOfYear(YearOf(ThisMonth)) :
                 SetGoal(k, YearOf(ThisMonth), month, target)
    PROVE  GoalStep(k)
PROOF
  <1>0. RequestsOK /\ RequestOK(requests[k])
    BY DEF PeopleTypeOK, RequestsOK
  <1>1. ASSUME SetGoalReads(k) \/ SetGoalSaves(k)
        PROVE  GoalStep(k)
    <2>1. Only(k) /\ UNCHANGED <<accounts, users, signedIn, outdated, cut>> /\ requests[k].op = "goal"
      BY <1>1, GoalReadTypes, GoalSaved DEF SetGoalReads, SetGoalSaves, OnlyRequests, control, At, TypeStep
    <2>2. requests[k].who = NoOne
      BY <1>0, <2>1, PeopleKnow DEF GoalOK, RequestOK
    <2>3. requests'[k] = Idle \/ (requests'[k].op = requests[k].op /\ requests'[k].who = requests[k].who)
      BY <1>0, <1>1, EndStep, ProceedStep DEF SetGoalReads, SetGoalSaves, SameAsk
    <2> QED
      BY <2>1, <2>2, <2>3 DEF GoalStep
  <1>2. ASSUME NEW target \in Targets, NEW month \in {0} \cup MonthsOfYear(YearOf(ThisMonth)),
               SetGoal(k, YearOf(ThisMonth), month, target)
        PROVE  GoalStep(k)
    <2> DEFINE arg == [year |-> YearOf(ThisMonth), month |-> month, target |-> target]
               r == Request("goal", "get", NoOne, arg)
    <2>1. Begin(k, r)
      BY <1>2 DEF SetGoal
    <2> HIDE DEF arg
    <2>2. r.op = "goal" /\ r.who = NoOne
      BY RequestIs
    <2> HIDE DEF r
    <2>3. requests'[k] = r /\ requests[k] = Idle /\ Only(k)
      BY <1>0, <2>1, BeginStep
    <2> QED
      BY <2>1, <2>2, <2>3 DEF Begin, GoalStep
  <1> QED
    BY <1>1, <1>2

LEMMA GoalsKeep ==
    ASSUME PeopleTypeOK, CreationsInv, NEW k \in Clients, GoalStep(k)
    PROVE  CreationsInv' /\ \A p \in People : PersonInv(p) => PersonInv(p)'
PROOF
  <1> DEFINE r == requests[k]
             q == requests'[k]
  <1>1. q.who = NoOne /\ q.op \in {"none", "goal"} /\ r.op \in {"none", "goal"}
    BY IdleIs DEF GoalStep
  <1>2. CreationStep(k)
    BY <1>1, NoCreation DEF GoalStep, IsCreating, Creations
  <1>3. CreationsInv' /\ \A p \in People : StillNew(p)' => StillNew(p)
    BY <1>2, CreationsStay DEF PeopleTypeOK
  <1>4. ASSUME NEW p \in People PROVE Stays(k, p)
    <2>1. p # NoOne
      BY AccountsAssumption
    <2>2. ~Open(r, p) /\ ~Watched(q, p) /\ ~Knows(q, p)
      BY <1>1 DEF Open, Watched, Knows, IsAt, Creations, Deletions, SignIns, Migrations
    <2>3. GoesOn(r, q, p)
      BY <1>1, <2>1, <2>2 DEF GoesOn, IsAt
    <2>4. SameStores(p) /\ Grows
      BY SameViewSelf DEF GoalStep, SameStores, signedIn, Grows
    <2> QED
      BY <1>3, <2>3, <2>4 DEF Stays, GoalStep
  <1> QED
    BY <1>3, <1>4, PersonStays

\* Signing out ends sessions and no token.
LEMMA LogoutKeeps ==
    ASSUME UNCHANGED <<accounts, users, tokens, requests, outdated, cut>>, sessions' \subseteq sessions, StoresInv
    PROVE  StoresInv'
PROOF
  <1>1. CreationsInv'
    BY DEF StoresInv, CreationsInv
  <1>2. ASSUME NEW p \in People \ outdated PROVE PersonInv(p)'
    <2>1. PersonInv(p)
      BY DEF StoresInv
    <2>2. \A ops, pcs : On(p, ops, pcs)' <=> On(p, ops, pcs)
      BY DEF On
    <2>3. (Live(p)' <=> Live(p)) /\ (Told(p)' <=> Told(p)) /\ (StillNew(p)' <=> StillNew(p))
      BY DEF Live, Told, StillNew
    <2>4. BornInv(p)'
      BY <2>1, <2>2, <2>3 DEF PersonInv, BornInv
    <2>5. PairInv(p)' /\ RoleInv(p)'
      BY <2>1, <2>2, <2>3 DEF PersonInv, PairInv, RoleInv
    <2>6. ClaimInv(p)'
      BY <2>1, <2>2, <2>3 DEF PersonInv, ClaimInv
    <2>7. \A a : Toward(p, a)' = Toward(p, a) /\ (CreatedWith(p, a)' <=> CreatedWith(p, a))
      BY DEF Toward, CreatedWith
    <2>8. ASSUME NEW a \in Addresses(p), TurnsInv(p, a) PROVE TurnsInv(p, a)'
      <3>1. Toward(p, a)' = Toward(p, a) /\ Toward(p, Other(p, a))' = Toward(p, Other(p, a))
        BY <2>7
      <3> QED
        BY <2>8, <3>1 DEF TurnsInv, Other, Addresses
    <2>9. EmailInv(p)'
      BY <2>1, <2>2, <2>3, <2>7, <2>8 DEF PersonInv, EmailInv, Addresses
    <2> QED
      BY <2>4, <2>5, <2>6, <2>9 DEF PersonInv
  <1> QED
    BY <1>1, <1>2 DEF StoresInv

LEMMA StoresNext ==
    ASSUME PeopleTypeOK, StoresInv, [FinanceNext]_financeVars
    PROVE  StoresInv'
PROOF
  <1>0. CreationsInv
    BY DEF StoresInv
  <1>1. ASSUME NEW k \in Clients, Asks(k) \/ Handle(k) \/ Stop(k)
        PROVE  StoresInv'
    <2>1. CreationsInv'
      BY <1>0, <1>1, CreationSteps, CreationsStay DEF PeopleTypeOK
    <2>2. outdated \subseteq outdated'
      BY <1>1, AskSteps, HandleSteps, StopSteps DEF PersonStep, RosterStep
    <2>3. ASSUME NEW p \in People \ outdated' PROVE PersonInv(p)'
      <3>1. PersonInv(p)
        BY <2>2 DEF StoresInv
      <3> QED
        BY <1>0, <1>1, <3>1, AsksKeep, HandleKeeps, StopKeeps
    <2> QED
      BY <2>1, <2>3 DEF StoresInv
  <1>2. ASSUME NEW k \in Clients, GoalStep(k)
        PROVE  StoresInv'
    <2>1. outdated' = outdated
      BY <1>2 DEF GoalStep
    <2> QED
      BY <1>0, <1>2, <2>1, GoalsKeep DEF StoresInv
  <1>3. ASSUME NEW p \in People, Logout(p) PROVE StoresInv'
    BY <1>3, LogoutKeeps DEF Logout, control
  <1>4. ASSUME NEW from, SetExpense(from, 2) PROVE StoresInv'
    BY <1>4, LogoutKeeps DEF SetExpense, signedIn
  <1>5. CASE UNCHANGED financeVars
    BY <1>5, LogoutKeeps DEF financeVars, vars, accountVars, control, signedIn
  <1>6. CASE FinanceNext
    BY <1>1, <1>2, <1>3, <1>4, <1>6, GoalsAreSteps DEF FinanceNext, PeopleNext
  <1> QED
    BY <1>5, <1>6

-----------------------------------------------------------------------------
(* The stores agree *)

\* A document of the person: their address, and their role if it is not missing
\* as it once was of students.
Names(d, p) ==
    /\ Has(d, "email") => d["email"] = p
    /\ Has(d, "role") => d["role"] = RoleOf(p)
    /\ d # NoDoc /\ ~Has(d, "role") => p \in Students

LEMMA SameNames ==
    ASSUME NEW p, NEW d, NEW e, d # NoDoc, SameView({"email", "role"}, d, e), Names(d, p)
    PROVE  Names(e, p)
PROOF BY DEF SameView, Names

LEMMA StageNames ==
    ASSUME NEW p \in People, NEW stage
    PROVE  Names(Stage(p, stage), p)
PROOF
  <1> DEFINE new == NewDoc(p, p)
             full == Dated(Merge(new, Whole), 0)
             base == [email |-> p, role |-> RoleOf(p), isPaying |-> FALSE]
             eyes == {"email", "role"}
  <1>1. new \in Docs /\ new # NoDoc
    BY NewIsDoc, NoDocIsNone DEF Emails
  <1>2. Names(new, p)
    <2>1. new = base \/ new = With(base, "active", TRUE)
      BY DEF NewDoc
    <2>2. DOMAIN base = {"email", "role", "isPaying"} /\ base["email"] = p /\ base["role"] = RoleOf(p)
      OBVIOUS
    <2> HIDE DEF base
    <2>3. With(base, "active", TRUE) = [f \in DOMAIN base \cup {"active"} |-> IF f = "active" THEN TRUE ELSE base[f]]
      BY DEF With
    <2> HIDE DEF new
    <2>4. "role" \in DOMAIN new /\ new["email"] = p /\ new["role"] = RoleOf(p)
      BY <2>1, <2>2, <2>3
    <2> QED
      BY <1>1, <2>4 DEF Names, Has
  <1> HIDE DEF new
  <1>3. SameView(eyes, new, full)
    <2>1. {"name", "data"} \cap eyes = {} /\ "onboarded" \notin eyes
      OBVIOUS
    <2> HIDE DEF eyes
    <2> QED
      BY <1>1, <2>1, PatchesAre, ProfileView
  <1>4. Names(full, p)
    BY <1>1, <1>2, <1>3, SameNames
  <1>5. Names(NoDoc, p)
    BY DEF Names, Has
  <1> HIDE DEF full
  <1> QED
    BY <1>2, <1>4, <1>5 DEF Stage, new, full

LEMMA BegunNames ==
    ASSUME NEW student, NEW granted \in BOOLEAN, student # "registered" => ~granted
    PROVE  Names(StudentBegun(student, granted), TheStudent)
PROOF
  <1> DEFINE plain == Stage(TheStudent, student)
  <1>1. Names(plain, TheStudent) /\ (granted => plain \in Docs)
    BY TheyAre, StageNames, StageIsDoc
  <1> HIDE DEF plain
  <1>2. "until" \in Fields \ {"role", "onboarded", "teacher", "email"} /\ 1 \in Dates /\ 1 \in Values
    BY DEF Fields, Dates, Values
  <1>3. ASSUME granted PROVE Names(With(plain, "until", 1), TheStudent)
    <2>1. SameView({"email", "role"}, plain, With(plain, "until", 1))
      BY <1>1, <1>2, <1>3, WithIsDoc, WithView
    <2> QED
      BY <1>1, <1>3, <2>1, SameNames, NoDocIsNone
  <1> QED
    BY <1>1, <1>3 DEF StudentBegun, plain

LEMMA StudentDocNames ==
    ASSUME NEW dated \in Docs \cup {NoDoc}, Names(dated, TheStudent), NEW waits \in BOOLEAN,
           NEW assigned \in BOOLEAN, NEW legacy \in BOOLEAN, legacy => ~assigned, assigned \/ legacy => dated \in Docs
    PROVE  Names(StudentDoc(dated, waits, assigned, legacy), TheStudent)
PROOF
  <1>0. dated \in Docs => dated # NoDoc
    BY NoDocIsNone
  <1>1. CASE assigned
    <2> DEFINE c == With(dated, "teacher", TheTeacher)
               e == With(c, "pending", waits)
    <2>1. e \in Docs
      BY <1>1, TheyAre, AssignedIsDoc
    <2>2. c = [f \in DOMAIN dated \cup {"teacher"} |-> IF f = "teacher" THEN TheTeacher ELSE dated[f]]
      BY DEF With
    <2>3. e = [f \in DOMAIN c \cup {"pending"} |-> IF f = "pending" THEN waits ELSE c[f]]
      BY DEF With
    <2>4. StudentDoc(dated, waits, assigned, legacy) = e
      BY <1>1 DEF StudentDoc
    <2> HIDE DEF c, e
    <2>5. SameView({"email", "role"}, dated, e)
      <3>1. e # NoDoc
        BY <2>1, NoDocIsNone
      <3>2. \A f \in {"email", "role"} : (f \in DOMAIN e <=> f \in DOMAIN dated) /\ (f \in DOMAIN dated => e[f] = dated[f])
        BY <2>2, <2>3
      <3> QED
        BY <1>0, <1>1, <3>1, <3>2 DEF SameView, Has
    <2> QED
      BY <1>0, <1>1, <2>4, <2>5, SameNames
  <1>2. CASE legacy /\ ~assigned
    <2> DEFINE e == Without(dated, "role")
    <2>1. e = [f \in DOMAIN dated \ {"role"} |-> dated[f]]
      BY DEF Without
    <2>2. StudentDoc(dated, waits, assigned, legacy) = e
      BY <1>2 DEF StudentDoc
    <2> HIDE DEF e
    <2>3. ("email" \in DOMAIN e <=> "email" \in DOMAIN dated) /\ ("email" \in DOMAIN dated => e["email"] = dated["email"])
          /\ "role" \notin DOMAIN e
      BY <2>1
    <2> QED
      BY <1>0, <1>2, <2>2, <2>3, TheyAre DEF Names, Has
  <1>3. CASE ~assigned /\ ~legacy
    BY <1>3 DEF StudentDoc
  <1> QED
    BY <1>1, <1>2, <1>3

LEMMA TeacherDocNames ==
    ASSUME NEW staff \in Docs \cup {NoDoc}, Names(staff, TheTeacher), NEW teacher, teacher = "inactive" => staff \in Docs
    PROVE  Names(TeacherDoc(staff, teacher), TheTeacher)
PROOF
  <1> DEFINE e == [staff EXCEPT !.active = FALSE]
  <1>1. CASE teacher = "inactive"
    <2>1. staff \in Docs /\ staff # NoDoc /\ TeacherDoc(staff, teacher) = e
      BY <1>1, NoDocIsNone DEF TeacherDoc
    <2>2. DOMAIN e = DOMAIN staff /\ \A f \in DOMAIN e : f # "active" => e[f] = staff[f]
      OBVIOUS
    <2> HIDE DEF e
    <2>3. Names(e, TheTeacher)
      BY <2>1, <2>2 DEF Names, Has
    <2> QED
      BY <2>1, <2>3
  <1>2. CASE teacher # "inactive"
    BY <1>2 DEF TeacherDoc
  <1> QED
    BY <1>1, <1>2

\* Everybody begins with both an account and a document, or neither; the claim
\* of a student whose document has no role may be missing.
LEMMA StoresInit ==
    ASSUME FinanceInit
    PROVE  StoresInv
PROOF
  <1>1. PICK student \in {"new", "invited", "registered"},
             teacher \in {"new", "invited", "registered", "inactive"},
             granted \in BOOLEAN, assigned \in BOOLEAN, legacy \in BOOLEAN :
             /\ student # "registered" => ~granted /\ ~assigned
             /\ legacy => student = "registered" /\ ~assigned /\ ~granted
             /\ users = [p \in People |->
                   CASE p = TheStudent -> StudentDoc(StudentBegun(student, granted), teacher = "inactive", assigned, legacy)
                     [] p = TheTeacher -> TeacherDoc(Stage(TheTeacher, teacher), teacher)
                     [] OTHER -> Stage(p, "registered")]
             /\ accounts = [p \in People |->
                   IF users[p] = NoDoc THEN Account("new", "none", NoOne)
                   ELSE Account("live", IF p = TheStudent /\ legacy THEN "none" ELSE RoleOf(p), p)]
             /\ cut = IF legacy THEN {TheStudent} ELSE {}
             /\ sessions = {} /\ tokens = [p \in People |-> "no"]
             /\ requests = [k \in Clients |-> Idle]
    BY InitIs
  <1>2. \A k \in Clients : requests[k] = Idle
    BY <1>1
  <1>3. CreationsInv
    BY <1>2, IdleIs DEF CreationsInv, IsCreating, Creations
  <1>4. ASSUME NEW p \in People PROVE Names(users[p], p)
    <2> DEFINE dated == StudentBegun(student, granted)
               waits == teacher = "inactive"
               staff == Stage(TheTeacher, teacher)
    <2>1. p = TheStudent => Names(users[p], p)
      <3>1. dated \in Docs \cup {NoDoc} /\ Names(dated, TheStudent) /\ (assigned \/ legacy => dated \in Docs)
        BY <1>1, BegunNames, BegunIsDoc
      <3>2. waits \in BOOLEAN
        OBVIOUS
      <3>3. users[TheStudent] = StudentDoc(dated, waits, assigned, legacy)
        BY <1>1, TheyAre
      <3> HIDE DEF dated, waits
      <3> QED
        BY <1>1, <3>1, <3>2, <3>3, StudentDocNames
    <2>2. p = TheTeacher => Names(users[p], p)
      <3>1. staff \in Docs \cup {NoDoc} /\ Names(staff, TheTeacher) /\ (teacher = "inactive" => staff \in Docs)
        BY TheyAre, StageIsDoc, StageNames
      <3>2. p = TheTeacher => users[p] = TeacherDoc(staff, teacher)
        BY <1>1, TheyAre
      <3> HIDE DEF staff
      <3> QED
        BY <3>1, <3>2, TeacherDocNames
    <2>3. p \notin {TheStudent, TheTeacher} => users[p] = Stage(p, "registered")
      BY <1>1
    <2> QED
      BY <2>1, <2>2, <2>3, StageNames
  <1>5. ASSUME NEW p \in People PROVE PersonInv(p)
    <2>1. \A k \in Clients : requests[k].who # p /\ requests[k].op = "none"
      BY <1>2, IdleIs, AccountsAssumption
    <2>2. (\A ops, pcs : ~On(p, ops, pcs)) /\ (\A a : ~CreatedWith(p, a)) /\ (\A k \in Clients : ~Knows(requests[k], p))
      BY <2>1 DEF On, IsAt, CreatedWith, Knows, Migrations
    <2>3. /\ users[p] = NoDoc => accounts[p].state = "new"
          /\ users[p] # NoDoc => /\ accounts[p].state = "live" /\ accounts[p].email = p
                                 /\ accounts[p].claim = RoleOf(p) \/ (accounts[p].claim = "none" /\ p \in cut)
      <3>1. accounts[p] = IF users[p] = NoDoc THEN Account("new", "none", NoOne)
                          ELSE Account("live", IF p = TheStudent /\ legacy THEN "none" ELSE RoleOf(p), p)
        BY <1>1
      <3>2. p = TheStudent /\ legacy => p \in cut
        BY <1>1
      <3> QED
        BY <3>1, <3>2 DEF Account
    <2>4. tokens[p] = "no" /\ p \notin sessions
      BY <1>1
    <2>5. StillNew(p) <=> accounts[p].state = "new"
      BY <2>1 DEF StillNew
    <2>6. BornInv(p)
      BY <2>1, <2>2, <2>3, <2>4, <2>5 DEF BornInv
    <2>7. PairInv(p)
      BY <2>2, <2>3 DEF PairInv, Live
    <2>8. RoleInv(p)
      BY <1>4, <2>1, AccountsAssumption DEF RoleInv, Names, ResolveUserRole, RoleOf
    <2>9. ClaimInv(p)
      BY <2>2, <2>3, <2>4 DEF ClaimInv, Told, Live
    <2>10. EmailInv(p)
      <3>1. Names(users[p], p) /\ (Has(users[p], "email") => users[p] # NoDoc)
        BY <1>4 DEF Has
      <3> QED
        BY <2>2, <2>3, <3>1 DEF EmailInv, Names
    <2> QED
      BY <2>6, <2>7, <2>8, <2>9, <2>10 DEF PersonInv
  <1> QED
    BY <1>3, <1>5 DEF StoresInv

LEMMA Stores ==
    FinanceSpec => [](PeopleTypeOK /\ StoresInv)
PROOF
  <1>1. PeopleTypeOK /\ StoresInv /\ [FinanceNext]_financeVars => StoresInv'
    BY StoresNext
  <1> QED
    BY <1>1, StoresInit, PeopleTypes, PTL DEF FinanceSpec

\* TheStoresAgree for any people and requests: through creations, sign-ins,
\* changes of address, deletions and migrations that overlap or fail between
\* Firebase and the documents, the two tell the same of who a person is, what
\* they may do and where they are written to.
THEOREM StoresInvariance == FinanceSpec => []TheStoresAgree
PROOF
  <1>1. ASSUME PeopleTypeOK, StoresInv
        PROVE  DocumentHasItsAccount
    <2>1. SUFFICES ASSUME NEW p \in People, p \notin outdated \cup cut,
                          ~Busy(p, {"create", "invite", "delete", "uninvite"})
                   PROVE  users[p] # NoDoc <=> Live(p)
      BY DEF DocumentHasItsAccount
    <2>2. PairInv(p)
      BY <1>1, <2>1 DEF StoresInv, PersonInv
    <2>3. ~On(p, Creations, {"claim", "save", "undo"}) /\ ~On(p, Deletions, {"account"})
      BY <2>1 DEF Busy, On, IsAt, Creations, Deletions
    <2> QED
      BY <2>1, <2>2, <2>3 DEF PairInv
  <1>2. ASSUME PeopleTypeOK, StoresInv
        PROVE  SeenWithTheirRole
    <2>1. SUFFICES ASSUME NEW p \in People, Live(p), Has(users[p], "role"), p \notin outdated
                   PROVE  /\ accounts[p].claim = users[p].role \/ (accounts[p].claim = "none" /\ p \in cut)
                          /\ tokens[p] # "none"
                          /\ Authenticated(p) =>
                                \A role \in {"student", "teacher"} : Admitted(p, {role}) <=> role = users[p].role
      BY DEF SeenWithTheirRole
    <2>2. RoleInv(p) /\ ClaimInv(p)
      BY <1>2, <2>1 DEF StoresInv, PersonInv
    <2>3. users[p] # NoDoc /\ users[p].role = RoleOf(p)
      BY <2>1, <2>2 DEF RoleInv, ResolveUserRole, Has
    <2>4. Told(p) /\ (accounts[p].claim = RoleOf(p) \/ (accounts[p].claim = "none" /\ p \in cut))
      BY <2>1, <2>2, <2>3 DEF ClaimInv
    <2>5. RoleOf(p) \in {"student", "teacher"}
      BY DEF RoleOf
    <2> QED
      BY <2>3, <2>4, <2>5 DEF Told, Authenticated, Admitted, RoleSeen
  <1>3. ASSUME PeopleTypeOK, StoresInv
        PROVE  EmailsAgree
    <2>1. SUFFICES ASSUME NEW p \in People, Live(p), Has(users[p], "email"), p \notin outdated \cup cut,
                          ~Busy(p, {"email"})
                   PROVE  users[p].email = accounts[p].email
      BY DEF EmailsAgree
    <2>2. EmailInv(p)
      BY <1>3, <2>1 DEF StoresInv, PersonInv
    <2>3. ~On(p, {"email"}, {"doc", "undo"})
      BY <2>1 DEF Busy, On, IsAt
    <2> QED
      BY <2>1, <2>2, <2>3 DEF EmailInv
  <1>4. PeopleTypeOK /\ StoresInv => TheStoresAgree
    BY <1>1, <1>2, <1>3 DEF TheStoresAgree
  <1> QED
    BY <1>4, Stores, PTL
=============================================================================
