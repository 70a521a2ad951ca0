--------------------------- MODULE Library_proofs ---------------------------
(***************************************************************************)
(* Theorems about module Library, for any number of lessons, topics,       *)
(* materials, assets, panels and listeners, with no bound on requests and  *)
(* on those that stop half way; and about module Supply, for any number of *)
(* panels, modules, repeated saves and stopped requests.                   *)
(***************************************************************************)
EXTENDS LibraryProperties, SupplyProperties, FiniteSetTheorems, WellFoundedInduction, TLAPS

-----------------------------------------------------------------------------
(* The order of a new lesson *)

\* Among finitely many there is one with the greatest measure.
LEMMA OneIsGreatest ==
    ASSUME NEW S, IsFiniteSet(S), S # {}, NEW f, \A x \in S : f[x] \in Nat
    PROVE  \E x \in S : \A y \in S : f[x] >= f[y]
PROOF
  <1> DEFINE Has(T) == \E x \in T : \A y \in T : f[x] >= f[y]
             Bad == {T \in SUBSET S : T # {} /\ ~Has(T)}
  <1>1. SUFFICES ASSUME Bad # {} PROVE FALSE
    OBVIOUS
  <1>2. IsWellFoundedOn(StrictSubsetOrdering(S), SUBSET S)
    BY FS_StrictSubsetOrderingWellFounded, FS_FiniteSubsetsOfFinite
  <1>3. PICK T \in Bad : \A U \in Bad : ~(<<U, T>> \in StrictSubsetOrdering(S))
    <2> HIDE DEF Bad
    <2>1. Bad \subseteq SUBSET S
      BY DEF Bad
    <2> QED
      BY <1>1, <1>2, <2>1, WFMin
  <1>4. PICK x \in T : TRUE
    OBVIOUS
  <1> DEFINE U == T \ {x}
  <1>5. U \notin Bad
    <2>1. <<U, T>> \in StrictSubsetOrdering(S)
      BY <1>4 DEF StrictSubsetOrdering
    <2> QED
      BY <1>3, <2>1
  <1>6. CASE U = {}
    BY <1>4, <1>6
  <1>7. CASE U # {}
    <2>1. PICK y \in U : \A z \in U : f[y] >= f[z]
      BY <1>5, <1>7
    <2>2. f[x] \in Nat /\ f[y] \in Nat /\ \A z \in T : f[z] \in Nat
      BY <1>4, <2>1
    <2>3. CASE f[x] >= f[y]
      <3>1. \A z \in T : f[x] >= f[z]
        BY <2>1, <2>2, <2>3
      <3> QED
        BY <1>4, <3>1
    <2>4. CASE ~(f[x] >= f[y])
      <3>1. \A z \in T : f[y] >= f[z]
        BY <2>1, <2>2, <2>4
      <3> QED
        BY <2>1, <3>1
    <2> QED
      BY <2>3, <2>4
  <1> QED
    BY <1>6, <1>7

-----------------------------------------------------------------------------
(* The stores, and what a document or a copy of one says *)

Statuses == {"uploading", "processing", "ready", "errored"}
Outcomes == {"ready", "errored"}
MaterialStates == {"none", "uploading", "ready"}
LessonDocs ==
    [topic : Topics, order : Nat, status : Statuses, asset : Assets \cup {NoAsset},
     materials : [Materials -> MaterialStates]]
FileStates == {"unused", "awaited", "ok", "oversize", "gone"}
AssetStates == {"none", "preparing"} \cup Outcomes
MuxAssets == [lesson : Lessons \cup {NoDoc}, state : AssetStates, deleted : BOOLEAN]

\* A reading of lesson l, however old: its asset, if it has one, was made for it
\* and has the outcome it tells, and its materials had an upload.
DocOK(l, doc) ==
    /\ doc \in LessonDocs
    /\ doc.status = "uploading" <=> doc.asset = NoAsset
    /\ doc.asset # NoAsset =>
          assets[doc.asset].lesson = l /\ assets[doc.asset].state # "none"
    /\ doc.status \in Outcomes => assets[doc.asset].state = doc.status
    /\ \A m \in Materials : doc.materials[m] # "none" => files[l][m] # "unused"

StoresOK ==
    /\ docs = [l \in Lessons |-> docs[l]]
    /\ \A l \in Lessons : docs[l] # NoDoc => DocOK(l, docs[l])
    /\ files \in [Lessons -> [Files -> FileStates]]
    /\ assets \in [Assets -> MuxAssets]
    /\ \A a \in Assets : assets[a].state # "none" => assets[a].lesson \in Lessons
    /\ DOMAIN level \subseteq Topics

-----------------------------------------------------------------------------
(* What a request knows *)

\* The operations that begin with the document of a lesson.
Readers == {"update", "remove", "complete", "add", "material", "unmaterial"}
Reporters == {"event", "sync"}

IsRequest(r) ==
    r = [op |-> r.op, pc |-> r.pc, id |-> r.id, arg |-> r.arg, copy |-> r.copy, got |-> r.got]

RequestsOK ==
    /\ requests = [k \in Slots |-> requests[k]]
    /\ \A k \in Slots : IsRequest(requests[k])

Remembers(k) ==
    requests[k].op \in Reporters \/ (requests[k].op \in Readers /\ requests[k].pc # "get")

\* A place in the topic t, with the topics of the reading where t was found.
Placed(got, t) ==
    got = [order |-> got.order, topics |-> got.topics] /\ got.order \in Nat /\ t \in got.topics

CreateOK(r) ==
    r.arg \in Topics /\ r.copy = NoDoc /\ (r.pc \in {"siblings", "save"} => Placed(r.got, r.arg))
UpdateOK(r) ==
    /\ r.arg \in Topics \cup {NoArg}
    /\ r.pc \in {"siblings", "save"} => r.arg \in {NoArg, r.copy.topic} \/ Placed(r.got, r.arg)
ReorderOK(r) ==
    r.pc = "save" => DOMAIN r.got \subseteq Lessons /\ \A l \in DOMAIN r.got : r.got[l] \in Nat
RemoveOK(r) ==
    r.pc \in {"files", "delete"} =>
        r.copy.asset = NoAsset \/ assets[r.copy.asset].deleted \/ r.id \in cut
CompleteOK(r) ==
    /\ r.pc # "get" => r.copy.status = "uploading"
    /\ r.pc = "save" => r.got \in Assets /\ assets[r.got].lesson = r.id
                        /\ assets[r.got].state # "none"
ReportOK(r) ==
    /\ r.pc \in {"asset", "apply"}
    /\ r.arg \in Assets /\ r.copy.asset = r.arg
    /\ r.pc = "apply" => r.got \in Outcomes /\ assets[r.arg].state = r.got
AddOK(r) == r.arg \in Materials /\ files[r.id][r.arg] = "unused"
MaterialOK(r) ==
    /\ r.arg \in Materials
    /\ r.pc # "get" => r.copy.materials[r.arg] = "uploading"
    /\ r.pc = "save" => r.got \in {"ready", "none"}
\* The count found no lesson outside of the topics that are kept.
LevelOK(r) == DOMAIN r.arg \subseteq Topics /\ (r.pc = "save" => r.got \subseteq DOMAIN r.arg)
TopicOK(r) == r.arg \in Topics /\ (r.pc = "save" => DOMAIN r.copy \subseteq Topics)

KnowsOK(r) ==
    /\ r.op = "create" => CreateOK(r)
    /\ r.op = "update" => UpdateOK(r)
    /\ r.op = "reorder" => ReorderOK(r)
    /\ r.op = "remove" => RemoveOK(r)
    /\ r.op = "complete" => CompleteOK(r)
    /\ r.op \in Reporters => ReportOK(r)
    /\ r.op = "add" => AddOK(r)
    /\ r.op = "material" => MaterialOK(r)
    /\ r.op = "unmaterial" => r.arg \in Materials
    /\ r.op = "level" => LevelOK(r)
    /\ r.op = "topic" => TopicOK(r)

RequestOK(k) ==
    LET r == requests[k] IN
    /\ r.op \in {"create"} \cup Readers \cup Reporters => r.id \in Lessons
    /\ r.op \in {"remove", "unmaterial"} => k \in Clients
    /\ r.pc = "siblings" => r.op \in {"create", "update"}
    /\ r.pc = "apply" => r.op \in Reporters
    /\ Remembers(k) => DocOK(r.id, r.copy)
    /\ KnowsOK(r)

\* Two uploads are of two materials.
Distinct(i, k) ==
    i # k /\ requests[i].op = "add" /\ requests[k].op = "add" =>
        requests[i].arg # requests[k].arg

ShapeInv ==
    /\ StoresOK /\ RequestsOK
    /\ \A k \in Slots : RequestOK(k)
    /\ \A i, k \in Slots : Distinct(i, k)

-----------------------------------------------------------------------------
(* The invariants proper *)

\* An asset is in the document of its lesson or in the hands of a completion.
Saving(k, a) == At(k, "complete", "save") /\ requests[k].got = a
Named(a) == docs[assets[a].lesson] # NoDoc /\ docs[assets[a].lesson].asset = a
Paid(a) == assets[a].state # "none" /\ ~assets[a].deleted /\ assets[a].lesson \notin outdated \cup cut
KnownInv == \A a \in Assets : Paid(a) => Named(a) \/ \E k \in Slots : Saving(k, a)

\* A lesson is under a topic, whatever its status.
FoundInv == \A l \in Lessons \ outdated : docs[l] # NoDoc => docs[l].topic \in DOMAIN level

\* The file is about to be, or was just, taken away by a removal that will say so.
Taking(k, l, m) ==
    /\ requests[k].id = l
    /\ \/ At(k, "remove", "delete")
       \/ At(k, "unmaterial", "save") /\ requests[k].arg = m

\* A completion that found the file and will say so.
Checked(k, l, m) ==
    At(k, "material", "save") /\ requests[k].id = l /\ requests[k].arg = m
    /\ requests[k].got = "ready"

\* The document says that a material is there, or is about to.
Offered(l, m) ==
    /\ docs[l] # NoDoc
    /\ \/ docs[l].materials[m] = "ready"
       \/ docs[l].materials[m] = "uploading" /\ \E k \in Slots : Checked(k, l, m)

FileInv ==
    \A l \in Lessons \ (outdated \cup cut), m \in Materials :
        Offered(l, m) => files[l][m] = "ok" \/ \E k \in Slots : Taking(k, l, m)

AgreementInv == KnownInv /\ FoundInv /\ FileInv

LibraryInv == ShapeInv /\ AgreementInv

-----------------------------------------------------------------------------
(* The documents a handler makes *)

\* What a change of the place of a lesson, or of nothing, keeps of it.
SameVideo(doc, copy) ==
    doc.status = copy.status /\ doc.asset = copy.asset /\ doc.materials = copy.materials
SamePlace(doc, copy) == doc.topic = copy.topic /\ doc.order = copy.order

LEMMA FieldsOfDoc ==
    ASSUME NEW doc \in LessonDocs
    PROVE  /\ doc = [topic |-> doc.topic, order |-> doc.order, status |-> doc.status,
                     asset |-> doc.asset, materials |-> doc.materials]
           /\ doc.topic \in Topics /\ doc.order \in Nat /\ doc.status \in Statuses
           /\ doc.asset \in Assets \cup {NoAsset}
           /\ doc.materials \in [Materials -> MaterialStates]
           /\ doc # NoDoc
PROOF
  <1>1. doc # NoDoc
    BY LibraryAssumption DEF LessonDocs, Statuses, MaterialStates
  <1> QED
    BY <1>1 DEF LessonDocs

LEMMA NewLessonForms ==
    ASSUME NEW t \in Topics, NEW n \in Nat
    PROVE  /\ NewLesson(t, n) \in LessonDocs /\ NewLesson(t, n).topic = t
           /\ NewLesson(t, n).status = "uploading" /\ NewLesson(t, n).asset = NoAsset
           /\ \A m \in Materials : NewLesson(t, n).materials[m] = "none"
PROOF
  <1>1. NoMaterial \in [Materials -> MaterialStates]
    BY DEF NoMaterial, MaterialStates
  <1>2. \A m \in Materials : NoMaterial[m] = "none"
    BY DEF NoMaterial
  <1> QED
    BY <1>1, <1>2 DEF NewLesson, LessonDocs, Statuses

LEMMA MovedForms ==
    ASSUME NEW copy \in LessonDocs, NEW t \in Topics, NEW n \in Nat
    PROVE  /\ [copy EXCEPT !.topic = t, !.order = n] \in LessonDocs
           /\ [copy EXCEPT !.topic = t, !.order = n].topic = t
           /\ SameVideo([copy EXCEPT !.topic = t, !.order = n], copy)
PROOF BY DEF LessonDocs, SameVideo

LEMMA PlacedForms ==
    ASSUME NEW t, NEW n \in Nat
    PROVE  /\ Placed([order |-> 0, topics |-> DOMAIN level], t) <=> t \in DOMAIN level
           /\ \A got : Placed(got, t) => Placed([got EXCEPT !.order = n], t)
PROOF
  <1>1. Placed([order |-> 0, topics |-> DOMAIN level], t) <=> t \in DOMAIN level
    BY DEF Placed
  <1>2. ASSUME NEW got, Placed(got, t) PROVE Placed([got EXCEPT !.order = n], t)
    <2>1. [got EXCEPT !.order = n] = [order |-> n, topics |-> got.topics]
      BY <1>2 DEF Placed
    <2> QED
      BY <1>2, <2>1 DEF Placed
  <1> QED
    BY <1>1, <1>2

LEMMA OrderedForms ==
    ASSUME NEW copy \in LessonDocs, NEW n \in Nat
    PROVE  /\ [copy EXCEPT !.order = n] \in LessonDocs
           /\ [copy EXCEPT !.order = n].topic = copy.topic
           /\ SameVideo([copy EXCEPT !.order = n], copy)
PROOF BY DEF LessonDocs, SameVideo

LEMMA ProcessingForms ==
    ASSUME NEW copy \in LessonDocs, NEW a \in Assets, NEW status \in Statuses
    PROVE  LET doc == [copy EXCEPT !.status = status, !.asset = a]
           IN  /\ doc \in LessonDocs /\ SamePlace(doc, copy) /\ doc.materials = copy.materials
               /\ doc.status = status /\ doc.asset = a
PROOF BY DEF LessonDocs, SamePlace

LEMMA StatusForms ==
    ASSUME NEW copy \in LessonDocs, NEW status \in Statuses
    PROVE  LET doc == [copy EXCEPT !.status = status]
           IN  /\ doc \in LessonDocs /\ SamePlace(doc, copy) /\ doc.materials = copy.materials
               /\ doc.status = status /\ doc.asset = copy.asset
PROOF BY DEF LessonDocs, SamePlace

\* An outcome is applied to the asset the copy names.
LEMMA AppliedForms ==
    ASSUME NEW copy \in LessonDocs, NEW a \in Assets, copy.asset = a, NEW state \in Outcomes
    PROVE  LET doc == Apply(copy, a, state)
           IN  /\ doc \in LessonDocs /\ SamePlace(doc, copy) /\ doc.materials = copy.materials
               /\ doc.status = state /\ doc.asset = a
PROOF
  <1>1. CASE state = "ready"
    BY <1>1 DEF Apply, LessonDocs, SamePlace, Statuses
  <1>2. CASE state = "errored"
    BY <1>2 DEF Apply, LessonDocs, SamePlace, Statuses
  <1> QED
    BY <1>1, <1>2 DEF Outcomes

\* The other materials of two readings are the same.
SameOthers(doc, copy, m) == \A n \in Materials \ {m} : doc.materials[n] = copy.materials[n]

WithMaterial(copy, m, status) == [copy EXCEPT !.materials[m] = status]

LEMMA MaterialForms ==
    ASSUME NEW copy \in LessonDocs, NEW m \in Materials,
           NEW status \in MaterialStates
    PROVE  /\ WithMaterial(copy, m, status) \in LessonDocs
           /\ SamePlace(WithMaterial(copy, m, status), copy)
           /\ WithMaterial(copy, m, status).status = copy.status
           /\ WithMaterial(copy, m, status).asset = copy.asset
           /\ WithMaterial(copy, m, status).materials[m] = status
           /\ SameOthers(WithMaterial(copy, m, status), copy, m)
PROOF
  <1> DEFINE materials == [copy.materials EXCEPT ![m] = status]
  <1>1. /\ materials \in [Materials -> MaterialStates]
        /\ materials[m] = status
        /\ \A n \in Materials \ {m} : materials[n] = copy.materials[n]
    BY FieldsOfDoc
  <1> HIDE DEF materials
  <1>2. WithMaterial(copy, m, status) = [copy EXCEPT !.materials = materials]
    BY DEF materials, WithMaterial
  <1>3. LET doc == [copy EXCEPT !.materials = materials]
        IN  /\ doc \in LessonDocs /\ SamePlace(doc, copy)
            /\ doc.status = copy.status /\ doc.asset = copy.asset /\ doc.materials = materials
    BY <1>1 DEF LessonDocs, SamePlace
  <1> QED
    BY <1>1, <1>2, <1>3 DEF SameOthers

\* The order of a new lesson is one, whatever the lessons of the topic.
LEMMA NextOrderIsOne ==
    ASSUME StoresOK, NEW t
    PROVE  NextOrder(t) \in Nat
PROOF
  <1> DEFINE S == InTopic(t)
             f == [l \in S |-> docs[l].order]
             Orders == {docs[l].order + 1 : l \in S} \cup {0}
  <1>1. IsFiniteSet(S) /\ S \subseteq Lessons
    <2>1. S \in SUBSET Lessons
      BY DEF InTopic, Present
    <2> QED
      BY <2>1, LibraryAssumption, FS_Subset
  <1>2. \A l \in S : docs[l].order \in Nat /\ f[l] = docs[l].order
    BY <1>1, FieldsOfDoc DEF StoresOK, DocOK, InTopic, Present
  <1> HIDE DEF S, f
  <1>3. Orders \subseteq Nat
    BY <1>2
  <1>4. \E x \in Orders : \A y \in Orders : x >= y
    <2>1. CASE S = {}
      BY <2>1
    <2>2. CASE S # {}
      <3>1. \A l \in S : f[l] \in Nat
        BY <1>2
      <3>2. PICK l \in S : \A k \in S : f[l] >= f[k]
        BY <1>1, <2>2, <3>1, OneIsGreatest
      <3>3. \A k \in S : docs[l].order + 1 >= docs[k].order + 1
        BY <1>2, <3>2
      <3>4. \A y \in Orders : docs[l].order + 1 >= y
        BY <1>2, <3>2, <3>3
      <3> QED
        BY <3>2, <3>4
    <2> QED
      BY <2>1, <2>2
  <1> HIDE DEF Orders
  <1>5. Max(Orders) \in Orders
    BY <1>4 DEF Max
  <1>6. NextOrder(t) = Max(Orders)
    BY DEF NextOrder, Orders, S
  <1> QED
    BY <1>3, <1>5, <1>6

-----------------------------------------------------------------------------
(* How a request moves *)

OthersStay(k) == RequestsOK' /\ \A i \in Slots \ {k} : requests'[i] = requests[i]

Ended(k) == OthersStay(k) /\ requests'[k] = Idle

Moved(k, op, pc, id, arg, copy, got) ==
    /\ OthersStay(k)
    /\ requests'[k].op = op /\ requests'[k].pc = pc /\ requests'[k].id = id
    /\ requests'[k].arg = arg /\ requests'[k].copy = copy /\ requests'[k].got = got

Went(k, pc, got) ==
    Moved(k, requests[k].op, pc, requests[k].id, requests[k].arg, requests[k].copy, got)
Recalled(k, pc, copy) ==
    Moved(k, requests[k].op, pc, requests[k].id, requests[k].arg, copy, requests[k].got)

LEMMA EndMoves ==
    ASSUME RequestsOK, NEW k \in Slots, End(k)
    PROVE  Ended(k)
PROOF BY DEF RequestsOK, End, Ended, OthersStay, Idle, IsRequest

\* A request is replaced by another.
LEMMA ReplacedMoves ==
    ASSUME RequestsOK, NEW k \in Slots, NEW op, NEW pc, NEW id, NEW arg, NEW copy, NEW got,
           requests' = [requests EXCEPT ![k] = [op |-> op, pc |-> pc, id |-> id, arg |-> arg,
                                                copy |-> copy, got |-> got]]
    PROVE  Moved(k, op, pc, id, arg, copy, got)
PROOF BY DEF RequestsOK, IsRequest, Moved, OthersStay

LEMMA ProceedMoves ==
    ASSUME RequestsOK, NEW k \in Slots, NEW pc, NEW got, Proceed(k, pc, got)
    PROVE  Went(k, pc, got)
PROOF
  <1>1. IsRequest(requests[k])
    BY DEF RequestsOK
  <1>2. /\ requests' = [i \in Slots |-> requests'[i]]
        /\ \A i \in Slots \ {k} : requests'[i] = requests[i]
        /\ requests'[k] = [[requests[k] EXCEPT !.pc = pc] EXCEPT !.got = got]
    BY DEF RequestsOK, Proceed
  <1>3. requests'[k] = [op |-> requests[k].op, pc |-> pc, id |-> requests[k].id,
                        arg |-> requests[k].arg, copy |-> requests[k].copy, got |-> got]
    BY <1>1, <1>2 DEF IsRequest
  <1>4. IsRequest(requests'[k])
    BY <1>3 DEF IsRequest
  <1>5. RequestsOK'
    BY <1>2, <1>4 DEF RequestsOK
  <1> QED
    BY <1>2, <1>3, <1>5 DEF Went, Moved, OthersStay

LEMMA RecallMoves ==
    ASSUME RequestsOK, NEW k \in Slots, NEW pc, NEW copy,
           requests' = [requests EXCEPT ![k].pc = pc, ![k].copy = copy]
    PROVE  Recalled(k, pc, copy)
PROOF
  <1>1. IsRequest(requests[k])
    BY DEF RequestsOK
  <1>2. /\ requests' = [i \in Slots |-> requests'[i]]
        /\ \A i \in Slots \ {k} : requests'[i] = requests[i]
        /\ requests'[k] = [[requests[k] EXCEPT !.pc = pc] EXCEPT !.copy = copy]
    BY DEF RequestsOK
  <1>3. requests'[k] = [op |-> requests[k].op, pc |-> pc, id |-> requests[k].id,
                        arg |-> requests[k].arg, copy |-> copy, got |-> requests[k].got]
    BY <1>1, <1>2 DEF IsRequest
  <1>4. IsRequest(requests'[k])
    BY <1>3 DEF IsRequest
  <1>5. RequestsOK'
    BY <1>2, <1>4 DEF RequestsOK
  <1> QED
    BY <1>2, <1>3, <1>5 DEF Recalled, Moved, OthersStay

LEMMA RequestIs ==
    ASSUME NEW op, NEW pc, NEW id, NEW arg
    PROVE  Request(op, pc, id, arg) =
             [op |-> op, pc |-> pc, id |-> id, arg |-> arg, copy |-> NoDoc, got |-> NoArg]
PROOF
  <1> DEFINE a == [Idle EXCEPT !.op = op]
             b == [a EXCEPT !.pc = pc]
             c == [b EXCEPT !.id = id]
  <1>1. a = [op |-> op, pc |-> "none", id |-> NoDoc, arg |-> NoArg,
             copy |-> NoDoc, got |-> NoArg]
    BY DEF Idle
  <1> HIDE DEF a
  <1>2. b = [op |-> op, pc |-> pc, id |-> NoDoc, arg |-> NoArg, copy |-> NoDoc, got |-> NoArg]
    BY <1>1
  <1> HIDE DEF b
  <1>3. c = [op |-> op, pc |-> pc, id |-> id, arg |-> NoArg, copy |-> NoDoc, got |-> NoArg]
    BY <1>2
  <1>4. Request(op, pc, id, arg) = [c EXCEPT !.arg = arg]
    BY DEF Request, a, b
  <1> QED
    BY <1>3, <1>4

\* The stores, but for the history of what was outdated.
StoresSame == UNCHANGED <<docs, level, files, assets>>

Began(k, op, pc, id, arg) ==
    /\ Moved(k, op, pc, id, arg, NoDoc, NoArg)
    /\ requests[k] = Idle /\ StoresSame /\ UNCHANGED <<outdated, cut>>

LEMMA BeginMoves ==
    ASSUME RequestsOK, NEW k \in Slots, NEW op, NEW pc, NEW id, NEW arg,
           Begin(k, Request(op, pc, id, arg))
    PROVE  Began(k, op, pc, id, arg)
PROOF
  <1>1. /\ requests' = [requests EXCEPT ![k] =
                          [op |-> op, pc |-> pc, id |-> id, arg |-> arg,
                           copy |-> NoDoc, got |-> NoArg]]
        /\ requests[k] = Idle /\ StoresSame /\ UNCHANGED <<outdated, cut>>
    BY RequestIs DEF Begin, StoresSame
  <1> QED
    BY <1>1, ReplacedMoves DEF Began

\* The two ways a report begins, with what it read of its lesson.
LEMMA MuxEventMoves ==
    ASSUME RequestsOK, NEW k \in Slots, NEW a, MuxEvent(k, a)
    PROVE  LET l == assets[a].lesson
           IN  /\ Moved(k, "event", "apply", l, a, docs[l], assets[a].state)
               /\ docs[l] # NoDoc /\ docs[l].asset = a /\ docs[l].status = "processing"
               /\ assets[a].state \in Outcomes
               /\ requests[k] = Idle /\ StoresSame /\ UNCHANGED <<outdated, cut>>
PROOF
  <1> DEFINE l == assets[a].lesson
             r == Request("event", "apply", l, a)
             s == [r EXCEPT !.copy = docs[l]]
  <1>1. r = [op |-> "event", pc |-> "apply", id |-> l, arg |-> a, copy |-> NoDoc, got |-> NoArg]
    BY RequestIs
  <1> HIDE DEF r
  <1>2. s = [op |-> "event", pc |-> "apply", id |-> l, arg |-> a, copy |-> docs[l], got |-> NoArg]
    BY <1>1
  <1>3. /\ requests' = [requests EXCEPT ![k] = [s EXCEPT !.got = assets[a].state]]
        /\ docs[l] # NoDoc /\ docs[l].asset = a /\ docs[l].status = "processing"
        /\ assets[a].state \in Outcomes
        /\ requests[k] = Idle /\ StoresSame /\ UNCHANGED <<outdated, cut>>
    BY DEF MuxEvent, r, Accepts, OnlyRequests, StoresSame, Outcomes
  <1> HIDE DEF s
  <1>4. [s EXCEPT !.got = assets[a].state] =
          [op |-> "event", pc |-> "apply", id |-> l, arg |-> a,
           copy |-> docs[l], got |-> assets[a].state]
    BY <1>2
  <1>5. Moved(k, "event", "apply", l, a, docs[l], assets[a].state)
    BY <1>3, <1>4, ReplacedMoves
  <1> QED
    BY <1>3, <1>5

LEMMA SyncMoves ==
    ASSUME RequestsOK, NEW k \in Slots, NEW l, Sync(k, l)
    PROVE  /\ Moved(k, "sync", "asset", l, docs[l].asset, docs[l], NoArg)
           /\ docs[l] # NoDoc /\ docs[l].status = "processing"
           /\ requests[k] = Idle /\ StoresSame /\ UNCHANGED <<outdated, cut>>
PROOF
  <1> DEFINE r == Request("sync", "asset", l, docs[l].asset)
  <1>1. r = [op |-> "sync", pc |-> "asset", id |-> l, arg |-> docs[l].asset,
             copy |-> NoDoc, got |-> NoArg]
    BY RequestIs
  <1>2. /\ requests' = [requests EXCEPT ![k] = [r EXCEPT !.copy = docs[l]]]
        /\ docs[l] # NoDoc /\ docs[l].status = "processing"
        /\ requests[k] = Idle /\ StoresSame /\ UNCHANGED <<outdated, cut>>
    BY DEF Sync, OnlyRequests, StoresSame
  <1> HIDE DEF r
  <1>3. [r EXCEPT !.copy = docs[l]] =
          [op |-> "sync", pc |-> "asset", id |-> l, arg |-> docs[l].asset,
           copy |-> docs[l], got |-> NoArg]
    BY <1>1
  <1>4. Moved(k, "sync", "asset", l, docs[l].asset, docs[l], NoArg)
    BY <1>2, <1>3, ReplacedMoves
  <1> QED
    BY <1>2, <1>4

\* The first read of a handler: the request ends, or remembers the document.
LEMMA GetOrThrowMoves ==
    ASSUME RequestsOK, NEW k \in Slots, NEW op, NEW next, GetOrThrow(k, op, next)
    PROVE  /\ At(k, op, "get") /\ StoresSame /\ UNCHANGED <<outdated, cut>>
           /\ \/ Ended(k)
              \/ /\ docs[requests[k].id] # NoDoc /\ next # "end"
                 /\ Recalled(k, next, docs[requests[k].id])
PROOF
  <1> DEFINE doc == docs[requests[k].id]
  <1>1. /\ At(k, op, "get") /\ StoresSame /\ UNCHANGED <<outdated, cut>>
        /\ \/ End(k)
           \/ /\ doc # NoDoc /\ next # "end"
              /\ requests' = [requests EXCEPT ![k].pc = next, ![k].copy = doc]
    BY DEF GetOrThrow, OnlyRequests, StoresSame
  <1> QED
    BY <1>1, EndMoves, RecallMoves

-----------------------------------------------------------------------------
(* What a step leaves of what was read *)

\* An asset that exists stays with its lesson, and its outcome is final.
AssetsStep ==
    \A a \in Assets : assets[a].state # "none" =>
        /\ assets'[a].lesson = assets[a].lesson /\ assets'[a].state # "none"
        /\ assets[a].state \in Outcomes => assets'[a].state = assets[a].state
        /\ assets[a].deleted => assets'[a].deleted

\* A file that was asked for is never as if it had not been.
FilesStep == \A l \in Lessons : \A m \in Materials :
    files[l][m] # "unused" => files'[l][m] # "unused"

\* Only the request that adds a material opens its upload.
UnusedStep(k) == \A l \in Lessons : \A m \in Materials :
    files[l][m] = "unused" =>
        files'[l][m] = "unused" \/ (requests[k].op = "add" /\ requests[k].arg = m)

Grows == AssetsStep /\ FilesStep /\ cut \subseteq cut'

LEMMA DocKeeps ==
    ASSUME NEW l \in Lessons, NEW doc, DocOK(l, doc), Grows
    PROVE  DocOK(l, doc)'
PROOF
  <1>1. doc.asset \in Assets \cup {NoAsset} /\ doc \in LessonDocs
    BY DEF DocOK, LessonDocs
  <1>2. doc.asset # NoAsset =>
          /\ assets'[doc.asset].lesson = l /\ assets'[doc.asset].state # "none"
          /\ doc.status \in Outcomes => assets'[doc.asset].state = doc.status
    BY <1>1 DEF DocOK, Grows, AssetsStep
  <1>3. doc.status \in Outcomes => doc.asset # NoAsset
    BY DEF DocOK, Outcomes
  <1> QED
    BY <1>1, <1>2, <1>3 DEF DocOK, Grows, FilesStep

\* What a request knows stays true while it waits.
LEMMA RequestKeeps ==
    ASSUME NEW k \in Slots, RequestOK(k), requests'[k] = requests[k], Grows,
           requests[k].op = "add" =>
              files'[requests[k].id][requests[k].arg] = "unused"
    PROVE  RequestOK(k)'
PROOF
  <1>1. PICK r : r = requests[k]
    OBVIOUS
  <1>2. r = requests'[k]
    BY <1>1
  <1>3. r.op \in {"create"} \cup Readers \cup Reporters => r.id \in Lessons
    BY <1>1 DEF RequestOK, KnowsOK
  <1>4. Remembers(k) => DocOK(r.id, r.copy)
    BY <1>1 DEF RequestOK, KnowsOK
  <1>5. Remembers(k)' <=> Remembers(k)
    BY DEF Remembers
  <1>6. Remembers(k) => r.id \in Lessons /\ DocOK(r.id, r.copy)'
    <2> SUFFICES ASSUME Remembers(k) PROVE r.id \in Lessons /\ DocOK(r.id, r.copy)'
      OBVIOUS
    <2>1. r.id \in Lessons
      BY <1>1, <1>3 DEF Remembers
    <2> QED
      BY <1>4, <2>1, DocKeeps
  <1>7. ASSUME r.op = "remove" PROVE RemoveOK(r)'
    <2>1. RemoveOK(r)
      BY <1>1, <1>7 DEF RequestOK, KnowsOK
    <2>2. CASE r.pc \in {"files", "delete"}
      <3>1. DocOK(r.id, r.copy)
        BY <1>1, <1>4, <1>7, <2>2 DEF Remembers, Readers
      <3>2. r.copy.asset # NoAsset =>
              r.copy.asset \in Assets /\ assets[r.copy.asset].state # "none"
        BY <3>1 DEF DocOK, LessonDocs
      <3> QED
        BY <2>1, <3>2 DEF RemoveOK, Grows, AssetsStep
    <2>3. CASE r.pc \notin {"files", "delete"}
      BY <2>3 DEF RemoveOK
    <2> QED
      BY <2>2, <2>3
  <1>8. ASSUME r.op = "complete" PROVE CompleteOK(r)'
    <2>1. CompleteOK(r)
      BY <1>1, <1>8 DEF RequestOK, KnowsOK
    <2> QED
      BY <2>1 DEF CompleteOK, Grows, AssetsStep
  <1>9. ASSUME r.op \in Reporters PROVE ReportOK(r)'
    <2>1. ReportOK(r)
      BY <1>1, <1>9 DEF RequestOK, KnowsOK
    <2>2. r.pc = "apply" => assets[r.arg].state \in Outcomes /\ assets[r.arg].state # "none"
      BY <2>1 DEF ReportOK, Outcomes
    <2> QED
      BY <2>1, <2>2 DEF ReportOK, Grows, AssetsStep
  <1>10. ASSUME r.op = "add" PROVE AddOK(r)'
    <2>1. AddOK(r)
      BY <1>1, <1>10 DEF RequestOK, KnowsOK
    <2> QED
      BY <1>1, <1>10, <2>1 DEF AddOK
  <1>11. /\ r.op \in {"remove", "unmaterial"} => k \in Clients
         /\ r.pc = "siblings" => r.op \in {"create", "update"}
         /\ r.pc = "apply" => r.op \in Reporters
         /\ r.op = "create" => CreateOK(r)
         /\ r.op = "update" => UpdateOK(r)
         /\ r.op = "reorder" => ReorderOK(r)
         /\ r.op = "material" => MaterialOK(r)
         /\ r.op = "unmaterial" => r.arg \in Materials
         /\ r.op = "level" => LevelOK(r)
         /\ r.op = "topic" => TopicOK(r)
    BY <1>1 DEF RequestOK, KnowsOK
  <1> QED
    BY <1>2, <1>3, <1>5, <1>4, <1>6, <1>7, <1>8, <1>9, <1>10, <1>11 DEF RequestOK, KnowsOK

LEMMA AddsStayUnused ==
    ASSUME ShapeInv, NEW k \in Slots, UnusedStep(k), NEW i \in Slots, i # k,
           requests[i].op = "add"
    PROVE  files'[requests[i].id][requests[i].arg] = "unused"
PROOF
  <1>1. requests[i].id \in Lessons /\ AddOK(requests[i])
    BY DEF ShapeInv, RequestOK, KnowsOK, Readers
  <1>2. requests[k].op = "add" => requests[k].arg # requests[i].arg
    BY DEF ShapeInv, Distinct
  <1> QED
    BY <1>1, <1>2 DEF AddOK, UnusedStep

\* A request moves, and what the others know is left.
LEMMA ShapeMoves ==
    ASSUME ShapeInv, NEW k \in Slots, OthersStay(k), Grows, UnusedStep(k),
           StoresOK', RequestOK(k)', \A i \in Slots \ {k} : Distinct(i, k)'
    PROVE  ShapeInv'
PROOF
  <1>1. ASSUME NEW i \in Slots PROVE RequestOK(i)'
    <2>1. CASE i = k
      BY <2>1
    <2>2. CASE i # k
      BY <2>2, RequestKeeps, AddsStayUnused DEF OthersStay, ShapeInv
    <2> QED
      BY <2>1, <2>2
  <1>2. ASSUME NEW i \in Slots, NEW j \in Slots PROVE Distinct(i, j)'
    <2>1. CASE i = j
      BY <2>1 DEF Distinct
    <2>2. CASE i # j /\ (i = k \/ j = k)
      BY <2>2 DEF Distinct
    <2>3. CASE i # k /\ j # k
      BY <2>3 DEF Distinct, OthersStay, ShapeInv
    <2> QED
      BY <2>1, <2>2, <2>3
  <1> QED
    BY <1>1, <1>2 DEF ShapeInv, OthersStay

\* No file is asked for: what the request is about does not change either.
LEMMA SameUploads ==
    ASSUME ShapeInv, NEW k \in Slots, OthersStay(k),
           requests'[k].op \in {requests[k].op, "none"}, requests'[k].op = "add" => requests'[k].arg = requests[k].arg
    PROVE  \A i \in Slots \ {k} : Distinct(i, k)'
PROOF BY DEF ShapeInv, OthersStay, Distinct

LEMMA SameStores ==
    ASSUME StoresOK, StoresSame
    PROVE  StoresOK'
PROOF
  <1>1. \A l \in Lessons : docs[l] # NoDoc => DocOK(l, docs[l])'
    BY DEF StoresOK, StoresSame, DocOK
  <1> QED
    BY <1>1 DEF StoresOK, StoresSame

\* The documents are changed, or what they speak of.
LEMMA StoresChange ==
    ASSUME StoresOK, Grows,
           docs' = [l \in Lessons |-> docs'[l]],
           \A l \in Lessons : docs'[l] \in {docs[l], NoDoc} \/ DocOK(l, docs[l])',
           files' \in [Lessons -> [Files -> FileStates]],
           assets' \in [Assets -> MuxAssets],
           \A a \in Assets : assets'[a].state # "none" => assets'[a].lesson \in Lessons,
           DOMAIN level' \subseteq Topics
    PROVE  StoresOK'
PROOF
  <1>1. ASSUME NEW l \in Lessons, docs'[l] # NoDoc
        PROVE  DocOK(l, docs[l])'
    <2>1. CASE docs'[l] = docs[l]
      <3>1. PICK doc : doc = docs[l]
        OBVIOUS
      <3>2. DocOK(l, doc)
        BY <1>1, <2>1, <3>1 DEF StoresOK
      <3>3. DocOK(l, doc)'
        BY <3>2, DocKeeps
      <3> QED
        BY <2>1, <3>1, <3>3
    <2>2. CASE DocOK(l, docs[l])'
      BY <2>2
    <2> QED
      BY <1>1, <2>1, <2>2
  <1> QED
    BY <1>1 DEF StoresOK

LEMMA StoresSameGrow ==
    ASSUME StoresSame, cut \subseteq cut', NEW k
    PROVE  Grows /\ UnusedStep(k)
PROOF BY DEF StoresSame, Grows, AssetsStep, FilesStep, UnusedStep

LEMMA EndedOK ==
    ASSUME NEW k, Ended(k)
    PROVE  RequestOK(k)'
PROOF BY DEF Ended, RequestOK, KnowsOK, Idle, Remembers, Readers, Reporters

\* A step that only moves its request.
LEMMA ShapeWent ==
    ASSUME ShapeInv, NEW k \in Slots, OthersStay(k), StoresSame, cut \subseteq cut',
           RequestOK(k)', requests'[k].op \in {requests[k].op, "none"},
           requests'[k].op = "add" => requests'[k].arg = requests[k].arg
    PROVE  ShapeInv'
PROOF
  <1>1. \A i \in Slots \ {k} : Distinct(i, k)'
    BY SameUploads
  <1>2. StoresOK'
    BY SameStores DEF ShapeInv
  <1> QED
    BY <1>1, <1>2, StoresSameGrow, ShapeMoves

LEMMA ShapeEnded ==
    ASSUME ShapeInv, NEW k \in Slots, Ended(k), StoresSame, cut \subseteq cut'
    PROVE  ShapeInv'
PROOF
  <1>1. requests'[k].op = "none"
    BY DEF Ended, Idle
  <1>2. OthersStay(k) /\ RequestOK(k)'
    BY EndedOK DEF Ended
  <1> QED
    BY <1>1, <1>2, ShapeWent

-----------------------------------------------------------------------------
(* The steps keep the shape *)

LEMMA SaveMoves ==
    ASSUME RequestsOK, NEW k \in Slots, NEW doc, NEW current, Save(k, doc, current)
    PROVE  /\ Ended(k) /\ docs' = [docs EXCEPT ![requests[k].id] = doc]
           /\ outdated \subseteq outdated'
           /\ (~current \/ docs[requests[k].id] # requests[k].copy) =>
                 requests[k].id \in outdated'
PROOF BY EndMoves DEF Save, Mark

LEMMA ShapeSaved ==
    ASSUME ShapeInv, NEW k \in Slots, Ended(k), Grows, UnusedStep(k), NEW doc,
           NEW id \in Lessons, docs' = [docs EXCEPT ![id] = doc],
           doc = NoDoc \/ DocOK(id, doc)',
           files' \in [Lessons -> [Files -> FileStates]], UNCHANGED <<assets, level>>
    PROVE  ShapeInv'
PROOF
  <1>1. requests'[k].op = "none" /\ OthersStay(k) /\ RequestOK(k)'
    BY EndedOK DEF Ended, Idle
  <1>2. \A i \in Slots \ {k} : Distinct(i, k)'
    BY <1>1, SameUploads
  <1>4. /\ docs' = [l \in Lessons |-> docs'[l]] /\ docs'[id] = doc
        /\ \A l \in Lessons \ {id} : docs'[l] = docs[l]
    BY DEF ShapeInv, StoresOK
  <1>6. ASSUME NEW l \in Lessons
        PROVE  docs'[l] \in {docs[l], NoDoc} \/ DocOK(l, docs[l])'
    BY <1>4
  <1>7. StoresOK'
    BY <1>4, <1>6, StoresChange DEF ShapeInv, StoresOK
  <1> QED
    BY <1>1, <1>2, <1>7, ShapeMoves

\* A save that touches nothing else.
LEMMA ShapeSavedAlone ==
    ASSUME ShapeInv, NEW k \in Slots, NEW doc, NEW current, Save(k, doc, current),
           requests[k].id \in Lessons, doc = NoDoc \/ DocOK(requests[k].id, doc),
           UNCHANGED <<level, files, assets, cut>>
    PROVE  ShapeInv'
PROOF
  <1>1. Grows /\ UnusedStep(k)
    BY DEF Grows, AssetsStep, FilesStep, UnusedStep
  <1>2. PICK id : id = requests[k].id
    OBVIOUS
  <1>3. doc # NoDoc => DocOK(id, doc)'
    BY <1>1, <1>2, DocKeeps
  <1>4. Ended(k) /\ docs' = [docs EXCEPT ![id] = doc]
    BY <1>2, SaveMoves DEF ShapeInv
  <1>5. /\ id \in Lessons /\ files' \in [Lessons -> [Files -> FileStates]]
        /\ UNCHANGED <<assets, level>>
    BY <1>2 DEF ShapeInv, StoresOK
  <1> QED
    BY <1>1, <1>3, <1>4, <1>5, ShapeSaved

FirstSteps == {"topic", "get", "list", "stored", "get level"}

\* What the panel may ask.
Sound(k, op, pc, id, arg) ==
    /\ pc \in FirstSteps /\ op \notin Reporters
    /\ op \in Readers => pc = "get"
    /\ op \in {"create"} \cup Readers => id \in Lessons
    /\ op \in {"remove", "unmaterial"} => k \in Clients
    /\ op = "create" => arg \in Topics
    /\ op = "update" => arg \in Topics \cup {NoArg}
    /\ op = "add" => arg \in Materials /\ files[id][arg] = "unused"
                     /\ \A d \in Slots : requests[d].op = "add" => requests[d].arg # arg
    /\ op \in {"material", "unmaterial"} => arg \in Materials
    /\ op = "level" => DOMAIN arg \subseteq Topics
    /\ op = "topic" => arg \in Topics

LEMMA ShapeBegan ==
    ASSUME ShapeInv, NEW k \in Slots, NEW op, NEW pc, NEW id, NEW arg,
           Begin(k, Request(op, pc, id, arg)), Sound(k, op, pc, id, arg)
    PROVE  ShapeInv'
PROOF
  <1>1. Began(k, op, pc, id, arg)
    BY BeginMoves DEF ShapeInv
  <1>2. PICK r : r = requests'[k]
    OBVIOUS
  <1>3. /\ r.op = op /\ r.pc = pc /\ r.id = id /\ r.arg = arg /\ r.copy = NoDoc
        /\ OthersStay(k) /\ StoresSame /\ cut' = cut
    BY <1>1, <1>2 DEF Began, Moved
  <1>4. pc \notin {"siblings", "apply", "save", "files", "delete"}
    BY DEF FirstSteps, Sound
  <1>5. ~Remembers(k)'
    BY <1>2, <1>3, <1>4 DEF Remembers, Sound
  <1>6. /\ r.op = "create" => CreateOK(r)
        /\ r.op = "update" => UpdateOK(r)
        /\ r.op = "reorder" => ReorderOK(r)
        /\ r.op = "level" => LevelOK(r)
        /\ r.op = "topic" => TopicOK(r)
        /\ r.op = "material" => MaterialOK(r)
    BY <1>3, <1>4 DEF CreateOK, UpdateOK, ReorderOK, LevelOK, TopicOK, MaterialOK, Readers, Sound
  <1>7. /\ r.op = "remove" => RemoveOK(r)'
        /\ r.op = "complete" => CompleteOK(r)'
        /\ r.op = "add" => AddOK(r)'
    BY <1>3, <1>4 DEF RemoveOK, CompleteOK, AddOK, Readers, StoresSame, Sound
  <1>8. RequestOK(k)'
    BY <1>2, <1>3, <1>4, <1>5, <1>6, <1>7 DEF RequestOK, KnowsOK, Sound
  <1>9. \A i \in Slots \ {k} : Distinct(i, k)'
    BY <1>2, <1>3 DEF Distinct, OthersStay, Sound
  <1>10. StoresOK'
    BY <1>3, SameStores DEF ShapeInv
  <1> QED
    BY <1>3, <1>8, <1>9, <1>10, StoresSameGrow, ShapeMoves

LEMMA AsksKeepShape ==
    ASSUME ShapeInv, NEW k \in Clients, PanelAsks(k)
    PROVE  ShapeInv'
PROOF
  <1> USE DEF FirstSteps, Reporters, Readers
  <1>1. k \in Slots /\ Present \subseteq Lessons
    BY DEF Slots, Present
  <1>2. ASSUME NEW l \in Lessons, NEW t \in Topics, Create(k, l, t) PROVE ShapeInv'
    <2>1. Sound(k, "create", "topic", l, t) /\ Begin(k, Request("create", "topic", l, t))
      BY <1>1, <1>2 DEF Create, Sound
    <2> QED
      BY <1>1, <2>1, ShapeBegan
  <1>3. ASSUME NEW l \in Lessons, NEW t \in Topics \cup {NoArg}, Update(k, l, t) PROVE ShapeInv'
    <2>1. Sound(k, "update", "get", l, t) /\ Begin(k, Request("update", "get", l, t))
      BY <1>1, <1>3 DEF Update, Sound
    <2> QED
      BY <1>1, <2>1, ShapeBegan
  <1>4. ASSUME NEW l \in Lessons, Remove(k, l) PROVE ShapeInv'
    <2>1. Sound(k, "remove", "get", l, NoArg) /\ Begin(k, Request("remove", "get", l, NoArg))
      BY <1>1, <1>4 DEF Remove, Sound
    <2> QED
      BY <1>1, <2>1, ShapeBegan
  <1>5. ASSUME NEW l \in Lessons, CompleteUpload(k, l) PROVE ShapeInv'
    <2>1. Sound(k, "complete", "get", l, NoArg) /\ Begin(k, Request("complete", "get", l, NoArg))
      BY <1>1, <1>5 DEF CompleteUpload, Sound
    <2> QED
      BY <1>1, <2>1, ShapeBegan
  <1>6. ASSUME NEW l \in Lessons, NEW m \in Materials, AddMaterial(k, l, m) PROVE ShapeInv'
    <2>1. Sound(k, "add", "get", l, m) /\ Begin(k, Request("add", "get", l, m))
      BY <1>1, <1>6 DEF AddMaterial, Sound
    <2> QED
      BY <1>1, <2>1, ShapeBegan
  <1>7. ASSUME NEW l \in Lessons, NEW m \in Materials, CompleteMaterial(k, l, m) PROVE ShapeInv'
    <2>1. Sound(k, "material", "get", l, m) /\ Begin(k, Request("material", "get", l, m))
      BY <1>1, <1>7 DEF CompleteMaterial, Sound
    <2> QED
      BY <1>1, <2>1, ShapeBegan
  <1>8. ASSUME NEW l \in Lessons, NEW m \in Materials, RemoveMaterial(k, l, m) PROVE ShapeInv'
    <2>1. Sound(k, "unmaterial", "get", l, m) /\ Begin(k, Request("unmaterial", "get", l, m))
      BY <1>1, <1>8 DEF RemoveMaterial, Sound
    <2> QED
      BY <1>1, <2>1, ShapeBegan
  <1>9. ASSUME NEW t \in Topics, Reorder(k, t) PROVE ShapeInv'
    <2>1. Sound(k, "reorder", "list", NoDoc, t) /\ Begin(k, Request("reorder", "list", NoDoc, t))
      BY <1>1, <1>9 DEF Reorder, Sound
    <2> QED
      BY <1>1, <2>1, ShapeBegan
  <1>10. ASSUME NEW t \in Topics, CreateVideoTopic(k, t) PROVE ShapeInv'
    <2>1. Sound(k, "topic", "get level", NoDoc, t) /\ Begin(k, Request("topic", "get level", NoDoc, t))
      BY <1>1, <1>10 DEF CreateVideoTopic, Sound
    <2> QED
      BY <1>1, <2>1, ShapeBegan
  <1>11. ASSUME NEW S \in SUBSET DOMAIN level, NEW said, UpsertLevel(k, [t \in S |-> said])
         PROVE  ShapeInv'
    <2>1. PICK kept : kept = [t \in S |-> said]
      OBVIOUS
    <2>2. DOMAIN kept \subseteq Topics
      BY <2>1 DEF ShapeInv, StoresOK
    <2>3. Begin(k, Request("level", "stored", NoDoc, kept))
      BY <1>11, <2>1 DEF UpsertLevel
    <2>4. Sound(k, "level", "stored", NoDoc, kept)
      BY <2>2 DEF Sound
    <2> QED
      BY <1>1, <2>3, <2>4, ShapeBegan
  <1> QED
    BY <1>1, <1>2, <1>3, <1>4, <1>5, <1>6, <1>7, <1>8, <1>9, <1>10, <1>11 DEF PanelAsks

-----------------------------------------------------------------------------
(* The handlers keep the shape *)

LEMMA KnowsItself ==
    ASSUME ShapeInv, NEW k \in Slots, NEW op, requests[k].op = op
    PROVE  /\ RequestOK(k) /\ KnowsOK(requests[k])
           /\ op \in {"create"} \cup Readers \cup Reporters => requests[k].id \in Lessons
           /\ op \in Reporters \/ (op \in Readers /\ requests[k].pc # "get") =>
                 DocOK(requests[k].id, requests[k].copy)
PROOF BY DEF ShapeInv, RequestOK, Remembers

\* A request that goes on to its next await with the document it remembers.
LEMMA ShapeWentOn ==
    ASSUME ShapeInv, NEW k \in Slots, NEW pc, NEW got, Went(k, pc, got),
           Grows, UnusedStep(k), StoresOK', KnowsOK(requests[k])',
           requests[k].op \in Readers => requests[k].pc # "get",
           pc = "siblings" => requests[k].op \in {"create", "update"},
           pc = "apply" => requests[k].op \in Reporters
    PROVE  ShapeInv'
PROOF
  <1>1. PICK r : r = requests[k]
    OBVIOUS
  <1>2. PICK s : s = requests'[k]
    OBVIOUS
  <1>3. /\ s.op = r.op /\ s.pc = pc /\ s.id = r.id /\ s.arg = r.arg /\ s.copy = r.copy
        /\ OthersStay(k)
    BY <1>1, <1>2 DEF Went, Moved
  <1>4. /\ r.op \in {"create"} \cup Readers \cup Reporters => r.id \in Lessons
        /\ r.op \in {"remove", "unmaterial"} => k \in Clients
        /\ r.op \in Readers \cup Reporters => DocOK(r.id, r.copy)
    BY <1>1 DEF ShapeInv, RequestOK, Remembers
  <1>5. r.op \in Readers \cup Reporters => DocOK(r.id, r.copy)'
    BY <1>4, DocKeeps
  <1>6. Remembers(k)' => DocOK(s.id, s.copy)'
    BY <1>2, <1>3, <1>5 DEF Remembers
  <1>7. RequestOK(k)'
    BY <1>1, <1>2, <1>3, <1>4, <1>6 DEF RequestOK
  <1>8. \A i \in Slots \ {k} : Distinct(i, k)'
    BY <1>1, <1>2, <1>3, SameUploads
  <1> QED
    BY <1>3, <1>7, <1>8, ShapeMoves

\* The stores are not touched.
LEMMA ShapeGoesOn ==
    ASSUME ShapeInv, NEW k \in Slots, NEW pc, NEW got, Proceed(k, pc, got), OnlyRequests,
           requests[k].op \in Readers => requests[k].pc # "get",
           pc = "siblings" => requests[k].op \in {"create", "update"},
           pc = "apply" => requests[k].op \in Reporters,
           Went(k, pc, got) => KnowsOK(requests[k])'
    PROVE  ShapeInv'
PROOF
  <1>1. Went(k, pc, got)
    BY ProceedMoves DEF ShapeInv
  <1>2. StoresSame /\ cut \subseteq cut'
    BY DEF OnlyRequests, StoresSame
  <1>3. StoresOK'
    BY <1>2, SameStores DEF ShapeInv
  <1>4. Grows /\ UnusedStep(k)
    BY <1>2, StoresSameGrow
  <1>5. KnowsOK(requests[k])'
    BY <1>1
  <1> QED
    BY <1>1, <1>3, <1>4, <1>5, ShapeWentOn

LEMMA ShapeEnds ==
    ASSUME ShapeInv, NEW k \in Slots, End(k), OnlyRequests
    PROVE  ShapeInv'
PROOF
  <1>1. Ended(k) /\ StoresSame /\ cut \subseteq cut'
    BY EndMoves DEF ShapeInv, OnlyRequests, StoresSame
  <1> QED
    BY <1>1, ShapeEnded

\* The document is read.
LEMMA ShapeReads ==
    ASSUME ShapeInv, NEW k \in Slots, NEW op, NEW next, GetOrThrow(k, op, next),
           op \in Readers, next \notin {"siblings", "apply"},
           docs[requests[k].id] # NoDoc /\ next # "end"
              /\ Recalled(k, next, docs[requests[k].id]) => KnowsOK(requests[k])'
    PROVE  ShapeInv'
PROOF
  <1>1. /\ At(k, op, "get") /\ StoresSame /\ UNCHANGED <<outdated, cut>>
        /\ \/ Ended(k)
           \/ /\ docs[requests[k].id] # NoDoc /\ next # "end"
              /\ Recalled(k, next, docs[requests[k].id])
    BY GetOrThrowMoves DEF ShapeInv
  <1>2. CASE Ended(k)
    BY <1>1, <1>2, ShapeEnded
  <1>3. CASE docs[requests[k].id] # NoDoc /\ next # "end" /\ Recalled(k, next, docs[requests[k].id])
    <2>1. PICK id : id = requests[k].id
      OBVIOUS
    <2>2. PICK doc : doc = docs[id]
      OBVIOUS
    <2>3. id \in Lessons /\ requests[k].op = op
      BY <1>1, <2>1 DEF ShapeInv, RequestOK, At
    <2>4. DocOK(id, doc)
      BY <1>3, <2>1, <2>2, <2>3 DEF ShapeInv, StoresOK
    <2>5. DocOK(id, doc)'
      BY <1>1, <2>3, <2>4, DocKeeps, StoresSameGrow
    <2>6. /\ requests'[k].op = op /\ requests'[k].pc = next /\ requests'[k].id = id
          /\ requests'[k].copy = doc /\ OthersStay(k) /\ requests'[k].arg = requests[k].arg
      BY <1>3, <2>1, <2>2, <2>3 DEF Recalled, Moved
    <2>7. op \in {"remove", "unmaterial"} => k \in Clients
      BY <2>3 DEF ShapeInv, RequestOK
    <2>8. KnowsOK(requests[k])'
      BY <1>3
    <2>9. RequestOK(k)'
      BY <2>3, <2>5, <2>6, <2>7, <2>8 DEF RequestOK
    <2> QED
      BY <1>1, <2>3, <2>6, <2>9, ShapeWent
  <1> QED
    BY <1>1, <1>2, <1>3

\* What makes of a copy another reading that is true.
LEMMA SameVideoOK ==
    ASSUME NEW l, NEW copy, NEW doc, DocOK(l, copy), doc \in LessonDocs, SameVideo(doc, copy)
    PROVE  DocOK(l, doc)
PROOF BY DEF DocOK, SameVideo

LEMMA SameMaterialsOK ==
    ASSUME NEW l, NEW copy, NEW doc, DocOK(l, copy), doc \in LessonDocs,
           doc.materials = copy.materials, doc.asset \in Assets, doc.status # "uploading",
           assets[doc.asset].lesson = l, assets[doc.asset].state # "none",
           doc.status \in Outcomes => assets[doc.asset].state = doc.status
    PROVE  DocOK(l, doc)
PROOF BY LibraryAssumption DEF DocOK

LEMMA OtherMaterialOK ==
    ASSUME NEW l, NEW copy, NEW doc, NEW m \in Materials, DocOK(l, copy), doc \in LessonDocs,
           doc.status = copy.status, doc.asset = copy.asset,
           doc.materials[m] # "none" => files[l][m] # "unused",
           SameOthers(doc, copy, m)
    PROVE  DocOK(l, doc)
PROOF BY DEF DocOK, SameOthers

-----------------------------------------------------------------------------
(* Lessons are created, moved, ordered and removed *)

LEMMA ChecksTopicShape ==
    ASSUME ShapeInv, NEW k \in Slots, CreateChecksTopic(k) \/ UpdateChecksTopic(k)
    PROVE  ShapeInv'
PROOF
  <1>1. PICK got : got = [order |-> 0, topics |-> DOMAIN level]
    OBVIOUS
  <1>2. /\ requests[k].op \in {"create", "update"} /\ requests[k].pc = "topic"
        /\ (requests[k].arg \in DOMAIN level /\ Proceed(k, "siblings", got)) \/ End(k)
        /\ OnlyRequests
    BY <1>1 DEF CreateChecksTopic, UpdateChecksTopic, AssertTopic, InLevel, At
  <1>3. CASE requests[k].arg \in DOMAIN level /\ Proceed(k, "siblings", got)
    <2>1. KnowsOK(requests[k])
      BY <1>2, KnowsItself
    <2>2. Placed(got, requests[k].arg)
      BY <1>1, <1>3, PlacedForms
    <2>3. ASSUME Went(k, "siblings", got) PROVE KnowsOK(requests[k])'
      BY <1>2, <2>1, <2>2, <2>3 DEF KnowsOK, CreateOK, UpdateOK, Went, Moved, Reporters
    <2> QED
      BY <1>2, <1>3, <2>3, ShapeGoesOn
  <1> QED
    BY <1>2, <1>3, ShapeEnds

LEMMA ReadSiblingsShape ==
    ASSUME ShapeInv, NEW k \in Slots, ReadSiblings(k)
    PROVE  ShapeInv'
PROOF
  <1>1. PICK n : n = NextOrder(requests[k].arg)
    OBVIOUS
  <1>2. n \in Nat
    BY <1>1, NextOrderIsOne DEF ShapeInv
  <1> DEFINE got == [requests[k].got EXCEPT !.order = n]
  <1>3. /\ Proceed(k, "save", got) /\ OnlyRequests /\ requests[k].pc = "siblings"
    BY <1>1 DEF ReadSiblings
  <1>4. requests[k].op \in {"create", "update"} /\ KnowsOK(requests[k])
    BY <1>3 DEF ShapeInv, RequestOK
  <1>5. Placed(requests[k].got, requests[k].arg) => Placed(got, requests[k].arg)
    BY <1>2, PlacedForms
  <1> HIDE DEF got
  <1>6. ASSUME Went(k, "save", got) PROVE KnowsOK(requests[k])'
    BY <1>3, <1>4, <1>5, <1>6 DEF KnowsOK, CreateOK, UpdateOK, Went, Moved, Reporters
  <1> QED
    BY <1>3, <1>4, <1>6, ShapeGoesOn

LEMMA CreateSavesShape ==
    ASSUME ShapeInv, NEW k \in Slots, CreateSaves(k)
    PROVE  ShapeInv'
PROOF
  <1>1. PICK r : r = requests[k]
    OBVIOUS
  <1>2. /\ r.op = "create" /\ r.pc = "save"
        /\ files' = [files EXCEPT ![r.id]["source"] = "awaited"]
        /\ Save(k, NewLesson(r.arg, r.got.order), TopicsAsRead(r.got))
        /\ UNCHANGED <<level, assets, cut>>
    BY <1>1 DEF CreateSaves, At
  <1>3. r.id \in Lessons /\ r.arg \in Topics /\ r.got.order \in Nat
    BY <1>1, <1>2, KnowsItself DEF KnowsOK, CreateOK, Placed
  <1>4. PICK doc : doc = NewLesson(r.arg, r.got.order)
    OBVIOUS
  <1>5. Ended(k) /\ docs' = [docs EXCEPT ![r.id] = doc]
    BY <1>1, <1>2, <1>4, SaveMoves DEF ShapeInv
  <1>6. /\ files' \in [Lessons -> [Files -> FileStates]]
        /\ \A l \in Lessons : \A m \in Files : m # "source" => files'[l][m] = files[l][m]
    BY <1>2, <1>3 DEF ShapeInv, StoresOK, Files, FileStates
  <1>7. CASE "source" \notin Materials
    <2>1. \A l \in Lessons : \A m \in Materials : files'[l][m] = files[l][m]
      BY <1>6, <1>7 DEF Files
    <2>2. Grows /\ UnusedStep(k)
      BY <1>2, <2>1 DEF Grows, AssetsStep, FilesStep, UnusedStep
    <2>3. DocOK(r.id, doc)'
      BY <1>3, <1>4, NewLessonForms DEF DocOK, Outcomes
    <2> QED
      BY <1>2, <1>3, <1>5, <1>6, <2>2, <2>3, ShapeSaved
  <1> QED
    BY <1>7, LibraryAssumption

LEMMA UpdateReadsShape ==
    ASSUME ShapeInv, NEW k \in Slots, UpdateReads(k)
    PROVE  ShapeInv'
PROOF
  <1> DEFINE next == IF requests[k].arg \in {NoArg, docs[requests[k].id].topic}
                     THEN "save" ELSE "topic"
  <1>1. GetOrThrow(k, "update", next)
    BY DEF UpdateReads
  <1>2. requests[k].op = "update"
    BY <1>1 DEF GetOrThrow, At
  <1>3. KnowsOK(requests[k])
    BY KnowsItself
  <1>4. ASSUME Recalled(k, next, docs[requests[k].id]) PROVE KnowsOK(requests[k])'
    BY <1>2, <1>3, <1>4 DEF KnowsOK, UpdateOK, Recalled, Moved, Reporters
  <1>5. next \notin {"siblings", "apply"}
    OBVIOUS
  <1> HIDE DEF next
  <1> QED
    BY <1>1, <1>4, <1>5, ShapeReads DEF Readers

LEMMA UpdateSavesShape ==
    ASSUME ShapeInv, NEW k \in Slots, UpdateSaves(k)
    PROVE  ShapeInv'
PROOF
  <1>1. PICK r : r = requests[k]
    OBVIOUS
  <1> DEFINE moves == r.arg \notin {NoArg, r.copy.topic}
             doc == IF moves THEN [r.copy EXCEPT !.topic = r.arg, !.order = r.got.order] ELSE r.copy
  <1>2. /\ r.op = "update" /\ r.pc = "save"
        /\ Save(k, doc, moves => TopicsAsRead(r.got))
        /\ UNCHANGED <<level, files, assets, cut>>
    BY <1>1 DEF UpdateSaves, At
  <1>3. r.id \in Lessons /\ DocOK(r.id, r.copy) /\ UpdateOK(r)
    BY <1>1, <1>2, KnowsItself DEF KnowsOK, Readers
  <1>4. doc \in LessonDocs /\ SameVideo(doc, r.copy)
    <2>1. r.copy \in LessonDocs
      BY <1>3 DEF DocOK
    <2>2. CASE moves
      <3>1. r.arg \in Topics /\ r.got.order \in Nat
        BY <1>2, <1>3, <2>2 DEF UpdateOK, Placed
      <3> QED
        BY <2>1, <2>2, <3>1, MovedForms
    <2>3. CASE ~moves
      BY <2>1, <2>3 DEF SameVideo
    <2> QED
      BY <2>2, <2>3
  <1> HIDE DEF doc
  <1>5. DocOK(r.id, doc)
    BY <1>3, <1>4, SameVideoOK
  <1> QED
    BY <1>1, <1>2, <1>3, <1>5, ShapeSavedAlone

LEMMA ReorderListsShape ==
    ASSUME ShapeInv, NEW k \in Slots, ReorderLists(k)
    PROVE  ShapeInv'
PROOF
  <1>1. PICK order \in [InTopic(requests[k].arg) -> 0 .. Cardinality(Lessons) - 1] :
          Proceed(k, "save", order)
    BY DEF ReorderLists
  <1>2. requests[k].op = "reorder" /\ OnlyRequests
    BY DEF ReorderLists, At
  <1>3. DOMAIN order \subseteq Lessons /\ \A l \in DOMAIN order : order[l] \in Nat
    <2>1. Cardinality(Lessons) \in Nat
      BY LibraryAssumption, FS_CardinalityType
    <2> QED
      BY <1>1, <2>1 DEF InTopic, Present
  <1>4. ASSUME Went(k, "save", order) PROVE KnowsOK(requests[k])'
    BY <1>2, <1>3, <1>4 DEF KnowsOK, ReorderOK, Went, Moved, Reporters
  <1> QED
    BY <1>1, <1>2, <1>4, ShapeGoesOn DEF Readers

LEMMA ReorderSavesShape ==
    ASSUME ShapeInv, NEW k \in Slots, ReorderSaves(k)
    PROVE  ShapeInv'
PROOF
  <1>1. PICK order : order = requests[k].got
    OBVIOUS
  <1>2. /\ requests[k].op = "reorder" /\ requests[k].pc = "save" /\ End(k)
        /\ docs' = IF DOMAIN order \subseteq Present
                   THEN [l \in Lessons |-> IF l \in DOMAIN order
                                           THEN [docs[l] EXCEPT !.order = order[l]] ELSE docs[l]]
                   ELSE docs
        /\ UNCHANGED <<level, files, assets, outdated, cut>>
    BY <1>1 DEF ReorderSaves, At
  <1>3. DOMAIN order \subseteq Lessons /\ \A l \in DOMAIN order : order[l] \in Nat
    BY <1>1, <1>2, KnowsItself DEF KnowsOK, ReorderOK
  <1>4. Ended(k) /\ Grows /\ UnusedStep(k)
    BY <1>2, EndMoves DEF ShapeInv, Grows, AssetsStep, FilesStep, UnusedStep
  <1>5. docs' = [l \in Lessons |-> docs'[l]]
    BY <1>2 DEF ShapeInv, StoresOK
  <1>6. ASSUME NEW l \in Lessons PROVE docs'[l] \in {docs[l], NoDoc} \/ DocOK(l, docs[l])'
    <2>1. CASE DOMAIN order \subseteq Present /\ l \in DOMAIN order
      <3>1. PICK doc : doc = docs[l]
        OBVIOUS
      <3>2. PICK new : new = [doc EXCEPT !.order = order[l]]
        OBVIOUS
      <3>3. docs'[l] = new
        BY <1>2, <2>1, <3>1, <3>2
      <3>4. DocOK(l, doc) /\ doc \in LessonDocs
        BY <2>1, <3>1 DEF ShapeInv, StoresOK, Present, DocOK
      <3>5. new \in LessonDocs /\ SameVideo(new, doc)
        BY <1>3, <2>1, <3>2, <3>4, OrderedForms
      <3>6. DocOK(l, new)'
        BY <1>4, <3>4, <3>5, SameVideoOK, DocKeeps
      <3> QED
        BY <3>3, <3>6
    <2>2. CASE ~(DOMAIN order \subseteq Present /\ l \in DOMAIN order)
      BY <1>2, <2>2
    <2> QED
      BY <2>1, <2>2
  <1>7. StoresOK'
    BY <1>2, <1>4, <1>5, <1>6, StoresChange DEF ShapeInv, StoresOK
  <1>8. requests'[k].op = "none" /\ OthersStay(k) /\ RequestOK(k)'
    BY <1>4, EndedOK DEF Ended, Idle
  <1>9. \A i \in Slots \ {k} : Distinct(i, k)'
    BY <1>8, SameUploads
  <1> QED
    BY <1>4, <1>7, <1>8, <1>9, ShapeMoves

LEMMA RemoveReadsShape ==
    ASSUME ShapeInv, NEW k \in Slots, RemoveReads(k)
    PROVE  ShapeInv'
PROOF
  <1>1. GetOrThrow(k, "remove", "asset") /\ requests[k].op = "remove"
    BY DEF RemoveReads, GetOrThrow, At
  <1>2. ASSUME Recalled(k, "asset", docs[requests[k].id]) PROVE KnowsOK(requests[k])'
    BY <1>1, <1>2 DEF KnowsOK, RemoveOK, Recalled, Moved, Reporters
  <1> QED
    BY <1>1, <1>2, ShapeReads DEF Readers

LEMMA RemoveAssetShape ==
    ASSUME ShapeInv, NEW k \in Slots, RemoveAsset(k)
    PROVE  ShapeInv'
PROOF
  <1>1. PICK r : r = requests[k]
    OBVIOUS
  <1>2. /\ r.op = "remove" /\ r.pc = "asset"
        /\ \/ /\ assets' = IF r.copy.asset = NoAsset THEN assets
                           ELSE [assets EXCEPT ![r.copy.asset].deleted = TRUE]
              /\ cut' = cut
           \/ /\ cut' = cut \cup {r.id} /\ assets' = assets
        /\ Proceed(k, "files", NoArg)
        /\ UNCHANGED <<docs, level, files, outdated>>
    BY <1>1 DEF RemoveAsset, Fails, At
  <1>3. r.id \in Lessons /\ DocOK(r.id, r.copy)
    BY <1>1, <1>2, KnowsItself DEF Readers
  <1>4. r.copy.asset = NoAsset \/ r.copy.asset \in Assets
    BY <1>3 DEF DocOK, LessonDocs
  <1>5. /\ assets' \in [Assets -> MuxAssets]
        /\ \A a \in Assets : /\ assets'[a].lesson = assets[a].lesson
                             /\ assets'[a].state = assets[a].state
                             /\ assets[a].deleted => assets'[a].deleted
        /\ r.copy.asset = NoAsset \/ assets'[r.copy.asset].deleted \/ r.id \in cut'
    <2>1. assets \in [Assets -> MuxAssets]
      BY DEF ShapeInv, StoresOK
    <2>2. CASE assets' = assets /\ (r.copy.asset = NoAsset \/ r.id \in cut')
      BY <1>2, <2>1, <2>2 DEF MuxAssets
    <2>3. CASE /\ r.copy.asset \in Assets /\ cut' = cut
               /\ assets' = [assets EXCEPT ![r.copy.asset].deleted = TRUE]
      <3>1. PICK b \in Assets : b = r.copy.asset
        BY <2>3
      <3>2. /\ assets' = [a \in Assets |-> assets'[a]] /\ assets'[b] = [assets[b] EXCEPT !.deleted = TRUE]
            /\ \A a \in Assets \ {b} : assets'[a] = assets[a]
        BY <2>1, <2>3, <3>1
      <3>3. /\ assets'[b] \in MuxAssets /\ assets'[b].lesson = assets[b].lesson
            /\ assets'[b].state = assets[b].state /\ assets'[b].deleted
        BY <2>1, <3>2 DEF MuxAssets
      <3>4. \A a \in Assets : assets'[a] \in MuxAssets
        BY <2>1, <3>2, <3>3
      <3> QED
        BY <3>1, <3>2, <3>3, <3>4
    <2> QED
      BY <1>2, <1>4, <2>2, <2>3
  <1>6. Grows /\ UnusedStep(k)
    BY <1>2, <1>5 DEF Grows, AssetsStep, FilesStep, UnusedStep
  <1>7. StoresOK'
    BY <1>2, <1>5, <1>6, StoresChange DEF ShapeInv, StoresOK
  <1>8. Went(k, "files", NoArg)
    BY <1>2, ProceedMoves DEF ShapeInv
  <1>9. KnowsOK(requests[k])'
    BY <1>1, <1>2, <1>5, <1>8 DEF Went, Moved, KnowsOK, RemoveOK, Reporters
  <1> QED
    BY <1>1, <1>2, <1>6, <1>7, <1>8, <1>9, ShapeWentOn

\* The files of a lesson go.
LEMMA FilesGo ==
    ASSUME StoresOK, NEW k, NEW l \in Lessons, NEW F \in SUBSET Files,
           files' = [files EXCEPT ![l] = [f \in Files |-> IF f \in F THEN Gone(@[f]) ELSE @[f]]],
           cut \subseteq cut', assets' = assets
    PROVE  /\ files' \in [Lessons -> [Files -> FileStates]] /\ Grows /\ UnusedStep(k)
           /\ \A f \in Files : files'[l][f] = IF f \in F THEN Gone(files[l][f]) ELSE files[l][f]
           /\ \A i \in Lessons \ {l} : files'[i] = files[i]
PROOF
  <1>1. files[l] \in [Files -> FileStates]
    BY DEF StoresOK
  <1>2. /\ \A f \in Files : files'[l][f] = IF f \in F THEN Gone(files[l][f]) ELSE files[l][f]
        /\ \A i \in Lessons \ {l} : files'[i] = files[i]
        /\ files' \in [Lessons -> [Files -> FileStates]]
    BY <1>1 DEF StoresOK, Gone, FileStates
  <1>3. FilesStep /\ UnusedStep(k)
    BY <1>2 DEF FilesStep, UnusedStep, Gone, Files
  <1> QED
    BY <1>2, <1>3 DEF Grows, AssetsStep

LEMMA RemovePrefixShape ==
    ASSUME ShapeInv, NEW k \in Slots, RemovePrefix(k)
    PROVE  ShapeInv'
PROOF
  <1>1. PICK r : r = requests[k]
    OBVIOUS
  <1>2. /\ r.op = "remove" /\ r.pc = "files"
        /\ \/ /\ files' = [files EXCEPT ![r.id] = [f \in Files |-> Gone(@[f])]]
              /\ cut' = cut
           \/ /\ cut' = cut \cup {r.id} /\ files' = files
        /\ Proceed(k, "delete", NoArg)
        /\ UNCHANGED <<docs, level, assets, outdated>>
    BY <1>1 DEF RemovePrefix, Fails, At
  <1>3. r.id \in Lessons /\ RemoveOK(r)
    BY <1>1, <1>2, KnowsItself DEF Readers, KnowsOK
  <1>4. Grows /\ UnusedStep(k) /\ files' \in [Lessons -> [Files -> FileStates]]
    <2>1. CASE files' = [files EXCEPT ![r.id] = [f \in Files |-> Gone(@[f])]] /\ cut' = cut
      <3>1. files' = [files EXCEPT ![r.id] =
                        [f \in Files |-> IF f \in Files THEN Gone(@[f]) ELSE @[f]]]
        BY <2>1
      <3> QED
        BY <1>2, <1>3, <2>1, <3>1, FilesGo DEF ShapeInv
    <2>2. CASE cut' = cut \cup {r.id} /\ files' = files
      BY <1>2, <2>2 DEF Grows, AssetsStep, FilesStep, UnusedStep, ShapeInv, StoresOK
    <2> QED
      BY <1>2, <2>1, <2>2
  <1>5. StoresOK'
    BY <1>2, <1>4, StoresChange DEF ShapeInv, StoresOK
  <1>6. Went(k, "delete", NoArg)
    BY <1>2, ProceedMoves DEF ShapeInv
  <1>7. RemoveOK(r)'
    BY <1>2, <1>3 DEF RemoveOK
  <1>8. KnowsOK(requests[k])'
    BY <1>1, <1>2, <1>6, <1>7 DEF Went, Moved, KnowsOK, RemoveOK, Reporters
  <1> QED
    BY <1>1, <1>2, <1>4, <1>5, <1>6, <1>8, ShapeWentOn

LEMMA RemoveDeletesShape ==
    ASSUME ShapeInv, NEW k \in Slots, RemoveDeletes(k)
    PROVE  ShapeInv'
PROOF
  <1>1. /\ requests[k].op = "remove" /\ Save(k, NoDoc, TRUE)
        /\ UNCHANGED <<level, files, assets, cut>>
    BY DEF RemoveDeletes, At
  <1>2. requests[k].id \in Lessons
    BY <1>1, KnowsItself DEF Readers
  <1> QED
    BY <1>1, <1>2, ShapeSavedAlone

-----------------------------------------------------------------------------
(* From the upload to the asset *)

\* One file gets another state, not for the first time.
Becomes(l, f, state) ==
    /\ files[l][f] # "unused" /\ state # "unused"
    /\ files' = [files EXCEPT ![l][f] = state]

OthersAsTheyWere(l, f) ==
    \A i \in Lessons : \A g \in Files : i # l \/ g # f => files'[i][g] = files[i][g]

UnusedStay ==
    \A l \in Lessons : \A m \in Materials : files[l][m] = "unused" => files'[l][m] = "unused"

LEMMA OneFileChanges ==
    ASSUME StoresOK, NEW l \in Lessons, NEW f \in Files, NEW state \in FileStates,
           Becomes(l, f, state), assets' = assets, cut' = cut
    PROVE  /\ files' \in [Lessons -> [Files -> FileStates]] /\ Grows /\ UnusedStay
           /\ files'[l][f] = state /\ OthersAsTheyWere(l, f)
PROOF
  <1>1. /\ files' \in [Lessons -> [Files -> FileStates]] /\ files'[l][f] = state
        /\ OthersAsTheyWere(l, f)
    BY DEF StoresOK, Becomes, OthersAsTheyWere
  <1>2. Materials \subseteq Files
    BY DEF Files
  <1>3. \A i \in Lessons : \A m \in Materials : files[i][m] = "unused" <=> files'[i][m] = "unused"
    BY <1>1, <1>2 DEF Becomes, OthersAsTheyWere
  <1> QED
    BY <1>1, <1>3 DEF Grows, AssetsStep, FilesStep, UnusedStay

LEMMA StayUnusedForAll ==
    ASSUME UnusedStay, NEW k
    PROVE  UnusedStep(k)
PROOF BY DEF UnusedStay, UnusedStep

\* What happens outside any request.
LEMMA ShapeAlone ==
    ASSUME ShapeInv, requests' = requests, StoresOK', Grows, UnusedStay
    PROVE  ShapeInv'
PROOF
  <1>1. ASSUME NEW i \in Slots PROVE RequestOK(i)'
    <2>1. RequestOK(i) /\ requests'[i] = requests[i]
      BY DEF ShapeInv
    <2>2. requests[i].op = "add" => files'[requests[i].id][requests[i].arg] = "unused"
      BY <2>1 DEF RequestOK, KnowsOK, AddOK, Readers, UnusedStay
    <2> QED
      BY <2>1, <2>2, RequestKeeps
  <1>2. RequestsOK' /\ \A i, j \in Slots : Distinct(i, j)'
    BY DEF ShapeInv, RequestsOK, Distinct
  <1> QED
    BY <1>1, <1>2 DEF ShapeInv

LEMMA ArrivalShape ==
    ASSUME ShapeInv, NEW l \in Lessons, NEW size \in {"ok", "oversize"},
           SourceArrives(l, size) \/ \E m \in Materials : MaterialArrives(l, m, size)
    PROVE  ShapeInv'
PROOF
  <1>1. PICK f \in Files : /\ files[l][f] = "awaited" /\ files' = [files EXCEPT ![l][f] = size]
                           /\ UNCHANGED <<docs, level, assets, requests, outdated, cut>>
    BY DEF SourceArrives, MaterialArrives, Files
  <1>2. /\ files' \in [Lessons -> [Files -> FileStates]] /\ Grows
        /\ UnusedStay
    <2>1. size \in FileStates /\ Becomes(l, f, size)
      BY <1>1 DEF FileStates, Becomes
    <2> QED
      BY <1>1, <2>1, OneFileChanges DEF ShapeInv
  <1>3. StoresOK'
    BY <1>1, <1>2, StoresChange DEF ShapeInv, StoresOK
  <1> QED
    BY <1>1, <1>2, <1>3, ShapeAlone

LEMMA CompleteReadsShape ==
    ASSUME ShapeInv, NEW k \in Slots, CompleteReads(k)
    PROVE  ShapeInv'
PROOF
  <1> DEFINE next == IF MayComplete(docs[requests[k].id]) THEN "info" ELSE "end"
  <1>1. GetOrThrow(k, "complete", next)
    BY DEF CompleteReads
  <1>2. requests[k].op = "complete"
    BY <1>1 DEF GetOrThrow, At
  <1>3. ASSUME Recalled(k, next, docs[requests[k].id]), next # "end"
        PROVE  KnowsOK(requests[k])'
    BY <1>2, <1>3 DEF KnowsOK, CompleteOK, Recalled, Moved, Reporters, MayComplete
  <1>4. next \notin {"siblings", "apply"}
    OBVIOUS
  <1> HIDE DEF next
  <1> QED
    BY <1>1, <1>3, <1>4, ShapeReads DEF Readers

LEMMA CompleteChecksFileShape ==
    ASSUME ShapeInv, NEW k \in Slots, CompleteChecksFile(k)
    PROVE  ShapeInv'
PROOF
  <1>1. PICK r : r = requests[k]
    OBVIOUS
  <1>2. PICK file : file = files[r.id]["source"]
    OBVIOUS
  <1>3. /\ r.op = "complete" /\ r.pc = "info"
        /\ files' = IF file = "oversize" THEN [files EXCEPT ![r.id]["source"] = "gone"] ELSE files
        /\ IF file = "ok" THEN Proceed(k, "asset", NoArg) ELSE End(k)
        /\ UNCHANGED <<docs, level, assets, outdated, cut>>
    BY <1>1, <1>2 DEF CompleteChecksFile, At
  <1>4. r.id \in Lessons /\ CompleteOK(r)
    BY <1>1, <1>3, KnowsItself DEF Readers, KnowsOK
  <1>5. Grows /\ UnusedStep(k) /\ files' \in [Lessons -> [Files -> FileStates]]
    <2>1. CASE file = "oversize"
      <3>1. Becomes(r.id, "source", "gone") /\ assets' = assets /\ cut' = cut /\ StoresOK
        BY <1>2, <1>3, <2>1 DEF ShapeInv, Becomes
      <3>2. "source" \in Files /\ "gone" \in FileStates
        BY DEF Files, FileStates
      <3> QED
        BY <1>4, <3>1, <3>2, OneFileChanges, StayUnusedForAll
    <2>2. CASE file # "oversize"
      BY <1>3, <2>2 DEF Grows, AssetsStep, FilesStep, UnusedStep, ShapeInv, StoresOK
    <2> QED
      BY <2>1, <2>2
  <1>6. StoresOK'
    BY <1>3, <1>5, StoresChange DEF ShapeInv, StoresOK
  <1>7. CASE file = "ok"
    <2>1. Went(k, "asset", NoArg)
      BY <1>3, <1>7, ProceedMoves DEF ShapeInv
    <2>2. KnowsOK(requests[k])'
      BY <1>1, <1>3, <1>4, <2>1 DEF Went, Moved, KnowsOK, CompleteOK, Reporters
    <2> QED
      BY <1>1, <1>3, <1>5, <1>6, <2>1, <2>2, ShapeWentOn
  <1>8. CASE file # "ok"
    <2>1. Ended(k)
      BY <1>3, <1>8, EndMoves DEF ShapeInv
    <2>2. requests'[k].op = "none" /\ OthersStay(k) /\ RequestOK(k)'
      BY <2>1, EndedOK DEF Ended, Idle
    <2> QED
      BY <1>5, <1>6, <2>2, SameUploads, ShapeMoves
  <1> QED
    BY <1>7, <1>8

\* An asset is made, for a lesson.
LEMMA AssetIsMade ==
    ASSUME StoresOK, NEW k, NEW a \in Assets, NEW l \in Lessons, assets[a].state = "none",
           assets' = [assets EXCEPT ![a] = Asset(l, "preparing")],
           UNCHANGED <<docs, level, files, cut>>
    PROVE  /\ StoresOK' /\ Grows /\ UnusedStep(k)
           /\ assets'[a].lesson = l /\ assets'[a].state = "preparing"
           /\ \A b \in Assets \ {a} : assets'[b] = assets[b]
PROOF
  <1>1. Asset(l, "preparing") \in MuxAssets
    BY DEF Asset, MuxAssets, AssetStates
  <1>2. /\ assets' \in [Assets -> MuxAssets]
        /\ assets'[a].lesson = l /\ assets'[a].state = "preparing"
        /\ \A b \in Assets \ {a} : assets'[b] = assets[b]
    BY <1>1 DEF StoresOK, Asset
  <1>3. Grows /\ UnusedStep(k)
    BY <1>2 DEF Grows, AssetsStep, FilesStep, UnusedStep
  <1>4. \A b \in Assets : assets'[b].state # "none" => assets'[b].lesson \in Lessons
    BY <1>2 DEF StoresOK
  <1>5. StoresOK'
    BY <1>2, <1>3, <1>4, StoresChange DEF StoresOK
  <1> QED
    BY <1>2, <1>3, <1>5

LEMMA CompleteCreatesAssetShape ==
    ASSUME ShapeInv, NEW k \in Slots, CompleteCreatesAsset(k)
    PROVE  ShapeInv'
PROOF
  <1>1. PICK r : r = requests[k]
    OBVIOUS
  <1>2. PICK a \in Assets : /\ assets[a].state = "none" /\ Proceed(k, "save", a)
                            /\ assets' = [assets EXCEPT ![a] = Asset(r.id, "preparing")]
    BY <1>1 DEF CompleteCreatesAsset
  <1>3. /\ r.op = "complete" /\ r.pc = "asset" /\ UNCHANGED <<docs, level, files, outdated, cut>>
    BY <1>1 DEF CompleteCreatesAsset, At
  <1>4. r.id \in Lessons /\ CompleteOK(r)
    BY <1>1, <1>3, KnowsItself DEF Readers, KnowsOK
  <1>5. /\ StoresOK' /\ Grows /\ UnusedStep(k)
        /\ assets'[a].lesson = r.id /\ assets'[a].state = "preparing"
    BY <1>2, <1>3, <1>4, AssetIsMade DEF ShapeInv
  <1>6. Went(k, "save", a)
    BY <1>2, ProceedMoves DEF ShapeInv
  <1>7. KnowsOK(requests[k])'
    BY <1>1, <1>3, <1>4, <1>5, <1>6 DEF Went, Moved, KnowsOK, CompleteOK, Reporters
  <1> QED
    BY <1>1, <1>3, <1>5, <1>6, <1>7, ShapeWentOn

LEMMA CompleteSavesShape ==
    ASSUME ShapeInv, NEW k \in Slots, CompleteSaves(k)
    PROVE  ShapeInv'
PROOF
  <1>1. PICK r : r = requests[k]
    OBVIOUS
  <1> DEFINE doc == [r.copy EXCEPT !.status = "processing", !.asset = r.got]
  <1>2. /\ r.op = "complete" /\ r.pc = "save" /\ Save(k, doc, TRUE)
        /\ UNCHANGED <<level, files, assets, cut>>
    BY <1>1 DEF CompleteSaves, At
  <1>3. r.id \in Lessons /\ DocOK(r.id, r.copy) /\ CompleteOK(r)
    BY <1>1, <1>2, KnowsItself DEF KnowsOK, Readers
  <1>4. r.copy \in LessonDocs /\ r.got \in Assets
    BY <1>2, <1>3 DEF DocOK, CompleteOK
  <1>5. /\ doc \in LessonDocs /\ doc.materials = r.copy.materials
        /\ doc.status = "processing" /\ doc.asset = r.got
    BY <1>4 DEF LessonDocs, Statuses
  <1> HIDE DEF doc
  <1>6. DocOK(r.id, doc)
    BY <1>2, <1>3, <1>4, <1>5, SameMaterialsOK DEF CompleteOK, Outcomes
  <1> QED
    BY <1>1, <1>2, <1>3, <1>6, ShapeSavedAlone

LEMMA AssetSettlesShape ==
    ASSUME ShapeInv, NEW a \in Assets, NEW outcome \in Outcomes, AssetSettles(a, outcome)
    PROVE  ShapeInv'
PROOF
  <1>1. /\ assets[a].state = "preparing"
        /\ assets' = [assets EXCEPT ![a].state = outcome]
        /\ UNCHANGED <<docs, level, files, requests, outdated, cut>>
    BY DEF AssetSettles
  <1>2. /\ assets' \in [Assets -> MuxAssets]
        /\ assets'[a].lesson = assets[a].lesson /\ assets'[a].state = outcome
        /\ assets'[a].deleted = assets[a].deleted
        /\ \A b \in Assets \ {a} : assets'[b] = assets[b]
    <2>1. assets \in [Assets -> MuxAssets] /\ outcome \in AssetStates
      BY DEF ShapeInv, StoresOK, AssetStates
    <2>2. /\ assets' = [b \in Assets |-> assets'[b]] /\ assets'[a] = [assets[a] EXCEPT !.state = outcome]
          /\ \A b \in Assets \ {a} : assets'[b] = assets[b]
      BY <1>1, <2>1
    <2>3. /\ assets'[a] \in MuxAssets /\ assets'[a].lesson = assets[a].lesson
          /\ assets'[a].state = outcome /\ assets'[a].deleted = assets[a].deleted
      BY <2>1, <2>2 DEF MuxAssets
    <2>4. \A b \in Assets : assets'[b] \in MuxAssets
      BY <2>1, <2>2, <2>3
    <2> QED
      BY <2>2, <2>3, <2>4
  <1>3. Grows
    BY <1>1, <1>2 DEF Grows, AssetsStep, FilesStep, Outcomes
  <1>4. \A b \in Assets : assets'[b].state # "none" => assets'[b].lesson \in Lessons
    BY <1>1, <1>2 DEF ShapeInv, StoresOK
  <1>5. StoresOK'
    BY <1>1, <1>2, <1>3, <1>4, StoresChange DEF ShapeInv, StoresOK
  <1> QED
    BY <1>1, <1>3, <1>5, ShapeAlone DEF UnusedStay

\* A report begins with what it read of a lesson that is being prepared.
LEMMA ReportBeganShape ==
    ASSUME ShapeInv, NEW k \in Slots, NEW op \in Reporters, NEW pc, NEW l \in Lessons, NEW a,
           NEW doc, NEW got, Moved(k, op, pc, l, a, doc, got), StoresSame, cut' = cut,
           docs[l] = doc, doc # NoDoc, doc.status = "processing", doc.asset = a,
           pc \in {"asset", "apply"},
           pc = "apply" => got \in Outcomes /\ assets[a].state = got
    PROVE  ShapeInv'
PROOF
  <1>1. DocOK(l, doc)
    BY DEF ShapeInv, StoresOK
  <1>2. a \in Assets
    BY <1>1 DEF DocOK, LessonDocs
  <1>3. DocOK(l, doc)'
    BY <1>1, StoresSameGrow, DocKeeps
  <1>4. /\ requests'[k].op = op /\ requests'[k].pc = pc /\ requests'[k].id = l
        /\ requests'[k].arg = a /\ requests'[k].copy = doc /\ requests'[k].got = got
        /\ OthersStay(k)
    BY DEF Moved
  <1>5. op \notin Readers \cup {"create", "reorder", "level", "topic", "none"}
    BY DEF Reporters, Readers
  <1>6. KnowsOK(requests[k])'
    <2>1. ReportOK(requests[k])'
      BY <1>2, <1>4 DEF ReportOK, StoresSame
    <2> QED
      BY <1>4, <1>5, <2>1 DEF KnowsOK, Readers
  <1>7. RequestOK(k)'
    BY <1>3, <1>4, <1>5, <1>6 DEF RequestOK, Readers
  <1>8. \A i \in Slots \ {k} : Distinct(i, k)'
    BY <1>4, <1>5 DEF Distinct, Readers
  <1>9. StoresOK'
    BY SameStores DEF ShapeInv
  <1> QED
    BY <1>4, <1>7, <1>8, <1>9, StoresSameGrow, ShapeMoves

LEMMA ReportsShape ==
    ASSUME ShapeInv, NEW k \in Listeners,
           (\E a \in Assets : MuxEvent(k, a)) \/ \E l \in Lessons : Sync(k, l)
    PROVE  ShapeInv'
PROOF
  <1>1. k \in Slots
    BY DEF Slots
  <1>2. ASSUME NEW a \in Assets, MuxEvent(k, a) PROVE ShapeInv'
    <2>1. PICK l : l = assets[a].lesson
      OBVIOUS
    <2>2. PICK doc : doc = docs[l]
      OBVIOUS
    <2>3. PICK got : got = assets[a].state
      OBVIOUS
    <2>4. /\ Moved(k, "event", "apply", l, a, doc, got)
          /\ doc # NoDoc /\ doc.asset = a /\ doc.status = "processing"
          /\ got \in Outcomes /\ StoresSame /\ cut' = cut
      BY <1>1, <1>2, <2>1, <2>2, <2>3, MuxEventMoves DEF ShapeInv
    <2>5. l \in Lessons
      BY <2>1, <2>3, <2>4 DEF ShapeInv, StoresOK, Outcomes
    <2>6. "event" \in Reporters
      BY DEF Reporters
    <2> QED
      BY <1>1, <2>2, <2>3, <2>4, <2>5, <2>6, ReportBeganShape
  <1>3. ASSUME NEW l \in Lessons, Sync(k, l) PROVE ShapeInv'
    <2>1. PICK doc : doc = docs[l]
      OBVIOUS
    <2>2. /\ Moved(k, "sync", "asset", l, doc.asset, doc, NoArg)
          /\ doc # NoDoc /\ doc.status = "processing" /\ StoresSame /\ cut' = cut
      BY <1>1, <1>3, <2>1, SyncMoves DEF ShapeInv
    <2>3. "sync" \in Reporters
      BY DEF Reporters
    <2> QED
      BY <1>1, <2>1, <2>2, <2>3, ReportBeganShape
  <1> QED
    BY <1>2, <1>3

LEMMA SyncReadsAssetShape ==
    ASSUME ShapeInv, NEW k \in Slots, SyncReadsAsset(k)
    PROVE  ShapeInv'
PROOF
  <1>1. PICK r : r = requests[k]
    OBVIOUS
  <1>2. PICK asset : asset = assets[r.arg]
    OBVIOUS
  <1>3. /\ r.op = "sync" /\ r.pc = "asset" /\ OnlyRequests
        /\ IF asset.state # "preparing" /\ ~asset.deleted
           THEN Proceed(k, "apply", asset.state) ELSE End(k)
    BY <1>1, <1>2 DEF SyncReadsAsset, At
  <1>4. r.arg \in Assets /\ r.copy.asset = r.arg /\ DocOK(r.id, r.copy)
    BY <1>1, <1>3, KnowsItself DEF KnowsOK, ReportOK, Reporters
  <1>5. asset.state \in AssetStates \ {"none"}
    <2>1. r.arg # NoAsset
      BY <1>4, LibraryAssumption
    <2> QED
      BY <1>2, <1>4, <2>1 DEF DocOK, ShapeInv, StoresOK, MuxAssets
  <1>6. CASE Proceed(k, "apply", asset.state) /\ asset.state # "preparing"
    <2>1. ASSUME Went(k, "apply", asset.state) PROVE KnowsOK(requests[k])'
      <3>1. /\ requests'[k].op = "sync" /\ requests'[k].pc = "apply" /\ requests'[k].arg = r.arg
            /\ requests'[k].copy = r.copy /\ requests'[k].got = asset.state
        BY <1>1, <1>3, <2>1 DEF Went, Moved
      <3>2. asset.state \in Outcomes /\ assets' = assets
        BY <1>3, <1>5, <1>6 DEF AssetStates, OnlyRequests
      <3>3. ReportOK(requests[k])'
        BY <1>2, <1>4, <3>1, <3>2 DEF ReportOK
      <3> QED
        BY <3>1, <3>3 DEF KnowsOK
    <2> QED
      BY <1>1, <1>3, <1>6, <2>1, ShapeGoesOn DEF Reporters, Readers
  <1> QED
    BY <1>3, <1>6, ShapeEnds

LEMMA ApplyShape ==
    ASSUME ShapeInv, NEW k \in Slots, ApplyAssetState(k)
    PROVE  ShapeInv'
PROOF
  <1>1. PICK r : r = requests[k]
    OBVIOUS
  <1> DEFINE doc == Apply(r.copy, r.arg, r.got)
  <1>2. r.pc = "apply" /\ Save(k, doc, TRUE) /\ UNCHANGED <<level, files, assets, cut>>
    BY <1>1 DEF ApplyAssetState
  <1>3. r.op \in Reporters
    BY <1>1, <1>2 DEF ShapeInv, RequestOK
  <1>4. r.id \in Lessons /\ DocOK(r.id, r.copy) /\ ReportOK(r)
    BY <1>1, <1>3, KnowsItself DEF KnowsOK
  <1>5. /\ r.copy \in LessonDocs /\ r.arg \in Assets /\ r.copy.asset = r.arg
        /\ r.got \in Outcomes /\ assets[r.arg].state = r.got
    BY <1>2, <1>4 DEF DocOK, ReportOK
  <1>6. /\ doc \in LessonDocs /\ doc.materials = r.copy.materials
        /\ doc.status = r.got /\ doc.asset = r.arg
    BY <1>5, AppliedForms
  <1> HIDE DEF doc
  <1>7. assets[doc.asset].lesson = r.id /\ assets[doc.asset].state # "none"
    <2>1. r.arg # NoAsset
      BY <1>5, LibraryAssumption
    <2> QED
      BY <1>4, <1>5, <1>6, <2>1 DEF DocOK
  <1>8. DocOK(r.id, doc)
    BY <1>4, <1>5, <1>6, <1>7, SameMaterialsOK DEF Outcomes
  <1> QED
    BY <1>1, <1>2, <1>4, <1>8, ShapeSavedAlone

-----------------------------------------------------------------------------
(* Materials *)

LEMMA AddReadsShape ==
    ASSUME ShapeInv, NEW k \in Slots, AddReads(k)
    PROVE  ShapeInv'
PROOF
  <1> DEFINE next == IF WithinLimit(Cardinality(MaterialsOf(docs[requests[k].id])))
                     THEN "save" ELSE "end"
  <1>1. GetOrThrow(k, "add", next)
    BY DEF AddReads
  <1>2. requests[k].op = "add" /\ UNCHANGED files
    BY <1>1 DEF GetOrThrow, At, OnlyRequests
  <1>3. KnowsOK(requests[k])
    BY KnowsItself
  <1>4. ASSUME Recalled(k, next, docs[requests[k].id]) PROVE KnowsOK(requests[k])'
    BY <1>2, <1>3, <1>4 DEF KnowsOK, AddOK, Recalled, Moved, Reporters
  <1>5. next \notin {"siblings", "apply"}
    OBVIOUS
  <1> HIDE DEF next
  <1> QED
    BY <1>1, <1>4, <1>5, ShapeReads DEF Readers

LEMMA AddSavesShape ==
    ASSUME ShapeInv, NEW k \in Slots, AddSaves(k)
    PROVE  ShapeInv'
PROOF
  <1>1. PICK r : r = requests[k]
    OBVIOUS
  <1> DEFINE doc == WithMaterial(r.copy, r.arg, "uploading")
  <1>2. /\ r.op = "add" /\ r.pc = "save" /\ Save(k, doc, TRUE)
        /\ files' = [files EXCEPT ![r.id][r.arg] = "awaited"]
        /\ UNCHANGED <<level, assets, cut>>
    BY <1>1 DEF AddSaves, At, WithMaterial
  <1>3. r.id \in Lessons /\ DocOK(r.id, r.copy) /\ r.arg \in Materials
    BY <1>1, <1>2, KnowsItself DEF KnowsOK, AddOK, Readers
  <1>4. /\ files' \in [Lessons -> [Files -> FileStates]]
        /\ files'[r.id][r.arg] = "awaited"
        /\ \A l \in Lessons : \A m \in Materials :
              l # r.id \/ m # r.arg => files'[l][m] = files[l][m]
    <2>1. Materials \subseteq Files
      BY DEF Files
    <2> QED
      BY <1>2, <1>3, <2>1 DEF ShapeInv, StoresOK, FileStates
  <1>5. Grows /\ UnusedStep(k)
    BY <1>1, <1>2, <1>4 DEF Grows, AssetsStep, FilesStep, UnusedStep
  <1>6. DocOK(r.id, r.copy)'
    BY <1>3, <1>5, DocKeeps
  <1>7. /\ doc \in LessonDocs /\ doc.status = r.copy.status /\ doc.asset = r.copy.asset
        /\ SameOthers(doc, r.copy, r.arg)
    <2>1. r.copy \in LessonDocs /\ {"uploading", "none"} \subseteq MaterialStates
      BY <1>3 DEF DocOK, MaterialStates
    <2> QED
      BY <1>3, <2>1, MaterialForms
  <1> HIDE DEF doc
  <1>8. DocOK(r.id, doc)'
    BY <1>3, <1>4, <1>6, <1>7 DEF DocOK, SameOthers
  <1>9. Ended(k) /\ docs' = [docs EXCEPT ![r.id] = doc]
    BY <1>1, <1>2, SaveMoves DEF ShapeInv
  <1> QED
    BY <1>2, <1>3, <1>4, <1>5, <1>8, <1>9, ShapeSaved

LEMMA CompleteMaterialReadsShape ==
    ASSUME ShapeInv, NEW k \in Slots, CompleteMaterialReads(k)
    PROVE  ShapeInv'
PROOF
  <1> DEFINE next == IF docs[requests[k].id].materials[requests[k].arg] = "uploading"
                     THEN "info" ELSE "end"
  <1>1. GetOrThrow(k, "material", next)
    BY DEF CompleteMaterialReads
  <1>2. requests[k].op = "material"
    BY <1>1 DEF GetOrThrow, At
  <1>3. KnowsOK(requests[k])
    BY KnowsItself
  <1>4. ASSUME Recalled(k, next, docs[requests[k].id]), next # "end"
        PROVE  KnowsOK(requests[k])'
    BY <1>2, <1>3, <1>4 DEF KnowsOK, MaterialOK, Recalled, Moved, Reporters
  <1>5. next \notin {"siblings", "apply"}
    OBVIOUS
  <1> HIDE DEF next
  <1> QED
    BY <1>1, <1>4, <1>5, ShapeReads DEF Readers

LEMMA CompleteMaterialChecksShape ==
    ASSUME ShapeInv, NEW k \in Slots, CompleteMaterialChecks(k)
    PROVE  ShapeInv'
PROOF
  <1>1. PICK r : r = requests[k]
    OBVIOUS
  <1>2. PICK file : file = files[r.id][r.arg]
    OBVIOUS
  <1>3. PICK status : status = MaterialStatus(file)
    OBVIOUS
  <1>4. /\ r.op = "material" /\ r.pc = "info"
        /\ files' = IF status = "none" THEN [files EXCEPT ![r.id][r.arg] = "gone"] ELSE files
        /\ IF status = "" THEN End(k) ELSE Proceed(k, "save", status)
        /\ UNCHANGED <<docs, level, assets, outdated, cut>>
    BY <1>1, <1>2, <1>3 DEF CompleteMaterialChecks, At
  <1>5. r.id \in Lessons /\ MaterialOK(r)
    BY <1>1, <1>4, KnowsItself DEF Readers, KnowsOK
  <1>6. status \in {"ready", "none", ""} /\ (status = "none" => file = "oversize")
    BY <1>3 DEF MaterialStatus
  <1>7. Grows /\ UnusedStep(k) /\ files' \in [Lessons -> [Files -> FileStates]]
    <2>1. CASE status = "none"
      <3>1. Becomes(r.id, r.arg, "gone") /\ assets' = assets /\ cut' = cut /\ StoresOK
        BY <1>2, <1>4, <1>6, <2>1 DEF ShapeInv, Becomes
      <3>2. r.arg \in Files /\ "gone" \in FileStates
        BY <1>5 DEF Files, FileStates, MaterialOK
      <3> QED
        BY <1>5, <3>1, <3>2, OneFileChanges, StayUnusedForAll
    <2>2. CASE status # "none"
      BY <1>4, <2>2 DEF Grows, AssetsStep, FilesStep, UnusedStep, ShapeInv, StoresOK
    <2> QED
      BY <2>1, <2>2
  <1>8. StoresOK'
    BY <1>4, <1>7, StoresChange DEF ShapeInv, StoresOK
  <1>9. CASE status # ""
    <2>1. Went(k, "save", status)
      BY <1>4, <1>9, ProceedMoves DEF ShapeInv
    <2>2. KnowsOK(requests[k])'
      BY <1>1, <1>4, <1>5, <1>6, <1>9, <2>1 DEF Went, Moved, KnowsOK, MaterialOK, Reporters
    <2> QED
      BY <1>1, <1>4, <1>7, <1>8, <2>1, <2>2, ShapeWentOn
  <1>10. CASE status = ""
    <2>1. Ended(k)
      BY <1>4, <1>10, EndMoves DEF ShapeInv
    <2>2. requests'[k].op = "none" /\ OthersStay(k) /\ RequestOK(k)'
      BY <2>1, EndedOK DEF Ended, Idle
    <2> QED
      BY <1>7, <1>8, <2>2, SameUploads, ShapeMoves
  <1> QED
    BY <1>9, <1>10

LEMMA CompleteMaterialSavesShape ==
    ASSUME ShapeInv, NEW k \in Slots, CompleteMaterialSaves(k)
    PROVE  ShapeInv'
PROOF
  <1>1. PICK r : r = requests[k]
    OBVIOUS
  <1> DEFINE doc == WithMaterial(r.copy, r.arg, r.got)
  <1>2. /\ r.op = "material" /\ r.pc = "save" /\ Save(k, doc, TRUE)
        /\ UNCHANGED <<level, files, assets, cut>>
    BY <1>1 DEF CompleteMaterialSaves, At, WithMaterial
  <1>3. r.id \in Lessons /\ DocOK(r.id, r.copy) /\ MaterialOK(r)
    BY <1>1, <1>2, KnowsItself DEF KnowsOK, Readers
  <1>4. r.arg \in Materials /\ r.got \in {"ready", "none"} /\ r.copy.materials[r.arg] = "uploading"
    BY <1>2, <1>3 DEF MaterialOK
  <1>5. /\ doc \in LessonDocs /\ doc.status = r.copy.status /\ doc.asset = r.copy.asset
        /\ SameOthers(doc, r.copy, r.arg)
    <2>1. r.copy \in LessonDocs /\ r.got \in MaterialStates
      BY <1>3, <1>4 DEF DocOK, MaterialStates
    <2> QED
      BY <1>4, <2>1, MaterialForms
  <1> HIDE DEF doc
  <1>6. files[r.id][r.arg] # "unused"
    BY <1>3, <1>4 DEF DocOK
  <1>7. DocOK(r.id, doc)
    BY <1>3, <1>4, <1>5, <1>6, OtherMaterialOK
  <1> QED
    BY <1>1, <1>2, <1>3, <1>7, ShapeSavedAlone

LEMMA RemoveMaterialReadsShape ==
    ASSUME ShapeInv, NEW k \in Slots, RemoveMaterialReads(k)
    PROVE  ShapeInv'
PROOF
  <1> DEFINE next == IF requests[k].arg \in MaterialsOf(docs[requests[k].id])
                     THEN "file" ELSE "end"
  <1>1. GetOrThrow(k, "unmaterial", next)
    BY DEF RemoveMaterialReads
  <1>2. requests[k].op = "unmaterial"
    BY <1>1 DEF GetOrThrow, At
  <1>3. KnowsOK(requests[k])
    BY KnowsItself
  <1>4. ASSUME Recalled(k, next, docs[requests[k].id]) PROVE KnowsOK(requests[k])'
    BY <1>2, <1>3, <1>4 DEF KnowsOK, Recalled, Moved, Reporters
  <1>5. next \notin {"siblings", "apply"}
    OBVIOUS
  <1> HIDE DEF next
  <1> QED
    BY <1>1, <1>4, <1>5, ShapeReads DEF Readers

LEMMA RemoveMaterialFileMoves ==
    ASSUME ShapeInv, NEW k \in Slots, RemoveMaterialFile(k)
    PROVE  /\ requests[k].id \in Lessons /\ requests[k].arg \in Materials
           /\ files' \in [Lessons -> [Files -> FileStates]] /\ Grows /\ UnusedStep(k)
           /\ Went(k, "save", NoArg) /\ At(k, "unmaterial", "file")
           /\ \A l \in Lessons : \A m \in Materials :
                 l # requests[k].id \/ m # requests[k].arg => files'[l][m] = files[l][m]
           /\ UNCHANGED <<docs, level, assets, outdated, cut>>
PROOF
  <1>1. PICK r : r = requests[k]
    OBVIOUS
  <1>2. /\ r.op = "unmaterial" /\ At(k, "unmaterial", "file") /\ Proceed(k, "save", NoArg)
        /\ files' = [files EXCEPT ![r.id][r.arg] = Gone(@)]
        /\ UNCHANGED <<docs, level, assets, outdated, cut>>
    BY <1>1 DEF RemoveMaterialFile, At
  <1>3. r.id \in Lessons /\ r.arg \in Materials
    BY <1>1, <1>2, KnowsItself DEF Readers, KnowsOK
  <1>4. Materials \subseteq Files
    BY DEF Files
  <1>5. /\ files' \in [Lessons -> [Files -> FileStates]]
        /\ files'[r.id][r.arg] = Gone(files[r.id][r.arg])
        /\ \A l \in Lessons : \A m \in Materials :
              l # r.id \/ m # r.arg => files'[l][m] = files[l][m]
    <2>1. files \in [Lessons -> [Files -> FileStates]]
      BY DEF ShapeInv, StoresOK
    <2>2. Gone(files[r.id][r.arg]) \in FileStates
      BY <1>3, <1>4, <2>1 DEF Gone, FileStates
    <2> QED
      BY <1>2, <1>3, <1>4, <2>1, <2>2
  <1>6. Grows /\ UnusedStep(k)
    BY <1>2, <1>3, <1>5 DEF Grows, AssetsStep, FilesStep, UnusedStep, Gone
  <1>7. Went(k, "save", NoArg)
    BY <1>2, ProceedMoves DEF ShapeInv
  <1> QED
    BY <1>1, <1>2, <1>3, <1>5, <1>6, <1>7

LEMMA RemoveMaterialFileShape ==
    ASSUME ShapeInv, NEW k \in Slots, RemoveMaterialFile(k)
    PROVE  ShapeInv'
PROOF
  <1>1. /\ files' \in [Lessons -> [Files -> FileStates]] /\ Grows /\ UnusedStep(k)
        /\ Went(k, "save", NoArg) /\ At(k, "unmaterial", "file")
        /\ UNCHANGED <<docs, level, assets, outdated, cut>> /\ requests[k].arg \in Materials
    BY RemoveMaterialFileMoves
  <1>2. StoresOK'
    BY <1>1, StoresChange DEF ShapeInv, StoresOK
  <1>3. KnowsOK(requests[k])'
    BY <1>1 DEF Went, Moved, KnowsOK, At, Reporters
  <1> QED
    BY <1>1, <1>2, <1>3, ShapeWentOn DEF At

LEMMA RemoveMaterialSavesShape ==
    ASSUME ShapeInv, NEW k \in Slots, RemoveMaterialSaves(k)
    PROVE  ShapeInv'
PROOF
  <1>1. PICK r : r = requests[k]
    OBVIOUS
  <1> DEFINE doc == WithMaterial(r.copy, r.arg, "none")
  <1>2. /\ r.op = "unmaterial" /\ r.pc = "save" /\ Save(k, doc, TRUE)
        /\ UNCHANGED <<level, files, assets, cut>>
    BY <1>1 DEF RemoveMaterialSaves, At, WithMaterial
  <1>3. r.id \in Lessons /\ DocOK(r.id, r.copy) /\ r.arg \in Materials
    BY <1>1, <1>2, KnowsItself DEF KnowsOK, Readers
  <1>4. /\ doc \in LessonDocs /\ doc.status = r.copy.status /\ doc.asset = r.copy.asset
        /\ doc.materials[r.arg] = "none"
        /\ SameOthers(doc, r.copy, r.arg)
    <2>1. r.copy \in LessonDocs /\ {"uploading", "none"} \subseteq MaterialStates
      BY <1>3 DEF DocOK, MaterialStates
    <2> QED
      BY <1>3, <2>1, MaterialForms
  <1> HIDE DEF doc
  <1>5. DocOK(r.id, doc)
    BY <1>3, <1>4, OtherMaterialOK
  <1> QED
    BY <1>1, <1>2, <1>3, <1>5, ShapeSavedAlone

-----------------------------------------------------------------------------
(* The curriculum, and the steps together *)

LEMMA LevelReadsShape ==
    ASSUME ShapeInv, NEW k \in Slots, UpsertReadsStored(k) \/ VideoTopicReads(k)
    PROVE  ShapeInv'
PROOF
  <1>1. PICK pc \in {"count", "save"} :
          /\ requests' = [requests EXCEPT ![k].pc = pc, ![k].copy = level]
          /\ requests[k].op \in {"level", "topic"} /\ OnlyRequests
          /\ requests[k].op = "level" => pc = "count"
    BY DEF UpsertReadsStored, VideoTopicReads, At
  <1>2. Recalled(k, pc, level) /\ StoresSame /\ cut \subseteq cut'
    <2>1. StoresSame /\ cut \subseteq cut' /\ RequestsOK
      BY <1>1 DEF OnlyRequests, StoresSame, ShapeInv
    <2> QED
      BY <1>1, <2>1, RecallMoves
  <1>3. KnowsOK(requests[k]) /\ DOMAIN level \subseteq Topics
    BY KnowsItself DEF ShapeInv, StoresOK
  <1>4. /\ requests'[k].op = requests[k].op /\ requests'[k].pc = pc
        /\ requests'[k].arg = requests[k].arg /\ requests'[k].copy = level /\ OthersStay(k)
    BY <1>2 DEF Recalled, Moved
  <1>5. RequestOK(k)'
    BY <1>1, <1>3, <1>4 DEF RequestOK, KnowsOK, LevelOK, TopicOK, Remembers, Readers, Reporters
  <1> QED
    BY <1>2, <1>4, <1>5, ShapeWent

LEMMA UpsertCountsShape ==
    ASSUME ShapeInv, NEW k \in Slots, UpsertCounts(k)
    PROVE  ShapeInv'
PROOF
  <1>1. /\ requests[k].op = "level" /\ OnlyRequests
        /\ \/ Orphaned(DOMAIN requests[k].arg) = {} /\ Proceed(k, "save", TopicsInUse)
           \/ End(k)
    BY DEF UpsertCounts, At
  <1>2. PICK used : used = TopicsInUse
    OBVIOUS
  <1>3. CASE Orphaned(DOMAIN requests[k].arg) = {} /\ Proceed(k, "save", used)
    <2>1. KnowsOK(requests[k])
      BY <1>1, KnowsItself
    <2>2. used \subseteq DOMAIN requests[k].arg
      BY <1>2, <1>3 DEF TopicsInUse, Orphaned
    <2>3. ASSUME Went(k, "save", used) PROVE KnowsOK(requests[k])'
      BY <1>1, <2>1, <2>2, <2>3 DEF KnowsOK, LevelOK, Went, Moved, Reporters
    <2> QED
      BY <1>1, <1>3, <2>3, ShapeGoesOn DEF Readers
  <1> QED
    BY <1>1, <1>2, <1>3, ShapeEnds

\* A lesson that is not said to be outdated has its topic still.
TopicsKept ==
    \A l \in Present \ outdated' : docs[l].topic \in DOMAIN level => docs[l].topic \in DOMAIN level'

LEMMA LevelSavesMoves ==
    ASSUME ShapeInv, NEW k \in Slots, UpsertSaves(k) \/ VideoTopicSaves(k)
    PROVE  /\ DOMAIN level' \subseteq Topics /\ Ended(k)
           /\ outdated \subseteq outdated' /\ TopicsKept
           /\ requests[k].op \in {"level", "topic"} /\ UNCHANGED <<docs, files, assets, cut>>
PROOF
  <1>1. PICK r : r = requests[k]
    OBVIOUS
  <1>2. End(k) /\ UNCHANGED <<docs, files, assets, cut>>
    BY DEF UpsertSaves, VideoTopicSaves
  <1>3. DOMAIN level \subseteq Topics /\ KnowsOK(r) /\ Ended(k)
    BY <1>1, <1>2, KnowsItself, EndMoves DEF ShapeInv, StoresOK
  <1>4. CASE UpsertSaves(k)
    <2>1. /\ r.op = "level" /\ r.pc = "save" /\ DOMAIN level' = DOMAIN r.arg
          /\ outdated' = outdated
                         \cup (IF TopicsInUse # r.got THEN Orphaned(DOMAIN r.arg) ELSE {})
      BY <1>1, <1>4 DEF UpsertSaves, At
    <2>2. DOMAIN r.arg \subseteq Topics /\ r.got \subseteq DOMAIN r.arg
      BY <1>3, <2>1 DEF KnowsOK, LevelOK
    <2>3. ASSUME NEW l \in Present \ outdated' PROVE docs[l].topic \in DOMAIN level'
      <3>1. CASE TopicsInUse = r.got
        BY <2>1, <2>2, <3>1 DEF TopicsInUse
      <3>2. CASE TopicsInUse # r.got
        BY <2>1, <3>2 DEF Orphaned
      <3> QED
        BY <3>1, <3>2
    <2> QED
      BY <1>1, <1>2, <1>3, <2>1, <2>2, <2>3 DEF TopicsKept
  <1>5. CASE VideoTopicSaves(k)
    <2>1. /\ r.op = "topic" /\ r.pc = "save" /\ DOMAIN level' = DOMAIN r.copy \cup {r.arg}
          /\ outdated' = outdated
                         \cup (IF level # r.copy THEN Orphaned(DOMAIN level') ELSE {})
      BY <1>1, <1>5 DEF VideoTopicSaves, At
    <2>2. DOMAIN r.copy \subseteq Topics /\ r.arg \in Topics
      BY <1>3, <2>1 DEF KnowsOK, TopicOK
    <2>3. TopicsKept
      BY <2>1 DEF TopicsKept, Orphaned
    <2> QED
      BY <1>1, <1>2, <1>3, <2>1, <2>2, <2>3
  <1> QED
    BY <1>4, <1>5

LEMMA LevelSavesShape ==
    ASSUME ShapeInv, NEW k \in Slots, UpsertSaves(k) \/ VideoTopicSaves(k)
    PROVE  ShapeInv'
PROOF
  <1>1. /\ DOMAIN level' \subseteq Topics /\ Ended(k) /\ UNCHANGED <<docs, files, assets, cut>>
    BY LevelSavesMoves
  <1>2. Grows /\ UnusedStep(k)
    BY <1>1 DEF Grows, AssetsStep, FilesStep, UnusedStep
  <1>3. StoresOK'
    BY <1>1, <1>2, StoresChange DEF ShapeInv, StoresOK
  <1>4. requests'[k].op = "none" /\ OthersStay(k) /\ RequestOK(k)'
    BY <1>1, EndedOK DEF Ended, Idle
  <1> QED
    BY <1>2, <1>3, <1>4, SameUploads, ShapeMoves

LEMMA StopShape ==
    ASSUME ShapeInv, NEW k \in Slots, Stop(k)
    PROVE  ShapeInv'
PROOF
  <1>1. Ended(k) /\ StoresSame /\ cut \subseteq cut'
    BY EndMoves DEF Stop, StoresSame, ShapeInv
  <1> QED
    BY <1>1, ShapeEnded

LEMMA HandleShape ==
    ASSUME ShapeInv, NEW k \in Slots, Handle(k)
    PROVE  ShapeInv'
PROOF BY ChecksTopicShape, ReadSiblingsShape, CreateSavesShape, UpdateReadsShape,
         UpdateSavesShape, ReorderListsShape, ReorderSavesShape, RemoveReadsShape,
         RemoveAssetShape, RemovePrefixShape, RemoveDeletesShape, CompleteReadsShape,
         CompleteChecksFileShape, CompleteCreatesAssetShape, CompleteSavesShape, AddReadsShape,
         AddSavesShape, CompleteMaterialReadsShape, CompleteMaterialChecksShape,
         CompleteMaterialSavesShape, RemoveMaterialReadsShape, RemoveMaterialFileShape,
         RemoveMaterialSavesShape, LevelReadsShape, UpsertCountsShape, LevelSavesShape,
         SyncReadsAssetShape, ApplyShape DEF Handle

LEMMA StepKeepsShape ==
    ASSUME ShapeInv, [LibraryNext]_vars
    PROVE  ShapeInv'
PROOF
  <1>1. CASE UNCHANGED vars
    <2>1. requests' = requests /\ StoresSame /\ cut \subseteq cut'
      BY <1>1 DEF vars, StoresSame
    <2>2. StoresOK'
      BY <2>1, SameStores DEF ShapeInv
    <2> QED
      BY <2>1, <2>2, StoresSameGrow, ShapeAlone DEF StoresSame, UnusedStay
  <1>2. CASE LibraryNext
    <2>1. Clients \subseteq Slots
      BY DEF Slots
    <2>2. ASSUME Polls PROVE ShapeInv'
      BY <2>2, ReportsShape DEF Polls
    <2>3. ASSUME Elsewhere PROVE ShapeInv'
      BY <2>3, ArrivalShape, AssetSettlesShape, ReportsShape DEF Elsewhere, Outcomes
    <2> QED
      BY <1>2, <2>1, <2>2, <2>3, AsksKeepShape, HandleShape, StopShape DEF LibraryNext
  <1> QED
    BY <1>1, <1>2

-----------------------------------------------------------------------------
(* How a step keeps the documents, the assets and the files in agreement *)

Aging == outdated \subseteq outdated' /\ cut \subseteq cut'

\* What a step with request k owes to an asset,
AssetServed(k, a) ==
    Paid(a)' => \/ Named(a)' \/ Saving(k, a)'
                \/ Paid(a) /\ ~Saving(k, a) /\ (Named(a) => Named(a)')

\* to the place of a lesson,
PlaceServed(l) ==
    docs'[l] # NoDoc /\ l \notin outdated' =>
        \/ docs'[l].topic \in DOMAIN level'
        \/ /\ docs[l] # NoDoc /\ docs'[l].topic = docs[l].topic
           /\ docs[l].topic \in DOMAIN level => docs[l].topic \in DOMAIN level'

\* and to a file.
FileServed(k, l, m) ==
    Offered(l, m)' /\ l \notin outdated' \cup cut' =>
        \/ files'[l][m] = "ok" \/ Taking(k, l, m)'
        \/ Offered(l, m) /\ ~Taking(k, l, m) /\ (files[l][m] = "ok" => files'[l][m] = "ok")

AllServed(k) ==
    /\ \A a \in Assets : AssetServed(k, a)
    /\ \A l \in Lessons : PlaceServed(l)
    /\ \A l \in Lessons : \A m \in Materials : FileServed(k, l, m)

LEMMA ServedAgree ==
    ASSUME AgreementInv, NEW k \in Slots, OthersStay(k), Aging, AllServed(k)
    PROVE  AgreementInv'
PROOF
  <1>1. ASSUME NEW a \in Assets, Paid(a)' PROVE Named(a)' \/ \E i \in Slots : Saving(i, a)'
    <2>1. CASE Named(a)' \/ Saving(k, a)'
      BY <2>1
    <2>2. CASE Paid(a) /\ ~Saving(k, a) /\ (Named(a) => Named(a)')
      <3>1. CASE Named(a)
        BY <2>2, <3>1
      <3>2. CASE ~Named(a)
        <4>1. PICK i \in Slots : Saving(i, a)
          BY <2>2, <3>2 DEF AgreementInv, KnownInv
        <4>2. i # k
          BY <2>2, <4>1
        <4>3. Saving(i, a)'
          BY <4>1, <4>2 DEF Saving, At, OthersStay
        <4> QED
          BY <4>3
      <3> QED
        BY <3>1, <3>2
    <2> QED
      BY <1>1, <2>1, <2>2 DEF AllServed, AssetServed
  <1>2. ASSUME NEW l \in Lessons \ outdated', docs'[l] # NoDoc PROVE docs'[l].topic \in DOMAIN level'
    <2>1. l \notin outdated
      BY DEF Aging
    <2> QED
      BY <1>2, <2>1 DEF AllServed, PlaceServed, AgreementInv, FoundInv
  <1>3. ASSUME NEW l \in Lessons \ (outdated' \cup cut'), NEW m \in Materials, Offered(l, m)'
        PROVE  files'[l][m] = "ok" \/ \E i \in Slots : Taking(i, l, m)'
    <2>1. CASE files'[l][m] = "ok" \/ Taking(k, l, m)'
      BY <2>1
    <2>2. CASE Offered(l, m) /\ ~Taking(k, l, m) /\ (files[l][m] = "ok" => files'[l][m] = "ok")
      <3>1. l \in Lessons \ (outdated \cup cut)
        BY DEF Aging
      <3>2. CASE files[l][m] = "ok"
        BY <2>2, <3>2
      <3>3. CASE files[l][m] # "ok"
        <4>1. PICK i \in Slots : Taking(i, l, m)
          BY <2>2, <3>1, <3>3 DEF AgreementInv, FileInv
        <4>2. i # k
          BY <2>2, <4>1
        <4>3. Taking(i, l, m)'
          BY <4>1, <4>2 DEF Taking, At, OthersStay
        <4> QED
          BY <4>3
      <3> QED
        BY <3>2, <3>3
    <2> QED
      BY <1>3, <2>1, <2>2 DEF AllServed, FileServed
  <1> QED
    BY <1>1, <1>2, <1>3 DEF AgreementInv, KnownInv, FoundInv, FileInv

\* A request that is not saving a completion or taking a file, nor about to.
Holds(k, l) ==
    \/ \E a \in Assets : Saving(k, a) /\ assets[a].lesson = l
    \/ \E m \in Materials : Taking(k, l, m)

\* The stores are not touched, and k holds nothing but of lessons cut short.
LEMMA QuietAgree ==
    ASSUME AgreementInv, NEW k \in Slots, OthersStay(k), StoresSame, Aging,
           \A l : Holds(k, l) => l \in cut',
           \A l \in Lessons : \A m \in Materials : Checked(k, l, m)' => Checked(k, l, m)
    PROVE  AgreementInv'
PROOF
  <1>1. ASSUME NEW a \in Assets PROVE AssetServed(k, a)
    <2>1. Named(a)' <=> Named(a)
      BY DEF Named, StoresSame
    <2>2. Paid(a)' => Paid(a) /\ assets[a].lesson \notin cut'
      BY DEF Paid, StoresSame, Aging
    <2>3. Saving(k, a) => assets[a].lesson \in cut'
      BY DEF Holds
    <2> QED
      BY <2>1, <2>2, <2>3 DEF AssetServed
  <1>2. ASSUME NEW l \in Lessons PROVE PlaceServed(l)
    BY DEF PlaceServed, StoresSame
  <1>3. ASSUME NEW l \in Lessons, NEW m \in Materials PROVE FileServed(k, l, m)
    <2>1. Offered(l, m)' => Offered(l, m)
      <3>1. ASSUME NEW i \in Slots, Checked(i, l, m)' PROVE Checked(i, l, m)
        BY <3>1 DEF OthersStay, Checked, At
      <3> QED
        BY <3>1 DEF Offered, StoresSame
    <2>2. Taking(k, l, m) => l \in cut'
      BY DEF Holds
    <2> QED
      BY <2>1, <2>2 DEF FileServed, StoresSame
  <1> QED
    BY <1>1, <1>2, <1>3, ServedAgree DEF AllServed

\* Where a handler may be when it holds nothing, and go without having checked.
Light(op, pc) ==
    /\ op = "complete" => pc # "save"
    /\ op \in {"remove", "unmaterial"} => pc \notin {"save", "delete"}
Unchecked(op, pc) == op = "material" => pc # "save"

LEMMA LightHolds ==
    ASSUME NEW k, Light(requests[k].op, requests[k].pc)
    PROVE  \A l : ~Holds(k, l)
PROOF BY DEF Light, Holds, Saving, Taking, At

LEMMA PlainAgrees ==
    ASSUME AgreementInv, NEW k \in Slots, OthersStay(k), StoresSame, UNCHANGED <<outdated, cut>>,
           Light(requests[k].op, requests[k].pc), Unchecked(requests'[k].op, requests'[k].pc)
    PROVE  AgreementInv'
PROOF
  <1>1. \A l : ~Holds(k, l)
    BY LightHolds
  <1>2. \A l \in Lessons : \A m \in Materials : ~Checked(k, l, m)'
    BY DEF Unchecked, Checked, At
  <1>3. Aging
    BY DEF Aging
  <1> QED
    BY <1>1, <1>2, <1>3, QuietAgree

-----------------------------------------------------------------------------
(* The steps that only move a request *)

LEMMA BeganAgrees ==
    ASSUME ShapeInv, AgreementInv, NEW k \in Slots, NEW op, NEW pc, NEW id, NEW arg,
           Begin(k, Request(op, pc, id, arg)), pc # "save"
    PROVE  AgreementInv'
PROOF
  <1>1. Began(k, op, pc, id, arg)
    BY BeginMoves DEF ShapeInv
  <1>2. /\ OthersStay(k) /\ StoresSame /\ UNCHANGED <<outdated, cut>>
        /\ requests[k] = Idle /\ requests'[k].pc = pc
    BY <1>1 DEF Began, Moved
  <1>3. Light(requests[k].op, requests[k].pc) /\ Unchecked(requests'[k].op, requests'[k].pc)
    BY <1>2 DEF Light, Idle, Unchecked
  <1> QED
    BY <1>2, <1>3, PlainAgrees

LEMMA AsksAgree ==
    ASSUME ShapeInv, AgreementInv, NEW k \in Slots, PanelAsks(k)
    PROVE  AgreementInv'
PROOF
  <1>1. ASSUME NEW l \in Lessons, NEW t \in Topics, Create(k, l, t) PROVE AgreementInv'
    BY <1>1, BeganAgrees DEF Create
  <1>2. ASSUME NEW l \in Present, NEW t \in Topics \cup {NoArg}, Update(k, l, t) PROVE AgreementInv'
    BY <1>2, BeganAgrees DEF Update
  <1>3. ASSUME NEW l \in Present, Remove(k, l) PROVE AgreementInv'
    BY <1>3, BeganAgrees DEF Remove
  <1>4. ASSUME NEW l \in Present, CompleteUpload(k, l) PROVE AgreementInv'
    BY <1>4, BeganAgrees DEF CompleteUpload
  <1>5. ASSUME NEW l \in Present, NEW m \in Materials, AddMaterial(k, l, m) PROVE AgreementInv'
    BY <1>5, BeganAgrees DEF AddMaterial
  <1>6. ASSUME NEW l \in Present, NEW m \in Materials, CompleteMaterial(k, l, m) PROVE AgreementInv'
    BY <1>6, BeganAgrees DEF CompleteMaterial
  <1>7. ASSUME NEW l \in Present, NEW m \in Materials, RemoveMaterial(k, l, m) PROVE AgreementInv'
    BY <1>7, BeganAgrees DEF RemoveMaterial
  <1>8. ASSUME NEW t \in Topics, Reorder(k, t) PROVE AgreementInv'
    BY <1>8, BeganAgrees DEF Reorder
  <1>9. ASSUME NEW t \in Topics, CreateVideoTopic(k, t) PROVE AgreementInv'
    BY <1>9, BeganAgrees DEF CreateVideoTopic
  <1>10. ASSUME NEW kept, UpsertLevel(k, kept) PROVE AgreementInv'
    BY <1>10, BeganAgrees DEF UpsertLevel
  <1> QED
    BY <1>1, <1>2, <1>3, <1>4, <1>5, <1>6, <1>7, <1>8, <1>9, <1>10 DEF PanelAsks

LEMMA WentAgrees ==
    ASSUME ShapeInv, AgreementInv, NEW k \in Slots, NEW pc, NEW got,
           Proceed(k, pc, got) \/ End(k), OnlyRequests,
           Light(requests[k].op, requests[k].pc), Unchecked(requests[k].op, pc)
    PROVE  AgreementInv'
PROOF
  <1>1. StoresSame /\ UNCHANGED <<outdated, cut>>
    BY DEF OnlyRequests, StoresSame
  <1>2. CASE Proceed(k, pc, got)
    <2>1. /\ OthersStay(k) /\ requests'[k].op = requests[k].op /\ requests'[k].pc = pc
      BY <1>2, ProceedMoves DEF ShapeInv, Went, Moved
    <2> QED
      BY <1>1, <2>1, PlainAgrees
  <1>3. CASE End(k)
    <2>1. OthersStay(k) /\ Unchecked(requests'[k].op, requests'[k].pc)
      BY <1>3, EndMoves DEF ShapeInv, Ended, Idle, Unchecked
    <2> QED
      BY <1>1, <2>1, PlainAgrees
  <1> QED
    BY <1>2, <1>3

LEMMA ReadsAgree ==
    ASSUME ShapeInv, AgreementInv, NEW k \in Slots, NEW op, NEW next, GetOrThrow(k, op, next),
           Unchecked(op, next)
    PROVE  AgreementInv'
PROOF
  <1>1. /\ At(k, op, "get") /\ StoresSame /\ UNCHANGED <<outdated, cut>>
        /\ Ended(k) \/ Recalled(k, next, docs[requests[k].id])
    BY GetOrThrowMoves DEF ShapeInv
  <1>2. OthersStay(k) /\ Unchecked(requests'[k].op, requests'[k].pc)
    BY <1>1 DEF Ended, Idle, Recalled, Moved, Unchecked, At
  <1>3. Light(requests[k].op, requests[k].pc)
    BY <1>1 DEF Light, At
  <1> QED
    BY <1>1, <1>2, <1>3, PlainAgrees

LEMMA MovesAgree ==
    ASSUME ShapeInv, AgreementInv, NEW k \in Slots,
           \/ CreateChecksTopic(k) \/ ReadSiblings(k)
           \/ UpdateReads(k) \/ UpdateChecksTopic(k)
           \/ ReorderLists(k) \/ RemoveReads(k) \/ CompleteReads(k) \/ AddReads(k)
           \/ CompleteMaterialReads(k) \/ RemoveMaterialReads(k)
           \/ UpsertReadsStored(k) \/ UpsertCounts(k) \/ VideoTopicReads(k)
           \/ SyncReadsAsset(k)
    PROVE  AgreementInv'
PROOF
  <1>1. ASSUME CreateChecksTopic(k) \/ UpdateChecksTopic(k) PROVE AgreementInv'
    <2>1. requests[k].op \in {"create", "update"} /\ OnlyRequests
      BY <1>1 DEF CreateChecksTopic, UpdateChecksTopic, AssertTopic, At
    <2>2. PICK got : Proceed(k, "siblings", got) \/ End(k)
      BY <1>1 DEF CreateChecksTopic, UpdateChecksTopic, AssertTopic
    <2> QED
      BY <2>1, <2>2, WentAgrees DEF Light, Unchecked
  <1>2. ASSUME ReadSiblings(k) PROVE AgreementInv'
    <2>1. requests[k].pc = "siblings" /\ requests[k].op \in {"create", "update"} /\ OnlyRequests
      BY <1>2 DEF ReadSiblings, ShapeInv, RequestOK
    <2>2. PICK n : Proceed(k, "save", n)
      BY <1>2 DEF ReadSiblings
    <2> QED
      BY <2>1, <2>2, WentAgrees DEF Light, Unchecked
  <1>3. ASSUME UpdateReads(k) PROVE AgreementInv'
    <2>1. PICK next : GetOrThrow(k, "update", next)
      BY <1>3 DEF UpdateReads
    <2> QED
      BY <2>1, ReadsAgree DEF Unchecked
  <1>4. ASSUME ReorderLists(k) PROVE AgreementInv'
    <2>1. requests[k].op = "reorder" /\ OnlyRequests
      BY <1>4 DEF ReorderLists, At
    <2>2. PICK order : Proceed(k, "save", order)
      BY <1>4 DEF ReorderLists
    <2> QED
      BY <2>1, <2>2, WentAgrees DEF Light, Unchecked
  <1>5. ASSUME RemoveReads(k) PROVE AgreementInv'
    BY <1>5, ReadsAgree DEF RemoveReads, Unchecked
  <1>6. ASSUME CompleteReads(k) PROVE AgreementInv'
    <2>1. PICK next : GetOrThrow(k, "complete", next)
      BY <1>6 DEF CompleteReads
    <2> QED
      BY <2>1, ReadsAgree DEF Unchecked
  <1>7. ASSUME AddReads(k) PROVE AgreementInv'
    <2>1. PICK next : GetOrThrow(k, "add", next)
      BY <1>7 DEF AddReads
    <2> QED
      BY <2>1, ReadsAgree DEF Unchecked
  <1>8. ASSUME CompleteMaterialReads(k) PROVE AgreementInv'
    <2>1. PICK next \in {"info", "end"} : GetOrThrow(k, "material", next)
      BY <1>8 DEF CompleteMaterialReads
    <2> QED
      BY <2>1, ReadsAgree DEF Unchecked
  <1>9. ASSUME RemoveMaterialReads(k) PROVE AgreementInv'
    <2>1. PICK next : GetOrThrow(k, "unmaterial", next)
      BY <1>9 DEF RemoveMaterialReads
    <2> QED
      BY <2>1, ReadsAgree DEF Unchecked
  <1>10. ASSUME UpsertReadsStored(k) \/ VideoTopicReads(k) PROVE AgreementInv'
    <2>1. PICK pc :
            /\ requests' = [requests EXCEPT ![k].pc = pc, ![k].copy = level]
            /\ requests[k].op \in {"level", "topic"} /\ OnlyRequests
      BY <1>10 DEF UpsertReadsStored, VideoTopicReads, At
    <2>2. OthersStay(k) /\ requests'[k].op = requests[k].op
      BY <2>1, RecallMoves DEF ShapeInv, Recalled, Moved
    <2> QED
      BY <2>1, <2>2, PlainAgrees DEF Light, Unchecked, OnlyRequests, StoresSame
  <1>11. ASSUME UpsertCounts(k) PROVE AgreementInv'
    <2>1. requests[k].op = "level" /\ OnlyRequests
      BY <1>11 DEF UpsertCounts, At
    <2>2. PICK got : Proceed(k, "save", got) \/ End(k)
      BY <1>11 DEF UpsertCounts
    <2> QED
      BY <2>1, <2>2, WentAgrees DEF Light, Unchecked
  <1>12. ASSUME SyncReadsAsset(k) PROVE AgreementInv'
    <2>1. requests[k].op = "sync" /\ OnlyRequests
      BY <1>12 DEF SyncReadsAsset, At
    <2>2. PICK got : Proceed(k, "apply", got) \/ End(k)
      BY <1>12 DEF SyncReadsAsset
    <2> QED
      BY <2>1, <2>2, WentAgrees DEF Light, Unchecked
  <1> QED
    BY <1>1, <1>2, <1>3, <1>4, <1>5, <1>6, <1>7, <1>8, <1>9, <1>10, <1>11, <1>12

LEMMA ReportsAgree ==
    ASSUME ShapeInv, AgreementInv, NEW k \in Slots,
           (\E a \in Assets : MuxEvent(k, a)) \/ \E l \in Lessons : Sync(k, l)
    PROVE  AgreementInv'
PROOF
  <1>1. /\ OthersStay(k) /\ StoresSame /\ UNCHANGED <<outdated, cut>>
        /\ requests[k] = Idle /\ requests'[k].op \in {"event", "sync"}
    BY MuxEventMoves, SyncMoves DEF ShapeInv, Moved
  <1>2. Light(requests[k].op, requests[k].pc) /\ Unchecked(requests'[k].op, requests'[k].pc)
    BY <1>1 DEF Light, Idle, Unchecked
  <1> QED
    BY <1>1, <1>2, PlainAgrees

\* A restart owns up to what it held.
LEMMA StopAgrees ==
    ASSUME ShapeInv, AgreementInv, NEW k \in Slots, Stop(k)
    PROVE  AgreementInv'
PROOF
  <1>1. /\ Ended(k) /\ StoresSame /\ Aging
        /\ requests[k].id \in Lessons => requests[k].id \in cut'
    BY EndMoves, LibraryAssumption DEF Stop, StoresSame, ShapeInv, Aging
  <1>2. ASSUME NEW l, Holds(k, l) PROVE l \in cut'
    <2>1. CASE \E m \in Materials : Taking(k, l, m)
      <3>1. requests[k].id = l /\ requests[k].op \in {"remove", "unmaterial"}
        BY <2>1 DEF Taking, At
      <3> QED
        BY <1>1, <3>1 DEF ShapeInv, RequestOK, Readers
    <2>2. CASE \E a \in Assets : Saving(k, a) /\ assets[a].lesson = l
      <3>1. /\ requests[k].op = "complete" /\ requests[k].pc = "save"
            /\ assets[requests[k].got].lesson = l
        BY <2>2 DEF Saving, At
      <3>2. requests[k].id = l /\ l \in Lessons
        BY <3>1 DEF ShapeInv, RequestOK, KnowsOK, CompleteOK, Readers
      <3> QED
        BY <1>1, <3>2
    <2> QED
      BY <1>2, <2>1, <2>2 DEF Holds
  <1>3. \A l \in Lessons : \A m \in Materials : ~Checked(k, l, m)'
    BY <1>1 DEF Checked, At, Ended, Idle
  <1> QED
    BY <1>1, <1>2, <1>3, QuietAgree DEF Ended

-----------------------------------------------------------------------------
(* The saves *)

SavedAs(k, id, doc) ==
    /\ requests[k].id = id /\ Ended(k) /\ docs' = [docs EXCEPT ![id] = doc]
    /\ outdated \subseteq outdated' /\ (docs[id] # requests[k].copy => id \in outdated')
    /\ UNCHANGED <<assets, level, cut>>

\* The asset of the copy is kept, or given up; the one that was made is named.
AssetKept(k, id, doc) ==
    LET copy == requests[k].copy IN
    /\ copy # NoDoc => \/ doc # NoDoc /\ doc.asset = copy.asset
                       \/ copy.asset \notin Assets \/ assets[copy.asset].deleted
                       \/ id \in cut
    /\ \A a \in Assets : Saving(k, a) => doc # NoDoc /\ doc.asset = a

PlaceKept(k, id, doc) ==
    doc # NoDoc => \/ id \in outdated' \/ doc.topic \in DOMAIN level
                   \/ requests[k].copy # NoDoc /\ doc.topic = requests[k].copy.topic

OffersKept(k, id) ==
    \A m \in Materials :
        Offered(id, m)' /\ id \notin outdated' \cup cut => Offered(id, m) /\ ~Taking(k, id, m)

FilesKept ==
    \A l \in Lessons : \A m \in Materials : files[l][m] = "ok" => files'[l][m] = "ok"

LEMMA SavedChecks ==
    ASSUME NEW k \in Slots, Ended(k), NEW i \in Slots, NEW l, NEW m, Checked(i, l, m)'
    PROVE  Checked(i, l, m) /\ i # k
PROOF
  <1>1. i # k
    BY DEF Ended, Idle, Checked, At
  <1> QED
    BY <1>1 DEF Ended, OthersStay, Checked, At

LEMMA SavedAgree ==
    ASSUME ShapeInv, AgreementInv, NEW k \in Slots, NEW id \in Lessons, NEW doc,
           SavedAs(k, id, doc), AssetKept(k, id, doc), PlaceKept(k, id, doc),
           OffersKept(k, id), FilesKept
    PROVE  AgreementInv'
PROOF
  <1>1. /\ docs'[id] = doc /\ \A l \in Lessons \ {id} : docs'[l] = docs[l]
        /\ outdated \subseteq outdated' /\ UNCHANGED <<assets, level, cut>>
        /\ id \notin outdated' => docs[id] = requests[k].copy
    BY DEF SavedAs, ShapeInv, StoresOK
  <1>2. ASSUME NEW a \in Assets, Paid(a)'
        PROVE  Named(a)' \/ (Paid(a) /\ ~Saving(k, a) /\ (Named(a) => Named(a)'))
    <2>1. Paid(a) /\ assets[a].lesson \notin outdated' \cup cut /\ assets[a].lesson \in Lessons
      BY <1>1, <1>2 DEF Paid, ShapeInv, StoresOK
    <2>2. CASE assets[a].lesson = id
      <3>1. docs[id] = requests[k].copy
        BY <1>1, <2>1, <2>2
      <3>2. Saving(k, a) => Named(a)'
        BY <1>1, <2>2 DEF AssetKept, Named
      <3>3. Named(a) => Named(a)'
        BY <1>1, <2>1, <2>2, <3>1 DEF AssetKept, Named, Paid
      <3> QED
        BY <2>1, <3>2, <3>3
    <2>3. CASE assets[a].lesson # id
      <3>1. ~Saving(k, a)
        BY <2>3 DEF Saving, At, SavedAs, ShapeInv, RequestOK, KnowsOK, CompleteOK
      <3>2. Named(a)' <=> Named(a)
        BY <1>1, <2>1, <2>3 DEF Named
      <3> QED
        BY <2>1, <3>1, <3>2
    <2> QED
      BY <2>2, <2>3
  <1>3. ASSUME NEW l \in Lessons PROVE PlaceServed(l)
    <2>1. CASE l = id
      BY <1>1, <2>1 DEF PlaceServed, PlaceKept
    <2>2. CASE l # id
      BY <1>1, <2>2 DEF PlaceServed
    <2> QED
      BY <2>1, <2>2
  <1>4. ASSUME NEW l \in Lessons, NEW m \in Materials PROVE FileServed(k, l, m)
    <2>1. files[l][m] = "ok" => files'[l][m] = "ok"
      BY DEF FilesKept
    <2>2. CASE l = id
      BY <1>1, <2>1, <2>2 DEF FileServed, OffersKept
    <2>3. CASE l # id
      <3>1. ~Taking(k, l, m)
        BY <2>3 DEF Taking, SavedAs
      <3>2. Offered(l, m)' => Offered(l, m)
        BY <1>1, <2>3, SavedChecks DEF Offered, SavedAs
      <3> QED
        BY <2>1, <3>1, <3>2 DEF FileServed
    <2> QED
      BY <2>2, <2>3
  <1>5. AllServed(k)
    BY <1>2, <1>3, <1>4 DEF AllServed, AssetServed
  <1>6. OthersStay(k) /\ Aging
    BY <1>1 DEF SavedAs, Ended, Aging
  <1> QED
    BY <1>5, <1>6, ServedAgree

\* Nothing of the materials is changed.
LEMMA OffersOfTheCopy ==
    ASSUME ShapeInv, NEW k \in Slots, NEW id \in Lessons, NEW doc, SavedAs(k, id, doc),
           doc # NoDoc, requests[k].copy # NoDoc, doc.materials = requests[k].copy.materials,
           Light(requests[k].op, requests[k].pc) \/ requests[k].op = "complete"
    PROVE  OffersKept(k, id)
PROOF
  <1>1. docs'[id] = doc /\ (id \notin outdated' => docs[id] = requests[k].copy)
    BY DEF SavedAs, ShapeInv, StoresOK
  <1>2. ASSUME NEW m \in Materials, Offered(id, m)', id \notin outdated' \cup cut
        PROVE  Offered(id, m) /\ ~Taking(k, id, m)
    <2>1. ~Taking(k, id, m)
      BY DEF Taking, Light, At
    <2>2. Offered(id, m)
      BY <1>1, <1>2, SavedChecks DEF Offered, SavedAs
    <2> QED
      BY <2>1, <2>2
  <1> QED
    BY <1>2 DEF OffersKept

LEMMA NotSaving ==
    ASSUME NEW k, requests[k].op # "complete"
    PROVE  \A a : ~Saving(k, a)
PROOF BY DEF Saving, At

LEMMA CreateSavesAgree ==
    ASSUME ShapeInv, AgreementInv, NEW k \in Slots, CreateSaves(k)
    PROVE  AgreementInv'
PROOF
  <1>1. PICK r : r = requests[k]
    OBVIOUS
  <1>2. PICK doc : doc = NewLesson(r.arg, r.got.order)
    OBVIOUS
  <1>3. /\ r.op = "create" /\ r.pc = "save"
        /\ files' = [files EXCEPT ![r.id]["source"] = "awaited"]
        /\ Save(k, doc, TopicsAsRead(r.got))
        /\ UNCHANGED <<level, assets, cut>>
    BY <1>1, <1>2 DEF CreateSaves, At
  <1>4. /\ r.id \in Lessons /\ r.arg \in Topics /\ r.got.order \in Nat /\ r.copy = NoDoc
        /\ r.arg \in r.got.topics
    BY <1>1, <1>3, KnowsItself DEF KnowsOK, CreateOK, Placed
  <1>5. SavedAs(k, r.id, doc) /\ (~TopicsAsRead(r.got) => r.id \in outdated')
    BY <1>1, <1>3, EndMoves DEF ShapeInv, SavedAs, Save, Mark
  <1>6. /\ doc \in LessonDocs /\ doc.topic = r.arg
        /\ \A m \in Materials : doc.materials[m] = "none"
    BY <1>2, <1>4, NewLessonForms
  <1>7. FilesKept
    BY <1>3, <1>4, LibraryAssumption DEF FilesKept, ShapeInv, StoresOK, Files
  <1>8. AssetKept(k, r.id, doc)
    BY <1>1, <1>3, <1>4, NotSaving DEF AssetKept
  <1>9. PlaceKept(k, r.id, doc)
    BY <1>4, <1>5, <1>6 DEF PlaceKept, TopicsAsRead
  <1>10. OffersKept(k, r.id)
    <2>1. docs'[r.id] = doc
      BY <1>4, <1>5 DEF SavedAs, ShapeInv, StoresOK
    <2> QED
      BY <1>6, <2>1 DEF OffersKept, Offered
  <1> QED
    BY <1>4, <1>5, <1>7, <1>8, <1>9, <1>10, SavedAgree

LEMMA UpdateSavesAgree ==
    ASSUME ShapeInv, AgreementInv, NEW k \in Slots, UpdateSaves(k)
    PROVE  AgreementInv'
PROOF
  <1>1. PICK r : r = requests[k]
    OBVIOUS
  <1> DEFINE moves == r.arg \notin {NoArg, r.copy.topic}
             doc == IF moves THEN [r.copy EXCEPT !.topic = r.arg, !.order = r.got.order] ELSE r.copy
  <1>2. /\ r.op = "update" /\ r.pc = "save"
        /\ Save(k, doc, moves => TopicsAsRead(r.got))
        /\ UNCHANGED <<level, files, assets, cut>>
    BY <1>1 DEF UpdateSaves, At
  <1>3. r.id \in Lessons /\ DocOK(r.id, r.copy) /\ UpdateOK(r) /\ r.copy \in LessonDocs
    BY <1>1, <1>2, KnowsItself DEF KnowsOK, Readers, DocOK
  <1>4. /\ doc \in LessonDocs /\ SameVideo(doc, r.copy)
        /\ doc.topic = IF moves THEN r.arg ELSE r.copy.topic
    <2>1. CASE moves
      <3>1. r.arg \in Topics /\ r.got.order \in Nat
        BY <1>2, <1>3, <2>1 DEF UpdateOK, Placed
      <3>2. r.copy \in LessonDocs
        BY <1>3
      <3>3. PICK n \in Nat : n = r.got.order
        BY <3>1
      <3>4. doc = [r.copy EXCEPT !.topic = r.arg, !.order = n]
        BY <2>1, <3>3
      <3>5. /\ [r.copy EXCEPT !.topic = r.arg, !.order = n] \in LessonDocs
            /\ [r.copy EXCEPT !.topic = r.arg, !.order = n].topic = r.arg
            /\ SameVideo([r.copy EXCEPT !.topic = r.arg, !.order = n], r.copy)
        BY <3>1, <3>2, MovedForms
      <3> HIDE DEF doc
      <3> QED
        BY <2>1, <3>4, <3>5
    <2>2. CASE ~moves
      BY <1>3, <2>2 DEF SameVideo
    <2> QED
      BY <2>1, <2>2
  <1> HIDE DEF doc
  <1>5. SavedAs(k, r.id, doc) /\ (~(moves => TopicsAsRead(r.got)) => r.id \in outdated')
    BY <1>1, <1>2, SaveMoves DEF ShapeInv, SavedAs
  <1>6. doc # NoDoc /\ r.copy # NoDoc
    BY <1>3, <1>4, FieldsOfDoc
  <1>7. AssetKept(k, r.id, doc)
    BY <1>1, <1>2, <1>4, <1>6, NotSaving DEF AssetKept, SameVideo
  <1>8. PlaceKept(k, r.id, doc)
    <2>1. moves => r.arg \in r.got.topics
      BY <1>2, <1>3 DEF UpdateOK, Placed
    <2> QED
      BY <1>1, <1>4, <1>5, <1>6, <2>1 DEF PlaceKept, TopicsAsRead
  <1>9. OffersKept(k, r.id)
    BY <1>1, <1>2, <1>3, <1>4, <1>5, <1>6, OffersOfTheCopy DEF SameVideo, Light
  <1> QED
    BY <1>2, <1>3, <1>5, <1>7, <1>8, <1>9, SavedAgree DEF FilesKept

LEMMA RemoveDeletesAgree ==
    ASSUME ShapeInv, AgreementInv, NEW k \in Slots, RemoveDeletes(k)
    PROVE  AgreementInv'
PROOF
  <1>1. PICK r : r = requests[k]
    OBVIOUS
  <1>2. /\ r.op = "remove" /\ r.pc = "delete" /\ Save(k, NoDoc, TRUE)
        /\ UNCHANGED <<level, files, assets, cut>>
    BY <1>1 DEF RemoveDeletes, At
  <1>3. r.id \in Lessons /\ RemoveOK(r)
    BY <1>1, <1>2, KnowsItself DEF Readers, KnowsOK
  <1>4. SavedAs(k, r.id, NoDoc)
    BY <1>1, <1>2, SaveMoves DEF ShapeInv, SavedAs
  <1>5. AssetKept(k, r.id, NoDoc)
    BY <1>1, <1>2, <1>3, NotSaving, LibraryAssumption DEF AssetKept, RemoveOK
  <1>6. PlaceKept(k, r.id, NoDoc)
    BY DEF PlaceKept
  <1>7. OffersKept(k, r.id)
    <2>1. docs'[r.id] = NoDoc
      BY <1>3, <1>4 DEF SavedAs, ShapeInv, StoresOK
    <2> QED
      BY <2>1 DEF OffersKept, Offered
  <1> QED
    BY <1>2, <1>3, <1>4, <1>5, <1>6, <1>7, SavedAgree DEF FilesKept

LEMMA CompleteSavesAgree ==
    ASSUME ShapeInv, AgreementInv, NEW k \in Slots, CompleteSaves(k)
    PROVE  AgreementInv'
PROOF
  <1>1. PICK r : r = requests[k]
    OBVIOUS
  <1> DEFINE doc == [r.copy EXCEPT !.status = "processing", !.asset = r.got]
  <1>2. /\ r.op = "complete" /\ r.pc = "save" /\ Save(k, doc, TRUE)
        /\ UNCHANGED <<level, files, assets, cut>>
    BY <1>1 DEF CompleteSaves, At
  <1>3. r.id \in Lessons /\ DocOK(r.id, r.copy) /\ CompleteOK(r)
    BY <1>1, <1>2, KnowsItself DEF KnowsOK, Readers
  <1>4. r.copy \in LessonDocs /\ r.got \in Assets /\ r.copy.asset = NoAsset
    BY <1>2, <1>3 DEF DocOK, CompleteOK
  <1>5. /\ doc \in LessonDocs /\ doc.materials = r.copy.materials
        /\ doc.asset = r.got /\ doc.topic = r.copy.topic
    BY <1>4 DEF LessonDocs, Statuses
  <1> HIDE DEF doc
  <1>6. SavedAs(k, r.id, doc)
    BY <1>1, <1>2, SaveMoves DEF ShapeInv, SavedAs
  <1>7. doc # NoDoc /\ r.copy # NoDoc
    BY <1>4, <1>5, FieldsOfDoc
  <1>8. AssetKept(k, r.id, doc)
    BY <1>1, <1>4, <1>5, <1>7, LibraryAssumption DEF AssetKept, Saving
  <1>9. PlaceKept(k, r.id, doc)
    BY <1>1, <1>5, <1>7 DEF PlaceKept
  <1>10. OffersKept(k, r.id)
    BY <1>1, <1>2, <1>3, <1>5, <1>6, <1>7, OffersOfTheCopy
  <1> QED
    BY <1>2, <1>3, <1>6, <1>8, <1>9, <1>10, SavedAgree DEF FilesKept

LEMMA ApplyAgrees ==
    ASSUME ShapeInv, AgreementInv, NEW k \in Slots, ApplyAssetState(k)
    PROVE  AgreementInv'
PROOF
  <1>1. PICK r : r = requests[k]
    OBVIOUS
  <1> DEFINE doc == Apply(r.copy, r.arg, r.got)
  <1>2. r.pc = "apply" /\ Save(k, doc, TRUE) /\ UNCHANGED <<level, files, assets, cut>>
    BY <1>1 DEF ApplyAssetState
  <1>3. r.op \in Reporters
    BY <1>1, <1>2 DEF ShapeInv, RequestOK
  <1>4. r.id \in Lessons /\ DocOK(r.id, r.copy) /\ ReportOK(r)
    BY <1>1, <1>3, KnowsItself DEF KnowsOK
  <1>5. r.copy \in LessonDocs /\ r.arg \in Assets /\ r.copy.asset = r.arg /\ r.got \in Outcomes
    BY <1>2, <1>4 DEF DocOK, ReportOK
  <1>6. /\ doc \in LessonDocs /\ doc.materials = r.copy.materials
        /\ doc.asset = r.copy.asset /\ SamePlace(doc, r.copy)
    BY <1>5, AppliedForms
  <1> HIDE DEF doc
  <1>7. SavedAs(k, r.id, doc)
    BY <1>1, <1>2, SaveMoves DEF ShapeInv, SavedAs
  <1>8. doc # NoDoc /\ r.copy # NoDoc
    BY <1>5, <1>6, FieldsOfDoc
  <1>9. r.op # "complete" /\ Light(r.op, r.pc)
    BY <1>2, <1>3 DEF Light, Reporters
  <1>10. AssetKept(k, r.id, doc)
    BY <1>1, <1>6, <1>8, <1>9, NotSaving DEF AssetKept
  <1>11. PlaceKept(k, r.id, doc)
    BY <1>1, <1>6, <1>8 DEF PlaceKept, SamePlace
  <1>12. OffersKept(k, r.id)
    BY <1>1, <1>4, <1>6, <1>7, <1>8, <1>9, OffersOfTheCopy
  <1> QED
    BY <1>2, <1>4, <1>7, <1>10, <1>11, <1>12, SavedAgree DEF FilesKept

\* One material of the copy is changed.
LEMMA MaterialSavedAgrees ==
    ASSUME ShapeInv, AgreementInv, NEW k \in Slots, NEW id \in Lessons, NEW m \in Materials,
           NEW doc, doc \in LessonDocs, SavedAs(k, id, doc), FilesKept,
           requests[k].copy \in LessonDocs, requests[k].op \in {"add", "material", "unmaterial"},
           SamePlace(doc, requests[k].copy), doc.asset = requests[k].copy.asset,
           SameOthers(doc, requests[k].copy, m),
           requests[k].op = "unmaterial" => requests[k].arg = m,
           Offered(id, m)' /\ id \notin outdated' \cup cut => Offered(id, m) /\ ~Taking(k, id, m)
    PROVE  AgreementInv'
PROOF
  <1>1. docs'[id] = doc /\ (id \notin outdated' => docs[id] = requests[k].copy)
    BY DEF SavedAs, ShapeInv, StoresOK
  <1>2. doc # NoDoc /\ requests[k].copy # NoDoc
    BY FieldsOfDoc
  <1>3. AssetKept(k, id, doc)
    BY <1>2, NotSaving DEF AssetKept
  <1>4. PlaceKept(k, id, doc)
    BY <1>2 DEF PlaceKept, SamePlace
  <1>5. ASSUME NEW n \in Materials, Offered(id, n)', id \notin outdated' \cup cut
        PROVE  Offered(id, n) /\ ~Taking(k, id, n)
    <2>1. CASE n = m
      BY <1>5, <2>1
    <2>2. CASE n # m
      <3>1. ~Taking(k, id, n)
        BY <2>2 DEF Taking, At
      <3>2. Offered(id, n)
        BY <1>1, <1>2, <1>5, <2>2, SavedChecks DEF Offered, SavedAs, SameOthers
      <3> QED
        BY <3>1, <3>2
    <2> QED
      BY <2>1, <2>2
  <1> QED
    BY <1>3, <1>4, <1>5, SavedAgree DEF OffersKept

LEMMA AddSavesAgree ==
    ASSUME ShapeInv, AgreementInv, NEW k \in Slots, AddSaves(k)
    PROVE  AgreementInv'
PROOF
  <1>1. PICK r : r = requests[k]
    OBVIOUS
  <1> DEFINE doc == WithMaterial(r.copy, r.arg, "uploading")
  <1>2. /\ r.op = "add" /\ r.pc = "save" /\ Save(k, doc, TRUE)
        /\ files' = [files EXCEPT ![r.id][r.arg] = "awaited"]
        /\ UNCHANGED <<level, assets, cut>>
    BY <1>1 DEF AddSaves, At, WithMaterial
  <1>3. /\ r.id \in Lessons /\ r.copy \in LessonDocs /\ r.arg \in Materials
        /\ files[r.id][r.arg] = "unused"
    BY <1>1, <1>2, KnowsItself DEF KnowsOK, AddOK, Readers, DocOK
  <1>4. /\ doc \in LessonDocs /\ SamePlace(doc, r.copy) /\ doc.asset = r.copy.asset
        /\ doc.materials[r.arg] = "uploading" /\ SameOthers(doc, r.copy, r.arg)
    <2>1. "uploading" \in MaterialStates
      BY DEF MaterialStates
    <2> QED
      BY <1>3, <2>1, MaterialForms
  <1> HIDE DEF doc
  <1>5. SavedAs(k, r.id, doc)
    BY <1>1, <1>2, SaveMoves DEF ShapeInv, SavedAs
  <1>6. FilesKept
    BY <1>2, <1>3 DEF FilesKept, ShapeInv, StoresOK, Files
  <1>7. docs'[r.id] = doc
    BY <1>3, <1>5 DEF SavedAs, ShapeInv, StoresOK
  <1>8. ASSUME NEW i \in Slots, Checked(i, r.id, r.arg)' PROVE FALSE
    <2>1. Checked(i, r.id, r.arg)
      BY <1>5, <1>8, SavedChecks DEF SavedAs
    <2>2. /\ DocOK(r.id, requests[i].copy) /\ requests[i].copy.materials[r.arg] = "uploading"
      BY <2>1, KnowsItself DEF Checked, At, KnowsOK, MaterialOK, Readers
    <2> QED
      BY <1>3, <2>2 DEF DocOK
  <1>9. ~Offered(r.id, r.arg)'
    BY <1>4, <1>7, <1>8 DEF Offered
  <1> QED
    BY <1>1, <1>2, <1>3, <1>4, <1>5, <1>6, <1>9, MaterialSavedAgrees

LEMMA CompleteMaterialSavesAgree ==
    ASSUME ShapeInv, AgreementInv, NEW k \in Slots, CompleteMaterialSaves(k)
    PROVE  AgreementInv'
PROOF
  <1>1. PICK r : r = requests[k]
    OBVIOUS
  <1> DEFINE doc == WithMaterial(r.copy, r.arg, r.got)
  <1>2. /\ r.op = "material" /\ r.pc = "save" /\ Save(k, doc, TRUE)
        /\ UNCHANGED <<level, files, assets, cut>>
    BY <1>1 DEF CompleteMaterialSaves, At, WithMaterial
  <1>3. /\ r.id \in Lessons /\ r.copy \in LessonDocs /\ r.arg \in Materials
        /\ r.got \in {"ready", "none"} /\ r.copy.materials[r.arg] = "uploading"
    BY <1>1, <1>2, KnowsItself DEF KnowsOK, MaterialOK, Readers, DocOK
  <1>4. /\ doc \in LessonDocs /\ SamePlace(doc, r.copy) /\ doc.asset = r.copy.asset
        /\ doc.materials[r.arg] = r.got /\ SameOthers(doc, r.copy, r.arg)
    <2>1. r.got \in MaterialStates
      BY <1>3 DEF MaterialStates
    <2> QED
      BY <1>3, <2>1, MaterialForms
  <1> HIDE DEF doc
  <1>5. SavedAs(k, r.id, doc) /\ FilesKept
    BY <1>1, <1>2, SaveMoves DEF ShapeInv, SavedAs, FilesKept
  <1>6. docs'[r.id] = doc /\ (r.id \notin outdated' => docs[r.id] = r.copy) /\ r.copy # NoDoc
    BY <1>1, <1>3, <1>5, FieldsOfDoc DEF SavedAs, ShapeInv, StoresOK
  <1>7. ASSUME Offered(r.id, r.arg)', r.id \notin outdated' \cup cut
        PROVE  Offered(r.id, r.arg) /\ ~Taking(k, r.id, r.arg)
    <2>1. r.got = "ready"
      BY <1>3, <1>4, <1>6, <1>7 DEF Offered
    <2>2. Checked(k, r.id, r.arg)
      BY <1>1, <1>2, <2>1 DEF Checked, At
    <2>3. ~Taking(k, r.id, r.arg)
      BY <1>1, <1>2 DEF Taking, At
    <2> QED
      BY <1>3, <1>6, <1>7, <2>2, <2>3 DEF Offered
  <1> QED
    BY <1>1, <1>2, <1>3, <1>4, <1>5, <1>7, MaterialSavedAgrees

LEMMA RemoveMaterialSavesAgree ==
    ASSUME ShapeInv, AgreementInv, NEW k \in Slots, RemoveMaterialSaves(k)
    PROVE  AgreementInv'
PROOF
  <1>1. PICK r : r = requests[k]
    OBVIOUS
  <1> DEFINE doc == WithMaterial(r.copy, r.arg, "none")
  <1>2. /\ r.op = "unmaterial" /\ r.pc = "save" /\ Save(k, doc, TRUE)
        /\ UNCHANGED <<level, files, assets, cut>>
    BY <1>1 DEF RemoveMaterialSaves, At, WithMaterial
  <1>3. r.id \in Lessons /\ r.copy \in LessonDocs /\ r.arg \in Materials
    BY <1>1, <1>2, KnowsItself DEF KnowsOK, Readers, DocOK
  <1>4. /\ doc \in LessonDocs /\ SamePlace(doc, r.copy) /\ doc.asset = r.copy.asset
        /\ doc.materials[r.arg] = "none" /\ SameOthers(doc, r.copy, r.arg)
    <2>1. "none" \in MaterialStates
      BY DEF MaterialStates
    <2> QED
      BY <1>3, <2>1, MaterialForms
  <1> HIDE DEF doc
  <1>5. SavedAs(k, r.id, doc) /\ FilesKept
    BY <1>1, <1>2, SaveMoves DEF ShapeInv, SavedAs, FilesKept
  <1>6. docs'[r.id] = doc
    BY <1>3, <1>5 DEF SavedAs, ShapeInv, StoresOK
  <1>7. ~Offered(r.id, r.arg)'
    BY <1>4, <1>6 DEF Offered
  <1> QED
    BY <1>1, <1>2, <1>3, <1>4, <1>5, <1>7, MaterialSavedAgrees

-----------------------------------------------------------------------------
(* The steps that change files, assets or the curriculum *)

\* A file that goes is owned up to; a check that is new found its file.
FilesAccounted(k) ==
    \A l \in Lessons : \A m \in Materials :
        /\ files[l][m] = "ok" => files'[l][m] = "ok" \/ Taking(k, l, m)' \/ l \in cut'
        /\ Checked(k, l, m)' => Checked(k, l, m) \/ files'[l][m] = "ok"

LEMMA FilesAgree ==
    ASSUME AgreementInv, NEW k \in Slots, OthersStay(k),
           UNCHANGED <<docs, level, assets, outdated>>, cut \subseteq cut',
           Light(requests[k].op, requests[k].pc), FilesAccounted(k)
    PROVE  AgreementInv'
PROOF
  <1>1. \A l : ~Holds(k, l)
    BY LightHolds
  <1>2. ASSUME NEW a \in Assets PROVE AssetServed(k, a)
    BY <1>1 DEF AssetServed, Paid, Named, Holds
  <1>3. ASSUME NEW l \in Lessons PROVE PlaceServed(l)
    BY DEF PlaceServed
  <1>4. ASSUME NEW l \in Lessons, NEW m \in Materials PROVE FileServed(k, l, m)
    <2>1. ~Taking(k, l, m)
      BY <1>1 DEF Holds
    <2>2. ASSUME NEW i \in Slots, Checked(i, l, m)' PROVE Checked(i, l, m) \/ files'[l][m] = "ok"
      BY <2>2 DEF FilesAccounted, OthersStay, Checked, At
    <2>3. Offered(l, m)' => Offered(l, m) \/ files'[l][m] = "ok"
      BY <2>2 DEF Offered
    <2> QED
      BY <2>1, <2>3 DEF FileServed, FilesAccounted
  <1> QED
    BY <1>2, <1>3, <1>4, ServedAgree DEF AllServed, Aging

LEMMA CompleteChecksFileAgrees ==
    ASSUME ShapeInv, AgreementInv, NEW k \in Slots, CompleteChecksFile(k)
    PROVE  AgreementInv'
PROOF
  <1>1. PICK r : r = requests[k]
    OBVIOUS
  <1>2. /\ r.op = "complete" /\ r.pc = "info"
        /\ Proceed(k, "asset", NoArg) \/ End(k)
        /\ UNCHANGED <<docs, level, assets, outdated, cut>>
    BY <1>1 DEF CompleteChecksFile, At
  <1>3. files' = files \/ files' = [files EXCEPT ![r.id]["source"] = "gone"]
    BY <1>1 DEF CompleteChecksFile
  <1>4. OthersStay(k) /\ requests'[k].pc \in {"asset", "none"}
    BY <1>2, EndMoves, ProceedMoves DEF ShapeInv, Went, Moved, Ended, Idle
  <1>5. r.id \in Lessons /\ files \in [Lessons -> [Files -> FileStates]]
    BY <1>1, <1>2, KnowsItself DEF Readers, ShapeInv, StoresOK
  <1>6. \A l \in Lessons : \A m \in Materials : files'[l][m] = files[l][m]
    <2>1. CASE files' = [files EXCEPT ![r.id]["source"] = "gone"]
      BY <1>5, <2>1, LibraryAssumption DEF Files
    <2> QED
      BY <1>3, <2>1
  <1>7. FilesAccounted(k)
    BY <1>4, <1>6 DEF FilesAccounted, Checked, At
  <1> QED
    BY <1>1, <1>2, <1>4, <1>7, FilesAgree DEF Light

LEMMA RemovePrefixAgrees ==
    ASSUME ShapeInv, AgreementInv, NEW k \in Slots, RemovePrefix(k)
    PROVE  AgreementInv'
PROOF
  <1>1. PICK r : r = requests[k]
    OBVIOUS
  <1>2. /\ r.op = "remove" /\ r.pc = "files"
        /\ \/ /\ files' = [files EXCEPT ![r.id] = [f \in Files |-> Gone(@[f])]]
              /\ cut' = cut
           \/ /\ cut' = cut \cup {r.id} /\ files' = files
        /\ Proceed(k, "delete", NoArg)
        /\ UNCHANGED <<docs, level, assets, outdated>>
    BY <1>1 DEF RemovePrefix, Fails, At
  <1>3. /\ OthersStay(k) /\ requests'[k].op = "remove" /\ requests'[k].pc = "delete"
        /\ requests'[k].id = r.id
    BY <1>1, <1>2, ProceedMoves DEF ShapeInv, Went, Moved
  <1>4. \A l \in Lessons \ {r.id} : files'[l] = files[l]
    BY <1>2 DEF ShapeInv, StoresOK
  <1>5. \A m : Taking(k, r.id, m)'
    BY <1>3 DEF Taking, At
  <1>6. FilesAccounted(k)
    BY <1>3, <1>4, <1>5 DEF FilesAccounted, Checked, At
  <1> QED
    BY <1>1, <1>2, <1>3, <1>6, FilesAgree DEF Light

LEMMA CompleteMaterialChecksAgree ==
    ASSUME ShapeInv, AgreementInv, NEW k \in Slots, CompleteMaterialChecks(k)
    PROVE  AgreementInv'
PROOF
  <1>1. PICK r : r = requests[k]
    OBVIOUS
  <1>2. PICK file : file = files[r.id][r.arg]
    OBVIOUS
  <1>3. PICK status : status = MaterialStatus(file)
    OBVIOUS
  <1>4. /\ r.op = "material" /\ r.pc = "info"
        /\ files' = IF status = "none" THEN [files EXCEPT ![r.id][r.arg] = "gone"] ELSE files
        /\ IF status = "" THEN End(k) ELSE Proceed(k, "save", status)
        /\ UNCHANGED <<docs, level, assets, outdated, cut>>
    BY <1>1, <1>2, <1>3 DEF CompleteMaterialChecks, At
  <1>5. /\ status = "none" => file = "oversize"
        /\ status = "ready" => file = "ok"
    BY <1>3 DEF MaterialStatus
  <1>6. r.id \in Lessons /\ r.arg \in Materials /\ files \in [Lessons -> [Files -> FileStates]]
    BY <1>1, <1>4, KnowsItself DEF Readers, KnowsOK, MaterialOK, ShapeInv, StoresOK
  <1>7. \A l \in Lessons : \A m \in Materials : files[l][m] = "ok" => files'[l][m] = "ok"
    <2>1. CASE status = "none"
      BY <1>2, <1>4, <1>5, <1>6, <2>1 DEF Files
    <2> QED
      BY <1>4, <2>1
  <1>8. /\ OthersStay(k)
        /\ requests'[k].pc = "save" /\ requests'[k].got = "ready" =>
              requests'[k].id = r.id /\ requests'[k].arg = r.arg /\ status = "ready"
    <2>1. CASE status = ""
      <3>1. Ended(k)
        BY <1>4, <2>1, EndMoves DEF ShapeInv
      <3> QED
        BY <3>1 DEF Ended, Idle
    <2>2. CASE status # ""
      <3>1. Went(k, "save", status)
        BY <1>4, <2>2, ProceedMoves DEF ShapeInv
      <3> QED
        BY <1>1, <3>1 DEF Went, Moved
    <2> QED
      BY <2>1, <2>2
  <1>9. ASSUME NEW l \in Lessons, NEW m \in Materials, Checked(k, l, m)' PROVE files'[l][m] = "ok"
    <2>1. /\ requests'[k].pc = "save" /\ requests'[k].got = "ready"
          /\ requests'[k].id = l /\ requests'[k].arg = m
      BY <1>9 DEF Checked, At
    <2> QED
      BY <1>2, <1>4, <1>5, <1>8, <2>1
  <1>10. FilesAccounted(k)
    BY <1>7, <1>9 DEF FilesAccounted
  <1> QED
    BY <1>1, <1>4, <1>8, <1>10, FilesAgree DEF Light

LEMMA RemoveMaterialFileAgrees ==
    ASSUME ShapeInv, AgreementInv, NEW k \in Slots, RemoveMaterialFile(k)
    PROVE  AgreementInv'
PROOF
  <1>1. PICK r : r = requests[k]
    OBVIOUS
  <1>2. /\ r.op = "unmaterial" /\ r.pc = "file" /\ r.id \in Lessons /\ r.arg \in Materials
        /\ \A l \in Lessons : \A m \in Materials :
              l # r.id \/ m # r.arg => files'[l][m] = files[l][m]
        /\ UNCHANGED <<docs, level, assets, outdated, cut>>
    BY <1>1, RemoveMaterialFileMoves DEF At
  <1>3. /\ OthersStay(k) /\ requests'[k].op = "unmaterial" /\ requests'[k].pc = "save"
        /\ requests'[k].id = r.id /\ requests'[k].arg = r.arg
    BY <1>1, <1>2, RemoveMaterialFileMoves DEF Went, Moved
  <1>4. Taking(k, r.id, r.arg)'
    BY <1>3 DEF Taking, At
  <1>5. FilesAccounted(k)
    BY <1>2, <1>3, <1>4 DEF FilesAccounted, Checked, At
  <1> QED
    BY <1>1, <1>2, <1>3, <1>5, FilesAgree DEF Light

LEMMA RemoveAssetAgrees ==
    ASSUME ShapeInv, AgreementInv, NEW k \in Slots, RemoveAsset(k)
    PROVE  AgreementInv'
PROOF
  <1>1. PICK r : r = requests[k]
    OBVIOUS
  <1>2. /\ r.op = "remove" /\ r.pc = "asset"
        /\ \/ assets' = assets
           \/ assets' = [assets EXCEPT ![r.copy.asset].deleted = TRUE]
        /\ cut \subseteq cut' /\ Proceed(k, "files", NoArg)
        /\ UNCHANGED <<docs, level, files, outdated>>
    BY <1>1 DEF RemoveAsset, Fails, At
  <1>3. OthersStay(k) /\ requests'[k].op = "remove"
    BY <1>1, <1>2, ProceedMoves DEF ShapeInv, Went, Moved
  <1>4. \A l : ~Holds(k, l)
    BY <1>1, <1>2, LightHolds DEF Light
  <1>5. ASSUME NEW a \in Assets
        PROVE  /\ assets'[a].lesson = assets[a].lesson /\ assets'[a].state = assets[a].state
               /\ ~assets'[a].deleted => ~assets[a].deleted
    <2>1. assets[a] \in MuxAssets /\ assets \in [Assets -> MuxAssets]
      BY DEF ShapeInv, StoresOK
    <2>2. assets'[a] \in {assets[a], [assets[a] EXCEPT !.deleted = TRUE]}
      BY <1>2, <2>1
    <2>3. CASE assets'[a] = [assets[a] EXCEPT !.deleted = TRUE]
      BY <2>1, <2>3 DEF MuxAssets
    <2> QED
      BY <2>2, <2>3
  <1>6. ASSUME NEW a \in Assets PROVE AssetServed(k, a)
    <2>1. ~Saving(k, a)
      BY <1>4 DEF Holds
    <2>2. Named(a)' <=> Named(a)
      BY <1>2, <1>5 DEF Named
    <2>3. Paid(a)' => Paid(a)
      BY <1>2, <1>5 DEF Paid
    <2> QED
      BY <2>1, <2>2, <2>3 DEF AssetServed
  <1>7. ASSUME NEW l \in Lessons PROVE PlaceServed(l)
    BY <1>2 DEF PlaceServed
  <1>8. ASSUME NEW l \in Lessons, NEW m \in Materials PROVE FileServed(k, l, m)
    <2>1. ~Taking(k, l, m)
      BY <1>4 DEF Holds
    <2>2. ASSUME NEW i \in Slots, Checked(i, l, m)' PROVE Checked(i, l, m)
      BY <1>3, <2>2 DEF OthersStay, Checked, At
    <2>3. Offered(l, m)' => Offered(l, m)
      BY <1>2, <2>2 DEF Offered
    <2> QED
      BY <1>2, <2>1, <2>3 DEF FileServed
  <1> QED
    BY <1>2, <1>3, <1>6, <1>7, <1>8, ServedAgree DEF AllServed, Aging

LEMMA CompleteCreatesAssetAgrees ==
    ASSUME ShapeInv, AgreementInv, NEW k \in Slots, CompleteCreatesAsset(k)
    PROVE  AgreementInv'
PROOF
  <1>1. PICK r : r = requests[k]
    OBVIOUS
  <1>2. PICK a \in Assets : /\ assets[a].state = "none" /\ Proceed(k, "save", a)
                            /\ assets' = [assets EXCEPT ![a] = Asset(r.id, "preparing")]
    BY <1>1 DEF CompleteCreatesAsset
  <1>3. /\ r.op = "complete" /\ r.pc = "asset" /\ UNCHANGED <<docs, level, files, outdated, cut>>
    BY <1>1 DEF CompleteCreatesAsset, At
  <1>4. r.id \in Lessons
    BY <1>1, <1>3, KnowsItself DEF Readers
  <1>5. \A b \in Assets \ {a} : assets'[b] = assets[b]
    BY <1>2, <1>3, <1>4, AssetIsMade DEF ShapeInv
  <1>6. /\ OthersStay(k) /\ requests'[k].op = "complete" /\ requests'[k].pc = "save"
        /\ requests'[k].got = a
    BY <1>1, <1>2, <1>3, ProceedMoves DEF ShapeInv, Went, Moved
  <1>7. \A l : ~Holds(k, l)
    BY <1>1, <1>3, LightHolds DEF Light
  <1>8. ASSUME NEW b \in Assets PROVE AssetServed(k, b)
    <2>1. CASE b = a
      <3>1. Saving(k, b)'
        BY <1>6, <2>1 DEF Saving, At
      <3> QED
        BY <3>1 DEF AssetServed
    <2>2. CASE b # a
      <3>1. assets'[b] = assets[b]
        BY <1>5, <2>2
      <3>2. ~Saving(k, b)
        BY <1>7 DEF Holds
      <3> QED
        BY <1>3, <3>1, <3>2 DEF AssetServed, Paid, Named
    <2> QED
      BY <2>1, <2>2
  <1>9. ASSUME NEW l \in Lessons PROVE PlaceServed(l)
    BY <1>3 DEF PlaceServed
  <1>10. ASSUME NEW l \in Lessons, NEW m \in Materials PROVE FileServed(k, l, m)
    <2>1. ~Taking(k, l, m)
      BY <1>7 DEF Holds
    <2>2. ASSUME NEW i \in Slots, Checked(i, l, m)' PROVE Checked(i, l, m)
      BY <1>6, <2>2 DEF OthersStay, Checked, At
    <2>3. Offered(l, m)' => Offered(l, m)
      BY <1>3, <2>2 DEF Offered
    <2> QED
      BY <1>3, <2>1, <2>3 DEF FileServed
  <1> QED
    BY <1>3, <1>6, <1>8, <1>9, <1>10, ServedAgree DEF AllServed, Aging

\* The lessons of a topic get other orders, and nothing else.
LEMMA ReorderSavesAgree ==
    ASSUME ShapeInv, AgreementInv, NEW k \in Slots, ReorderSaves(k)
    PROVE  AgreementInv'
PROOF
  <1>1. PICK order : order = requests[k].got
    OBVIOUS
  <1>2. /\ requests[k].op = "reorder" /\ requests[k].pc = "save" /\ End(k)
        /\ docs' = IF DOMAIN order \subseteq Present
                   THEN [l \in Lessons |-> IF l \in DOMAIN order
                                           THEN [docs[l] EXCEPT !.order = order[l]] ELSE docs[l]]
                   ELSE docs
        /\ UNCHANGED <<level, files, assets, outdated, cut>>
    BY <1>1 DEF ReorderSaves, At
  <1>3. \A l \in DOMAIN order : order[l] \in Nat
    BY <1>1, <1>2, KnowsItself DEF KnowsOK, ReorderOK
  <1>4. Ended(k)
    BY <1>2, EndMoves DEF ShapeInv
  <1>5. ASSUME NEW l \in Lessons
        PROVE  /\ docs'[l] = NoDoc <=> docs[l] = NoDoc
               /\ docs[l] # NoDoc => docs'[l].topic = docs[l].topic /\ SameVideo(docs'[l], docs[l])
    <2>1. CASE DOMAIN order \subseteq Present /\ l \in DOMAIN order
      <3>1. PICK doc : doc = docs[l]
        OBVIOUS
      <3>2. PICK new : new = [doc EXCEPT !.order = order[l]]
        OBVIOUS
      <3>3. docs'[l] = new
        BY <1>2, <2>1, <3>1, <3>2
      <3>4. doc \in LessonDocs
        BY <2>1, <3>1 DEF ShapeInv, StoresOK, Present, DocOK
      <3>5. new \in LessonDocs /\ new.topic = doc.topic /\ SameVideo(new, doc)
        BY <1>3, <2>1, <3>2, <3>4, OrderedForms
      <3> QED
        BY <3>1, <3>3, <3>4, <3>5, FieldsOfDoc
    <2>2. CASE ~(DOMAIN order \subseteq Present /\ l \in DOMAIN order)
      BY <1>2, <2>2 DEF SameVideo
    <2> QED
      BY <2>1, <2>2
  <1>6. Light(requests[k].op, requests[k].pc)
    BY <1>2 DEF Light
  <1>7. \A l : ~Holds(k, l)
    BY <1>6, LightHolds
  <1>8. ASSUME NEW a \in Assets PROVE AssetServed(k, a)
    <2>1. ~Saving(k, a)
      BY <1>7 DEF Holds
    <2>2. Paid(a)' => Paid(a) /\ assets[a].lesson \in Lessons
      BY <1>2 DEF Paid, ShapeInv, StoresOK
    <2>3. assets[a].lesson \in Lessons /\ Named(a) => Named(a)'
      BY <1>2, <1>5 DEF Named, SameVideo
    <2> QED
      BY <2>1, <2>2, <2>3 DEF AssetServed
  <1>9. ASSUME NEW l \in Lessons PROVE PlaceServed(l)
    BY <1>2, <1>5 DEF PlaceServed
  <1>10. ASSUME NEW l \in Lessons, NEW m \in Materials PROVE FileServed(k, l, m)
    <2>1. ~Taking(k, l, m)
      BY <1>7 DEF Holds
    <2>2. Offered(l, m)' => Offered(l, m)
      BY <1>4, <1>5, SavedChecks DEF Offered, SameVideo
    <2> QED
      BY <1>2, <2>1, <2>2 DEF FileServed
  <1> QED
    BY <1>2, <1>4, <1>8, <1>9, <1>10, ServedAgree DEF AllServed, Aging, Ended

\* A save of the curriculum leaves no lesson without its topic, unless what it
\* read is no longer true.
LEMMA LevelSavesAgree ==
    ASSUME ShapeInv, AgreementInv, NEW k \in Slots, UpsertSaves(k) \/ VideoTopicSaves(k)
    PROVE  AgreementInv'
PROOF
  <1>1. /\ Ended(k) /\ outdated \subseteq outdated' /\ TopicsKept
        /\ requests[k].op \in {"level", "topic"} /\ UNCHANGED <<docs, files, assets, cut>>
    BY LevelSavesMoves
  <1>2. \A l : ~Holds(k, l)
    BY <1>1, LightHolds DEF Light
  <1>3. ASSUME NEW a \in Assets PROVE AssetServed(k, a)
    <2>1. ~Saving(k, a)
      BY <1>2 DEF Holds
    <2>2. Paid(a)' => Paid(a)
      BY <1>1 DEF Paid
    <2>3. Named(a)' <=> Named(a)
      BY <1>1 DEF Named
    <2> QED
      BY <2>1, <2>2, <2>3 DEF AssetServed
  <1>4. ASSUME NEW l \in Lessons PROVE PlaceServed(l)
    BY <1>1 DEF PlaceServed, TopicsKept, Present
  <1>5. ASSUME NEW l \in Lessons, NEW m \in Materials PROVE FileServed(k, l, m)
    <2>1. ~Taking(k, l, m)
      BY <1>2 DEF Holds
    <2>2. Offered(l, m)' => Offered(l, m)
      BY <1>1, SavedChecks DEF Offered
    <2> QED
      BY <1>1, <2>1, <2>2 DEF FileServed
  <1> QED
    BY <1>1, <1>3, <1>4, <1>5, ServedAgree DEF AllServed, Aging, Ended

-----------------------------------------------------------------------------
(* What happens elsewhere *)

LEMMA AloneAgrees ==
    ASSUME AgreementInv, UNCHANGED <<docs, level, requests, outdated, cut>>, FilesKept,
           \A a \in Assets : Paid(a)' => Paid(a) /\ assets'[a].lesson = assets[a].lesson
    PROVE  AgreementInv'
PROOF
  <1>1. ASSUME NEW a \in Assets, Paid(a)' PROVE Named(a)' \/ \E i \in Slots : Saving(i, a)'
    <2>1. Paid(a) /\ (Named(a)' <=> Named(a)) /\ \A i : Saving(i, a)' <=> Saving(i, a)
      BY <1>1 DEF Named, Saving, At
    <2> QED
      BY <2>1 DEF AgreementInv, KnownInv
  <1>2. FoundInv'
    BY DEF AgreementInv, FoundInv
  <1>3. ASSUME NEW l \in Lessons \ (outdated' \cup cut'), NEW m \in Materials, Offered(l, m)'
        PROVE  files'[l][m] = "ok" \/ \E i \in Slots : Taking(i, l, m)'
    <2>1. Offered(l, m) /\ \A i : Taking(i, l, m)' <=> Taking(i, l, m)
      BY <1>3 DEF Offered, Checked, Taking, At
    <2> QED
      BY <2>1 DEF AgreementInv, FileInv, FilesKept
  <1> QED
    BY <1>1, <1>2, <1>3 DEF AgreementInv, KnownInv, FileInv

LEMMA ArrivalAgrees ==
    ASSUME ShapeInv, AgreementInv, NEW l \in Lessons, NEW size,
           SourceArrives(l, size) \/ \E m \in Materials : MaterialArrives(l, m, size)
    PROVE  AgreementInv'
PROOF
  <1>1. PICK f \in Files : /\ files[l][f] = "awaited" /\ files' = [files EXCEPT ![l][f] = size]
                           /\ UNCHANGED <<docs, level, assets, requests, outdated, cut>>
    BY DEF SourceArrives, MaterialArrives, Files
  <1>2. FilesKept
    BY <1>1 DEF FilesKept, ShapeInv, StoresOK, Files
  <1>3. \A a \in Assets : Paid(a)' <=> Paid(a)
    BY <1>1 DEF Paid
  <1> QED
    BY <1>1, <1>2, <1>3, AloneAgrees

LEMMA AssetSettlesAgrees ==
    ASSUME ShapeInv, AgreementInv, NEW a \in Assets, NEW outcome, AssetSettles(a, outcome)
    PROVE  AgreementInv'
PROOF
  <1>1. /\ assets[a].state = "preparing" /\ assets' = [assets EXCEPT ![a].state = outcome]
        /\ UNCHANGED <<docs, level, files, requests, outdated, cut>>
    BY DEF AssetSettles
  <1>2. ASSUME NEW b \in Assets, Paid(b)' PROVE Paid(b) /\ assets'[b].lesson = assets[b].lesson
    <2>1. assets[b] \in MuxAssets /\ assets \in [Assets -> MuxAssets]
      BY DEF ShapeInv, StoresOK
    <2>2. /\ assets'[b].lesson = assets[b].lesson /\ assets'[b].deleted = assets[b].deleted
          /\ assets[b].state = "none" => assets'[b].state = "none"
      <3>1. CASE b = a
        <4>1. assets'[b] = [assets[b] EXCEPT !.state = outcome]
          BY <1>1, <2>1, <3>1
        <4> QED
          BY <1>1, <2>1, <3>1, <4>1 DEF MuxAssets
      <3>2. CASE b # a
        BY <1>1, <2>1, <3>2
      <3> QED
        BY <3>1, <3>2
    <2> QED
      BY <1>1, <1>2, <2>2 DEF Paid
  <1> QED
    BY <1>1, <1>2, AloneAgrees DEF FilesKept

LEMMA HandleAgrees ==
    ASSUME ShapeInv, AgreementInv, NEW k \in Slots, Handle(k)
    PROVE  AgreementInv'
PROOF BY MovesAgree, CreateSavesAgree, UpdateSavesAgree, ReorderSavesAgree, RemoveAssetAgrees,
         RemovePrefixAgrees, RemoveDeletesAgree, CompleteChecksFileAgrees,
         CompleteCreatesAssetAgrees, CompleteSavesAgree, AddSavesAgree,
         CompleteMaterialChecksAgree, CompleteMaterialSavesAgree, RemoveMaterialFileAgrees,
         RemoveMaterialSavesAgree, LevelSavesAgree, ApplyAgrees DEF Handle

LEMMA StepKeepsAgreement ==
    ASSUME ShapeInv, AgreementInv, [LibraryNext]_vars
    PROVE  AgreementInv'
PROOF
  <1>1. CASE UNCHANGED vars
    BY <1>1, AloneAgrees DEF vars, FilesKept, Paid
  <1>2. CASE LibraryNext
    <2>1. Clients \subseteq Slots /\ Listeners \subseteq Slots
      BY DEF Slots
    <2>2. ASSUME Polls PROVE AgreementInv'
      BY <2>1, <2>2, ReportsAgree DEF Polls
    <2>3. ASSUME Elsewhere PROVE AgreementInv'
      BY <2>1, <2>3, ArrivalAgrees, AssetSettlesAgrees, ReportsAgree DEF Elsewhere
    <2> QED
      BY <1>2, <2>1, <2>2, <2>3, AsksAgree, HandleAgrees, StopAgrees DEF LibraryNext
  <1> QED
    BY <1>1, <1>2

-----------------------------------------------------------------------------
(* An empty level, or one with a first lesson *)

\* The lesson that is there at the beginning, if one is.
FirstLesson(l, a, t, status, lesson) ==
    /\ l \in Lessons /\ a \in Assets /\ t \in DOMAIN level
    /\ status \in {"uploading", "processing", "ready"}
    /\ lesson = [NewLesson(t, 0) EXCEPT
                    !.status = status,
                    !.asset = IF status \in {"processing", "ready"} THEN a ELSE NoAsset]
    /\ docs = [k \in Lessons |-> IF k = l THEN lesson ELSE NoDoc]
    /\ files = [k \in Lessons |->
                  IF k = l THEN [NoFile EXCEPT !["source"] = "ok"] ELSE NoFile]
    /\ assets = [b \in Assets |->
                   IF b = lesson.asset
                   THEN Asset(l, IF status = "ready" THEN "ready" ELSE "preparing")
                   ELSE Asset(NoDoc, "none")]

NoLesson ==
    /\ docs = [k \in Lessons |-> NoDoc]
    /\ files = [k \in Lessons |-> NoFile]
    /\ assets = [b \in Assets |-> Asset(NoDoc, "none")]

LEMMA FirstForms ==
    ASSUME LibraryInit
    PROVE  /\ level \in StartLevels /\ requests = [c \in Slots |-> Idle]
           /\ outdated = {} /\ cut = {}
           /\ NoLesson \/ \E l, a, t, status, lesson : FirstLesson(l, a, t, status, lesson)
PROOF
  <1> DEFINE l == CHOOSE k \in Lessons : TRUE
             a == CHOOSE b \in Assets : TRUE
             lessonOf(t, status) ==
                [NewLesson(t, 0) EXCEPT
                    !.status = status,
                    !.asset = IF status \in {"processing", "ready"} THEN a ELSE NoAsset]
  <1>1. l \in Lessons /\ a \in Assets
    BY LibraryAssumption
  <1>2. PICK t \in DOMAIN level, status \in {"none", "uploading", "processing", "ready"} :
          IF status = "none" THEN NoLesson
          ELSE /\ docs = [k \in Lessons |-> IF k = l THEN lessonOf(t, status) ELSE NoDoc]
               /\ files = [k \in Lessons |->
                             IF k = l THEN [NoFile EXCEPT !["source"] = "ok"] ELSE NoFile]
               /\ assets = [b \in Assets |->
                              IF b = lessonOf(t, status).asset
                              THEN Asset(l, IF status = "ready" THEN "ready" ELSE "preparing")
                              ELSE Asset(NoDoc, "none")]
    BY DEF LibraryInit, NoLesson
  <1> HIDE DEF l, a, lessonOf
  <1>3. PICK lesson : lesson = lessonOf(t, status)
    OBVIOUS
  <1>4. /\ level \in StartLevels /\ requests = [c \in Slots |-> Idle]
        /\ outdated = {} /\ cut = {}
    BY DEF LibraryInit
  <1>5. CASE status # "none"
    <2>1. /\ docs = [k \in Lessons |-> IF k = l THEN lesson ELSE NoDoc]
          /\ files = [k \in Lessons |->
                        IF k = l THEN [NoFile EXCEPT !["source"] = "ok"] ELSE NoFile]
          /\ assets = [b \in Assets |->
                         IF b = lesson.asset
                         THEN Asset(l, IF status = "ready" THEN "ready" ELSE "preparing")
                         ELSE Asset(NoDoc, "none")]
      BY <1>2, <1>3, <1>5
    <2>2. lesson = [NewLesson(t, 0) EXCEPT
                      !.status = status,
                      !.asset = IF status \in {"processing", "ready"} THEN a ELSE NoAsset]
      BY <1>3 DEF lessonOf
    <2>3. FirstLesson(l, a, t, status, lesson)
      BY <1>1, <1>5, <2>1, <2>2 DEF FirstLesson
    <2> QED
      BY <1>4, <2>3
  <1> QED
    BY <1>2, <1>4, <1>5

LEMMA StartsIdle ==
    ASSUME requests = [c \in Slots |-> Idle], StoresOK
    PROVE  ShapeInv
PROOF
  <1>1. RequestsOK
    BY DEF RequestsOK, IsRequest, Idle
  <1>2. ASSUME NEW k \in Slots PROVE RequestOK(k)
    BY DEF RequestOK, Idle, Remembers, KnowsOK, Readers, Reporters
  <1>3. \A i, k \in Slots : Distinct(i, k)
    BY DEF Distinct, Idle
  <1> QED
    BY <1>1, <1>2, <1>3 DEF ShapeInv

LEMMA EmptyHasShape ==
    ASSUME NoLesson, level \in StartLevels
    PROVE  StoresOK
PROOF
  <1>1. NoFile \in [Files -> FileStates]
    BY DEF NoFile, FileStates
  <1>2. Asset(NoDoc, "none") \in MuxAssets /\ Asset(NoDoc, "none").state = "none"
    BY DEF Asset, MuxAssets, AssetStates
  <1> QED
    BY <1>1, <1>2, LibraryAssumption DEF NoLesson, StoresOK

LEMMA FirstHasShape ==
    ASSUME NEW l, NEW a, NEW t, NEW status, NEW lesson, FirstLesson(l, a, t, status, lesson),
           level \in StartLevels
    PROVE  /\ StoresOK /\ l \in Lessons /\ lesson # NoDoc /\ lesson.topic \in DOMAIN level
           /\ \A m \in Materials : lesson.materials[m] = "none"
           /\ \A b \in Assets : assets[b].state # "none" => b = lesson.asset /\ assets[b].lesson = l
PROOF
  <1>1. /\ l \in Lessons /\ a \in Assets /\ t \in DOMAIN level /\ t \in Topics
        /\ DOMAIN level \subseteq Topics
    BY LibraryAssumption DEF FirstLesson
  <1>2. status \in {"uploading", "processing", "ready"} /\ status \in Statuses
    BY DEF FirstLesson, Statuses
  <1>3. PICK asset : asset = IF status \in {"processing", "ready"} THEN a ELSE NoAsset
    OBVIOUS
  <1>4. PICK state : state = IF status = "ready" THEN "ready" ELSE "preparing"
    OBVIOUS
  <1>5. PICK new : new = NewLesson(t, 0)
    OBVIOUS
  <1>6. /\ new \in LessonDocs /\ new.topic = t /\ \A m \in Materials : new.materials[m] = "none"
    BY <1>1, <1>5, NewLessonForms
  <1>7. lesson = [new EXCEPT !.status = status, !.asset = asset]
    BY <1>3, <1>5 DEF FirstLesson
  <1>8. /\ lesson \in LessonDocs /\ lesson.topic = t /\ lesson.materials = new.materials
        /\ lesson.status = status /\ lesson.asset = asset
    BY <1>1, <1>2, <1>3, <1>6, <1>7 DEF LessonDocs
  <1>9. /\ docs = [k \in Lessons |-> IF k = l THEN lesson ELSE NoDoc]
        /\ files = [k \in Lessons |->
                      IF k = l THEN [NoFile EXCEPT !["source"] = "ok"] ELSE NoFile]
        /\ assets = [b \in Assets |->
                       IF b = asset THEN Asset(l, state) ELSE Asset(NoDoc, "none")]
    BY <1>4, <1>8 DEF FirstLesson
  <1>10. files \in [Lessons -> [Files -> FileStates]]
    <2>1. NoFile \in [Files -> FileStates] /\ [NoFile EXCEPT !["source"] = "ok"] \in [Files -> FileStates]
      BY DEF NoFile, FileStates
    <2> QED
      BY <1>9, <2>1
  <1>11. /\ assets \in [Assets -> MuxAssets]
         /\ \A b \in Assets : assets[b].state # "none" => b = asset /\ assets[b].lesson = l
         /\ asset \in Assets => assets[asset].lesson = l /\ assets[asset].state = state
    <2>1. /\ Asset(NoDoc, "none") \in MuxAssets /\ Asset(NoDoc, "none").state = "none"
          /\ Asset(l, state) \in MuxAssets
          /\ Asset(l, state).state = state /\ Asset(l, state).lesson = l
      BY <1>1, <1>4 DEF Asset, MuxAssets, AssetStates, Outcomes
    <2> QED
      BY <1>9, <2>1
  <1>12. DocOK(l, lesson)
    BY <1>1, <1>2, <1>3, <1>4, <1>6, <1>8, <1>11, LibraryAssumption DEF DocOK, Outcomes
  <1>13. StoresOK
    BY <1>1, <1>9, <1>10, <1>11, <1>12 DEF StoresOK
  <1> QED
    BY <1>1, <1>6, <1>8, <1>11, <1>13, FieldsOfDoc

LEMMA InitIsSound ==
    ASSUME LibraryInit
    PROVE  LibraryInv
PROOF
  <1>1. level \in StartLevels /\ requests = [c \in Slots |-> Idle]
    BY FirstForms
  <1>2. CASE NoLesson
    <2>1. ShapeInv
      BY <1>1, <1>2, EmptyHasShape, StartsIdle
    <2>2. \A a \in Assets : ~Paid(a)
      BY <1>2 DEF NoLesson, Paid, Asset
    <2>3. \A l \in Lessons : docs[l] = NoDoc
      BY <1>2 DEF NoLesson
    <2> QED
      BY <2>1, <2>2, <2>3 DEF LibraryInv, AgreementInv, KnownInv, FoundInv, FileInv, Offered
  <1>3. ASSUME NEW l, NEW a, NEW t, NEW status, NEW lesson, FirstLesson(l, a, t, status, lesson)
        PROVE  LibraryInv
    <2>1. /\ StoresOK /\ l \in Lessons /\ lesson # NoDoc /\ lesson.topic \in DOMAIN level
          /\ \A m \in Materials : lesson.materials[m] = "none"
          /\ \A b \in Assets : assets[b].state # "none" => b = lesson.asset /\ assets[b].lesson = l
      BY <1>1, <1>3, FirstHasShape
    <2>2. ShapeInv
      BY <1>1, <2>1, StartsIdle
    <2>3. docs[l] = lesson /\ \A k \in Lessons \ {l} : docs[k] = NoDoc
      BY <1>3, <2>1 DEF FirstLesson
    <2>4. KnownInv
      <3>1. ASSUME NEW b \in Assets, Paid(b) PROVE Named(b)
        <4>1. b = lesson.asset /\ assets[b].lesson = l
          BY <2>1, <3>1 DEF Paid
        <4> QED
          BY <2>1, <2>3, <4>1 DEF Named
      <3> QED
        BY <3>1 DEF KnownInv
    <2>5. FoundInv
      BY <2>1, <2>3 DEF FoundInv
    <2>6. FileInv
      BY <2>1, <2>3 DEF FileInv, Offered
    <2> QED
      BY <2>2, <2>4, <2>5, <2>6 DEF LibraryInv, AgreementInv
  <1> QED
    BY <1>2, <1>3, FirstForms

-----------------------------------------------------------------------------
(* The theorems *)

\* What every request read is still true of the asset it names, every asset that
\* is paid for is named or about to be, every lesson is under a topic of the
\* level and every material that is offered has its file: along every interleaving
\* of panels, polls, deliveries and requests that stop, whatever is said to be
\* outdated or cut apart.
THEOREM LibraryInvariance == LibrarySpec => []LibraryInv
PROOF
  <1>1. LibraryInit => LibraryInv
    BY InitIsSound
  <1>2. LibraryInv /\ [LibraryNext]_vars => LibraryInv'
    BY StepKeepsShape, StepKeepsAgreement DEF LibraryInv
  <1> QED
    BY <1>1, <1>2, PTL DEF LibrarySpec

LEMMA InvariantAgrees ==
    ASSUME LibraryInv
    PROVE  AssetsAndLessonsAgree
PROOF
  <1>1. StatusTellsAsset
    <2>1. ASSUME NEW l \in Present, docs[l].status \in {"ready", "errored"}
          PROVE  /\ docs[l].asset # NoAsset /\ assets[docs[l].asset].lesson = l
                 /\ assets[docs[l].asset].state = docs[l].status
      <3>1. l \in Lessons /\ DocOK(l, docs[l])
        BY DEF LibraryInv, ShapeInv, StoresOK, Present
      <3> QED
        BY <2>1, <3>1 DEF DocOK, Outcomes
    <2> QED
      BY <2>1 DEF StatusTellsAsset
  <1>2. AssetsAreKnown
    BY DEF LibraryInv, AgreementInv, KnownInv, Paid, Named, Saving, AssetsAreKnown
  <1> QED
    BY <1>1, <1>2 DEF AssetsAndLessonsAgree

LEMMA InvariantShows ==
    ASSUME LibraryInv
    PROVE  ShownIsThere
PROOF
  <1>1. ReadyIsFound
    BY DEF LibraryInv, AgreementInv, FoundInv, ReadyIsFound, Visible, StudentTree, BuildTree, IsReady
  <1>2. ReadyMaterialHasFile
    <2>1. ASSUME NEW l \in Present \ (outdated \cup cut), NEW m \in Downloads(l)
          PROVE  \/ files[l][m] = "ok"
                 \/ \E c \in Clients : /\ requests[c].id = l
                                       /\ requests[c].op \in {"remove", "unmaterial"}
      <3>1. l \in Lessons \ (outdated \cup cut) /\ m \in Materials /\ Offered(l, m)
        BY DEF Present, Downloads, Offered
      <3>2. CASE files[l][m] # "ok"
        <4>1. PICK k \in Slots : Taking(k, l, m)
          BY <3>1, <3>2 DEF LibraryInv, AgreementInv, FileInv
        <4>2. requests[k].id = l /\ requests[k].op \in {"remove", "unmaterial"}
          BY <4>1 DEF Taking, At
        <4>3. k \in Clients
          BY <4>2 DEF LibraryInv, ShapeInv, RequestOK
        <4> QED
          BY <4>2, <4>3
      <3> QED
        BY <3>2
    <2> QED
      BY <2>1 DEF ReadyMaterialHasFile
  <1> QED
    BY <1>1, <1>2 DEF ShownIsThere

\* Completions, polls and repeated events never put the outcome of one asset on
\* another, and leave no asset that is paid for without a lesson that names it
\* or a request about to save it.
THEOREM AssetsAgree == LibrarySpec => []AssetsAndLessonsAgree
PROOF BY LibraryInvariance, InvariantAgrees, PTL

\* A ready lesson is under a topic of the level, but for one that lost it to a
\* check whose reading was no longer true at the save; a material that is offered
\* has its file or is being removed.
THEOREM WhatIsShownIsThere == LibrarySpec => []ShownIsThere
PROOF BY LibraryInvariance, InvariantShows, PTL

-----------------------------------------------------------------------------
(* Supply: the inductive invariant *)

Counts == 0 .. MaxModules
Headers == [count : Counts, status : {"draft", "complete"}, embedded : BOOLEAN]
Steps == {"none", "check", "existing", "mark", "read back", "modules", "commit", "done"}
Answers == SUBSET (Indices \X Generations)

Panels == [size : Counts, written : SUBSET Indices, sent : SUBSET Indices]
Requests == [pc : Steps, count : Counts, existing : SUBSET Indices]

SupplyTypeOK ==
    /\ header \in Headers \cup {NoHeader}
    /\ DOMAIN modules \subseteq Indices
    /\ \A i \in DOMAIN modules : modules[i] \in Generations
    /\ panel \in [Generations -> Panels]
    /\ closing \in [Generations -> Requests]
    /\ whole \in [Generations -> Requests]
    /\ answer \in [Generations -> Answers \cup {NoAnswer}]
    /\ torn \in BOOLEAN

\* Where a panel is: it closes what it sent, or consolidates the whole instead,
\* and what was sent left a header.
PanelInOrder(g) ==
    /\ panel[g].sent \subseteq Below(panel[g].size)
    /\ closing[g].pc # "none" => panel[g].sent # {}
    /\ whole[g].pc = "commit" => panel[g].sent = {} /\ panel[g].size > 0
    /\ panel[g].sent # {} => header \in Headers
    /\ answer[g] # NoAnswer => panel[g].size > 0

\* What a check found is there until it is marked.
CheckHolds(g) ==
    closing[g].pc \in {"existing", "mark"} /\ ~torn => Below(closing[g].count) \subseteq DOMAIN modules

\* A panel nobody disturbed finds its own modules and its own header, closes
\* with everything sent, and from the mark on nothing else is left.
Undisturbed(g) ==
    /\ \A i \in panel[g].sent : i \in DOMAIN modules /\ modules[i] = g
    /\ panel[g].sent # {} => header.count = panel[g].size /\ ~header.embedded
    /\ closing[g].pc # "none" =>
          panel[g].sent = Below(panel[g].size) /\ closing[g].count = panel[g].size
    /\ closing[g].pc = "mark" => closing[g].existing = DOMAIN modules
    /\ closing[g].pc \in {"read back", "modules"} => DOMAIN modules = Below(panel[g].size)
    /\ answer[g] # NoAnswer => answer[g] = Below(panel[g].size) \X {g}

SupplyInv ==
    /\ SupplyTypeOK
    /\ CompleteIsWhole
    /\ \A g \in Generations : PanelInOrder(g) /\ CheckHolds(g)
    /\ \A g \in Generations \ disturbed : Undisturbed(g)

-----------------------------------------------------------------------------
(* What a step leaves to the others *)

\* The panel and the requests of h are not touched.
Same(h) ==
    /\ panel'[h].size = panel[h].size /\ panel'[h].sent = panel[h].sent
    /\ closing'[h] = closing[h] /\ whole'[h] = whole[h] /\ answer'[h] = answer[h]

LEMMA SameInOrder ==
    ASSUME NEW h, PanelInOrder(h), Same(h), header \in Headers => header' \in Headers
    PROVE  PanelInOrder(h)'
PROOF BY DEF PanelInOrder, Same

LEMMA SameCheck ==
    ASSUME NEW h, CheckHolds(h), Same(h), DOMAIN modules \subseteq DOMAIN modules', torn => torn'
    PROVE  CheckHolds(h)'
PROOF BY DEF CheckHolds, Same, Below

LEMMA SameUndisturbed ==
    ASSUME NEW h, Undisturbed(h), Same(h), UNCHANGED <<header, modules>>
    PROVE  Undisturbed(h)'
PROOF BY DEF Undisturbed, Same, Below

\* A panel that has not begun asks for nothing.
LEMMA NotBegun ==
    ASSUME NEW h \in Generations, SupplyTypeOK, PanelInOrder(h), panel[h].size = 0
    PROVE  panel[h].sent = {} /\ closing[h].pc = "none" /\ answer[h] = NoAnswer
PROOF
  <1>1. Below(0) = {}
    BY DEF Below, Indices
  <1> QED
    BY <1>1 DEF PanelInOrder

\* One that has, and is not among the disturbed, is left alone by the writes of
\* another.
LEMMA OthersAreDisturbed ==
    ASSUME SupplyInv, NEW g \in Generations, NEW h \in Generations, h # g, Same(h),
           disturbed \cup Others(g) \subseteq disturbed', h \notin disturbed'
    PROVE  Undisturbed(h)'
PROOF
  <1>1. panel[h].size = 0
    <2>1. panel[h].size \in Nat
      BY SupplyAssumption DEF SupplyInv, SupplyTypeOK, Panels, Counts
    <2> QED
      BY <2>1 DEF Others
  <1>2. panel[h].sent = {} /\ closing[h].pc = "none" /\ answer[h] = NoAnswer
    BY <1>1, NotBegun DEF SupplyInv
  <1> QED
    BY <1>2 DEF Undisturbed, Same

\* A step that writes neither the header nor a module, of one panel.
LEMMA QuietStep ==
    ASSUME SupplyInv, SupplyTypeOK', NEW g \in Generations,
           UNCHANGED <<header, modules, torn>>, disturbed \subseteq disturbed',
           \A h \in Generations \ {g} : Same(h),
           PanelInOrder(g)', CheckHolds(g)', g \notin disturbed' => Undisturbed(g)'
    PROVE  SupplyInv'
PROOF
  <1>1. CompleteIsWhole'
    BY DEF SupplyInv, CompleteIsWhole, Below
  <1>2. ASSUME NEW h \in Generations
        PROVE  PanelInOrder(h)' /\ CheckHolds(h)'
    <2>1. CASE h = g
      BY <2>1
    <2>2. CASE h # g
      BY <2>2, SameInOrder, SameCheck DEF SupplyInv
    <2> QED
      BY <2>1, <2>2
  <1>3. ASSUME NEW h \in Generations \ disturbed'
        PROVE  Undisturbed(h)'
    <2>1. CASE h = g
      BY <2>1
    <2>2. CASE h # g
      BY <2>2, SameUndisturbed DEF SupplyInv
    <2> QED
      BY <2>1, <2>2
  <1> QED
    BY <1>1, <1>2, <1>3 DEF SupplyInv

-----------------------------------------------------------------------------
(* The steps of the panel *)

LEMMA GenerateSkeletonStep ==
    ASSUME SupplyInv, NEW g \in Generations, NEW n \in 1 .. MaxModules, GenerateSkeleton(g, n)
    PROVE  SupplyInv'
PROOF
  <1>1. n \in Counts
    BY SupplyAssumption DEF Counts
  <1>2. /\ panel'[g].size = n /\ panel'[g].sent = panel[g].sent
        /\ \A h \in Generations \ {g} : panel'[h] = panel[h]
    BY DEF GenerateSkeleton, SupplyInv, SupplyTypeOK, Panels
  <1>3. SupplyTypeOK'
    <2>1. panel' \in [Generations -> Panels]
      BY <1>1 DEF GenerateSkeleton, SupplyInv, SupplyTypeOK, Panels
    <2> QED
      BY <2>1 DEF GenerateSkeleton, SupplyInv, SupplyTypeOK
  <1>4. \A h \in Generations \ {g} : Same(h)
    BY <1>2 DEF GenerateSkeleton, Same
  <1>5. /\ panel[g].sent = {} /\ closing[g].pc = "none" /\ answer[g] = NoAnswer
        /\ whole[g].pc # "commit"
    BY NotBegun DEF GenerateSkeleton, SupplyInv, PanelInOrder
  <1>6. PanelInOrder(g)' /\ CheckHolds(g)' /\ Undisturbed(g)'
    BY <1>2, <1>5 DEF GenerateSkeleton, PanelInOrder, CheckHolds, Undisturbed
  <1> QED
    BY <1>3, <1>4, <1>6, QuietStep DEF GenerateSkeleton

LEMMA GenerateTopicStep ==
    ASSUME SupplyInv, NEW g \in Generations, NEW i \in Indices, GenerateTopic(g, i)
    PROVE  SupplyInv'
PROOF
  <1>1. \A h \in Generations : panel'[h].size = panel[h].size /\ panel'[h].sent = panel[h].sent
    BY DEF GenerateTopic, SupplyInv, SupplyTypeOK, Panels
  <1>2. SupplyTypeOK'
    <2>1. panel' \in [Generations -> Panels]
      BY DEF GenerateTopic, SupplyInv, SupplyTypeOK, Panels
    <2> QED
      BY <2>1 DEF GenerateTopic, SupplyInv, SupplyTypeOK
  <1>3. \A h \in Generations : Same(h)
    BY <1>1 DEF GenerateTopic, Same
  <1>4. PanelInOrder(g)' /\ CheckHolds(g)'
    BY <1>3, SameInOrder, SameCheck DEF GenerateTopic, SupplyInv
  <1>5. g \notin disturbed' => Undisturbed(g)'
    BY <1>3, SameUndisturbed DEF GenerateTopic, SupplyInv
  <1> QED
    BY <1>2, <1>3, <1>4, <1>5, QuietStep DEF GenerateTopic

LEMMA FinishConsolidationStep ==
    ASSUME SupplyInv, NEW g \in Generations, FinishConsolidation(g)
    PROVE  SupplyInv'
PROOF
  <1>1. header \in Headers /\ header.count \in Counts
    BY DEF FinishConsolidation, SupplyInv, PanelInOrder, Headers
  <1>2. /\ closing'[g].pc = "check" /\ closing'[g].count = header.count
        /\ closing' \in [Generations -> Requests]
        /\ \A h \in Generations \ {g} : closing'[h] = closing[h]
    BY <1>1 DEF FinishConsolidation, SupplyInv, SupplyTypeOK, Requests, NoRequest, Steps
  <1>3. SupplyTypeOK'
    BY <1>2 DEF FinishConsolidation, SupplyInv, SupplyTypeOK
  <1>4. \A h \in Generations \ {g} : Same(h)
    BY <1>2 DEF FinishConsolidation, Same
  <1>5. PanelInOrder(g)' /\ CheckHolds(g)'
    BY <1>2 DEF FinishConsolidation, SupplyInv, PanelInOrder, CheckHolds
  <1>6. g \notin disturbed' => Undisturbed(g)'
    BY <1>2 DEF FinishConsolidation, SupplyInv, Undisturbed, Below
  <1> QED
    BY <1>3, <1>4, <1>5, <1>6, QuietStep DEF FinishConsolidation

LEMMA ConsolidateStep ==
    ASSUME SupplyInv, NEW g \in Generations, Consolidate(g)
    PROVE  SupplyInv'
PROOF
  <1>1. (IF header = NoHeader THEN 0 ELSE header.count) \in Counts
    BY SupplyAssumption DEF SupplyInv, SupplyTypeOK, Headers, Counts
  <1>2. /\ whole'[g].pc = "commit"
        /\ whole' \in [Generations -> Requests]
        /\ \A h \in Generations \ {g} : whole'[h] = whole[h]
    BY <1>1 DEF Consolidate, SupplyInv, SupplyTypeOK, Requests, NoRequest, Steps
  <1>3. SupplyTypeOK'
    BY <1>2 DEF Consolidate, SupplyInv, SupplyTypeOK
  <1>4. \A h \in Generations \ {g} : Same(h)
    BY <1>2 DEF Consolidate, Same
  <1>5. PanelInOrder(g)' /\ CheckHolds(g)'
    BY <1>2 DEF Consolidate, SupplyInv, PanelInOrder, CheckHolds
  <1>6. g \notin disturbed' => Undisturbed(g)'
    BY DEF Consolidate, SupplyInv, Undisturbed, Below
  <1> QED
    BY <1>3, <1>4, <1>5, <1>6, QuietStep DEF Consolidate

-----------------------------------------------------------------------------
(* The steps of finishConsolidation *)

\* The request of one panel moves on, ends or stops.
LEMMA RequestStep ==
    ASSUME SupplyInv, NEW g \in Generations, NEW request \in Requests,
           closing' = [closing EXCEPT ![g] = request]
    PROVE  /\ closing' \in [Generations -> Requests]
           /\ closing'[g] = request
           /\ \A h \in Generations \ {g} : closing'[h] = closing[h]
PROOF BY DEF SupplyInv, SupplyTypeOK

LEMMA NoRequestType == NoRequest \in Requests /\ NoRequest.pc = "none"
PROOF BY SupplyAssumption DEF NoRequest, Requests, Steps, Counts

LEMMA CheckModulesStep ==
    ASSUME SupplyInv, NEW g \in Generations, CheckModules(g)
    PROVE  SupplyInv'
PROOF
  <1> DEFINE missing == Missing(closing[g].count)
             request == IF missing = {} THEN [closing[g] EXCEPT !.pc = "existing"] ELSE NoRequest
  <1>1. request \in Requests
    BY NoRequestType DEF SupplyInv, SupplyTypeOK, Requests, Steps
  <1>2. closing' = [closing EXCEPT ![g] = request]
    BY DEF CheckModules
  <1>3. /\ closing' \in [Generations -> Requests] /\ closing'[g] = request
        /\ \A h \in Generations \ {g} : closing'[h] = closing[h]
    BY <1>1, <1>2, RequestStep
  <1>4. /\ panel' \in [Generations -> Panels]
        /\ panel'[g].size = panel[g].size /\ panel'[g].sent = panel[g].sent \ missing
        /\ \A h \in Generations \ {g} : panel'[h] = panel[h]
    BY DEF CheckModules, SupplyInv, SupplyTypeOK, Panels
  <1>5. SupplyTypeOK'
    BY <1>3, <1>4 DEF CheckModules, SupplyInv, SupplyTypeOK
  <1>6. \A h \in Generations \ {g} : Same(h)
    BY <1>3, <1>4 DEF CheckModules, Same
  <1>7. missing = {} => request.pc = "existing" /\ request.count = closing[g].count
    BY DEF SupplyInv, SupplyTypeOK, Requests
  <1>8. missing # {} => request.pc = "none"
    BY NoRequestType
  <1>9. missing = {} <=> Below(closing[g].count) \subseteq DOMAIN modules
    BY DEF Missing
  <1> HIDE DEF missing, request
  <1>10. PanelInOrder(g)'
    BY <1>3, <1>4, <1>7, <1>8 DEF CheckModules, SupplyInv, PanelInOrder, Below
  <1>11. CheckHolds(g)'
    BY <1>3, <1>7, <1>8, <1>9 DEF CheckModules, CheckHolds, Below
  <1>12. g \notin disturbed' => Undisturbed(g)'
    <2> SUFFICES ASSUME g \notin disturbed' PROVE Undisturbed(g)'
      OBVIOUS
    <2>1. Undisturbed(g) /\ closing[g].pc = "check"
      BY DEF CheckModules, SupplyInv
    <2>2. missing = {}
      BY <2>1, <1>9 DEF Undisturbed
    <2> QED
      BY <2>1, <2>2, <1>3, <1>4, <1>7 DEF CheckModules, Undisturbed, Below
  <1> QED
    BY <1>5, <1>6, <1>10, <1>11, <1>12, QuietStep DEF CheckModules

LEMMA ReadExistingStep ==
    ASSUME SupplyInv, NEW g \in Generations, ReadExisting(g)
    PROVE  SupplyInv'
PROOF
  <1>1. /\ closing' \in [Generations -> Requests]
        /\ closing'[g].pc = "mark" /\ closing'[g].existing = DOMAIN modules
        /\ closing'[g].count = closing[g].count
        /\ \A h \in Generations \ {g} : closing'[h] = closing[h]
    BY DEF ReadExisting, SupplyInv, SupplyTypeOK, Requests, Steps
  <1>2. SupplyTypeOK'
    BY <1>1 DEF ReadExisting, SupplyInv, SupplyTypeOK
  <1>3. \A h \in Generations \ {g} : Same(h)
    BY <1>1 DEF ReadExisting, Same
  <1>4. PanelInOrder(g)' /\ CheckHolds(g)'
    BY <1>1 DEF ReadExisting, SupplyInv, PanelInOrder, CheckHolds, Below
  <1>5. g \notin disturbed' => Undisturbed(g)'
    <2> SUFFICES ASSUME g \notin disturbed' PROVE Undisturbed(g)'
      OBVIOUS
    <2>1. Undisturbed(g) /\ closing[g].pc = "existing"
      BY DEF ReadExisting, SupplyInv
    <2> QED
      BY <2>1, <1>1 DEF ReadExisting, Undisturbed, Below
  <1> QED
    BY <1>2, <1>3, <1>4, <1>5, QuietStep DEF ReadExisting

LEMMA ReadHeaderBackStep ==
    ASSUME SupplyInv, NEW g \in Generations, ReadHeaderBack(g)
    PROVE  SupplyInv'
PROOF
  <1> DEFINE request == IF header.status = "complete"
                        THEN [closing[g] EXCEPT !.pc = "modules"] ELSE NoRequest
  <1>1. request \in Requests
    BY NoRequestType DEF SupplyInv, SupplyTypeOK, Requests, Steps
  <1>2. closing' = [closing EXCEPT ![g] = request]
    BY DEF ReadHeaderBack
  <1>3. /\ closing' \in [Generations -> Requests] /\ closing'[g] = request
        /\ \A h \in Generations \ {g} : closing'[h] = closing[h]
    BY <1>1, <1>2, RequestStep
  <1>4. \/ request.pc = "modules" /\ request.count = closing[g].count
        \/ request.pc = "none"
    BY NoRequestType DEF SupplyInv, SupplyTypeOK, Requests
  <1> HIDE DEF request
  <1>5. SupplyTypeOK'
    BY <1>3 DEF ReadHeaderBack, SupplyInv, SupplyTypeOK
  <1>6. \A h \in Generations \ {g} : Same(h)
    BY <1>3 DEF ReadHeaderBack, Same
  <1>7. PanelInOrder(g)' /\ CheckHolds(g)'
    BY <1>3, <1>4 DEF ReadHeaderBack, SupplyInv, PanelInOrder, CheckHolds
  <1>8. g \notin disturbed' => Undisturbed(g)'
    <2> SUFFICES ASSUME g \notin disturbed' PROVE Undisturbed(g)'
      OBVIOUS
    <2>1. Undisturbed(g) /\ closing[g].pc = "read back"
      BY DEF ReadHeaderBack, SupplyInv
    <2> QED
      BY <2>1, <1>3, <1>4 DEF ReadHeaderBack, Undisturbed, Below
  <1> QED
    BY <1>5, <1>6, <1>7, <1>8, QuietStep DEF ReadHeaderBack

LEMMA ReadModulesBackStep ==
    ASSUME SupplyInv, NEW g \in Generations, ReadModulesBack(g)
    PROVE  SupplyInv'
PROOF
  <1>1. /\ closing' \in [Generations -> Requests] /\ closing'[g].pc = "none"
        /\ \A h \in Generations \ {g} : closing'[h] = closing[h]
    BY NoRequestType, RequestStep DEF ReadModulesBack
  <1>2. Shown \in Answers
    BY DEF SupplyInv, SupplyTypeOK, Shown, Answers
  <1>3. /\ answer' \in [Generations -> Answers \cup {NoAnswer}]
        /\ answer'[g] = Shown
        /\ \A h \in Generations \ {g} : answer'[h] = answer[h]
    BY <1>2 DEF ReadModulesBack, SupplyInv, SupplyTypeOK
  <1>4. SupplyTypeOK'
    BY <1>1, <1>3 DEF ReadModulesBack, SupplyInv, SupplyTypeOK
  <1>5. \A h \in Generations \ {g} : Same(h)
    BY <1>1, <1>3 DEF ReadModulesBack, Same
  <1>6. panel[g].size > 0
    <2>1. panel[g].sent # {} /\ PanelInOrder(g)
      BY DEF ReadModulesBack, SupplyInv, PanelInOrder
    <2>2. panel[g].size # 0
      BY <2>1, NotBegun DEF SupplyInv
    <2> QED
      BY <2>2, SupplyAssumption DEF SupplyInv, SupplyTypeOK, Panels, Counts
  <1>7. PanelInOrder(g)' /\ CheckHolds(g)'
    BY <1>1, <1>3, <1>6 DEF ReadModulesBack, SupplyInv, PanelInOrder, CheckHolds
  <1>8. g \notin disturbed' => Undisturbed(g)'
    <2> SUFFICES ASSUME g \notin disturbed' PROVE Undisturbed(g)'
      OBVIOUS
    <2>1. Undisturbed(g) /\ closing[g].pc = "modules"
      BY DEF ReadModulesBack, SupplyInv
    <2>2. DOMAIN modules = Below(panel[g].size) /\ \A i \in Below(panel[g].size) : modules[i] = g
      BY <2>1 DEF Undisturbed
    <2>3. Shown = Below(panel[g].size) \X {g}
      BY <2>2 DEF Shown
    <2> QED
      BY <2>1, <2>3, <1>1, <1>3 DEF ReadModulesBack, Undisturbed, Below
  <1> QED
    BY <1>4, <1>5, <1>7, <1>8, QuietStep DEF ReadModulesBack

LEMMA FinishStopsStep ==
    ASSUME SupplyInv, NEW g \in Generations, FinishStops(g)
    PROVE  SupplyInv'
PROOF
  <1>1. /\ closing' \in [Generations -> Requests] /\ closing'[g].pc = "none"
        /\ \A h \in Generations \ {g} : closing'[h] = closing[h]
    BY NoRequestType, RequestStep DEF FinishStops
  <1>2. SupplyTypeOK'
    BY <1>1 DEF FinishStops, SupplyInv, SupplyTypeOK
  <1>3. \A h \in Generations \ {g} : Same(h)
    BY <1>1 DEF FinishStops, Same
  <1>4. PanelInOrder(g)' /\ CheckHolds(g)'
    BY <1>1 DEF FinishStops, SupplyInv, PanelInOrder, CheckHolds
  <1>5. g \notin disturbed' => Undisturbed(g)'
    BY <1>1 DEF FinishStops, SupplyInv, Undisturbed, Below
  <1> QED
    BY <1>2, <1>3, <1>4, <1>5, QuietStep DEF FinishStops

-----------------------------------------------------------------------------
(* The steps that write *)

\* A step of g that writes the header and the modules: what it leaves of the
\* checks of the others, and of its own state.
LEMMA WritingStep ==
    ASSUME SupplyInv, SupplyTypeOK', CompleteIsWhole', NEW g \in Generations,
           header' \in Headers,
           disturbed \cup Others(g) \subseteq disturbed', torn => torn',
           \A h \in Generations \ {g} : Same(h),
           \A h \in Generations \ {g} :
              closing[h].pc \in {"existing", "mark"} /\ ~torn' => DOMAIN modules \subseteq DOMAIN modules',
           PanelInOrder(g)', CheckHolds(g)', g \notin disturbed' => Undisturbed(g)'
    PROVE  SupplyInv'
PROOF
  <1>1. ASSUME NEW h \in Generations
        PROVE  PanelInOrder(h)' /\ CheckHolds(h)'
    <2>1. CASE h = g
      BY <2>1
    <2>2. CASE h # g
      <3>1. PanelInOrder(h)'
        BY <2>2, SameInOrder DEF SupplyInv
      <3>2. CheckHolds(h)'
        BY <2>2 DEF SupplyInv, CheckHolds, Same, Below
      <3> QED
        BY <3>1, <3>2
    <2> QED
      BY <2>1, <2>2
  <1>2. ASSUME NEW h \in Generations \ disturbed'
        PROVE  Undisturbed(h)'
    <2>1. CASE h = g
      BY <2>1
    <2>2. CASE h # g
      BY <2>2, OthersAreDisturbed
    <2> QED
      BY <2>1, <2>2
  <1> QED
    BY <1>1, <1>2 DEF SupplyInv

LEMMA HeaderType ==
    ASSUME NEW count \in Counts, NEW status \in {"draft", "complete"}
    PROVE  /\ Header(count, status) \in Headers
           /\ Header(count, status).count = count
           /\ Header(count, status).status = status
           /\ ~Header(count, status).embedded
PROOF BY DEF Header, Headers

LEMMA ConsolidateModuleStep ==
    ASSUME SupplyInv, NEW g \in Generations, NEW i \in Indices, ConsolidateModule(g, i)
    PROVE  SupplyInv'
PROOF
  <1>1. /\ panel' \in [Generations -> Panels]
        /\ panel'[g].size = panel[g].size /\ panel'[g].sent = panel[g].sent \cup {i}
        /\ \A h \in Generations \ {g} : panel'[h] = panel[h]
    BY DEF ConsolidateModule, SupplyInv, SupplyTypeOK, Panels
  <1>2. panel[g].size \in Counts
    BY DEF SupplyInv, SupplyTypeOK, Panels
  <1>3. /\ header' \in Headers /\ header'.count = panel[g].size
        /\ header'.status = "draft" /\ ~header'.embedded
    BY <1>2, HeaderType DEF ConsolidateModule, SavedHeader
  <1>4. /\ DOMAIN modules' = DOMAIN modules \cup {i}
        /\ modules'[i] = g
        /\ \A j \in DOMAIN modules \ {i} : modules'[j] = modules[j]
    BY DEF ConsolidateModule, Put
  <1>5. SupplyTypeOK'
    <2>1. \A j \in DOMAIN modules' : modules'[j] \in Generations
      BY <1>4 DEF SupplyInv, SupplyTypeOK
    <2>2. DOMAIN modules' \subseteq Indices
      BY <1>4 DEF SupplyInv, SupplyTypeOK
    <2> QED
      BY <2>1, <2>2, <1>1, <1>3 DEF ConsolidateModule, SupplyInv, SupplyTypeOK
  <1>6. CompleteIsWhole'
    BY <1>3 DEF CompleteIsWhole
  <1>7. \A h \in Generations \ {g} : Same(h)
    BY <1>1 DEF ConsolidateModule, Same
  <1>8. PanelInOrder(g)'
    BY <1>1, <1>3 DEF ConsolidateModule, SupplyInv, PanelInOrder, Below
  <1>9. CheckHolds(g)'
    BY <1>4 DEF ConsolidateModule, SupplyInv, CheckHolds, Below
  <1>10. g \notin disturbed' => Undisturbed(g)'
    <2> SUFFICES ASSUME g \notin disturbed' PROVE Undisturbed(g)'
      OBVIOUS
    <2>1. Undisturbed(g) /\ closing[g].pc = "none"
      BY DEF ConsolidateModule, SupplyInv
    <2> QED
      BY <2>1, <1>1, <1>3, <1>4 DEF ConsolidateModule, Undisturbed, Below
  <1>11. disturbed \cup Others(g) \subseteq disturbed' /\ torn' = torn
    BY DEF ConsolidateModule
  <1>12. DOMAIN modules \subseteq DOMAIN modules'
    BY <1>4
  <1> QED
    BY <1>3, <1>5, <1>6, <1>7, <1>8, <1>9, <1>10, <1>11, <1>12, WritingStep

LEMMA ExcessIsBeyond ==
    ASSUME NEW count \in Counts, NEW existing
    PROVE  /\ Excess(existing, count) \cap Below(count) = {}
           /\ existing \subseteq Indices => existing \ Excess(existing, count) \subseteq Below(count)
PROOF BY SupplyAssumption DEF Excess, Below, Indices, Counts

LEMMA MarkCompleteStep ==
    ASSUME SupplyInv, NEW g \in Generations, MarkComplete(g)
    PROVE  SupplyInv'
PROOF
  <1> DEFINE count == closing[g].count
             excess == Excess(closing[g].existing, count)
  <1>1. /\ count \in Counts
        /\ closing' \in [Generations -> Requests]
        /\ closing'[g].pc = "read back" /\ closing'[g].count = count
        /\ \A h \in Generations \ {g} : closing'[h] = closing[h]
    BY DEF MarkComplete, SupplyInv, SupplyTypeOK, Requests, Steps
  <1>2. /\ header' \in Headers /\ header'.count = count /\ ~header'.embedded
    BY <1>1, HeaderType DEF MarkComplete
  <1>3. /\ DOMAIN modules' = DOMAIN modules \ excess
        /\ \A i \in DOMAIN modules' : modules'[i] = modules[i]
    BY DEF MarkComplete, Restrict
  <1>4. excess \cap Below(count) = {}
    BY <1>1, ExcessIsBeyond
  <1>5. SupplyTypeOK'
    BY <1>1, <1>2, <1>3 DEF MarkComplete, SupplyInv, SupplyTypeOK, CheckedByAnother
  <1>6. CompleteIsWhole'
    <2> SUFFICES ASSUME ~torn' PROVE Below(count) \subseteq DOMAIN modules'
      BY <1>2 DEF CompleteIsWhole, Below
    <2>1. Below(count) \subseteq DOMAIN modules
      BY DEF MarkComplete, SupplyInv, CheckHolds
    <2> QED
      BY <2>1, <1>3, <1>4
  <1>7. \A h \in Generations \ {g} : Same(h)
    BY <1>1 DEF MarkComplete, Same
  <1>8. PanelInOrder(g)' /\ CheckHolds(g)'
    BY <1>1, <1>2 DEF MarkComplete, SupplyInv, PanelInOrder, CheckHolds
  <1>9. g \notin disturbed' => Undisturbed(g)'
    <2> SUFFICES ASSUME g \notin disturbed' PROVE Undisturbed(g)'
      OBVIOUS
    <2>1. Undisturbed(g) /\ closing[g].pc = "mark"
      BY DEF MarkComplete, SupplyInv
    <2>2. /\ panel[g].sent = Below(panel[g].size) /\ count = panel[g].size
          /\ closing[g].existing = DOMAIN modules
          /\ \A i \in panel[g].sent : i \in DOMAIN modules /\ modules[i] = g
      BY <2>1 DEF Undisturbed
    <2>3. DOMAIN modules' = Below(panel[g].size)
      <3>1. DOMAIN modules \ excess = Below(count)
        <4>1. DOMAIN modules \subseteq Indices
          BY DEF SupplyInv, SupplyTypeOK
        <4>2. DOMAIN modules \ excess \subseteq Below(count)
          BY <4>1, <2>2, <1>1, ExcessIsBeyond
        <4>3. Below(count) \subseteq DOMAIN modules
          BY <2>2
        <4> QED
          BY <4>2, <4>3, <1>4
      <3> QED
        BY <3>1, <2>2, <1>3
    <2> QED
      BY <2>1, <2>2, <2>3, <1>1, <1>2, <1>3 DEF MarkComplete, Undisturbed, Below
  <1>10. ASSUME NEW h \in Generations \ {g}, closing[h].pc \in {"existing", "mark"}, ~torn'
         PROVE  DOMAIN modules \subseteq DOMAIN modules'
    BY <1>10 DEF MarkComplete, CheckedByAnother
  <1>11. disturbed \cup Others(g) \subseteq disturbed' /\ (torn => torn')
    BY DEF MarkComplete
  <1> QED
    BY <1>2, <1>5, <1>6, <1>7, <1>8, <1>9, <1>10, <1>11, WritingStep

LEMMA SaveAllStep ==
    ASSUME SupplyInv, NEW g \in Generations, SaveAll(g)
    PROVE  SupplyInv'
PROOF
  <1> DEFINE count == panel[g].size
             orphans == Orphans(whole[g].count, count)
  <1>1. /\ panel[g].sent = {} /\ count > 0 /\ closing[g].pc = "none"
        /\ count \in Counts
    BY DEF SaveAll, SupplyInv, PanelInOrder, SupplyTypeOK, Panels
  <1>2. /\ panel' \in [Generations -> Panels]
        /\ panel'[g].size = count /\ panel'[g].sent = Below(count)
        /\ \A h \in Generations \ {g} : panel'[h] = panel[h]
    BY DEF SaveAll, SupplyInv, SupplyTypeOK, Panels, Below
  <1>3. /\ whole' \in [Generations -> Requests] /\ whole'[g].pc = "done"
        /\ \A h \in Generations \ {g} : whole'[h] = whole[h]
    BY DEF SaveAll, SupplyInv, SupplyTypeOK, Requests, Steps
  <1>4. Below(count) \X {g} \in Answers
    BY DEF Answers, Below
  <1>5. /\ answer' \in [Generations -> Answers \cup {NoAnswer}]
        /\ answer'[g] = Below(count) \X {g}
        /\ \A h \in Generations \ {g} : answer'[h] = answer[h]
    BY <1>4 DEF SaveAll, SupplyInv, SupplyTypeOK
  <1>6. header' \in Headers /\ header'.count = count /\ ~header'.embedded
    BY <1>1, HeaderType DEF SaveAll
  <1>7. /\ DOMAIN modules' = (DOMAIN modules \ orphans) \cup Below(count)
        /\ \A i \in DOMAIN modules' : modules'[i] = IF i \in Below(count) THEN g ELSE modules[i]
    BY DEF SaveAll, Put, Restrict
  <1>8. SupplyTypeOK'
    <2>1. Below(count) \subseteq Indices
      BY DEF Below
    <2> QED
      BY <2>1, <1>2, <1>3, <1>5, <1>6, <1>7 DEF SaveAll, SupplyInv, SupplyTypeOK, CheckedByAnother
  <1>9. CompleteIsWhole'
    BY <1>6, <1>7 DEF CompleteIsWhole, Below
  <1>10. \A h \in Generations \ {g} : Same(h)
    BY <1>2, <1>3, <1>5 DEF SaveAll, Same
  <1>11. PanelInOrder(g)' /\ CheckHolds(g)'
    BY <1>1, <1>2, <1>3, <1>6 DEF SaveAll, PanelInOrder, CheckHolds, Below
  <1>12. Undisturbed(g)'
    BY <1>1, <1>2, <1>5, <1>6, <1>7 DEF SaveAll, Undisturbed, Below
  <1>13. ASSUME NEW h \in Generations \ {g}, closing[h].pc \in {"existing", "mark"}, ~torn'
         PROVE  DOMAIN modules \subseteq DOMAIN modules'
    <2>1. orphans = {}
      BY <1>13 DEF SaveAll, CheckedByAnother
    <2> QED
      BY <2>1, <1>7
  <1>14. disturbed \cup Others(g) \subseteq disturbed' /\ (torn => torn')
    BY DEF SaveAll
  <1> QED
    BY <1>6, <1>8, <1>9, <1>10, <1>11, <1>12, <1>13, <1>14, WritingStep

-----------------------------------------------------------------------------
(* The theorems *)

LEMMA SupplyStarts == SupplyInit => SupplyInv
PROOF
  <1> SUFFICES ASSUME SupplyInit PROVE SupplyInv
    OBVIOUS
  <1>1. header \in Headers \cup {NoHeader}
    <2>1. \A n \in 1 .. MaxModules : Legacy(n) \in Headers
      BY SupplyAssumption DEF Legacy, Headers, Counts
    <2> QED
      BY <2>1 DEF SupplyInit
  <1>2. DOMAIN modules = {}
    BY DEF SupplyInit
  <1>3. /\ panel \in [Generations -> Panels] /\ closing \in [Generations -> Requests]
        /\ whole \in [Generations -> Requests]
        /\ answer \in [Generations -> Answers \cup {NoAnswer}] /\ torn \in BOOLEAN
    <2>1. [size |-> 0, written |-> {}, sent |-> {}] \in Panels
      BY SupplyAssumption DEF Panels, Counts
    <2> QED
      BY <2>1, NoRequestType DEF SupplyInit
  <1>4. SupplyTypeOK
    BY <1>1, <1>2, <1>3 DEF SupplyTypeOK
  <1>5. CompleteIsWhole
    BY DEF SupplyInit, CompleteIsWhole, Legacy
  <1>6. \A g \in Generations : /\ panel[g].sent = {} /\ closing[g].pc = "none"
                               /\ whole[g].pc = "none" /\ answer[g] = NoAnswer
    BY NoRequestType DEF SupplyInit
  <1> QED
    BY <1>4, <1>5, <1>6 DEF SupplyInv, PanelInOrder, CheckHolds, Undisturbed

LEMMA SupplySteps == SupplyInv /\ [SupplyNext]_supplyVars => SupplyInv'
PROOF
  <1> SUFFICES ASSUME SupplyInv, [SupplyNext]_supplyVars PROVE SupplyInv'
    OBVIOUS
  <1>1. ASSUME NEW g \in Generations, HandlerNext(g)
        PROVE  SupplyInv'
    BY <1>1, CheckModulesStep, ReadExistingStep, MarkCompleteStep, ReadHeaderBackStep,
       ReadModulesBackStep, SaveAllStep DEF HandlerNext
  <1>2. ASSUME NEW g \in Generations, PanelNext(g)
        PROVE  SupplyInv'
    BY <1>2, GenerateSkeletonStep, GenerateTopicStep, ConsolidateModuleStep,
       FinishConsolidationStep, ConsolidateStep DEF PanelNext
  <1>3. ASSUME NEW g \in Generations, FinishStops(g)
        PROVE  SupplyInv'
    BY <1>3, FinishStopsStep
  <1>4. CASE UNCHANGED supplyVars
    <2>1. SupplyTypeOK' /\ CompleteIsWhole'
      BY <1>4 DEF supplyVars, SupplyInv, SupplyTypeOK, CompleteIsWhole, Below
    <2>2. ASSUME NEW h \in Generations
          PROVE  /\ PanelInOrder(h)' /\ CheckHolds(h)'
                 /\ h \notin disturbed' => Undisturbed(h)'
      <3>1. Same(h)
        BY <1>4 DEF supplyVars, Same
      <3>2. /\ PanelInOrder(h) /\ CheckHolds(h) /\ UNCHANGED <<header, modules, torn, disturbed>>
            /\ h \notin disturbed' => Undisturbed(h)
        BY <1>4 DEF supplyVars, SupplyInv
      <3> QED
        BY <3>1, <3>2, SameInOrder, SameCheck, SameUndisturbed
    <2> QED
      BY <2>1, <2>2 DEF SupplyInv
  <1> QED
    BY <1>1, <1>2, <1>3, <1>4 DEF SupplyNext

\* The documents and the panels keep their types, and the strengthening of the
\* properties holds throughout.
THEOREM SupplyInvariance == SupplySpec => []SupplyInv
PROOF
  <1> QED
    BY SupplyStarts, SupplySteps, PTL DEF SupplySpec

\* What the student is shown as a whole material is one: complete means that
\* every announced module is there, and a panel nobody disturbed gets its own.
THEOREM WhatIsShownIsWhole == SupplySpec => []MaterialIsWhole
PROOF
  <1>1. SupplyInv => MaterialIsWhole
    BY DEF SupplyInv, MaterialIsWhole, AloneGetsItsOwn, Undisturbed
  <1> QED
    BY <1>1, SupplyInvariance, PTL
=============================================================================
