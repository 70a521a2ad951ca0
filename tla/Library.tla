------------------------------ MODULE Library ------------------------------
(***************************************************************************)
(* The video lessons of one level (video-lessons/) over the topics of its  *)
(* curriculum (curriculum/): uploads that arrive at the storage, assets    *)
(* that Mux prepares and reports by webhook or when the panel polls,       *)
(* materials, moves between topics and removals.                           *)
(*                                                                         *)
(* A request is a record that walks through the awaits of its handler.  A  *)
(* lesson is read whole and saved whole, and so is the level: the field    *)
(* copy is what the request read, and what it writes is made of it.        *)
(***************************************************************************)
EXTENDS Integers, FiniteSets, FiniteSetsExt, Functions, TLC

CONSTANTS
    Lessons, Topics, Materials, Assets,
    StartLevels,         \* the curricula to start from: topic -> kind
    MaxMaterials,        \* MAX_MATERIALS_PER_LESSON
    Clients,             \* requests of the panel that may be under way at once
    Listeners,           \* polls of the panel and deliveries of events, likewise
    MaxRequests,         \* bound: requests of the panel
    MaxStops,            \* bound: requests that stop half way
    NoDoc, NoAsset, NoArg

ASSUME LibraryAssumption ==
    /\ {MaxMaterials, MaxRequests, MaxStops} \subseteq Nat
    /\ NoAsset \notin Assets
    /\ Listeners \cap Clients = {}
    /\ "source" \notin Materials
    /\ IsFiniteSet(Lessons) /\ Lessons # {} /\ Assets # {}
    /\ \A start \in StartLevels : DOMAIN start \subseteq Topics
    /\ NoDoc \notin Lessons \cup [topic : Topics, order : Nat,
                                 status : {"uploading", "processing", "ready", "errored"},
                                 asset : Assets \cup {NoAsset},
                                 materials : [Materials -> {"none", "uploading", "ready"}]]

Slots == Clients \cup Listeners
Files == Materials \cup {"source"}
Kinds == {"common", "video"}   \* a topic with videoOnly set is "video"

VARIABLES
    docs,       \* [Lessons -> the document of video_lessons, or NoDoc]
    level,      \* topic -> its kind: the curriculum of the level
    files,      \* [Lessons -> [Files -> what the storage has]]
    assets,     \* [Assets -> [lesson, state, deleted]]: the side of Mux
    requests,   \* [Slots -> the request under way]
    started,    \* requests of the panel so far
    stops,
    outdated,   \* history: lessons saved, or left without their topic, from a
                \* reading that was no longer true
    cut         \* history: lessons whose request stopped half way

vars == <<docs, level, files, assets, requests, started, stops, outdated, cut>>

Idle == [op |-> "none", pc |-> "none", id |-> NoDoc, arg |-> NoArg,
         copy |-> NoDoc, got |-> NoArg]
Request(op, pc, id, arg) ==
    [Idle EXCEPT !.op = op, !.pc = pc, !.id = id, !.arg = arg]

NoMaterial == [m \in Materials |-> "none"]

NewLesson(topic, order) ==
    [topic |-> topic, order |-> order, status |-> "uploading", asset |-> NoAsset,
     materials |-> NoMaterial]

Present == {l \in Lessons : docs[l] # NoDoc}
InTopic(topic) == {l \in Present : docs[l].topic = topic}

NextOrder(topic) == Max({docs[l].order + 1 : l \in InTopic(topic)} \cup {0})

NoFile == [f \in Files |-> "unused"]
Asset(lesson, state) == [lesson |-> lesson, state |-> state, deleted |-> FALSE]

\* An empty level, or one with a first lesson at any stage of its life.
LibraryInit ==
    /\ level \in StartLevels
    /\ \E t \in DOMAIN level, status \in {"none", "uploading", "processing", "ready"} :
          LET l == CHOOSE k \in Lessons : TRUE
              a == CHOOSE b \in Assets : TRUE
              lesson == [NewLesson(t, 0) EXCEPT
                            !.status = status,
                            !.asset = IF status \in {"processing", "ready"} THEN a ELSE NoAsset]
          IN  IF status = "none"
              THEN /\ docs = [k \in Lessons |-> NoDoc]
                   /\ files = [k \in Lessons |-> NoFile]
                   /\ assets = [b \in Assets |-> Asset(NoDoc, "none")]
              ELSE /\ docs = [k \in Lessons |-> IF k = l THEN lesson ELSE NoDoc]
                   /\ files = [k \in Lessons |->
                                 IF k = l THEN [NoFile EXCEPT !["source"] = "ok"] ELSE NoFile]
                   /\ assets = [b \in Assets |->
                                  IF b = lesson.asset
                                  THEN Asset(l, IF status = "ready" THEN "ready" ELSE "preparing")
                                  ELSE Asset(NoDoc, "none")]
    /\ requests = [c \in Slots |-> Idle]
    /\ started = 0 /\ stops = 0
    /\ outdated = {} /\ cut = {}

-----------------------------------------------------------------------------
(* Requests *)

\* Which of the idle slots takes a request makes no difference.
FreeSlot == CHOOSE c \in Clients : requests[c] = Idle

Begin(c, request) ==
    /\ requests[c] = Idle /\ c = FreeSlot
    /\ started < MaxRequests
    /\ started' = started + 1
    /\ requests' = [requests EXCEPT ![c] = request]
    /\ UNCHANGED <<docs, level, files, assets, stops, outdated, cut>>

At(c, op, pc) == requests[c].op = op /\ requests[c].pc = pc

\* The reading that follows an await, and what a failed check or a last
\* reading does.
Proceed(c, pc, got) == requests' = [requests EXCEPT ![c].pc = pc, ![c].got = got]
End(c) == requests' = [requests EXCEPT ![c] = Idle]

OnlyRequests == UNCHANGED <<docs, level, files, assets, started, stops, outdated, cut>>

Mark(id, current) == outdated' = IF current THEN outdated ELSE outdated \cup {id}

\* save: the whole document, made of the copy that was read.
Save(c, doc, current) ==
    LET id == requests[c].id IN
    /\ docs' = [docs EXCEPT ![id] = doc]
    /\ Mark(id, current /\ docs[id] = requests[c].copy)
    /\ End(c)

\* getOrThrow, the first read of every handler that changes a lesson: 404, an
\* end with nothing to do (next is "end"), or the next await.
GetOrThrow(c, op, next) ==
    LET doc == docs[requests[c].id] IN
    /\ At(c, op, "get")
    /\ IF doc = NoDoc \/ next = "end" THEN End(c)
       ELSE requests' = [requests EXCEPT ![c].pc = next, ![c].copy = doc]
    /\ OnlyRequests

\* Mutant: any topic will do.
AnyTopic(topic) == topic \in Topics

InLevel(topic) == topic \in DOMAIN level

AssertTopic(c, next) ==
    /\ IF InLevel(requests[c].arg)
       THEN Proceed(c, next, [order |-> 0, topics |-> DOMAIN level]) ELSE End(c)
    /\ OnlyRequests

\* The topics are still those that the check read.
TopicsAsRead(got) == got.topics = DOMAIN level

-----------------------------------------------------------------------------
(* A lesson is created, moved, ordered and removed *)

Create(c, id, topic) ==
    /\ docs[id] = NoDoc /\ files[id]["source"] = "unused"
    /\ \A d \in Slots : requests[d].id # id
    /\ Begin(c, Request("create", "topic", id, topic))

CreateChecksTopic(c) == At(c, "create", "topic") /\ AssertTopic(c, "siblings")

ReadSiblings(c) ==
    /\ requests[c].pc = "siblings"
    /\ Proceed(c, "save", [requests[c].got EXCEPT !.order = NextOrder(requests[c].arg)])
    /\ OnlyRequests

\* The upload session is opened and the document written.
CreateSaves(c) ==
    LET request == requests[c] IN
    /\ At(c, "create", "save")
    /\ files' = [files EXCEPT ![request.id]["source"] = "awaited"]
    /\ Save(c, NewLesson(request.arg, request.got.order), TopicsAsRead(request.got))
    /\ UNCHANGED <<level, assets, started, stops, cut>>

\* With no topic, or the one it has, only the title and the text change.
Update(c, id, topic) == Begin(c, Request("update", "get", id, topic))

UpdateReads(c) ==
    LET request == requests[c] IN
    GetOrThrow(c, "update",
        IF request.arg \in {NoArg, docs[request.id].topic} THEN "save" ELSE "topic")

UpdateChecksTopic(c) == At(c, "update", "topic") /\ AssertTopic(c, "siblings")

UpdateSaves(c) ==
    LET request == requests[c]
        moves == request.arg \notin {NoArg, request.copy.topic}
    IN  /\ At(c, "update", "save")
        /\ Save(c, IF moves THEN [request.copy EXCEPT !.topic = request.arg,
                                                      !.order = request.got.order]
                   ELSE request.copy,
                moves => TopicsAsRead(request.got))
        /\ UNCHANGED <<level, files, assets, started, stops, cut>>

\* The new order names exactly the lessons of the topic.
Reorder(c, topic) == Begin(c, Request("reorder", "list", NoDoc, topic))

ReorderLists(c) ==
    /\ At(c, "reorder", "list")
    /\ \E order \in [InTopic(requests[c].arg) -> 0 .. Cardinality(Lessons) - 1] :
          /\ IsInjective(order) /\ Range(order) = 0 .. Cardinality(DOMAIN order) - 1
          /\ Proceed(c, "save", order)
    /\ OnlyRequests

\* One batch of updates: it fails if one of the documents is gone.
ReorderSaves(c) ==
    LET order == requests[c].got IN
    /\ At(c, "reorder", "save")
    /\ docs' = IF DOMAIN order \subseteq Present
               THEN [l \in Lessons |-> IF l \in DOMAIN order
                                       THEN [docs[l] EXCEPT !.order = order[l]] ELSE docs[l]]
               ELSE docs
    /\ End(c)
    /\ UNCHANGED <<level, files, assets, started, stops, outdated, cut>>

Remove(c, id) == Begin(c, Request("remove", "get", id, NoArg))

\* deleteAsset and removePrefix log a failure and go on: what stays is lost.
Fails(c) ==
    /\ stops < MaxStops
    /\ stops' = stops + 1
    /\ cut' = cut \cup {requests[c].id}

RemoveReads(c) == GetOrThrow(c, "remove", "asset")

RemoveAsset(c) ==
    LET asset == requests[c].copy.asset IN
    /\ At(c, "remove", "asset")
    /\ \/ /\ assets' = IF asset = NoAsset THEN assets
                       ELSE [assets EXCEPT ![asset].deleted = TRUE]
          /\ UNCHANGED <<stops, cut>>
       \/ Fails(c) /\ UNCHANGED assets
    /\ Proceed(c, "files", NoArg)
    /\ UNCHANGED <<docs, level, files, started, outdated>>

Gone(file) == IF file \in {"ok", "oversize"} THEN "gone" ELSE file

RemovePrefix(c) ==
    LET id == requests[c].id IN
    /\ At(c, "remove", "files")
    /\ \/ /\ files' = [files EXCEPT ![id] = [f \in Files |-> Gone(@[f])]]
          /\ UNCHANGED <<stops, cut>>
       \/ Fails(c) /\ UNCHANGED files
    /\ Proceed(c, "delete", NoArg)
    /\ UNCHANGED <<docs, level, assets, started, outdated>>

RemoveDeletes(c) ==
    /\ At(c, "remove", "delete")
    /\ Save(c, NoDoc, TRUE)
    /\ UNCHANGED <<level, files, assets, started, stops, cut>>

-----------------------------------------------------------------------------
(* From the upload to the asset that plays *)

\* An upload ends at the storage, without the server.
SourceArrives(id, size) ==
    /\ files[id]["source"] = "awaited"
    /\ files' = [files EXCEPT ![id]["source"] = size]
    /\ UNCHANGED <<docs, level, assets, requests, started, stops, outdated, cut>>

CompleteUpload(c, id) == Begin(c, Request("complete", "get", id, NoArg))

\* Mutant: a lesson that has its asset is completed again.
MayCompleteAgain(doc) == doc.status \in {"uploading", "processing"}

MayComplete(doc) == doc.status = "uploading"

CompleteReads(c) ==
    GetOrThrow(c, "complete", IF MayComplete(docs[requests[c].id]) THEN "info" ELSE "end")

\* Not arrived: 409.  Above the limit: removed from the storage, 400.
CompleteChecksFile(c) ==
    LET id == requests[c].id  file == files[id]["source"] IN
    /\ At(c, "complete", "info")
    /\ files' = IF file = "oversize" THEN [files EXCEPT ![id]["source"] = "gone"] ELSE files
    /\ IF file = "ok" THEN Proceed(c, "asset", NoArg) ELSE End(c)
    /\ UNCHANGED <<docs, level, assets, started, stops, outdated, cut>>

CompleteCreatesAsset(c) ==
    /\ At(c, "complete", "asset")
    /\ \E a \in Assets :
          /\ assets[a].state = "none"
          /\ assets' = [assets EXCEPT ![a] = Asset(requests[c].id, "preparing")]
          /\ Proceed(c, "save", a)
    /\ UNCHANGED <<docs, level, files, started, stops, outdated, cut>>

CompleteSaves(c) ==
    /\ At(c, "complete", "save")
    /\ Save(c, [requests[c].copy EXCEPT !.status = "processing", !.asset = requests[c].got], TRUE)
    /\ UNCHANGED <<level, files, assets, started, stops, cut>>

AssetSettles(a, outcome) ==
    /\ assets[a].state = "preparing"
    /\ assets' = [assets EXCEPT ![a].state = outcome]
    /\ UNCHANGED <<docs, level, files, requests, started, stops, outdated, cut>>

Accepts(doc, a) == doc # NoDoc /\ doc.asset = a

\* handleMuxEvent: the lesson named by passthrough.  An event may be lost,
\* repeated or late; one that reports anything but the end is dropped.
MuxEvent(c, a) ==
    LET id == assets[a].lesson IN
    /\ requests[c] = Idle
    /\ assets[a].state \in {"ready", "errored"}
    /\ Accepts(docs[id], a) /\ docs[id].status = "processing"
    /\ requests' = [requests EXCEPT ![c] =
                      [Request("event", "apply", id, a) EXCEPT !.copy = docs[id],
                                                               !.got = assets[a].state]]
    /\ OnlyRequests

\* sync: what the panel calls while a lesson is processing.
Sync(c, id) ==
    /\ requests[c] = Idle
    /\ docs[id] # NoDoc /\ docs[id].status = "processing"
    /\ requests' = [requests EXCEPT ![c] =
                      [Request("sync", "asset", id, docs[id].asset) EXCEPT !.copy = docs[id]]]
    /\ OnlyRequests

\* getAsset: still preparing changes nothing, a deleted asset is an error.
SyncReadsAsset(c) ==
    LET asset == assets[requests[c].arg] IN
    /\ At(c, "sync", "asset")
    /\ IF asset.state # "preparing" /\ ~asset.deleted
       THEN Proceed(c, "apply", asset.state) ELSE End(c)
    /\ OnlyRequests

\* Mutant: an asset that failed leaves the lesson as it is.
ApplyReadyOnly(doc, a, state) ==
    IF state = "ready" THEN [doc EXCEPT !.status = "ready", !.asset = a] ELSE doc

\* Mutant: whatever ended is ready.
ApplyAlwaysReady(doc, a, state) == [doc EXCEPT !.status = "ready", !.asset = a]

Apply(doc, a, state) ==
    IF state = "ready" THEN [doc EXCEPT !.status = "ready", !.asset = a]
                       ELSE [doc EXCEPT !.status = "errored"]

ApplyAssetState(c) ==
    LET request == requests[c] IN
    /\ request.pc = "apply"
    /\ Save(c, Apply(request.copy, request.arg, request.got), TRUE)
    /\ UNCHANGED <<level, files, assets, started, stops, cut>>

-----------------------------------------------------------------------------
(* Materials *)

MaterialsOf(doc) == {m \in Materials : doc.materials[m] # "none"}

AddMaterial(c, id, m) ==
    /\ files[id][m] = "unused"
    /\ \A d \in Slots : requests[d].op = "add" => requests[d].arg # m
    /\ Begin(c, Request("add", "get", id, m))

WithinLimit(n) == n < MaxMaterials

AddReads(c) ==
    GetOrThrow(c, "add", IF WithinLimit(Cardinality(MaterialsOf(docs[requests[c].id])))
                         THEN "save" ELSE "end")

AddSaves(c) ==
    LET request == requests[c] IN
    /\ At(c, "add", "save")
    /\ files' = [files EXCEPT ![request.id][request.arg] = "awaited"]
    /\ Save(c, [request.copy EXCEPT !.materials[request.arg] = "uploading"], TRUE)
    /\ UNCHANGED <<level, assets, started, stops, cut>>

MaterialArrives(id, m, size) ==
    /\ files[id][m] = "awaited"
    /\ files' = [files EXCEPT ![id][m] = size]
    /\ UNCHANGED <<docs, level, assets, requests, started, stops, outdated, cut>>

CompleteMaterial(c, id, m) == Begin(c, Request("material", "get", id, m))

\* Mutant: a material is ready without looking for its file.
MaterialWithoutFile(file) == IF file = "oversize" THEN "none" ELSE "ready"

\* What the file makes of its material; "" is the 409 of a file still to come.
MaterialStatus(file) ==
    CASE file = "ok" -> "ready" [] file = "oversize" -> "none" [] OTHER -> ""

CompleteMaterialReads(c) ==
    LET request == requests[c] IN
    GetOrThrow(c, "material",
        IF docs[request.id].materials[request.arg] = "uploading" THEN "info" ELSE "end")

CompleteMaterialChecks(c) ==
    LET request == requests[c]  file == files[request.id][request.arg]
        status == MaterialStatus(file)
    IN  /\ At(c, "material", "info")
        /\ files' = IF status = "none"
                    THEN [files EXCEPT ![request.id][request.arg] = "gone"] ELSE files
        /\ IF status = "" THEN End(c) ELSE Proceed(c, "save", status)
        /\ UNCHANGED <<docs, level, assets, started, stops, outdated, cut>>

CompleteMaterialSaves(c) ==
    LET request == requests[c] IN
    /\ At(c, "material", "save")
    /\ Save(c, [request.copy EXCEPT !.materials[request.arg] = request.got], TRUE)
    /\ UNCHANGED <<level, files, assets, started, stops, cut>>

RemoveMaterial(c, id, m) == Begin(c, Request("unmaterial", "get", id, m))

RemoveMaterialReads(c) ==
    LET request == requests[c] IN
    GetOrThrow(c, "unmaterial",
        IF request.arg \in MaterialsOf(docs[request.id]) THEN "file" ELSE "end")

RemoveMaterialFile(c) ==
    LET request == requests[c] IN
    /\ At(c, "unmaterial", "file")
    /\ files' = [files EXCEPT ![request.id][request.arg] = Gone(@)]
    /\ Proceed(c, "save", NoArg)
    /\ UNCHANGED <<docs, level, assets, started, stops, outdated, cut>>

RemoveMaterialSaves(c) ==
    LET request == requests[c] IN
    /\ At(c, "unmaterial", "save")
    /\ Save(c, [request.copy EXCEPT !.materials[request.arg] = "none"], TRUE)
    /\ UNCHANGED <<level, files, assets, started, stops, cut>>

-----------------------------------------------------------------------------
(* The curriculum *)

\* The panel sends the topics it keeps; it may leave out the kind of a topic.
UpsertLevel(c, kept) == Begin(c, Request("level", "stored", NoDoc, kept))

UpsertReadsStored(c) ==
    /\ At(c, "level", "stored")
    /\ requests' = [requests EXCEPT ![c].pc = "count", ![c].copy = level]
    /\ OnlyRequests

\* assertNoVideoOrphaned.
\* Mutant: only the lessons that play are counted.
OrphanedReady(kept) ==
    {l \in Present : docs[l].topic \notin kept /\ docs[l].status = "ready"}

Orphaned(kept) == {l \in Present : docs[l].topic \notin kept}

\* countVideosByTopic: the topics that have a lesson.
TopicsInUse == {docs[l].topic : l \in Present}

UpsertCounts(c) ==
    /\ At(c, "level", "count")
    /\ IF Orphaned(DOMAIN requests[c].arg) = {} THEN Proceed(c, "save", TopicsInUse) ELSE End(c)
    /\ OnlyRequests

Kind(sent, stored, t) ==
    IF sent # "unsaid" THEN sent
    ELSE IF t \in DOMAIN stored /\ stored[t] = "video" THEN "video" ELSE "common"

UpsertSaves(c) ==
    LET request == requests[c]  kept == request.arg IN
    /\ At(c, "level", "save")
    /\ level' = [t \in DOMAIN kept |-> Kind(kept[t], request.copy, t)]
    /\ outdated' = outdated
                   \cup (IF TopicsInUse # request.got THEN Orphaned(DOMAIN kept) ELSE {})
    /\ End(c)
    /\ UNCHANGED <<docs, files, assets, started, stops, cut>>

CreateVideoTopic(c, topic) ==
    /\ topic \notin DOMAIN level
    /\ \A l \in Present : docs[l].topic # topic
    /\ \A d \in Slots : requests[d].arg # topic
    /\ Begin(c, Request("topic", "get level", NoDoc, topic))

VideoTopicReads(c) ==
    /\ At(c, "topic", "get level")
    /\ requests' = [requests EXCEPT ![c].pc = "save", ![c].copy = level]
    /\ OnlyRequests

VideoTopicSaves(c) ==
    LET request == requests[c] IN
    /\ At(c, "topic", "save")
    /\ level' = [t \in DOMAIN request.copy \cup {request.arg} |->
                    IF t \in DOMAIN request.copy THEN request.copy[t] ELSE "video"]
    /\ outdated' = outdated \cup (IF level # request.copy THEN Orphaned(DOMAIN level') ELSE {})
    /\ End(c)
    /\ UNCHANGED <<docs, files, assets, started, stops, cut>>

-----------------------------------------------------------------------------
(* What is shown *)

IsReady(l) == docs[l] # NoDoc /\ docs[l].status = "ready"

\* getVisible: what a student of the level may open by its id.
Visible == {l \in Lessons : IsReady(l)}

\* getMaterialDownload: what a student may ask of a lesson.
Downloads(l) == {m \in Materials : docs[l].materials[m] = "ready"}

\* A lesson whose topic left the level is in no tree.
BuildTree(lessons) == {l \in lessons : docs[l].topic \in DOMAIN level}

\* getStudentTree: topics without a ready lesson are left out with it.
StudentTree == BuildTree({l \in Lessons : IsReady(l)})

-----------------------------------------------------------------------------
\* A restart: the answer is lost and what was written stays.
Stop(c) ==
    /\ requests[c] # Idle
    /\ stops < MaxStops
    /\ stops' = stops + 1
    /\ cut' = IF requests[c].id = NoDoc THEN cut ELSE cut \cup {requests[c].id}
    /\ End(c)
    /\ UNCHANGED <<docs, level, files, assets, started, outdated>>

PanelAsks(c) ==
    \/ \E id \in Lessons, t \in Topics : Create(c, id, t)
    \/ \E id \in Present :
          \/ \E t \in Topics \cup {NoArg} : Update(c, id, t)
          \/ Remove(c, id) \/ CompleteUpload(c, id)
          \/ \E m \in Materials :
                AddMaterial(c, id, m) \/ CompleteMaterial(c, id, m) \/ RemoveMaterial(c, id, m)
    \/ \E t \in Topics : Reorder(c, t) \/ CreateVideoTopic(c, t)
    \/ \E S \in SUBSET DOMAIN level, said \in {"common", "unsaid"} :
          UpsertLevel(c, [t \in S |-> said])

Handle(c) ==
    \/ CreateChecksTopic(c) \/ ReadSiblings(c) \/ CreateSaves(c)
    \/ UpdateReads(c) \/ UpdateChecksTopic(c) \/ UpdateSaves(c)
    \/ ReorderLists(c) \/ ReorderSaves(c)
    \/ RemoveReads(c) \/ RemoveAsset(c) \/ RemovePrefix(c) \/ RemoveDeletes(c)
    \/ CompleteReads(c) \/ CompleteChecksFile(c) \/ CompleteCreatesAsset(c)
    \/ CompleteSaves(c)
    \/ AddReads(c) \/ AddSaves(c)
    \/ CompleteMaterialReads(c) \/ CompleteMaterialChecks(c) \/ CompleteMaterialSaves(c)
    \/ RemoveMaterialReads(c) \/ RemoveMaterialFile(c) \/ RemoveMaterialSaves(c)
    \/ UpsertReadsStored(c) \/ UpsertCounts(c) \/ UpsertSaves(c)
    \/ VideoTopicReads(c) \/ VideoTopicSaves(c)
    \/ SyncReadsAsset(c) \/ ApplyAssetState(c)

Polls == \E c \in Listeners, id \in Lessons : Sync(c, id)

Elsewhere ==
    \/ \E id \in Lessons, size \in {"ok", "oversize"} :
          \/ SourceArrives(id, size)
          \/ \E m \in Materials : MaterialArrives(id, m, size)
    \/ \E a \in Assets :
          \/ \E c \in Listeners : MuxEvent(c, a)
          \/ \E outcome \in {"ready", "errored"} : AssetSettles(a, outcome)

LibraryNext ==
    \/ \E c \in Clients : PanelAsks(c)
    \/ \E c \in Slots : Handle(c) \/ Stop(c)
    \/ Polls
    \/ Elsewhere

LibrarySpec == LibraryInit /\ [][LibraryNext]_vars

\* Handlers go on to their end, the panel polls, Mux finishes what it started.
\* No webhook has to arrive.
FairLibrarySpec ==
    /\ LibrarySpec
    /\ \A c \in Slots : WF_vars(Handle(c))
    /\ WF_vars(Polls)
    /\ \A a \in Assets : WF_vars(\E outcome \in {"ready", "errored"} : AssetSettles(a, outcome))
=============================================================================
