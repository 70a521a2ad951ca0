------------------------------- MODULE Legal -------------------------------
(***************************************************************************)
(* The publication of one legal document (legal/): its header, its         *)
(* versions, which nothing may change, and the draft of the next one.  The *)
(* document is the terms of the recruitment; the others go the same way.   *)
(*                                                                         *)
(* A request is a record that walks through the awaits of its handler; the *)
(* handlers of Recruitment share this machine and leave these variables    *)
(* alone.                                                                  *)
(***************************************************************************)
EXTENDS Integers

CONSTANTS
    Clients,        \* requests that may be under way at once
    MaxRequests,    \* bound: requests that are begun
    MaxStops,       \* bound: failures, and requests that stop half way
    Terms,          \* the document
    NoDoc, NoOne, NoArg

ASSUME LegalAssumption == {MaxRequests, MaxStops} \subseteq Nat

VARIABLES
    header,     \* [published, required]: the header of the document
    versions,   \* version -> [origin, requires]: what was published
    draft,      \* the version the draft starts from, or NoDoc
    requests,   \* [Clients -> the request under way]
    started,    \* requests begun so far
    stops,
    outdated,   \* history: what was saved from a reading no longer true
    cut         \* history: candidates whose request did not reach its end

document == <<header, versions, draft>>
control == <<started, stops, outdated, cut>>

Idle == [op |-> "none", pc |-> "none", who |-> NoOne, arg |-> NoArg,
         copy |-> NoDoc, got |-> NoArg]
Request(op, pc, who, arg) ==
    [Idle EXCEPT !.op = op, !.pc = pc, !.who = who, !.arg = arg]

\* Which of the idle clients asks makes no difference.
FreeClient == CHOOSE k \in Clients : requests[k] = Idle

Begin(k, request) ==
    /\ requests[k] = Idle /\ k = FreeClient
    /\ started < MaxRequests
    /\ started' = started + 1
    /\ requests' = [requests EXCEPT ![k] = request]
    /\ UNCHANGED <<document, stops, outdated, cut>>

At(k, op, pc) == requests[k].op = op /\ requests[k].pc = pc
Proceed(k, pc, got) == requests' = [requests EXCEPT ![k].pc = pc, ![k].got = got]
Remember(k, pc, copy) == requests' = [requests EXCEPT ![k].pc = pc, ![k].copy = copy]
End(k) == requests' = [requests EXCEPT ![k] = Idle]

Mark(id, current) == outdated' = IF current THEN outdated ELSE outdated \cup {id}

-----------------------------------------------------------------------------
(* Versions: a major and a minor number.  No version at all counts as 0.0. *)

Unset == <<0, 0>>

Less(v, w) == v[1] < w[1] \/ (v[1] = w[1] /\ v[2] < w[2])

NextVersion(v, requires) ==
    IF v = Unset THEN <<1, 0>>
    ELSE IF requires THEN <<v[1] + 1, 0>> ELSE <<v[1], v[2] + 1>>

Header(published, required) == [published |-> published, required |-> required]
Version(origin, requires) == [origin |-> origin, requires |-> requires]

LegalInit ==
    /\ \/ /\ header = Header(Unset, Unset)
          /\ versions = [v \in {} |-> Version("seed", TRUE)]
       \/ /\ header = Header(<<1, 0>>, <<1, 0>>)
          /\ versions = [v \in {<<1, 0>>} |-> Version("seed", TRUE)]
       \/ /\ header = Header(<<1, 1>>, <<1, 0>>)
          /\ versions = [v \in {<<1, 0>>, <<1, 1>>} |-> Version("draft", v = <<1, 0>>)]
    /\ draft \in {NoDoc, header.published}
    /\ requests = [k \in Clients |-> Idle]
    /\ started = 0 /\ stops = 0
    /\ outdated = {} /\ cut = {}

-----------------------------------------------------------------------------
(* The draft *)

SaveDraft(k) == Begin(k, Request("draft", "draft", NoOne, NoArg))

\* A draft goes on from the version the one before it started from, if that had one.
SaveDraftReads(k) ==
    /\ At(k, "draft", "draft")
    /\ IF draft \notin {NoDoc, Unset} THEN Proceed(k, "save", draft)
       ELSE Proceed(k, "header", NoArg)
    /\ UNCHANGED <<document, control>>

SaveDraftReadsHeader(k) ==
    /\ At(k, "draft", "header")
    /\ Proceed(k, "save", header.published)
    /\ UNCHANGED <<document, control>>

SaveDraftSaves(k) ==
    LET based == requests[k].got IN
    /\ At(k, "draft", "save")
    /\ draft' = based
    /\ Mark(Terms, based = header.published)
    /\ End(k)
    /\ UNCHANGED <<header, versions, started, stops, cut>>

\* One delete, whatever is there.
DiscardDraft ==
    /\ draft # NoDoc
    /\ draft' = NoDoc
    /\ UNCHANGED <<header, versions, requests, control>>

-----------------------------------------------------------------------------
(* Publication *)

\* Mutant: the draft stays.
CommitOverDraft(v, entry, required) ==
    IF v \in DOMAIN versions THEN UNCHANGED document
    ELSE /\ versions' = [w \in DOMAIN versions \cup {v} |->
                           IF w = v THEN entry ELSE versions[w]]
         /\ header' = Header(v, required)
         /\ UNCHANGED draft

\* Mutant: the version is set, not created.
CommitSets(v, entry, required) ==
    /\ versions' = [w \in DOMAIN versions \cup {v} |-> IF w = v THEN entry ELSE versions[w]]
    /\ header' = Header(v, required)
    /\ draft' = NoDoc

\* The transaction: a version that exists is refused, with everything else.
Commit(v, entry, required) ==
    IF v \in DOMAIN versions THEN UNCHANGED document
    ELSE /\ versions' = [w \in DOMAIN versions \cup {v} |->
                           IF w = v THEN entry ELSE versions[w]]
         /\ header' = Header(v, required)
         /\ draft' = NoDoc

\* A major publication asks everyone to accept again.
Publish(k, kind) == Begin(k, Request("publish", "draft", NoOne, kind))

\* The draft is read before the transaction.  None to publish: 409.
PublishReadsDraft(k) ==
    /\ At(k, "publish", "draft")
    /\ IF draft # NoDoc THEN Proceed(k, "commit", NoArg) ELSE End(k)
    /\ UNCHANGED <<document, control>>

\* Mutant: the version required stays for ever.
RequiredOnce(v, requires) == IF header.required = Unset THEN v ELSE header.required

Required(v, requires) == IF requires THEN v ELSE header.required

\* The first version always asks for the acceptance.
PublishCommits(k) ==
    LET first == header.published = Unset
        requires == first \/ requests[k].arg = "major"
        v == NextVersion(header.published, requires)
    IN  /\ At(k, "publish", "commit")
        /\ Commit(v, Version("draft", requires), Required(v, requires))
        /\ End(k)
        /\ UNCHANGED control

\* The document that has a version is skipped.
Seed(k) == Begin(k, Request("seed", "header", NoOne, NoArg))

SeedReadsHeader(k) ==
    /\ At(k, "seed", "header")
    /\ IF header.published = Unset THEN Proceed(k, "commit", NoArg) ELSE End(k)
    /\ UNCHANGED <<document, control>>

\* What it writes does not look at the header again.
SeedCommits(k) ==
    /\ At(k, "seed", "commit")
    /\ Commit(<<1, 0>>, Version("seed", TRUE), <<1, 0>>)
    /\ End(k)
    /\ UNCHANGED control

-----------------------------------------------------------------------------
LegalAsks(k) ==
    SaveDraft(k) \/ Seed(k) \/ \E kind \in {"major", "minor"} : Publish(k, kind)

LegalHandle(k) ==
    \/ SaveDraftReads(k) \/ SaveDraftReadsHeader(k) \/ SaveDraftSaves(k)
    \/ PublishReadsDraft(k) \/ PublishCommits(k)
    \/ SeedReadsHeader(k) \/ SeedCommits(k)

LegalNext == (\E k \in Clients : LegalAsks(k) \/ LegalHandle(k)) \/ DiscardDraft
=============================================================================
