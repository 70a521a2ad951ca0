---------------------------- MODULE Recruitment ----------------------------
(***************************************************************************)
(* The candidates, their consent to the terms, their resumes, the jobs and *)
(* the applications (recruitment/), beside the publication of the terms.   *)
(*                                                                         *)
(* Candidates, jobs and applications are read and saved whole: what a      *)
(* request writes is made of the copy it read.                             *)
(***************************************************************************)
EXTENDS Legal, FiniteSets

CONSTANTS Candidates, Jobs, Resumes, NoFile

\* There is a file to send, and no document is the absence of one.
ASSUME RecruitmentAssumption ==
    /\ Resumes # {}
    /\ NoDoc \notin [consent : Nat \X Nat, resume : Resumes \cup {NoFile},
                     pending : Resumes \cup {NoFile}]

VARIABLES
    accounts,       \* [Candidates -> the account: "new" | "live" | "deleted"]
    candidates,     \* [Candidates -> the document, or NoDoc]
    acceptances,    \* set of <<candidate, version>>: legalAcceptances
    files,          \* [Candidates -> [Resumes -> what the storage has]]
    jobs,           \* [Jobs -> "none" | "open" | "closed"]
    applications    \* [Jobs \X Candidates -> the document, or NoDoc]

people == <<accounts, candidates, acceptances, files>>
vacancies == <<jobs, applications>>
vars == <<document, requests, control, people, vacancies>>

Statuses == {"received", "approved"}   \* undecided and decided
Decided == {"approved"}

Candidate(consent, resume, pending) ==
    [consent |-> consent, resume |-> resume, pending |-> pending]

\* under is history: the version required when it was made.
Application(status, under) == [status |-> status, under |-> under]

ApplicationsOf(c) == {a \in Jobs \X {c} : applications[a] # NoDoc}
ApplicationsTo(j) == {a \in {j} \X Candidates : applications[a] # NoDoc}

Consents(c) == {v \in DOMAIN versions \cup {Unset} : <<c, v>> \in acceptances}

-----------------------------------------------------------------------------
(* Who has to accept *)

\* The answer read from the candidate.
NeedsConsent(doc) ==
    header.required # Unset /\ (doc.consent = Unset \/ Less(doc.consent, header.required))

\* The answer read from the acceptances.
Pending(c) ==
    header.required # Unset /\ \A v \in Consents(c) : Less(v, header.required)

\* peopleWhoMustAccept, among those modelled.
MustAccept == {c \in Candidates : candidates[c] # NoDoc}

\* getAcceptances: who the panel shows as still to accept.
PendingPeople == {c \in MustAccept : Pending(c)}

-----------------------------------------------------------------------------
(* What is shown *)

\* listByJob: an application without its candidate is dropped.
Applicants(j) == {a \in ApplicationsTo(j) : candidates[a[2]] # NoDoc}

\* listMine: one without its job is dropped.
Mine(c) == {a \in ApplicationsOf(c) : jobs[a[1]] # "none"}

\* listTalentPool, with the number of applications it shows.
TalentPool == [c \in MustAccept |-> Cardinality(ApplicationsOf(c))]

\* resumeDownloadUrl.
Downloadable(c) == IF c \in MustAccept THEN {candidates[c].resume} \ {NoFile} ELSE {}

-----------------------------------------------------------------------------
\* Nobody but candidate c, at one stage, who applied to j if their resume r and
\* consent allowed it.
Stage(c, r, j, live, consent, resume, applied) ==
    LET doc == Candidate(consent, IF resume = "ok" THEN r ELSE NoFile,
                                  IF resume = "awaited" THEN r ELSE NoFile)
    IN  /\ ~live => consent = Unset /\ resume = "none" /\ ~applied
        /\ applied => jobs[j] = "open" /\ resume = "ok"
                      /\ (consent = Unset \/ ~Less(consent, header.required))
        /\ accounts = [d \in Candidates |-> IF live /\ d = c THEN "live" ELSE "new"]
        /\ candidates = [d \in Candidates |-> IF live /\ d = c THEN doc ELSE NoDoc]
        /\ acceptances = IF consent = Unset THEN {} ELSE {<<c, consent>>}
        /\ files = [d \in Candidates |-> [f \in Resumes |->
                      IF d = c /\ f = r /\ resume # "none" THEN resume ELSE "unused"]]
        /\ applications = [a \in Jobs \X Candidates |->
              IF applied /\ a = <<j, c>>
              THEN Application("received", IF consent = Unset THEN Unset ELSE header.required)
              ELSE NoDoc]

RecruitmentInit ==
    /\ LegalInit
    /\ jobs \in [Jobs -> {"none", "open"}]
    /\ \E live \in BOOLEAN, consent \in DOMAIN versions \cup {Unset},
         resume \in {"none", "awaited", "ok"}, applied \in BOOLEAN :
          Stage(CHOOSE d \in Candidates : TRUE, CHOOSE f \in Resumes : TRUE,
                CHOOSE i \in Jobs : TRUE, live, consent, resume, applied)

\* A failure of a call, and of the whole process, is one of the stops.
Fails == stops < MaxStops /\ stops' = stops + 1

\* The first read of most handlers: 404, or the next await.
GetOrThrow(k, op, next) ==
    LET doc == candidates[requests[k].who] IN
    /\ At(k, op, "get")
    /\ IF doc = NoDoc THEN End(k) ELSE Remember(k, next, doc)
    /\ UNCHANGED <<document, control, people, vacancies>>

\* The candidate is saved whole.
SaveCandidate(c, doc, current) ==
    /\ candidates' = [candidates EXCEPT ![c] = doc]
    /\ Mark(c, current)

OnlyRequests == UNCHANGED <<document, control, people, vacancies>>

Deleting(c) ==
    \/ accounts[c] = "deleted"
    \/ \E k \in Clients : requests[k].who = c /\ requests[k].op = "delete"

-----------------------------------------------------------------------------
(* Signing up and accepting the terms *)

Signup(k, c) ==
    /\ accounts[c] = "new" /\ \A i \in Clients : requests[i].who # c
    /\ Begin(k, Request("signup", "account", c, NoArg))
    /\ UNCHANGED <<people, vacancies>>

SignupCreatesAccount(k) ==
    /\ At(k, "signup", "account")
    /\ accounts' = [accounts EXCEPT ![requests[k].who] = "live"]
    /\ Proceed(k, "terms", NoArg)
    /\ UNCHANGED <<document, control, candidates, acceptances, files, vacancies>>

\* A read outside the try: when it fails the account stays without a candidate.
SignupReadsTerms(k) ==
    /\ At(k, "signup", "terms")
    /\ \/ Proceed(k, "save", header.published) /\ UNCHANGED stops
       \/ Fails /\ End(k)
    /\ UNCHANGED <<document, started, outdated, cut, people, vacancies>>

SignupSaves(k) ==
    LET c == requests[k].who  doc == Candidate(requests[k].got, NoFile, NoFile) IN
    /\ At(k, "signup", "save")
    /\ \/ /\ SaveCandidate(c, doc, ~Deleting(c))
          /\ Proceed(k, "published", NoArg)
          /\ UNCHANGED stops
       \/ Fails /\ Proceed(k, "undo", NoArg) /\ UNCHANGED <<candidates, outdated>>
    /\ UNCHANGED <<document, started, cut, accounts, acceptances, files, vacancies>>

SignupUndoes(k) ==
    /\ At(k, "signup", "undo")
    /\ accounts' = [accounts EXCEPT ![requests[k].who] = "deleted"]
    /\ End(k)
    /\ UNCHANGED <<document, control, candidates, acceptances, files, vacancies>>

\* acceptAtSignup: what is published by now is accepted with the account.
SignupReadsPublished(k) ==
    /\ At(k, "signup", "published")
    /\ IF header.published # Unset THEN Proceed(k, "header", NoArg) ELSE End(k)
    /\ OnlyRequests

Accept(k, c) ==
    /\ accounts[c] = "live"
    /\ Begin(k, Request("accept", "header", c, NoArg))
    /\ UNCHANGED <<people, vacancies>>

\* The version in force, whatever the candidate was shown.  None: 400.
AcceptReadsHeader(k) ==
    /\ requests[k].pc = "header" /\ requests[k].op \in {"accept", "signup"}
    /\ IF header.published # Unset THEN Proceed(k, "record", header.published) ELSE End(k)
    /\ OnlyRequests

AcceptRecords(k) ==
    /\ requests[k].pc = "record"
    /\ acceptances' = acceptances \cup {<<requests[k].who, requests[k].got>>}
    /\ Proceed(k, "mirror", requests[k].got)
    /\ UNCHANGED <<document, control, accounts, candidates, files, vacancies>>

AcceptReadsCandidate(k) ==
    LET doc == candidates[requests[k].who] IN
    /\ requests[k].pc = "mirror"
    /\ IF doc = NoDoc THEN End(k) ELSE Remember(k, "consent", doc)
    /\ OnlyRequests

\* Mutant: the proof of the acceptance is not mirrored.
MirrorNothing(copy, version) == copy

Mirror(copy, version) == [copy EXCEPT !.consent = version]

\* mirrorCandidateConsent: an acceptance that was overtaken may take it back.
AcceptMirrors(k) ==
    LET c == requests[k].who  copy == requests[k].copy  version == requests[k].got IN
    /\ requests[k].pc = "consent"
    /\ SaveCandidate(c, Mirror(copy, version),
                     candidates[c] = copy /\ ~Less(version, copy.consent))
    /\ End(k)
    /\ UNCHANGED <<document, started, stops, cut, accounts, acceptances, files, vacancies>>

UpdateMe(k, c) ==
    /\ accounts[c] = "live"
    /\ Begin(k, Request("update", "get", c, NoArg))
    /\ UNCHANGED <<people, vacancies>>

UpdateMeReads(k) == GetOrThrow(k, "update", "save")

\* The name and the phone change; the rest is written back.
UpdateMeSaves(k) ==
    LET c == requests[k].who  copy == requests[k].copy IN
    /\ At(k, "update", "save")
    /\ SaveCandidate(c, copy, candidates[c] = copy)
    /\ End(k)
    /\ UNCHANGED <<document, started, stops, cut, accounts, acceptances, files, vacancies>>

-----------------------------------------------------------------------------
(* The resume *)

RequestUpload(k, c, r) ==
    /\ accounts[c] = "live"
    /\ files[c][r] = "unused"
    /\ \A i \in Clients : requests[i].op = "upload" => requests[i].arg # r
    /\ Begin(k, Request("upload", "get", c, r))
    /\ UNCHANGED <<people, vacancies>>

RequestUploadReads(k) == GetOrThrow(k, "upload", "save")

\* The session is opened and the document written: nobody has its address
\* before the answer.
RequestUploadSaves(k) ==
    LET c == requests[k].who  copy == requests[k].copy  r == requests[k].arg IN
    /\ At(k, "upload", "save")
    /\ files' = [files EXCEPT ![c][r] = "awaited"]
    /\ SaveCandidate(c, [copy EXCEPT !.pending = r], candidates[c] = copy)
    /\ End(k)
    /\ UNCHANGED <<document, started, stops, cut, accounts, acceptances, vacancies>>

\* An upload ends at the storage, without the server: after a deletion removed
\* the files, it leaves one of nobody.
FileArrives(c, r, content) ==
    /\ files[c][r] = "awaited"
    /\ files' = [files EXCEPT ![c][r] = content]
    /\ Mark(c, candidates[c] # NoDoc
               /\ \A k \in Clients : requests[k].who = c => requests[k].pc # "doc")
    /\ UNCHANGED <<document, requests, started, stops, cut, accounts, candidates,
                   acceptances, vacancies>>

CompleteUpload(k, c) ==
    /\ accounts[c] = "live"
    /\ Begin(k, Request("complete", "get", c, NoArg))
    /\ UNCHANGED <<people, vacancies>>

CompleteReads(k) ==
    LET doc == candidates[requests[k].who] IN
    /\ At(k, "complete", "get")
    /\ IF doc = NoDoc THEN End(k)
       ELSE IF doc.pending = NoFile THEN End(k) ELSE Remember(k, "info", doc)
    /\ OnlyRequests

\* Mutant: what did not arrive is taken as it is.
ResumeUnchecked(file) == IF file = "bad" THEN "refused" ELSE "taken"

\* What the file makes of the upload; "" is the 409 of one still to come.
ResumeCheck(file) == CASE file = "ok" -> "taken" [] file = "bad" -> "refused" [] OTHER -> ""

Gone(file) == IF file \in {"ok", "bad"} THEN "gone" ELSE file

\* Outside the rule the file is removed before the document is saved.
CompleteChecksFile(k) ==
    LET c == requests[k].who  r == requests[k].copy.pending
        check == ResumeCheck(files[c][r])
    IN  /\ At(k, "complete", "info")
        /\ files' = IF check = "refused" THEN [files EXCEPT ![c][r] = Gone(@)] ELSE files
        /\ IF check = "" THEN End(k) ELSE Proceed(k, "save", check)
        /\ UNCHANGED <<document, control, accounts, candidates, acceptances, vacancies>>

CompleteSaves(k) ==
    LET c == requests[k].who  copy == requests[k].copy
        taken == requests[k].got = "taken"
        doc == [copy EXCEPT !.pending = NoFile, !.resume = IF taken THEN copy.pending ELSE @]
    IN  /\ At(k, "complete", "save")
        /\ SaveCandidate(c, doc, candidates[c] = copy)
        /\ IF taken /\ copy.resume \notin {NoFile, copy.pending}
           THEN Proceed(k, "old", NoArg) ELSE End(k)
        /\ UNCHANGED <<document, started, stops, cut, accounts, acceptances, files, vacancies>>

\* Only then the file of the resume before goes.
CompleteRemovesOld(k) ==
    LET c == requests[k].who  r == requests[k].copy.resume IN
    /\ At(k, "complete", "old")
    /\ files' = [files EXCEPT ![c][r] = Gone(@)]
    /\ End(k)
    /\ UNCHANGED <<document, control, accounts, candidates, acceptances, vacancies>>

-----------------------------------------------------------------------------
(* Deletion: by the candidate, who may ask again, or by the manager *)

DeleteAll(k, c) ==
    /\ accounts[c] = "live"
    /\ Begin(k, Request("delete", "list", c, NoArg))
    /\ UNCHANGED <<people, vacancies>>

DeleteByManager(k, c) ==
    /\ Begin(k, Request("delete", "get", c, NoArg))
    /\ UNCHANGED <<people, vacancies>>

DeleteByManagerReads(k) == GetOrThrow(k, "delete", "list")

DeleteLists(k) ==
    /\ At(k, "delete", "list")
    /\ Proceed(k, "batch", ApplicationsOf(requests[k].who))
    /\ OnlyRequests

\* Mutant: the batch deletes none of them.
WithoutNone(ids) == applications

Without(ids) == [a \in DOMAIN applications |-> IF a \in ids THEN NoDoc ELSE applications[a]]

\* deleteMany, of a candidate or of a job.
DeleteMany(k) ==
    /\ requests[k].pc = "batch"
    /\ applications' = Without(requests[k].got)
    /\ Proceed(k, IF requests[k].op = "delete" THEN "files" ELSE "job", requests[k].got)
    /\ UNCHANGED <<document, control, people, jobs>>

\* Mutant: the files stay.
PrefixKept(c) == files[c]

Prefix(c) == [r \in Resumes |-> Gone(files[c][r])]

\* removePrefix logs a failure and goes on.
DeleteFiles(k) ==
    LET c == requests[k].who IN
    /\ At(k, "delete", "files")
    /\ \/ files' = [files EXCEPT ![c] = Prefix(c)] /\ UNCHANGED <<stops, cut>>
       \/ Fails /\ cut' = cut \cup {c} /\ UNCHANGED files
    /\ Proceed(k, "doc", requests[k].got)
    /\ UNCHANGED <<document, started, outdated, accounts, candidates, acceptances, vacancies>>

\* What was not in the list is left without its end.
Unlisted(ids, listed) == ids \ listed

DeleteDoc(k) ==
    LET c == requests[k].who  left == Unlisted(ApplicationsOf(c), requests[k].got) IN
    /\ At(k, "delete", "doc")
    /\ candidates' = [candidates EXCEPT ![c] = NoDoc]
    /\ outdated' = outdated \cup left \cup (IF left = {} THEN {} ELSE {c})
    /\ Proceed(k, "account", NoArg)
    /\ UNCHANGED <<document, started, stops, cut, accounts, acceptances, files, vacancies>>

DeleteAccount(k) ==
    /\ At(k, "delete", "account")
    /\ accounts' = [accounts EXCEPT ![requests[k].who] = "deleted"]
    /\ End(k)
    /\ UNCHANGED <<document, control, candidates, acceptances, files, vacancies>>

-----------------------------------------------------------------------------
(* Jobs *)

CreateJob(j) ==
    /\ jobs[j] = "none" /\ \A k \in Clients : requests[k].arg # j
    /\ jobs' = [jobs EXCEPT ![j] = "open"]
    /\ UNCHANGED <<document, requests, control, people, applications>>

UpdateJob(k, j) ==
    /\ Begin(k, Request("job", "get job", NoOne, j))
    /\ UNCHANGED <<people, vacancies>>

UpdateJobReads(k) ==
    /\ At(k, "job", "get job")
    /\ IF jobs[requests[k].arg] = "none" THEN End(k) ELSE Proceed(k, "save", NoArg)
    /\ OnlyRequests

\* The job is saved whole: one removed meanwhile is there again.
UpdateJobSaves(k) ==
    /\ At(k, "job", "save")
    /\ \E status \in {"open", "closed"} : jobs' = [jobs EXCEPT ![requests[k].arg] = status]
    /\ End(k)
    /\ UNCHANGED <<document, control, people, applications>>

RemoveJob(k, j) ==
    /\ Begin(k, Request("remove", "get job", NoOne, j))
    /\ UNCHANGED <<people, vacancies>>

RemoveJobReads(k) ==
    /\ At(k, "remove", "get job")
    /\ IF jobs[requests[k].arg] = "none" THEN End(k) ELSE Proceed(k, "list", NoArg)
    /\ OnlyRequests

RemoveJobLists(k) ==
    /\ At(k, "remove", "list")
    /\ Proceed(k, "batch", ApplicationsTo(requests[k].arg))
    /\ OnlyRequests

RemoveJobDeletes(k) ==
    LET j == requests[k].arg IN
    /\ At(k, "remove", "job")
    /\ jobs' = [jobs EXCEPT ![j] = "none"]
    /\ outdated' = outdated \cup Unlisted(ApplicationsTo(j), requests[k].got)
    /\ End(k)
    /\ UNCHANGED <<document, started, stops, cut, people, applications>>

-----------------------------------------------------------------------------
(* Applications *)

Apply(k, c, j) ==
    /\ accounts[c] = "live"
    /\ Begin(k, Request("apply", "get job", c, j))
    /\ UNCHANGED <<people, vacancies>>

ApplyReadsJob(k) ==
    /\ At(k, "apply", "get job")
    /\ IF jobs[requests[k].arg] = "open" THEN Proceed(k, "get", NoArg) ELSE End(k)
    /\ OnlyRequests

ApplyReadsCandidate(k) == GetOrThrow(k, "apply", "terms")

\* Mutant: the consent is not asked for.
MayApplyAnyway(doc) == doc.resume # NoFile

MayApply(doc) == ~NeedsConsent(doc) /\ doc.resume # NoFile

ApplyReadsTerms(k) ==
    /\ At(k, "apply", "terms")
    /\ IF MayApply(requests[k].copy) THEN Proceed(k, "existing", header.required) ELSE End(k)
    /\ OnlyRequests

\* Applied already: 409.
ApplyReadsExisting(k) ==
    LET a == <<requests[k].arg, requests[k].who>> IN
    /\ At(k, "apply", "existing")
    /\ IF applications[a] = NoDoc THEN Proceed(k, "save", requests[k].got) ELSE End(k)
    /\ OnlyRequests

\* A deletion under way has been past it.
Swept(a) ==
    \E i \in Clients : requests[i].pc \in {"files", "doc", "job"} /\ a \in requests[i].got

ApplySaves(k) ==
    LET c == requests[k].who  j == requests[k].arg  a == <<j, c>>
        current == applications[a] = NoDoc /\ jobs[j] # "none" /\ candidates[c] # NoDoc
                   /\ ~Swept(a)
    IN  /\ At(k, "apply", "save")
        /\ applications' = [applications EXCEPT ![a] = Application("received", requests[k].got)]
        /\ outdated' = outdated \cup (IF current THEN {} ELSE {a, c})
        /\ End(k)
        /\ UNCHANGED <<document, started, stops, cut, people, jobs>>

Withdraw(k, c, j) ==
    /\ accounts[c] = "live"
    /\ Begin(k, Request("withdraw", "get app", c, j))
    /\ UNCHANGED <<people, vacancies>>

Withdrawable(doc) == doc # NoDoc /\ doc.status \notin Decided

WithdrawReads(k) ==
    LET doc == applications[<<requests[k].arg, requests[k].who>>] IN
    /\ At(k, "withdraw", "get app")
    /\ IF Withdrawable(doc) THEN Remember(k, "delete", doc) ELSE End(k)
    /\ OnlyRequests

WithdrawDeletes(k) ==
    LET a == <<requests[k].arg, requests[k].who>> IN
    /\ At(k, "withdraw", "delete")
    /\ applications' = [applications EXCEPT ![a] = NoDoc]
    /\ End(k)
    /\ UNCHANGED <<document, control, people, jobs>>

UpdateStatus(k, c, j) ==
    /\ Begin(k, Request("status", "get app", c, j))
    /\ UNCHANGED <<people, vacancies>>

UpdateStatusReads(k) ==
    LET doc == applications[<<requests[k].arg, requests[k].who>>] IN
    /\ At(k, "status", "get app")
    /\ IF doc = NoDoc THEN End(k) ELSE Remember(k, "save", doc)
    /\ OnlyRequests

\* The same status changes nothing; another is saved with the whole document.
UpdateStatusSaves(k) ==
    LET a == <<requests[k].arg, requests[k].who>>  copy == requests[k].copy IN
    /\ At(k, "status", "save")
    /\ \E status \in Statuses \ {copy.status} :
          applications' = [applications EXCEPT ![a] = [copy EXCEPT !.status = status]]
    /\ outdated' = outdated \cup
          (IF applications[a] = copy /\ candidates[a[2]] # NoDoc THEN {} ELSE {a, a[2]})
    /\ End(k)
    /\ UNCHANGED <<document, started, stops, cut, people, jobs>>

-----------------------------------------------------------------------------
\* A deletion that stopped has removed the files and left the document.
WithoutFiles(c) == <<"without files", c>>

\* A restart: what was written stays.  A deletion may be asked for again.
Stop(k) ==
    LET c == requests[k].who IN
    /\ requests[k] # Idle
    /\ Fails
    /\ cut' = CASE requests[k].op \in {"signup", "accept"} -> cut \cup {c}
              [] At(k, "delete", "doc") -> cut \cup {WithoutFiles(c)}
              [] OTHER -> cut
    /\ End(k)
    /\ UNCHANGED <<document, started, outdated, people, vacancies>>

Asks(k) ==
    \/ LegalAsks(k) /\ UNCHANGED <<people, vacancies>>
    \/ \E c \in Candidates :
          \/ Signup(k, c) \/ Accept(k, c) \/ UpdateMe(k, c) \/ CompleteUpload(k, c)
          \/ DeleteAll(k, c) \/ DeleteByManager(k, c)
          \/ \E r \in Resumes : RequestUpload(k, c, r)
          \/ \E j \in Jobs : Apply(k, c, j) \/ Withdraw(k, c, j) \/ UpdateStatus(k, c, j)
    \/ \E j \in Jobs : UpdateJob(k, j) \/ RemoveJob(k, j)

CandidateHandle(k) ==
    \/ SignupCreatesAccount(k) \/ SignupReadsTerms(k) \/ SignupSaves(k) \/ SignupUndoes(k)
    \/ SignupReadsPublished(k)
    \/ AcceptReadsHeader(k) \/ AcceptRecords(k) \/ AcceptReadsCandidate(k) \/ AcceptMirrors(k)
    \/ UpdateMeReads(k) \/ UpdateMeSaves(k)
    \/ RequestUploadReads(k) \/ RequestUploadSaves(k)
    \/ CompleteReads(k) \/ CompleteChecksFile(k) \/ CompleteSaves(k) \/ CompleteRemovesOld(k)
    \/ DeleteByManagerReads(k) \/ DeleteLists(k) \/ DeleteMany(k) \/ DeleteFiles(k)
    \/ DeleteDoc(k) \/ DeleteAccount(k)

JobHandle(k) ==
    \/ UpdateJobReads(k) \/ UpdateJobSaves(k)
    \/ RemoveJobReads(k) \/ RemoveJobLists(k) \/ RemoveJobDeletes(k)
    \/ ApplyReadsJob(k) \/ ApplyReadsCandidate(k) \/ ApplyReadsTerms(k)
    \/ ApplyReadsExisting(k) \/ ApplySaves(k)
    \/ WithdrawReads(k) \/ WithdrawDeletes(k)
    \/ UpdateStatusReads(k) \/ UpdateStatusSaves(k)

Handle(k) ==
    \/ LegalHandle(k) /\ UNCHANGED <<people, vacancies>>
    \/ CandidateHandle(k)
    \/ JobHandle(k)

RecruitmentNext ==
    \/ \E k \in Clients : Asks(k) \/ Handle(k) \/ Stop(k)
    \/ DiscardDraft /\ UNCHANGED <<people, vacancies>>
    \/ \E c \in Candidates, r \in Resumes, content \in {"ok", "bad"} : FileArrives(c, r, content)
    \/ \E j \in Jobs : CreateJob(j)

RecruitmentSpec == RecruitmentInit /\ [][RecruitmentNext]_vars
=============================================================================
