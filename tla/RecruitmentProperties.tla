----------------------- MODULE RecruitmentProperties -----------------------
(* What the legal documents and the recruitment promise each other. *)
EXTENDS Recruitment

Versions == Nat \X Nat

\* The header names the newest of the versions, and requires the last one that
\* asked for a new acceptance: publications and seeds that overlap, each from
\* its own reading, never leave a reader of the header without its text, nor
\* the acceptance of an older text as enough.
HeaderNamesItsVersions ==
    /\ header.published # Unset =>
          {header.published, header.required} \subseteq DOMAIN versions
    /\ header.published = Unset => DOMAIN versions = {}
    /\ \A v \in DOMAIN versions :
          /\ ~Less(header.published, v)
          /\ versions[v].requires => ~Less(header.required, v)

\* What was published is never changed or removed, and the header never goes
\* back: a seed that finds its version taken writes nothing.
VersionsAreKept ==
    [][ /\ \A v \in DOMAIN versions : v \in DOMAIN versions' /\ versions'[v] = versions[v]
        /\ ~Less(header'.published, header.published)
        /\ ~Less(header'.required, header.required) ]_vars

\* The draft on the panel starts from the version in force: publishing over it
\* would not take back a text published since.  Only a draft whose save was
\* overtaken by a publication starts from an older one.
DraftIsOfTheCurrentText ==
    draft = NoDoc \/ Terms \in outdated \/ draft = header.published

\* Publications, seeds and drafts that overlap leave one text in force.
PublicationsAgree == HeaderNamesItsVersions /\ DraftIsOfTheCurrentText

Consenting(c) ==
    \E k \in Clients : requests[k].who = c /\ requests[k].op \in {"signup", "accept"}

\* Whether a candidate must accept the terms has two answers: the modal and the
\* panel read the acceptances, the application reads the candidate.  They agree, through
\* publications between any two steps, unless an acceptance stopped half way or
\* a copy of the candidate was written over it.
TheTwoAnswersAgree ==
    \A c \in Candidates :
        candidates[c] # NoDoc /\ c \notin outdated \cup cut /\ ~Consenting(c) =>
            (NeedsConsent(candidates[c]) <=> c \in PendingPeople)

\* An application was made under an acceptance of the terms then required, and
\* the proof of it is kept, whatever the three documents went through since.
AppliedUnderConsent ==
    \A a \in DOMAIN applications :
        LET c == a[2] IN
        applications[a] # NoDoc /\ applications[a].under # Unset
        /\ c \notin cut /\ ~Consenting(c) =>
            \E v \in Consents(c) : ~Less(v, applications[a].under)

\* Who must consent is asked, and who did can be shown to have done so.
ConsentIsOnRecord == TheTwoAnswersAgree /\ AppliedUnderConsent

\* An application is shown to the manager under its job and to the candidate
\* among theirs, and the talent pool counts those: the order of the two deletions
\* leaves none without an end, even when one stops half way and is asked for
\* again.  What was saved after a deletion had listed them is left out.
ApplicationHasBothEnds ==
    /\ \A a \in DOMAIN applications \ outdated :
          applications[a] # NoDoc => a \in Applicants(a[1]) /\ a \in Mine(a[2])
    /\ \A c \in MustAccept \ outdated : ApplicationsOf(c) \cap outdated = {} =>
          TalentPool[c] = Cardinality(Mine(c))

\* The resume of a candidate is a file that arrived and was not refused: it is
\* replaced in the document before the old file goes.  A deletion takes the
\* files first: one that stopped leaves a candidate with no file at all.
ResumeHasItsFile ==
    \A c \in Candidates \ outdated : \A r \in Downloadable(c) :
        \/ files[c][r] = "ok"
        \/ \E k \in Clients : requests[k].who = c /\ requests[k].op = "delete"
        \/ WithoutFiles(c) \in cut

\* When the account is gone, nothing of the person is left: a deletion that
\* stopped can be asked for again, since the account goes last.
NothingOutlivesTheAccount ==
    \A c \in Candidates :
        accounts[c] = "deleted" /\ c \notin outdated \cup cut =>
            /\ candidates[c] = NoDoc
            /\ ApplicationsOf(c) = {}
            /\ \A r \in Resumes : files[c][r] \notin {"ok", "bad"}

\* No deletion, withdrawal or replacement, in whatever order their writes fall,
\* leaves an application, a resume or a file without what it belongs to.
NothingIsOrphaned ==
    ApplicationHasBothEnds /\ ResumeHasItsFile /\ NothingOutlivesTheAccount
=============================================================================
