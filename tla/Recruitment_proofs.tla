------------------------- MODULE Recruitment_proofs -------------------------
(***************************************************************************)
(* Theorems about modules Legal and Recruitment, for any number of         *)
(* requests under way, candidates, jobs, resumes and versions, with no     *)
(* bound on requests or failures: the versions of the document that must   *)
(* be accepted, the consents to it, and what candidates and jobs leave     *)
(* behind when they go.                                                    *)
(***************************************************************************)
EXTENDS RecruitmentProperties, TLAPS

-----------------------------------------------------------------------------
(* The order of versions *)

LEMMA LessIsTransitive ==
    ASSUME NEW u \in Versions, NEW v \in Versions, NEW w \in Versions,
           ~Less(v, u), Less(v, w)
    PROVE  Less(u, w)
PROOF BY DEF Less, Versions

LEMMA LessIsIrreflexive ==
    ASSUME NEW v \in Versions
    PROVE  ~Less(v, v)
PROOF BY DEF Less, Versions

LEMMA LessIsAsymmetric ==
    ASSUME NEW v \in Versions, NEW w \in Versions, Less(v, w)
    PROVE  ~Less(w, v)
PROOF BY DEF Less, Versions

\* The next version is a version, and newer.
LEMMA NextIsNewer ==
    ASSUME NEW v \in Versions, NEW requires \in BOOLEAN
    PROVE  /\ NextVersion(v, requires) \in Versions \ {Unset}
           /\ Less(v, NextVersion(v, requires))
PROOF BY DEF NextVersion, Less, Versions, Unset

-----------------------------------------------------------------------------
(* What leaves the document alone *)

Frame == UNCHANGED document /\ outdated \subseteq outdated'

\* Asking, on the panel of the documents, changes nothing yet.
LEMMA LegalRequestsKeepTheDocument ==
    ASSUME NEW k \in Clients, LegalAsks(k)
    PROVE  Frame
PROOF
  <1>1. CASE SaveDraft(k)
    BY <1>1 DEF Frame, SaveDraft, Begin, control, document
  <1>2. CASE Seed(k)
    BY <1>2 DEF Frame, Seed, Begin, control, document
  <1>3. ASSUME NEW kind \in {"major", "minor"}, Publish(k, kind) PROVE Frame
    BY <1>3 DEF Frame, Publish, Begin, control, document
  <1> QED
    BY <1>1, <1>2, <1>3 DEF LegalAsks

\* What candidates do leaves the document of the terms alone.
LEMMA CandidatesKeepTheDocument ==
    ASSUME NEW k \in Clients, CandidateHandle(k)
    PROVE  Frame
PROOF
  <1>1. CASE SignupCreatesAccount(k)
    BY <1>1 DEF Frame, SignupCreatesAccount, control, document
  <1>2. CASE SignupReadsTerms(k)
    BY <1>2 DEF Frame, SignupReadsTerms, control, document
  <1>3. CASE SignupSaves(k)
    BY <1>3 DEF Frame, SignupSaves, SaveCandidate, Mark, control, document
  <1>4. CASE SignupUndoes(k)
    BY <1>4 DEF Frame, SignupUndoes, control, document
  <1>5. CASE SignupReadsPublished(k)
    BY <1>5 DEF Frame, SignupReadsPublished, OnlyRequests, control, document
  <1>6. CASE AcceptReadsHeader(k)
    BY <1>6 DEF Frame, AcceptReadsHeader, OnlyRequests, control, document
  <1>7. CASE AcceptRecords(k)
    BY <1>7 DEF Frame, AcceptRecords, control, document
  <1>8. CASE AcceptReadsCandidate(k)
    BY <1>8 DEF Frame, AcceptReadsCandidate, OnlyRequests, control, document
  <1>9. CASE AcceptMirrors(k)
    BY <1>9 DEF Frame, AcceptMirrors, SaveCandidate, Mark, control, document
  <1>10. CASE UpdateMeReads(k)
    BY <1>10 DEF Frame, UpdateMeReads, GetOrThrow, control, document
  <1>11. CASE UpdateMeSaves(k)
    BY <1>11 DEF Frame, UpdateMeSaves, SaveCandidate, Mark, control, document
  <1>12. CASE RequestUploadReads(k)
    BY <1>12 DEF Frame, RequestUploadReads, GetOrThrow, control, document
  <1>13. CASE RequestUploadSaves(k)
    BY <1>13 DEF Frame, RequestUploadSaves, SaveCandidate, Mark, control, document
  <1>14. CASE CompleteReads(k)
    BY <1>14 DEF Frame, CompleteReads, OnlyRequests, control, document
  <1>15. CASE CompleteChecksFile(k)
    BY <1>15 DEF Frame, CompleteChecksFile, control, document
  <1>16. CASE CompleteSaves(k)
    BY <1>16 DEF Frame, CompleteSaves, SaveCandidate, Mark, control, document
  <1>17. CASE CompleteRemovesOld(k)
    BY <1>17 DEF Frame, CompleteRemovesOld, control, document
  <1>18. CASE DeleteByManagerReads(k)
    BY <1>18 DEF Frame, DeleteByManagerReads, GetOrThrow, control, document
  <1>19. CASE DeleteLists(k)
    BY <1>19 DEF Frame, DeleteLists, OnlyRequests, control, document
  <1>20. CASE DeleteMany(k)
    BY <1>20 DEF Frame, DeleteMany, control, document
  <1>21. CASE DeleteFiles(k)
    BY <1>21 DEF Frame, DeleteFiles, control, document
  <1>22. CASE DeleteDoc(k)
    BY <1>22 DEF Frame, DeleteDoc, control, document
  <1>23. CASE DeleteAccount(k)
    BY <1>23 DEF Frame, DeleteAccount, control, document
  <1> QED
    BY <1>1, <1>2, <1>3, <1>4, <1>5, <1>6, <1>7, <1>8, <1>9, <1>10, <1>11, <1>12, <1>13, <1>14, <1>15, <1>16, <1>17, <1>18, <1>19, <1>20, <1>21, <1>22, <1>23 DEF CandidateHandle

\* So does what is done about jobs and applications.
LEMMA JobsKeepTheDocument ==
    ASSUME NEW k \in Clients, JobHandle(k)
    PROVE  Frame
PROOF
  <1>1. CASE UpdateJobReads(k)
    BY <1>1 DEF Frame, UpdateJobReads, OnlyRequests, control, document
  <1>2. CASE UpdateJobSaves(k)
    BY <1>2 DEF Frame, UpdateJobSaves, control, document
  <1>3. CASE RemoveJobReads(k)
    BY <1>3 DEF Frame, RemoveJobReads, OnlyRequests, control, document
  <1>4. CASE RemoveJobLists(k)
    BY <1>4 DEF Frame, RemoveJobLists, OnlyRequests, control, document
  <1>5. CASE RemoveJobDeletes(k)
    BY <1>5 DEF Frame, RemoveJobDeletes, control, document
  <1>6. CASE ApplyReadsJob(k)
    BY <1>6 DEF Frame, ApplyReadsJob, OnlyRequests, control, document
  <1>7. CASE ApplyReadsCandidate(k)
    BY <1>7 DEF Frame, ApplyReadsCandidate, GetOrThrow, control, document
  <1>8. CASE ApplyReadsTerms(k)
    BY <1>8 DEF Frame, ApplyReadsTerms, OnlyRequests, control, document
  <1>9. CASE ApplyReadsExisting(k)
    BY <1>9 DEF Frame, ApplyReadsExisting, OnlyRequests, control, document
  <1>10. CASE ApplySaves(k)
    BY <1>10 DEF Frame, ApplySaves, control, document
  <1>11. CASE WithdrawReads(k)
    BY <1>11 DEF Frame, WithdrawReads, OnlyRequests, control, document
  <1>12. CASE WithdrawDeletes(k)
    BY <1>12 DEF Frame, WithdrawDeletes, control, document
  <1>13. CASE UpdateStatusReads(k)
    BY <1>13 DEF Frame, UpdateStatusReads, OnlyRequests, control, document
  <1>14. CASE UpdateStatusSaves(k)
    BY <1>14 DEF Frame, UpdateStatusSaves, control, document
  <1> QED
    BY <1>1, <1>2, <1>3, <1>4, <1>5, <1>6, <1>7, <1>8, <1>9, <1>10, <1>11, <1>12, <1>13, <1>14 DEF JobHandle

\* And so does every new request.
LEMMA RequestsKeepTheDocument ==
    ASSUME NEW k \in Clients, Asks(k)
    PROVE  Frame
PROOF
  <1>1. CASE LegalAsks(k)
    BY <1>1, LegalRequestsKeepTheDocument
  <1>2. ASSUME NEW c \in Candidates, Signup(k, c) PROVE Frame
    BY <1>2 DEF Frame, Signup, Begin, control, document
  <1>3. ASSUME NEW c \in Candidates, Accept(k, c) PROVE Frame
    BY <1>3 DEF Frame, Accept, Begin, control, document
  <1>4. ASSUME NEW c \in Candidates, UpdateMe(k, c) PROVE Frame
    BY <1>4 DEF Frame, UpdateMe, Begin, control, document
  <1>5. ASSUME NEW c \in Candidates, CompleteUpload(k, c) PROVE Frame
    BY <1>5 DEF Frame, CompleteUpload, Begin, control, document
  <1>6. ASSUME NEW c \in Candidates, DeleteAll(k, c) PROVE Frame
    BY <1>6 DEF Frame, DeleteAll, Begin, control, document
  <1>7. ASSUME NEW c \in Candidates, DeleteByManager(k, c) PROVE Frame
    BY <1>7 DEF Frame, DeleteByManager, Begin, control, document
  <1>8. ASSUME NEW c \in Candidates, NEW r \in Resumes, RequestUpload(k, c, r) PROVE Frame
    BY <1>8 DEF Frame, RequestUpload, Begin, control, document
  <1>9. ASSUME NEW c \in Candidates, NEW j \in Jobs, Apply(k, c, j) PROVE Frame
    BY <1>9 DEF Frame, Apply, Begin, control, document
  <1>10. ASSUME NEW c \in Candidates, NEW j \in Jobs, Withdraw(k, c, j) PROVE Frame
    BY <1>10 DEF Frame, Withdraw, Begin, control, document
  <1>11. ASSUME NEW c \in Candidates, NEW j \in Jobs, UpdateStatus(k, c, j) PROVE Frame
    BY <1>11 DEF Frame, UpdateStatus, Begin, control, document
  <1>12. ASSUME NEW j \in Jobs, UpdateJob(k, j) PROVE Frame
    BY <1>12 DEF Frame, UpdateJob, Begin, control, document
  <1>13. ASSUME NEW j \in Jobs, RemoveJob(k, j) PROVE Frame
    BY <1>13 DEF Frame, RemoveJob, Begin, control, document
  <1> QED
    BY <1>1, <1>2, <1>3, <1>4, <1>5, <1>6, <1>7, <1>8, <1>9, <1>10, <1>11, <1>12, <1>13 DEF Asks
-----------------------------------------------------------------------------
(* The versions *)

\* The strengthening of HeaderNamesItsVersions: the seed writes version 1.0
\* without looking at the header again, and is refused because every published
\* document has that version.
VersionsInv ==
    /\ header \in [published : Versions, required : Versions]
    /\ DOMAIN versions \subseteq Versions
    /\ header.published = Unset => header.required = Unset
    /\ header.published # Unset => <<1, 0>> \in DOMAIN versions
    /\ HeaderNamesItsVersions

\* The step of VersionsAreKept.
Kept ==
    /\ \A v \in DOMAIN versions : v \in DOMAIN versions' /\ versions'[v] = versions[v]
    /\ ~Less(header'.published, header.published)
    /\ ~Less(header'.required, header.required)

LEMMA UnchangedKeeps ==
    ASSUME VersionsInv, UNCHANGED <<header, versions>>
    PROVE  VersionsInv' /\ Kept
PROOF
  <1>1. VersionsInv'
    BY DEF VersionsInv, HeaderNamesItsVersions
  <1>2. header.published \in Versions /\ header.required \in Versions
    BY DEF VersionsInv
  <1>3. Kept
    BY <1>2, LessIsIrreflexive DEF Kept
  <1> QED
    BY <1>1, <1>3

\* A transaction that creates a newer version keeps what was published.
LEMMA CommitKeeps ==
    ASSUME VersionsInv,
           NEW v \in Versions \ {Unset}, NEW required \in Versions, NEW entry,
           v \notin DOMAIN versions => Less(header.published, v),
           v \notin DOMAIN versions /\ header.published = Unset => v = <<1, 0>>,
           required = v \/ (required = header.required /\ header.published # Unset
                             /\ ~entry.requires),
           Commit(v, entry, required)
    PROVE  VersionsInv' /\ Kept
PROOF
  <1>1. CASE v \in DOMAIN versions
    <2>1. UNCHANGED <<header, versions>>
      BY <1>1 DEF Commit, document
    <2> QED
      BY <2>1, UnchangedKeeps
  <1>2. CASE v \notin DOMAIN versions
    <2>1. /\ DOMAIN versions' = DOMAIN versions \cup {v}
          /\ versions'[v] = entry
          /\ \A w \in DOMAIN versions : versions'[w] = versions[w]
          /\ header' = [published |-> v, required |-> required]
      BY <1>2 DEF Commit, Header
    <2>2. /\ header.published \in Versions /\ header.required \in Versions
          /\ Less(header.published, v)
          /\ header'.published = v /\ header'.required = required
          /\ DOMAIN versions \subseteq Versions
      BY <1>2, <2>1 DEF VersionsInv
    <2>3. ~Less(header.published, header.required)
      <3>1. CASE header.published = Unset
        BY <3>1, <2>2, LessIsIrreflexive DEF VersionsInv
      <3>2. CASE header.published # Unset
        BY <3>2 DEF VersionsInv, HeaderNamesItsVersions
      <3> QED
        BY <3>1, <3>2
    <2>4. Less(header.required, v)
      BY <2>2, <2>3, LessIsTransitive
    <2>5. Kept
      <3>1. ~Less(v, header.published) /\ ~Less(v, header.required)
            /\ ~Less(header.required, header.required)
        BY <2>2, <2>4, LessIsAsymmetric, LessIsIrreflexive
      <3> QED
        BY <2>1, <2>2, <3>1 DEF Kept
    <2>6. ASSUME NEW w \in DOMAIN versions'
          PROVE  /\ ~Less(v, w)
                 /\ versions'[w].requires => ~Less(required, w)
      <3>1. CASE w = v
        <4>1. ~Less(v, v)
          BY LessIsIrreflexive
        <4>2. versions'[w].requires => required = v
          BY <3>1, <2>1
        <4> QED
          BY <3>1, <4>1, <4>2
      <3>2. CASE w # v
        <4>1. w \in DOMAIN versions /\ w \in Versions /\ versions'[w] = versions[w]
          BY <2>1, <2>2, <2>6, <3>2
        <4>2. ~Less(header.published, w)
              /\ (versions[w].requires => ~Less(header.required, w))
          BY <4>1 DEF VersionsInv, HeaderNamesItsVersions
        <4>3. ~Less(v, w)
          BY <4>1, <4>2, <2>2, LessIsTransitive, LessIsAsymmetric
        <4> QED
          BY <4>1, <4>2, <4>3
      <3> QED
        BY <3>1, <3>2
    <2>7. HeaderNamesItsVersions'
      <3>1. {v, required} \subseteq DOMAIN versions'
        BY <2>1 DEF VersionsInv, HeaderNamesItsVersions
      <3> QED
        BY <2>2, <2>6, <3>1 DEF HeaderNamesItsVersions, Unset
    <2>8. <<1, 0>> \in DOMAIN versions'
      BY <1>2, <2>1 DEF VersionsInv
    <2>9. VersionsInv'
      BY <2>1, <2>2, <2>7, <2>8 DEF VersionsInv, Unset
    <2> QED
      BY <2>5, <2>9
  <1> QED
    BY <1>1, <1>2

LEMMA PublishKeeps ==
    ASSUME VersionsInv, NEW k \in Clients, PublishCommits(k)
    PROVE  VersionsInv' /\ Kept
PROOF
  <1> DEFINE first == header.published = Unset
             requires == first \/ requests[k].arg = "major"
             v == NextVersion(header.published, requires)
             entry == Version("draft", requires)
             required == Required(v, requires)
  <1>1. requires \in BOOLEAN /\ header.published \in Versions /\ header.required \in Versions
    BY DEF VersionsInv
  <1>2. v \in Versions \ {Unset} /\ Less(header.published, v)
    BY <1>1, NextIsNewer
  <1>3. header.published = Unset => v = <<1, 0>>
    BY DEF NextVersion
  <1>4. entry.requires = requires
    BY DEF Version
  <1>5. required = v \/ (required = header.required /\ ~requires)
    BY DEF Required
  <1>6. required = v \/ (required = header.required /\ header.published # Unset
                          /\ ~entry.requires)
    BY <1>4, <1>5
  <1>7. Commit(v, entry, required)
    BY DEF PublishCommits
  <1>8. required \in Versions
    BY <1>1, <1>2, <1>5
  <1> HIDE DEF v, entry, required, requires, first
  <1> QED
    BY <1>2, <1>3, <1>6, <1>7, <1>8, CommitKeeps

LEMMA SeedKeeps ==
    ASSUME VersionsInv, NEW k \in Clients, SeedCommits(k)
    PROVE  VersionsInv' /\ Kept
PROOF
  <1>1. <<1, 0>> \in Versions \ {Unset} /\ Less(Unset, <<1, 0>>)
    BY DEF Versions, Unset, Less
  <1>2. <<1, 0>> \notin DOMAIN versions => header.published = Unset
    BY DEF VersionsInv
  <1>3. Commit(<<1, 0>>, Version("seed", TRUE), <<1, 0>>)
    BY DEF SeedCommits
  <1> QED
    BY <1>1, <1>2, <1>3, CommitKeeps

-----------------------------------------------------------------------------
(* Every step *)

\* A step publishes, seeds, writes the draft, or leaves the document alone.
LEMMA StepKinds ==
    ASSUME RecruitmentNext
    PROVE  \/ Frame
           \/ \E k \in Clients : PublishCommits(k) \/ SeedCommits(k) \/ SaveDraftSaves(k)
           \/ DiscardDraft
PROOF
  <1>1. ASSUME NEW k \in Clients, Asks(k)
        PROVE  Frame
    BY <1>1, RequestsKeepTheDocument
  <1>2. ASSUME NEW k \in Clients, Handle(k)
        PROVE  Frame \/ PublishCommits(k) \/ SeedCommits(k) \/ SaveDraftSaves(k)
    <2>1. CASE LegalHandle(k)
      <3>1. CASE SaveDraftReads(k)
        BY <3>1 DEF Frame, SaveDraftReads, control, document
      <3>2. CASE SaveDraftReadsHeader(k)
        BY <3>2 DEF Frame, SaveDraftReadsHeader, control, document
      <3>3. CASE PublishReadsDraft(k)
        BY <3>3 DEF Frame, PublishReadsDraft, control, document
      <3>4. CASE SeedReadsHeader(k)
        BY <3>4 DEF Frame, SeedReadsHeader, control, document
      <3> QED
        BY <2>1, <3>1, <3>2, <3>3, <3>4 DEF LegalHandle
    <2>2. CASE CandidateHandle(k)
      BY <2>2, CandidatesKeepTheDocument
    <2>3. CASE JobHandle(k)
      BY <2>3, JobsKeepTheDocument
    <2> QED
      BY <1>2, <2>1, <2>2, <2>3 DEF Handle
  <1>3. ASSUME NEW k \in Clients, Stop(k)
        PROVE  Frame
    BY <1>3 DEF Frame, Stop, document
  <1>4. ASSUME NEW c \in Candidates, NEW r \in Resumes, NEW content \in {"ok", "bad"},
               FileArrives(c, r, content)
        PROVE  Frame
    BY <1>4 DEF Frame, FileArrives, Mark, document
  <1>5. ASSUME NEW j \in Jobs, CreateJob(j)
        PROVE  Frame
    BY <1>5 DEF Frame, CreateJob, control, document
  <1> QED
    BY <1>1, <1>2, <1>3, <1>4, <1>5 DEF RecruitmentNext

LEMMA StepKeeps ==
    ASSUME VersionsInv, [RecruitmentNext]_vars
    PROVE  VersionsInv' /\ Kept
PROOF
  <1>1. CASE RecruitmentNext
    <2>1. CASE Frame
      BY <2>1, UnchangedKeeps DEF Frame, document
    <2>2. ASSUME NEW k \in Clients, PublishCommits(k)
          PROVE  VersionsInv' /\ Kept
      BY <2>2, PublishKeeps
    <2>3. ASSUME NEW k \in Clients, SeedCommits(k)
          PROVE  VersionsInv' /\ Kept
      BY <2>3, SeedKeeps
    <2>4. ASSUME NEW k \in Clients, SaveDraftSaves(k)
          PROVE  VersionsInv' /\ Kept
      BY <2>4, UnchangedKeeps DEF SaveDraftSaves
    <2>5. CASE DiscardDraft
      BY <2>5, UnchangedKeeps DEF DiscardDraft
    <2> QED
      BY <1>1, <2>1, <2>2, <2>3, <2>4, <2>5, StepKinds
  <1>2. CASE UNCHANGED vars
    BY <1>2, UnchangedKeeps DEF vars, document
  <1> QED
    BY <1>1, <1>2

LEMMA InitGivesVersions ==
    ASSUME RecruitmentInit
    PROVE  VersionsInv
PROOF
  <1>1. CASE header = Header(Unset, Unset) /\ versions = [v \in {} |-> Version("seed", TRUE)]
    <2>1. /\ DOMAIN versions = {}
          /\ header = [published |-> Unset, required |-> Unset]
          /\ Unset \in Versions
      BY <1>1 DEF Header, Unset, Versions
    <2> QED
      BY <2>1 DEF VersionsInv, HeaderNamesItsVersions
  <1>2. CASE /\ header = Header(<<1, 0>>, <<1, 0>>)
             /\ versions = [v \in {<<1, 0>>} |-> Version("seed", TRUE)]
    <2>1. /\ DOMAIN versions = {<<1, 0>>}
          /\ header.published = <<1, 0>> /\ header.required = <<1, 0>>
          /\ header = [published |-> <<1, 0>>, required |-> <<1, 0>>]
      BY <1>2 DEF Header
    <2>2. <<1, 0>> \in Versions /\ <<1, 0>> # Unset /\ ~Less(<<1, 0>>, <<1, 0>>)
      BY DEF Versions, Unset, Less
    <2> QED
      BY <2>1, <2>2 DEF VersionsInv, HeaderNamesItsVersions
  <1>3. CASE /\ header = Header(<<1, 1>>, <<1, 0>>)
             /\ versions = [v \in {<<1, 0>>, <<1, 1>>} |-> Version("draft", v = <<1, 0>>)]
    <2>1. /\ DOMAIN versions = {<<1, 0>>, <<1, 1>>}
          /\ ~versions[<<1, 1>>].requires
          /\ header.published = <<1, 1>> /\ header.required = <<1, 0>>
          /\ header = [published |-> <<1, 1>>, required |-> <<1, 0>>]
      <3>1. <<1, 1>> # <<1, 0>>
        OBVIOUS
      <3> QED
        BY <1>3, <3>1 DEF Version, Header
    <2>2. {<<1, 0>>, <<1, 1>>} \subseteq Versions /\ <<1, 1>> # Unset
      BY DEF Versions, Unset
    <2>3. ASSUME NEW v \in DOMAIN versions
          PROVE  ~Less(header.published, v) /\ (versions[v].requires => ~Less(header.required, v))
      BY <2>1, <2>3 DEF Less
    <2> QED
      BY <2>1, <2>2, <2>3 DEF VersionsInv, HeaderNamesItsVersions
  <1> QED
    BY <1>1, <1>2, <1>3 DEF RecruitmentInit, LegalInit

\* The header names the newest version and requires the last that asked for a
\* new acceptance, whatever publications and seeds overlap.
THEOREM TheHeaderNamesItsVersions == RecruitmentSpec => []HeaderNamesItsVersions
PROOF
  <1>1. RecruitmentInit => VersionsInv
    BY InitGivesVersions
  <1>2. VersionsInv /\ [RecruitmentNext]_vars => VersionsInv'
    BY StepKeeps
  <1>3. VersionsInv => HeaderNamesItsVersions
    BY DEF VersionsInv
  <1> QED
    BY <1>1, <1>2, <1>3, PTL DEF RecruitmentSpec

\* What was published is never changed, removed or taken back.
THEOREM TheVersionsAreKept == RecruitmentSpec => VersionsAreKept
PROOF
  <1>1. RecruitmentInit => VersionsInv
    BY InitGivesVersions
  <1>2. VersionsInv /\ [RecruitmentNext]_vars => VersionsInv'
    BY StepKeeps
  <1>3. VersionsInv /\ [RecruitmentNext]_vars => [Kept]_vars
    BY StepKeeps
  <1>4. [Kept]_vars <=> [ /\ \A v \in DOMAIN versions : v \in DOMAIN versions' /\ versions'[v] = versions[v]
                          /\ ~Less(header'.published, header.published)
                          /\ ~Less(header'.required, header.required) ]_vars
    BY DEF Kept
  <1> QED
    BY <1>1, <1>2, <1>3, <1>4, PTL DEF RecruitmentSpec, VersionsAreKept

\* A draft starts from the version in force unless its save was overtaken: the
\* transaction that publishes deletes the draft with the same commit.
THEOREM TheDraftIsOfTheCurrentText == RecruitmentSpec => []DraftIsOfTheCurrentText
PROOF
  <1>1. RecruitmentInit => DraftIsOfTheCurrentText
    BY DEF RecruitmentInit, LegalInit, DraftIsOfTheCurrentText
  <1>2. ASSUME DraftIsOfTheCurrentText, [RecruitmentNext]_vars
        PROVE  DraftIsOfTheCurrentText'
    <2>1. CASE Frame
      BY <1>2, <2>1 DEF Frame, DraftIsOfTheCurrentText, document
    <2>2. ASSUME NEW k \in Clients, PublishCommits(k)
          PROVE  DraftIsOfTheCurrentText'
      BY <1>2, <2>2 DEF PublishCommits, Commit, DraftIsOfTheCurrentText, document, control
    <2>3. ASSUME NEW k \in Clients, SeedCommits(k)
          PROVE  DraftIsOfTheCurrentText'
      BY <1>2, <2>3 DEF SeedCommits, Commit, DraftIsOfTheCurrentText, document, control
    <2>4. ASSUME NEW k \in Clients, SaveDraftSaves(k)
          PROVE  DraftIsOfTheCurrentText'
      BY <1>2, <2>4 DEF SaveDraftSaves, Mark, DraftIsOfTheCurrentText
    <2>5. CASE DiscardDraft
      BY <1>2, <2>5 DEF DiscardDraft, DraftIsOfTheCurrentText
    <2>6. CASE UNCHANGED vars
      BY <1>2, <2>6 DEF vars, document, control, DraftIsOfTheCurrentText
    <2> QED
      BY <1>2, <2>1, <2>2, <2>3, <2>4, <2>5, <2>6, StepKinds
  <1> QED
    BY <1>1, <1>2, PTL DEF RecruitmentSpec

\* Publications, seeds and drafts that overlap leave one text in force: the
\* newest, required since the last that asked for it, with a draft made of it.
THEOREM OneTextIsInForce == RecruitmentSpec => []PublicationsAgree
PROOF
  <1>1. PublicationsAgree <=> HeaderNamesItsVersions /\ DraftIsOfTheCurrentText
    BY DEF PublicationsAgree
  <1> QED
    BY <1>1, TheHeaderNamesItsVersions, TheDraftIsOfTheCurrentText, PTL

-----------------------------------------------------------------------------
(* The requests, and what the stores hold *)

FileStates == {"unused", "awaited", "ok", "bad", "gone"}

\* The operations of one candidate.
CandidateOps == {"signup", "accept", "update", "upload", "complete", "delete",
                 "apply", "withdraw", "status"}

\* The steps at which something is recorded for the candidate.
Recording == {"record", "mirror", "consent"}

IsRequest(r) ==
    r = [op |-> r.op, pc |-> r.pc, who |-> r.who, arg |-> r.arg, copy |-> r.copy, got |-> r.got]
IsCandidate(d) == d = Candidate(d.consent, d.resume, d.pending)
IsApplication(d) == d = Application(d.status, d.under)

RequestsOK ==
    /\ requests = [k \in Clients |-> requests[k]]
    /\ \A k \in Clients : IsRequest(requests[k])

StoresOK ==
    /\ accounts \in [Candidates -> {"new", "live", "deleted"}]
    /\ candidates = [c \in Candidates |-> candidates[c]]
    /\ files \in [Candidates -> [Resumes -> FileStates]]
    /\ jobs \in [Jobs -> {"none", "open", "closed"}]
    /\ applications = [a \in Jobs \X Candidates |-> applications[a]]

\* A request that remembers the document of its candidate.
Remembers(k) ==
    \/ requests[k].op \in {"update", "upload"} /\ requests[k].pc = "save"
    \/ requests[k].op = "complete" /\ requests[k].pc \in {"info", "save", "old"}
    \/ requests[k].op = "apply" /\ requests[k].pc = "terms"
    \/ requests[k].pc = "consent"

\* What a request knows of itself and of its copy.
RequestOK(k) ==
    /\ requests[k].op \in CandidateOps => requests[k].who \in Candidates
    /\ requests[k].op \in {"apply", "withdraw", "status"} => requests[k].arg \in Jobs
    /\ requests[k].pc \in Recording => requests[k].op \in {"signup", "accept"}
    /\ requests[k].pc = "batch" => requests[k].op \in {"delete", "remove"}
    /\ Remembers(k) => requests[k].copy # NoDoc /\ IsCandidate(requests[k].copy)
    /\ At(k, "status", "save") => requests[k].copy # NoDoc /\ IsApplication(requests[k].copy)

ShapeInv ==
    /\ RequestsOK /\ StoresOK
    /\ \A k \in Clients : RequestOK(k)
    /\ \A c \in Candidates : candidates[c] # NoDoc => IsCandidate(candidates[c])
    /\ \A a \in Jobs \X Candidates : applications[a] # NoDoc => IsApplication(applications[a])

-----------------------------------------------------------------------------
(* The consent of a candidate *)

\* A signup that will still record the version it finds, or one no older.
Backing(k, c, u) ==
    /\ requests[k].op = "signup" /\ requests[k].who = c
    /\ \/ requests[k].pc \in {"published", "header"}
       \/ requests[k].pc = "record" /\ ~Less(requests[k].got, u)

\* The proof of a consent to version u is on record, or on its way.
Backed(c, u) ==
    \/ u = Unset \/ c \in cut
    \/ \E v \in Versions : <<c, v>> \in acceptances /\ ~Less(v, u)
    \/ \E k \in Clients : Backing(k, c, u)

\* A consent a document or a copy may state.
Held(c, u) == u \in Versions /\ ~Less(header.published, u) /\ Backed(c, u)

\* A request that will still write version v, or one no older, into the
\* document of the candidate.
Covering(k, c, v) ==
    /\ requests[k].who = c /\ requests[k].op \in {"signup", "accept"}
    /\ \/ requests[k].pc \in {"published", "header"}
       \/ requests[k].pc \in Recording /\ ~Less(requests[k].got, v)

\* What is on record reached the document, or will.
Forward(c) ==
    c \notin outdated \cup cut /\ candidates[c] # NoDoc =>
        \A v \in Versions : <<c, v>> \in acceptances =>
            \/ ~Less(candidates[c].consent, v)
            \/ \E k \in Clients : Covering(k, c, v)

RequestHolds(k) ==
    /\ Remembers(k) => Held(requests[k].who, requests[k].copy.consent)
    /\ requests[k].op = "apply" /\ requests[k].pc \in {"existing", "save"} =>
          Held(requests[k].who, requests[k].got)
    /\ At(k, "signup", "save") =>
          requests[k].got \in Versions /\ ~Less(header.published, requests[k].got)
    /\ At(k, "status", "save") => Held(requests[k].who, requests[k].copy.under)
    /\ requests[k].pc \in Recording => requests[k].got \in DOMAIN versions
    /\ requests[k].pc \in {"mirror", "consent"} =>
          <<requests[k].who, requests[k].got>> \in acceptances

AcceptancesOK == \A a \in acceptances : a = <<a[1], a[2]>> /\ a[2] \in DOMAIN versions

CandidateHeld(c) == candidates[c] # NoDoc => Held(c, candidates[c].consent)

ApplicationHeld(a) == applications[a] # NoDoc => Held(a[2], applications[a].under)

ConsentInv ==
    /\ AcceptancesOK
    /\ \A k \in Clients : RequestHolds(k)
    /\ \A c \in Candidates : CandidateHeld(c) /\ Forward(c)
    /\ \A a \in Jobs \X Candidates : ApplicationHeld(a)

-----------------------------------------------------------------------------
(* What belongs to a candidate *)

\* The storage has been told of the file.
Used(c, r) == r = NoFile \/ (r \in Resumes /\ files[c][r] # "unused")

\* A file is there unless a deletion is taking, or took, all of them.
FileThere(c, r) ==
    \/ files[c][r] = "ok"
    \/ \E k \in Clients : At(k, "delete", "doc") /\ requests[k].who = c
    \/ WithoutFiles(c) \in cut

NoFilesOf(c) == \A r \in Resumes : files[c][r] \notin {"ok", "bad"}

\* Nothing of the person is left, but what was saved from an old reading.
Empty(c) ==
    c \in outdated \/ (candidates[c] = NoDoc /\ ApplicationsOf(c) = {} /\ NoFilesOf(c))

\* A signup that has not saved the candidate yet.
Early(k) == requests[k].op = "signup" /\ requests[k].pc \in {"account", "terms", "save", "undo"}

ResumeKept(c) ==
    candidates[c] # NoDoc =>
        /\ Used(c, candidates[c].resume) /\ Used(c, candidates[c].pending)
        /\ c \notin outdated /\ candidates[c].resume # NoFile => FileThere(c, candidates[c].resume)

AccountKept(c) ==
    /\ accounts[c] = "new" => Empty(c)
    /\ accounts[c] = "deleted" => Empty(c) \/ c \in cut

\* What an upload and its completion rely on.
FilesKept(k) ==
    LET c == requests[k].who  copy == requests[k].copy  doc == candidates[c] IN
    /\ requests[k].op = "upload" => requests[k].arg \in Resumes /\ files[c][requests[k].arg] = "unused"
    /\ Remembers(k) => Used(c, copy.resume) /\ Used(c, copy.pending)
    /\ requests[k].op = "complete" /\ requests[k].pc \in {"info", "save"} => copy.pending # NoFile
    /\ At(k, "complete", "save") /\ requests[k].got = "taken" /\ c \notin outdated
       /\ doc # NoDoc /\ doc.pending = copy.pending => FileThere(c, copy.pending)
    /\ At(k, "complete", "old") => copy.resume # NoFile
    /\ At(k, "complete", "old") /\ c \notin outdated /\ doc # NoDoc =>
          copy.resume \notin {doc.resume, doc.pending}

\* What a signup and a deletion rely on.
DeletionKept(k) ==
    /\ Early(k) => Empty(requests[k].who)
    /\ requests[k].op = "signup" /\ requests[k].pc \in {"terms", "save", "undo"} =>
          accounts[requests[k].who] # "new"
    /\ At(k, "delete", "doc") =>
          requests[k].who \in outdated \cup cut \/ NoFilesOf(requests[k].who)
    /\ At(k, "delete", "account") => requests[k].who \in cut \/ Empty(requests[k].who)

\* Two signups are of two candidates, two uploads of two files.
Distinct(i, k) ==
    /\ requests[i].op = "signup" /\ requests[k].op = "signup" => requests[i].who # requests[k].who
    /\ requests[i].op = "upload" /\ requests[k].op = "upload" => requests[i].arg # requests[k].arg

BelongInv ==
    /\ \A c \in Candidates : ResumeKept(c) /\ AccountKept(c)
    /\ \A k \in Clients : FilesKept(k) /\ DeletionKept(k)
    /\ \A k \in Clients : \A i \in Clients \ {k} : Distinct(i, k)

ApplicationKept(a) ==
    applications[a] # NoDoc /\ a \notin outdated =>
        candidates[a[2]] # NoDoc /\ jobs[a[1]] # "none"

\* The deletion of a list leaves none of it.
ListGone(k) ==
    requests[k].pc \in {"files", "doc", "job"} =>
        \A a \in Jobs \X Candidates : a \in requests[k].got =>
            applications[a] = NoDoc \/ (a \in outdated /\ a[2] \in outdated)

EndsInv ==
    /\ \A a \in Jobs \X Candidates : ApplicationKept(a)
    /\ \A k \in Clients : ListGone(k)

-----------------------------------------------------------------------------
(* How a request moves *)

OthersStay(k) == RequestsOK' /\ \A i \in Clients \ {k} : requests'[i] = requests[i]

Ended(k) == OthersStay(k) /\ requests'[k] = Idle

Moved(k, op, pc, who, arg, copy, got) ==
    /\ OthersStay(k)
    /\ requests'[k].op = op /\ requests'[k].pc = pc /\ requests'[k].who = who
    /\ requests'[k].arg = arg /\ requests'[k].copy = copy /\ requests'[k].got = got

Went(k, pc, got) ==
    Moved(k, requests[k].op, pc, requests[k].who, requests[k].arg, requests[k].copy, got)
Recalled(k, pc, copy) ==
    Moved(k, requests[k].op, pc, requests[k].who, requests[k].arg, copy, requests[k].got)
Began(k, op, pc, who, arg) ==
    /\ requests[k] = Idle
    /\ Moved(k, op, pc, who, arg, NoDoc, NoArg)
    /\ UNCHANGED <<document, stops, outdated, cut>>

LEMMA EndMoves ==
    ASSUME RequestsOK, NEW k \in Clients, End(k)
    PROVE  Ended(k)
PROOF BY DEF RequestsOK, End, Ended, OthersStay, Idle, IsRequest

LEMMA ProceedMoves ==
    ASSUME RequestsOK, NEW k \in Clients, NEW pc, NEW got, Proceed(k, pc, got)
    PROVE  Went(k, pc, got)
PROOF
  <1>1. IsRequest(requests[k])
    BY DEF RequestsOK
  <1>2. /\ requests' = [i \in Clients |-> requests'[i]]
        /\ \A i \in Clients \ {k} : requests'[i] = requests[i]
        /\ requests'[k] = [[requests[k] EXCEPT !.pc = pc] EXCEPT !.got = got]
    BY DEF RequestsOK, Proceed
  <1>3. requests'[k] = [op |-> requests[k].op, pc |-> pc, who |-> requests[k].who,
                        arg |-> requests[k].arg, copy |-> requests[k].copy, got |-> got]
    BY <1>1, <1>2 DEF IsRequest
  <1>4. IsRequest(requests'[k])
    BY <1>3 DEF IsRequest
  <1>5. RequestsOK'
    BY <1>2, <1>4 DEF RequestsOK
  <1> QED
    BY <1>2, <1>3, <1>5 DEF Went, Moved, OthersStay

LEMMA RememberMoves ==
    ASSUME RequestsOK, NEW k \in Clients, NEW pc, NEW copy, Remember(k, pc, copy)
    PROVE  Recalled(k, pc, copy)
PROOF
  <1>1. IsRequest(requests[k])
    BY DEF RequestsOK
  <1>2. /\ requests' = [i \in Clients |-> requests'[i]]
        /\ \A i \in Clients \ {k} : requests'[i] = requests[i]
        /\ requests'[k] = [[requests[k] EXCEPT !.pc = pc] EXCEPT !.copy = copy]
    BY DEF RequestsOK, Remember
  <1>3. requests'[k] = [op |-> requests[k].op, pc |-> pc, who |-> requests[k].who,
                        arg |-> requests[k].arg, copy |-> copy, got |-> requests[k].got]
    BY <1>1, <1>2 DEF IsRequest
  <1>4. IsRequest(requests'[k])
    BY <1>3 DEF IsRequest
  <1>5. RequestsOK'
    BY <1>2, <1>4 DEF RequestsOK
  <1> QED
    BY <1>2, <1>3, <1>5 DEF Recalled, Moved, OthersStay

LEMMA BeginMoves ==
    ASSUME RequestsOK, NEW k \in Clients, NEW op, NEW pc, NEW who, NEW arg,
           Begin(k, Request(op, pc, who, arg))
    PROVE  Began(k, op, pc, who, arg)
PROOF
  <1>1. Request(op, pc, who, arg) =
          [op |-> op, pc |-> pc, who |-> who, arg |-> arg, copy |-> NoDoc, got |-> NoArg]
    <2> DEFINE a == [Idle EXCEPT !.op = op]
               b == [a EXCEPT !.pc = pc]
               c == [b EXCEPT !.who = who]
    <2>1. a = [op |-> op, pc |-> "none", who |-> NoOne, arg |-> NoArg,
               copy |-> NoDoc, got |-> NoArg]
      BY DEF Idle
    <2> HIDE DEF a
    <2>2. b = [op |-> op, pc |-> pc, who |-> NoOne, arg |-> NoArg,
               copy |-> NoDoc, got |-> NoArg]
      BY <2>1
    <2> HIDE DEF b
    <2>3. c = [op |-> op, pc |-> pc, who |-> who, arg |-> NoArg,
               copy |-> NoDoc, got |-> NoArg]
      BY <2>2
    <2>4. Request(op, pc, who, arg) = [c EXCEPT !.arg = arg]
      BY DEF Request, a, b
    <2> QED
      BY <2>3, <2>4
  <1>2. /\ requests' = [requests EXCEPT ![k] = Request(op, pc, who, arg)]
        /\ requests[k] = Idle /\ UNCHANGED <<document, stops, outdated, cut>>
    BY DEF Begin
  <1> QED
    BY <1>1, <1>2 DEF RequestsOK, IsRequest, Began, Moved, OthersStay

-----------------------------------------------------------------------------
(* The shape of requests and documents *)

StoresSame == UNCHANGED <<people, vacancies>>

LEMMA ShapeMoves ==
    ASSUME ShapeInv, NEW k \in Clients, OthersStay(k), RequestOK(k)', StoresSame
    PROVE  ShapeInv'
PROOF
  <1>1. \A i \in Clients : RequestOK(i)'
    BY DEF OthersStay, RequestOK, ShapeInv, Remembers, At
  <1> QED
    BY <1>1 DEF ShapeInv, StoresOK, StoresSame, OthersStay, people, vacancies

LEMMA EndedOK ==
    ASSUME NEW k, Ended(k)
    PROVE  RequestOK(k)'
PROOF BY DEF Ended, RequestOK, Idle, Remembers, Recording, CandidateOps, At

LEMMA BeganOK ==
    ASSUME ShapeInv, NEW k \in Clients, NEW op, NEW pc, NEW who, NEW arg,
           Begin(k, Request(op, pc, who, arg)), StoresSame,
           op \in CandidateOps => who \in Candidates,
           op \in {"apply", "withdraw", "status"} => arg \in Jobs,
           pc \notin {"terms", "save", "info", "old", "batch"} \cup Recording
    PROVE  ShapeInv'
PROOF
  <1>1. Began(k, op, pc, who, arg)
    BY BeginMoves DEF ShapeInv
  <1>2. RequestOK(k)'
    BY <1>1 DEF Began, Moved, RequestOK, Remembers, Recording, At
  <1> QED
    BY <1>1, <1>2, ShapeMoves DEF Began, Moved

\* A new request knows who asks.
LEMMA AsksKeepShape ==
    ASSUME ShapeInv, NEW k \in Clients, Asks(k)
    PROVE  ShapeInv'
PROOF
  <1> USE DEF CandidateOps, Recording, StoresSame
  <1>1. CASE LegalAsks(k) /\ UNCHANGED <<people, vacancies>>
    BY <1>1, BeganOK DEF LegalAsks, SaveDraft, Seed, Publish
  <1>2. ASSUME NEW c \in Candidates, Signup(k, c) PROVE ShapeInv'
    BY <1>2, BeganOK DEF Signup
  <1>3. ASSUME NEW c \in Candidates, Accept(k, c) PROVE ShapeInv'
    BY <1>3, BeganOK DEF Accept
  <1>4. ASSUME NEW c \in Candidates, UpdateMe(k, c) PROVE ShapeInv'
    BY <1>4, BeganOK DEF UpdateMe
  <1>5. ASSUME NEW c \in Candidates, CompleteUpload(k, c) PROVE ShapeInv'
    BY <1>5, BeganOK DEF CompleteUpload
  <1>6. ASSUME NEW c \in Candidates, DeleteAll(k, c) PROVE ShapeInv'
    BY <1>6, BeganOK DEF DeleteAll
  <1>7. ASSUME NEW c \in Candidates, DeleteByManager(k, c) PROVE ShapeInv'
    BY <1>7, BeganOK DEF DeleteByManager
  <1>8. ASSUME NEW c \in Candidates, NEW r \in Resumes, RequestUpload(k, c, r) PROVE ShapeInv'
    BY <1>8, BeganOK DEF RequestUpload
  <1>9. ASSUME NEW c \in Candidates, NEW j \in Jobs, Apply(k, c, j) PROVE ShapeInv'
    BY <1>9, BeganOK DEF Apply
  <1>10. ASSUME NEW c \in Candidates, NEW j \in Jobs, Withdraw(k, c, j) PROVE ShapeInv'
    BY <1>10, BeganOK DEF Withdraw
  <1>11. ASSUME NEW c \in Candidates, NEW j \in Jobs, UpdateStatus(k, c, j) PROVE ShapeInv'
    BY <1>11, BeganOK DEF UpdateStatus
  <1>12. ASSUME NEW j \in Jobs, UpdateJob(k, j) PROVE ShapeInv'
    BY <1>12, BeganOK DEF UpdateJob
  <1>13. ASSUME NEW j \in Jobs, RemoveJob(k, j) PROVE ShapeInv'
    BY <1>13, BeganOK DEF RemoveJob
  <1> QED
    BY <1>1, <1>2, <1>3, <1>4, <1>5, <1>6, <1>7, <1>8, <1>9, <1>10, <1>11, <1>12, <1>13 DEF Asks

\* What a handler leaves of the request it serves.
LEMMA GetOrThrowMoves ==
    ASSUME RequestsOK, NEW k \in Clients, NEW op, NEW next, GetOrThrow(k, op, next)
    PROVE  /\ At(k, op, "get") /\ StoresSame /\ UNCHANGED <<document, control>>
           /\ \/ candidates[requests[k].who] = NoDoc /\ Ended(k)
              \/ /\ candidates[requests[k].who] # NoDoc
                 /\ Recalled(k, next, candidates[requests[k].who])
PROOF BY EndMoves, RememberMoves DEF GetOrThrow, StoresSame

LEMMA GetOrThrowKeepsShape ==
    ASSUME ShapeInv, NEW k \in Clients, NEW op, NEW next, GetOrThrow(k, op, next),
           op \in {"update", "upload", "delete", "apply"}, next \notin Recording \cup {"batch"}
    PROVE  ShapeInv'
PROOF
  <1>1. /\ At(k, op, "get") /\ StoresSame
        /\ \/ Ended(k)
           \/ /\ candidates[requests[k].who] # NoDoc
              /\ Recalled(k, next, candidates[requests[k].who])
    BY GetOrThrowMoves DEF ShapeInv
  <1>2. CASE Ended(k)
    BY <1>1, <1>2, EndedOK, ShapeMoves DEF Ended
  <1>3. CASE candidates[requests[k].who] # NoDoc /\ Recalled(k, next, candidates[requests[k].who])
    <2>1. requests[k].who \in Candidates /\ requests[k].op = op /\ RequestOK(k)
      BY <1>1 DEF ShapeInv, RequestOK, At, CandidateOps
    <2>2. IsCandidate(candidates[requests[k].who])
      BY <1>3, <2>1 DEF ShapeInv
    <2>3. op \notin {"status", "signup", "accept"}
      OBVIOUS
    <2>4. RequestOK(k)'
      BY <1>3, <2>1, <2>2, <2>3 DEF Recalled, Moved, RequestOK, Remembers, At, Recording
    <2> QED
      BY <1>1, <1>3, <2>4, ShapeMoves DEF Recalled, Moved
  <1> QED
    BY <1>1, <1>2, <1>3

\* A candidate is saved, from a copy or a signup.
LEMMA SaveCandidateShape ==
    ASSUME ShapeInv, NEW k \in Clients, NEW c, NEW doc, OthersStay(k), RequestOK(k)',
           IsCandidate(doc), candidates' = [candidates EXCEPT ![c] = doc],
           files' \in [Candidates -> [Resumes -> FileStates]],
           UNCHANGED <<accounts, vacancies>>
    PROVE  ShapeInv'
PROOF
  <1>1. \A i \in Clients : RequestOK(i)'
    BY DEF OthersStay, RequestOK, ShapeInv, Remembers, At
  <1>2. /\ candidates' = [d \in Candidates |-> candidates'[d]]
        /\ \A d \in Candidates : candidates'[d] = IF d = c THEN doc ELSE candidates[d]
    BY DEF ShapeInv, StoresOK
  <1>3. \A d \in Candidates : candidates'[d] # NoDoc => IsCandidate(candidates'[d])
    BY <1>2 DEF ShapeInv
  <1>4. StoresOK'
    BY <1>2 DEF ShapeInv, StoresOK, vacancies
  <1>5. \A a \in Jobs \X Candidates : applications'[a] # NoDoc => IsApplication(applications'[a])
    BY DEF ShapeInv, vacancies
  <1> QED
    BY <1>1, <1>3, <1>4, <1>5 DEF ShapeInv, OthersStay

\* The stores that hold no document of a candidate or an application change.
LEMMA OtherStoresShape ==
    ASSUME ShapeInv, NEW k \in Clients, OthersStay(k), RequestOK(k)', StoresOK',
           UNCHANGED <<candidates, applications>>
    PROVE  ShapeInv'
PROOF
  <1>1. \A i \in Clients : RequestOK(i)'
    BY DEF OthersStay, RequestOK, ShapeInv, Remembers, At
  <1> QED
    BY <1>1 DEF ShapeInv, OthersStay

\* An application is saved or taken away, and every other is the same.
LEMMA ApplicationsShape ==
    ASSUME ShapeInv, NEW k \in Clients, OthersStay(k), RequestOK(k)',
           UNCHANGED <<people, jobs>>,
           applications' = [a \in Jobs \X Candidates |-> applications'[a]],
           \A a \in Jobs \X Candidates :
              applications'[a] \in {applications[a], NoDoc} \/ IsApplication(applications'[a])
    PROVE  ShapeInv'
PROOF
  <1>1. \A i \in Clients : RequestOK(i)'
    BY DEF OthersStay, RequestOK, ShapeInv, Remembers, At
  <1>2. \A a \in Jobs \X Candidates : applications'[a] # NoDoc => IsApplication(applications'[a])
    BY DEF ShapeInv
  <1>3. /\ StoresOK' /\ \A c \in Candidates : candidates'[c] # NoDoc => IsCandidate(candidates'[c])
    BY DEF ShapeInv, StoresOK, people
  <1> QED
    BY <1>1, <1>2, <1>3 DEF ShapeInv, OthersStay

LEMMA CandidateIs ==
    ASSUME NEW u, NEW r, NEW s
    PROVE  /\ IsCandidate(Candidate(u, r, s))
           /\ Candidate(u, r, s).consent = u /\ Candidate(u, r, s).resume = r
           /\ Candidate(u, r, s).pending = s
PROOF BY DEF Candidate, IsCandidate

SameFiles(doc, copy) == doc.resume = copy.resume /\ doc.pending = copy.pending

LEMMA MirrorForms ==
    ASSUME NEW copy, IsCandidate(copy), NEW v
    PROVE  /\ IsCandidate(Mirror(copy, v)) /\ Mirror(copy, v).consent = v
           /\ SameFiles(Mirror(copy, v), copy)
PROOF
  <1> DEFINE a == copy.consent  b == copy.resume  d == copy.pending
  <1>1. copy = [consent |-> a, resume |-> b, pending |-> d]
    BY DEF IsCandidate, Candidate
  <1> HIDE DEF a, b, d
  <1>2. Mirror(copy, v) = Candidate(v, b, d)
    BY <1>1 DEF Candidate, Mirror
  <1> QED
    BY <1>2, CandidateIs DEF SameFiles, b, d

LEMMA PendingForms ==
    ASSUME NEW copy, IsCandidate(copy), NEW r
    PROVE  /\ IsCandidate([copy EXCEPT !.pending = r])
           /\ [copy EXCEPT !.pending = r].consent = copy.consent
           /\ [copy EXCEPT !.pending = r].resume = copy.resume
           /\ [copy EXCEPT !.pending = r].pending = r
PROOF
  <1> DEFINE a == copy.consent  b == copy.resume  d == copy.pending
  <1>1. copy = [consent |-> a, resume |-> b, pending |-> d]
    BY DEF IsCandidate, Candidate
  <1> HIDE DEF a, b, d
  <1>2. [copy EXCEPT !.pending = r] = Candidate(a, b, r)
    BY <1>1 DEF Candidate
  <1> QED
    BY <1>2, CandidateIs DEF a, b

\* What the completion of an upload leaves of the document.
Completed(copy, taken) ==
    [copy EXCEPT !.pending = NoFile, !.resume = IF taken THEN copy.pending ELSE @]

LEMMA CompletedForms ==
    ASSUME NEW copy, IsCandidate(copy), NEW taken
    PROVE  /\ IsCandidate(Completed(copy, taken))
           /\ Completed(copy, taken).consent = copy.consent
           /\ Completed(copy, taken).pending = NoFile
           /\ Completed(copy, taken).resume = IF taken THEN copy.pending ELSE copy.resume
PROOF
  <1> DEFINE a == copy.consent  b == copy.resume  d == copy.pending
             e == [copy EXCEPT !.pending = NoFile]
             new == IF taken THEN d ELSE b
  <1>1. copy = [consent |-> a, resume |-> b, pending |-> d]
    BY DEF IsCandidate, Candidate
  <1>2. Completed(copy, taken) = [e EXCEPT !.resume = IF taken THEN d ELSE @]
    BY DEF Completed
  <1> HIDE DEF a, b, d
  <1>3. e = [consent |-> a, resume |-> b, pending |-> NoFile]
    BY <1>1
  <1> HIDE DEF e
  <1>4. Completed(copy, taken) = Candidate(a, new, NoFile)
    BY <1>2, <1>3 DEF Candidate
  <1> HIDE DEF new
  <1>5. /\ IsCandidate(Completed(copy, taken)) /\ Completed(copy, taken).consent = a
        /\ Completed(copy, taken).pending = NoFile /\ Completed(copy, taken).resume = new
    BY <1>4, CandidateIs
  <1> QED
    BY <1>5 DEF a, b, d, new

LEMMA ApplicationForms ==
    ASSUME NEW copy, IsApplication(copy), NEW s
    PROVE  /\ IsApplication([copy EXCEPT !.status = s])
           /\ [copy EXCEPT !.status = s].under = copy.under
PROOF
  <1>1. copy = [status |-> copy.status, under |-> copy.under]
    BY DEF IsApplication, Application
  <1> QED
    BY <1>1 DEF IsApplication, Application

\* Handlers of the legal documents.
LEMMA LegalKeepsShape ==
    ASSUME ShapeInv, NEW k \in Clients, LegalHandle(k), StoresSame
    PROVE  ShapeInv'
PROOF
  <1>1. ASSUME Ended(k) PROVE ShapeInv'
    BY <1>1, EndedOK, ShapeMoves DEF Ended
  <1>2. ASSUME NEW pc, NEW got, Went(k, pc, got), requests[k].op \in {"draft", "publish", "seed"},
               pc \in {"save", "header", "commit"}
        PROVE  ShapeInv'
    BY <1>2, ShapeMoves DEF Went, Moved, RequestOK, Remembers, At, Recording, CandidateOps
  <1>3. CASE SaveDraftReads(k)
    BY <1>2, <1>3, ProceedMoves DEF SaveDraftReads, At, ShapeInv
  <1>4. CASE SaveDraftReadsHeader(k)
    BY <1>2, <1>4, ProceedMoves DEF SaveDraftReadsHeader, At, ShapeInv
  <1>5. CASE SaveDraftSaves(k)
    BY <1>1, <1>5, EndMoves DEF SaveDraftSaves, ShapeInv
  <1>6. CASE PublishReadsDraft(k)
    BY <1>1, <1>2, <1>6, EndMoves, ProceedMoves DEF PublishReadsDraft, At, ShapeInv
  <1>7. CASE PublishCommits(k)
    BY <1>1, <1>7, EndMoves DEF PublishCommits, ShapeInv
  <1>8. CASE SeedReadsHeader(k)
    BY <1>1, <1>2, <1>8, EndMoves, ProceedMoves DEF SeedReadsHeader, At, ShapeInv
  <1>9. CASE SeedCommits(k)
    BY <1>1, <1>9, EndMoves DEF SeedCommits, ShapeInv
  <1> QED
    BY <1>3, <1>4, <1>5, <1>6, <1>7, <1>8, <1>9 DEF LegalHandle

\* Signing up and accepting.
LEMMA ConsentKeepsShape ==
    ASSUME ShapeInv, NEW k \in Clients,
           \/ SignupCreatesAccount(k) \/ SignupReadsTerms(k) \/ SignupSaves(k) \/ SignupUndoes(k)
           \/ SignupReadsPublished(k)
           \/ AcceptReadsHeader(k) \/ AcceptRecords(k) \/ AcceptReadsCandidate(k) \/ AcceptMirrors(k)
    PROVE  ShapeInv'
PROOF
  <1> USE DEF StoresSame
  <1>1. RequestsOK /\ StoresOK /\ RequestOK(k)
    BY DEF ShapeInv
  <1>2. ASSUME Ended(k), StoresSame PROVE ShapeInv'
    BY <1>2, EndedOK, ShapeMoves DEF Ended
  <1>3. ASSUME NEW pc, NEW got, Went(k, pc, got), requests[k].op \in {"signup", "accept"},
               pc \notin {"consent", "batch"}
        PROVE  OthersStay(k) /\ RequestOK(k)'
    BY <1>1, <1>3 DEF Went, Moved, RequestOK, Remembers, At, Recording, CandidateOps
  <1>4. CASE SignupCreatesAccount(k)
    <2>1. OthersStay(k) /\ RequestOK(k)'
      BY <1>1, <1>3, <1>4, ProceedMoves DEF SignupCreatesAccount, At
    <2>2. accounts' \in [Candidates -> {"new", "live", "deleted"}]
      BY <1>1, <1>4 DEF SignupCreatesAccount, StoresOK
    <2>3. StoresOK'
      BY <1>1, <1>4, <2>2 DEF SignupCreatesAccount, StoresOK, vacancies
    <2> QED
      BY <1>4, <2>1, <2>3, OtherStoresShape DEF SignupCreatesAccount, vacancies
  <1>5. CASE SignupReadsTerms(k)
    BY <1>1, <1>2, <1>3, <1>5, ProceedMoves, EndMoves, ShapeMoves DEF SignupReadsTerms, At
  <1>6. CASE SignupSaves(k)
    <2>1. OthersStay(k) /\ RequestOK(k)'
      BY <1>1, <1>3, <1>6, ProceedMoves DEF SignupSaves, At
    <2>2. CASE UNCHANGED candidates
      BY <1>6, <2>1, <2>2, ShapeMoves DEF SignupSaves, people
    <2>3. CASE candidates' = [candidates EXCEPT ![requests[k].who] =
                                Candidate(requests[k].got, NoFile, NoFile)]
      <3>1. IsCandidate(Candidate(requests[k].got, NoFile, NoFile))
        BY CandidateIs
      <3>2. UNCHANGED <<accounts, files, vacancies>>
        BY <1>6 DEF SignupSaves
      <3>3. files' \in [Candidates -> [Resumes -> FileStates]]
        BY <1>1, <3>2 DEF StoresOK
      <3> QED
        BY <2>1, <2>3, <3>1, <3>2, <3>3, SaveCandidateShape
    <2> QED
      BY <1>6, <2>2, <2>3 DEF SignupSaves, SaveCandidate
  <1>7. CASE SignupUndoes(k)
    <2>1. OthersStay(k) /\ RequestOK(k)'
      BY <1>1, <1>7, EndMoves, EndedOK DEF SignupUndoes, Ended
    <2>2. accounts' \in [Candidates -> {"new", "live", "deleted"}]
      BY <1>1, <1>7 DEF SignupUndoes, StoresOK
    <2>3. StoresOK'
      BY <1>1, <1>7, <2>2 DEF SignupUndoes, StoresOK, vacancies
    <2> QED
      BY <1>7, <2>1, <2>3, OtherStoresShape DEF SignupUndoes, vacancies
  <1>8. CASE SignupReadsPublished(k)
    BY <1>1, <1>2, <1>3, <1>8, ProceedMoves, EndMoves, ShapeMoves
       DEF SignupReadsPublished, OnlyRequests, At
  <1>9. CASE AcceptReadsHeader(k)
    BY <1>1, <1>2, <1>3, <1>9, ProceedMoves, EndMoves, ShapeMoves
       DEF AcceptReadsHeader, OnlyRequests
  <1>10. CASE AcceptRecords(k)
    <2>1. requests[k].op \in {"signup", "accept"}
      BY <1>1, <1>10 DEF AcceptRecords, RequestOK, Recording
    <2>2. OthersStay(k) /\ RequestOK(k)'
      BY <1>1, <1>3, <1>10, <2>1, ProceedMoves DEF AcceptRecords
    <2>3. StoresOK'
      BY <1>1, <1>10 DEF AcceptRecords, StoresOK, vacancies
    <2> QED
      BY <1>10, <2>2, <2>3, OtherStoresShape DEF AcceptRecords, vacancies
  <1>11. CASE AcceptReadsCandidate(k)
    <2>1. requests[k].op \in {"signup", "accept"} /\ requests[k].who \in Candidates
      BY <1>1, <1>11 DEF AcceptReadsCandidate, RequestOK, Recording, CandidateOps
    <2>2. CASE candidates[requests[k].who] = NoDoc
      BY <1>1, <1>2, <1>11, <2>2, EndMoves DEF AcceptReadsCandidate, OnlyRequests
    <2>3. CASE candidates[requests[k].who] # NoDoc
      <3>1. Recalled(k, "consent", candidates[requests[k].who])
        BY <1>1, <1>11, <2>3, RememberMoves DEF AcceptReadsCandidate
      <3>2. IsCandidate(candidates[requests[k].who])
        BY <2>1, <2>3 DEF ShapeInv
      <3>3. OthersStay(k) /\ RequestOK(k)'
        BY <1>1, <2>1, <2>3, <3>1, <3>2 DEF Recalled, Moved, RequestOK, Remembers, At
      <3> QED
        BY <1>11, <3>3, ShapeMoves DEF AcceptReadsCandidate, OnlyRequests
    <2> QED
      BY <2>2, <2>3
  <1>12. CASE AcceptMirrors(k)
    <2>1. OthersStay(k) /\ RequestOK(k)'
      BY <1>1, <1>12, EndMoves, EndedOK DEF AcceptMirrors, Ended
    <2>2. IsCandidate(requests[k].copy)
      BY <1>1, <1>12 DEF AcceptMirrors, RequestOK, Remembers
    <2>3. IsCandidate(Mirror(requests[k].copy, requests[k].got))
      BY <2>2, MirrorForms
    <2> QED
      BY <1>1, <1>12, <2>1, <2>3, SaveCandidateShape DEF AcceptMirrors, SaveCandidate, StoresOK
  <1> QED
    BY <1>4, <1>5, <1>6, <1>7, <1>8, <1>9, <1>10, <1>11, <1>12

LEMMA FilesRemoved ==
    ASSUME StoresOK, NEW c, NEW r,
           files' = [files EXCEPT ![c][r] = Gone(@)] \/ UNCHANGED files
    PROVE  /\ files' \in [Candidates -> [Resumes -> FileStates]]
           /\ \A d \in Candidates : \A f \in Resumes :
                 files'[d][f] = IF d = c /\ f = r /\ files' # files
                                THEN Gone(files[d][f]) ELSE files[d][f]
PROOF
  <1>1. \A d \in Candidates : files[d] \in [Resumes -> FileStates]
    BY DEF StoresOK
  <1>2. CASE UNCHANGED files
    BY <1>1, <1>2 DEF StoresOK
  <1>3. CASE files' = [files EXCEPT ![c][r] = Gone(@)]
    <2>1. \A f \in FileStates : Gone(f) \in FileStates
      BY DEF Gone, FileStates
    <2>2. [files[c] EXCEPT ![r] = Gone(files[c][r])] \in [Resumes -> FileStates] \/ c \notin Candidates
      BY <1>1, <2>1
    <2>3. files' = [files EXCEPT ![c] = [files[c] EXCEPT ![r] = Gone(files[c][r])]]
      BY <1>3
    <2>4. files' \in [Candidates -> [Resumes -> FileStates]]
      BY <2>2, <2>3 DEF StoresOK
    <2>5. ASSUME NEW d \in Candidates, NEW f \in Resumes
          PROVE  files'[d][f] = IF d = c /\ f = r THEN Gone(files[d][f]) ELSE files[d][f]
      BY <1>1, <2>3 DEF StoresOK
    <2>6. files' # files \/ files' = files
      OBVIOUS
    <2> QED
      BY <2>4, <2>5, <2>6
  <1> QED
    BY <1>2, <1>3

\* The profile, the resume and the deletion.
LEMMA ProfileKeepsShape ==
    ASSUME ShapeInv, NEW k \in Clients,
           \/ UpdateMeReads(k) \/ UpdateMeSaves(k)
           \/ RequestUploadReads(k) \/ RequestUploadSaves(k)
           \/ CompleteReads(k) \/ CompleteChecksFile(k) \/ CompleteSaves(k) \/ CompleteRemovesOld(k)
           \/ DeleteByManagerReads(k) \/ DeleteLists(k) \/ DeleteMany(k) \/ DeleteFiles(k)
           \/ DeleteDoc(k) \/ DeleteAccount(k)
    PROVE  ShapeInv'
PROOF
  <1> USE DEF StoresSame
  <1>1. RequestsOK /\ StoresOK /\ RequestOK(k)
    BY DEF ShapeInv
  <1>2. ASSUME Ended(k), StoresSame PROVE ShapeInv'
    BY <1>2, EndedOK, ShapeMoves DEF Ended
  <1>3. ASSUME NEW pc, NEW got, Went(k, pc, got), Remembers(k),
               requests[k].op \in {"complete"}, pc \in {"info", "save", "old"}
        PROVE  OthersStay(k) /\ RequestOK(k)'
    BY <1>1, <1>3 DEF Went, Moved, RequestOK, Remembers, At, Recording, CandidateOps
  <1>4. ASSUME NEW pc, NEW got, Went(k, pc, got), requests[k].op \in {"delete", "remove"},
               pc \notin {"save", "consent", "record", "mirror"}
        PROVE  OthersStay(k) /\ RequestOK(k)'
    BY <1>1, <1>4 DEF Went, Moved, RequestOK, Remembers, At, Recording, CandidateOps
  <1>5. CASE UpdateMeReads(k) \/ RequestUploadReads(k) \/ DeleteByManagerReads(k)
    BY <1>5, GetOrThrowKeepsShape
       DEF UpdateMeReads, RequestUploadReads, DeleteByManagerReads, Recording
  <1>6. CASE UpdateMeSaves(k)
    <2>1. OthersStay(k) /\ RequestOK(k)' /\ IsCandidate(requests[k].copy)
      BY <1>1, <1>6, EndMoves, EndedOK DEF UpdateMeSaves, Ended, At, RequestOK, Remembers
    <2>2. files' \in [Candidates -> [Resumes -> FileStates]]
      BY <1>1, <1>6 DEF UpdateMeSaves, StoresOK
    <2> QED
      BY <1>6, <2>1, <2>2, SaveCandidateShape DEF UpdateMeSaves, SaveCandidate
  <1>7. CASE RequestUploadSaves(k)
    <2>1. OthersStay(k) /\ RequestOK(k)' /\ IsCandidate(requests[k].copy)
      BY <1>1, <1>7, EndMoves, EndedOK DEF RequestUploadSaves, Ended, At, RequestOK, Remembers
    <2>2. files' \in [Candidates -> [Resumes -> FileStates]]
      BY <1>1, <1>7 DEF RequestUploadSaves, StoresOK, FileStates
    <2>3. IsCandidate([requests[k].copy EXCEPT !.pending = requests[k].arg])
      BY <2>1, PendingForms
    <2> QED
      BY <1>7, <2>1, <2>2, <2>3, SaveCandidateShape DEF RequestUploadSaves, SaveCandidate
  <1>8. CASE CompleteReads(k)
    <2>1. At(k, "complete", "get") /\ StoresSame /\ requests[k].who \in Candidates
      BY <1>1, <1>8 DEF CompleteReads, OnlyRequests, At, RequestOK, CandidateOps
    <2>2. \/ Ended(k)
          \/ /\ candidates[requests[k].who] # NoDoc
             /\ Recalled(k, "info", candidates[requests[k].who])
      BY <1>1, <1>8, EndMoves, RememberMoves DEF CompleteReads
    <2>3. CASE Ended(k)
      BY <1>2, <2>1, <2>3
    <2>4. CASE /\ candidates[requests[k].who] # NoDoc
               /\ Recalled(k, "info", candidates[requests[k].who])
      <3>1. IsCandidate(candidates[requests[k].who])
        BY <2>1, <2>4 DEF ShapeInv
      <3>2. OthersStay(k) /\ RequestOK(k)'
        BY <2>1, <2>4, <3>1 DEF Recalled, Moved, RequestOK, Remembers, At, Recording
      <3> QED
        BY <2>1, <3>2, ShapeMoves
    <2> QED
      BY <2>2, <2>3, <2>4
  <1>9. CASE CompleteChecksFile(k)
    <2>1. Remembers(k) /\ requests[k].op = "complete"
      BY <1>9 DEF CompleteChecksFile, At, Remembers
    <2>2. OthersStay(k) /\ RequestOK(k)'
      BY <1>1, <1>3, <1>9, <2>1, ProceedMoves, EndMoves, EndedOK DEF CompleteChecksFile, Ended
    <2>3. files' \in [Candidates -> [Resumes -> FileStates]]
      BY <1>1, <1>9, FilesRemoved DEF CompleteChecksFile
    <2>4. StoresOK'
      BY <1>1, <1>9, <2>3 DEF CompleteChecksFile, StoresOK, vacancies
    <2> QED
      BY <1>9, <2>2, <2>4, OtherStoresShape DEF CompleteChecksFile, vacancies
  <1>10. CASE CompleteSaves(k)
    <2>1. Remembers(k) /\ requests[k].op = "complete" /\ IsCandidate(requests[k].copy)
      BY <1>1, <1>10 DEF CompleteSaves, At, Remembers, RequestOK
    <2>2. OthersStay(k) /\ RequestOK(k)'
      BY <1>1, <1>3, <1>10, <2>1, ProceedMoves, EndMoves, EndedOK DEF CompleteSaves, Ended
    <2>3. IsCandidate(Completed(requests[k].copy, requests[k].got = "taken"))
      BY <2>1, CompletedForms
    <2>4. /\ candidates' = [candidates EXCEPT ![requests[k].who] =
                              Completed(requests[k].copy, requests[k].got = "taken")]
          /\ UNCHANGED <<accounts, files, vacancies>>
      BY <1>10 DEF CompleteSaves, SaveCandidate, Completed
    <2>5. files' \in [Candidates -> [Resumes -> FileStates]]
      BY <1>1, <2>4 DEF StoresOK
    <2> QED
      BY <2>2, <2>3, <2>4, <2>5, SaveCandidateShape
  <1>11. CASE CompleteRemovesOld(k)
    <2>1. OthersStay(k) /\ RequestOK(k)'
      BY <1>1, <1>11, EndMoves, EndedOK DEF CompleteRemovesOld, Ended
    <2>2. files' \in [Candidates -> [Resumes -> FileStates]]
      BY <1>1, <1>11, FilesRemoved DEF CompleteRemovesOld
    <2>3. StoresOK'
      BY <1>1, <1>11, <2>2 DEF CompleteRemovesOld, StoresOK, vacancies
    <2> QED
      BY <1>11, <2>1, <2>3, OtherStoresShape DEF CompleteRemovesOld, vacancies
  <1>12. CASE DeleteLists(k)
    BY <1>1, <1>4, <1>12, ProceedMoves, ShapeMoves DEF DeleteLists, OnlyRequests, At
  <1>13. CASE DeleteMany(k)
    <2>1. requests[k].op = "delete" \/ requests[k].op # "delete"
      OBVIOUS
    <2>2. \E pc \in {"files", "job"} : Went(k, pc, requests[k].got)
      BY <1>1, <1>13, ProceedMoves DEF DeleteMany
    <2>3. OthersStay(k) /\ RequestOK(k)'
      BY <1>1, <2>2 DEF Went, Moved, RequestOK, Remembers, At, Recording, CandidateOps
    <2>4. \A a \in Jobs \X Candidates : applications'[a] \in {applications[a], NoDoc}
      BY <1>1, <1>13 DEF DeleteMany, Without, StoresOK
    <2>5. applications' = [a \in Jobs \X Candidates |-> applications'[a]]
      BY <1>1, <1>13 DEF DeleteMany, Without, StoresOK
    <2> QED
      BY <1>13, <2>3, <2>4, <2>5, ApplicationsShape DEF DeleteMany
  <1>14. CASE DeleteFiles(k)
    <2>1. OthersStay(k) /\ RequestOK(k)'
      BY <1>1, <1>4, <1>14, ProceedMoves DEF DeleteFiles, At
    <2>2. files' \in [Candidates -> [Resumes -> FileStates]]
      BY <1>1, <1>14 DEF DeleteFiles, StoresOK, FileStates, Gone, Prefix
    <2>3. StoresOK'
      BY <1>1, <1>14, <2>2 DEF DeleteFiles, StoresOK, vacancies
    <2> QED
      BY <1>14, <2>1, <2>3, OtherStoresShape DEF DeleteFiles, vacancies
  <1>15. CASE DeleteDoc(k)
    <2>1. OthersStay(k) /\ RequestOK(k)'
      BY <1>1, <1>4, <1>15, ProceedMoves DEF DeleteDoc, At
    <2>2. \A i \in Clients : RequestOK(i)'
      BY <2>1 DEF OthersStay, RequestOK, ShapeInv, Remembers, At
    <2>3. /\ candidates' = [d \in Candidates |-> candidates'[d]]
          /\ \A d \in Candidates : candidates'[d] \in {candidates[d], NoDoc}
          /\ UNCHANGED <<accounts, files, jobs, applications>>
      BY <1>1, <1>15 DEF DeleteDoc, StoresOK, vacancies
    <2>4. StoresOK'
      BY <1>1, <2>3 DEF StoresOK
    <2>5. \A d \in Candidates : candidates'[d] # NoDoc => IsCandidate(candidates'[d])
      BY <2>3 DEF ShapeInv
    <2> QED
      BY <2>1, <2>2, <2>3, <2>4, <2>5 DEF ShapeInv, OthersStay
  <1>16. CASE DeleteAccount(k)
    <2>1. OthersStay(k) /\ RequestOK(k)'
      BY <1>1, <1>16, EndMoves, EndedOK DEF DeleteAccount, Ended
    <2>2. accounts' \in [Candidates -> {"new", "live", "deleted"}]
      BY <1>1, <1>16 DEF DeleteAccount, StoresOK
    <2>3. StoresOK'
      BY <1>1, <1>16, <2>2 DEF DeleteAccount, StoresOK, vacancies
    <2> QED
      BY <1>16, <2>1, <2>3, OtherStoresShape DEF DeleteAccount, vacancies
  <1> QED
    BY <1>5, <1>6, <1>7, <1>8, <1>9, <1>10, <1>11, <1>12, <1>13, <1>14, <1>15, <1>16

\* The jobs and the applications.
LEMMA JobsKeepShape ==
    ASSUME ShapeInv, NEW k \in Clients, JobHandle(k)
    PROVE  ShapeInv'
PROOF
  <1> USE DEF StoresSame
  <1>1. RequestsOK /\ StoresOK /\ RequestOK(k)
    BY DEF ShapeInv
  <1>2. ASSUME Ended(k) PROVE OthersStay(k) /\ RequestOK(k)'
    BY <1>2, EndedOK DEF Ended
  <1>3. ASSUME NEW pc, NEW got, Went(k, pc, got), requests[k].op \in {"job", "remove"},
               pc = "batch" => requests[k].op = "remove", pc \notin {"consent", "record", "mirror"}
        PROVE  OthersStay(k) /\ RequestOK(k)'
    BY <1>1, <1>3 DEF Went, Moved, RequestOK, Remembers, At, Recording, CandidateOps
  <1>4. ASSUME NEW pc, NEW got, Went(k, pc, got), requests[k].op = "apply",
               pc \in {"get", "existing", "save"}
        PROVE  OthersStay(k) /\ RequestOK(k)'
    BY <1>1, <1>4 DEF Went, Moved, RequestOK, Remembers, At, Recording, CandidateOps
  <1>5. CASE UpdateJobReads(k)
    BY <1>1, <1>2, <1>3, <1>5, ProceedMoves, EndMoves, ShapeMoves DEF UpdateJobReads, OnlyRequests, At
  <1>6. CASE UpdateJobSaves(k)
    <2>1. OthersStay(k) /\ RequestOK(k)'
      BY <1>1, <1>2, <1>6, EndMoves DEF UpdateJobSaves
    <2>2. jobs' \in [Jobs -> {"none", "open", "closed"}]
      BY <1>1, <1>6 DEF UpdateJobSaves, StoresOK
    <2>3. StoresOK'
      BY <1>1, <1>6, <2>2 DEF UpdateJobSaves, StoresOK, people
    <2> QED
      BY <1>6, <2>1, <2>3, OtherStoresShape DEF UpdateJobSaves, people
  <1>7. CASE RemoveJobReads(k)
    BY <1>1, <1>2, <1>3, <1>7, ProceedMoves, EndMoves, ShapeMoves DEF RemoveJobReads, OnlyRequests, At
  <1>8. CASE RemoveJobLists(k)
    BY <1>1, <1>3, <1>8, ProceedMoves, ShapeMoves DEF RemoveJobLists, OnlyRequests, At
  <1>9. CASE RemoveJobDeletes(k)
    <2>1. OthersStay(k) /\ RequestOK(k)'
      BY <1>1, <1>2, <1>9, EndMoves DEF RemoveJobDeletes
    <2>2. jobs' \in [Jobs -> {"none", "open", "closed"}]
      BY <1>1, <1>9 DEF RemoveJobDeletes, StoresOK
    <2>3. StoresOK'
      BY <1>1, <1>9, <2>2 DEF RemoveJobDeletes, StoresOK, people
    <2> QED
      BY <1>9, <2>1, <2>3, OtherStoresShape DEF RemoveJobDeletes, people
  <1>10. CASE ApplyReadsJob(k)
    BY <1>1, <1>2, <1>4, <1>10, ProceedMoves, EndMoves, ShapeMoves DEF ApplyReadsJob, OnlyRequests, At
  <1>11. CASE ApplyReadsCandidate(k)
    BY <1>11, GetOrThrowKeepsShape DEF ApplyReadsCandidate, Recording
  <1>12. CASE ApplyReadsTerms(k)
    BY <1>1, <1>2, <1>4, <1>12, ProceedMoves, EndMoves, ShapeMoves DEF ApplyReadsTerms, OnlyRequests, At
  <1>13. CASE ApplyReadsExisting(k)
    BY <1>1, <1>2, <1>4, <1>13, ProceedMoves, EndMoves, ShapeMoves
       DEF ApplyReadsExisting, OnlyRequests, At
  <1>14. CASE ApplySaves(k)
    <2>1. OthersStay(k) /\ RequestOK(k)' /\ UNCHANGED <<people, jobs>>
      BY <1>1, <1>2, <1>14, EndMoves DEF ApplySaves
    <2>2. PICK new : IsApplication(new)
                     /\ applications' = [applications EXCEPT
                            ![<<requests[k].arg, requests[k].who>>] = new]
      BY <1>14 DEF ApplySaves, IsApplication, Application
    <2>3. /\ applications' = [a \in Jobs \X Candidates |-> applications'[a]]
          /\ \A a \in Jobs \X Candidates : applications'[a] \in {applications[a], new}
      BY <1>1, <2>2 DEF StoresOK
    <2> QED
      BY <2>1, <2>2, <2>3, ApplicationsShape
  <1>15. CASE WithdrawReads(k)
    <2>1. Ended(k) \/ Recalled(k, "delete", applications[<<requests[k].arg, requests[k].who>>])
      BY <1>1, <1>15, EndMoves, RememberMoves DEF WithdrawReads
    <2>2. OthersStay(k) /\ RequestOK(k)'
      BY <1>1, <1>2, <1>15, <2>1
         DEF WithdrawReads, Recalled, Moved, RequestOK, Remembers, At, Recording, CandidateOps
    <2> QED
      BY <1>15, <2>2, ShapeMoves DEF WithdrawReads, OnlyRequests
  <1>16. CASE WithdrawDeletes(k)
    <2>1. OthersStay(k) /\ RequestOK(k)' /\ UNCHANGED <<people, jobs>>
      BY <1>1, <1>2, <1>16, EndMoves DEF WithdrawDeletes
    <2>2. /\ applications' = [a \in Jobs \X Candidates |-> applications'[a]]
          /\ \A a \in Jobs \X Candidates : applications'[a] \in {applications[a], NoDoc}
      BY <1>1, <1>16 DEF WithdrawDeletes, StoresOK
    <2> QED
      BY <2>1, <2>2, ApplicationsShape
  <1>17. CASE UpdateStatusReads(k)
    <2> DEFINE a == <<requests[k].arg, requests[k].who>>
    <2>1. At(k, "status", "get app") /\ StoresSame
      BY <1>17 DEF UpdateStatusReads, OnlyRequests
    <2>2. CASE applications[a] = NoDoc
      BY <1>1, <1>2, <1>17, <2>1, <2>2, EndMoves, ShapeMoves DEF UpdateStatusReads
    <2>3. CASE applications[a] # NoDoc
      <3>1. requests[k].who \in Candidates /\ requests[k].arg \in Jobs
        BY <1>1, <2>1 DEF RequestOK, CandidateOps, At
      <3>2. IsApplication(applications[a])
        BY <2>3, <3>1 DEF ShapeInv
      <3>3. Recalled(k, "save", applications[a])
        BY <1>1, <1>17, <2>3, RememberMoves DEF UpdateStatusReads
      <3> HIDE DEF a
      <3>4. OthersStay(k) /\ RequestOK(k)'
        BY <2>1, <2>3, <3>1, <3>2, <3>3 DEF Recalled, Moved, RequestOK, Remembers, At, Recording
      <3> QED
        BY <2>1, <3>4, ShapeMoves
    <2> QED
      BY <2>2, <2>3
  <1>18. CASE UpdateStatusSaves(k)
    <2>1. OthersStay(k) /\ RequestOK(k)' /\ UNCHANGED <<people, jobs>>
      BY <1>1, <1>2, <1>18, EndMoves DEF UpdateStatusSaves
    <2>2. IsApplication(requests[k].copy)
      BY <1>1, <1>18 DEF UpdateStatusSaves, RequestOK
    <2>3. PICK status : applications' = [applications EXCEPT
              ![<<requests[k].arg, requests[k].who>>] = [requests[k].copy EXCEPT !.status = status]]
      BY <1>18 DEF UpdateStatusSaves
    <2> DEFINE new == [requests[k].copy EXCEPT !.status = status]
    <2>4. IsApplication(new)
      BY <2>2, ApplicationForms
    <2> HIDE DEF new
    <2>5. /\ applications' = [a \in Jobs \X Candidates |-> applications'[a]]
          /\ \A a \in Jobs \X Candidates : applications'[a] \in {applications[a], new}
      BY <1>1, <2>3 DEF StoresOK, new
    <2> QED
      BY <2>1, <2>4, <2>5, ApplicationsShape
  <1> QED
    BY <1>5, <1>6, <1>7, <1>8, <1>9, <1>10, <1>11, <1>12, <1>13, <1>14, <1>15, <1>16, <1>17, <1>18
       DEF JobHandle

LEMMA StepKeepsShape ==
    ASSUME ShapeInv, [RecruitmentNext]_vars
    PROVE  ShapeInv'
PROOF
  <1>1. ASSUME UNCHANGED <<requests, people, vacancies>>
        PROVE  ShapeInv'
    BY <1>1 DEF ShapeInv, RequestsOK, StoresOK, RequestOK, Remembers, At, people, vacancies
  <1>2. CASE UNCHANGED vars
    BY <1>1, <1>2 DEF vars
  <1>3. ASSUME NEW k \in Clients, Asks(k) PROVE ShapeInv'
    BY <1>3, AsksKeepShape
  <1>4. ASSUME NEW k \in Clients, Handle(k) PROVE ShapeInv'
    BY <1>4, LegalKeepsShape, ConsentKeepsShape, ProfileKeepsShape, JobsKeepShape
       DEF Handle, CandidateHandle, StoresSame
  <1>5. ASSUME NEW k \in Clients, Stop(k) PROVE ShapeInv'
    <2>1. Ended(k) /\ StoresSame
      BY <1>5, EndMoves DEF Stop, ShapeInv, StoresSame
    <2> QED
      BY <2>1, EndedOK, ShapeMoves DEF Ended
  <1>6. CASE DiscardDraft /\ UNCHANGED <<people, vacancies>>
    BY <1>1, <1>6 DEF DiscardDraft
  <1>7. ASSUME NEW c \in Candidates, NEW r \in Resumes, NEW content \in {"ok", "bad"},
               FileArrives(c, r, content)
        PROVE  ShapeInv'
    <2>1. UNCHANGED <<requests, accounts, candidates, vacancies>>
      BY <1>7 DEF FileArrives
    <2>2. files' \in [Candidates -> [Resumes -> FileStates]]
      BY <1>7 DEF FileArrives, ShapeInv, StoresOK, FileStates
    <2>3. StoresOK'
      BY <2>1, <2>2 DEF ShapeInv, StoresOK, vacancies
    <2> QED
      BY <2>1, <2>3 DEF ShapeInv, RequestsOK, RequestOK, Remembers, At, vacancies
  <1>8. ASSUME NEW j \in Jobs, CreateJob(j) PROVE ShapeInv'
    <2>1. UNCHANGED <<requests, people, applications>> /\ jobs' = [jobs EXCEPT ![j] = "open"]
      BY <1>8 DEF CreateJob
    <2>2. StoresOK'
      BY <2>1 DEF ShapeInv, StoresOK, people
    <2> QED
      BY <2>1, <2>2 DEF ShapeInv, RequestsOK, RequestOK, Remembers, At, people
  <1> QED
    BY <1>2, <1>3, <1>4, <1>5, <1>6, <1>7, <1>8 DEF RecruitmentNext

LEMMA InitHasShape ==
    ASSUME RecruitmentInit
    PROVE  ShapeInv
PROOF
  <1>1. /\ requests = [k \in Clients |-> Idle] /\ jobs \in [Jobs -> {"none", "open"}]
    BY DEF RecruitmentInit, LegalInit
  <1>2. RequestsOK /\ \A k \in Clients : RequestOK(k)
    BY <1>1 DEF RequestsOK, IsRequest, Idle, RequestOK, Remembers, Recording, CandidateOps, At
  <1> DEFINE c == CHOOSE d \in Candidates : TRUE
             r == CHOOSE f \in Resumes : TRUE
             j == CHOOSE i \in Jobs : TRUE
  <1>3. PICK live \in BOOLEAN, consent \in DOMAIN versions \cup {Unset},
             resume \in {"none", "awaited", "ok"}, applied \in BOOLEAN :
          Stage(c, r, j, live, consent, resume, applied)
    BY DEF RecruitmentInit
  <1> HIDE DEF c, r, j
  <1> DEFINE doc == Candidate(consent, IF resume = "ok" THEN r ELSE NoFile,
                                       IF resume = "awaited" THEN r ELSE NoFile)
             app == Application("received", IF consent = Unset THEN Unset ELSE header.required)
  <1>4. /\ accounts = [d \in Candidates |-> IF live /\ d = c THEN "live" ELSE "new"]
        /\ candidates = [d \in Candidates |-> IF live /\ d = c THEN doc ELSE NoDoc]
        /\ files = [d \in Candidates |-> [f \in Resumes |->
                        IF d = c /\ f = r /\ resume # "none" THEN resume ELSE "unused"]]
        /\ applications = [a \in Jobs \X Candidates |->
                IF applied /\ a = <<j, c>> THEN app ELSE NoDoc]
    BY <1>3 DEF Stage
  <1>5. IsCandidate(doc) /\ IsApplication(app)
    BY CandidateIs DEF IsApplication, Application
  <1> HIDE DEF doc, app
  <1>6. StoresOK
    BY <1>1, <1>4 DEF StoresOK, FileStates
  <1>7. /\ \A d \in Candidates : candidates[d] # NoDoc => IsCandidate(candidates[d])
        /\ \A a \in Jobs \X Candidates : applications[a] # NoDoc => IsApplication(applications[a])
    BY <1>4, <1>5
  <1> QED
    BY <1>2, <1>6, <1>7 DEF ShapeInv

-----------------------------------------------------------------------------
(* The consent of a candidate is on record *)

LEMMA NotLessIsTransitive ==
    ASSUME NEW u \in Versions, NEW v \in Versions, NEW w \in Versions,
           ~Less(u, v), ~Less(v, w)
    PROVE  ~Less(u, w)
PROOF BY DEF Less, Versions

LEMMA NothingIsBelowUnset ==
    ASSUME NEW v \in Versions
    PROVE  ~Less(v, Unset) /\ (v # Unset => Less(Unset, v))
PROOF BY DEF Less, Versions, Unset

\* What k was to record is recorded, or still to be, or k was cut.
Settles(k) ==
    \A c : \A u \in Versions : Held(c, u) /\ Backing(k, c, u) => Backed(c, u)'

\* What k was to write into the document is there, or still to be written.
Hands(k) ==
    \A c \in Candidates : \A v \in Versions :
        <<c, v>> \in acceptances /\ Covering(k, c, v) /\ c \notin outdated' \cup cut' =>
            Covering(k, c, v)' \/ candidates'[c] = NoDoc \/ ~Less(candidates'[c].consent, v)

HeldStep == \A c : \A u \in Versions : Held(c, u) => Held(c, u)'

\* History only grows.
Grows ==
    /\ VersionsInv' /\ Kept
    /\ acceptances \subseteq acceptances' /\ cut \subseteq cut' /\ outdated \subseteq outdated'

LEMMA HeldKeeps ==
    ASSUME VersionsInv, Grows, NEW k \in Clients, OthersStay(k), Settles(k)
    PROVE  HeldStep
PROOF
  <1> SUFFICES ASSUME NEW c, NEW u \in Versions, Held(c, u) PROVE Held(c, u)'
    BY DEF HeldStep
  <1>1. ~Less(header'.published, u)
    <2>1. /\ header.published \in Versions /\ header'.published \in Versions
          /\ ~Less(header'.published, header.published) /\ ~Less(header.published, u)
      BY DEF VersionsInv, Grows, Kept, Held
    <2> QED
      BY <2>1, NotLessIsTransitive
  <1>2. Backed(c, u)'
    <2>1. CASE u = Unset \/ c \in cut \/ \E v \in Versions : <<c, v>> \in acceptances /\ ~Less(v, u)
      BY <2>1 DEF Backed, Grows
    <2>2. ASSUME NEW i \in Clients, Backing(i, c, u) PROVE Backed(c, u)'
      <3>1. CASE i = k
        BY <2>2, <3>1 DEF Settles
      <3>2. CASE i # k
        BY <2>2, <3>2 DEF OthersStay, Backing, Backed
      <3> QED
        BY <3>1, <3>2
    <2> QED
      BY <2>1, <2>2 DEF Held, Backed
  <1> QED
    BY <1>1, <1>2 DEF Held

LEMMA HeldGoesOn ==
    ASSUME HeldStep, NEW c, NEW u, Held(c, u)
    PROVE  Held(c, u)'
PROOF BY DEF HeldStep, Held

LEMMA OtherRequestsHold ==
    ASSUME VersionsInv, ShapeInv, ConsentInv, Grows, HeldStep, NEW i \in Clients,
           requests'[i] = requests[i]
    PROVE  RequestHolds(i)'
PROOF
  <1>1. RequestHolds(i)
    BY DEF ConsentInv
  <1>2. \A c : \A u : Held(c, u) => Held(c, u)'
    BY HeldGoesOn
  <1>3. DOMAIN versions \subseteq DOMAIN versions' /\ acceptances \subseteq acceptances'
    BY DEF Grows, Kept
  <1>4. \A u \in Versions : ~Less(header.published, u) => ~Less(header'.published, u)
    BY NotLessIsTransitive DEF Grows, Kept, VersionsInv
  <1> HIDE DEF RequestHolds
  <1>5. /\ requests'[i].op = requests[i].op /\ requests'[i].pc = requests[i].pc
        /\ requests'[i].who = requests[i].who /\ requests'[i].copy = requests[i].copy
        /\ requests'[i].got = requests[i].got
    OBVIOUS
  <1>6. Remembers(i)' <=> Remembers(i)
    BY <1>5 DEF Remembers
  <1> QED
    BY <1>1, <1>2, <1>3, <1>4, <1>5, <1>6 DEF RequestHolds, At

\* A step of one request, with what it does to documents.
DocumentsOf(c) ==
    \/ candidates'[c] = NoDoc
    \/ candidates[c] # NoDoc /\ candidates'[c].consent = candidates[c].consent
    \/ Held(c, candidates[c].consent)' /\ Forward(c)'

ApplicationsOfStep(a) ==
    \/ applications'[a] = NoDoc
    \/ applications[a] # NoDoc /\ applications'[a].under = applications[a].under
    \/ Held(a[2], applications[a].under)'

LEMMA ConsentMoves ==
    ASSUME VersionsInv, ShapeInv, ConsentInv, Grows, NEW k \in Clients, OthersStay(k),
           HeldStep, Hands(k), RequestHolds(k)',
           \A a \in acceptances' \ acceptances :
              /\ a = <<a[1], a[2]>> /\ a[2] \in DOMAIN versions' /\ Covering(k, a[1], a[2])',
           \A c \in Candidates : DocumentsOf(c),
           \A a \in Jobs \X Candidates : ApplicationsOfStep(a)
    PROVE  ConsentInv'
PROOF
  <1>0. \A c : \A u : Held(c, u) => Held(c, u)'
    BY HeldGoesOn
  <1>1. \A i \in Clients : RequestHolds(i)'
    BY OtherRequestsHold DEF OthersStay
  <1>2. AcceptancesOK'
    BY DEF ConsentInv, AcceptancesOK, Grows, Kept
  <1>3. ASSUME NEW c \in Candidates
        PROVE  CandidateHeld(c)'
    BY <1>0 DEF DocumentsOf, ConsentInv, CandidateHeld
  <1>4. ASSUME NEW a \in Jobs \X Candidates
        PROVE  ApplicationHeld(a)'
    BY <1>0 DEF ApplicationsOfStep, ConsentInv, ApplicationHeld
  <1>5. ASSUME NEW c \in Candidates
        PROVE  Forward(c)'
    <2>1. CASE candidates'[c] = NoDoc
      BY <2>1 DEF Forward
    <2>2. CASE candidates[c] # NoDoc /\ candidates'[c].consent = candidates[c].consent
      <3> SUFFICES ASSUME c \notin outdated' \cup cut', NEW v \in Versions,
                          <<c, v>> \in acceptances', Less(candidates'[c].consent, v),
                          candidates'[c] # NoDoc
                   PROVE  \E i \in Clients : Covering(i, c, v)'
        BY DEF Forward
      <3>1. CASE <<c, v>> \notin acceptances
        BY <3>1
      <3>2. CASE <<c, v>> \in acceptances
        <4>1. PICK i \in Clients : Covering(i, c, v)
          BY <2>2, <3>2 DEF ConsentInv, Forward, Grows
        <4>2. CASE i = k
          BY <3>2, <4>1, <4>2 DEF Hands
        <4>3. CASE i # k
          BY <4>1, <4>3 DEF OthersStay, Covering
        <4> QED
          BY <4>2, <4>3
      <3> QED
        BY <3>1, <3>2
    <2> QED
      BY <2>1, <2>2 DEF DocumentsOf
  <1> QED
    BY <1>1, <1>2, <1>3, <1>4, <1>5 DEF ConsentInv

LEMMA PlainGrows ==
    ASSUME VersionsInv, UNCHANGED document, acceptances \subseteq acceptances',
           cut \subseteq cut', outdated \subseteq outdated'
    PROVE  Grows
PROOF BY UnchangedKeeps DEF Grows, document

\* A request that is not about the consent.
Aside(k) == requests[k].op \notin {"signup", "accept"}

LEMMA AsideHeld ==
    ASSUME VersionsInv, Grows, NEW k \in Clients, OthersStay(k), Aside(k)
    PROVE  HeldStep /\ Hands(k)
PROOF
  <1>1. Settles(k) /\ Hands(k)
    BY DEF Aside, Settles, Hands, Backing, Covering
  <1> QED
    BY <1>1, HeldKeeps

\* At its new step the request holds nothing.
Free(k) ==
    /\ ~Remembers(k) /\ requests[k].pc \notin Recording
    /\ ~(requests[k].op = "apply" /\ requests[k].pc \in {"existing", "save"})
    /\ ~At(k, "signup", "save") /\ ~At(k, "status", "save")

LEMMA FreeHolds ==
    ASSUME NEW k, Free(k)'
    PROVE  RequestHolds(k)'
PROOF BY DEF Free, RequestHolds, Recording

LEMMA PassiveMoves ==
    ASSUME VersionsInv, ShapeInv, ConsentInv, Grows, NEW k \in Clients, OthersStay(k), Aside(k),
           UNCHANGED <<acceptances, candidates, applications>>, RequestHolds(k)'
    PROVE  ConsentInv'
PROOF
  <1>1. HeldStep /\ Hands(k)
    BY AsideHeld
  <1>2. /\ \A c \in Candidates : DocumentsOf(c)
        /\ \A a \in Jobs \X Candidates : ApplicationsOfStep(a)
    BY DEF DocumentsOf, ApplicationsOfStep
  <1> QED
    BY <1>1, <1>2, ConsentMoves

LEMMA EndedFree ==
    ASSUME NEW k, Ended(k)
    PROVE  Free(k)' /\ OthersStay(k)
PROOF BY DEF Ended, Free, Idle, Remembers, Recording, At

LEMMA BeganConsent ==
    ASSUME VersionsInv, ShapeInv, ConsentInv,
           NEW k \in Clients, NEW op, NEW pc, NEW who, NEW arg,
           Begin(k, Request(op, pc, who, arg)), StoresSame,
           pc \notin {"terms", "save", "info", "old", "existing"} \cup Recording
    PROVE  ConsentInv'
PROOF
  <1>1. Began(k, op, pc, who, arg)
    BY BeginMoves DEF ShapeInv
  <1>2. Aside(k)
    BY <1>1 DEF Began, Aside, Idle
  <1>3. Free(k)' /\ OthersStay(k)
    BY <1>1 DEF Began, Moved, Free, Remembers, Recording, At
  <1>4. Grows
    BY <1>1, PlainGrows DEF Began, StoresSame, people
  <1> QED
    BY <1>2, <1>3, <1>4, FreeHolds, PassiveMoves DEF StoresSame, people, vacancies

LEMMA AsksKeepConsent ==
    ASSUME VersionsInv, ShapeInv, ConsentInv, NEW k \in Clients, Asks(k)
    PROVE  ConsentInv'
PROOF
  <1> USE DEF Recording, StoresSame
  <1>1. CASE LegalAsks(k) /\ UNCHANGED <<people, vacancies>>
    BY <1>1, BeganConsent DEF LegalAsks, SaveDraft, Seed, Publish
  <1>2. ASSUME NEW c \in Candidates, Signup(k, c) PROVE ConsentInv'
    BY <1>2, BeganConsent DEF Signup
  <1>3. ASSUME NEW c \in Candidates, Accept(k, c) PROVE ConsentInv'
    BY <1>3, BeganConsent DEF Accept
  <1>4. ASSUME NEW c \in Candidates, UpdateMe(k, c) PROVE ConsentInv'
    BY <1>4, BeganConsent DEF UpdateMe
  <1>5. ASSUME NEW c \in Candidates, CompleteUpload(k, c) PROVE ConsentInv'
    BY <1>5, BeganConsent DEF CompleteUpload
  <1>6. ASSUME NEW c \in Candidates, DeleteAll(k, c) PROVE ConsentInv'
    BY <1>6, BeganConsent DEF DeleteAll
  <1>7. ASSUME NEW c \in Candidates, DeleteByManager(k, c) PROVE ConsentInv'
    BY <1>7, BeganConsent DEF DeleteByManager
  <1>8. ASSUME NEW c \in Candidates, NEW r \in Resumes, RequestUpload(k, c, r) PROVE ConsentInv'
    BY <1>8, BeganConsent DEF RequestUpload
  <1>9. ASSUME NEW c \in Candidates, NEW j \in Jobs, Apply(k, c, j) PROVE ConsentInv'
    BY <1>9, BeganConsent DEF Apply
  <1>10. ASSUME NEW c \in Candidates, NEW j \in Jobs, Withdraw(k, c, j) PROVE ConsentInv'
    BY <1>10, BeganConsent DEF Withdraw
  <1>11. ASSUME NEW c \in Candidates, NEW j \in Jobs, UpdateStatus(k, c, j) PROVE ConsentInv'
    BY <1>11, BeganConsent DEF UpdateStatus
  <1>12. ASSUME NEW j \in Jobs, UpdateJob(k, j) PROVE ConsentInv'
    BY <1>12, BeganConsent DEF UpdateJob
  <1>13. ASSUME NEW j \in Jobs, RemoveJob(k, j) PROVE ConsentInv'
    BY <1>13, BeganConsent DEF RemoveJob
  <1> QED
    BY <1>1, <1>2, <1>3, <1>4, <1>5, <1>6, <1>7, <1>8, <1>9, <1>10, <1>11, <1>12, <1>13 DEF Asks

\* The publication: whoever accepted keeps what they accepted.
LEMMA LegalKeepsConsent ==
    ASSUME VersionsInv, ShapeInv, ConsentInv, NEW k \in Clients, LegalHandle(k), StoresSame,
           VersionsInv', Kept
    PROVE  ConsentInv'
PROOF
  <1> USE DEF StoresSame, people, vacancies
  <1>1. RequestsOK
    BY DEF ShapeInv
  <1>2. ASSUME Free(k)' /\ OthersStay(k), Aside(k), cut' = cut, outdated \subseteq outdated'
        PROVE  ConsentInv'
    BY <1>2, FreeHolds, PassiveMoves DEF Grows
  <1>3. ASSUME NEW pc, NEW got, Went(k, pc, got), requests[k].op \in {"draft", "publish", "seed"},
               pc \in {"save", "header", "commit"}
        PROVE  Free(k)' /\ OthersStay(k)
    BY <1>3 DEF Went, Moved, Free, Remembers, Recording, At
  <1>4. CASE SaveDraftReads(k)
    BY <1>1, <1>2, <1>3, <1>4, ProceedMoves DEF SaveDraftReads, At, Aside, control
  <1>5. CASE SaveDraftReadsHeader(k)
    BY <1>1, <1>2, <1>3, <1>5, ProceedMoves DEF SaveDraftReadsHeader, At, Aside, control
  <1>6. CASE SaveDraftSaves(k)
    BY <1>1, <1>2, <1>6, EndMoves, EndedFree DEF SaveDraftSaves, At, Aside, Mark
  <1>7. CASE PublishReadsDraft(k)
    BY <1>1, <1>2, <1>3, <1>7, EndMoves, EndedFree, ProceedMoves
       DEF PublishReadsDraft, At, Aside, control
  <1>8. CASE PublishCommits(k)
    BY <1>1, <1>2, <1>8, EndMoves, EndedFree DEF PublishCommits, At, Aside, control
  <1>9. CASE SeedReadsHeader(k)
    BY <1>1, <1>2, <1>3, <1>9, EndMoves, EndedFree, ProceedMoves
       DEF SeedReadsHeader, At, Aside, control
  <1>10. CASE SeedCommits(k)
    BY <1>1, <1>2, <1>10, EndMoves, EndedFree DEF SeedCommits, At, Aside, control
  <1> QED
    BY <1>4, <1>5, <1>6, <1>7, <1>8, <1>9, <1>10 DEF LegalHandle

\* A step of a signup or an acceptance that saves nothing.
LEMMA ConsentQuiet ==
    ASSUME VersionsInv, ShapeInv, ConsentInv, Grows, NEW k \in Clients, OthersStay(k),
           Settles(k), Hands(k), RequestHolds(k)',
           UNCHANGED <<acceptances, candidates, applications>>
    PROVE  ConsentInv'
PROOF
  <1>1. HeldStep
    BY HeldKeeps
  <1>2. /\ \A c \in Candidates : DocumentsOf(c)
        /\ \A a \in Jobs \X Candidates : ApplicationsOfStep(a)
    BY DEF DocumentsOf, ApplicationsOfStep
  <1> QED
    BY <1>1, <1>2, ConsentMoves

\* Before its document is saved a signup promises nothing.
LEMMA EarlyPromisesNothing ==
    ASSUME NEW k, requests[k].pc \in {"account", "terms", "save", "undo"}
    PROVE  Settles(k) /\ Hands(k)
PROOF BY DEF Settles, Hands, Backing, Covering, Recording

LEMMA SignupKeepsConsent ==
    ASSUME VersionsInv, ShapeInv, ConsentInv, NEW k \in Clients,
           SignupCreatesAccount(k) \/ SignupReadsTerms(k) \/ SignupSaves(k) \/ SignupUndoes(k)
    PROVE  ConsentInv'
PROOF
  <1> USE DEF people, vacancies, control
  <1>1. RequestsOK /\ StoresOK
    BY DEF ShapeInv
  <1>2. Settles(k) /\ Hands(k) /\ requests[k].op = "signup"
    BY EarlyPromisesNothing
       DEF SignupCreatesAccount, SignupReadsTerms, SignupSaves, SignupUndoes, At
  <1>3. ASSUME NEW pc \in {"terms", "undo", "published"}, NEW got, Went(k, pc, got)
        PROVE  Free(k)' /\ OthersStay(k)
    BY <1>2, <1>3 DEF Went, Moved, Free, Remembers, Recording, At
  <1>4. ASSUME UNCHANGED document, acceptances' = acceptances, cut' = cut,
               outdated \subseteq outdated'
        PROVE  Grows
    BY <1>4, PlainGrows
  <1>5. CASE SignupCreatesAccount(k)
    BY <1>1, <1>2, <1>3, <1>4, <1>5, ProceedMoves, FreeHolds, ConsentQuiet DEF SignupCreatesAccount
  <1>6. CASE SignupReadsTerms(k)
    <2>1. Grows /\ UNCHANGED <<header, acceptances, candidates, applications>>
      BY <1>4, <1>6 DEF SignupReadsTerms, document
    <2>2. CASE Ended(k)
      BY <1>2, <2>1, <2>2, EndedFree, FreeHolds, ConsentQuiet
    <2>3. CASE Went(k, "save", header.published)
      <3>1. header.published \in Versions /\ ~Less(header.published, header.published)
        BY LessIsIrreflexive DEF VersionsInv
      <3>2. RequestHolds(k)' /\ OthersStay(k)
        BY <1>2, <2>1, <2>3, <3>1 DEF Went, Moved, RequestHolds, Remembers, Recording, At
      <3> QED
        BY <1>2, <2>1, <3>2, ConsentQuiet
    <2> QED
      BY <1>1, <1>6, <2>2, <2>3, ProceedMoves, EndMoves DEF SignupReadsTerms
  <1>7. CASE SignupSaves(k)
    <2> DEFINE c == requests[k].who
               doc == Candidate(requests[k].got, NoFile, NoFile)
    <2>1. Grows /\ UNCHANGED <<header, acceptances, applications>>
      BY <1>4, <1>7 DEF SignupSaves, SaveCandidate, Mark, document
    <2>2. CASE UNCHANGED candidates /\ Went(k, "undo", NoArg)
      BY <1>2, <1>3, <2>1, <2>2, FreeHolds, ConsentQuiet
    <2>3. CASE candidates' = [candidates EXCEPT ![c] = doc] /\ Went(k, "published", NoArg)
      <3>1. Free(k)' /\ OthersStay(k)
        BY <1>3, <2>3
      <3>2. HeldStep /\ RequestHolds(k)'
        BY <1>2, <2>1, <3>1, HeldKeeps, FreeHolds
      <3>3. requests[k].got \in Versions /\ ~Less(header.published, requests[k].got)
        BY <1>7 DEF SignupSaves, ConsentInv, RequestHolds
      <3>4. requests'[k].op = "signup" /\ requests'[k].pc = "published" /\ requests'[k].who = c
        BY <1>2, <2>3 DEF Went, Moved
      <3>5. doc.consent = requests[k].got
        BY CandidateIs
      <3> HIDE DEF c, doc
      <3>6. \A d \in Candidates : candidates'[d] = IF d = c THEN doc ELSE candidates[d]
        BY <1>1, <2>3 DEF StoresOK
      <3>7. ASSUME NEW d \in Candidates PROVE DocumentsOf(d)
        <4>1. CASE d # c
          BY <3>6, <4>1 DEF DocumentsOf
        <4>2. CASE d = c
          <5>1. Backing(k, c, requests[k].got)'
            BY <3>4 DEF Backing, c
          <5>2. Held(d, candidates[d].consent)'
            BY <2>1, <3>3, <3>5, <3>6, <4>2, <3>4 DEF Held, Backed, Backing
          <5>3. \A v : Covering(k, d, v)'
            BY <3>4, <4>2 DEF Covering
          <5>4. Forward(d)'
            BY <5>3 DEF Forward
          <5> QED
            BY <5>2, <5>4 DEF DocumentsOf
        <4> QED
          BY <4>1, <4>2
      <3>8. \A a \in Jobs \X Candidates : ApplicationsOfStep(a)
        BY <2>1 DEF ApplicationsOfStep
      <3> QED
        BY <1>2, <2>1, <3>1, <3>2, <3>7, <3>8, ConsentMoves
    <2> QED
      BY <1>1, <1>7, <2>2, <2>3, ProceedMoves DEF SignupSaves, SaveCandidate
  <1>8. CASE SignupUndoes(k)
    BY <1>1, <1>2, <1>4, <1>8, EndMoves, EndedFree, FreeHolds, ConsentQuiet DEF SignupUndoes
  <1> QED
    BY <1>5, <1>6, <1>7, <1>8

\* With nothing published, nothing can have been accepted.
LEMMA NothingPublished ==
    ASSUME VersionsInv, ConsentInv, header.published = Unset, NEW k
    PROVE  Settles(k) /\ Hands(k)
PROOF
  <1>1. \A u \in Versions : ~Less(header.published, u) => u = Unset
    BY NothingIsBelowUnset
  <1>2. Settles(k)
    BY <1>1 DEF Settles, Held, Backed
  <1>3. acceptances = {}
    BY DEF ConsentInv, AcceptancesOK, VersionsInv, HeaderNamesItsVersions
  <1> QED
    BY <1>2, <1>3 DEF Hands

LEMMA AcceptKeepsConsent ==
    ASSUME VersionsInv, ShapeInv, ConsentInv, NEW k \in Clients,
           SignupReadsPublished(k) \/ AcceptReadsHeader(k) \/ AcceptRecords(k)
           \/ AcceptReadsCandidate(k)
    PROVE  ConsentInv'
PROOF
  <1> USE DEF people, vacancies, control
  <1>1. RequestsOK /\ StoresOK /\ RequestOK(k) /\ RequestHolds(k)
    BY DEF ShapeInv, ConsentInv
  <1>2. requests[k].op \in {"signup", "accept"}
    BY <1>1 DEF SignupReadsPublished, AcceptReadsHeader, AcceptRecords, AcceptReadsCandidate, At,
                RequestOK, Recording
  <1>3. /\ header.published \in Versions /\ DOMAIN versions \subseteq Versions
        /\ header.published # Unset => header.published \in DOMAIN versions
        /\ \A v \in DOMAIN versions : ~Less(header.published, v)
    BY DEF VersionsInv, HeaderNamesItsVersions
  <1>4. CASE SignupReadsPublished(k) \/ AcceptReadsHeader(k)
    <2>1. Grows /\ UNCHANGED <<header, versions, acceptances, candidates, applications>>
      BY <1>4, PlainGrows DEF SignupReadsPublished, AcceptReadsHeader, OnlyRequests, document
    <2>2. CASE header.published = Unset
      <3>1. Ended(k)
        BY <1>1, <1>4, <2>2, EndMoves DEF SignupReadsPublished, AcceptReadsHeader
      <3> QED
        BY <2>1, <2>2, <3>1, NothingPublished, EndedFree, FreeHolds, ConsentQuiet
    <2>3. CASE header.published # Unset /\ SignupReadsPublished(k)
      <3>1. Went(k, "header", NoArg) /\ requests[k].op = "signup" /\ requests[k].pc = "published"
        BY <1>1, <2>3, ProceedMoves DEF SignupReadsPublished, At
      <3>2. Settles(k)
        BY <3>1 DEF Settles, Backing, Backed, Went, Moved
      <3>3. Hands(k)
        BY <3>1 DEF Hands, Covering, Went, Moved
      <3>4. Free(k)' /\ OthersStay(k)
        BY <3>1 DEF Went, Moved, Free, Remembers, Recording, At
      <3> QED
        BY <2>1, <3>2, <3>3, <3>4, FreeHolds, ConsentQuiet
    <2>4. CASE header.published # Unset /\ AcceptReadsHeader(k)
      <3>1. Went(k, "record", header.published)
        BY <1>1, <2>4, ProceedMoves DEF AcceptReadsHeader
      <3>2. Settles(k)
        BY <2>1, <3>1 DEF Settles, Backing, Backed, Held, Went, Moved
      <3>3. \A c \in Candidates : \A v \in Versions : <<c, v>> \in acceptances =>
               ~Less(header.published, v)
        BY <1>3 DEF ConsentInv, AcceptancesOK
      <3>4. Hands(k)
        BY <1>2, <3>1, <3>3 DEF Hands, Covering, Recording, Went, Moved
      <3>5. RequestHolds(k)' /\ OthersStay(k)
        BY <1>2, <1>3, <2>1, <2>4, <3>1 DEF Went, Moved, RequestHolds, Remembers, Recording, At
      <3> QED
        BY <2>1, <3>2, <3>4, <3>5, ConsentQuiet
    <2> QED
      BY <1>4, <2>2, <2>3, <2>4
  <1>5. CASE AcceptRecords(k)
    <2>0. PICK c, v : c = requests[k].who /\ v = requests[k].got
      OBVIOUS
    <2>1. /\ acceptances' = acceptances \cup {<<c, v>>}
          /\ Went(k, "mirror", v)
          /\ UNCHANGED <<header, versions, candidates, applications, cut, outdated>>
          /\ requests[k].pc = "record"
      BY <1>1, <1>5, <2>0, ProceedMoves DEF AcceptRecords, document
    <2>2. Grows
      BY <1>5, <2>1, PlainGrows DEF AcceptRecords
    <2>3. v \in DOMAIN versions /\ v \in Versions /\ ~Less(v, v)
      BY <1>1, <1>3, <2>0, <2>1, LessIsIrreflexive DEF RequestHolds, Recording
    <2>4. Settles(k)
      BY <2>0, <2>1, <2>3 DEF Settles, Backing, Backed
    <2>5. Hands(k)
      BY <1>2, <2>0, <2>1 DEF Hands, Covering, Recording, Went, Moved
    <2>6. RequestHolds(k)' /\ OthersStay(k)
      BY <1>2, <2>0, <2>1, <2>3 DEF Went, Moved, RequestHolds, Remembers, Recording, At
    <2>7. Covering(k, c, v)'
      BY <1>2, <2>0, <2>1, <2>3 DEF Covering, Recording, Went, Moved
    <2>8. \A a \in acceptances' \ acceptances :
              a = <<a[1], a[2]>> /\ a[2] \in DOMAIN versions' /\ Covering(k, a[1], a[2])'
      BY <2>1, <2>3, <2>7
    <2>9. /\ \A d \in Candidates : DocumentsOf(d)
          /\ \A a \in Jobs \X Candidates : ApplicationsOfStep(a)
      BY <2>1 DEF DocumentsOf, ApplicationsOfStep
    <2> QED
      BY <2>2, <2>4, <2>5, <2>6, <2>8, <2>9, HeldKeeps, ConsentMoves
  <1>6. CASE AcceptReadsCandidate(k)
    <2> DEFINE c == requests[k].who
    <2>1. /\ Grows /\ requests[k].pc = "mirror"
          /\ UNCHANGED <<header, versions, acceptances, candidates, applications>>
      BY <1>6, PlainGrows DEF AcceptReadsCandidate, OnlyRequests, document
    <2>2. Settles(k)
      BY <2>1 DEF Settles, Backing
    <2>3. CASE candidates[c] = NoDoc
      <3>1. Ended(k)
        BY <1>1, <1>6, <2>3, EndMoves DEF AcceptReadsCandidate
      <3>2. Hands(k)
        BY <2>1, <2>3 DEF Hands, Covering
      <3> QED
        BY <2>1, <2>2, <3>1, <3>2, EndedFree, FreeHolds, ConsentQuiet
    <2>4. CASE candidates[c] # NoDoc
      <3>1. Recalled(k, "consent", candidates[c])
        BY <1>1, <1>6, <2>4, RememberMoves DEF AcceptReadsCandidate
      <3>2. Hands(k)
        BY <1>2, <2>1, <3>1 DEF Hands, Covering, Recording, Recalled, Moved
      <3>3. c \in Candidates
        BY <1>1, <1>2 DEF RequestOK, CandidateOps
      <3>4. Held(c, candidates[c].consent)
        BY <2>4, <3>3 DEF ConsentInv, CandidateHeld
      <3>5. HeldStep
        BY <2>1, <2>2, <3>1, HeldKeeps DEF Recalled, Moved
      <3>6. \A d : \A u : Held(d, u) => Held(d, u)'
        BY <3>5, HeldGoesOn
      <3>7. RequestHolds(k)' /\ OthersStay(k)
        BY <1>1, <1>2, <2>1, <3>1, <3>4, <3>6
           DEF Recalled, Moved, RequestHolds, Remembers, Recording, At
      <3> QED
        BY <2>1, <2>2, <3>2, <3>7, ConsentQuiet
    <2> QED
      BY <2>3, <2>4
  <1> QED
    BY <1>4, <1>5, <1>6

LEMMA MirrorKeepsConsent ==
    ASSUME VersionsInv, ShapeInv, ConsentInv, NEW k \in Clients, AcceptMirrors(k)
    PROVE  ConsentInv'
PROOF
  <1>1. RequestsOK /\ StoresOK /\ RequestOK(k) /\ RequestHolds(k) /\ AcceptancesOK
    BY DEF ShapeInv, ConsentInv
  <1>2. PICK c, v, copy : c = requests[k].who /\ v = requests[k].got /\ copy = requests[k].copy
    OBVIOUS
  <1>3. /\ requests[k].pc = "consent" /\ requests[k].op \in {"signup", "accept"}
        /\ c \in Candidates /\ copy # NoDoc /\ IsCandidate(copy)
    BY <1>1, <1>2 DEF AcceptMirrors, RequestOK, Remembers, Recording, CandidateOps
  <1>4. /\ v \in DOMAIN versions /\ <<c, v>> \in acceptances /\ Held(c, copy.consent)
    BY <1>1, <1>2, <1>3 DEF RequestHolds, Recording, Remembers
  <1>5. v \in Versions /\ ~Less(header.published, v) /\ header.published \in Versions
        /\ copy.consent \in Versions /\ ~Less(v, v)
    BY <1>4, LessIsIrreflexive DEF VersionsInv, HeaderNamesItsVersions, Held
  <1>6. /\ candidates' = [candidates EXCEPT ![c] = Mirror(copy, v)]
        /\ c \in outdated' \/ (candidates[c] = copy /\ ~Less(v, copy.consent))
        /\ outdated \subseteq outdated'
        /\ Ended(k) /\ UNCHANGED <<document, acceptances, applications, cut>>
    BY <1>1, <1>2, EndMoves DEF AcceptMirrors, SaveCandidate, Mark, vacancies
  <1>7. Mirror(copy, v).consent = v
    BY <1>3, MirrorForms
  <1>8. Grows
    BY <1>6, PlainGrows
  <1>9. /\ \A d \in Candidates \ {c} : candidates'[d] = candidates[d]
        /\ candidates'[c].consent = v
    BY <1>1, <1>3, <1>6, <1>7 DEF StoresOK
  <1>10. Settles(k)
    BY <1>3 DEF Settles, Backing
  <1>11. Hands(k)
    BY <1>2, <1>3, <1>9 DEF Hands, Covering
  <1>12. HeldStep
    BY <1>6, <1>8, <1>10, HeldKeeps DEF Ended
  <1>13. Held(c, v)
    BY <1>4, <1>5 DEF Held, Backed
  <1>14. Held(c, v)'
    BY <1>12, <1>13, HeldGoesOn
  <1>15. ASSUME c \notin outdated'
         PROVE  Forward(c)'
    <2> SUFFICES ASSUME c \notin outdated' \cup cut', NEW w \in Versions,
                        <<c, w>> \in acceptances', Less(candidates'[c].consent, w)
                 PROVE  \E i \in Clients : Covering(i, c, w)'
      BY DEF Forward
    <2>1. candidates[c] = copy /\ ~Less(v, copy.consent) /\ <<c, w>> \in acceptances
          /\ Less(v, w) /\ c \notin outdated \cup cut
      BY <1>6, <1>9
    <2>2. \/ ~Less(copy.consent, w)
          \/ \E i \in Clients : Covering(i, c, w)
      BY <1>3, <2>1 DEF ConsentInv, Forward
    <2>3. Less(copy.consent, w)
      BY <1>5, <2>1, NotLessIsTransitive
    <2>4. PICK i \in Clients : Covering(i, c, w)
      BY <2>2, <2>3
    <2>5. i # k
      BY <1>2, <1>3, <2>1, <2>4 DEF Covering
    <2> QED
      BY <1>6, <2>4, <2>5 DEF Ended, OthersStay, Covering
  <1>16. ASSUME NEW d \in Candidates
         PROVE  DocumentsOf(d)
    <2>1. CASE d # c
      BY <1>9, <2>1 DEF DocumentsOf
    <2>2. CASE d = c
      <3>1. Held(d, candidates[d].consent)'
        BY <1>9, <1>14, <2>2
      <3>2. Forward(d)'
        BY <1>15, <2>2 DEF Forward
      <3> QED
        BY <3>1, <3>2 DEF DocumentsOf
    <2> QED
      BY <2>1, <2>2
  <1>17. \A a \in Jobs \X Candidates : ApplicationsOfStep(a)
    BY <1>6 DEF ApplicationsOfStep
  <1> QED
    BY <1>6, <1>8, <1>11, <1>12, <1>16, <1>17, EndedFree, FreeHolds, ConsentMoves

\* A document saved from a copy states the consent of the copy.
LEMMA CopySaved ==
    ASSUME VersionsInv, ShapeInv, ConsentInv, Grows, NEW k \in Clients, OthersStay(k), Aside(k),
           Remembers(k), RequestHolds(k)', UNCHANGED <<acceptances, applications>>,
           NEW c, c = requests[k].who, NEW copy, copy = requests[k].copy,
           NEW doc, doc.consent = copy.consent,
           SaveCandidate(c, doc, candidates[c] = copy)
    PROVE  ConsentInv'
PROOF
  <1>1. HeldStep /\ Hands(k)
    BY AsideHeld
  <1>2. Held(c, copy.consent) /\ copy # NoDoc /\ StoresOK
    BY DEF ShapeInv, ConsentInv, RequestHolds, RequestOK
  <1>3. Held(c, copy.consent)'
    BY <1>1, <1>2, HeldGoesOn
  <1>4. ASSUME NEW d \in Candidates
        PROVE  DocumentsOf(d)
    <2>1. candidates'[d] = IF d = c THEN doc ELSE candidates[d]
      BY <1>2 DEF SaveCandidate, StoresOK
    <2>2. CASE d # c
      BY <2>1, <2>2 DEF DocumentsOf
    <2>3. CASE d = c /\ candidates[c] = copy
      BY <1>2, <2>1, <2>3 DEF DocumentsOf
    <2>4. CASE d = c /\ candidates[c] # copy
      <3>1. Held(d, candidates[d].consent)'
        BY <1>3, <2>1, <2>4
      <3>2. Forward(d)'
        BY <2>4 DEF SaveCandidate, Mark, Forward
      <3> QED
        BY <3>1, <3>2 DEF DocumentsOf
    <2> QED
      BY <2>2, <2>3, <2>4
  <1>5. \A a \in Jobs \X Candidates : ApplicationsOfStep(a)
    BY DEF ApplicationsOfStep
  <1> QED
    BY <1>1, <1>4, <1>5, ConsentMoves

\* A reading that is remembered states a consent held by the document.
LEMMA GetOrThrowKeepsConsent ==
    ASSUME VersionsInv, ShapeInv, ConsentInv, NEW k \in Clients, NEW op, NEW next,
           GetOrThrow(k, op, next), op \in {"update", "upload", "delete", "apply"},
           next \in {"save", "list", "terms"}, op = "apply" => next = "terms"
    PROVE  ConsentInv'
PROOF
  <1>1. /\ At(k, op, "get") /\ StoresSame /\ UNCHANGED <<document, control>>
        /\ \/ Ended(k)
           \/ /\ candidates[requests[k].who] # NoDoc
              /\ Recalled(k, next, candidates[requests[k].who])
    BY GetOrThrowMoves DEF ShapeInv
  <1>2. Grows /\ Aside(k) /\ UNCHANGED <<acceptances, candidates, applications>>
    BY <1>1, PlainGrows DEF StoresSame, people, vacancies, control, At, Aside
  <1>3. CASE Ended(k)
    BY <1>2, <1>3, EndedFree, FreeHolds, PassiveMoves
  <1>4. CASE candidates[requests[k].who] # NoDoc /\ Recalled(k, next, candidates[requests[k].who])
    <2>1. requests[k].who \in Candidates
      BY <1>1 DEF ShapeInv, RequestOK, At, CandidateOps
    <2>2. Held(requests[k].who, candidates[requests[k].who].consent)
      BY <1>4, <2>1 DEF ConsentInv, CandidateHeld
    <2>3. HeldStep
      BY <1>2, <1>4, AsideHeld DEF Recalled, Moved
    <2>4. \A d : \A u : Held(d, u) => Held(d, u)'
      BY <2>3, HeldGoesOn
    <2>5. RequestHolds(k)' /\ OthersStay(k)
      BY <1>1, <1>4, <2>2, <2>4 DEF Recalled, Moved, RequestHolds, Remembers, Recording, At
    <2> QED
      BY <1>2, <2>5, PassiveMoves
  <1> QED
    BY <1>1, <1>3, <1>4

LEMMA ProfileKeepsConsent ==
    ASSUME VersionsInv, ShapeInv, ConsentInv, NEW k \in Clients,
           \/ UpdateMeReads(k) \/ UpdateMeSaves(k)
           \/ RequestUploadReads(k) \/ RequestUploadSaves(k)
           \/ CompleteReads(k) \/ CompleteChecksFile(k) \/ CompleteSaves(k) \/ CompleteRemovesOld(k)
    PROVE  ConsentInv'
PROOF
  <1> USE DEF people, vacancies, control
  <1>1. RequestsOK /\ StoresOK /\ RequestOK(k) /\ RequestHolds(k)
    BY DEF ShapeInv, ConsentInv
  <1>2. ASSUME Ended(k), Aside(k), Grows, UNCHANGED <<acceptances, candidates, applications>>
        PROVE  ConsentInv'
    BY <1>2, EndedFree, FreeHolds, PassiveMoves
  <1>3. CASE UpdateMeReads(k) \/ RequestUploadReads(k)
    BY <1>3, GetOrThrowKeepsConsent DEF UpdateMeReads, RequestUploadReads
  <1>4. CASE UpdateMeSaves(k)
    <2>1. Ended(k) /\ Remembers(k) /\ Aside(k) /\ Grows
      BY <1>1, <1>4, EndMoves, PlainGrows
         DEF UpdateMeSaves, SaveCandidate, Mark, At, Remembers, Aside
    <2> QED
      BY <1>4, <2>1, EndedFree, FreeHolds, CopySaved DEF UpdateMeSaves
  <1>5. CASE RequestUploadSaves(k)
    <2>1. Ended(k) /\ Remembers(k) /\ Aside(k) /\ Grows
      BY <1>1, <1>5, EndMoves, PlainGrows
         DEF RequestUploadSaves, SaveCandidate, Mark, At, Remembers, Aside
    <2> DEFINE new == [requests[k].copy EXCEPT !.pending = requests[k].arg]
    <2>2. new.consent = requests[k].copy.consent
      BY <1>1, <2>1, PendingForms DEF RequestOK
    <2>3. SaveCandidate(requests[k].who, new, candidates[requests[k].who] = requests[k].copy)
      BY <1>5 DEF RequestUploadSaves
    <2> HIDE DEF new
    <2> QED
      BY <1>5, <2>1, <2>2, <2>3, EndedFree, FreeHolds, CopySaved DEF RequestUploadSaves
  <1>6. CASE CompleteReads(k)
    <2>1. /\ Grows /\ Aside(k) /\ At(k, "complete", "get")
          /\ UNCHANGED <<acceptances, candidates, applications>>
      BY <1>6, PlainGrows DEF CompleteReads, OnlyRequests, At, Aside
    <2>2. \/ Ended(k)
          \/ /\ candidates[requests[k].who] # NoDoc
             /\ Recalled(k, "info", candidates[requests[k].who])
      BY <1>1, <1>6, EndMoves, RememberMoves DEF CompleteReads
    <2>3. CASE /\ candidates[requests[k].who] # NoDoc
               /\ Recalled(k, "info", candidates[requests[k].who])
      <3>1. requests[k].who \in Candidates
        BY <1>1, <2>1 DEF RequestOK, At, CandidateOps
      <3>2. Held(requests[k].who, candidates[requests[k].who].consent)
        BY <2>3, <3>1 DEF ConsentInv, CandidateHeld
      <3>3. HeldStep
        BY <2>1, <2>3, AsideHeld DEF Recalled, Moved
      <3>4. \A d : \A u : Held(d, u) => Held(d, u)'
        BY <3>3, HeldGoesOn
      <3>5. RequestHolds(k)' /\ OthersStay(k)
        BY <2>1, <2>3, <3>2, <3>4 DEF Recalled, Moved, RequestHolds, Remembers, Recording, At
      <3> QED
        BY <2>1, <3>5, PassiveMoves
    <2> QED
      BY <1>2, <2>1, <2>2, <2>3
  <1>7. ASSUME NEW pc \in {"save", "old"}, NEW got, Went(k, pc, got),
               Remembers(k), requests[k].op = "complete", HeldStep
        PROVE  RequestHolds(k)' /\ OthersStay(k)
    <2>1. Held(requests[k].who, requests[k].copy.consent)
      BY <1>1, <1>7 DEF RequestHolds
    <2>2. \A d : \A u : Held(d, u) => Held(d, u)'
      BY <1>7, HeldGoesOn
    <2> QED
      BY <1>7, <2>1, <2>2 DEF Went, Moved, RequestHolds, Remembers, Recording, At
  <1>8. CASE CompleteChecksFile(k)
    <2>1. /\ Grows /\ Aside(k) /\ Remembers(k) /\ requests[k].op = "complete"
          /\ UNCHANGED <<acceptances, candidates, applications>>
      BY <1>8, PlainGrows DEF CompleteChecksFile, At, Remembers, Aside
    <2>2. Ended(k) \/ \E got : Went(k, "save", got)
      BY <1>1, <1>8, EndMoves, ProceedMoves DEF CompleteChecksFile
    <2>3. ASSUME NEW got, Went(k, "save", got) PROVE ConsentInv'
      <3>1. HeldStep
        BY <2>1, <2>3, AsideHeld DEF Went, Moved
      <3> QED
        BY <1>7, <2>1, <2>3, <3>1, PassiveMoves
    <2> QED
      BY <1>2, <2>1, <2>2, <2>3
  <1>9. CASE CompleteSaves(k)
    <2>1. /\ Grows /\ Aside(k) /\ Remembers(k) /\ requests[k].op = "complete"
          /\ UNCHANGED <<acceptances, applications>>
      BY <1>9, PlainGrows DEF CompleteSaves, SaveCandidate, Mark, At, Remembers, Aside
    <2> DEFINE new == Completed(requests[k].copy, requests[k].got = "taken")
    <2>2. new.consent = requests[k].copy.consent
      BY <1>1, <2>1, CompletedForms DEF RequestOK
    <2>3. SaveCandidate(requests[k].who, new, candidates[requests[k].who] = requests[k].copy)
      BY <1>9 DEF CompleteSaves, Completed
    <2> HIDE DEF new
    <2>4. Ended(k) \/ Went(k, "old", NoArg)
      BY <1>1, <1>9, EndMoves, ProceedMoves DEF CompleteSaves
    <2>5. HeldStep
      BY <2>1, <2>4, AsideHeld DEF Went, Moved, Ended
    <2>6. RequestHolds(k)' /\ OthersStay(k)
      BY <1>7, <2>1, <2>4, <2>5, EndedFree, FreeHolds
    <2> QED
      BY <2>1, <2>2, <2>3, <2>6, CopySaved
  <1>10. CASE CompleteRemovesOld(k)
    BY <1>1, <1>2, <1>10, EndMoves, PlainGrows DEF CompleteRemovesOld, At, Aside
  <1> QED
    BY <1>3, <1>4, <1>5, <1>6, <1>8, <1>9, <1>10

\* A deletion takes documents away.
LEMMA DeletionKeepsConsent ==
    ASSUME VersionsInv, ShapeInv, ConsentInv, NEW k \in Clients,
           \/ DeleteByManagerReads(k) \/ DeleteLists(k) \/ DeleteMany(k) \/ DeleteFiles(k)
           \/ DeleteDoc(k) \/ DeleteAccount(k)
    PROVE  ConsentInv'
PROOF
  <1> USE DEF people, vacancies, control
  <1>1. RequestsOK /\ StoresOK /\ RequestOK(k)
    BY DEF ShapeInv
  <1>2. ASSUME NEW pc \in {"batch", "files", "doc", "account", "job"}, NEW got, Went(k, pc, got)
        PROVE  Free(k)' /\ OthersStay(k)
    BY <1>2 DEF Went, Moved, Free, Remembers, Recording, At
  <1>3. ASSUME Free(k)' /\ OthersStay(k), Aside(k), Grows, acceptances' = acceptances,
               \A c \in Candidates : candidates'[c] \in {candidates[c], NoDoc},
               \A a \in Jobs \X Candidates : applications'[a] \in {applications[a], NoDoc}
        PROVE  ConsentInv'
    <2>1. HeldStep /\ Hands(k) /\ RequestHolds(k)'
      BY <1>3, AsideHeld, FreeHolds
    <2>2. /\ \A c \in Candidates : DocumentsOf(c)
          /\ \A a \in Jobs \X Candidates : ApplicationsOfStep(a)
      BY <1>3 DEF DocumentsOf, ApplicationsOfStep
    <2> QED
      BY <1>3, <2>1, <2>2, ConsentMoves
  <1>4. CASE DeleteByManagerReads(k)
    BY <1>4, GetOrThrowKeepsConsent DEF DeleteByManagerReads
  <1>5. CASE DeleteLists(k)
    BY <1>1, <1>2, <1>3, <1>5, ProceedMoves, PlainGrows DEF DeleteLists, OnlyRequests, At, Aside
  <1>6. CASE DeleteMany(k)
    <2>1. Aside(k)
      BY <1>1, <1>6 DEF DeleteMany, Aside, RequestOK
    <2>2. Free(k)' /\ OthersStay(k)
      BY <1>1, <1>2, <1>6, ProceedMoves DEF DeleteMany
    <2>3. Grows
      BY <1>6, PlainGrows DEF DeleteMany
    <2> QED
      BY <1>1, <1>3, <1>6, <2>1, <2>2, <2>3 DEF DeleteMany, Without, StoresOK
  <1>7. CASE DeleteFiles(k)
    <2>1. Free(k)' /\ OthersStay(k) /\ Aside(k)
      BY <1>1, <1>2, <1>7, ProceedMoves DEF DeleteFiles, At, Aside
    <2>2. Grows
      BY <1>7, PlainGrows DEF DeleteFiles
    <2> QED
      BY <1>3, <1>7, <2>1, <2>2 DEF DeleteFiles
  <1>8. CASE DeleteDoc(k)
    <2>1. Free(k)' /\ OthersStay(k) /\ Aside(k)
      BY <1>1, <1>2, <1>8, ProceedMoves DEF DeleteDoc, At, Aside
    <2>2. Grows
      BY <1>8, PlainGrows DEF DeleteDoc
    <2> QED
      BY <1>1, <1>3, <1>8, <2>1, <2>2 DEF DeleteDoc, StoresOK
  <1>9. CASE DeleteAccount(k)
    BY <1>1, <1>3, <1>9, EndMoves, EndedFree, PlainGrows DEF DeleteAccount, At, Aside
  <1> QED
    BY <1>4, <1>5, <1>6, <1>7, <1>8, <1>9

\* The terms an application is made under are no newer than the consent.
LEMMA JobsKeepConsent ==
    ASSUME VersionsInv, ShapeInv, ConsentInv, NEW k \in Clients, JobHandle(k)
    PROVE  ConsentInv'
PROOF
  <1> USE DEF people, vacancies, control
  <1>1. RequestsOK /\ StoresOK /\ RequestOK(k) /\ RequestHolds(k)
    BY DEF ShapeInv, ConsentInv
  <1>2. ASSUME Free(k)' /\ OthersStay(k), Aside(k), Grows,
               UNCHANGED <<acceptances, candidates, applications>>
        PROVE  ConsentInv'
    BY <1>2, FreeHolds, PassiveMoves
  <1>3. ASSUME NEW pc, NEW got, Went(k, pc, got), requests[k].op \in {"job", "remove"},
               pc \notin {"consent", "record", "mirror"}
        PROVE  Free(k)' /\ OthersStay(k)
    BY <1>3 DEF Went, Moved, Free, Remembers, Recording, At
  <1>4. ASSUME UNCHANGED <<document, acceptances, cut>>, outdated \subseteq outdated'
        PROVE  Grows
    BY <1>4, PlainGrows
  <1>5. CASE UpdateJobReads(k)
    BY <1>1, <1>2, <1>3, <1>4, <1>5, ProceedMoves, EndMoves, EndedFree
       DEF UpdateJobReads, OnlyRequests, At, Aside
  <1>6. CASE UpdateJobSaves(k)
    BY <1>1, <1>2, <1>4, <1>6, EndMoves, EndedFree DEF UpdateJobSaves, At, Aside
  <1>7. CASE RemoveJobReads(k)
    BY <1>1, <1>2, <1>3, <1>4, <1>7, ProceedMoves, EndMoves, EndedFree
       DEF RemoveJobReads, OnlyRequests, At, Aside
  <1>8. CASE RemoveJobLists(k)
    BY <1>1, <1>2, <1>3, <1>4, <1>8, ProceedMoves DEF RemoveJobLists, OnlyRequests, At, Aside
  <1>9. CASE RemoveJobDeletes(k)
    BY <1>1, <1>2, <1>4, <1>9, EndMoves, EndedFree DEF RemoveJobDeletes, At, Aside
  <1>10. CASE ApplyReadsJob(k)
    <2>1. Ended(k) \/ Went(k, "get", NoArg)
      BY <1>1, <1>10, ProceedMoves, EndMoves DEF ApplyReadsJob
    <2>2. Free(k)' /\ OthersStay(k)
      BY <1>10, <2>1, EndedFree
         DEF ApplyReadsJob, Went, Moved, Free, Remembers, Recording, At
    <2> QED
      BY <1>2, <1>4, <1>10, <2>2 DEF ApplyReadsJob, OnlyRequests, At, Aside
  <1>11. CASE ApplyReadsCandidate(k)
    BY <1>11, GetOrThrowKeepsConsent DEF ApplyReadsCandidate
  <1>12. CASE ApplyReadsTerms(k)
    <2>1. /\ At(k, "apply", "terms") /\ Aside(k) /\ Grows
          /\ UNCHANGED <<acceptances, candidates, applications>>
      BY <1>4, <1>12 DEF ApplyReadsTerms, OnlyRequests, At, Aside
    <2>2. CASE ~MayApply(requests[k].copy)
      BY <1>1, <1>2, <1>12, <2>1, <2>2, EndMoves, EndedFree DEF ApplyReadsTerms
    <2>3. CASE MayApply(requests[k].copy)
      <3>1. PICK c, u, required : /\ c = requests[k].who /\ u = requests[k].copy.consent
                                  /\ required = header.required
        OBVIOUS
      <3>2. Went(k, "existing", required)
        BY <1>1, <1>12, <2>3, <3>1, ProceedMoves DEF ApplyReadsTerms
      <3>3. Held(c, u)
        BY <1>1, <2>1, <3>1 DEF RequestHolds, Remembers, At
      <3>4. required = Unset \/ (u # Unset /\ ~Less(u, required))
        BY <2>3, <3>1 DEF MayApply, NeedsConsent
      <3>5. required \in Versions /\ ~Less(header.published, required)
        <4>1. header.published \in Versions /\ header.required \in Versions
          BY DEF VersionsInv
        <4>2. CASE header.published = Unset
          BY <3>1, <4>1, <4>2, LessIsIrreflexive DEF VersionsInv
        <4>3. CASE header.published # Unset
          BY <3>1, <4>1, <4>3 DEF VersionsInv, HeaderNamesItsVersions
        <4> QED
          BY <4>2, <4>3
      <3>6. Backed(c, required)
        <4>1. CASE required = Unset
          BY <4>1 DEF Backed
        <4>2. CASE u # Unset /\ ~Less(u, required)
          <5>1. u \in Versions
            BY <3>3 DEF Held
          <5>2. CASE c \in cut
            BY <5>2 DEF Backed
          <5>3. ASSUME NEW v \in Versions, <<c, v>> \in acceptances, ~Less(v, u)
                PROVE  Backed(c, required)
            <6>1. ~Less(v, required)
              BY <3>5, <4>2, <5>1, <5>3, NotLessIsTransitive
            <6> QED
              BY <5>3, <6>1 DEF Backed
          <5>4. ASSUME NEW i \in Clients, Backing(i, c, u)
                PROVE  Backed(c, required)
            <6>1. requests[i].pc = "record" => requests[i].got \in Versions
              BY DEF ConsentInv, RequestHolds, Recording, VersionsInv
            <6>2. Backing(i, c, required)
              BY <3>5, <4>2, <5>1, <5>4, <6>1, NotLessIsTransitive DEF Backing
            <6> QED
              BY <6>2 DEF Backed
          <5> QED
            BY <3>3, <4>2, <5>2, <5>3, <5>4 DEF Held, Backed
        <4> QED
          BY <3>4, <4>1, <4>2
      <3>7. HeldStep
        BY <2>1, <3>2, AsideHeld DEF Went, Moved
      <3>8. Held(c, required)'
        <4>1. Held(c, required)
          BY <3>5, <3>6 DEF Held
        <4> QED
          BY <3>7, <4>1, HeldGoesOn
      <3>9. RequestHolds(k)' /\ OthersStay(k)
        BY <2>1, <3>1, <3>2, <3>8 DEF Went, Moved, RequestHolds, Remembers, Recording, At
      <3> QED
        BY <2>1, <3>9, PassiveMoves
    <2> QED
      BY <2>2, <2>3
  <1>13. CASE ApplyReadsExisting(k)
    <2>1. /\ At(k, "apply", "existing") /\ Aside(k) /\ Grows
          /\ UNCHANGED <<acceptances, candidates, applications>>
      BY <1>4, <1>13 DEF ApplyReadsExisting, OnlyRequests, At, Aside
    <2>2. CASE Ended(k)
      BY <1>2, <2>1, <2>2, EndedFree
    <2>3. CASE Went(k, "save", requests[k].got)
      <3>1. Held(requests[k].who, requests[k].got)
        BY <1>1, <2>1 DEF RequestHolds, At
      <3>2. HeldStep
        BY <2>1, <2>3, AsideHeld DEF Went, Moved
      <3>3. \A d : \A u : Held(d, u) => Held(d, u)'
        BY <3>2, HeldGoesOn
      <3>4. RequestHolds(k)' /\ OthersStay(k)
        BY <2>1, <2>3, <3>1, <3>3 DEF Went, Moved, RequestHolds, Remembers, Recording, At
      <3> QED
        BY <2>1, <3>4, PassiveMoves
    <2> QED
      BY <1>1, <1>13, <2>2, <2>3, ProceedMoves, EndMoves DEF ApplyReadsExisting
  <1>14. ASSUME Ended(k), Aside(k), Grows, UNCHANGED <<acceptances, candidates>>,
                NEW b, NEW new, applications' = [applications EXCEPT ![b] = new],
                new = NoDoc \/ Held(b[2], new.under)
         PROVE  ConsentInv'
    <2>1. HeldStep /\ Hands(k) /\ RequestHolds(k)' /\ OthersStay(k)
      BY <1>14, AsideHeld, EndedFree, FreeHolds
    <2>2. \A c \in Candidates : DocumentsOf(c)
      BY <1>14 DEF DocumentsOf
    <2>3. new = NoDoc \/ Held(b[2], new.under)'
      BY <1>14, <2>1, HeldGoesOn
    <2>4. ASSUME NEW a \in Jobs \X Candidates PROVE ApplicationsOfStep(a)
      <3>1. applications'[a] = IF a = b THEN new ELSE applications[a]
        BY <1>1, <1>14 DEF StoresOK
      <3>2. CASE a = b
        BY <2>3, <3>1, <3>2 DEF ApplicationsOfStep
      <3>3. CASE a # b
        BY <3>1, <3>3 DEF ApplicationsOfStep
      <3> QED
        BY <3>2, <3>3
    <2> QED
      BY <1>14, <2>1, <2>2, <2>4, ConsentMoves
  <1>15. CASE ApplySaves(k)
    <2>1. PICK b, new : b = <<requests[k].arg, requests[k].who>>
                        /\ new = Application("received", requests[k].got)
      OBVIOUS
    <2>2. new.under = requests[k].got /\ b[2] = requests[k].who
      BY <2>1 DEF Application
    <2>3. Held(b[2], new.under)
      BY <1>1, <1>15, <2>2 DEF ApplySaves, RequestHolds, At
    <2>4. Ended(k) /\ Aside(k) /\ Grows
      BY <1>1, <1>4, <1>15, EndMoves DEF ApplySaves, At, Aside
    <2> QED
      BY <1>14, <1>15, <2>1, <2>3, <2>4 DEF ApplySaves
  <1>16. CASE WithdrawReads(k)
    <2>1. Ended(k) \/ Recalled(k, "delete", applications[<<requests[k].arg, requests[k].who>>])
      BY <1>1, <1>16, EndMoves, RememberMoves DEF WithdrawReads
    <2>2. Free(k)' /\ OthersStay(k)
      BY <1>16, <2>1, EndedFree
         DEF WithdrawReads, Recalled, Moved, Free, Remembers, Recording, At
    <2> QED
      BY <1>2, <1>4, <1>16, <2>2 DEF WithdrawReads, OnlyRequests, At, Aside
  <1>17. CASE WithdrawDeletes(k)
    <2>1. Ended(k) /\ Aside(k) /\ Grows
      BY <1>1, <1>4, <1>17, EndMoves DEF WithdrawDeletes, At, Aside
    <2> QED
      BY <1>14, <1>17, <2>1 DEF WithdrawDeletes
  <1>18. CASE UpdateStatusReads(k)
    <2> DEFINE a == <<requests[k].arg, requests[k].who>>
    <2>1. /\ At(k, "status", "get app") /\ Aside(k) /\ Grows
          /\ UNCHANGED <<acceptances, candidates, applications>>
      BY <1>4, <1>18 DEF UpdateStatusReads, OnlyRequests, At, Aside
    <2>2. CASE applications[a] = NoDoc
      BY <1>1, <1>2, <1>18, <2>1, <2>2, EndMoves, EndedFree DEF UpdateStatusReads
    <2>3. CASE applications[a] # NoDoc
      <3>1. Recalled(k, "save", applications[a])
        BY <1>1, <1>18, <2>3, RememberMoves DEF UpdateStatusReads
      <3>2. a \in Jobs \X Candidates /\ a[2] = requests[k].who
        BY <1>1, <2>1 DEF RequestOK, CandidateOps, At
      <3>3. Held(requests[k].who, applications[a].under)
        BY <2>3, <3>2 DEF ConsentInv, ApplicationHeld
      <3>4. HeldStep
        BY <2>1, <3>1, AsideHeld DEF Recalled, Moved
      <3>5. \A d : \A u : Held(d, u) => Held(d, u)'
        BY <3>4, HeldGoesOn
      <3>6. RequestHolds(k)' /\ OthersStay(k)
        BY <2>1, <3>1, <3>3, <3>5 DEF Recalled, Moved, RequestHolds, Remembers, Recording, At
      <3> QED
        BY <2>1, <3>6, PassiveMoves
    <2> QED
      BY <2>2, <2>3
  <1>19. CASE UpdateStatusSaves(k)
    <2>1. PICK status : applications' = [applications EXCEPT
              ![<<requests[k].arg, requests[k].who>>] = [requests[k].copy EXCEPT !.status = status]]
      BY <1>19 DEF UpdateStatusSaves
    <2>2. PICK b, new : b = <<requests[k].arg, requests[k].who>>
                        /\ new = [requests[k].copy EXCEPT !.status = status]
      OBVIOUS
    <2>3. IsApplication(requests[k].copy) /\ Held(requests[k].who, requests[k].copy.under)
      BY <1>1, <1>19 DEF UpdateStatusSaves, RequestHolds, RequestOK, At
    <2>4. new.under = requests[k].copy.under /\ b[2] = requests[k].who
      BY <2>2, <2>3, ApplicationForms
    <2>5. Ended(k) /\ Aside(k) /\ Grows /\ UNCHANGED <<acceptances, candidates>>
      BY <1>1, <1>4, <1>19, EndMoves DEF UpdateStatusSaves, At, Aside
    <2> QED
      BY <1>14, <2>1, <2>2, <2>3, <2>4, <2>5
  <1> QED
    BY <1>5, <1>6, <1>7, <1>8, <1>9, <1>10, <1>11, <1>12, <1>13, <1>15, <1>16, <1>17, <1>18, <1>19
       DEF JobHandle

\* A request that stops: its candidate is no longer promised anything.
LEMMA StopKeepsConsent ==
    ASSUME VersionsInv, ShapeInv, ConsentInv, NEW k \in Clients, Stop(k)
    PROVE  ConsentInv'
PROOF
  <1>1. Ended(k) /\ StoresSame
    BY EndMoves DEF Stop, ShapeInv, StoresSame
  <1>2. /\ cut \subseteq cut'
        /\ requests[k].op \in {"signup", "accept"} => requests[k].who \in cut'
    <2>1. CASE requests[k].op \in {"signup", "accept"}
      <3>1. cut' = cut \cup {requests[k].who}
        BY <2>1 DEF Stop, At
      <3> QED
        BY <3>1
    <2>2. CASE requests[k].op \notin {"signup", "accept"} /\ At(k, "delete", "doc")
      <3>1. cut' = cut \cup {WithoutFiles(requests[k].who)}
        BY <2>2 DEF Stop, At
      <3> QED
        BY <2>2, <3>1
    <2>3. CASE requests[k].op \notin {"signup", "accept"} /\ ~At(k, "delete", "doc")
      <3>1. cut' = cut
        BY <2>3 DEF Stop
      <3> QED
        BY <2>3, <3>1
    <2> QED
      BY <2>1, <2>2, <2>3
  <1>3. Grows /\ UNCHANGED <<acceptances, candidates, applications>>
    BY <1>1, <1>2, PlainGrows DEF Stop, StoresSame, people, vacancies
  <1>4. Settles(k) /\ Hands(k)
    BY <1>2 DEF Settles, Hands, Backing, Covering, Backed
  <1> QED
    BY <1>1, <1>3, <1>4, EndedFree, FreeHolds, ConsentQuiet

\* What no request does leaves the consents as they are.
LEMMA NoRequestMoves ==
    ASSUME VersionsInv, ShapeInv, ConsentInv,
           UNCHANGED <<header, versions, requests, acceptances, candidates, applications, cut>>,
           outdated \subseteq outdated'
    PROVE  ConsentInv'
PROOF
  <1>1. Grows
    BY UnchangedKeeps DEF Grows
  <1>2. HeldStep
    BY DEF HeldStep, Held, Backed, Backing
  <1>3. \A i \in Clients : RequestHolds(i)'
    BY <1>1, <1>2, OtherRequestsHold
  <1>4. \A c : \A u : Held(c, u) => Held(c, u)'
    BY <1>2, HeldGoesOn
  <1>5. AcceptancesOK'
    BY DEF ConsentInv, AcceptancesOK
  <1>6. \A c \in Candidates : CandidateHeld(c)'
    BY <1>4 DEF ConsentInv, CandidateHeld
  <1>7. \A a \in Jobs \X Candidates : ApplicationHeld(a)'
    BY <1>4 DEF ConsentInv, ApplicationHeld
  <1>8. \A c \in Candidates : Forward(c)'
    BY DEF ConsentInv, Forward, Covering
  <1> QED
    BY <1>3, <1>5, <1>6, <1>7, <1>8 DEF ConsentInv

LEMMA StepKeepsConsent ==
    ASSUME VersionsInv, ShapeInv, ConsentInv, [RecruitmentNext]_vars
    PROVE  ConsentInv'
PROOF
  <1>0. VersionsInv' /\ Kept
    BY StepKeeps
  <1>1. CASE UNCHANGED vars
    BY <1>1, NoRequestMoves DEF vars, document, control, people, vacancies
  <1>2. ASSUME NEW k \in Clients, Asks(k) PROVE ConsentInv'
    BY <1>2, AsksKeepConsent
  <1>3. ASSUME NEW k \in Clients, Handle(k) PROVE ConsentInv'
    BY <1>0, <1>3, LegalKeepsConsent, SignupKeepsConsent, AcceptKeepsConsent, MirrorKeepsConsent,
       ProfileKeepsConsent, DeletionKeepsConsent, JobsKeepConsent
       DEF Handle, CandidateHandle, StoresSame
  <1>4. ASSUME NEW k \in Clients, Stop(k) PROVE ConsentInv'
    BY <1>4, StopKeepsConsent
  <1>5. CASE DiscardDraft /\ UNCHANGED <<people, vacancies>>
    BY <1>5, NoRequestMoves DEF DiscardDraft, control, people, vacancies
  <1>6. ASSUME NEW c \in Candidates, NEW r \in Resumes, NEW content \in {"ok", "bad"},
               FileArrives(c, r, content)
        PROVE  ConsentInv'
    BY <1>6, NoRequestMoves DEF FileArrives, Mark, document, vacancies
  <1>7. ASSUME NEW j \in Jobs, CreateJob(j) PROVE ConsentInv'
    BY <1>7, NoRequestMoves DEF CreateJob, document, control, people
  <1> QED
    BY <1>1, <1>2, <1>3, <1>4, <1>5, <1>6, <1>7 DEF RecruitmentNext

LEMMA InitHasConsent ==
    ASSUME RecruitmentInit
    PROVE  ConsentInv
PROOF
  <1>1. VersionsInv /\ requests = [k \in Clients |-> Idle]
    BY InitGivesVersions DEF RecruitmentInit, LegalInit
  <1>2. \A k \in Clients : RequestHolds(k)
    BY <1>1 DEF RequestHolds, Idle, Remembers, Recording, At
  <1> DEFINE c == CHOOSE d \in Candidates : TRUE
             r == CHOOSE f \in Resumes : TRUE
             j == CHOOSE i \in Jobs : TRUE
  <1>3. PICK live \in BOOLEAN, consent \in DOMAIN versions \cup {Unset},
             resume \in {"none", "awaited", "ok"}, applied \in BOOLEAN :
          Stage(c, r, j, live, consent, resume, applied)
    BY DEF RecruitmentInit
  <1> HIDE DEF c, r, j
  <1> DEFINE doc == Candidate(consent, IF resume = "ok" THEN r ELSE NoFile,
                                       IF resume = "awaited" THEN r ELSE NoFile)
             required == IF consent = Unset THEN Unset ELSE header.required
             app == Application("received", required)
  <1>4. /\ candidates = [d \in Candidates |-> IF live /\ d = c THEN doc ELSE NoDoc]
        /\ applications = [a \in Jobs \X Candidates |->
                IF applied /\ a = <<j, c>> THEN app ELSE NoDoc]
        /\ acceptances = IF consent = Unset THEN {} ELSE {<<c, consent>>}
        /\ applied => consent = Unset \/ ~Less(consent, header.required)
    BY <1>3 DEF Stage
  <1>5. doc.consent = consent /\ app.under = required
    BY CandidateIs DEF Application
  <1>6. /\ consent \in Versions /\ ~Less(consent, consent) /\ ~Less(header.published, consent)
        /\ header.published \in Versions /\ header.required \in Versions /\ Unset \in Versions
        /\ ~Less(header.published, Unset)
    BY <1>1, LessIsIrreflexive, NothingIsBelowUnset
       DEF VersionsInv, HeaderNamesItsVersions, Versions, Unset
  <1>7. ~Less(header.published, header.required)
    BY <1>1, <1>6, LessIsIrreflexive DEF VersionsInv, HeaderNamesItsVersions
  <1> HIDE DEF doc, app
  <1>8. Held(c, consent)
    BY <1>4, <1>6 DEF Held, Backed
  <1>9. applied => Held(c, required)
    BY <1>4, <1>6, <1>7 DEF Held, Backed
  <1>10. AcceptancesOK
    BY <1>4 DEF AcceptancesOK
  <1>11. ASSUME NEW d \in Candidates PROVE CandidateHeld(d) /\ Forward(d)
    BY <1>4, <1>5, <1>6, <1>8 DEF CandidateHeld, Forward
  <1>12. ASSUME NEW a \in Jobs \X Candidates PROVE ApplicationHeld(a)
    <2>1. applications[a] # NoDoc => applied /\ a[2] = c /\ applications[a] = app
      BY <1>4
    <2> QED
      BY <1>5, <1>9, <2>1 DEF ApplicationHeld
  <1> QED
    BY <1>2, <1>10, <1>11, <1>12 DEF ConsentInv

\* The consents of a candidate are what is on record of them.
LEMMA ConsentsAre ==
    ASSUME ConsentInv, NEW c, NEW v, <<c, v>> \in acceptances
    PROVE  v \in Consents(c)
PROOF BY DEF ConsentInv, AcceptancesOK, Consents

LEMMA TheAnswersAgree ==
    ASSUME VersionsInv, ConsentInv, NEW c \in Candidates,
           candidates[c] # NoDoc, c \notin outdated \cup cut, ~Consenting(c)
    PROVE  NeedsConsent(candidates[c]) <=> c \in PendingPeople
PROOF
  <1> DEFINE u == candidates[c].consent
  <1>1. c \in PendingPeople <=> Pending(c)
    BY DEF PendingPeople, MustAccept
  <1>2. /\ header.required \in Versions /\ DOMAIN versions \subseteq Versions /\ Unset \in Versions
        /\ u \in Versions /\ Backed(c, u) /\ Forward(c)
    BY DEF VersionsInv, ConsentInv, CandidateHeld, Held, Versions, Unset
  <1>3. \A i \in Clients : ~Covering(i, c, Unset) /\ \A v : ~Covering(i, c, v) /\ ~Backing(i, c, v)
    BY DEF Consenting, Covering, Backing
  <1>4. \A v \in Versions : <<c, v>> \in acceptances => ~Less(u, v)
    BY <1>2, <1>3 DEF Forward
  <1>5. u = Unset \/ \E v \in Consents(c) : ~Less(v, u)
    BY <1>2, <1>3, ConsentsAre DEF Backed
  <1>6. \A v \in Consents(c) : v \in Versions /\ ~Less(u, v)
    BY <1>2, <1>4 DEF Consents
  <1> HIDE DEF u
  <1>7. ASSUME header.required # Unset, u = Unset \/ Less(u, header.required)
        PROVE  \A v \in Consents(c) : Less(v, header.required)
    <2>1. Less(u, header.required)
      BY <1>2, <1>7, NothingIsBelowUnset
    <2> QED
      BY <1>2, <1>6, <2>1, NotLessIsTransitive
  <1>8. ASSUME header.required # Unset, \A v \in Consents(c) : Less(v, header.required)
        PROVE  u = Unset \/ Less(u, header.required)
    BY <1>2, <1>5, <1>6, <1>8, NotLessIsTransitive
  <1> QED
    BY <1>1, <1>7, <1>8 DEF NeedsConsent, Pending, u

LEMMA ConsentInvImplies ==
    ASSUME VersionsInv, ShapeInv, ConsentInv
    PROVE  ConsentIsOnRecord
PROOF
  <1>1. TheTwoAnswersAgree
    BY TheAnswersAgree DEF TheTwoAnswersAgree
  <1>2. AppliedUnderConsent
    <2> SUFFICES ASSUME NEW a \in DOMAIN applications, applications[a] # NoDoc,
                        applications[a].under # Unset, a[2] \notin cut, ~Consenting(a[2])
                 PROVE  \E v \in Consents(a[2]) : ~Less(v, applications[a].under)
      BY DEF AppliedUnderConsent
    <2>1. a \in Jobs \X Candidates
      BY DEF ShapeInv, StoresOK
    <2>2. Backed(a[2], applications[a].under)
      BY <2>1 DEF ConsentInv, ApplicationHeld, Held
    <2>3. \A i \in Clients : \A v : ~Backing(i, a[2], v)
      BY DEF Consenting, Backing
    <2> QED
      BY <2>2, <2>3, ConsentsAre DEF Backed
  <1> QED
    BY <1>1, <1>2 DEF ConsentIsOnRecord

\* The strengthening of ConsentIsOnRecord, by every step of every request.
THEOREM ConsentInvariance == RecruitmentSpec => [](VersionsInv /\ ShapeInv /\ ConsentInv)
PROOF
  <1>1. RecruitmentInit => VersionsInv /\ ShapeInv /\ ConsentInv
    BY InitGivesVersions, InitHasShape, InitHasConsent
  <1>2. VersionsInv /\ ShapeInv /\ ConsentInv /\ [RecruitmentNext]_vars
        => (VersionsInv /\ ShapeInv /\ ConsentInv)'
    BY StepKeeps, StepKeepsShape, StepKeepsConsent
  <1> QED
    BY <1>1, <1>2, PTL DEF RecruitmentSpec

\* Whoever must accept the terms is asked, by both answers, and every
\* application was made under an acceptance that can be shown.
THEOREM TheConsentIsOnRecord == RecruitmentSpec => []ConsentIsOnRecord
PROOF
  <1>1. VersionsInv /\ ShapeInv /\ ConsentInv => ConsentIsOnRecord
    BY ConsentInvImplies
  <1> QED
    BY <1>1, ConsentInvariance, PTL

-----------------------------------------------------------------------------
(* Nothing is orphaned: what a step does to files and documents *)

UsedStep == \A c \in Candidates : \A r : Used(c, r) => Used(c, r)'

\* A file nobody was told of stays so, but for the request that sends it.
UnusedStep ==
    \A c \in Candidates : \A r \in Resumes :
        files[c][r] = "unused" =>
            \/ files'[c][r] = "unused"
            \/ \A i \in Clients : requests'[i] = requests[i] /\ requests[i].op = "upload" =>
                  requests[i].arg # r

\* The files a document names stay there.
ThereStep(c) ==
    candidates'[c] # NoDoc /\ c \notin outdated' =>
        \A r : r \in {candidates'[c].resume, candidates'[c].pending} /\ FileThere(c, r) =>
            FileThere(c, r)'

\* What arrives after a deletion removed the files is history's.
ArriveStep(c) ==
    NoFilesOf(c) =>
        \/ NoFilesOf(c)' \/ c \in outdated'
        \/ \A i \in Clients : requests'[i] = requests[i] =>
              ~(At(i, "delete", "doc") /\ requests[i].who = c)

ResumeFollows(c) ==
    \/ candidates'[c].resume = NoFile
    \/ candidates[c] # NoDoc /\ candidates'[c].resume = candidates[c].resume
    \/ /\ candidates[c] # NoDoc /\ candidates'[c].resume = candidates[c].pending
       /\ FileThere(c, candidates[c].resume)'

PendingFollows(c) ==
    \/ candidates'[c].pending = NoFile
    \/ candidates[c] # NoDoc /\ candidates'[c].pending = candidates[c].pending
    \/ candidates'[c].pending \in Resumes /\ files[c][candidates'[c].pending] = "unused"

\* What is written names files of the document before, or one just told of.
DocumentStep(c) ==
    \/ candidates'[c] \in {candidates[c], NoDoc}
    \/ /\ Used(c, candidates[c].resume)' /\ Used(c, candidates[c].pending)'
       /\ c \in outdated' \/ (ResumeFollows(c) /\ PendingFollows(c))

AccountStep(c) ==
    /\ accounts'[c] = "new" => accounts[c] = "new"
    /\ accounts'[c] = "deleted" => accounts[c] = "deleted" \/ Empty(c)' \/ c \in cut'

\* The document of a signup, with no deletion under way.
Filled(c) ==
    /\ accounts'[c] = "live"
    /\ \A i \in Clients : requests'[i].who = c => requests'[i].op # "delete" /\ ~Early(i)'

EmptyStep(c) == Empty(c) => Empty(c)' \/ Filled(c)

FileSteps ==
    /\ UsedStep /\ UnusedStep
    /\ \A c \in Candidates : ThereStep(c) /\ ArriveStep(c)

PersonSteps ==
    \A c \in Candidates : DocumentStep(c) /\ AccountStep(c) /\ EmptyStep(c)

Aging == outdated \subseteq outdated' /\ cut \subseteq cut'

LEMMA OtherFilesKept ==
    ASSUME ShapeInv, BelongInv, Aging, FileSteps, PersonSteps, NEW i \in Clients,
           requests'[i] = requests[i]
    PROVE  FilesKept(i)'
PROOF
  <1>1. PICK c, copy, r, got, pc, op :
            /\ c = requests[i].who /\ copy = requests[i].copy /\ r = requests[i].arg
            /\ got = requests[i].got /\ pc = requests[i].pc /\ op = requests[i].op
    OBVIOUS
  <1>2. FilesKept(i) /\ RequestOK(i)
    BY DEF BelongInv, ShapeInv
  <1>3. /\ requests'[i].who = c /\ requests'[i].copy = copy /\ requests'[i].arg = r
        /\ requests'[i].got = got /\ requests'[i].pc = pc /\ requests'[i].op = op
    BY <1>1
  <1>4. Remembers(i)' <=> Remembers(i)
    BY <1>1, <1>3 DEF Remembers
  <1>5. op = "upload" => r \in Resumes /\ files'[c][r] = "unused"
    <2>1. op = "upload" => c \in Candidates /\ r \in Resumes /\ files[c][r] = "unused"
      BY <1>1, <1>2 DEF FilesKept, RequestOK, CandidateOps
    <2> QED
      BY <1>1, <2>1 DEF FileSteps, UnusedStep
  <1>6. Remembers(i) => c \in Candidates
    BY <1>1, <1>2 DEF Remembers, RequestOK, Recording, CandidateOps
  <1>7. Remembers(i) => Used(c, copy.resume) /\ Used(c, copy.pending)
    BY <1>1, <1>2 DEF FilesKept
  <1>8. Remembers(i) => Used(c, copy.resume)' /\ Used(c, copy.pending)'
    BY <1>6, <1>7 DEF FileSteps, UsedStep
  <1>9. op = "complete" /\ pc \in {"info", "save"} => copy.pending # NoFile
    BY <1>1, <1>2 DEF FilesKept
  <1>10. op = "complete" /\ pc = "old" => copy.resume # NoFile
    BY <1>1, <1>2 DEF FilesKept, At
  <1>11. ASSUME op = "complete", pc = "save", got = "taken", c \notin outdated',
                candidates'[c] # NoDoc, candidates'[c].pending = copy.pending
         PROVE  FileThere(c, copy.pending)'
    <2>1. Remembers(i) /\ c \notin outdated /\ copy.pending # NoFile /\ c \in Candidates
      BY <1>1, <1>6, <1>9, <1>11 DEF Remembers, Aging
    <2>2. files[c][copy.pending] # "unused"
      BY <1>7, <2>1 DEF Used
    <2>3. candidates[c] # NoDoc /\ candidates[c].pending = copy.pending
      BY <1>11, <2>1, <2>2 DEF PersonSteps, DocumentStep, PendingFollows
    <2>4. FileThere(c, copy.pending)
      BY <1>1, <1>2, <1>11, <2>1, <2>3 DEF FilesKept, At
    <2> QED
      BY <1>11, <2>1, <2>4 DEF FileSteps, ThereStep
  <1>12. ASSUME op = "complete", pc = "old", c \notin outdated', candidates'[c] # NoDoc
         PROVE  copy.resume \notin {candidates'[c].resume, candidates'[c].pending}
    <2>1. Remembers(i) /\ c \notin outdated /\ copy.resume # NoFile /\ c \in Candidates
      BY <1>1, <1>6, <1>10, <1>12 DEF Remembers, Aging
    <2>2. files[c][copy.resume] # "unused"
      BY <1>7, <2>1 DEF Used
    <2>3. candidates[c] # NoDoc => copy.resume \notin {candidates[c].resume, candidates[c].pending}
      BY <1>1, <1>2, <1>12, <2>1 DEF FilesKept, At
    <2> QED
      BY <1>12, <2>1, <2>2, <2>3
         DEF PersonSteps, DocumentStep, ResumeFollows, PendingFollows
  <1> QED
    BY <1>3, <1>4, <1>5, <1>8, <1>9, <1>10, <1>11, <1>12 DEF FilesKept, At

LEMMA OtherDeletionsKept ==
    ASSUME ShapeInv, BelongInv, Aging, FileSteps, PersonSteps, NEW i \in Clients,
           requests'[i] = requests[i]
    PROVE  DeletionKept(i)'
PROOF
  <1>1. PICK c : c = requests[i].who
    OBVIOUS
  <1>2. DeletionKept(i) /\ RequestOK(i)
    BY DEF BelongInv, ShapeInv
  <1>3. requests[i].op \in {"signup", "delete"} => c \in Candidates
    BY <1>1, <1>2 DEF RequestOK, CandidateOps
  <1>4. c \in Candidates => (Empty(c) => Empty(c)' \/ Filled(c))
    BY DEF PersonSteps, EmptyStep
  <1>5. Early(i)' <=> Early(i)
    BY DEF Early
  <1>6. Early(i) => Empty(c)'
    <2>1. Early(i) => c \in Candidates /\ Empty(c) /\ ~Filled(c)
      BY <1>1, <1>2, <1>3, <1>5 DEF Early, DeletionKept, Filled
    <2> QED
      BY <1>4, <2>1
  <1>7. requests[i].op = "signup" /\ requests[i].pc \in {"terms", "save", "undo"} => accounts'[c] # "new"
    BY <1>1, <1>2, <1>3 DEF DeletionKept, PersonSteps, AccountStep
  <1>8. At(i, "delete", "doc") => c \in outdated' \cup cut' \/ NoFilesOf(c)'
    <2> SUFFICES ASSUME At(i, "delete", "doc") PROVE c \in outdated' \cup cut' \/ NoFilesOf(c)'
      OBVIOUS
    <2>1. c \in outdated \cup cut \/ NoFilesOf(c)
      BY <1>1, <1>2 DEF DeletionKept
    <2>2. c \in Candidates
      BY <1>3 DEF At
    <2> QED
      BY <1>1, <2>1, <2>2 DEF Aging, FileSteps, ArriveStep
  <1>9. At(i, "delete", "account") => c \in cut' \/ Empty(c)'
    <2> SUFFICES ASSUME At(i, "delete", "account") PROVE c \in cut' \/ Empty(c)'
      OBVIOUS
    <2>1. c \in cut \/ Empty(c)
      BY <1>1, <1>2 DEF DeletionKept
    <2>2. c \in Candidates /\ ~Filled(c)
      BY <1>1, <1>3 DEF At, Filled
    <2> QED
      BY <1>4, <2>1, <2>2 DEF Aging
  <1>10. requests'[i].who = c
    BY <1>1
  <1> QED
    BY <1>5, <1>6, <1>7, <1>8, <1>9, <1>10 DEF DeletionKept, At

LEMMA CandidatesAreKept ==
    ASSUME BelongInv, Aging, FileSteps, PersonSteps, NEW c \in Candidates
    PROVE  ResumeKept(c)' /\ AccountKept(c)'
PROOF
  <1>1. ResumeKept(c) /\ AccountKept(c)
    BY DEF BelongInv
  <1>2. DocumentStep(c) /\ AccountStep(c) /\ EmptyStep(c) /\ ThereStep(c)
    BY DEF FileSteps, PersonSteps
  <1>3. AccountKept(c)'
    BY <1>1, <1>2 DEF AccountKept, AccountStep, EmptyStep, Filled, Aging
  <1>4. ASSUME candidates'[c] # NoDoc
        PROVE  Used(c, candidates[c].resume)' /\ Used(c, candidates[c].pending)'
    <2>1. CASE candidates'[c] = candidates[c]
      <3>1. PICK r, s : r = candidates[c].resume /\ s = candidates[c].pending
        OBVIOUS
      <3>2. Used(c, r)' /\ Used(c, s)'
        BY <1>1, <1>4, <2>1, <3>1 DEF ResumeKept, FileSteps, UsedStep
      <3> QED
        BY <2>1, <3>1, <3>2
    <2> QED
      BY <1>2, <1>4, <2>1 DEF DocumentStep
  <1>5. ASSUME candidates'[c] # NoDoc, c \notin outdated', candidates'[c].resume # NoFile
        PROVE  FileThere(c, candidates[c].resume)'
    <2>1. CASE candidates[c] # NoDoc /\ candidates'[c].resume = candidates[c].resume
      <3>1. PICK r : r = candidates[c].resume
        OBVIOUS
      <3>2. FileThere(c, r)
        BY <1>1, <1>5, <2>1, <3>1 DEF ResumeKept, Aging
      <3>3. FileThere(c, r)'
        BY <1>2, <1>5, <2>1, <3>1, <3>2 DEF ThereStep
      <3> QED
        BY <2>1, <3>1, <3>3
    <2> QED
      BY <1>2, <1>5, <2>1 DEF DocumentStep, ResumeFollows
  <1> QED
    BY <1>3, <1>4, <1>5 DEF ResumeKept

LEMMA BelongMoves ==
    ASSUME ShapeInv, BelongInv, Aging, FileSteps, PersonSteps, NEW k \in Clients, OthersStay(k),
           FilesKept(k)', DeletionKept(k)', \A i \in Clients \ {k} : Distinct(i, k)'
    PROVE  BelongInv'
PROOF
  <1>1. \A i \in Clients : FilesKept(i)' /\ DeletionKept(i)'
    BY OtherFilesKept, OtherDeletionsKept DEF OthersStay
  <1>2. ASSUME NEW j \in Clients, NEW i \in Clients \ {j} PROVE Distinct(i, j)'
    <2>1. CASE j = k
      BY <2>1
    <2>2. CASE i = k
      BY <1>2, <2>2 DEF Distinct
    <2>3. CASE i # k /\ j # k
      BY <2>3 DEF BelongInv, Distinct, OthersStay
    <2> QED
      BY <2>1, <2>2, <2>3
  <1> QED
    BY <1>1, <1>2, CandidatesAreKept DEF BelongInv

LEMMA BelongStays ==
    ASSUME ShapeInv, BelongInv, Aging, FileSteps, PersonSteps, requests' = requests
    PROVE  BelongInv'
PROOF
  <1>1. \A i \in Clients : FilesKept(i)' /\ DeletionKept(i)'
    BY OtherFilesKept, OtherDeletionsKept
  <1>2. \A j \in Clients : \A i \in Clients \ {j} : Distinct(i, j)'
    BY DEF BelongInv, Distinct
  <1> QED
    BY <1>1, <1>2, CandidatesAreKept DEF BelongInv

-----------------------------------------------------------------------------
(* Steps that leave files and documents alone *)

\* The removal of the files is over only with the document, or is noted.
LeavesRemoval(k) ==
    At(k, "delete", "doc") =>
        WithoutFiles(requests[k].who) \in cut' \/ candidates'[requests[k].who] = NoDoc

LEMMA FilesStill ==
    ASSUME Aging, NEW k \in Clients, OthersStay(k), LeavesRemoval(k), files' = files
    PROVE  FileSteps
PROOF
  <1>1. UsedStep /\ UnusedStep /\ \A c \in Candidates : ArriveStep(c)
    BY DEF UsedStep, Used, UnusedStep, ArriveStep, NoFilesOf
  <1>2. ASSUME NEW c \in Candidates, candidates'[c] # NoDoc, NEW r, FileThere(c, r)
        PROVE  FileThere(c, r)'
    <2>1. CASE files[c][r] = "ok" \/ WithoutFiles(c) \in cut
      BY <2>1 DEF FileThere, Aging
    <2>2. ASSUME NEW i \in Clients, At(i, "delete", "doc"), requests[i].who = c
          PROVE  FileThere(c, r)'
      <3>1. CASE i = k
        BY <1>2, <2>2, <3>1 DEF LeavesRemoval, FileThere
      <3>2. CASE i # k
        BY <2>2, <3>2 DEF OthersStay, FileThere, At
      <3> QED
        BY <3>1, <3>2
    <2> QED
      BY <1>2, <2>1, <2>2 DEF FileThere
  <1> QED
    BY <1>1, <1>2 DEF FileSteps, ThereStep

\* Whoever had nothing still has nothing.
NothingNew(c) ==
    \/ c \in outdated' \/ candidates[c] # NoDoc
    \/ /\ candidates'[c] = NoDoc
       /\ \A a \in Jobs \X {c} : applications'[a] = NoDoc \/ applications[a] # NoDoc
       /\ \A r \in Resumes : files'[c][r] \in {"ok", "bad"} => files[c][r] \in {"ok", "bad"}

LEMMA EmptyStays ==
    ASSUME Aging, NEW c \in Candidates, NothingNew(c)
    PROVE  EmptyStep(c)
PROOF
  <1> SUFFICES ASSUME Empty(c), c \notin outdated' PROVE Empty(c)'
    BY DEF EmptyStep, Empty
  <1>1. candidates[c] = NoDoc /\ ApplicationsOf(c) = {} /\ NoFilesOf(c)
    BY DEF Empty, Aging
  <1>2. \A a \in Jobs \X {c} : applications[a] = NoDoc
    BY <1>1 DEF ApplicationsOf
  <1>3. candidates'[c] = NoDoc /\ NoFilesOf(c)' /\ \A a \in Jobs \X {c} : applications'[a] = NoDoc
    BY <1>1, <1>2 DEF NothingNew, NoFilesOf
  <1> QED
    BY <1>3 DEF Empty, ApplicationsOf

\* At its new step the request relies on nothing.
Unbound(k) ==
    /\ requests[k].op # "upload" /\ ~Remembers(k) /\ ~Early(k)
    /\ ~At(k, "delete", "doc") /\ ~At(k, "delete", "account")

LEMMA UnboundKept ==
    ASSUME NEW k, Unbound(k)'
    PROVE  FilesKept(k)' /\ DeletionKept(k)'
PROOF BY DEF Unbound, FilesKept, DeletionKept, Remembers, Early, At

LEMMA EndedUnbound ==
    ASSUME NEW k, Ended(k)
    PROVE  Unbound(k)' /\ OthersStay(k) /\ \A i \in Clients \ {k} : Distinct(i, k)'
PROOF BY DEF Ended, Unbound, Idle, Remembers, Early, At, Distinct, Recording

\* A request that goes on is the same request.
LEMMA SameDistinct ==
    ASSUME BelongInv, NEW k \in Clients, OthersStay(k),
           requests'[k].op = requests[k].op, requests'[k].who = requests[k].who,
           requests'[k].arg = requests[k].arg
    PROVE  \A i \in Clients \ {k} : Distinct(i, k)'
PROOF BY DEF BelongInv, OthersStay, Distinct

PeopleSame == UNCHANGED <<accounts, candidates, files, applications>>

LEMMA PeopleSameSteps ==
    ASSUME Aging, NEW k \in Clients, OthersStay(k), LeavesRemoval(k), PeopleSame
    PROVE  FileSteps /\ PersonSteps
PROOF
  <1>1. FileSteps
    BY FilesStill DEF PeopleSame
  <1>2. \A c \in Candidates : DocumentStep(c) /\ AccountStep(c)
    BY DEF PeopleSame, DocumentStep, AccountStep
  <1>3. \A c \in Candidates : NothingNew(c)
    BY DEF PeopleSame, NothingNew
  <1> QED
    BY <1>1, <1>2, <1>3, EmptyStays DEF PersonSteps

LEMMA QuietBelong ==
    ASSUME ShapeInv, BelongInv, Aging, NEW k \in Clients, OthersStay(k), LeavesRemoval(k),
           PeopleSame, FilesKept(k)', DeletionKept(k)', \A i \in Clients \ {k} : Distinct(i, k)'
    PROVE  BelongInv'
PROOF BY PeopleSameSteps, BelongMoves

\* A request that relies on nothing when it begins.
Harmless(op, pc) ==
    /\ op \notin {"signup", "upload"}
    /\ pc \notin {"account", "terms", "save", "undo", "info", "old", "consent", "doc"}

LEMMA BeganBelong ==
    ASSUME ShapeInv, BelongInv, NEW k \in Clients, NEW op, NEW pc, NEW who, NEW arg,
           Begin(k, Request(op, pc, who, arg)), StoresSame, Harmless(op, pc)
    PROVE  BelongInv'
PROOF
  <1>1. Began(k, op, pc, who, arg)
    BY BeginMoves DEF ShapeInv
  <1>2. Aging /\ OthersStay(k) /\ PeopleSame /\ LeavesRemoval(k)
    BY <1>1 DEF Began, Moved, Aging, StoresSame, people, vacancies, PeopleSame, LeavesRemoval, Idle, At
  <1>3. Unbound(k)' /\ \A i \in Clients \ {k} : Distinct(i, k)'
    BY <1>1 DEF Harmless, Began, Moved, Unbound, Remembers, Early, At, Distinct
  <1> QED
    BY <1>2, <1>3, UnboundKept, QuietBelong

LEMMA SignupBelong ==
    ASSUME ShapeInv, BelongInv, NEW k \in Clients, NEW c \in Candidates, Signup(k, c)
    PROVE  BelongInv'
PROOF
  <1>1. Began(k, "signup", "account", c, NoArg)
    BY BeginMoves DEF ShapeInv, Signup
  <1>2. Aging /\ OthersStay(k) /\ PeopleSame /\ LeavesRemoval(k)
    BY <1>1 DEF Began, Moved, Aging, Signup, people, vacancies, PeopleSame, LeavesRemoval, Idle, At
  <1>3. \A i \in Clients \ {k} : Distinct(i, k)'
    BY <1>1 DEF Signup, Began, Moved, OthersStay, Distinct
  <1>4. Empty(c)
    BY DEF Signup, BelongInv, AccountKept
  <1>5. Empty(c)'
    BY <1>2, <1>4 DEF PeopleSame, Aging, Empty, ApplicationsOf, NoFilesOf
  <1>6. FilesKept(k)' /\ DeletionKept(k)'
    BY <1>1, <1>5 DEF Began, Moved, FilesKept, DeletionKept, Remembers, Early, At
  <1> QED
    BY <1>2, <1>3, <1>6, QuietBelong

LEMMA UploadBelong ==
    ASSUME ShapeInv, BelongInv, NEW k \in Clients, NEW c \in Candidates, NEW r \in Resumes,
           RequestUpload(k, c, r)
    PROVE  BelongInv'
PROOF
  <1>1. Began(k, "upload", "get", c, r)
    BY BeginMoves DEF ShapeInv, RequestUpload
  <1>2. Aging /\ OthersStay(k) /\ PeopleSame /\ LeavesRemoval(k)
    BY <1>1 DEF Began, Moved, Aging, RequestUpload, people, vacancies, PeopleSame, LeavesRemoval, Idle, At
  <1>3. \A i \in Clients \ {k} : Distinct(i, k)'
    BY <1>1 DEF RequestUpload, Began, Moved, OthersStay, Distinct
  <1>4. files'[c][r] = "unused"
    BY <1>2 DEF RequestUpload, PeopleSame
  <1>5. FilesKept(k)' /\ DeletionKept(k)'
    BY <1>1, <1>4 DEF Began, Moved, FilesKept, DeletionKept, Remembers, Early, At
  <1> QED
    BY <1>2, <1>3, <1>5, QuietBelong

LEMMA AsksKeepBelonging ==
    ASSUME ShapeInv, BelongInv, NEW k \in Clients, Asks(k)
    PROVE  BelongInv'
PROOF
  <1> USE DEF StoresSame
  <1>0. /\ \A op \in {"draft", "seed", "publish"} : Harmless(op, "draft") /\ Harmless(op, "header")
        /\ Harmless("accept", "header") /\ Harmless("update", "get") /\ Harmless("complete", "get")
        /\ Harmless("delete", "list") /\ Harmless("delete", "get")
        /\ Harmless("apply", "get job") /\ Harmless("withdraw", "get app")
        /\ Harmless("status", "get app") /\ Harmless("job", "get job")
        /\ Harmless("remove", "get job")
    BY DEF Harmless
  <1>1. CASE LegalAsks(k) /\ UNCHANGED <<people, vacancies>>
    BY <1>0, <1>1, BeganBelong DEF LegalAsks, SaveDraft, Seed, Publish
  <1>2. ASSUME NEW c \in Candidates, Accept(k, c) PROVE BelongInv'
    BY <1>0, <1>2, BeganBelong DEF Accept
  <1>3. ASSUME NEW c \in Candidates, UpdateMe(k, c) PROVE BelongInv'
    BY <1>0, <1>3, BeganBelong DEF UpdateMe
  <1>4. ASSUME NEW c \in Candidates, CompleteUpload(k, c) PROVE BelongInv'
    BY <1>0, <1>4, BeganBelong DEF CompleteUpload
  <1>5. ASSUME NEW c \in Candidates, DeleteAll(k, c) PROVE BelongInv'
    BY <1>0, <1>5, BeganBelong DEF DeleteAll
  <1>6. ASSUME NEW c \in Candidates, DeleteByManager(k, c) PROVE BelongInv'
    BY <1>0, <1>6, BeganBelong DEF DeleteByManager
  <1>7. ASSUME NEW c \in Candidates, NEW j \in Jobs, Apply(k, c, j) PROVE BelongInv'
    BY <1>0, <1>7, BeganBelong DEF Apply
  <1>8. ASSUME NEW c \in Candidates, NEW j \in Jobs, Withdraw(k, c, j) PROVE BelongInv'
    BY <1>0, <1>8, BeganBelong DEF Withdraw
  <1>9. ASSUME NEW c \in Candidates, NEW j \in Jobs, UpdateStatus(k, c, j) PROVE BelongInv'
    BY <1>0, <1>9, BeganBelong DEF UpdateStatus
  <1>10. ASSUME NEW j \in Jobs, UpdateJob(k, j) PROVE BelongInv'
    BY <1>0, <1>10, BeganBelong DEF UpdateJob
  <1>11. ASSUME NEW j \in Jobs, RemoveJob(k, j) PROVE BelongInv'
    BY <1>0, <1>11, BeganBelong DEF RemoveJob
  <1> QED
    BY <1>1, <1>2, <1>3, <1>4, <1>5, <1>6, <1>7, <1>8, <1>9, <1>10, <1>11,
       SignupBelong, UploadBelong DEF Asks

LEMMA LegalKeepsBelonging ==
    ASSUME ShapeInv, BelongInv, NEW k \in Clients, LegalHandle(k), StoresSame
    PROVE  BelongInv'
PROOF
  <1>1. RequestsOK /\ PeopleSame
    BY DEF ShapeInv, StoresSame, people, vacancies, PeopleSame
  <1>2. ASSUME Ended(k), Aging, requests[k].op # "delete"
        PROVE  BelongInv'
    BY <1>1, <1>2, EndedUnbound, UnboundKept, QuietBelong DEF LeavesRemoval, At
  <1>3. ASSUME NEW pc, NEW got, Went(k, pc, got), requests[k].op \in {"draft", "publish", "seed"},
               pc \in {"save", "header", "commit"}, Aging
        PROVE  BelongInv'
    <2>1. /\ Unbound(k)' /\ OthersStay(k) /\ \A i \in Clients \ {k} : Distinct(i, k)'
          /\ LeavesRemoval(k)
      BY <1>3 DEF Went, Moved, Unbound, Remembers, Early, At, Distinct, LeavesRemoval
    <2> QED
      BY <1>1, <1>3, <2>1, UnboundKept, QuietBelong
  <1>4. CASE SaveDraftReads(k)
    BY <1>1, <1>3, <1>4, ProceedMoves DEF SaveDraftReads, At, Aging, control
  <1>5. CASE SaveDraftReadsHeader(k)
    BY <1>1, <1>3, <1>5, ProceedMoves DEF SaveDraftReadsHeader, At, Aging, control
  <1>6. CASE SaveDraftSaves(k)
    BY <1>1, <1>2, <1>6, EndMoves DEF SaveDraftSaves, At, Aging, Mark
  <1>7. CASE PublishReadsDraft(k)
    BY <1>1, <1>2, <1>3, <1>7, EndMoves, ProceedMoves DEF PublishReadsDraft, At, Aging, control
  <1>8. CASE PublishCommits(k)
    BY <1>1, <1>2, <1>8, EndMoves DEF PublishCommits, At, Aging, control
  <1>9. CASE SeedReadsHeader(k)
    BY <1>1, <1>2, <1>3, <1>9, EndMoves, ProceedMoves DEF SeedReadsHeader, At, Aging, control
  <1>10. CASE SeedCommits(k)
    BY <1>1, <1>2, <1>10, EndMoves DEF SeedCommits, At, Aging, control
  <1> QED
    BY <1>4, <1>5, <1>6, <1>7, <1>8, <1>9, <1>10 DEF LegalHandle

-----------------------------------------------------------------------------
(* Steps about one candidate *)

\* Every other person is as before.
LEMMA WriteBelong ==
    ASSUME ShapeInv, BelongInv, Aging, FileSteps, NEW k \in Clients, OthersStay(k),
           FilesKept(k)', DeletionKept(k)', \A i \in Clients \ {k} : Distinct(i, k)',
           NEW c \in Candidates, NEW doc, candidates' = [candidates EXCEPT ![c] = doc],
           UNCHANGED <<accounts, applications>>,
           \A d \in Candidates : \A r \in Resumes :
              files'[d][r] \in {"ok", "bad"} => files[d][r] \in {"ok", "bad"},
           DocumentStep(c), EmptyStep(c)
    PROVE  BelongInv'
PROOF
  <1>1. \A d \in Candidates : d # c => candidates'[d] = candidates[d]
    BY DEF ShapeInv, StoresOK
  <1>2. ASSUME NEW d \in Candidates
        PROVE  DocumentStep(d) /\ AccountStep(d) /\ EmptyStep(d)
    <2>1. AccountStep(d)
      BY DEF AccountStep
    <2>2. CASE d = c
      BY <2>1, <2>2
    <2>3. CASE d # c
      <3>1. DocumentStep(d)
        BY <1>1, <2>3 DEF DocumentStep
      <3>2. NothingNew(d)
        BY <1>1, <2>3 DEF NothingNew
      <3> QED
        BY <2>1, <3>1, <3>2, EmptyStays
    <2> QED
      BY <2>2, <2>3
  <1> QED
    BY <1>2, BelongMoves DEF PersonSteps

\* Nobody's files arrive.
NoFileArrives ==
    \A d \in Candidates : \A r \in Resumes :
        files'[d][r] \in {"ok", "bad"} => files[d][r] \in {"ok", "bad"}

\* A document made of a copy: history, unless the copy is the document.
Copied(c, doc, copy) ==
    /\ copy # NoDoc /\ candidates' = [candidates EXCEPT ![c] = doc]
    /\ c \in outdated' \/ candidates[c] = copy
    /\ Used(c, doc.resume)' /\ Used(c, doc.pending)'
    /\ candidates[c] = copy /\ candidates'[c] = doc /\ c \notin outdated' =>
          ResumeFollows(c) /\ PendingFollows(c)

\* The request that is served keeps what it relies on.
Served(k) ==
    /\ OthersStay(k) /\ FilesKept(k)' /\ DeletionKept(k)'
    /\ \A i \in Clients \ {k} : Distinct(i, k)'

LEMMA CopyBelongs ==
    ASSUME ShapeInv, BelongInv, Aging, FileSteps, NEW k \in Clients, Served(k),
           NEW c \in Candidates, NEW doc, NEW copy, Copied(c, doc, copy),
           UNCHANGED <<accounts, applications>>, NoFileArrives
    PROVE  BelongInv'
PROOF
  <1>1. /\ copy # NoDoc /\ candidates' = [candidates EXCEPT ![c] = doc]
        /\ c \in outdated' \/ candidates[c] = copy
        /\ Used(c, doc.resume)' /\ Used(c, doc.pending)'
    BY DEF Copied
  <1>2. candidates'[c] = doc
    BY <1>1 DEF ShapeInv, StoresOK
  <1>3. Used(c, candidates[c].resume)' /\ Used(c, candidates[c].pending)'
    BY <1>1, <1>2
  <1>4. DocumentStep(c)
    BY <1>1, <1>2, <1>3 DEF DocumentStep, Copied
  <1>5. EmptyStep(c)
    BY <1>1, EmptyStays DEF NothingNew
  <1> QED
    BY <1>1, <1>4, <1>5, WriteBelong DEF NoFileArrives, Served

LEMMA SignupKeepsBelonging ==
    ASSUME ShapeInv, BelongInv, NEW k \in Clients,
           SignupCreatesAccount(k) \/ SignupReadsTerms(k) \/ SignupSaves(k) \/ SignupUndoes(k)
    PROVE  BelongInv'
PROOF
  <1> USE DEF people, vacancies, control
  <1>1. RequestsOK /\ StoresOK /\ RequestOK(k) /\ DeletionKept(k)
    BY DEF ShapeInv, BelongInv
  <1>2. PICK c : c = requests[k].who
    OBVIOUS
  <1>3. /\ requests[k].op = "signup" /\ Early(k) /\ Empty(c) /\ c \in Candidates
        /\ LeavesRemoval(k)
        /\ requests[k].pc # "account" => accounts[c] # "new"
    BY <1>1, <1>2 DEF SignupCreatesAccount, SignupReadsTerms, SignupSaves, SignupUndoes, At,
                      Early, DeletionKept, RequestOK, CandidateOps, LeavesRemoval
  <1>4. Aging /\ UNCHANGED <<files, applications>>
    BY DEF SignupCreatesAccount, SignupReadsTerms, SignupSaves, SignupUndoes, SaveCandidate,
           Mark, Aging
  <1>5. ASSUME UNCHANGED candidates
        PROVE  Empty(c)'
    BY <1>3, <1>4, <1>5 DEF Empty, ApplicationsOf, NoFilesOf, Aging
  <1>6. ASSUME NEW pc \in {"terms", "save", "undo"}, NEW got, Went(k, pc, got),
               UNCHANGED candidates, accounts'[c] # "new"
        PROVE  /\ OthersStay(k) /\ FilesKept(k)' /\ DeletionKept(k)'
               /\ \A i \in Clients \ {k} : Distinct(i, k)'
    <2>1. OthersStay(k) /\ \A i \in Clients \ {k} : Distinct(i, k)'
      BY <1>6, SameDistinct DEF Went, Moved
    <2>2. FilesKept(k)'
      BY <1>3, <1>6 DEF Went, Moved, FilesKept, Remembers, At
    <2>3. DeletionKept(k)'
      BY <1>2, <1>3, <1>5, <1>6 DEF Went, Moved, DeletionKept, At
    <2> QED
      BY <2>1, <2>2, <2>3
  <1>7. ASSUME UNCHANGED candidates, OthersStay(k),
               \A d \in Candidates : AccountStep(d)
        PROVE  FileSteps /\ PersonSteps
    <2>1. FileSteps
      BY <1>3, <1>4, <1>7, FilesStill
    <2>2. \A d \in Candidates : NothingNew(d) /\ DocumentStep(d)
      BY <1>4, <1>7 DEF NothingNew, DocumentStep
    <2> QED
      BY <1>4, <1>7, <2>1, <2>2, EmptyStays DEF PersonSteps
  <1>8. CASE SignupCreatesAccount(k)
    <2>1. /\ Went(k, "terms", NoArg) /\ UNCHANGED candidates
          /\ accounts' = [accounts EXCEPT ![c] = "live"]
      BY <1>1, <1>2, <1>8, ProceedMoves DEF SignupCreatesAccount
    <2>2. accounts'[c] # "new" /\ \A d \in Candidates : AccountStep(d)
      BY <1>1, <1>3, <2>1 DEF StoresOK, AccountStep
    <2> QED
      BY <1>4, <1>6, <1>7, <2>1, <2>2, BelongMoves
  <1>9. CASE SignupReadsTerms(k)
    <2>1. UNCHANGED <<accounts, candidates>>
      BY <1>9 DEF SignupReadsTerms
    <2>2. PeopleSame
      BY <1>4, <2>1 DEF PeopleSame
    <2>3. CASE Ended(k)
      BY <1>3, <1>4, <2>2, <2>3, EndedUnbound, UnboundKept, QuietBelong
    <2>4. CASE Went(k, "save", header.published)
      <3>1. accounts'[c] # "new"
        BY <1>3, <1>9, <2>1 DEF SignupReadsTerms, At
      <3> QED
        BY <1>3, <1>4, <1>6, <2>1, <2>2, <2>4, <3>1, QuietBelong
    <2> QED
      BY <1>1, <1>9, <2>3, <2>4, ProceedMoves, EndMoves DEF SignupReadsTerms
  <1>10. CASE SignupSaves(k)
    <2>1. /\ UNCHANGED accounts /\ accounts[c] # "new"
          /\ requests[k].pc = "save"
      BY <1>3, <1>10 DEF SignupSaves, At
    <2>2. CASE UNCHANGED <<candidates, outdated>> /\ Went(k, "undo", NoArg)
      <3>1. PeopleSame
        BY <1>4, <2>1, <2>2 DEF PeopleSame
      <3> QED
        BY <1>3, <1>4, <1>6, <2>1, <2>2, <3>1, QuietBelong
    <2>3. CASE /\ SaveCandidate(c, Candidate(requests[k].got, NoFile, NoFile), ~Deleting(c))
               /\ Went(k, "published", NoArg)
      <3>1. PICK doc : doc = Candidate(requests[k].got, NoFile, NoFile)
        OBVIOUS
      <3>2. doc.resume = NoFile /\ doc.pending = NoFile
        BY <3>1, CandidateIs
      <3>3. /\ candidates' = [candidates EXCEPT ![c] = doc]
            /\ c \in outdated' \/ ~Deleting(c)
        BY <2>3, <3>1 DEF SaveCandidate, Mark
      <3>4. candidates'[c] = doc
        BY <1>1, <1>3, <3>3 DEF StoresOK
      <3>5. OthersStay(k) /\ \A i \in Clients \ {k} : Distinct(i, k)'
        BY <2>3, SameDistinct DEF Went, Moved
      <3>6. FilesKept(k)' /\ DeletionKept(k)' /\ ~Early(k)'
        BY <1>3, <2>3 DEF Went, Moved, FilesKept, DeletionKept, Remembers, Early, At
      <3>7. FileSteps
        BY <1>3, <1>4, <3>5, FilesStill
      <3>8. DocumentStep(c)
        BY <3>2, <3>4 DEF DocumentStep, ResumeFollows, PendingFollows, Used
      <3>9. EmptyStep(c)
        <4>1. CASE c \in outdated'
          BY <1>3, <1>4, <4>1, EmptyStays DEF NothingNew
        <4>2. CASE ~Deleting(c)
          <5>1. accounts'[c] = "live"
            BY <1>1, <1>3, <2>1, <4>2 DEF StoresOK, Deleting
          <5>2. ASSUME NEW i \in Clients, requests'[i].who = c
                PROVE  requests'[i].op # "delete" /\ ~Early(i)'
            <6>1. CASE i = k
              BY <1>3, <2>3, <3>6, <6>1 DEF Went, Moved
            <6>2. CASE i # k
              <7>1. requests[i] = requests'[i] /\ requests[i].who = c
                BY <3>5, <5>2, <6>2 DEF OthersStay
              <7>2. requests[i].op # "delete"
                BY <4>2, <7>1 DEF Deleting
              <7>3. requests[i].op # "signup"
                BY <1>2, <1>3, <6>2, <7>1 DEF BelongInv, Distinct
              <7> QED
                BY <7>1, <7>2, <7>3 DEF Early
            <6> QED
              BY <6>1, <6>2
          <5> QED
            BY <5>1, <5>2 DEF EmptyStep, Filled
        <4> QED
          BY <3>3, <4>1, <4>2
      <3> QED
        BY <1>3, <1>4, <2>1, <3>3, <3>5, <3>6, <3>7, <3>8, <3>9, WriteBelong
    <2> QED
      BY <1>1, <1>2, <1>10, <2>2, <2>3, ProceedMoves DEF SignupSaves
  <1>11. CASE SignupUndoes(k)
    <2>1. /\ Ended(k) /\ UNCHANGED candidates
          /\ accounts' = [accounts EXCEPT ![c] = "deleted"]
      BY <1>1, <1>2, <1>11, EndMoves DEF SignupUndoes
    <2>2. Empty(c)'
      BY <1>5, <2>1
    <2>3. \A d \in Candidates : AccountStep(d)
      BY <1>1, <1>3, <2>1, <2>2 DEF StoresOK, AccountStep
    <2> QED
      BY <1>4, <1>7, <2>1, <2>3, EndedUnbound, UnboundKept, BelongMoves
  <1> QED
    BY <1>8, <1>9, <1>10, <1>11

\* What a handler that ends, or reads on, leaves.
LEMMA EndsQuietly ==
    ASSUME ShapeInv, BelongInv, NEW k \in Clients, Ended(k), Aging, PeopleSame, LeavesRemoval(k)
    PROVE  BelongInv'
PROOF BY EndedUnbound, UnboundKept, QuietBelong

LEMMA GoesOnQuietly ==
    ASSUME ShapeInv, BelongInv, NEW k \in Clients, NEW pc, NEW got, Went(k, pc, got),
           Aging, PeopleSame, requests[k].op # "upload",
           pc \notin {"account", "terms", "save", "undo", "info", "old", "consent", "doc"},
           ~At(k, "delete", "doc")
    PROVE  BelongInv'
PROOF
  <1>1. Unbound(k)' /\ OthersStay(k)
    BY DEF Went, Moved, Unbound, Remembers, Early, At
  <1>2. \A i \in Clients \ {k} : Distinct(i, k)'
    BY SameDistinct DEF Went, Moved
  <1> QED
    BY <1>1, <1>2, UnboundKept, QuietBelong DEF LeavesRemoval

\* A document that is read names files the storage was told of.
LEMMA RecallsQuietly ==
    ASSUME ShapeInv, BelongInv, NEW k \in Clients, NEW pc, NEW c \in Candidates,
           c = requests[k].who, candidates[c] # NoDoc, Recalled(k, pc, candidates[c]),
           Aging, PeopleSame, requests[k].op \in CandidateOps, ~At(k, "delete", "doc"),
           pc \notin {"account", "terms", "undo", "old", "doc"} \/ requests[k].op = "apply",
           pc \notin {"save"} \/ requests[k].op \in {"update", "upload"},
           requests[k].op = "complete" => pc = "info" /\ candidates[c].pending # NoFile
    PROVE  BelongInv'
PROOF
  <1>1. OthersStay(k) /\ \A i \in Clients \ {k} : Distinct(i, k)'
    BY SameDistinct DEF Recalled, Moved
  <1>2. PICK copy : copy = candidates[c]
    OBVIOUS
  <1>3. Used(c, copy.resume) /\ Used(c, copy.pending)
    BY <1>2 DEF BelongInv, ResumeKept
  <1>4. Used(c, copy.resume)' /\ Used(c, copy.pending)'
    BY <1>3 DEF PeopleSame, Used
  <1>5. requests[k].op = "upload" => requests[k].arg \in Resumes /\ files[c][requests[k].arg] = "unused"
    BY DEF BelongInv, FilesKept
  <1>6. FilesKept(k)'
    BY <1>2, <1>4, <1>5 DEF Recalled, Moved, FilesKept, At, PeopleSame
  <1>7. DeletionKept(k)'
    BY DEF Recalled, Moved, DeletionKept, Early, At
  <1> QED
    BY <1>1, <1>6, <1>7, QuietBelong DEF LeavesRemoval

LEMMA GetOrThrowKeepsBelonging ==
    ASSUME ShapeInv, BelongInv, NEW k \in Clients, NEW op, NEW next,
           GetOrThrow(k, op, next), op \in {"update", "upload", "delete", "apply"},
           next \in {"save", "list", "terms"},
           op = "apply" <=> next = "terms", op = "delete" <=> next = "list"
    PROVE  BelongInv'
PROOF
  <1>1. /\ At(k, op, "get") /\ StoresSame /\ UNCHANGED <<document, control>>
        /\ \/ Ended(k)
           \/ /\ candidates[requests[k].who] # NoDoc
              /\ Recalled(k, next, candidates[requests[k].who])
    BY GetOrThrowMoves DEF ShapeInv
  <1>2. Aging /\ PeopleSame /\ ~At(k, "delete", "doc")
    BY <1>1 DEF StoresSame, people, vacancies, control, Aging, PeopleSame, At
  <1>3. CASE Ended(k)
    BY <1>2, <1>3, EndsQuietly DEF LeavesRemoval
  <1>4. CASE candidates[requests[k].who] # NoDoc /\ Recalled(k, next, candidates[requests[k].who])
    <2>1. PICK c : c = requests[k].who
      OBVIOUS
    <2>2. c \in Candidates /\ requests[k].op = op /\ op \in CandidateOps
      BY <1>1, <2>1 DEF ShapeInv, RequestOK, At, CandidateOps
    <2>3. candidates[c] # NoDoc /\ Recalled(k, next, candidates[c])
      BY <1>4, <2>1
    <2>4. next \notin {"account", "terms", "undo", "old", "doc"} \/ op = "apply"
      OBVIOUS
    <2>5. next \notin {"save"} \/ op \in {"update", "upload"}
      OBVIOUS
    <2>6. op # "complete"
      OBVIOUS
    <2> QED
      BY <1>2, <2>1, <2>2, <2>3, <2>4, <2>5, <2>6, RecallsQuietly
  <1> QED
    BY <1>1, <1>3, <1>4

LEMMA AcceptKeepsBelonging ==
    ASSUME ShapeInv, BelongInv, NEW k \in Clients,
           SignupReadsPublished(k) \/ AcceptReadsHeader(k) \/ AcceptRecords(k)
           \/ AcceptReadsCandidate(k) \/ AcceptMirrors(k)
    PROVE  BelongInv'
PROOF
  <1> USE DEF people, vacancies, control
  <1>1. RequestsOK /\ StoresOK /\ RequestOK(k) /\ FilesKept(k)
    BY DEF ShapeInv, BelongInv
  <1>2. PICK c : c = requests[k].who
    OBVIOUS
  <1>3. requests[k].op \in {"signup", "accept"} /\ c \in Candidates /\ ~At(k, "delete", "doc")
    BY <1>1, <1>2 DEF SignupReadsPublished, AcceptReadsHeader, AcceptRecords, AcceptReadsCandidate,
                      AcceptMirrors, At, RequestOK, Recording, CandidateOps
  <1>4. CASE SignupReadsPublished(k) \/ AcceptReadsHeader(k) \/ AcceptRecords(k)
    <2>1. Aging /\ PeopleSame
      BY <1>4 DEF SignupReadsPublished, AcceptReadsHeader, AcceptRecords, OnlyRequests, Aging, PeopleSame
    <2>2. \/ Ended(k) \/ Went(k, "header", NoArg) \/ Went(k, "record", header.published)
          \/ Went(k, "mirror", requests[k].got)
      BY <1>1, <1>4, EndMoves, ProceedMoves
         DEF SignupReadsPublished, AcceptReadsHeader, AcceptRecords
    <2> QED
      BY <1>3, <2>1, <2>2, EndsQuietly, GoesOnQuietly DEF LeavesRemoval
  <1>5. CASE AcceptReadsCandidate(k)
    <2>1. Aging /\ PeopleSame
      BY <1>5 DEF AcceptReadsCandidate, OnlyRequests, Aging, PeopleSame
    <2>2. CASE candidates[c] = NoDoc
      <3>1. Ended(k)
        BY <1>1, <1>2, <1>5, <2>2, EndMoves DEF AcceptReadsCandidate
      <3> QED
        BY <1>3, <2>1, <3>1, EndsQuietly DEF LeavesRemoval
    <2>3. CASE candidates[c] # NoDoc
      <3>1. Recalled(k, "consent", candidates[c])
        BY <1>1, <1>2, <1>5, <2>3, RememberMoves DEF AcceptReadsCandidate
      <3>2. requests[k].op \in CandidateOps /\ requests[k].op # "complete"
        BY <1>3 DEF CandidateOps
      <3> QED
        BY <1>2, <1>3, <2>1, <2>3, <3>1, <3>2, RecallsQuietly
    <2> QED
      BY <2>2, <2>3
  <1>6. CASE AcceptMirrors(k)
    <2>1. PICK v, copy, doc : /\ v = requests[k].got /\ copy = requests[k].copy
                              /\ doc = Mirror(copy, v)
      OBVIOUS
    <2>2. /\ candidates' = [candidates EXCEPT ![c] = doc] /\ (c \in outdated' \/ candidates[c] = copy)
          /\ outdated \subseteq outdated'
          /\ Ended(k) /\ UNCHANGED <<accounts, files, applications, cut>> /\ requests[k].pc = "consent"
      BY <1>1, <1>2, <1>6, <2>1, EndMoves DEF AcceptMirrors, SaveCandidate, Mark
    <2>3. Remembers(k) /\ copy # NoDoc /\ IsCandidate(copy)
      BY <1>1, <2>1, <2>2 DEF RequestOK, Remembers
    <2>4. doc.resume = copy.resume /\ doc.pending = copy.pending
      BY <2>1, <2>3, MirrorForms DEF SameFiles
    <2>5. Used(c, copy.resume) /\ Used(c, copy.pending)
      BY <1>1, <1>2, <2>1, <2>3 DEF FilesKept
    <2>6. Used(c, doc.resume)' /\ Used(c, doc.pending)'
      BY <2>2, <2>4, <2>5 DEF Used
    <2>7. Aging /\ NoFileArrives
      BY <2>2 DEF Aging, NoFileArrives
    <2>8. /\ OthersStay(k) /\ FilesKept(k)' /\ DeletionKept(k)'
          /\ \A i \in Clients \ {k} : Distinct(i, k)'
      BY <2>2, EndedUnbound, UnboundKept
    <2>9. FileSteps
      BY <1>3, <2>2, <2>7, <2>8, FilesStill DEF LeavesRemoval
    <2>10. candidates[c] = copy /\ candidates'[c] = doc => ResumeFollows(c) /\ PendingFollows(c)
      BY <2>3, <2>4 DEF ResumeFollows, PendingFollows
    <2>11. Copied(c, doc, copy)
      BY <2>2, <2>3, <2>6, <2>10 DEF Copied
    <2>12. Served(k)
      BY <2>8 DEF Served
    <2> QED
      BY <1>3, <2>2, <2>7, <2>9, <2>11, <2>12, CopyBelongs
  <1> QED
    BY <1>4, <1>5, <1>6

LEMMA UpdateKeepsBelonging ==
    ASSUME ShapeInv, BelongInv, NEW k \in Clients, UpdateMeSaves(k) \/ RequestUploadSaves(k)
    PROVE  BelongInv'
PROOF
  <1> USE DEF people, vacancies, control
  <1>1. RequestsOK /\ StoresOK /\ RequestOK(k) /\ FilesKept(k)
    BY DEF ShapeInv, BelongInv
  <1>2. PICK c, copy, r : c = requests[k].who /\ copy = requests[k].copy /\ r = requests[k].arg
    OBVIOUS
  <1>3. Remembers(k) /\ requests[k].op \in {"update", "upload"}
    BY DEF UpdateMeSaves, RequestUploadSaves, At, Remembers
  <1>4. /\ c \in Candidates /\ copy # NoDoc /\ IsCandidate(copy)
        /\ ~At(k, "delete", "doc")
        /\ Used(c, copy.resume) /\ Used(c, copy.pending)
    BY <1>1, <1>2, <1>3 DEF RequestOK, CandidateOps, FilesKept, At
  <1>5. Ended(k) /\ UNCHANGED <<accounts, applications>> /\ Aging
    BY <1>1, EndMoves DEF UpdateMeSaves, RequestUploadSaves, SaveCandidate, Mark, Aging
  <1>6. Served(k) /\ OthersStay(k)
    BY <1>5, EndedUnbound, UnboundKept DEF Served
  <1>7. CASE UpdateMeSaves(k)
    <2>1. /\ candidates' = [candidates EXCEPT ![c] = copy] /\ (c \in outdated' \/ candidates[c] = copy)
          /\ files' = files
      BY <1>2, <1>7 DEF UpdateMeSaves, SaveCandidate, Mark
    <2>2. FileSteps
      BY <1>4, <1>5, <1>6, <2>1, FilesStill DEF LeavesRemoval
    <2>3. Used(c, copy.resume)' /\ Used(c, copy.pending)' /\ NoFileArrives
      BY <1>4, <2>1 DEF Used, NoFileArrives
    <2>4. candidates[c] = copy /\ candidates'[c] = copy => ResumeFollows(c) /\ PendingFollows(c)
      BY <1>4 DEF ResumeFollows, PendingFollows
    <2>5. Copied(c, copy, copy)
      BY <1>4, <2>1, <2>3, <2>4 DEF Copied
    <2> QED
      BY <1>4, <1>5, <1>6, <2>2, <2>3, <2>5, CopyBelongs
  <1>8. CASE RequestUploadSaves(k)
    <2>1. PICK doc : doc = [copy EXCEPT !.pending = r]
      OBVIOUS
    <2>2. /\ candidates' = [candidates EXCEPT ![c] = doc] /\ (c \in outdated' \/ candidates[c] = copy)
          /\ files' = [files EXCEPT ![c][r] = "awaited"] /\ requests[k].op = "upload"
      BY <1>2, <1>8, <2>1 DEF RequestUploadSaves, SaveCandidate, Mark, At
    <2>3. doc.resume = copy.resume /\ doc.pending = r
      BY <1>4, <2>1, PendingForms
    <2>4. r \in Resumes /\ files[c][r] = "unused"
      BY <1>1, <1>2, <2>2 DEF FilesKept
    <2>5. \A d \in Candidates : \A s \in Resumes :
             files'[d][s] = IF d = c /\ s = r THEN "awaited" ELSE files[d][s]
      BY <1>1, <1>4, <2>2, <2>4 DEF StoresOK
    <2>6. UsedStep /\ NoFileArrives
      BY <2>4, <2>5 DEF UsedStep, Used, NoFileArrives
    <2>7. UnusedStep
      <3>1. \A i \in Clients : requests'[i] = requests[i] /\ requests[i].op = "upload" =>
               requests[i].arg # r
        BY <1>2, <1>5, <2>2 DEF BelongInv, Distinct, Ended, Idle
      <3> QED
        BY <2>5, <3>1 DEF UnusedStep
    <2>8. ASSUME NEW d \in Candidates PROVE ThereStep(d) /\ ArriveStep(d)
      <3>1. \A s : FileThere(d, s) => FileThere(d, s)'
        <4> SUFFICES ASSUME NEW s, FileThere(d, s) PROVE FileThere(d, s)'
          OBVIOUS
        <4>1. CASE files[d][s] = "ok"
          <5>1. files'[d][s] = "ok"
            BY <1>1, <2>2, <2>4, <4>1 DEF StoresOK
          <5> QED
            BY <5>1 DEF FileThere
        <4>2. CASE WithoutFiles(d) \in cut
          BY <1>5, <4>2 DEF FileThere, Aging
        <4>3. ASSUME NEW i \in Clients, At(i, "delete", "doc"), requests[i].who = d
              PROVE  FileThere(d, s)'
          BY <1>4, <1>6, <4>3 DEF OthersStay, FileThere, At
        <4> QED
          BY <4>1, <4>2, <4>3 DEF FileThere
      <3>2. NoFilesOf(d) => NoFilesOf(d)'
        BY <2>5 DEF NoFilesOf
      <3> QED
        BY <3>1, <3>2 DEF ThereStep, ArriveStep
    <2>9. FileSteps
      BY <2>6, <2>7, <2>8 DEF FileSteps
    <2>10. Used(c, copy.resume)'
      BY <1>4, <2>6 DEF UsedStep
    <2>11. Used(c, r)'
      BY <1>4, <2>4, <2>5 DEF Used
    <2>12. candidates[c] = copy /\ candidates'[c] = doc => ResumeFollows(c) /\ PendingFollows(c)
      BY <1>4, <2>3, <2>4 DEF ResumeFollows, PendingFollows
    <2>13. Copied(c, doc, copy)
      BY <1>4, <2>2, <2>3, <2>10, <2>11, <2>12 DEF Copied
    <2> QED
      BY <1>4, <1>5, <1>6, <2>6, <2>9, <2>13, CopyBelongs
  <1> QED
    BY <1>7, <1>8

\* A file that is removed: nothing else changes, and none comes back.
LEMMA FileGoes ==
    ASSUME StoresOK, Aging, NEW k \in Clients, OthersStay(k), ~At(k, "delete", "doc"),
           NEW c \in Candidates, NEW r \in Resumes,
           files' = [files EXCEPT ![c][r] = Gone(@)]
    PROVE  /\ UsedStep /\ UnusedStep /\ NoFileArrives
           /\ \A d \in Candidates : ArriveStep(d)
           /\ \A d \in Candidates : \A s :
                FileThere(d, s) /\ (d = c /\ s = r => files[c][r] # "ok") => FileThere(d, s)'
PROOF
  <1>1. PICK g : g = Gone(files[c][r])
    OBVIOUS
  <1>2. /\ g \notin {"ok", "bad"} /\ (g = "unused" <=> files[c][r] = "unused")
        /\ files' = [files EXCEPT ![c][r] = g]
    BY <1>1 DEF Gone
  <1>3. \A d \in Candidates : \A s \in Resumes :
           files'[d][s] = IF d = c /\ s = r THEN g ELSE files[d][s]
    BY <1>2 DEF StoresOK
  <1>4. UsedStep /\ UnusedStep /\ NoFileArrives
    BY <1>2, <1>3 DEF UsedStep, Used, UnusedStep, NoFileArrives
  <1>5. \A d \in Candidates : ArriveStep(d)
    BY <1>4 DEF NoFileArrives, ArriveStep, NoFilesOf
  <1>6. ASSUME NEW d \in Candidates, NEW s, FileThere(d, s), d = c /\ s = r => files[c][r] # "ok"
        PROVE  FileThere(d, s)'
    <2>1. CASE files[d][s] = "ok"
      <3>1. files'[d][s] = "ok"
        BY <1>2, <1>6, <2>1 DEF StoresOK
      <3> QED
        BY <3>1 DEF FileThere
    <2>2. CASE WithoutFiles(d) \in cut
      BY <2>2 DEF FileThere, Aging
    <2>3. ASSUME NEW i \in Clients, At(i, "delete", "doc"), requests[i].who = d
          PROVE  FileThere(d, s)'
      BY <2>3 DEF OthersStay, FileThere, At
    <2> QED
      BY <1>6, <2>1, <2>2, <2>3 DEF FileThere
  <1> QED
    BY <1>4, <1>5, <1>6

LEMMA CompleteReadsBelong ==
    ASSUME ShapeInv, BelongInv, NEW k \in Clients, CompleteReads(k)
    PROVE  BelongInv'
PROOF
  <1>1. RequestsOK /\ RequestOK(k)
    BY DEF ShapeInv
  <1>2. PICK c : c = requests[k].who
    OBVIOUS
  <1>3. /\ Aging /\ PeopleSame /\ c \in Candidates /\ requests[k].op = "complete"
        /\ ~At(k, "delete", "doc") /\ requests[k].op \in CandidateOps
    BY <1>1, <1>2 DEF CompleteReads, OnlyRequests, people, vacancies, control, At, RequestOK,
                      CandidateOps, Aging, PeopleSame
  <1>4. CASE Ended(k)
    BY <1>3, <1>4, EndsQuietly DEF LeavesRemoval
  <1>5. CASE candidates[c] # NoDoc /\ candidates[c].pending # NoFile /\ Recalled(k, "info", candidates[c])
    BY <1>2, <1>3, <1>5, RecallsQuietly
  <1> QED
    BY <1>1, <1>2, <1>4, <1>5, EndMoves, RememberMoves DEF CompleteReads

\* The file is looked at, and removed when it is refused.
LEMMA CompleteChecksBelong ==
    ASSUME ShapeInv, BelongInv, NEW k \in Clients, CompleteChecksFile(k)
    PROVE  BelongInv'
PROOF
  <1> USE DEF people, vacancies, control
  <1>1. RequestsOK /\ StoresOK /\ RequestOK(k) /\ FilesKept(k)
    BY DEF ShapeInv, BelongInv
  <1>2. PICK c, copy, r, check :
            /\ c = requests[k].who /\ copy = requests[k].copy /\ r = copy.pending
            /\ check = ResumeCheck(files[c][r])
    OBVIOUS
  <1>3. /\ Remembers(k) /\ requests[k].op = "complete" /\ requests[k].pc = "info"
        /\ c \in Candidates /\ ~At(k, "delete", "doc")
    BY <1>1, <1>2 DEF CompleteChecksFile, At, Remembers, RequestOK, CandidateOps
  <1>4. /\ r # NoFile /\ Used(c, copy.resume) /\ Used(c, r)
    BY <1>1, <1>2, <1>3 DEF FilesKept
  <1>5. r \in Resumes /\ Aging /\ UNCHANGED <<accounts, candidates, applications, outdated, cut>>
    BY <1>4 DEF CompleteChecksFile, Used, Aging
  <1>6. /\ check = "refused" <=> files[c][r] = "bad"
        /\ check = "taken" <=> files[c][r] = "ok"
        /\ check = "" <=> files[c][r] \notin {"ok", "bad"}
    BY <1>2 DEF ResumeCheck
  <1>7. /\ files' = IF check = "refused" THEN [files EXCEPT ![c][r] = Gone(@)] ELSE files
        /\ IF check = "" THEN Ended(k) ELSE Went(k, "save", check)
    BY <1>1, <1>2, EndMoves, ProceedMoves DEF CompleteChecksFile
  <1>8. OthersStay(k)
    BY <1>7 DEF Ended, Went, Moved
  <1>9. FileSteps /\ NoFileArrives
    <2>1. CASE check = "refused"
      <3>1. /\ UsedStep /\ UnusedStep /\ NoFileArrives /\ \A d \in Candidates : ArriveStep(d)
            /\ \A d \in Candidates : \A s : FileThere(d, s) => FileThere(d, s)'
        BY <1>1, <1>3, <1>5, <1>6, <1>7, <1>8, <2>1, FileGoes
      <3> QED
        BY <3>1 DEF FileSteps, ThereStep
    <2>2. CASE check # "refused"
      <3>1. files' = files
        BY <1>7, <2>2
      <3> QED
        BY <1>3, <1>5, <1>8, <3>1, FilesStill DEF LeavesRemoval, NoFileArrives
    <2> QED
      BY <2>1, <2>2
  <1>10. \A d \in Candidates : DocumentStep(d) /\ AccountStep(d) /\ NothingNew(d)
    BY <1>5, <1>9 DEF DocumentStep, AccountStep, NothingNew, NoFileArrives
  <1>11. PersonSteps
    BY <1>5, <1>10, EmptyStays DEF PersonSteps
  <1>12. CASE check = ""
    <2>1. Ended(k)
      BY <1>7, <1>12
    <2> QED
      BY <1>5, <1>9, <1>11, <2>1, EndedUnbound, UnboundKept, BelongMoves
  <1>13. CASE check # ""
    <2>1. Went(k, "save", check)
      BY <1>7, <1>13
    <2>2. \A i \in Clients \ {k} : Distinct(i, k)'
      BY <1>8, <2>1, SameDistinct DEF Went, Moved
    <2>3. DeletionKept(k)'
      BY <1>3, <2>1 DEF Went, Moved, DeletionKept, Early, At
    <2>4. Used(c, copy.resume)' /\ Used(c, r)'
      BY <1>3, <1>4, <1>9 DEF FileSteps, UsedStep
    <2>5. check = "taken" => FileThere(c, r)'
      BY <1>6, <1>7 DEF FileThere
    <2>6. FilesKept(k)'
      BY <1>2, <1>3, <1>4, <2>1, <2>4, <2>5 DEF Went, Moved, FilesKept, At
    <2> QED
      BY <1>5, <1>8, <1>9, <1>11, <2>2, <2>3, <2>6, BelongMoves
  <1> QED
    BY <1>12, <1>13

\* The file taken is named before the one it replaces goes.
LEMMA CompleteSavesBelong ==
    ASSUME ShapeInv, BelongInv, NEW k \in Clients, CompleteSaves(k)
    PROVE  BelongInv'
PROOF
  <1> USE DEF people, vacancies, control
  <1>1. RequestsOK /\ StoresOK /\ RequestOK(k) /\ FilesKept(k)
    BY DEF ShapeInv, BelongInv
  <1>2. PICK c, copy, taken, doc :
            /\ c = requests[k].who /\ copy = requests[k].copy
            /\ taken = (requests[k].got = "taken") /\ doc = Completed(copy, taken)
    OBVIOUS
  <1>3. /\ Remembers(k) /\ requests[k].op = "complete" /\ requests[k].pc = "save"
        /\ c \in Candidates /\ ~At(k, "delete", "doc")
    BY <1>1, <1>2 DEF CompleteSaves, At, Remembers, RequestOK, CandidateOps
  <1>4. /\ copy # NoDoc /\ IsCandidate(copy)
        /\ copy.pending # NoFile /\ Used(c, copy.resume) /\ Used(c, copy.pending)
    BY <1>1, <1>2, <1>3 DEF FilesKept, RequestOK
  <1>5. doc.pending = NoFile /\ doc.resume = IF taken THEN copy.pending ELSE copy.resume
    BY <1>2, <1>4, CompletedForms
  <1>6. /\ SaveCandidate(c, doc, candidates[c] = copy)
        /\ UNCHANGED <<accounts, files, applications, cut>>
        /\ IF taken /\ copy.resume \notin {NoFile, copy.pending}
           THEN Went(k, "old", NoArg) ELSE Ended(k)
    BY <1>1, <1>2, EndMoves, ProceedMoves DEF CompleteSaves, Completed
  <1>7. /\ candidates' = [candidates EXCEPT ![c] = doc]
        /\ (c \in outdated' \/ candidates[c] = copy) /\ Aging
    BY <1>6 DEF SaveCandidate, Mark, Aging
  <1>8. OthersStay(k)
    BY <1>6 DEF Ended, Went, Moved
  <1>9. FileSteps /\ NoFileArrives
    BY <1>3, <1>6, <1>7, <1>8, FilesStill DEF LeavesRemoval, NoFileArrives
  <1>10. Used(c, copy.resume)' /\ Used(c, copy.pending)' /\ Used(c, NoFile)'
    BY <1>4, <1>6 DEF Used
  <1>11. candidates'[c] = doc
    BY <1>1, <1>3, <1>7 DEF StoresOK
  <1>12. ASSUME candidates[c] = copy, c \notin outdated', taken
         PROVE  FileThere(c, doc.resume)'
    <2>1. PICK r : r = copy.pending
      OBVIOUS
    <2>2. FileThere(c, r)
      BY <1>1, <1>2, <1>3, <1>4, <1>7, <1>12, <2>1 DEF FilesKept, At, Aging
    <2>3. FileThere(c, r)'
      <3>1. CASE files[c][r] = "ok" \/ WithoutFiles(c) \in cut
        BY <1>6, <3>1 DEF FileThere
      <3>2. ASSUME NEW i \in Clients, At(i, "delete", "doc"), requests[i].who = c
            PROVE  FileThere(c, r)'
        BY <1>3, <1>8, <3>2 DEF OthersStay, FileThere, At
      <3> QED
        BY <2>2, <3>1, <3>2 DEF FileThere
    <2>4. doc.resume = r
      BY <1>5, <1>12, <2>1
    <2> QED
      BY <2>3, <2>4
  <1>13. candidates[c] = copy /\ candidates'[c] = doc /\ c \notin outdated' =>
            ResumeFollows(c) /\ PendingFollows(c)
    <2> SUFFICES ASSUME candidates[c] = copy, c \notin outdated'
                 PROVE  ResumeFollows(c) /\ PendingFollows(c)
      OBVIOUS
    <2>1. PendingFollows(c)
      BY <1>5, <1>11 DEF PendingFollows
    <2>2. CASE taken
      <3>1. FileThere(c, candidates[c].resume)'
        BY <1>11, <1>12, <2>2
      <3> QED
        BY <1>4, <1>5, <1>11, <2>1, <2>2, <3>1 DEF ResumeFollows
    <2>3. CASE ~taken
      BY <1>4, <1>5, <1>11, <2>1, <2>3 DEF ResumeFollows
    <2> QED
      BY <2>2, <2>3
  <1>14. Used(c, doc.resume)' /\ Used(c, doc.pending)'
    BY <1>5, <1>10
  <1>15. Copied(c, doc, copy)
    BY <1>4, <1>7, <1>13, <1>14 DEF Copied
  <1>16. Served(k)
    <2>1. CASE Ended(k)
      BY <2>1, EndedUnbound, UnboundKept DEF Served
    <2>2. CASE taken /\ copy.resume \notin {NoFile, copy.pending} /\ Went(k, "old", NoArg)
      <3>1. \A i \in Clients \ {k} : Distinct(i, k)'
        BY <1>8, <2>2, SameDistinct DEF Went, Moved
      <3>2. DeletionKept(k)'
        BY <1>3, <2>2 DEF Went, Moved, DeletionKept, Early, At
      <3>3. FilesKept(k)'
        BY <1>2, <1>3, <1>5, <1>10, <1>11, <2>2 DEF Went, Moved, FilesKept, At
      <3> QED
        BY <1>8, <3>1, <3>2, <3>3 DEF Served
    <2> QED
      BY <1>6, <2>1, <2>2
  <1> QED
    BY <1>3, <1>6, <1>7, <1>9, <1>15, <1>16, CopyBelongs

LEMMA CompleteRemovesBelong ==
    ASSUME ShapeInv, BelongInv, NEW k \in Clients, CompleteRemovesOld(k)
    PROVE  BelongInv'
PROOF
  <1> USE DEF people, vacancies, control
  <1>1. RequestsOK /\ StoresOK /\ RequestOK(k) /\ FilesKept(k)
    BY DEF ShapeInv, BelongInv
  <1>2. PICK c, r : c = requests[k].who /\ r = requests[k].copy.resume
    OBVIOUS
  <1>3. /\ Remembers(k) /\ At(k, "complete", "old") /\ c \in Candidates /\ ~At(k, "delete", "doc")
    BY <1>1, <1>2 DEF CompleteRemovesOld, At, Remembers, RequestOK, CandidateOps
  <1>4. /\ r \in Resumes
        /\ c \notin outdated /\ candidates[c] # NoDoc =>
              r \notin {candidates[c].resume, candidates[c].pending}
    BY <1>1, <1>2, <1>3 DEF FilesKept, Used
  <1>5. /\ Ended(k) /\ Aging /\ UNCHANGED <<accounts, candidates, applications, outdated>>
        /\ files' = [files EXCEPT ![c][r] = Gone(@)]
    BY <1>1, <1>2, EndMoves DEF CompleteRemovesOld, Aging
  <1>6. /\ UsedStep /\ UnusedStep /\ NoFileArrives
        /\ \A d \in Candidates : ArriveStep(d)
        /\ \A d \in Candidates : \A s :
             FileThere(d, s) /\ (d = c /\ s = r => files[c][r] # "ok") => FileThere(d, s)'
    BY <1>1, <1>3, <1>4, <1>5, FileGoes DEF Ended
  <1>7. \A d \in Candidates : ThereStep(d)
    BY <1>4, <1>5, <1>6 DEF ThereStep
  <1>8. FileSteps
    BY <1>6, <1>7 DEF FileSteps
  <1>9. \A d \in Candidates : DocumentStep(d) /\ AccountStep(d) /\ NothingNew(d)
    BY <1>5, <1>6 DEF DocumentStep, AccountStep, NothingNew, NoFileArrives
  <1>10. PersonSteps
    BY <1>5, <1>9, EmptyStays DEF PersonSteps
  <1> QED
    BY <1>5, <1>8, <1>10, EndedUnbound, UnboundKept, BelongMoves

-----------------------------------------------------------------------------
(* The deletion of a candidate *)

LEMMA DeleteFilesBelong ==
    ASSUME ShapeInv, BelongInv, NEW k \in Clients, DeleteFiles(k)
    PROVE  BelongInv'
PROOF
  <1> USE DEF people, vacancies
  <1>1. RequestsOK /\ StoresOK /\ RequestOK(k)
    BY DEF ShapeInv
  <1>2. PICK c : c = requests[k].who
    OBVIOUS
  <1>3. /\ requests[k].op = "delete" /\ c \in Candidates /\ ~At(k, "delete", "doc")
        /\ Went(k, "doc", requests[k].got)
        /\ Aging /\ UNCHANGED <<accounts, candidates, applications>>
    BY <1>1, <1>2, ProceedMoves DEF DeleteFiles, At, RequestOK, CandidateOps, Aging
  <1>4. /\ OthersStay(k) /\ At(k, "delete", "doc")' /\ requests'[k].who = c
        /\ \A i \in Clients \ {k} : Distinct(i, k)'
    BY <1>2, <1>3, SameDistinct DEF Went, Moved, At
  <1>5. CASE files' = [files EXCEPT ![c] = Prefix(c)]
    <2>1. \A d \in Candidates : \A s \in Resumes :
             files'[d][s] = IF d = c THEN Gone(files[d][s]) ELSE files[d][s]
      BY <1>1, <1>5 DEF StoresOK, Prefix
    <2>2. \A f : Gone(f) \notin {"ok", "bad"} /\ (Gone(f) = "unused" <=> f = "unused")
      BY DEF Gone
    <2>3. UsedStep /\ UnusedStep /\ NoFileArrives /\ NoFilesOf(c)'
      BY <1>3, <2>1, <2>2 DEF UsedStep, Used, UnusedStep, NoFileArrives, NoFilesOf
    <2>4. \A d \in Candidates : ArriveStep(d)
      BY <2>3 DEF NoFileArrives, ArriveStep, NoFilesOf
    <2>5. ASSUME NEW d \in Candidates PROVE ThereStep(d)
      <3>1. CASE d = c
        BY <1>4, <3>1 DEF ThereStep, FileThere
      <3>2. CASE d # c
        <4>1. files'[d] = files[d]
          BY <1>1, <1>5, <3>2 DEF StoresOK
        <4>2. ASSUME NEW s, FileThere(d, s) PROVE FileThere(d, s)'
          <5>1. CASE files[d][s] = "ok" \/ WithoutFiles(d) \in cut
            BY <1>3, <4>1, <5>1 DEF FileThere, Aging
          <5>2. ASSUME NEW i \in Clients, At(i, "delete", "doc"), requests[i].who = d
                PROVE  FileThere(d, s)'
            BY <1>3, <1>4, <5>2 DEF OthersStay, FileThere, At
          <5> QED
            BY <4>2, <5>1, <5>2 DEF FileThere
        <4> QED
          BY <4>2 DEF ThereStep
      <3> QED
        BY <3>1, <3>2
    <2>6. FileSteps
      BY <2>3, <2>4, <2>5 DEF FileSteps
    <2>7. \A d \in Candidates : DocumentStep(d) /\ AccountStep(d) /\ NothingNew(d)
      BY <1>3, <2>3 DEF DocumentStep, AccountStep, NothingNew, NoFileArrives
    <2>8. PersonSteps
      BY <1>3, <2>7, EmptyStays DEF PersonSteps
    <2>9. FilesKept(k)' /\ DeletionKept(k)'
      BY <1>4, <2>3 DEF FilesKept, DeletionKept, Remembers, Early, At
    <2> QED
      BY <1>3, <1>4, <2>6, <2>8, <2>9, BelongMoves
  <1>6. CASE files' = files /\ c \in cut'
    <2>1. PeopleSame
      BY <1>3, <1>6 DEF PeopleSame
    <2>2. FilesKept(k)' /\ DeletionKept(k)'
      BY <1>4, <1>6 DEF FilesKept, DeletionKept, Remembers, Early, At
    <2> QED
      BY <1>3, <1>4, <2>1, <2>2, QuietBelong DEF LeavesRemoval
  <1> QED
    BY <1>2, <1>5, <1>6 DEF DeleteFiles

\* The document goes after the files and the list: nothing is left.
LEMMA DeleteDocBelongs ==
    ASSUME ShapeInv, BelongInv, EndsInv, NEW k \in Clients, DeleteDoc(k)
    PROVE  BelongInv'
PROOF
  <1> USE DEF people, vacancies
  <1>1. RequestsOK /\ StoresOK /\ RequestOK(k) /\ DeletionKept(k) /\ ListGone(k)
    BY DEF ShapeInv, BelongInv, EndsInv
  <1>2. PICK c, left : c = requests[k].who /\ left = ApplicationsOf(c) \ requests[k].got
    OBVIOUS
  <1>3. /\ requests[k].op = "delete" /\ requests[k].pc = "doc" /\ c \in Candidates
        /\ candidates' = [candidates EXCEPT ![c] = NoDoc]
        /\ outdated' = outdated \cup left \cup (IF left = {} THEN {} ELSE {c})
        /\ Went(k, "account", NoArg)
        /\ UNCHANGED <<accounts, files, applications, cut>>
    BY <1>1, <1>2, ProceedMoves DEF DeleteDoc, Unlisted, At, RequestOK, CandidateOps
  <1>4. /\ Aging /\ candidates'[c] = NoDoc
        /\ \A d \in Candidates : d # c => candidates'[d] = candidates[d]
    BY <1>1, <1>3 DEF StoresOK, Aging
  <1>5. /\ OthersStay(k) /\ At(k, "delete", "account")' /\ requests'[k].who = c
        /\ \A i \in Clients \ {k} : Distinct(i, k)'
    BY <1>2, <1>3, SameDistinct DEF Went, Moved, At
  <1>6. FileSteps
    BY <1>2, <1>3, <1>4, <1>5, FilesStill DEF LeavesRemoval
  <1>7. \A d \in Candidates : DocumentStep(d) /\ AccountStep(d) /\ NothingNew(d)
    BY <1>3, <1>4 DEF DocumentStep, AccountStep, NothingNew
  <1>8. PersonSteps
    BY <1>4, <1>7, EmptyStays DEF PersonSteps
  <1>9. c \in cut' \/ Empty(c)'
    <2> SUFFICES ASSUME c \notin cut, c \notin outdated'
                 PROVE  Empty(c)'
      BY <1>3 DEF Empty
    <2>1. left = {} /\ c \notin outdated
      BY <1>3
    <2>2. NoFilesOf(c)
      BY <1>1, <1>2, <1>3, <2>1 DEF DeletionKept, At
    <2>3. ApplicationsOf(c) = {}
      <3> SUFFICES ASSUME NEW a \in ApplicationsOf(c) PROVE FALSE
        OBVIOUS
      <3>1. a \in requests[k].got /\ a \in Jobs \X Candidates /\ a[2] = c /\ applications[a] # NoDoc
        BY <1>2, <1>3, <2>1 DEF ApplicationsOf
      <3> QED
        BY <1>1, <1>3, <2>1, <3>1 DEF ListGone
    <2> QED
      BY <1>3, <1>4, <2>2, <2>3 DEF Empty, ApplicationsOf, NoFilesOf
  <1>10. FilesKept(k)' /\ DeletionKept(k)'
    BY <1>5, <1>9 DEF FilesKept, DeletionKept, Remembers, Early, At
  <1> QED
    BY <1>4, <1>5, <1>6, <1>8, <1>10, BelongMoves

LEMMA DeleteAccountBelongs ==
    ASSUME ShapeInv, BelongInv, NEW k \in Clients, DeleteAccount(k)
    PROVE  BelongInv'
PROOF
  <1> USE DEF people, vacancies, control
  <1>1. RequestsOK /\ StoresOK /\ RequestOK(k) /\ DeletionKept(k)
    BY DEF ShapeInv, BelongInv
  <1>2. PICK c : c = requests[k].who
    OBVIOUS
  <1>3. /\ At(k, "delete", "account") /\ c \in Candidates
        /\ accounts' = [accounts EXCEPT ![c] = "deleted"] /\ Ended(k)
        /\ Aging /\ UNCHANGED <<candidates, files, applications, outdated, cut>>
    BY <1>1, <1>2, EndMoves DEF DeleteAccount, At, RequestOK, CandidateOps, Aging
  <1>4. c \in cut \/ Empty(c)
    BY <1>1, <1>2, <1>3 DEF DeletionKept
  <1>5. c \in cut' \/ Empty(c)'
    BY <1>3, <1>4 DEF Empty, ApplicationsOf, NoFilesOf
  <1>6. \A d \in Candidates : DocumentStep(d) /\ AccountStep(d) /\ NothingNew(d)
    BY <1>1, <1>3, <1>5 DEF StoresOK, DocumentStep, AccountStep, NothingNew
  <1>7. PersonSteps
    BY <1>3, <1>6, EmptyStays DEF PersonSteps
  <1>8. FileSteps
    BY <1>3, FilesStill DEF LeavesRemoval, At, Ended
  <1> QED
    BY <1>3, <1>7, <1>8, EndedUnbound, UnboundKept, BelongMoves

\* Applications come only to a candidate that is there, or to history.
ListsChange ==
    \A c \in Candidates :
        \/ c \in outdated' \/ candidates[c] # NoDoc
        \/ \A a \in Jobs \X {c} : applications'[a] = NoDoc \/ applications[a] # NoDoc

LEMMA ListBelongs ==
    ASSUME ShapeInv, BelongInv, Aging, NEW k \in Clients, OthersStay(k), ~At(k, "delete", "doc"),
           Unbound(k)', \A i \in Clients \ {k} : Distinct(i, k)',
           UNCHANGED <<accounts, candidates, files>>, ListsChange
    PROVE  BelongInv'
PROOF
  <1>1. FileSteps
    BY FilesStill DEF LeavesRemoval
  <1>2. \A d \in Candidates : DocumentStep(d) /\ AccountStep(d) /\ NothingNew(d)
    BY DEF DocumentStep, AccountStep, NothingNew, ListsChange
  <1>3. PersonSteps
    BY <1>2, EmptyStays DEF PersonSteps
  <1> QED
    BY <1>1, <1>3, UnboundKept, BelongMoves

LEMMA DeletionKeepsBelonging ==
    ASSUME ShapeInv, BelongInv, EndsInv, NEW k \in Clients,
           \/ DeleteByManagerReads(k) \/ DeleteLists(k) \/ DeleteMany(k) \/ DeleteFiles(k)
           \/ DeleteDoc(k) \/ DeleteAccount(k)
    PROVE  BelongInv'
PROOF
  <1> USE DEF people, vacancies, control
  <1>1. RequestsOK /\ StoresOK /\ RequestOK(k)
    BY DEF ShapeInv
  <1>2. CASE DeleteByManagerReads(k)
    BY <1>2, GetOrThrowKeepsBelonging DEF DeleteByManagerReads
  <1>3. CASE DeleteLists(k)
    <2>1. Went(k, "batch", ApplicationsOf(requests[k].who))
      BY <1>1, <1>3, ProceedMoves DEF DeleteLists
    <2>2. Aging /\ PeopleSame /\ requests[k].op # "upload" /\ ~At(k, "delete", "doc")
      BY <1>3 DEF DeleteLists, OnlyRequests, At, Aging, PeopleSame
    <2> QED
      BY <2>1, <2>2, GoesOnQuietly
  <1>4. CASE DeleteMany(k)
    <2>1. /\ Aging /\ ~At(k, "delete", "doc") /\ requests[k].op \in {"delete", "remove"}
          /\ UNCHANGED <<accounts, candidates, files>>
      BY <1>1, <1>4 DEF DeleteMany, RequestOK, At, Aging
    <2>2. ListsChange
      BY <1>1, <1>4 DEF DeleteMany, Without, ListsChange, StoresOK
    <2>3. \E pc \in {"files", "job"} : Went(k, pc, requests[k].got)
      BY <1>1, <1>4, ProceedMoves DEF DeleteMany
    <2>4. Unbound(k)' /\ OthersStay(k)
      BY <2>1, <2>3 DEF Went, Moved, Unbound, Remembers, Early, At
    <2>5. \A i \in Clients \ {k} : Distinct(i, k)'
      BY <2>3, SameDistinct DEF Went, Moved
    <2> QED
      BY <2>1, <2>2, <2>4, <2>5, ListBelongs
  <1> QED
    BY <1>2, <1>3, <1>4, DeleteFilesBelong, DeleteDocBelongs, DeleteAccountBelongs

-----------------------------------------------------------------------------
(* Jobs and applications, and what no request does *)

\* A read for which nothing of a candidate is relied on afterwards.
LEMMA MovesQuietly ==
    ASSUME ShapeInv, BelongInv, NEW k \in Clients, Aging, PeopleSame, ~At(k, "delete", "doc"),
           OthersStay(k), Unbound(k)', requests'[k].op = requests[k].op,
           requests'[k].who = requests[k].who, requests'[k].arg = requests[k].arg
    PROVE  BelongInv'
PROOF
  <1>1. \A i \in Clients \ {k} : Distinct(i, k)'
    BY SameDistinct
  <1> QED
    BY <1>1, UnboundKept, QuietBelong DEF LeavesRemoval

\* A handler of jobs or applications that reads.
LEMMA JobReadsBelong ==
    ASSUME ShapeInv, BelongInv, NEW k \in Clients,
           \/ UpdateJobReads(k) \/ RemoveJobReads(k) \/ RemoveJobLists(k) \/ ApplyReadsJob(k)
           \/ ApplyReadsTerms(k) \/ ApplyReadsExisting(k) \/ WithdrawReads(k)
           \/ UpdateStatusReads(k)
    PROVE  BelongInv'
PROOF
  <1> USE DEF people, vacancies, control
  <1>1. RequestsOK
    BY DEF ShapeInv
  <1>2. Aging /\ PeopleSame /\ LeavesRemoval(k) /\ ~At(k, "delete", "doc")
    BY DEF UpdateJobReads, RemoveJobReads, RemoveJobLists, ApplyReadsJob, ApplyReadsTerms,
           ApplyReadsExisting, WithdrawReads, UpdateStatusReads, OnlyRequests, Aging,
           PeopleSame, LeavesRemoval, At
  <1>3. CASE Ended(k)
    BY <1>2, <1>3, EndsQuietly
  <1>4. ASSUME NEW pc \in {"save", "list", "batch", "get", "existing"}, NEW got,
               Went(k, pc, got), requests[k].op \in {"job", "remove", "apply"}
        PROVE  BelongInv'
    <2>1. /\ OthersStay(k) /\ Unbound(k)' /\ requests'[k].op = requests[k].op
          /\ requests'[k].who = requests[k].who /\ requests'[k].arg = requests[k].arg
      BY <1>4 DEF Went, Moved, Unbound, Remembers, Early, At
    <2> QED
      BY <1>2, <2>1, MovesQuietly
  <1>5. ASSUME NEW pc \in {"save", "delete"}, NEW copy, Recalled(k, pc, copy),
               requests[k].op \in {"withdraw", "status"}
        PROVE  BelongInv'
    <2>1. /\ OthersStay(k) /\ Unbound(k)' /\ requests'[k].op = requests[k].op
          /\ requests'[k].who = requests[k].who /\ requests'[k].arg = requests[k].arg
      BY <1>5 DEF Recalled, Moved, Unbound, Remembers, Early, At
    <2> QED
      BY <1>2, <2>1, MovesQuietly
  <1>6. CASE UpdateJobReads(k) \/ RemoveJobReads(k)
    BY <1>1, <1>3, <1>4, <1>6, EndMoves, ProceedMoves DEF UpdateJobReads, RemoveJobReads, At
  <1>7. CASE RemoveJobLists(k)
    BY <1>1, <1>4, <1>7, ProceedMoves DEF RemoveJobLists, At
  <1>8. CASE ApplyReadsJob(k)
    BY <1>1, <1>3, <1>4, <1>8, EndMoves, ProceedMoves DEF ApplyReadsJob, At
  <1>9. CASE ApplyReadsTerms(k)
    BY <1>1, <1>3, <1>4, <1>9, EndMoves, ProceedMoves DEF ApplyReadsTerms, At
  <1>10. CASE ApplyReadsExisting(k)
    BY <1>1, <1>3, <1>4, <1>10, EndMoves, ProceedMoves DEF ApplyReadsExisting, At
  <1>11. CASE WithdrawReads(k)
    BY <1>1, <1>3, <1>5, <1>11, EndMoves, RememberMoves DEF WithdrawReads, At
  <1>12. CASE UpdateStatusReads(k)
    BY <1>1, <1>3, <1>5, <1>12, EndMoves, RememberMoves DEF UpdateStatusReads, At
  <1> QED
    BY <1>6, <1>7, <1>8, <1>9, <1>10, <1>11, <1>12

\* A handler of applications that writes one: for whoever has nothing left, only
\* as history.
LEMMA ApplicationsBelong ==
    ASSUME ShapeInv, BelongInv, NEW k \in Clients,
           ApplySaves(k) \/ WithdrawDeletes(k) \/ UpdateStatusSaves(k)
    PROVE  BelongInv'
PROOF
  <1> USE DEF people, vacancies, control
  <1>1. RequestsOK /\ StoresOK /\ RequestOK(k)
    BY DEF ShapeInv
  <1>2. PICK c, j, a : c = requests[k].who /\ j = requests[k].arg /\ a = <<j, c>>
    OBVIOUS
  <1>3. /\ Ended(k) /\ ~At(k, "delete", "doc") /\ c \in Candidates /\ j \in Jobs
        /\ UNCHANGED <<accounts, candidates, files>> /\ Aging
    BY <1>1, <1>2, EndMoves DEF ApplySaves, WithdrawDeletes, UpdateStatusSaves, At, RequestOK,
                                CandidateOps, Aging
  <1>4. \A b \in Jobs \X Candidates : b # a => applications'[b] = applications[b]
    BY <1>1, <1>2 DEF ApplySaves, WithdrawDeletes, UpdateStatusSaves, StoresOK
  <1>5. \/ applications'[a] = NoDoc \/ candidates[c] # NoDoc \/ c \in outdated'
    <2>1. CASE ApplySaves(k)
      BY <1>2, <2>1 DEF ApplySaves
    <2>2. CASE WithdrawDeletes(k)
      BY <1>1, <1>2, <1>3, <2>2 DEF WithdrawDeletes, StoresOK
    <2>3. CASE UpdateStatusSaves(k)
      BY <1>2, <2>3 DEF UpdateStatusSaves
    <2> QED
      BY <2>1, <2>2, <2>3
  <1>6. ListsChange
    BY <1>2, <1>4, <1>5 DEF ListsChange
  <1> QED
    BY <1>3, <1>6, EndedUnbound, ListBelongs

LEMMA JobsKeepBelonging ==
    ASSUME ShapeInv, BelongInv, NEW k \in Clients, JobHandle(k)
    PROVE  BelongInv'
PROOF
  <1>1. CASE UpdateJobSaves(k) \/ RemoveJobDeletes(k)
    <2>1. Ended(k) /\ Aging /\ PeopleSame /\ LeavesRemoval(k)
      BY <1>1, EndMoves DEF UpdateJobSaves, RemoveJobDeletes, ShapeInv, Aging, PeopleSame,
                            LeavesRemoval, At, people, control
    <2> QED
      BY <2>1, EndsQuietly
  <1>2. CASE ApplyReadsCandidate(k)
    BY <1>2, GetOrThrowKeepsBelonging DEF ApplyReadsCandidate
  <1> QED
    BY <1>1, <1>2, JobReadsBelong, ApplicationsBelong DEF JobHandle

\* A deletion that stops between the files and the document is noted.
LEMMA StopKeepsBelonging ==
    ASSUME ShapeInv, BelongInv, NEW k \in Clients, Stop(k)
    PROVE  BelongInv'
PROOF
  <1>1. Ended(k) /\ PeopleSame
    BY EndMoves DEF Stop, ShapeInv, PeopleSame, people, vacancies
  <1>2. cut \subseteq cut' /\ LeavesRemoval(k)
    <2>1. CASE requests[k].op \in {"signup", "accept"}
      <3>1. cut' = cut \cup {requests[k].who}
        BY <2>1 DEF Stop, At
      <3> QED
        BY <2>1, <3>1 DEF LeavesRemoval, At
    <2>2. CASE requests[k].op \notin {"signup", "accept"} /\ At(k, "delete", "doc")
      <3>1. cut' = cut \cup {WithoutFiles(requests[k].who)}
        BY <2>2 DEF Stop, At
      <3> QED
        BY <3>1 DEF LeavesRemoval
    <2>3. CASE requests[k].op \notin {"signup", "accept"} /\ ~At(k, "delete", "doc")
      <3>1. cut' = cut
        BY <2>3 DEF Stop
      <3> QED
        BY <2>3, <3>1 DEF LeavesRemoval
    <2> QED
      BY <2>1, <2>2, <2>3
  <1> QED
    BY <1>1, <1>2, EndsQuietly DEF Stop, Aging

\* A file that arrives is one that was awaited.
LEMMA ArrivalKeepsBelonging ==
    ASSUME ShapeInv, BelongInv, NEW c \in Candidates, NEW r \in Resumes,
           NEW content \in {"ok", "bad"}, FileArrives(c, r, content)
    PROVE  BelongInv'
PROOF
  <1> USE DEF vacancies
  <1>1. StoresOK
    BY DEF ShapeInv
  <1>2. /\ UNCHANGED <<requests, accounts, candidates, applications, cut>>
        /\ files[c][r] = "awaited" /\ files' = [files EXCEPT ![c][r] = content]
        /\ outdated \subseteq outdated'
        /\ \/ c \in outdated'
           \/ candidates[c] # NoDoc /\ \A k \in Clients : requests[k].who = c => requests[k].pc # "doc"
    BY DEF FileArrives, Mark
  <1>3. /\ \A d \in Candidates : \A s \in Resumes :
              files'[d][s] = IF d = c /\ s = r THEN content ELSE files[d][s]
    BY <1>1, <1>2 DEF StoresOK
  <1>4. \A d \in Candidates \ {c} : files'[d] = files[d]
    BY <1>1, <1>2 DEF StoresOK
  <1>5. \A s : files[c][s] = "ok" => files'[c][s] = "ok"
    <2> TAKE s
    <2>1. files[c] \in [Resumes -> FileStates] /\ files'[c] = [files[c] EXCEPT ![r] = content]
      BY <1>1, <1>2 DEF StoresOK
    <2> QED
      BY <1>2, <2>1
  <1>6. UsedStep /\ UnusedStep
    BY <1>2, <1>3 DEF UsedStep, Used, UnusedStep
  <1>7. \A d \in Candidates : ThereStep(d)
    BY <1>2, <1>4, <1>5 DEF ThereStep, FileThere, At
  <1>8. \A d \in Candidates : ArriveStep(d)
    BY <1>2, <1>4 DEF ArriveStep, NoFilesOf, At
  <1>9. FileSteps /\ Aging
    BY <1>2, <1>6, <1>7, <1>8 DEF FileSteps, Aging
  <1>10. \A d \in Candidates : DocumentStep(d) /\ AccountStep(d) /\ NothingNew(d)
    BY <1>2, <1>4 DEF DocumentStep, AccountStep, NothingNew
  <1>11. PersonSteps
    BY <1>9, <1>10, EmptyStays DEF PersonSteps
  <1> QED
    BY <1>2, <1>9, <1>11, BelongStays

\* What changes nothing of a candidate.
LEMMA AloneKeepsBelonging ==
    ASSUME ShapeInv, BelongInv, PeopleSame, UNCHANGED <<requests, outdated, cut>>
    PROVE  BelongInv'
PROOF
  <1>1. FileSteps /\ Aging
    BY DEF FileSteps, UsedStep, Used, UnusedStep, ThereStep, FileThere, ArriveStep, NoFilesOf,
           PeopleSame, Aging, At
  <1>2. \A d \in Candidates : DocumentStep(d) /\ AccountStep(d) /\ NothingNew(d)
    BY DEF DocumentStep, AccountStep, NothingNew, PeopleSame
  <1>3. PersonSteps
    BY <1>1, <1>2, EmptyStays DEF PersonSteps
  <1> QED
    BY <1>1, <1>3, BelongStays

LEMMA StepKeepsBelonging ==
    ASSUME ShapeInv, BelongInv, EndsInv, [RecruitmentNext]_vars
    PROVE  BelongInv'
PROOF
  <1>1. CASE UNCHANGED vars
    BY <1>1, AloneKeepsBelonging DEF vars, control, people, vacancies, PeopleSame
  <1>2. ASSUME NEW k \in Clients, Handle(k) PROVE BelongInv'
    <2>1. CASE UpdateMeReads(k) \/ RequestUploadReads(k)
      BY <2>1, GetOrThrowKeepsBelonging DEF UpdateMeReads, RequestUploadReads
    <2> QED
      BY <1>2, <2>1, LegalKeepsBelonging, SignupKeepsBelonging, AcceptKeepsBelonging,
         UpdateKeepsBelonging, CompleteReadsBelong, CompleteChecksBelong, CompleteSavesBelong,
         CompleteRemovesBelong, DeletionKeepsBelonging, JobsKeepBelonging
         DEF Handle, CandidateHandle, StoresSame
  <1>3. CASE DiscardDraft /\ UNCHANGED <<people, vacancies>>
    BY <1>3, AloneKeepsBelonging DEF DiscardDraft, control, people, vacancies, PeopleSame
  <1>4. ASSUME NEW j \in Jobs, CreateJob(j) PROVE BelongInv'
    BY <1>4, AloneKeepsBelonging DEF CreateJob, control, people, PeopleSame
  <1> QED
    BY <1>1, <1>2, <1>3, <1>4, AsksKeepBelonging, StopKeepsBelonging, ArrivalKeepsBelonging
       DEF RecruitmentNext

\* What the storage has of the first candidate was told to it.
LEMMA InitHasBelonging ==
    ASSUME RecruitmentInit
    PROVE  BelongInv
PROOF
  <1>1. requests = [k \in Clients |-> Idle] /\ outdated = {} /\ cut = {}
    BY DEF RecruitmentInit, LegalInit
  <1> DEFINE c == CHOOSE d \in Candidates : TRUE
             r == CHOOSE f \in Resumes : TRUE
             j == CHOOSE i \in Jobs : TRUE
  <1>2. r \in Resumes
    BY RecruitmentAssumption
  <1>3. PICK live \in BOOLEAN, consent \in DOMAIN versions \cup {Unset},
             resume \in {"none", "awaited", "ok"}, applied \in BOOLEAN :
          Stage(c, r, j, live, consent, resume, applied)
    BY DEF RecruitmentInit
  <1> HIDE DEF c, r, j
  <1> DEFINE doc == Candidate(consent, IF resume = "ok" THEN r ELSE NoFile,
                                       IF resume = "awaited" THEN r ELSE NoFile)
             app == Application("received", IF consent = Unset THEN Unset ELSE header.required)
  <1>4. /\ ~live => resume = "none" /\ ~applied
        /\ accounts = [d \in Candidates |-> IF live /\ d = c THEN "live" ELSE "new"]
        /\ candidates = [d \in Candidates |-> IF live /\ d = c THEN doc ELSE NoDoc]
        /\ files = [d \in Candidates |-> [f \in Resumes |->
                      IF d = c /\ f = r /\ resume # "none" THEN resume ELSE "unused"]]
        /\ applications = [a \in Jobs \X Candidates |->
                      IF applied /\ a = <<j, c>> THEN app ELSE NoDoc]
    BY <1>3 DEF Stage
  <1>5. /\ doc.resume = (IF resume = "ok" THEN r ELSE NoFile)
        /\ doc.pending = (IF resume = "awaited" THEN r ELSE NoFile)
    BY CandidateIs
  <1> HIDE DEF doc, app
  <1>6. \A k \in Clients : FilesKept(k) /\ DeletionKept(k)
    BY <1>1 DEF Idle, FilesKept, DeletionKept, Remembers, Early, At
  <1>7. \A k \in Clients : \A i \in Clients \ {k} : Distinct(i, k)
    BY <1>1 DEF Idle, Distinct
  <1>8. \A d \in Candidates : d # c \/ ~live => Empty(d)
    BY <1>4 DEF Empty, ApplicationsOf, NoFilesOf
  <1>9. \A d \in Candidates : AccountKept(d)
    BY <1>4, <1>8 DEF AccountKept
  <1>10. ASSUME NEW d \in Candidates PROVE ResumeKept(d)
    BY <1>2, <1>4, <1>5 DEF ResumeKept, Used, FileThere
  <1> QED
    BY <1>6, <1>7, <1>9, <1>10 DEF BelongInv

-----------------------------------------------------------------------------
(* The ends of an application *)

CandidatesStay == \A c \in Candidates : candidates[c] # NoDoc => candidates'[c] # NoDoc
JobsStay == \A j \in Jobs : jobs[j] # "none" => jobs'[j] # "none"
ApplicationsFew == \A a \in Jobs \X Candidates : applications'[a] \in {applications[a], NoDoc}

EndsStay ==
    outdated \subseteq outdated' /\ ApplicationsFew /\ CandidatesStay /\ JobsStay

\* Past the deletion of a list.
Listing == {"files", "doc", "job"}

LEMMA EndsMove ==
    ASSUME EndsInv, NEW k \in Clients, OthersStay(k), EndsStay, ListGone(k)'
    PROVE  EndsInv'
PROOF
  <1>1. \A a \in Jobs \X Candidates : ApplicationKept(a)'
    BY DEF EndsInv, ApplicationKept, EndsStay, ApplicationsFew, CandidatesStay, JobsStay
  <1>2. ASSUME NEW i \in Clients \ {k} PROVE ListGone(i)'
    BY DEF EndsInv, ListGone, OthersStay, EndsStay, ApplicationsFew
  <1> QED
    BY <1>1, <1>2 DEF EndsInv

\* What reads, or ends, has no list.
LEMMA UnlistedEnds ==
    ASSUME EndsInv, NEW k \in Clients, OthersStay(k), EndsStay, requests'[k].pc \notin Listing
    PROVE  EndsInv'
PROOF BY EndsMove DEF ListGone, Listing

LEMMA EndedEnds ==
    ASSUME EndsInv, NEW k \in Clients, Ended(k), EndsStay
    PROVE  EndsInv'
PROOF BY UnlistedEnds DEF Ended, Idle, Listing

LEMMA AloneEnds ==
    ASSUME EndsInv, requests' = requests, EndsStay
    PROVE  EndsInv'
PROOF
  <1>1. \A a \in Jobs \X Candidates : ApplicationKept(a)'
    BY DEF EndsInv, ApplicationKept, EndsStay, ApplicationsFew, CandidatesStay, JobsStay
  <1>2. \A i \in Clients : ListGone(i)'
    BY DEF EndsInv, ListGone, EndsStay, ApplicationsFew
  <1> QED
    BY <1>1, <1>2 DEF EndsInv

LEMMA NothingEnds ==
    ASSUME outdated \subseteq outdated', UNCHANGED <<candidates, jobs, applications>>
    PROVE  EndsStay
PROOF BY DEF EndsStay, ApplicationsFew, CandidatesStay, JobsStay

\* A document made of a version and of files is there.
LEMMA DocumentIsThere ==
    ASSUME NEW doc, IsCandidate(doc), doc.consent \in Versions,
           doc.resume \in Resumes \cup {NoFile}, doc.pending \in Resumes \cup {NoFile}
    PROVE  doc # NoDoc
PROOF BY RecruitmentAssumption DEF IsCandidate, Candidate, Versions

LEMMA BeganEnds ==
    ASSUME ShapeInv, EndsInv, NEW k \in Clients, NEW op, NEW pc, NEW who, NEW arg,
           Begin(k, Request(op, pc, who, arg)), StoresSame, pc \notin Listing
    PROVE  EndsInv'
PROOF
  <1>1. Began(k, op, pc, who, arg)
    BY BeginMoves DEF ShapeInv
  <1>2. EndsStay
    BY <1>1, NothingEnds DEF Began, StoresSame, people, vacancies
  <1> QED
    BY <1>1, <1>2, UnlistedEnds DEF Began, Moved

LEMMA AsksKeepEnds ==
    ASSUME ShapeInv, EndsInv, NEW k \in Clients, Asks(k)
    PROVE  EndsInv'
PROOF
  <1> USE DEF StoresSame
  <1>0. /\ "get job" \notin Listing /\ "get app" \notin Listing /\ "get" \notin Listing
        /\ "draft" \notin Listing /\ "header" \notin Listing /\ "account" \notin Listing
        /\ "list" \notin Listing
    BY DEF Listing
  <1>1. CASE LegalAsks(k) /\ UNCHANGED <<people, vacancies>>
    BY <1>0, <1>1, BeganEnds DEF LegalAsks, SaveDraft, Seed, Publish
  <1>2. ASSUME NEW c \in Candidates, Signup(k, c) PROVE EndsInv'
    BY <1>0, <1>2, BeganEnds DEF Signup
  <1>3. ASSUME NEW c \in Candidates, Accept(k, c) PROVE EndsInv'
    BY <1>0, <1>3, BeganEnds DEF Accept
  <1>4. ASSUME NEW c \in Candidates, UpdateMe(k, c) PROVE EndsInv'
    BY <1>0, <1>4, BeganEnds DEF UpdateMe
  <1>5. ASSUME NEW c \in Candidates, CompleteUpload(k, c) PROVE EndsInv'
    BY <1>0, <1>5, BeganEnds DEF CompleteUpload
  <1>6. ASSUME NEW c \in Candidates, DeleteAll(k, c) PROVE EndsInv'
    BY <1>0, <1>6, BeganEnds DEF DeleteAll
  <1>7. ASSUME NEW c \in Candidates, DeleteByManager(k, c) PROVE EndsInv'
    BY <1>0, <1>7, BeganEnds DEF DeleteByManager
  <1>8. ASSUME NEW c \in Candidates, NEW r \in Resumes, RequestUpload(k, c, r) PROVE EndsInv'
    BY <1>0, <1>8, BeganEnds DEF RequestUpload
  <1>9. ASSUME NEW c \in Candidates, NEW j \in Jobs, Apply(k, c, j) PROVE EndsInv'
    BY <1>0, <1>9, BeganEnds DEF Apply
  <1>10. ASSUME NEW c \in Candidates, NEW j \in Jobs, Withdraw(k, c, j) PROVE EndsInv'
    BY <1>0, <1>10, BeganEnds DEF Withdraw
  <1>11. ASSUME NEW c \in Candidates, NEW j \in Jobs, UpdateStatus(k, c, j) PROVE EndsInv'
    BY <1>0, <1>11, BeganEnds DEF UpdateStatus
  <1>12. ASSUME NEW j \in Jobs, UpdateJob(k, j) PROVE EndsInv'
    BY <1>0, <1>12, BeganEnds DEF UpdateJob
  <1>13. ASSUME NEW j \in Jobs, RemoveJob(k, j) PROVE EndsInv'
    BY <1>0, <1>13, BeganEnds DEF RemoveJob
  <1> QED
    BY <1>1, <1>2, <1>3, <1>4, <1>5, <1>6, <1>7, <1>8, <1>9, <1>10, <1>11, <1>12, <1>13 DEF Asks

\* The handlers that touch neither a document of a candidate nor a job.
Aloof(k) ==
    \/ LegalHandle(k) /\ UNCHANGED <<people, vacancies>>
    \/ SignupCreatesAccount(k) \/ SignupReadsTerms(k) \/ SignupUndoes(k) \/ SignupReadsPublished(k)
    \/ AcceptReadsHeader(k) \/ AcceptRecords(k) \/ AcceptReadsCandidate(k)
    \/ UpdateMeReads(k) \/ RequestUploadReads(k)
    \/ CompleteReads(k) \/ CompleteChecksFile(k) \/ CompleteRemovesOld(k)
    \/ DeleteByManagerReads(k) \/ DeleteLists(k) \/ DeleteAccount(k)
    \/ UpdateJobReads(k) \/ RemoveJobReads(k) \/ RemoveJobLists(k)
    \/ ApplyReadsJob(k) \/ ApplyReadsCandidate(k) \/ ApplyReadsTerms(k) \/ ApplyReadsExisting(k)
    \/ WithdrawReads(k) \/ UpdateStatusReads(k)

\* Where a request goes that neither ends nor has deleted a list.
Elsewhere(k) ==
    \/ End(k)
    \/ \E pc, got : pc \notin Listing /\ Proceed(k, pc, got)
    \/ \E pc, copy : pc \notin Listing /\ Remember(k, pc, copy)

LEMMA AloofGoElsewhere ==
    ASSUME NEW k \in Clients, Aloof(k)
    PROVE  Elsewhere(k) /\ outdated \subseteq outdated' /\ UNCHANGED <<candidates, jobs, applications>>
PROOF
  <1> USE DEF people, vacancies, control, Listing, Elsewhere
  <1>1. CASE LegalHandle(k) /\ UNCHANGED <<people, vacancies>>
    BY <1>1 DEF LegalHandle, SaveDraftReads, SaveDraftReadsHeader, SaveDraftSaves,
       PublishReadsDraft, PublishCommits, SeedReadsHeader, SeedCommits, Mark
  <1>2. CASE SignupCreatesAccount(k) \/ SignupReadsTerms(k) \/ SignupUndoes(k)
             \/ SignupReadsPublished(k) \/ AcceptReadsHeader(k) \/ AcceptRecords(k)
    BY <1>2 DEF SignupCreatesAccount, SignupReadsTerms, SignupUndoes, SignupReadsPublished,
       AcceptReadsHeader, AcceptRecords, OnlyRequests
  <1>3. CASE AcceptReadsCandidate(k) \/ CompleteReads(k) \/ DeleteLists(k)
             \/ UpdateMeReads(k) \/ RequestUploadReads(k) \/ DeleteByManagerReads(k)
             \/ ApplyReadsCandidate(k)
    BY <1>3 DEF AcceptReadsCandidate, CompleteReads, DeleteLists, UpdateMeReads,
       RequestUploadReads, DeleteByManagerReads, ApplyReadsCandidate, GetOrThrow, OnlyRequests
  <1>4. CASE CompleteChecksFile(k) \/ CompleteRemovesOld(k) \/ DeleteAccount(k)
    BY <1>4 DEF CompleteChecksFile, CompleteRemovesOld, DeleteAccount
  <1>5. CASE UpdateJobReads(k) \/ RemoveJobReads(k) \/ RemoveJobLists(k) \/ ApplyReadsJob(k)
    BY <1>5 DEF UpdateJobReads, RemoveJobReads, RemoveJobLists, ApplyReadsJob, OnlyRequests
  <1>6. CASE ApplyReadsTerms(k) \/ ApplyReadsExisting(k) \/ WithdrawReads(k) \/ UpdateStatusReads(k)
    BY <1>6 DEF ApplyReadsTerms, ApplyReadsExisting, WithdrawReads, UpdateStatusReads, OnlyRequests
  <1> QED
    BY <1>1, <1>2, <1>3, <1>4, <1>5, <1>6 DEF Aloof

LEMMA AloofKeepEnds ==
    ASSUME ShapeInv, EndsInv, NEW k \in Clients, Aloof(k)
    PROVE  EndsInv'
PROOF
  <1>1. RequestsOK /\ EndsStay /\ Elsewhere(k)
    BY AloofGoElsewhere, NothingEnds DEF ShapeInv
  <1>2. CASE End(k)
    BY <1>1, <1>2, EndMoves, EndedEnds
  <1>3. ASSUME NEW pc, NEW got, pc \notin Listing, Proceed(k, pc, got) PROVE EndsInv'
    BY <1>1, <1>3, ProceedMoves, UnlistedEnds DEF Went, Moved
  <1>4. ASSUME NEW pc, NEW copy, pc \notin Listing, Remember(k, pc, copy) PROVE EndsInv'
    BY <1>1, <1>4, RememberMoves, UnlistedEnds DEF Recalled, Moved
  <1> QED
    BY <1>1, <1>2, <1>3, <1>4 DEF Elsewhere

\* One candidate is saved: what is written is a document.
LEMMA SavedEnds ==
    ASSUME ShapeInv, EndsInv, NEW k \in Clients, Elsewhere(k), NEW c \in Candidates, NEW doc,
           doc # NoDoc, candidates' = [candidates EXCEPT ![c] = doc],
           outdated \subseteq outdated', UNCHANGED <<jobs, applications>>
    PROVE  EndsInv'
PROOF
  <1>1. RequestsOK /\ StoresOK
    BY DEF ShapeInv
  <1>2. EndsStay
    BY <1>1 DEF EndsStay, ApplicationsFew, CandidatesStay, JobsStay, StoresOK
  <1>3. CASE End(k)
    BY <1>1, <1>2, <1>3, EndMoves, EndedEnds
  <1>4. ASSUME NEW pc, NEW got, pc \notin Listing, Proceed(k, pc, got) PROVE EndsInv'
    BY <1>1, <1>2, <1>4, ProceedMoves, UnlistedEnds DEF Went, Moved
  <1>5. ASSUME NEW pc, NEW copy, pc \notin Listing, Remember(k, pc, copy) PROVE EndsInv'
    BY <1>1, <1>2, <1>5, RememberMoves, UnlistedEnds DEF Recalled, Moved
  <1> QED
    BY <1>3, <1>4, <1>5 DEF Elsewhere

LEMMA WritersKeepEnds ==
    ASSUME VersionsInv, ShapeInv, ConsentInv, BelongInv, EndsInv, NEW k \in Clients,
           \/ SignupSaves(k) \/ AcceptMirrors(k) \/ UpdateMeSaves(k) \/ RequestUploadSaves(k)
           \/ CompleteSaves(k)
    PROVE  EndsInv'
PROOF
  <1> USE DEF people, vacancies, control, SaveCandidate, Mark
  <1>1. RequestsOK /\ RequestOK(k) /\ RequestHolds(k) /\ FilesKept(k)
    BY DEF ShapeInv, ConsentInv, BelongInv
  <1>2. PICK c, copy, r, got : /\ c = requests[k].who /\ copy = requests[k].copy
                               /\ r = requests[k].arg /\ got = requests[k].got
    OBVIOUS
  <1>3. c \in Candidates /\ outdated \subseteq outdated' /\ UNCHANGED <<jobs, applications>>
    <2>1. CASE SignupSaves(k) \/ UpdateMeSaves(k) \/ RequestUploadSaves(k) \/ CompleteSaves(k)
      BY <1>1, <1>2, <2>1 DEF SignupSaves, UpdateMeSaves, RequestUploadSaves,
                              CompleteSaves, At, RequestOK, CandidateOps
    <2>2. CASE AcceptMirrors(k)
      BY <1>1, <1>2, <2>2 DEF AcceptMirrors, RequestOK, CandidateOps, Recording
    <2> QED
      BY <2>1, <2>2
  <1>4. ASSUME NEW u, Used(c, u) PROVE u \in Resumes \cup {NoFile}
    BY <1>4 DEF Used
  <1>5. NoFile \in Resumes \cup {NoFile}
    OBVIOUS
  <1>6. Remembers(k) => /\ copy # NoDoc /\ IsCandidate(copy) /\ copy.consent \in Versions
                        /\ copy.resume \in Resumes \cup {NoFile}
                        /\ copy.pending \in Resumes \cup {NoFile}
    BY <1>1, <1>2, <1>4 DEF RequestOK, RequestHolds, Held, FilesKept
  <1>7. CASE SignupSaves(k)
    <2> DEFINE doc == Candidate(got, NoFile, NoFile)
    <2>1. /\ Elsewhere(k)
          /\ \/ candidates' = [candidates EXCEPT ![c] = doc]
             \/ candidates' = candidates
      BY <1>2, <1>7 DEF SignupSaves, Elsewhere, Listing
    <2>2. got \in Versions
      BY <1>1, <1>2, <1>7 DEF SignupSaves, RequestHolds, At
    <2>3. doc # NoDoc
      <3>1. /\ IsCandidate(doc) /\ doc.consent = got /\ doc.resume = NoFile /\ doc.pending = NoFile
        BY CandidateIs
      <3> HIDE DEF doc
      <3> QED
        BY <1>5, <2>2, <3>1, DocumentIsThere
    <2>4. CASE candidates' = candidates
      <3>1. EndsStay
        BY <1>3, <2>4, NothingEnds
      <3>2. \/ End(k) \/ \E pc, q : pc \notin Listing /\ Proceed(k, pc, q)
        BY <1>7 DEF SignupSaves, Listing
      <3> QED
        BY <1>1, <3>1, <3>2, EndMoves, ProceedMoves, EndedEnds, UnlistedEnds DEF Went, Moved
    <2> HIDE DEF doc
    <2> QED
      BY <1>3, <2>1, <2>3, <2>4, SavedEnds
  <1>8. CASE AcceptMirrors(k)
    <2>1. /\ Elsewhere(k) /\ Remembers(k)
          /\ candidates' = [candidates EXCEPT ![c] = Mirror(copy, got)]
      BY <1>2, <1>8 DEF AcceptMirrors, Elsewhere, Remembers
    <2>2. got \in Versions
      <3>1. got \in DOMAIN versions
        BY <1>1, <1>2, <1>8 DEF AcceptMirrors, RequestHolds, Recording
      <3> QED
        BY <3>1 DEF VersionsInv
    <2>3. Mirror(copy, got) # NoDoc
      BY <1>6, <2>1, <2>2, MirrorForms, DocumentIsThere DEF SameFiles
    <2> QED
      BY <1>3, <2>1, <2>3, SavedEnds
  <1>9. CASE UpdateMeSaves(k)
    <2>1. /\ Elsewhere(k) /\ Remembers(k) /\ candidates' = [candidates EXCEPT ![c] = copy]
      BY <1>2, <1>9 DEF UpdateMeSaves, Elsewhere, Remembers, At
    <2> QED
      BY <1>3, <1>6, <2>1, SavedEnds
  <1>10. CASE RequestUploadSaves(k)
    <2> DEFINE doc == [copy EXCEPT !.pending = r]
    <2>1. /\ Elsewhere(k) /\ Remembers(k) /\ requests[k].op = "upload"
          /\ candidates' = [candidates EXCEPT ![c] = doc]
      BY <1>2, <1>10 DEF RequestUploadSaves, Elsewhere, Remembers, At
    <2>2. r \in Resumes \cup {NoFile}
      BY <1>1, <1>2, <2>1 DEF FilesKept
    <2>3. doc # NoDoc
      <3>1. /\ IsCandidate(doc) /\ doc.consent = copy.consent /\ doc.resume = copy.resume
            /\ doc.pending = r
        BY <1>6, <2>1, PendingForms
      <3> HIDE DEF doc
      <3> QED
        BY <1>6, <2>1, <2>2, <3>1, DocumentIsThere
    <2> HIDE DEF doc
    <2> QED
      BY <1>3, <2>1, <2>3, SavedEnds
  <1>11. CASE CompleteSaves(k)
    <2> DEFINE doc == Completed(copy, got = "taken")
    <2>1. /\ Elsewhere(k) /\ Remembers(k)
          /\ candidates' = [candidates EXCEPT ![c] = doc]
      BY <1>2, <1>11 DEF CompleteSaves, Completed, Elsewhere, Listing, Remembers, At
    <2>2. doc # NoDoc
      <3>1. /\ IsCandidate(doc) /\ doc.consent = copy.consent /\ doc.pending = NoFile
            /\ doc.resume \in {copy.pending, copy.resume}
        BY <1>6, <2>1, CompletedForms
      <3> HIDE DEF doc
      <3> QED
        BY <1>5, <1>6, <2>1, <3>1, DocumentIsThere
    <2> HIDE DEF doc
    <2> QED
      BY <1>3, <2>1, <2>2, SavedEnds
  <1> QED
    BY <1>7, <1>8, <1>9, <1>10, <1>11

\* The list goes before what it belongs to.
LEMMA DeletionKeepsEnds ==
    ASSUME ShapeInv, EndsInv, NEW k \in Clients, DeleteMany(k) \/ DeleteFiles(k) \/ DeleteDoc(k)
    PROVE  EndsInv'
PROOF
  <1> USE DEF people, vacancies, control
  <1>1. RequestsOK /\ StoresOK /\ RequestOK(k) /\ ListGone(k)
    BY DEF ShapeInv, EndsInv
  <1>2. CASE DeleteMany(k)
    <2>1. PICK ids : ids = requests[k].got
      OBVIOUS
    <2>2. /\ \A a \in Jobs \X Candidates :
               applications'[a] = IF a \in ids THEN NoDoc ELSE applications[a]
          /\ UNCHANGED <<outdated, candidates, jobs>>
      BY <1>1, <1>2, <2>1 DEF DeleteMany, Without, StoresOK
    <2>3. \E pc : Went(k, pc, ids)
      BY <1>1, <1>2, <2>1, ProceedMoves DEF DeleteMany
    <2>4. EndsStay
      BY <2>2 DEF EndsStay, ApplicationsFew, CandidatesStay, JobsStay
    <2>5. ListGone(k)' /\ OthersStay(k)
      BY <2>2, <2>3 DEF ListGone, Went, Moved
    <2> QED
      BY <2>4, <2>5, EndsMove
  <1>3. CASE DeleteFiles(k)
    <2>1. /\ At(k, "delete", "files") /\ Went(k, "doc", requests[k].got)
          /\ UNCHANGED <<outdated, candidates, jobs, applications>>
      BY <1>1, <1>3, ProceedMoves DEF DeleteFiles
    <2>2. EndsStay
      BY <2>1, NothingEnds
    <2>3. ListGone(k)' /\ OthersStay(k)
      BY <1>1, <2>1 DEF ListGone, Went, Moved, At
    <2> QED
      BY <2>2, <2>3, EndsMove
  <1>4. CASE DeleteDoc(k)
    <2>1. PICK c, left : c = requests[k].who /\ left = ApplicationsOf(c) \ requests[k].got
      OBVIOUS
    <2>2. /\ At(k, "delete", "doc") /\ c \in Candidates
          /\ candidates' = [candidates EXCEPT ![c] = NoDoc]
          /\ outdated' = outdated \cup left \cup (IF left = {} THEN {} ELSE {c})
          /\ Went(k, "account", NoArg)
          /\ UNCHANGED <<jobs, applications>>
      BY <1>1, <1>4, <2>1, ProceedMoves DEF DeleteDoc, Unlisted, At, RequestOK, CandidateOps
    <2>3. \A d \in Candidates : d # c => candidates'[d] = candidates[d]
      BY <1>1, <2>2 DEF StoresOK
    <2>4. ASSUME NEW a \in Jobs \X Candidates PROVE ApplicationKept(a)'
      <3>1. CASE a[2] # c
        BY <2>2, <2>3, <3>1 DEF EndsInv, ApplicationKept
      <3>2. CASE a[2] = c
        <4>1. applications[a] # NoDoc => a \in ApplicationsOf(c)
          BY <3>2 DEF ApplicationsOf
        <4>2. a \in requests[k].got => applications[a] = NoDoc \/ a \in outdated
          BY <1>1, <2>2 DEF ListGone, At
        <4> QED
          BY <2>1, <2>2, <4>1, <4>2 DEF ApplicationKept
      <3> QED
        BY <3>1, <3>2
    <2>5. ASSUME NEW i \in Clients PROVE ListGone(i)'
      <3>1. CASE i = k
        BY <2>2, <3>1 DEF Went, Moved, ListGone
      <3>2. CASE i # k
        BY <2>2, <3>2 DEF EndsInv, ListGone, Went, Moved, OthersStay
      <3> QED
        BY <3>1, <3>2
    <2> QED
      BY <2>4, <2>5 DEF EndsInv
  <1> QED
    BY <1>2, <1>3, <1>4

LEMMA JobsKeepEnds ==
    ASSUME ShapeInv, EndsInv, NEW k \in Clients, UpdateJobSaves(k) \/ RemoveJobDeletes(k)
    PROVE  EndsInv'
PROOF
  <1> USE DEF people, vacancies, control
  <1>1. RequestsOK /\ StoresOK /\ ListGone(k)
    BY DEF ShapeInv, EndsInv
  <1>2. CASE UpdateJobSaves(k)
    <2>1. Ended(k) /\ UNCHANGED <<outdated, candidates, applications>>
      BY <1>1, <1>2, EndMoves DEF UpdateJobSaves
    <2>2. PICK status \in {"open", "closed"} : jobs' = [jobs EXCEPT ![requests[k].arg] = status]
      BY <1>2 DEF UpdateJobSaves
    <2>3. JobsStay
      BY <1>1, <2>2 DEF JobsStay, StoresOK
    <2>4. EndsStay
      BY <2>1, <2>3 DEF EndsStay, ApplicationsFew, CandidatesStay
    <2> QED
      BY <2>1, <2>4, EndedEnds
  <1>3. CASE RemoveJobDeletes(k)
    <2>1. PICK j : j = requests[k].arg
      OBVIOUS
    <2>2. /\ At(k, "remove", "job") /\ Ended(k) /\ jobs' = [jobs EXCEPT ![j] = "none"]
          /\ outdated' = outdated \cup (ApplicationsTo(j) \ requests[k].got)
          /\ UNCHANGED <<candidates, applications>>
      BY <1>1, <1>3, <2>1, EndMoves DEF RemoveJobDeletes, Unlisted
    <2>3. \A i \in Jobs : i # j => jobs'[i] = jobs[i]
      BY <1>1, <2>2 DEF StoresOK
    <2>4. ASSUME NEW a \in Jobs \X Candidates PROVE ApplicationKept(a)'
      <3>1. CASE a[1] # j
        BY <2>2, <2>3, <3>1 DEF EndsInv, ApplicationKept
      <3>2. CASE a[1] = j
        <4>1. applications[a] # NoDoc => a \in ApplicationsTo(j)
          BY <3>2 DEF ApplicationsTo
        <4>2. a \in requests[k].got => applications[a] = NoDoc \/ a \in outdated
          BY <1>1, <2>2 DEF ListGone, At
        <4> QED
          BY <2>2, <4>1, <4>2 DEF ApplicationKept
      <3> QED
        BY <3>1, <3>2
    <2>5. ASSUME NEW i \in Clients PROVE ListGone(i)'
      <3>1. CASE i = k
        BY <2>2, <3>1 DEF Ended, Idle, ListGone
      <3>2. CASE i # k
        BY <2>2, <3>2 DEF EndsInv, ListGone, Ended, OthersStay
      <3> QED
        BY <3>1, <3>2
    <2> QED
      BY <2>4, <2>5 DEF EndsInv
  <1> QED
    BY <1>2, <1>3

\* An application is written where both its ends are, past no deletion, or as
\* history.
LEMMA ApplicationWritten ==
    ASSUME EndsInv, NEW k \in Clients, Ended(k), outdated \subseteq outdated',
           UNCHANGED <<candidates, jobs>>, NEW a \in Jobs \X Candidates,
           \A b \in Jobs \X Candidates : b # a => applications'[b] = applications[b],
           \/ applications'[a] = NoDoc \/ {a, a[2]} \subseteq outdated'
           \/ applications[a] # NoDoc
           \/ ~Swept(a) /\ candidates[a[2]] # NoDoc /\ jobs[a[1]] # "none"
    PROVE  EndsInv'
PROOF
  <1>1. ASSUME NEW b \in Jobs \X Candidates PROVE ApplicationKept(b)'
    <2>1. ApplicationKept(b)
      BY DEF EndsInv
    <2>2. CASE b # a
      BY <2>1, <2>2 DEF ApplicationKept
    <2>3. CASE b = a
      BY <2>1, <2>3 DEF ApplicationKept
    <2> QED
      BY <2>2, <2>3
  <1>2. ASSUME NEW i \in Clients PROVE ListGone(i)'
    <2>1. CASE i = k
      BY <2>1 DEF Ended, Idle, ListGone
    <2>2. CASE i # k
      <3>1. ListGone(i) /\ requests'[i] = requests[i]
        BY <2>2 DEF EndsInv, Ended, OthersStay
      <3>2. CASE requests[i].pc \in {"files", "doc", "job"} /\ a \in requests[i].got
        <4>1. Swept(a)
          BY <3>2 DEF Swept
        <4> QED
          BY <3>1, <3>2, <4>1 DEF ListGone
      <3>3. CASE ~(requests[i].pc \in {"files", "doc", "job"} /\ a \in requests[i].got)
        BY <3>1, <3>3 DEF ListGone
      <3> QED
        BY <3>2, <3>3
    <2> QED
      BY <2>1, <2>2
  <1> QED
    BY <1>1, <1>2 DEF EndsInv

LEMMA ApplicationsKeepEnds ==
    ASSUME ShapeInv, EndsInv, NEW k \in Clients,
           ApplySaves(k) \/ WithdrawDeletes(k) \/ UpdateStatusSaves(k)
    PROVE  EndsInv'
PROOF
  <1> USE DEF people, vacancies, control
  <1>1. RequestsOK /\ StoresOK /\ RequestOK(k)
    BY DEF ShapeInv
  <1>2. PICK c, j, a : c = requests[k].who /\ j = requests[k].arg /\ a = <<j, c>>
    OBVIOUS
  <1>3. /\ Ended(k) /\ c \in Candidates /\ j \in Jobs
        /\ UNCHANGED <<candidates, jobs>> /\ outdated \subseteq outdated'
    BY <1>1, <1>2, EndMoves DEF ApplySaves, WithdrawDeletes, UpdateStatusSaves, At, RequestOK,
                                CandidateOps
  <1>4. \A b \in Jobs \X Candidates : b # a => applications'[b] = applications[b]
    BY <1>1, <1>2 DEF ApplySaves, WithdrawDeletes, UpdateStatusSaves, StoresOK
  <1>5. a \in Jobs \X Candidates /\ a[1] = j /\ a[2] = c
    BY <1>2, <1>3
  <1>6. CASE ApplySaves(k)
    <2>1. \/ {a, c} \subseteq outdated'
          \/ ~Swept(a) /\ candidates[c] # NoDoc /\ jobs[j] # "none"
      BY <1>2, <1>6 DEF ApplySaves
    <2> QED
      BY <1>3, <1>4, <1>5, <2>1, ApplicationWritten
  <1>7. CASE WithdrawDeletes(k)
    <2>1. applications'[a] = NoDoc
      BY <1>1, <1>2, <1>5, <1>7 DEF WithdrawDeletes, StoresOK
    <2> QED
      BY <1>3, <1>4, <1>5, <2>1, ApplicationWritten
  <1>8. CASE UpdateStatusSaves(k)
    <2>1. requests[k].copy # NoDoc
      BY <1>1, <1>8 DEF UpdateStatusSaves, RequestOK
    <2>2. {a, c} \subseteq outdated' \/ applications[a] # NoDoc
      BY <1>2, <1>5, <1>8, <2>1 DEF UpdateStatusSaves
    <2> QED
      BY <1>3, <1>4, <1>5, <2>2, ApplicationWritten
  <1> QED
    BY <1>6, <1>7, <1>8

LEMMA StepKeepsEnds ==
    ASSUME VersionsInv, ShapeInv, ConsentInv, BelongInv, EndsInv, [RecruitmentNext]_vars
    PROVE  EndsInv'
PROOF
  <1> USE DEF people, vacancies, control
  <1>1. CASE UNCHANGED vars
    BY <1>1, NothingEnds, AloneEnds DEF vars
  <1>2. ASSUME NEW k \in Clients, Handle(k) PROVE EndsInv'
    <2>1. CASE Aloof(k)
      BY <2>1, AloofKeepEnds
    <2>2. CASE ~Aloof(k)
      BY <1>2, <2>2, WritersKeepEnds, DeletionKeepsEnds, JobsKeepEnds, ApplicationsKeepEnds
         DEF Handle, CandidateHandle, JobHandle, Aloof
    <2> QED
      BY <2>1, <2>2
  <1>3. ASSUME NEW k \in Clients, Stop(k) PROVE EndsInv'
    <2>1. Ended(k) /\ UNCHANGED <<outdated, candidates, jobs, applications>>
      BY <1>3, EndMoves DEF Stop, ShapeInv
    <2> QED
      BY <2>1, NothingEnds, EndedEnds
  <1>4. CASE DiscardDraft /\ UNCHANGED <<people, vacancies>>
    BY <1>4, NothingEnds, AloneEnds DEF DiscardDraft
  <1>5. ASSUME NEW c \in Candidates, NEW r \in Resumes, NEW content \in {"ok", "bad"},
               FileArrives(c, r, content)
        PROVE  EndsInv'
    BY <1>5, NothingEnds, AloneEnds DEF FileArrives, Mark
  <1>6. ASSUME NEW j \in Jobs, CreateJob(j) PROVE EndsInv'
    <2>1. UNCHANGED <<requests, outdated, candidates, applications>> /\ JobsStay
      BY <1>6 DEF CreateJob, JobsStay, ShapeInv, StoresOK
    <2> QED
      BY <2>1, AloneEnds DEF EndsStay, ApplicationsFew, CandidatesStay
  <1> QED
    BY <1>1, <1>2, <1>3, <1>4, <1>5, <1>6, AsksKeepEnds DEF RecruitmentNext

\* The first application is to an open job, by a candidate that is there.
LEMMA InitHasEnds ==
    ASSUME RecruitmentInit
    PROVE  EndsInv
PROOF
  <1>1. VersionsInv /\ requests = [k \in Clients |-> Idle]
    BY InitGivesVersions DEF RecruitmentInit, LegalInit
  <1> DEFINE c == CHOOSE d \in Candidates : TRUE
             r == CHOOSE f \in Resumes : TRUE
             j == CHOOSE i \in Jobs : TRUE
  <1>2. r \in Resumes
    BY RecruitmentAssumption
  <1>3. PICK live \in BOOLEAN, consent \in DOMAIN versions \cup {Unset},
             resume \in {"none", "awaited", "ok"}, applied \in BOOLEAN :
          Stage(c, r, j, live, consent, resume, applied)
    BY DEF RecruitmentInit
  <1> HIDE DEF c, r, j
  <1> DEFINE doc == Candidate(consent, IF resume = "ok" THEN r ELSE NoFile,
                                       IF resume = "awaited" THEN r ELSE NoFile)
             app == Application("received", IF consent = Unset THEN Unset ELSE header.required)
  <1>4. /\ ~live => ~applied
        /\ applied => jobs[j] = "open"
        /\ candidates = [d \in Candidates |-> IF live /\ d = c THEN doc ELSE NoDoc]
        /\ applications = [a \in Jobs \X Candidates |->
                      IF applied /\ a = <<j, c>> THEN app ELSE NoDoc]
    BY <1>3 DEF Stage
  <1>5. consent \in Versions
    BY <1>1 DEF VersionsInv, Versions, Unset
  <1>6. doc # NoDoc
    <2>1. /\ IsCandidate(doc) /\ doc.consent = consent
          /\ doc.resume = (IF resume = "ok" THEN r ELSE NoFile)
          /\ doc.pending = (IF resume = "awaited" THEN r ELSE NoFile)
      BY CandidateIs
    <2> HIDE DEF doc
    <2> QED
      BY <1>2, <1>5, <2>1, DocumentIsThere
  <1> HIDE DEF doc, app
  <1>7. \A k \in Clients : ListGone(k)
    BY <1>1 DEF Idle, ListGone
  <1>8. ASSUME NEW a \in Jobs \X Candidates PROVE ApplicationKept(a)
    BY <1>4, <1>6 DEF ApplicationKept
  <1> QED
    BY <1>7, <1>8 DEF EndsInv

-----------------------------------------------------------------------------
(* Nothing is orphaned *)

LEMMA EndsAreBoth ==
    ASSUME ShapeInv, EndsInv
    PROVE  ApplicationHasBothEnds
PROOF
  <1>1. DOMAIN applications = Jobs \X Candidates
    BY DEF ShapeInv, StoresOK
  <1>2. ASSUME NEW a \in (DOMAIN applications) \ outdated, applications[a] # NoDoc
        PROVE  a \in Applicants(a[1]) /\ a \in Mine(a[2])
    <2>1. a \in Jobs \X Candidates /\ candidates[a[2]] # NoDoc /\ jobs[a[1]] # "none"
      BY <1>1, <1>2 DEF EndsInv, ApplicationKept
    <2>2. a \in ApplicationsTo(a[1]) /\ a \in ApplicationsOf(a[2])
      BY <1>2, <2>1 DEF ApplicationsTo, ApplicationsOf
    <2> QED
      BY <2>1, <2>2 DEF Applicants, Mine
  <1>3. ASSUME NEW c \in MustAccept, ApplicationsOf(c) \cap outdated = {}
        PROVE  TalentPool[c] = Cardinality(Mine(c))
    <2>1. \A a \in ApplicationsOf(c) : jobs[a[1]] # "none"
      <3> SUFFICES ASSUME NEW a \in ApplicationsOf(c) PROVE jobs[a[1]] # "none"
        OBVIOUS
      <3>1. a \in Jobs \X Candidates /\ applications[a] # NoDoc /\ a \notin outdated
        BY <1>3 DEF ApplicationsOf, MustAccept
      <3> QED
        BY <3>1 DEF EndsInv, ApplicationKept
    <2>2. Mine(c) = ApplicationsOf(c)
      BY <2>1 DEF Mine
    <2> QED
      BY <2>2 DEF TalentPool
  <1> QED
    BY <1>2, <1>3 DEF ApplicationHasBothEnds

LEMMA BelongingImplies ==
    ASSUME ShapeInv, BelongInv, EndsInv
    PROVE  NothingIsOrphaned
PROOF
  <1>1. ResumeHasItsFile
    <2> SUFFICES ASSUME NEW c \in Candidates \ outdated, NEW r \in Downloadable(c)
                 PROVE  \/ files[c][r] = "ok"
                        \/ \E k \in Clients : requests[k].who = c /\ requests[k].op = "delete"
                        \/ WithoutFiles(c) \in cut
      BY DEF ResumeHasItsFile
    <2>1. candidates[c] # NoDoc /\ r = candidates[c].resume /\ r # NoFile
      BY DEF Downloadable, MustAccept
    <2>2. FileThere(c, r)
      BY <2>1 DEF BelongInv, ResumeKept
    <2> QED
      BY <2>2 DEF FileThere, At
  <1>2. NothingOutlivesTheAccount
    BY DEF NothingOutlivesTheAccount, BelongInv, AccountKept, Empty, NoFilesOf
  <1> QED
    BY <1>1, <1>2, EndsAreBoth DEF NothingIsOrphaned

RecruitmentInv == VersionsInv /\ ShapeInv /\ ConsentInv /\ BelongInv /\ EndsInv

\* The strengthening of NothingIsOrphaned: files, documents and lists, at every
\* step of every request.
THEOREM BelongingInvariance == RecruitmentSpec => []RecruitmentInv
PROOF
  <1>1. RecruitmentInit => RecruitmentInv
    BY InitGivesVersions, InitHasShape, InitHasConsent, InitHasBelonging, InitHasEnds
       DEF RecruitmentInv
  <1>2. RecruitmentInv /\ [RecruitmentNext]_vars => RecruitmentInv'
    BY StepKeeps, StepKeepsShape, StepKeepsConsent, StepKeepsBelonging, StepKeepsEnds
       DEF RecruitmentInv
  <1> QED
    BY <1>1, <1>2, PTL DEF RecruitmentSpec

\* Whatever deletions, withdrawals and uploads overlap or stop half way, no
\* application, resume or file is left without what it belongs to.
THEOREM NothingIsLeftAlone == RecruitmentSpec => []NothingIsOrphaned
PROOF
  <1>1. RecruitmentInv => NothingIsOrphaned
    BY BelongingImplies DEF RecruitmentInv
  <1> QED
    BY <1>1, BelongingInvariance, PTL
=============================================================================
