\* Two requests at once over one candidate and one job at any stage, beside the
\* publication of the terms.
SPECIFICATION RecruitmentSpec
CONSTANTS
    Clients = {k1, k2}
    MaxRequests = 2
    MaxStops = 1
    Terms = Terms
    NoDoc = NoDoc
    NoOne = NoOne
    NoArg = NoArg
    Candidates = {c1}
    Jobs = {j1}
    Resumes = {r1, r2}
    NoFile = NoFile
CHECK_DEADLOCK FALSE
INVARIANTS
    PublicationsAgree
    ConsentIsOnRecord
    NothingIsOrphaned
PROPERTIES
    VersionsAreKept
