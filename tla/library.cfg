\* Two requests of the panel, its poll and a webhook at once, over a level with a
\* lesson at any stage.
SPECIFICATION FairLibrarySpec
CONSTANTS
    t1 = t1
    t2 = t2
    StartLevels <- MCStartLevels
    Lessons = {v1}
    Topics = {t1, t2}
    Materials = {m1, m2}
    Assets = {a1, a2}
    MaxMaterials = 1
    Clients = {c1, c2}
    Listeners = {k1}
    MaxRequests = 2
    MaxStops = 1
    NoDoc = NoDoc
    NoAsset = NoAsset
    NoArg = NoArg
CHECK_DEADLOCK FALSE
INVARIANTS
    AssetsAndLessonsAgree
    ShownIsThere
PROPERTIES
    ProcessingSettles
