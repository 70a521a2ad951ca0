------------------------- MODULE LibraryProperties -------------------------
(* What a level of video lessons promises the teacher and the student. *)
EXTENDS Library

\* A lesson that plays, or that failed, says so of the asset it names, which was
\* made for it: whatever completions, polls and repeated events overlap, no
\* outcome lands on the asset of another completion.
StatusTellsAsset ==
    \A l \in Present :
        LET asset == assets[docs[l].asset] IN
        docs[l].status \in {"ready", "errored"} =>
            docs[l].asset # NoAsset /\ asset.lesson = l /\ asset.state = docs[l].status

\* An asset that is paid for belongs to the document of its lesson, or to the
\* request about to save it: completing again, polling and removing leave none
\* behind.  The code keeps this while no document is saved from a reading that
\* was overtaken and no request stops half way.
AssetsAreKnown ==
    \A a \in Assets :
        LET l == assets[a].lesson IN
        assets[a].state # "none" /\ ~assets[a].deleted /\ l \notin outdated \cup cut =>
            \/ docs[l] # NoDoc /\ docs[l].asset = a
            \/ \E c \in Slots : requests[c].got = a

\* The documents and Mux speak of the same assets: neither tells an outcome of
\* another's, nor keeps one the other does not know.
AssetsAndLessonsAgree == StatusTellsAsset /\ AssetsAreKnown

\* A lesson that is ready is under a topic of the level, or no student would find
\* it: a topic goes only when no lesson, of whatever status, is under it, and a
\* lesson is created in a topic, or moved to one, that is there.  Each check has
\* its own reading and the save comes later; what was lost because that reading
\* was no longer true at the save is in outdated, and nothing else is.
ReadyIsFound == Visible \ outdated \subseteq StudentTree

\* A material the student may download has its file, unless it is being removed.
ReadyMaterialHasFile ==
    \A l \in Present \ (outdated \cup cut) : \A m \in Downloads(l) :
            \/ files[l][m] = "ok"
            \/ \E c \in Clients : requests[c].id = l /\ requests[c].op \in {"remove", "unmaterial"}

\* What the level shows is where a student finds it: a ready lesson under its
\* topic, the file of a ready material at the storage.
ShownIsThere == ReadyIsFound /\ ReadyMaterialHasFile

\* With no webhook at all, the polls of the panel take every processing lesson
\* to its outcome, unless its asset was deleted by a removal that did not end.
ProcessingSettles ==
    \A l \in Lessons :
        (docs[l] # NoDoc /\ docs[l].status = "processing") ~>
            \/ docs[l] = NoDoc
            \/ docs[l].status # "processing"
            \/ assets[docs[l].asset].deleted
=============================================================================
