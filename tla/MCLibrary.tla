----------------------------- MODULE MCLibrary -----------------------------
(* A level of one topic, or of two, the second of videos. *)
EXTENDS LibraryProperties

CONSTANTS t1, t2

MCStartLevels == {t1 :> "common", (t1 :> "common") @@ (t2 :> "video")}
=============================================================================
