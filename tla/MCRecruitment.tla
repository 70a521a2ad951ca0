--------------------------- MODULE MCRecruitment ---------------------------
(* One candidate and one job. *)
EXTENDS RecruitmentProperties
=============================================================================
