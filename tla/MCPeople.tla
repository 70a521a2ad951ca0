------------------------------ MODULE MCPeople ------------------------------
(* One student and one teacher. *)
EXTENDS PeopleProperties
=============================================================================
