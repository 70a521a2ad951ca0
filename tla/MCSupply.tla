------------------------------ MODULE MCSupply ------------------------------
(* Two generations of one material of up to two modules. *)
EXTENDS SupplyProperties
=============================================================================
