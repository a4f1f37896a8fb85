------------------------------ MODULE MCLogind ------------------------------
(* Instances of Logind for TLC. *)
EXTENDS Logind
=============================================================================
