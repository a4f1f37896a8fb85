---------------------------- MODULE MCActivation ----------------------------
(* Instances of Activation for TLC. *)
EXTENDS Activation

CONSTANTS c1, c2

(* The clients belong to different applications. *)
TwoApps == [c \in Clients |-> IF c = c1 THEN "a" ELSE "b"]
=============================================================================
