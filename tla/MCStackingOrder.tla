-------------------------- MODULE MCStackingOrder ---------------------------
(* Instances of StackingOrder for TLC. *)
EXTENDS StackingOrder

CONSTANTS w1, w2, w3

OneLeader == [w \in Windows |-> "app"]

(* Only the first window names a group leader. *)
OneHint == [w \in Windows |-> IF w = w1 THEN Leaders ELSE {}]

(* The first two windows point to each other, to the root window or to     *)
(* nothing; the third one is a splash screen.                              *)
SomeTargets ==
    [w \in Windows |-> CASE w = w1 -> {w2, NoWindow} [] w = w2 -> {w1, Root}
                         [] w = w3 -> {w1, Root}]
=============================================================================
