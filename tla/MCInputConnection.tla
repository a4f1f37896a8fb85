------------------------- MODULE MCInputConnection --------------------------
(* Instances of InputConnection for TLC. *)
EXTENDS InputConnection

CONSTANTS mouse, board

(* A mouse, and a keyboard with a pointing stick. *)
TwoDevices == (mouse :> {"pointer"}) @@ (board :> {"keyboard", "pointer"})
=============================================================================
