--------------------------- MODULE MCFourWindows ---------------------------
(* Four windows for TLC: the fewest with a loop of transients. *)
EXTENDS StackingOrder

CONSTANTS dialog, owner, other, splash

OneLeader == [w \in Windows |-> "app"]

NoHint == [w \in Windows |-> {}]

(* A dialog of a window that belongs to the whole group; another window    *)
(* names the first one or the splash screen, which belongs to the group.   *)
SplashTargets ==
    [w \in Windows |-> CASE w = owner -> {Root} [] w = dialog -> {owner}
                         [] w = other -> {splash, owner} [] w = splash -> {}]
=============================================================================
