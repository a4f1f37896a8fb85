-------------------------- MODULE MCCompositorLive --------------------------
(* An instance of CompositorTiming for TLC: four ticks in a millisecond.   *)
EXTENDS CompositorTiming

(* Every tick of the first 33 ms, then across the limits of 250 ms, of one *)
(* second and of an int.                                                   *)
SomeTimes == 0..132 \cup {999, 1000, 1001, 3999, 4000, 4001, 8191, 8192, 16384}
=============================================================================
