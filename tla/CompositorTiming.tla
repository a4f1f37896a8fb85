-------------------------- MODULE CompositorTiming --------------------------
(***************************************************************************)
(* Compositor and the times its timer is started with.                     *)
(***************************************************************************)
EXTENDS Compositor, RepaintTiming

(* Whenever the composite timer runs, setCompositeTimer() (composite.cpp)  *)
(* has started it with a delay that meets the retrace, or that waits for   *)
(* 250 ms because VBlankTime cannot be kept (see InTime): for a scene that *)
(* has just started, and after passes that took any time, at every refresh *)
(* rate and with every configuration.                                      *)
RetraceIsMet ==
    k.loop.timer => StartsInTime /\ (k.loop.frames # 0 => PassesInTime)
=============================================================================
