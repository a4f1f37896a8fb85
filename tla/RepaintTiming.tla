--------------------------- MODULE RepaintTiming ----------------------------
(***************************************************************************)
(* When the next painting pass starts (composite.cpp): the intervals that  *)
(* startupWithWorkspace() derives from the refresh rate and the            *)
(* configuration, and the delay setCompositeTimer() computes from them and *)
(* from the time the last pass took.  RepaintLoop says whether the timer   *)
(* is started; here are the times, as pure operators.                      *)
(*                                                                         *)
(* Times are counted in ticks, of which Milli make a millisecond, and an   *)
(* int is less than IntLimit: both can be scaled down together.            *)
(***************************************************************************)
EXTENDS Integers

CONSTANTS
    Milli,          \* ticks in a millisecond (1000 * 1000)
    IntLimit,       \* half the number of values of int and of uint (2^31)
    Rates,          \* what a screen or the configuration give as its rate in Hz
    MaxFps,         \* values of MaxFPS in kwinrc
    VBlankTimes,    \* values of VBlankTime in kwinrc, in ticks
    RenderTimes     \* times a pass takes, in ticks

ASSUME TicksAssumption ==
    /\ Milli \in Nat \ {0} /\ IntLimit \in Nat
    /\ 2000 * Milli < IntLimit
ASSUME ConfigurationAssumption ==
    /\ Rates \subseteq Int /\ MaxFps \subseteq Nat \ {0}
    /\ VBlankTimes \subseteq 0..(1000 * Milli) /\ RenderTimes \subseteq Nat

-----------------------------------------------------------------------------
(* Integers of C++.                                                        *)

(* Division and remainder, which truncate; d > 0.                          *)
quotient(n, d) == IF n >= 0 THEN n \div d ELSE -((-n) \div d)
remainder(n, d) == n - d * quotient(n, d)

(* The conversions to int and to uint.                                     *)
toInt(n) == ((n + IntLimit) % (2 * IntLimit)) - IntLimit
toUInt(n) == n % (2 * IntLimit)

milliToNano(milli) == milli * Milli
nanoToMilli(nano) == quotient(toInt(nano), Milli)

-----------------------------------------------------------------------------
(* The intervals.                                                          *)

(* 60 Hz without a sensible rate, 1000 Hz at best.                         *)
currentRefreshRate(rate) ==
    IF rate <= 0 THEN 60 ELSE IF rate > 1000 THEN 1000 ELSE rate

vBlankInterval(rate, syncs) ==
    milliToNano(IF syncs THEN 1000 ELSE 1)
        \div (IF syncs THEN currentRefreshRate(rate) ELSE 1)

(* With synchronisation, a multiple of the interval between retraces.      *)
fpsInterval(maxFps, vBlank, syncs) ==
    LET wanted   == milliToNano(1000) \div maxFps
        multiple == (wanted \div vBlank) * vBlank
    IN  IF ~syncs THEN wanted ELSE IF multiple > vBlank THEN multiple ELSE vBlank

(***************************************************************************)
(* What the delay is computed from.  vBlank and fps: vBlankInterval and    *)
(* fpsInterval.  since: m_timeSinceLastVBlank, the time a pass took or,    *)
(* for a new scene and after a pass with nothing to paint, "start now",    *)
(* from what options->vBlankTime() was then.  blocks: blocksForRetrace(),  *)
(* which only backends that synchronise do.                                *)
(***************************************************************************)
timings(rate, maxFps, syncs, painted) ==
    LET vBlank == vBlankInterval(rate, syncs)
        fps    == fpsInterval(maxFps, vBlank, syncs)
    IN  [vBlank: {vBlank}, fps: {fps}, vBlankTime: VBlankTimes, blocks: {FALSE, syncs},
         since: IF painted THEN RenderTimes ELSE {fps - (v + 1) : v \in VBlankTimes}]

-----------------------------------------------------------------------------
(* The delay.                                                              *)

(* From the last pass to the retrace that the next frame is for.           *)
padding(c) ==
    LET toNext == c.vBlank - remainder(c.since, c.vBlank)
    IN  IF c.since > c.fps THEN toNext
        ELSE toNext + (c.fps \div c.vBlank - 1) * c.vBlank

(* Mutant of waitBlocking: a frame that will be missed is not put off.     *)
waitBlockingLate(c) == toUInt(nanoToMilli(padding(c) - c.vBlankTime))

(* A frame that will likely be missed gets one interval more.              *)
waitBlocking(c) ==
    LET late == padding(c) < c.vBlankTime
    IN  toUInt(nanoToMilli(padding(c) + (IF late THEN c.vBlank ELSE 0) - c.vBlankTime))

(* Without a backend that blocks: the next tick, at least 1 ms later.      *)
waitFree(c) ==
    LET wait == toUInt(nanoToMilli(c.fps - c.since))
    IN  IF c.fps > c.since /\ wait # 0 THEN wait ELSE 1

(* The delay of compositeTimer: "force 4fps minimum".                      *)
waitTime(c) ==
    LET wait == IF c.blocks THEN waitBlocking(c) ELSE waitFree(c)
    IN  IF wait < 250 THEN wait ELSE 250

-----------------------------------------------------------------------------

(***************************************************************************)
(* Where setCompositeTimer() aims at.  If the backend blocks: the pass     *)
(* starts vBlankTime before a retrace and less than 1 ms too early, in     *)
(* this frame or at most one retrace after it (two, if vBlankTime is       *)
(* longer than the interval); other passes start less than 1 ms before the *)
(* tick, or 1 ms later if that has passed.  A target further away than     *)
(* 250 ms is missed on the early side, and one is missed for a frame that  *)
(* one interval more does not save: if 1 ms or more is lacking, the delay  *)
(* is negative, a huge unsigned number, and the pass waits for 250 ms.     *)
(* Nowhere else is a time cut off by the conversion to int or wrapped.     *)
(***************************************************************************)
InTime(c) ==
    LET wake    == c.since + waitTime(c) * Milli
        ready   == wake + c.vBlankTime
        retrace == ready + ((-ready) % c.vBlank)
        lacking == c.vBlankTime - (padding(c) + c.vBlank)
        slack   == IF c.vBlankTime <= c.vBlank THEN c.vBlank ELSE 2 * c.vBlank
    IN  IF c.blocks /\ lacking > 0
        THEN waitTime(c) = IF lacking < Milli THEN 0 ELSE 250
        ELSE IF c.blocks
        THEN /\ retrace <= c.since + c.fps + slack
             /\ retrace < ready + Milli \/ waitTime(c) = 250
        ELSE IF c.fps < c.since + Milli THEN waitTime(c) = 1
        ELSE /\ wake <= c.fps
             /\ c.fps < wake + Milli \/ waitTime(c) = 250

AllInTime(painted) ==
    \A rate \in Rates, maxFps \in MaxFps, syncs \in BOOLEAN :
        \A c \in timings(rate, maxFps, syncs, painted) : InTime(c)

StartsInTime == AllInTime(FALSE)
PassesInTime == AllInTime(TRUE)
=============================================================================
