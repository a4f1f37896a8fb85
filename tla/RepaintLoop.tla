---------------------------- MODULE RepaintLoop ----------------------------
(***************************************************************************)
(* The rendering loop of KWin's Compositor (composite.cpp): when a frame   *)
(* is painted, when the composite timer runs, and how painting waits for a *)
(* buffer swap.  Every member function of the loop is a function from the  *)
(* record of the members it reads and writes to the new record, so that    *)
(* the handlers of Compositor and DrmBackend can call them one after the   *)
(* other inside one step, as the code does.                                *)
(***************************************************************************)
EXTENDS Naturals

CONSTANT SyncsToVBlank   \* m_scene->syncsToVBlank()

ASSUME SyncsToVBlankAssumption == SyncsToVBlank \in BOOLEAN

(***************************************************************************)
(* The members.  repaints: repaints_region or the repaints of some window  *)
(* are not empty.  flush: the backend holds a rendered frame it has not    *)
(* posted yet (OpenGLBackend::hasPendingFlush).  visible: the overlay      *)
(* window is not fully obscured, or the scene uses none.  outputs:         *)
(* backend()->areOutputsEnabled().  Two members are history.  frames: 0    *)
(* until the scene has painted, then 1 and 2 in turn.  fault: an assert()  *)
(* of the loop has failed or a null m_scene was dereferenced.              *)
(***************************************************************************)
Loop ==
    [scene: BOOLEAN, starting: BOOLEAN, timer: BOOLEAN, repaints: BOOLEAN,
     swapPending: BOOLEAN, composeAtSwap: BOOLEAN, flush: BOOLEAN,
     visible: BOOLEAN, outputs: BOOLEAN, frames: 0..2, fault: BOOLEAN]

(***************************************************************************)
(* What a painting pass may do beyond the loop's control.  again: the pass *)
(* itself asks for another repaint (an animating effect).  swap: posting   *)
(* the frame announces a buffer swap (aboutToSwapBuffers).  flush: the     *)
(* frame stays in the back buffer for the next pass.                       *)
(***************************************************************************)
Frame == [again: BOOLEAN, swap: BOOLEAN, flush: BOOLEAN]

-----------------------------------------------------------------------------

setCompositeTimer(l) ==
    IF /\ l.scene
       /\ ~l.starting
       /\ ~(l.swapPending /\ l.composeAtSwap)
       /\ l.outputs
    THEN [l EXCEPT !.timer = TRUE]
    ELSE l

scheduleRepaint(l) ==
    IF l.timer THEN l ELSE setCompositeTimer(l)

(* addRepaint(), addRepaintFull() and the repaints of a window, which      *)
(* reach scheduleRepaint() through its needsRepaint signal.                *)
addRepaint(l) ==
    IF l.scene THEN scheduleRepaint([l EXCEPT !.repaints = TRUE]) ELSE l

aboutToSwapBuffers(l) ==
    [l EXCEPT !.swapPending = TRUE, !.fault = @ \/ l.swapPending]

swapIf(l, swaps) ==
    IF swaps THEN aboutToSwapBuffers(l) ELSE l

(* Mutant of paintPass: the pass does not trigger the next one.            *)
paintPassLast(l, f) ==
    swapIf([l EXCEPT !.repaints = f.again, !.flush = f.flush,
                     !.frames = IF @ = 1 THEN 2 ELSE 1, !.timer = FALSE],
           f.swap)

(* m_scene->paint(), the stop of the timer and what schedules the next pass. *)
paintPass(l, f) ==
    LET p == swapIf([l EXCEPT !.repaints = f.again, !.flush = f.flush,
                              !.frames = IF @ = 1 THEN 2 ELSE 1,
                              !.timer = FALSE], f.swap)
    IN  IF p.swapPending /\ SyncsToVBlank
        THEN [p EXCEPT !.composeAtSwap = TRUE]
        ELSE scheduleRepaint(p)

(* m_scene->idle() posts the frame that was held back, if there is one.    *)
idlePass(l, f) ==
    [swapIf(l, l.flush /\ f.swap) EXCEPT !.flush = FALSE, !.timer = FALSE]

(* performCompositing() will reach m_scene->paint().                       *)
paints(l) == l.scene /\ l.visible /\ ~l.swapPending /\ l.outputs /\ l.repaints

performCompositing(l, f) ==
    IF ~l.scene           THEN [l EXCEPT !.fault = TRUE]
    ELSE IF ~l.visible    THEN l
    ELSE IF l.swapPending THEN [l EXCEPT !.composeAtSwap = TRUE,
                                         !.timer = FALSE]
    ELSE IF ~l.outputs    THEN [l EXCEPT !.timer = FALSE]
    ELSE IF ~l.repaints   THEN idlePass(l, f)
    ELSE paintPass(l, f)

(* Mutant of bufferSwapComplete: the deferred pass is forgotten.           *)
bufferSwapCompleteOnly(l, f) ==
    [l EXCEPT !.swapPending = FALSE, !.composeAtSwap = FALSE,
              !.fault = @ \/ ~l.swapPending]

bufferSwapComplete(l, f) ==
    LET done == [l EXCEPT !.swapPending = FALSE, !.composeAtSwap = FALSE,
                          !.fault = @ \/ ~l.swapPending]
    IN  IF l.composeAtSwap THEN performCompositing(done, f) ELSE done

-----------------------------------------------------------------------------

(***************************************************************************)
(* What the loop owes its callers.  HasWork: there is something to paint,  *)
(* or a rendered frame still to post, the outputs are on and the overlay   *)
(* can be seen.  Awake: the timer runs then, or a pass is due when the     *)
(* pending swap completes.  Whether that swap will ever be reported the    *)
(* loop cannot know: the modules that use it say so.                       *)
(* Deferred: a pass is deferred only to a swap that is pending.            *)
(***************************************************************************)
HasWork(l) ==
    /\ l.scene /\ ~l.starting /\ l.outputs /\ l.visible
    /\ l.repaints \/ l.flush

Awake(l) == HasWork(l) => l.timer \/ (l.swapPending /\ l.composeAtSwap)

Deferred(l) == l.composeAtSwap => l.swapPending

(* The timer never runs without a scene to paint.                          *)
TimerHasScene(l) == l.timer => l.scene

LoopInv(l) ==
    /\ l \in Loop
    /\ Awake(l)
    /\ Deferred(l)
    /\ TimerHasScene(l)
    /\ ~l.fault
=============================================================================
