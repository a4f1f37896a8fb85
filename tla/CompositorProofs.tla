-------------------------- MODULE CompositorProofs --------------------------
(***************************************************************************)
(* The safety properties of Compositor, for every set of windows, every    *)
(* queue bound and every kind of backend.                                  *)
(*                                                                         *)
(* The invariants hold of the record k between two callbacks, and the      *)
(* member functions call each other inside one.  So the argument follows   *)
(* the code: one lemma per member function says what it needs and what it  *)
(* establishes, and a step is proved from the functions it calls.          *)
(***************************************************************************)
EXTENDS CompositorTiming, FiniteSetTheorems, TLAPS

-----------------------------------------------------------------------------
(* The rendering loop: what the functions of RepaintLoop preserve.  The    *)
(* proofs about Compositor know nothing else of the loop.                  *)

(* The members that only the life cycle of the scene changes.              *)
SameScene(l, m) ==
    /\ m.scene = l.scene
    /\ m.starting = l.starting
    /\ m.visible = l.visible
    /\ m.outputs = l.outputs

(* What a pass needs: the loop's invariant without the wake-up, which the  *)
(* pass itself is going to provide.                                        *)
PassPre(l) ==
    /\ l \in Loop
    /\ Deferred(l)
    /\ TimerHasScene(l)
    /\ ~l.fault
    /\ l.scene

(* scheduleRepaint() wakes the loop up whenever it may be woken.           *)
LEMMA ScheduleRepaintWakes ==
    ASSUME NEW l \in Loop, PassPre(l)
    PROVE  /\ LoopInv(scheduleRepaint(l))
           /\ SameScene(l, scheduleRepaint(l))
           /\ scheduleRepaint(l).swapPending = l.swapPending
           /\ scheduleRepaint(l).frames = l.frames
  BY DEF PassPre, LoopInv, SameScene, Loop, scheduleRepaint, setCompositeTimer,
         HasWork, Awake, Deferred, TimerHasScene

(* addRepaint() keeps the invariant.                                       *)
LEMMA AddRepaintInv ==
    ASSUME NEW l \in Loop, LoopInv(l)
    PROVE  /\ LoopInv(addRepaint(l))
           /\ SameScene(l, addRepaint(l))
           /\ addRepaint(l).swapPending = l.swapPending
           /\ addRepaint(l).frames = l.frames
  <1>1. CASE l.scene
    <2> DEFINE m == [l EXCEPT !.repaints = TRUE]
    <2>1. /\ m \in Loop /\ PassPre(m) /\ SameScene(l, m)
          /\ m.swapPending = l.swapPending /\ m.frames = l.frames
      BY <1>1 DEF PassPre, LoopInv, Loop, Deferred, TimerHasScene, SameScene
    <2>2. addRepaint(l) = scheduleRepaint(m)
      BY <1>1 DEF addRepaint
    <2> HIDE DEF m
    <2> QED
      BY <2>1, <2>2, ScheduleRepaintWakes DEF SameScene
  <1>2. CASE ~l.scene
    BY <1>2 DEF addRepaint, SameScene
  <1> QED
    BY <1>1, <1>2

(* A painting pass ends with the loop awake, waiting for the swap it       *)
(* announced, or with nothing left to paint.                               *)
LEMMA PaintPassInv ==
    ASSUME NEW l \in Loop, NEW f \in Frame, PassPre(l), ~l.swapPending
    PROVE  /\ LoopInv(paintPass(l, f))
           /\ SameScene(l, paintPass(l, f))
           /\ paintPass(l, f).swapPending = f.swap
           /\ paintPass(l, f).frames # 0
  <1> DEFINE n == IF l.frames = 1 THEN 2 ELSE 1
             q == [l EXCEPT !.repaints = f.again, !.flush = f.flush,
                            !.frames = n, !.timer = FALSE]
             p == swapIf(q, f.swap)
  <1>n. n \in 0..2 /\ n # 0
    OBVIOUS
  <1> HIDE DEF n
  <1>1. q \in Loop
    BY <1>n DEF Loop, Frame
  <1>2a. /\ q.scene = l.scene /\ q.starting = l.starting
         /\ q.visible = l.visible /\ q.outputs = l.outputs
    BY DEF Loop
  <1>2b. /\ q.swapPending = l.swapPending /\ q.composeAtSwap = l.composeAtSwap
         /\ q.fault = l.fault /\ q.timer = FALSE
    BY DEF Loop
  <1>2c. q.frames = n
    BY DEF Loop
  <1>2. /\ SameScene(l, q)
        /\ q.swapPending = l.swapPending /\ q.composeAtSwap = l.composeAtSwap
        /\ q.fault = l.fault /\ q.frames # 0 /\ q.timer = FALSE
    BY <1>n, <1>2a, <1>2b, <1>2c DEF SameScene
  <1>3. /\ ~q.swapPending /\ ~q.composeAtSwap /\ ~q.fault /\ q.scene
        /\ ~q.timer
    BY <1>2 DEF PassPre, Deferred, SameScene
  <1> HIDE DEF q
  <1>4. /\ p \in Loop /\ SameScene(l, p) /\ p.swapPending = f.swap
        /\ p.frames # 0 /\ ~p.timer /\ ~p.composeAtSwap /\ ~p.fault /\ p.scene
    BY <1>1, <1>2, <1>3 DEF Loop, Frame, SameScene, swapIf, aboutToSwapBuffers
  <1>5. PassPre(p)
    BY <1>4 DEF PassPre, Deferred, TimerHasScene
  <1> HIDE DEF p
  <1>6. CASE p.swapPending /\ SyncsToVBlank
    <2>1. paintPass(l, f) = [p EXCEPT !.composeAtSwap = TRUE]
      BY <1>6 DEF paintPass, p, q, n
    <2> QED
      BY <1>4, <1>6, <2>1 DEF LoopInv, Loop, HasWork, Awake, Deferred,
                              TimerHasScene,
                              SameScene
  <1>7. CASE ~(p.swapPending /\ SyncsToVBlank)
    <2>1. paintPass(l, f) = scheduleRepaint(p)
      BY <1>7 DEF paintPass, p, q, n
    <2> QED
      BY <1>4, <1>5, <2>1, ScheduleRepaintWakes DEF SameScene
  <1> QED
    BY <1>6, <1>7

(* performCompositing() keeps the invariant and re-establishes the         *)
(* wake-up; a pass that may paint does.                                    *)
LEMMA PerformCompositingInv ==
    ASSUME NEW l \in Loop, NEW f \in Frame, PassPre(l)
    PROVE  /\ LoopInv(performCompositing(l, f))
           /\ SameScene(l, performCompositing(l, f))
           /\ l.swapPending => performCompositing(l, f).swapPending
           /\ ~f.swap => performCompositing(l, f).swapPending = l.swapPending
           /\ paints(l) => performCompositing(l, f).frames # 0
           /\ l.frames # 0 => performCompositing(l, f).frames # 0
  <1>1. CASE l.scene /\ ~l.visible
    BY <1>1 DEF performCompositing, PassPre, LoopInv, HasWork, Awake,
                SameScene, paints
  <1>2. CASE l.scene /\ l.visible /\ l.swapPending
    BY <1>2 DEF performCompositing, PassPre, LoopInv, Loop, HasWork, Awake,
                Deferred,
                TimerHasScene, SameScene, paints
  <1>3. CASE l.scene /\ l.visible /\ ~l.swapPending /\ ~l.outputs
    BY <1>3 DEF performCompositing, PassPre, LoopInv, Loop, HasWork, Awake,
                Deferred,
                TimerHasScene, SameScene, paints
  <1>4. CASE l.scene /\ l.visible /\ ~l.swapPending /\ l.outputs /\ ~l.repaints
    BY <1>4 DEF performCompositing, idlePass, swapIf, aboutToSwapBuffers,
                PassPre, LoopInv, Loop, Frame, HasWork, Awake, Deferred,
                TimerHasScene, SameScene, paints
  <1>5. CASE paints(l)
    <2>1. performCompositing(l, f) = paintPass(l, f)
      BY <1>5 DEF performCompositing, paints
    <2>2. ~l.swapPending
      BY <1>5 DEF paints
    <2>3. f.swap \in BOOLEAN /\ l.swapPending \in BOOLEAN
      BY DEF Frame, Loop
    <2> QED
      BY <1>5, <2>1, <2>2, <2>3, PaintPassInv
  <1> QED
    BY <1>1, <1>2, <1>3, <1>4, <1>5 DEF PassPre, Loop, paints

(* bufferSwapComplete() keeps the invariant, if a swap is pending and a    *)
(* pass that waits for it finds a scene.                                   *)
LEMMA BufferSwapCompleteInv ==
    ASSUME NEW l \in Loop, NEW f \in Frame, LoopInv(l), l.swapPending,
           l.composeAtSwap => l.scene
    PROVE  /\ LoopInv(bufferSwapComplete(l, f))
           /\ SameScene(l, bufferSwapComplete(l, f))
           /\ ~f.swap => ~bufferSwapComplete(l, f).swapPending
           /\ l.frames # 0 => bufferSwapComplete(l, f).frames # 0
  <1> DEFINE m == [l EXCEPT !.swapPending = FALSE, !.composeAtSwap = FALSE,
                            !.fault = @ \/ ~l.swapPending]
  <1>1. /\ m \in Loop /\ Deferred(m) /\ TimerHasScene(m) /\ ~m.fault
        /\ SameScene(l, m) /\ ~m.swapPending /\ m.frames = l.frames
        /\ m.repaints = l.repaints /\ m.flush = l.flush /\ m.timer = l.timer
    BY DEF LoopInv, Loop, Deferred, TimerHasScene, SameScene
  <1>2. CASE l.composeAtSwap
    <2>1. PassPre(m) /\ bufferSwapComplete(l, f) = performCompositing(m, f)
      BY <1>1, <1>2 DEF PassPre, bufferSwapComplete, SameScene
    <2> HIDE DEF m
    <2> QED
      BY <1>1, <2>1, PerformCompositingInv DEF SameScene
  <1>3. CASE ~l.composeAtSwap
    <2>1. bufferSwapComplete(l, f) = m
      BY <1>3 DEF bufferSwapComplete
    <2> QED
      BY <1>1, <1>3, <2>1 DEF LoopInv, HasWork, Awake, SameScene
  <1> QED
    BY <1>2, <1>3

-----------------------------------------------------------------------------
(* The life cycle around the loop.                                         *)

(* What every member function may rely on, finish() included.  The         *)
(* conjuncts that are not properties themselves: a scene at rest is        *)
(* started, the next scene's overlay counts as visible, a swap in flight   *)
(* is one the loop waits for, and the loop waits for no other one and      *)
(* paints every scene once, unless a scene left its swap behind.           *)
Sound(s) ==
    /\ s \in Type
    /\ LoopInv(s.loop)
    /\ s.loop.scene => ~s.loop.starting
    /\ ~s.loop.scene => s.loop.visible
    /\ s.loop.outputs
    /\ s.swapInFlight => s.loop.swapPending /\ s.loop.scene
    /\ s.owning /\ ~s.loop.scene => s.release
    /\ s.loop.swapPending => s.swapInFlight \/ s.orphaned
    /\ s.loop.scene => s.loop.frames # 0 \/ s.orphaned
    /\ ~SwapEvents => ~s.loop.swapPending /\ ~s.orphaned

(* ... and what holds again whenever finish() or setup() returns.          *)
Base(s) ==
    /\ Sound(s)
    /\ s.suspended # {} => ~s.loop.scene
    /\ s.loop.scene => s.owning

(* A setup is on its way.                                                   *)
Queued(s) == \E i \in 1..Len(s.posted) : s.posted[i] = "setup"

(* OffForAReason, of a record.                                             *)
Off(s) == s.loop.scene \/ s.suspended # {} \/ s.excuse # "none" \/ Queued(s)

-----------------------------------------------------------------------------

(* Posting a call disturbs nothing.                                        *)
LEMMA PostBase ==
    ASSUME NEW s \in Type, NEW call \in Calls
    PROVE  /\ post(s, call) \in Type
           /\ Sound(s) => Sound(post(s, call))
           /\ Base(s) => Base(post(s, call))
           /\ Off(s) \/ call = "setup" => Off(post(s, call))
           /\ post(s, call).loop = s.loop /\ post(s, call).owning = s.owning
           /\ post(s, call).suspended = s.suspended
           /\ post(s, call).orphaned = s.orphaned
  <1> DEFINE q == Append(s.posted, call)
  <1>0. q \in Seq(Calls) /\ post(s, call) = [s EXCEPT !.posted = q]
    BY DEF post, Type
  <1> HIDE DEF q
  <1>1. post(s, call) \in Type
    BY <1>0 DEF Type
  <1>2. /\ post(s, call).loop = s.loop
        /\ post(s, call).swapInFlight = s.swapInFlight
        /\ post(s, call).owning = s.owning
        /\ post(s, call).orphaned = s.orphaned
        /\ post(s, call).release = s.release
        /\ post(s, call).suspended = s.suspended
        /\ post(s, call).excuse = s.excuse
        /\ post(s, call).posted = q
    BY <1>0 DEF Type
  <1>3. Queued(s) \/ call = "setup" => Queued(post(s, call))
    BY <1>2 DEF Queued, Type, q
  <1> QED
    BY <1>1, <1>2, <1>3 DEF Sound, Base, Off

(* Discarding the Deleted windows changes win and posted only.             *)
LEMMA DiscardType ==
    ASSUME NEW s \in Type
    PROVE  /\ discardDeleted(s) \in Type
           /\ discardDeleted(s).loop = s.loop
           /\ discardDeleted(s).gl = s.gl
           /\ discardDeleted(s).swapInFlight = s.swapInFlight
           /\ discardDeleted(s).owning = s.owning
           /\ discardDeleted(s).orphaned = s.orphaned
           /\ discardDeleted(s).release = s.release
           /\ discardDeleted(s).suspended = s.suspended
           /\ discardDeleted(s).mode = s.mode
           /\ discardDeleted(s).excuse = s.excuse
           /\ Queued(s) => Queued(discardDeleted(s))
  <1> DEFINE n == Cardinality(DeletedWindows(s))
             resumes == [i \in 1..n |-> "resumeBlock"]
             w1 == [w \in Windows |->
                      IF s.win[w] = "deleted" THEN "none" ELSE s.win[w]]
             p1 == IF "BlockRule" \in s.suspended /\ ~Blocking(s)
                   THEN s.posted \o resumes ELSE s.posted
  <1>1. n \in Nat
    <2>1. IsFiniteSet(DeletedWindows(s))
      BY WindowsAssumption, FS_Subset DEF DeletedWindows
    <2> QED
      BY <2>1, FS_CardinalityType
  <1> HIDE DEF n
  <1>2. resumes \in Seq(Calls)
    BY <1>1 DEF Calls
  <1> HIDE DEF resumes
  <1>3. p1 \in Seq(Calls)
    BY <1>2 DEF Type
  <1>4. w1 \in [Windows -> {"none", "normal", "blocking", "deleted"}]
    BY DEF Type
  <1>5. discardDeleted(s) = [s EXCEPT !.win = w1, !.posted = p1]
    BY DEF discardDeleted, n, resumes
  <1>6. Queued(s) => \E i \in 1..Len(p1) : p1[i] = "setup"
    <2> SUFFICES ASSUME NEW i \in 1..Len(s.posted), s.posted[i] = "setup"
                 PROVE  i \in 1..Len(p1) /\ p1[i] = "setup"
      BY DEF Queued
    <2> QED
      BY <1>2 DEF Type
  <1> HIDE DEF p1, w1
  <1>7. /\ discardDeleted(s) \in Type
        /\ discardDeleted(s).posted = p1
    BY <1>3, <1>4, <1>5 DEF Type
  <1> QED
    BY <1>3, <1>4, <1>5, <1>6, <1>7 DEF Type, Queued

(* finish() leaves no scene, and the release timer guards the selection.   *)
LEMMA FinishBase ==
    ASSUME NEW s \in Type, Sound(s)
    PROVE  /\ Base(finish(s)) /\ finish(s) \in Type
           /\ ~finish(s).loop.scene
           /\ finish(s).suspended = s.suspended
           /\ finish(s).excuse = s.excuse
           /\ Queued(s) => Queued(finish(s))
  <1>1. CASE ~s.loop.scene
    BY <1>1 DEF finish, Base
  <1>2. CASE s.loop.scene
    <2> DEFINE l == [s.loop EXCEPT !.scene = FALSE, !.timer = FALSE,
                                   !.repaints = FALSE, !.flush = FALSE,
                                   !.frames = 0, !.visible = TRUE]
               h == s.orphaned \/ s.swapInFlight
               t == [s EXCEPT !.release = TRUE, !.orphaned = h,
                              !.swapInFlight = FALSE, !.gl = FALSE, !.loop = l]
    <2>1. s.loop \in Loop /\ 0 \in 0..2 /\ h \in BOOLEAN
      BY DEF Type
    <2>2. l \in Loop
      BY <2>1 DEF Loop
    <2>3. /\ ~l.scene /\ ~l.timer /\ l.visible
          /\ l.outputs = s.loop.outputs /\ l.swapPending = s.loop.swapPending
          /\ l.composeAtSwap = s.loop.composeAtSwap
          /\ l.fault = s.loop.fault
      BY <2>1 DEF Loop
    <2>4. finish(s) = discardDeleted(t)
      BY <1>2 DEF finish
    <2>h. s.loop.swapPending => h
      BY DEF Sound
    <2>s. ~SwapEvents => ~h
      BY DEF Sound
    <2> HIDE DEF l, h
    <2>5. /\ t \in Type /\ t.loop = l /\ t.swapInFlight = FALSE
          /\ t.orphaned = h /\ t.release = TRUE /\ t.suspended = s.suspended
          /\ t.excuse = s.excuse /\ t.posted = s.posted
      BY <2>1, <2>2 DEF Type
    <2> HIDE DEF t
    <2>6. LoopInv(l) /\ l.outputs /\ (~SwapEvents => ~l.swapPending)
      BY <2>2, <2>3 DEF Sound, LoopInv, HasWork, Awake, Deferred, TimerHasScene
    <2> QED
      BY <2>3, <2>4, <2>5, <2>6, <2>h, <2>s, DiscardType DEF Base, Sound,
         Queued
  <1> QED
    BY <1>1, <1>2

(* A GLX pass is one the loop knows; without swap events it announces none. *)
LEMMA GlxFrameType ==
    ASSUME NEW s \in Type, NEW p \in Passes
    PROVE  /\ glxFrame(s, p) \in Frame
           /\ ~SwapEvents => ~glxFrame(s, p).swap
  <1>1. s.gl \in BOOLEAN /\ s.loop.flush \in BOOLEAN
    BY DEF Type, Loop
  <1>2. p.again \in BOOLEAN /\ p.damaged \in BOOLEAN /\ p.full \in BOOLEAN
    BY DEF Passes
  <1> QED
    BY <1>1, <1>2, SwapEventsAssumption, BlocksForRetraceAssumption
       DEF glxFrame, Frame

(* A pass of a scene that is up.                                           *)
LEMMA CompositeBase ==
    ASSUME NEW s \in Type, NEW p \in Passes,
           PassPre(s.loop), ~s.loop.starting, s.loop.outputs,
           s.suspended = {}, s.owning,
           s.swapInFlight => s.loop.swapPending,
           s.loop.swapPending => s.swapInFlight \/ s.orphaned,
           s.loop.frames # 0 \/ s.orphaned \/ paints(s.loop),
           ~SwapEvents => ~s.loop.swapPending /\ ~s.orphaned
    PROVE  /\ Base(composite(s, p))
           /\ composite(s, p) \in Type
           /\ composite(s, p).loop.scene
  <1> DEFINE f == glxFrame(s, p)
             l == performCompositing(s.loop, f)
             g == s.swapInFlight \/ (l.swapPending /\ ~s.loop.swapPending)
  <1>1. f \in Frame /\ (~SwapEvents => ~f.swap)
    BY GlxFrameType
  <1>2. composite(s, p) = [s EXCEPT !.loop = l, !.swapInFlight = g]
    BY DEF composite
  <1> HIDE DEF f
  <1>3. s.loop \in Loop
    BY DEF Type
  <1>4. /\ LoopInv(l) /\ SameScene(s.loop, l)
        /\ s.loop.swapPending => l.swapPending
        /\ l.frames # 0 \/ s.orphaned
        /\ ~SwapEvents => ~l.swapPending
    BY <1>1, <1>3, PerformCompositingInv
  <1>5. l \in Loop
    BY <1>4 DEF LoopInv
  <1> HIDE DEF l
  <1>6. g \in BOOLEAN /\ (g => l.swapPending)
        /\ (l.swapPending => g \/ s.orphaned)
    BY <1>4, <1>5 DEF Type, Loop
  <1> HIDE DEF g
  <1>7. /\ composite(s, p) \in Type
        /\ composite(s, p).loop = l /\ composite(s, p).swapInFlight = g
        /\ composite(s, p).owning = s.owning
        /\ composite(s, p).orphaned = s.orphaned
        /\ composite(s, p).suspended = s.suspended
    BY <1>2, <1>5, <1>6 DEF Type
  <1>8. l.scene /\ ~l.starting /\ l.outputs
    BY <1>4 DEF SameScene, PassPre
  <1> QED
    BY <1>4, <1>6, <1>7, <1>8 DEF Base, Sound

(* What starting up needs: nothing suspends the compositor, no scene is up *)
(* and the selection is claimed.                                           *)
Starting(s) ==
    /\ s \in Type
    /\ LoopInv(s.loop) /\ s.loop.outputs /\ s.loop.visible
    /\ ~s.loop.scene /\ s.loop.starting /\ ~s.swapInFlight
    /\ s.suspended = {} /\ s.owning
    /\ s.loop.swapPending => s.orphaned
    /\ ~SwapEvents => ~s.loop.swapPending /\ ~s.orphaned

(* startupWithWorkspace() ends with a scene that has been asked to paint.  *)
LEMMA StartupBase ==
    ASSUME NEW s \in Type, NEW p \in Passes, Starting(s),
           NEW gl \in BOOLEAN
    PROVE  LET r == startupWithWorkspace([s EXCEPT !.loop.scene = TRUE,
                                                   !.gl = gl], p)
           IN  r \in Type /\ Base(r) /\ r.loop.scene
  <1> DEFINE a == [s.loop EXCEPT !.scene = TRUE]
             b == [a EXCEPT !.repaints = TRUE]
             l == [a EXCEPT !.repaints = TRUE, !.starting = FALSE]
             u == [s EXCEPT !.loop.scene = TRUE, !.gl = gl]
             t == [s EXCEPT !.gl = gl, !.loop = l, !.release = FALSE,
                            !.excuse = "none"]
  <1>1. s.loop \in Loop
    BY DEF Type
  <1>2. a \in Loop /\ a.scene /\ a.starting
    BY <1>1 DEF Loop, Starting
  <1>3. u \in Type /\ u.loop = a
    BY <1>1, <1>2 DEF Type
  <1>4. l \in Loop /\ l.scene /\ ~l.starting /\ l.repaints
    BY <1>1 DEF Loop
  <1>5. /\ l.outputs = s.loop.outputs /\ l.visible = s.loop.visible
        /\ l.swapPending = s.loop.swapPending
        /\ l.composeAtSwap = s.loop.composeAtSwap
        /\ l.fault = s.loop.fault
    BY <1>1 DEF Loop
  <1>6. b \in Loop /\ b.scene /\ b.starting /\ l = [b EXCEPT !.starting = FALSE]
    BY <1>1 DEF Loop, Starting
  <1>7. scheduleRepaint(b) = b
    BY <1>6 DEF scheduleRepaint, setCompositeTimer
  <1>8. addRepaint(a) = b
    BY <1>2, <1>7 DEF addRepaint
  <1> HIDE DEF a, b
  <1>9. [addRepaint(u.loop) EXCEPT !.starting = FALSE] = l
    BY <1>3, <1>6, <1>8
  <1> HIDE DEF l
  <1>10. [u EXCEPT !.loop = l, !.release = FALSE, !.excuse = "none"] = t
    BY <1>3 DEF Type
  <1>11. startupWithWorkspace(u, p) = composite(t, p)
    BY <1>9, <1>10 DEF startupWithWorkspace
  <1>12. /\ t \in Type /\ t.loop = l /\ t.suspended = s.suspended
         /\ t.owning = s.owning /\ t.swapInFlight = s.swapInFlight
         /\ t.orphaned = s.orphaned
    BY <1>4 DEF Type
  <1> HIDE DEF t, u
  <1>13. PassPre(l)
    BY <1>4, <1>5 DEF PassPre, Starting, LoopInv, Deferred, TimerHasScene
  <1>14. /\ l.swapPending => s.orphaned
         /\ s.orphaned \/ paints(l)
         /\ ~SwapEvents => ~l.swapPending /\ ~s.orphaned
    BY <1>4, <1>5 DEF Starting, paints
  <1>15. /\ Base(composite(t, p)) /\ composite(t, p) \in Type
         /\ composite(t, p).loop.scene
    BY <1>4, <1>5, <1>12, <1>13, <1>14, CompositeBase DEF Starting
  <1> QED
    BY <1>11, <1>15 DEF u

(* The first pass of an outcome is a pass.                                 *)
LEMMA OutcomePass ==
    ASSUME NEW o \in Outcomes
    PROVE  o.pass \in Passes
  <1>1. NoPass \in Passes
    BY DEF NoPass, Passes
  <1>2. CASE o \in [scene: {"ok"}, pass: Passes]
    BY <1>2
  <1>3. CASE o \in [scene: {"impossible", "failed", "recommendsXRender"},
                    pass: {NoPass}]
    BY <1>1, <1>3
  <1> QED
    BY <1>2, <1>3 DEF Outcomes

(* However starting ends, compositing is on or the failure is on record.   *)
LEMMA SlotBase ==
    ASSUME NEW s \in Type, NEW o \in Outcomes,
           Starting([s EXCEPT !.owning = TRUE])
    PROVE  LET r == slotCompositingOptionsInitialized(s, o)
           IN  r \in Type /\ Base(r) /\ Off(r)
  <1> DEFINE c == [s EXCEPT !.owning = TRUE]
             d == discardDeleted(c)
             r == slotCompositingOptionsInitialized(s, o)
  <1>1. c \in Type /\ c.mode = s.mode
    BY DEF Type
  <1>2. /\ d \in Type /\ d.loop = c.loop /\ d.swapInFlight = c.swapInFlight
        /\ d.owning = c.owning /\ d.suspended = c.suspended
        /\ d.orphaned = c.orphaned
    BY <1>1, DiscardType
  <1>3. Starting(c)
    OBVIOUS
  <1> HIDE DEF c
  <1>4. Starting(d)
    BY <1>2, <1>3 DEF Starting
  <1>5. CASE s.mode # "None" /\ o.scene = "ok"
    <2> DEFINE gl == s.mode = "OpenGL"
    <2>1. r = startupWithWorkspace([d EXCEPT !.loop.scene = TRUE, !.gl = gl],
                                   o.pass)
      BY <1>5 DEF slotCompositingOptionsInitialized, c
    <2>2. gl \in BOOLEAN /\ o.pass \in Passes
      BY OutcomePass
    <2> HIDE DEF gl, d, r
    <2>3. r \in Type /\ Base(r) /\ r.loop.scene
      BY <1>2, <1>4, <2>1, <2>2, StartupBase
    <2> QED
      BY <2>3 DEF Off, r
  <1>6. CASE ~(s.mode # "None" /\ o.scene = "ok")
    <2> DEFINE e == IF s.mode = "OpenGL" /\ o.scene = "recommendsXRender"
                    THEN post(d, "fallback") ELSE d
               l == [e.loop EXCEPT !.starting = FALSE]
    <2>1. r = sceneFailed(e)
      BY <1>6 DEF slotCompositingOptionsInitialized, c
    <2>2. e \in Type /\ e.loop = d.loop /\ e.suspended = d.suspended
          /\ e.swapInFlight = d.swapInFlight /\ e.orphaned = d.orphaned
      <3>1. "fallback" \in Calls
        BY DEF Calls
      <3>2. post(d, "fallback").swapInFlight = d.swapInFlight
        BY <1>2 DEF post, Type
      <3> HIDE DEF d
      <3> QED
        BY <1>2, <3>1, <3>2, PostBase
    <2> HIDE DEF d, e, r
    <2>3. l \in Loop /\ e.loop \in Loop
      BY <2>2 DEF Type, Loop
    <2>4. /\ ~l.scene /\ l.visible /\ l.outputs
          /\ l.swapPending = d.loop.swapPending
          /\ LoopInv(l)
      BY <1>4, <2>2, <2>3 DEF Starting, LoopInv, Loop, HasWork, Awake,
                              Deferred,
                              TimerHasScene
    <2>5. /\ r = [e EXCEPT !.loop = l, !.excuse = "failed", !.owning = FALSE]
      BY <2>1 DEF sceneFailed, releaseSelection, Type
    <2> HIDE DEF l
    <2>6. /\ r \in Type /\ r.loop = l /\ ~r.owning /\ r.excuse = "failed"
          /\ r.swapInFlight = e.swapInFlight /\ r.orphaned = e.orphaned
      BY <2>2, <2>3, <2>5 DEF Type
    <2>7. /\ ~r.swapInFlight /\ (l.swapPending => r.orphaned)
          /\ ~SwapEvents => ~l.swapPending /\ ~r.orphaned
      BY <1>4, <2>2, <2>4, <2>6 DEF Starting
    <2> QED
      BY <2>4, <2>6, <2>7 DEF Base, Sound, Off, r
  <1> QED
    BY <1>5, <1>6

(* Reading the compositing settings touches the options only.              *)
LEMMA ReloadType ==
    ASSUME NEW s \in Type, NEW force \in BOOLEAN
    PROVE  LET r == reloadCompositingSettings(s, force)
           IN  /\ r \in Type
               /\ r.loop = s.loop /\ r.swapInFlight = s.swapInFlight
               /\ r.suspended = s.suspended /\ r.owning = s.owning
               /\ r.release = s.release /\ r.excuse = s.excuse
               /\ r.orphaned = s.orphaned
               /\ r.posted = s.posted
  <1> DEFINE m == IF s.env = "N" THEN "None" ELSE s.backend
             i == s.initialized \/ (force /\ m # "None")
  <1>1. m \in Backends \cup {"None"} /\ i \in BOOLEAN
    BY DEF Type
  <1>2. reloadCompositingSettings(s, force)
            = [s EXCEPT !.mode = m, !.initialized = i]
    BY DEF reloadCompositingSettings
  <1> HIDE DEF m, i
  <1> QED
    BY <1>1, <1>2 DEF Type

(* setup() never leaves compositing off without a reason.                  *)
LEMMA SetupBase ==
    ASSUME NEW s \in Type, NEW o \in Outcomes, Base(s)
    PROVE  setup(s, o) \in Type /\ Base(setup(s, o)) /\ Off(setup(s, o))
  <1>1. CASE s.loop.scene \/ s.suspended # {}
    BY <1>1 DEF setup, Off
  <1>2. CASE ~(s.loop.scene \/ s.suspended # {}) /\ o.scene = "impossible"
    <2>1. setup(s, o) = [s EXCEPT !.excuse = "failed"]
      BY <1>2 DEF setup
    <2>2. /\ setup(s, o) \in Type /\ setup(s, o).loop = s.loop
          /\ setup(s, o).swapInFlight = s.swapInFlight
          /\ setup(s, o).suspended = s.suspended
          /\ setup(s, o).orphaned = s.orphaned
          /\ setup(s, o).owning = s.owning /\ setup(s, o).release = s.release
          /\ setup(s, o).excuse = "failed"
      BY <2>1 DEF Type
    <2> QED
      BY <2>2 DEF Base, Sound, Off
  <1>3. CASE ~(s.loop.scene \/ s.suspended # {}) /\ o.scene # "impossible"
    <2> DEFINE l == [s.loop EXCEPT !.starting = TRUE]
               b == [s EXCEPT !.loop.starting = TRUE]
               c == IF s.initialized THEN b
                    ELSE reloadCompositingSettings(b, TRUE)
    <2>1. setup(s, o) = slotCompositingOptionsInitialized(c, o)
      BY <1>3 DEF setup
    <2>2. s.loop \in Loop /\ l \in Loop
      BY DEF Type, Loop
    <2>3. /\ LoopInv(l) /\ l.outputs /\ l.visible /\ ~l.scene /\ l.starting
          /\ l.swapPending = s.loop.swapPending
      BY <1>3, <2>2 DEF Base, Sound, LoopInv, Loop, HasWork, Awake, Deferred,
                        TimerHasScene
    <2> HIDE DEF l
    <2>4. /\ b \in Type /\ b.loop = l /\ b.swapInFlight = s.swapInFlight
          /\ b.suspended = s.suspended /\ b.orphaned = s.orphaned
      BY <2>2 DEF Type, l
    <2> HIDE DEF b
    <2>5. /\ c \in Type /\ c.loop = l /\ c.swapInFlight = s.swapInFlight
          /\ c.suspended = s.suspended /\ c.orphaned = s.orphaned
      BY <2>4, ReloadType
    <2> HIDE DEF c
    <2> DEFINE d == [c EXCEPT !.owning = TRUE]
    <2>6. /\ d \in Type /\ d.loop = l /\ d.swapInFlight = s.swapInFlight
          /\ d.suspended = s.suspended /\ d.orphaned = s.orphaned /\ d.owning
      BY <2>5 DEF Type
    <2> HIDE DEF d
    <2>7. Starting(d)
      BY <1>3, <2>3, <2>6 DEF Starting, Base, Sound
    <2> QED
      BY <2>1, <2>5, <2>7, SlotBase DEF d
  <1> QED
    BY <1>1, <1>2, <1>3

(* Members the invariant does not mention may change freely.               *)
Alike(s, t) ==
    /\ t.loop = s.loop /\ t.swapInFlight = s.swapInFlight
    /\ t.suspended = s.suspended /\ t.owning = s.owning
    /\ t.release = s.release /\ t.orphaned = s.orphaned

LEMMA AlikeBase ==
    ASSUME NEW s, NEW t \in Type, Alike(s, t), Base(s)
    PROVE  Base(t)
  BY DEF Alike, Base, Sound

(* finish(), from a state between two callbacks.                           *)
LEMMA FinishFromBase ==
    ASSUME NEW s \in Type, Base(s)
    PROVE  Base(finish(s)) /\ finish(s) \in Type
  <1>1. Sound(s)
    BY DEF Base
  <1> QED
    BY <1>1, FinishBase

LEMMA SuspendBase ==
    ASSUME NEW s \in Type, NEW reason \in Reasons, Base(s)
    PROVE  LET r == suspend(s, reason)
           IN  r \in Type /\ Base(r) /\ Off(r)
  <1> DEFINE x == s.suspended \cup {reason}
             y == s.overridden /\ reason # "BlockRule"
             t == [s EXCEPT !.suspended = x, !.overridden = y]
  <1>1. x \in SUBSET Reasons /\ x # {} /\ y \in BOOLEAN
    BY DEF Type
  <1>2. suspend(s, reason) = finish(t)
    BY DEF suspend
  <1> HIDE DEF x, y
  <1>3. /\ t \in Type /\ t.loop = s.loop /\ t.swapInFlight = s.swapInFlight
        /\ t.owning = s.owning /\ t.release = s.release /\ t.suspended = x
        /\ t.orphaned = s.orphaned
    BY <1>1 DEF Type
  <1> HIDE DEF t
  <1>4. Sound(t)
    BY <1>3 DEF Base, Sound
  <1>5. /\ Base(finish(t)) /\ finish(t) \in Type
        /\ finish(t).suspended = t.suspended
    BY <1>3, <1>4, FinishBase
  <1> QED
    BY <1>1, <1>2, <1>3, <1>5 DEF Off

LEMMA ResumeBase ==
    ASSUME NEW s \in Type, NEW reasons \in SUBSET Reasons, NEW o \in Outcomes,
           Base(s)
    PROVE  LET r == resume(s, reasons, o)
           IN  r \in Type /\ Base(r) /\ Off(r)
  <1> DEFINE x == s.suspended \ reasons
             t == [s EXCEPT !.suspended = x]
  <1>1. x \in SUBSET Reasons /\ (x # {} => s.suspended # {})
    BY DEF Type
  <1>2. resume(s, reasons, o) = setup(t, o)
    BY DEF resume
  <1> HIDE DEF x
  <1>3. /\ t \in Type /\ t.loop = s.loop /\ t.swapInFlight = s.swapInFlight
        /\ t.owning = s.owning /\ t.release = s.release /\ t.suspended = x
        /\ t.orphaned = s.orphaned
    BY <1>1 DEF Type
  <1> HIDE DEF t
  <1>4. Base(t)
    BY <1>1, <1>3 DEF Base, Sound
  <1> QED
    BY <1>2, <1>3, <1>4, SetupBase

LEMMA RestartBase ==
    ASSUME NEW s \in Type, Base(s), Off(s)
    PROVE  restart(s) \in Type /\ Base(restart(s)) /\ Off(restart(s))
  <1>1. CASE ~s.loop.scene
    BY <1>1 DEF restart
  <1>2. CASE s.loop.scene
    <2>1. Base(finish(s)) /\ finish(s) \in Type
      BY FinishFromBase
    <2>2. restart(s) = post(finish(s), "setup") /\ "setup" \in Calls
      BY <1>2 DEF restart, Calls
    <2> QED
      BY <2>1, <2>2, PostBase
  <1> QED
    BY <1>1, <1>2

LEMMA FallbackBase ==
    ASSUME NEW s \in Type, NEW o \in Outcomes, Base(s)
    PROVE  LET r == fallbackToXRenderCompositing(s, o)
           IN  r \in Type /\ Base(r) /\ Off(r)
  <1> DEFINE f == finish(s)
             t == [f EXCEPT !.backend = "XRender", !.mode = "XRender"]
  <1>1. f \in Type /\ Base(f)
    BY FinishFromBase
  <1>2. fallbackToXRenderCompositing(s, o) = setup(t, o)
    BY DEF fallbackToXRenderCompositing
  <1> HIDE DEF f
  <1>3. t \in Type /\ Alike(f, t)
    BY <1>1 DEF Type, Alike, Backends
  <1> HIDE DEF t
  <1> QED
    BY <1>1, <1>2, <1>3, AlikeBase, SetupBase

LEMMA ReinitializeBase ==
    ASSUME NEW s \in Type, NEW b \in Backends, NEW o \in Outcomes, Base(s)
    PROVE  LET r == slotReinitialize(s, b, o)
           IN  r \in Type /\ Base(r) /\ Off(r)
  <1> DEFINE f == finish(s)
             v == Blocking(s)
             t == [f EXCEPT !.suspended = {}, !.backend = b,
                            !.initialized = FALSE, !.overridden = v]
  <1>1. f \in Type /\ Base(f)
    BY FinishFromBase
  <1>2. slotReinitialize(s, b, o) = setup(t, o) /\ v \in BOOLEAN
    BY DEF slotReinitialize, Blocking
  <1> HIDE DEF f, v
  <1>3. /\ t \in Type /\ t.loop = f.loop /\ t.swapInFlight = f.swapInFlight
        /\ t.owning = f.owning /\ t.release = f.release /\ t.suspended = {}
        /\ t.orphaned = f.orphaned
    BY <1>1, <1>2 DEF Type
  <1> HIDE DEF t
  <1>4. Base(t)
    BY <1>1, <1>3 DEF Base, Sound
  <1> QED
    BY <1>2, <1>3, <1>4, SetupBase

(* The loop may take any step of its own while the scene is kept.          *)
LEMMA LoopStepBase ==
    ASSUME NEW s \in Type, Base(s), NEW l \in Loop, LoopInv(l),
           SameScene(s.loop, l), l.swapPending = s.loop.swapPending,
           l.frames = s.loop.frames
    PROVE  LET r == [s EXCEPT !.loop = l]
           IN  r \in Type /\ Base(r) /\ (Off(s) => Off(r))
  <1> DEFINE r == [s EXCEPT !.loop = l]
  <1>1. /\ r \in Type /\ r.loop = l /\ r.swapInFlight = s.swapInFlight
        /\ r.suspended = s.suspended /\ r.owning = s.owning
        /\ r.release = s.release /\ r.excuse = s.excuse
        /\ r.posted = s.posted /\ r.orphaned = s.orphaned
    BY DEF Type
  <1> HIDE DEF r
  <1>2. Base(r)
    BY <1>1 DEF Base, Sound, SameScene
  <1>3. Off(s) => Off(r)
    BY <1>1 DEF Off, Queued, SameScene
  <1> QED
    BY <1>1, <1>2, <1>3 DEF r

LEMMA AddRepaintBase ==
    ASSUME NEW s \in Type, Base(s)
    PROVE  LET r == [s EXCEPT !.loop = addRepaint(@)]
           IN  r \in Type /\ Base(r) /\ (Off(s) => Off(r))
  <1> DEFINE l == addRepaint(s.loop)
  <1>1. s.loop \in Loop /\ LoopInv(s.loop)
    BY DEF Type, Base, Sound
  <1>2. /\ LoopInv(l) /\ SameScene(s.loop, l)
        /\ l.swapPending = s.loop.swapPending /\ l.frames = s.loop.frames
    BY <1>1, AddRepaintInv
  <1>3. l \in Loop
    BY <1>2 DEF LoopInv
  <1> HIDE DEF l
  <1>4. LET r == [s EXCEPT !.loop = l]
        IN  r \in Type /\ Base(r) /\ (Off(s) => Off(r))
    BY <1>2, <1>3, LoopStepBase
  <1> QED
    BY <1>4 DEF l

LEMMA ConfigBase ==
    ASSUME NEW s \in Type, NEW b \in Backends, NEW enabled \in BOOLEAN,
           NEW o \in Outcomes, Base(s)
    PROVE  LET r == slotConfigChanged(s, b, enabled, o)
           IN  r \in Type /\ Base(r) /\ Off(r)
  <1> DEFINE c == [s EXCEPT !.backend = b, !.initialized = FALSE]
             d == reloadCompositingSettings(c, enabled)
             u == setup(d, o)
             r == slotConfigChanged(s, b, enabled, o)
  <1>1. c \in Type /\ Alike(s, c)
    BY DEF Type, Alike
  <1> HIDE DEF c
  <1>2. d \in Type /\ Alike(s, d)
    BY <1>1, ReloadType DEF Alike
  <1> HIDE DEF d
  <1>3. Base(d) /\ d.suspended = s.suspended
    BY <1>2, AlikeBase DEF Alike
  <1>4. CASE s.suspended = {}
    <2>1. u \in Type /\ Base(u) /\ Off(u)
      BY <1>2, <1>3, SetupBase
    <2>2. r = [u EXCEPT !.loop = addRepaint(@)]
      BY <1>4 DEF slotConfigChanged, c, d
    <2> HIDE DEF u, r
    <2> QED
      BY <2>1, <2>2, AddRepaintBase DEF r
  <1>5. CASE s.suspended # {}
    <2>1. r = finish(d)
      BY <1>5 DEF slotConfigChanged, c, d
    <2>2. Sound(d)
      BY <1>3 DEF Base
    <2> HIDE DEF r
    <2>3. r \in Type /\ Base(r) /\ r.suspended = s.suspended
      BY <1>2, <1>3, <2>1, <2>2, FinishBase
    <2> QED
      BY <1>5, <2>3 DEF r, Off
  <1> QED
    BY <1>4, <1>5

LEMMA ToggleBase ==
    ASSUME NEW s \in Type, NEW o \in Outcomes, Base(s)
    PROVE  LET r == slotToggleCompositing(s, o)
           IN  r \in Type /\ Base(r) /\ Off(r)
  <1> DEFINE v == Blocking(s)
             t == [s EXCEPT !.overridden = v]
  <1>1. v \in BOOLEAN /\ "User" \in Reasons
    BY DEF Blocking, Reasons
  <1>2. slotToggleCompositing(s, o)
          = IF s.suspended # {} THEN resume(t, Reasons, o) ELSE suspend(s, "User")
    BY DEF slotToggleCompositing
  <1> HIDE DEF v
  <1>3. t \in Type /\ Alike(s, t)
    BY <1>1 DEF Type, Alike
  <1> HIDE DEF t
  <1>4. Base(t)
    BY <1>3, AlikeBase
  <1> QED
    BY <1>1, <1>2, <1>3, <1>4, SuspendBase, ResumeBase

(* The release timer gives the selection up, or is started again.          *)
LEMMA ReleaseBase ==
    ASSUME NEW s \in Type, Base(s), Off(s)
    PROVE  LET r == releaseCompositorSelection(s)
           IN  r \in Type /\ Base(r) /\ Off(r)
  <1> DEFINE r == releaseCompositorSelection(s)
             f == [s EXCEPT !.release = FALSE]
             g == [f EXCEPT !.owning = FALSE]
  <1>1. /\ f \in Type /\ f.loop = s.loop /\ f.swapInFlight = s.swapInFlight
        /\ f.suspended = s.suspended /\ f.owning = s.owning
        /\ f.excuse = s.excuse /\ f.posted = s.posted
        /\ f.orphaned = s.orphaned
    BY DEF Type
  <1>2. r = IF s.loop.scene THEN f ELSE IF s.loop.starting THEN s ELSE g
    BY DEF releaseCompositorSelection, releaseSelection
  <1> HIDE DEF f
  <1>3. /\ g \in Type /\ g.loop = s.loop /\ g.swapInFlight = s.swapInFlight
        /\ g.suspended = s.suspended /\ ~g.owning
        /\ g.excuse = s.excuse /\ g.posted = s.posted
        /\ g.orphaned = s.orphaned
    BY <1>1 DEF Type
  <1> HIDE DEF g, r
  <1>4. r \in Type /\ Base(r)
    BY <1>1, <1>2, <1>3 DEF Base, Sound
  <1>5. Off(r)
    BY <1>1, <1>2, <1>3 DEF Off, Queued
  <1> QED
    BY <1>4, <1>5 DEF r

-----------------------------------------------------------------------------
(* The inductive invariant, and the steps that keep it.                    *)

Inv == k \in Type /\ Base(k) /\ Off(k)

(* A window comes, goes or changes its mind; calls may be posted.          *)
LEMMA WindowChange ==
    ASSUME Inv, NEW w \in Windows,
           NEW v \in {"none", "normal", "blocking", "deleted"}
    PROVE  LET r == [k EXCEPT !.win[w] = v]
           IN  /\ r \in Type /\ Base(r) /\ Off(r)
               /\ updateCompositeBlocking(r) \in Type
               /\ Base(updateCompositeBlocking(r))
               /\ Off(updateCompositeBlocking(r))
               /\ updateCompositeBlockingBy(r) \in Type
               /\ Base(updateCompositeBlockingBy(r))
               /\ Off(updateCompositeBlockingBy(r))
  <1> DEFINE x == [k.win EXCEPT ![w] = v]
             r == [k EXCEPT !.win[w] = v]
  <1>1. x \in [Windows -> {"none", "normal", "blocking", "deleted"}]
    BY DEF Inv, Type
  <1>2. r = [k EXCEPT !.win = x]
    OBVIOUS
  <1> HIDE DEF x
  <1>3. /\ r \in Type /\ Alike(k, r) /\ r.posted = k.posted
        /\ r.excuse = k.excuse
    BY <1>1, <1>2 DEF Inv, Type, Alike
  <1> HIDE DEF r
  <1>4. Base(r)
    BY <1>3, AlikeBase DEF Inv
  <1>5. Off(r)
    BY <1>3 DEF Inv, Alike, Off, Queued
  <1>6. {"resumeBlock", "suspendBlock"} \subseteq Calls
    BY DEF Calls
  <1>7. /\ updateCompositeBlocking(r) \in {r, post(r, "resumeBlock")}
        /\ updateCompositeBlockingBy(r) \in {r, post(r, "suspendBlock")}
    BY DEF updateCompositeBlocking, updateCompositeBlockingBy
  <1>8. \A c \in {"resumeBlock", "suspendBlock"} :
            post(r, c) \in Type /\ Base(post(r, c)) /\ Off(post(r, c))
    BY <1>3, <1>4, <1>5, <1>6, PostBase
  <1> QED
    BY <1>3, <1>4, <1>5, <1>7, <1>8 DEF r

LEMMA WindowStepInv ==
    ASSUME Inv, NEW w \in Windows, WindowStep(w)
    PROVE  Inv'
  <1>1. CASE ManageClient(w)
    BY <1>1, WindowChange DEF ManageClient, Inv
  <1>2. CASE SetBlockingCompositing(w)
    BY <1>2, WindowChange DEF SetBlockingCompositing, Inv
  <1>3. CASE ReleaseWindow(w)
    <2> DEFINE r == [k EXCEPT !.win[w] = "deleted"]
    <2>1. r \in Type /\ Base(r) /\ Off(r)
      BY WindowChange
    <2>2. r.loop = k.loop
      BY DEF Inv, Type
    <2>3. PICK shown \in BOOLEAN :
            k' = [k EXCEPT !.win[w] = "deleted",
                           !.loop = IF shown THEN addRepaint(@) ELSE @]
      BY <1>3 DEF ReleaseWindow
    <2>4. CASE shown
      <3>1. k' = [r EXCEPT !.loop = addRepaint(@)]
        BY <2>3, <2>4, <2>2
      <3> HIDE DEF r
      <3> QED
        BY <2>1, <3>1, AddRepaintBase DEF Inv
    <2>5. CASE ~shown
      <3>1. k' = r
        BY <2>3, <2>5, <2>2 DEF Inv, Type
      <3> QED
        BY <2>1, <3>1 DEF Inv
    <2> QED
      BY <2>4, <2>5
  <1>4. CASE RemoveDeleted(w)
    BY <1>4, WindowChange DEF RemoveDeleted, Inv
  <1> QED
    BY <1>1, <1>2, <1>3, <1>4 DEF WindowStep

LEMMA RunPostedInv ==
    ASSUME Inv, NEW call \in Calls, RunPosted(call)
    PROVE  Inv'
  <1> DEFINE q == Tail(k.posted)
             s == [k EXCEPT !.posted = q]
  <1>1. q \in Seq(Calls)
    BY DEF Inv, Type, RunPosted
  <1>2. PICK o \in Outcomes :
          k' = CASE call = "setup"        -> setup(s, o)
                 [] call = "suspendBlock" -> suspend(s, "BlockRule")
                 [] call = "resumeBlock"  -> resume(s, {"BlockRule"}, o)
                 [] call = "fallback"     -> fallbackToXRenderCompositing(s, o)
    BY DEF RunPosted
  <1> HIDE DEF q
  <1>3. s \in Type /\ Alike(k, s)
    BY <1>1 DEF Inv, Type, Alike
  <1> HIDE DEF s
  <1>4. Base(s)
    BY <1>3, AlikeBase DEF Inv
  <1>5. "BlockRule" \in Reasons
    BY DEF Reasons
  <1>6. CASE call = "setup"
    BY <1>2, <1>3, <1>4, <1>6, SetupBase DEF Inv
  <1>7. CASE call = "suspendBlock"
    BY <1>2, <1>3, <1>4, <1>5, <1>7, SuspendBase DEF Inv
  <1>8. CASE call = "resumeBlock"
    BY <1>2, <1>3, <1>4, <1>5, <1>8, ResumeBase DEF Inv
  <1>9. CASE call = "fallback"
    BY <1>2, <1>3, <1>4, <1>9, FallbackBase DEF Inv
  <1> QED
    BY <1>6, <1>7, <1>8, <1>9 DEF Calls

(* The timers that start a restart, and the loss of the selection.         *)
LEMMA ResetInv ==
    ASSUME Inv, RefreshRateChanged \/ ResetTimerFires
    PROVE  Inv'
  <1>1. \A b \in BOOLEAN : LET r == [k EXCEPT !.reset = b]
                           IN  r \in Type /\ Base(r) /\ Off(r)
    <2> TAKE b \in BOOLEAN
    <2> DEFINE r == [k EXCEPT !.reset = b]
    <2>1. /\ r \in Type /\ Alike(k, r) /\ r.posted = k.posted
          /\ r.excuse = k.excuse
      BY DEF Inv, Type, Alike
    <2> HIDE DEF r
    <2>2. Base(r)
      BY <2>1, AlikeBase DEF Inv
    <2>3. Off(r)
      BY <2>1 DEF Inv, Alike, Off, Queued
    <2> QED
      BY <2>1, <2>2, <2>3 DEF r
  <1>2. CASE RefreshRateChanged
    BY <1>1, <1>2 DEF RefreshRateChanged, Inv
  <1>3. CASE ResetTimerFires
    <2> DEFINE r == [k EXCEPT !.reset = FALSE]
    <2>1. k' = restart(r)
      BY <1>3 DEF ResetTimerFires
    <2>2. r \in Type /\ Base(r) /\ Off(r)
      BY <1>1
    <2> HIDE DEF r
    <2> QED
      BY <2>1, <2>2, RestartBase DEF Inv
  <1> QED
    BY <1>2, <1>3

LEMMA LostOwnershipInv ==
    ASSUME Inv, LostOwnership
    PROVE  Inv'
  <1> DEFINE e == IF k.loop.scene THEN "lost" ELSE k.excuse
             r == [k EXCEPT !.owning = FALSE, !.excuse = e]
  <1>1. k' = finish(r)
    BY DEF LostOwnership, Inv, Type
  <1>2. e \in {"none", "failed", "lost"} /\ (k.loop.scene => e # "none")
        /\ (~k.loop.scene => e = k.excuse)
    BY DEF Inv, Type
  <1> HIDE DEF e
  <1>3. /\ r \in Type /\ r.loop = k.loop /\ r.swapInFlight = k.swapInFlight
        /\ r.suspended = k.suspended /\ ~r.owning /\ r.release = k.release
        /\ r.excuse = e /\ r.posted = k.posted /\ r.orphaned = k.orphaned
    BY <1>2 DEF Inv, Type
  <1> HIDE DEF r
  <1>4. Sound(r)
    BY <1>3 DEF Inv, Base, Sound
  <1>5. /\ finish(r) \in Type /\ Base(finish(r)) /\ finish(r).excuse = e
        /\ finish(r).suspended = k.suspended
        /\ (Queued(r) => Queued(finish(r)))
    BY <1>3, <1>4, FinishBase
  <1>6. Off(finish(r))
    BY <1>2, <1>3, <1>5 DEF Inv, Off, Queued
  <1> QED
    BY <1>1, <1>5, <1>6 DEF Inv

(* A pass runs when the timer fires: there is a scene, so nothing suspends *)
(* the compositor and the selection is its own.                            *)
LEMMA TimerEventInv ==
    ASSUME Inv, TimerEvent
    PROVE  Inv'
  <1>1. PICK p \in Passes : k' = composite(k, p)
    BY DEF TimerEvent
  <1>2. k.loop \in Loop
    BY DEF Inv, Type
  <1>3. /\ PassPre(k.loop) /\ ~k.loop.starting /\ k.loop.outputs
        /\ k.suspended = {} /\ k.owning
        /\ k.swapInFlight => k.loop.swapPending
        /\ k.loop.swapPending => k.swapInFlight \/ k.orphaned
        /\ k.loop.frames # 0 \/ k.orphaned
        /\ ~SwapEvents => ~k.loop.swapPending /\ ~k.orphaned
    BY <1>2 DEF TimerEvent, Inv, Base, Sound, PassPre, LoopInv, TimerHasScene
  <1>4. k' \in Type /\ Base(k') /\ k'.loop.scene
    BY <1>1, <1>3, CompositeBase DEF Inv
  <1> QED
    BY <1>4 DEF Inv, Off

LEMMA SwapCompleteInv ==
    ASSUME Inv, SwapComplete
    PROVE  Inv'
  <1>1. PICK p \in Passes :
            LET l == bufferSwapComplete(k.loop, glxFrame(k, p))
            IN  k' = [k EXCEPT !.loop = l, !.swapInFlight = l.swapPending]
    BY DEF SwapComplete
  <1> DEFINE f == glxFrame(k, p)
             l == bufferSwapComplete(k.loop, f)
             g == l.swapPending
  <1>2. k' = [k EXCEPT !.loop = l, !.swapInFlight = g]
    BY <1>1
  <1>3. f \in Frame /\ (~SwapEvents => ~f.swap)
    BY GlxFrameType DEF Inv
  <1> HIDE DEF f
  <1>4. k.loop \in Loop /\ LoopInv(k.loop) /\ k.loop.swapPending /\ k.loop.scene
    BY DEF Inv, Type, Base, Sound, SwapComplete
  <1>5. /\ LoopInv(l) /\ SameScene(k.loop, l)
        /\ k.loop.frames # 0 => l.frames # 0
    BY <1>3, <1>4, BufferSwapCompleteInv
  <1>6. l \in Loop
    BY <1>5 DEF LoopInv
  <1> HIDE DEF l
  <1>7. g \in BOOLEAN
    BY <1>6 DEF Loop
  <1>8. /\ k' \in Type /\ k'.loop = l /\ k'.swapInFlight = l.swapPending
        /\ k'.suspended = k.suspended /\ k'.owning = k.owning
        /\ k'.release = k.release /\ k'.orphaned = k.orphaned
    BY <1>2, <1>6, <1>7 DEF Inv, Type
  <1>9. l.scene /\ ~l.starting /\ l.outputs
    BY <1>4, <1>5 DEF SameScene, Inv, Base, Sound
  <1>10. Base(k')
    BY <1>4, <1>5, <1>8, <1>9 DEF Inv, Base, Sound
  <1> QED
    BY <1>8, <1>9, <1>10 DEF Inv, Off

LEMMA VisibilityInv ==
    ASSUME Inv, NEW v \in BOOLEAN, VisibilityNotify(v)
    PROVE  Inv'
  <1> DEFINE l == [k.loop EXCEPT !.visible = v]
             m == [l EXCEPT !.repaints = TRUE]
             a == IF v /\ ~k.loop.visible THEN addRepaint(l) ELSE l
             r == scheduleRepaint(a)
  <1>1. k.loop \in Loop /\ LoopInv(k.loop) /\ k.loop.scene
    BY DEF Inv, Type, Base, Sound, VisibilityNotify
  <1>2. l \in Loop /\ PassPre(l) /\ m \in Loop /\ PassPre(m)
    BY <1>1 DEF LoopInv, Loop, PassPre, Deferred, TimerHasScene
  <1>3. /\ l.scene /\ m.scene
        /\ l.starting = k.loop.starting /\ m.starting = k.loop.starting
        /\ l.outputs = k.loop.outputs /\ m.outputs = k.loop.outputs
        /\ l.swapPending = k.loop.swapPending
        /\ m.swapPending = k.loop.swapPending
        /\ l.frames = k.loop.frames /\ m.frames = k.loop.frames
    BY <1>1 DEF Loop
  <1>4. a = IF v /\ ~k.loop.visible THEN scheduleRepaint(m) ELSE l
    BY <1>3 DEF addRepaint
  <1>5. k' = [k EXCEPT !.loop = r]
    BY DEF VisibilityNotify
  <1> HIDE DEF l, m, a
  <1>6. /\ a \in Loop /\ PassPre(a) /\ a.scene
        /\ a.starting = k.loop.starting /\ a.outputs = k.loop.outputs
        /\ a.swapPending = k.loop.swapPending /\ a.frames = k.loop.frames
    BY <1>2, <1>3, <1>4, ScheduleRepaintWakes DEF SameScene, LoopInv, PassPre
  <1>7. LoopInv(r) /\ SameScene(a, r) /\ r.swapPending = a.swapPending
        /\ r.frames = a.frames
    BY <1>6, ScheduleRepaintWakes
  <1>8. r \in Loop
    BY <1>7 DEF LoopInv
  <1> HIDE DEF r
  <1>9. /\ k' \in Type /\ k'.loop = r /\ k'.swapInFlight = k.swapInFlight
        /\ k'.suspended = k.suspended /\ k'.owning = k.owning
        /\ k'.release = k.release /\ k'.orphaned = k.orphaned
    BY <1>5, <1>8 DEF Inv, Type
  <1>10. r.scene /\ r.starting = k.loop.starting /\ r.outputs = k.loop.outputs
    BY <1>6, <1>7 DEF SameScene
  <1>11. Base(k')
    BY <1>1, <1>6, <1>7, <1>9, <1>10 DEF Inv, Base, Sound
  <1> QED
    BY <1>9, <1>10, <1>11 DEF Inv, Off

LEMMA InitInv == Init => Inv
  <1> SUFFICES ASSUME NEW suspended \in {{}, {"User"}}, NEW starting \in BOOLEAN,
                      NEW env \in Environments, NEW backend \in Backends,
                      k = Constructed(suspended, starting, env, backend)
               PROVE  Inv
    BY DEF Init
  <1> DEFINE su == IF env = "N" THEN {"User"} ELSE suspended
             mo == IF env = "N" THEN "None" ELSE backend
             ini == suspended = {} /\ env # "N"
  <1>1. su \in SUBSET Reasons /\ mo \in Backends \cup {"None"}
        /\ ini \in BOOLEAN
    BY DEF Reasons
  <1>2. <<"setup">> \in Seq(Calls)
    BY DEF Calls
  <1>3. /\ k.loop \in Loop /\ LoopInv(k.loop) /\ ~k.loop.scene
        /\ k.loop.visible /\ k.loop.outputs /\ ~k.loop.swapPending
    <2>1. 0 \in 0..2
      OBVIOUS
    <2> QED
      BY <2>1 DEF Constructed, Loop, LoopInv, HasWork, Awake, Deferred,
                  TimerHasScene
  <1>4. k.win \in [Windows -> {"none", "normal", "blocking", "deleted"}]
    BY DEF Constructed
  <1>5. /\ k.suspended = su /\ k.mode = mo /\ k.initialized = ini
        /\ k.posted = <<"setup">> /\ ~k.owning /\ ~k.swapInFlight
        /\ ~k.orphaned
    BY DEF Constructed
  <1>6. k \in Type
    BY <1>1, <1>2, <1>3, <1>4 DEF Type, Constructed
  <1>7. Base(k)
    BY <1>3, <1>5, <1>6 DEF Base, Sound
  <1>8. Queued(k)
    BY <1>5 DEF Queued
  <1> QED
    BY <1>6, <1>7, <1>8 DEF Inv, Off

LEMMA NextInv == Inv /\ [Next]_k => Inv'
  <1> SUFFICES ASSUME Inv, [Next]_k PROVE Inv'
    OBVIOUS
  <1>1. CASE RunSetup \/ RunSuspend \/ RunResume \/ RunFallback
    BY <1>1, RunPostedInv
       DEF RunSetup, RunSuspend, RunResume, RunFallback, Calls
  <1>2. CASE Toggle
    BY <1>2, ToggleBase DEF Toggle, Inv
  <1>3. CASE DBusSuspend
    BY <1>3, SuspendBase DEF DBusSuspend, Inv, Reasons
  <1>4. CASE DBusResume
    BY <1>4, ResumeBase DEF DBusResume, Inv, Reasons
  <1>5. CASE Reinitialize
    BY <1>5, ReinitializeBase DEF Reinitialize, Inv
  <1>6. CASE ConfigChanged
    BY <1>6, ConfigBase DEF ConfigChanged, Inv
  <1>7. CASE RefreshRateChanged \/ ResetTimerFires
    BY <1>7, ResetInv
  <1>8. CASE GraphicsReset
    BY <1>8, RestartBase DEF GraphicsReset, Inv
  <1>9. CASE ReleaseTimerFires
    BY <1>9, ReleaseBase DEF ReleaseTimerFires, Inv
  <1>10. CASE LostOwnership
    BY <1>10, LostOwnershipInv
  <1>11. CASE \E w \in Windows : WindowStep(w)
    BY <1>11, WindowStepInv
  <1>12. CASE Damage
    BY <1>12, AddRepaintBase DEF Damage, Inv
  <1>13. CASE TimerEvent
    BY <1>13, TimerEventInv
  <1>14. CASE SwapComplete
    BY <1>14, SwapCompleteInv
  <1>15. CASE \E v \in BOOLEAN : VisibilityNotify(v)
    BY <1>15, VisibilityInv
  <1>16. CASE UNCHANGED k
    BY <1>16 DEF Inv
  <1> QED
    BY <1>1, <1>2, <1>3, <1>4, <1>5, <1>6, <1>7, <1>8, <1>9, <1>10, <1>11,
       <1>12, <1>13, <1>14, <1>15, <1>16 DEF Next

(* The invariant holds in every state the compositor can reach.            *)
THEOREM Invariance == Spec => []Inv
  BY InitInv, NextInv, PTL DEF Spec

-----------------------------------------------------------------------------
(* The properties the runs check, for every value of the constants.        *)

(* Every member keeps its type, whatever windows come and go.              *)
THEOREM TypeCorrect == Spec => []TypeOK
  <1>1. Inv => TypeOK
    BY DEF Inv, TypeOK
  <1> QED
    BY <1>1, Invariance, PTL

(* performCompositing(), the swap reports, restart() and the visibility    *)
(* handler never lose a wake-up, until a scene is finished during a swap.  *)
THEOREM RepaintsAreNotLost == Spec => []NoLostRepaint
  <1>1. Inv => NoLostRepaint
    BY DEF Inv, Base, Sound, LoopInv, HasWork, Awake, NoLostRepaint
  <1> QED
    BY <1>1, Invariance, PTL

(* The assertions on m_bufferSwapPending hold and no pass runs without a   *)
(* scene.                                                                  *)
THEOREM AssertionsHold == Spec => []NoFault
  <1>1. Inv => NoFault
    BY DEF Inv, Base, Sound, LoopInv, NoFault
  <1> QED
    BY <1>1, Invariance, PTL

(* No order of suspend(), resume() and posted calls composites while a     *)
(* reason to suspend is set.                                               *)
THEOREM SuspensionHolds == Spec => []SuspendedMeansOff
  <1>1. Inv => SuspendedMeansOff
    BY DEF Inv, Base, SuspendedMeansOff
  <1> QED
    BY <1>1, Invariance, PTL

(* The compositor selection is held exactly as long as finish() and the    *)
(* release timer account for.                                              *)
THEOREM SelectionIsGuarded == Spec => []SelectionFollowsScene
  <1>1. Inv => SelectionFollowsScene
    BY DEF Inv, Base, Sound, SelectionFollowsScene
  <1> QED
    BY <1>1, Invariance, PTL

(* restart(), resume() and the posted calls never leave compositing off    *)
(* by accident.                                                            *)
THEOREM NeverOffByAccident == Spec => []OffForAReason
  <1>1. Inv => OffForAReason
    BY DEF Inv, Off, Queued, OffForAReason
  <1> QED
    BY <1>1, Invariance, PTL

(* The last call of startupWithWorkspace() does render at least once,      *)
(* unless the backend reports swaps and a scene was finished during one.   *)
THEOREM FirstFrameRendered == Spec => []RendersAtLeastOnce
  <1>1. Inv => RendersAtLeastOnce
    BY DEF Inv, Base, Sound, RendersAtLeastOnce
  <1> QED
    BY <1>1, Invariance, PTL

-----------------------------------------------------------------------------
(* The times of the timer: arithmetic first.                               *)

(* Division and remainder.                                                 *)
LEMMA DivMod ==
    ASSUME NEW n \in Int, NEW m \in Nat \ {0}
    PROVE  /\ n = m * (n \div m) + (n % m)
           /\ (n % m) \in 0..(m - 1)
           /\ (n \div m) \in Int
  OBVIOUS

LEMMA DivNat ==
    ASSUME NEW n \in Nat, NEW m \in Nat \ {0}
    PROVE  n \div m \in Nat
  OBVIOUS

LEMMA DivUnique ==
    ASSUME NEW n \in Int, NEW m \in Nat \ {0}, NEW q \in Int,
           m * q <= n, n < m * q + m
    PROVE  n \div m = q
  OBVIOUS

LEMMA Products ==
    ASSUME NEW a \in Int, NEW b \in Int, NEW m \in Nat \ {0}
    PROVE  /\ m * a \in Int /\ a * m = m * a
           /\ m * (a + b) = m * a + m * b /\ m * (a - b) = m * a - m * b
           /\ m * (-a) = -(m * a)
           /\ a <= b => m * a <= m * b
           /\ m * a < m * b + m => a <= b
  OBVIOUS

(* remainder() leaves a multiple of the divisor, and has the sign of what  *)
(* is divided.                                                             *)
LEMMA RemainderFacts ==
    ASSUME NEW n \in Int, NEW m \in Nat \ {0}
    PROVE  /\ quotient(n, m) \in Int /\ remainder(n, m) \in Int
           /\ n = m * quotient(n, m) + remainder(n, m)
           /\ remainder(n, m) < m /\ remainder(n, m) > -m
           /\ n >= 0 => remainder(n, m) >= 0
  <1>1. CASE n >= 0
    <2> DEFINE q == n \div m
    <2>1. quotient(n, m) = q
      BY <1>1 DEF quotient
    <2>2. n = m * q + (n % m) /\ (n % m) \in 0..(m - 1) /\ q \in Int
      BY DivMod
    <2>3. remainder(n, m) = n - m * q
      BY <2>1 DEF remainder
    <2> HIDE DEF q
    <2>4. m * q \in Int
      BY <2>2
    <2>5. remainder(n, m) = n % m
      BY <2>2, <2>3, <2>4
    <2> QED
      BY <2>1, <2>2, <2>4, <2>5
  <1>2. CASE n < 0
    <2> DEFINE q == (-n) \div m
    <2>1. -n = m * q + ((-n) % m) /\ ((-n) % m) \in 0..(m - 1) /\ q \in Int
      BY DivMod
    <2>2. quotient(n, m) = -q
      BY <1>2 DEF quotient
    <2>3. remainder(n, m) = n - m * (-q)
      BY <2>2 DEF remainder
    <2> HIDE DEF q
    <2>4. m * (-q) = -(m * q) /\ m * q \in Int
      BY <2>1, Products
    <2>5. remainder(n, m) = -((-n) % m)
      BY <2>1, <2>3, <2>4
    <2> QED
      BY <1>2, <2>1, <2>2, <2>4, <2>5
  <1> QED
    BY <1>1, <1>2

(* A delay of fewer ticks than an int holds is rounded down to             *)
(* milliseconds, and nothing of it is lost.                                *)
LEMMA DelayRounded ==
    ASSUME NEW n \in Int, n >= 0, n < IntLimit
    PROVE  LET w == toUInt(nanoToMilli(n))
           IN  w \in Nat /\ w * Milli <= n /\ n < w * Milli + Milli
  <1> DEFINE w == n \div Milli
  <1>1. Milli \in Nat \ {0} /\ IntLimit \in Nat \ {0}
    BY TicksAssumption
  <1>2. toInt(n) = n
    <2>1. (n + IntLimit) % (2 * IntLimit) = n + IntLimit
      BY <1>1
    <2> QED
      BY <2>1, <1>1 DEF toInt
  <1>3. nanoToMilli(n) = w
    BY <1>2 DEF nanoToMilli, quotient
  <1>4. /\ n = Milli * w + (n % Milli) /\ (n % Milli) \in 0..(Milli - 1)
        /\ w \in Int
    BY <1>1, DivMod, Zenon
  <1>p. n \in Nat
    OBVIOUS
  <1>q. w \in Nat
    BY <1>1, <1>p, DivNat, Zenon
  <1> HIDE DEF w
  <1>5. w * Milli = Milli * w /\ Milli * w \in Int
    BY <1>1, <1>q, Products
  <1>6. w <= Milli * w
    BY <1>1, <1>q
  <1>7. w < 2 * IntLimit
    BY <1>1, <1>q, <1>4, <1>5, <1>6
  <1>8. w % (2 * IntLimit) = w
    BY <1>1, <1>q, <1>7
  <1>9. toUInt(nanoToMilli(n)) = w
    BY <1>3, <1>8 DEF toUInt
  <1> QED
    BY <1>1, <1>q, <1>4, <1>5, <1>9

(* A negative delay is no delay if it is less than a millisecond, and a    *)
(* huge unsigned one otherwise.                                            *)
LEMMA DelayWrapped ==
    ASSUME NEW n \in Int, n > 0, n < IntLimit
    PROVE  LET w == toUInt(nanoToMilli(-n))
           IN  IF n < Milli THEN w = 0 ELSE w \in Nat /\ w >= 250
  <1> DEFINE q == n \div Milli
             w == toUInt(nanoToMilli(-n))
  <1>1. Milli \in Nat \ {0} /\ IntLimit \in Nat \ {0}
    BY TicksAssumption
  <1>m. 2000 * Milli < IntLimit
    BY TicksAssumption
  <1>2. toInt(-n) = -n
    <2>1. (-n + IntLimit) % (2 * IntLimit) = -n + IntLimit
      BY <1>1
    <2> QED
      BY <2>1, <1>1 DEF toInt
  <1>3. nanoToMilli(-n) = -q
    BY <1>1, <1>2 DEF nanoToMilli, quotient
  <1>p. n \in Nat /\ n \in Int
    OBVIOUS
  <1>4. /\ n = Milli * q + (n % Milli) /\ (n % Milli) \in 0..(Milli - 1)
        /\ q \in Int
    BY <1>1, <1>p, DivMod, Zenon
  <1>5. q \in Nat
    BY <1>1, <1>p, DivNat, Zenon
  <1>6. w = (-q) % (2 * IntLimit)
    BY <1>3 DEF toUInt
  <1> HIDE DEF q, w
  <1>7. Milli * q \in Int /\ q <= Milli * q
    BY <1>1, <1>5
  <1>8. CASE n < Milli
    <2>1. q # 0 => Milli * 1 <= Milli * q /\ Milli * 1 = Milli
      BY <1>1, <1>5, Products
    <2>2. q = 0
      BY <1>1, <1>4, <1>7, <1>8, <2>1
    <2>3. w = 0
      BY <1>1, <1>6, <2>2
    <2> QED
      BY <1>8, <2>3 DEF w
  <1>9. CASE ~(n < Milli)
    <2>1. q # 0
      <3>1. SUFFICES ASSUME q = 0 PROVE FALSE
        OBVIOUS
      <3>2. Milli * q = 0
        BY <1>1, <3>1
      <3> QED
        BY <1>1, <1>4, <1>9, <3>2
    <2>2. q < IntLimit
      BY <1>1, <1>4, <1>5, <1>7
    <2>3. w = 2 * IntLimit - q
      <3> DEFINE D == 2 * IntLimit
      <3>1. D \in Nat \ {0} /\ q < D /\ -q \in Int
        BY <1>1, <1>5, <2>2
      <3>2. D * (-1) = -D
        BY <3>1
      <3> HIDE DEF D
      <3>3. D * (-1) <= -q /\ -q < D * (-1) + D
        BY <1>5, <2>1, <3>1, <3>2
      <3>4. (-q) \div D = -1
        BY <3>1, <3>3, DivUnique
      <3>5. -q = D * ((-q) \div D) + ((-q) % D)
        BY <3>1, DivMod, Zenon
      <3>6. (-q) % D \in Int
        BY <3>1, DivMod
      <3>7. (-q) % D = D - q
        BY <1>5, <3>1, <3>2, <3>4, <3>5, <3>6
      <3> QED
        BY <1>6, <3>7 DEF D
    <2>4. w \in Nat /\ w >= 250
      BY <1>1, <1>m, <1>5, <2>2, <2>3
    <2> QED
      BY <1>9, <2>4 DEF w
  <1> QED
    BY <1>8, <1>9

(* The first multiple of v from ready on is no later than any other one.   *)
LEMMA NextRetrace ==
    ASSUME NEW ready \in Int, NEW v \in Nat \ {0}, NEW j \in Int, ready <= v * j
    PROVE  /\ ready + ((-ready) % v) <= v * j
           /\ ready + ((-ready) % v) \in Int
  <1> DEFINE q == (-ready) \div v
             r == (-ready) % v
  <1>1. -ready = v * q + r /\ r \in 0..(v - 1) /\ q \in Int
    BY DivMod
  <1> HIDE DEF q, r
  <1>2. v * (-q) = -(v * q) /\ v * q \in Int /\ v * j \in Int
    BY <1>1, Products
  <1>3. ready + r = v * (-q)
    BY <1>1, <1>2
  <1>4. v * (-q) < v * j + v
    BY <1>1, <1>2, <1>3
  <1>5. v * (-q) <= v * j
    BY <1>1, <1>4, Products
  <1> QED
    BY <1>1, <1>3, <1>5 DEF r

-----------------------------------------------------------------------------
(* What the configuration gives: the interval between retraces is at least *)
(* a millisecond and at most a second, and fpsInterval is a multiple of it *)
(* if the backend synchronises.                                            *)
LEMMA VBlankFacts ==
    ASSUME NEW rate \in Int, NEW syncs \in BOOLEAN
    PROVE  /\ vBlankInterval(rate, syncs) \in Nat \ {0}
           /\ vBlankInterval(rate, syncs) <= 1000 * Milli
  <1> DEFINE n == IF syncs THEN 1000 * Milli ELSE 1 * Milli
             r == IF syncs THEN currentRefreshRate(rate) ELSE 1
             v == n \div r
  <1>0. Milli \in Nat \ {0}
    BY TicksAssumption
  <1>1. r \in Nat \ {0} /\ r <= 1000 /\ (~syncs => r = 1)
    BY DEF currentRefreshRate
  <1>2. /\ n \in Int /\ n <= 1000 * Milli /\ n >= Milli
        /\ syncs => n = 1000 * Milli
    BY <1>0
  <1>3. vBlankInterval(rate, syncs) = v
    BY DEF vBlankInterval, milliToNano
  <1> HIDE DEF n, r
  <1>a. n \in Nat /\ r \in Nat \ {0}
    BY <1>0, <1>1, <1>2
  <1>b. v \in Nat
    BY <1>a, DivNat
  <1>4. /\ n = r * v + (n % r) /\ (n % r) \in 0..(r - 1) /\ v \in Int
        /\ v >= 0
    BY <1>a, <1>b, DivMod
  <1> HIDE DEF v
  <1>5. v <= r * v /\ r * v \in Int
    BY <1>1, <1>4
  <1>6. v <= 1000 * Milli
    BY <1>0, <1>1, <1>2, <1>4, <1>5
  <1>7. v # 0
    <2>1. SUFFICES ASSUME v = 0 PROVE FALSE
      OBVIOUS
    <2>2. r * v = 0
      BY <1>1, <2>1
    <2>3. n < r
      BY <1>1, <1>4, <2>2
    <2> QED
      BY <1>0, <1>1, <1>2, <2>3
  <1> QED
    BY <1>3, <1>4, <1>6, <1>7

LEMMA FpsFacts ==
    ASSUME NEW maxFps \in Nat \ {0}, NEW v \in Nat \ {0}, v <= 1000 * Milli,
           NEW syncs \in BOOLEAN, NEW f, f = fpsInterval(maxFps, v, syncs)
    PROVE  /\ f \in Nat /\ f <= 1000 * Milli
           /\ syncs => f >= v /\ f = v * (f \div v) /\ f \div v \in Nat
  <1> DEFINE K == 1000 * Milli
             wanted == K \div maxFps
             m == wanted \div v
  <1>0. K \in Nat /\ K \in Int
    BY TicksAssumption
  <1>1. f = IF ~syncs THEN wanted ELSE IF m * v > v THEN m * v ELSE v
    BY DEF fpsInterval, milliToNano
  <1>v. v <= K
    OBVIOUS
  <1> HIDE DEF K
  <1>2. wanted \in Nat
    BY <1>0, DivNat, Zenon
  <1>3. /\ K = maxFps * wanted + (K % maxFps)
        /\ (K % maxFps) \in 0..(maxFps - 1)
    BY <1>0, DivMod, Zenon
  <1> HIDE DEF wanted
  <1>4. wanted <= maxFps * wanted /\ maxFps * wanted \in Int
    BY <1>2
  <1>5. wanted <= K
    BY <1>0, <1>2, <1>3, <1>4
  <1>i. wanted \in Int
    BY <1>2
  <1>6. m \in Nat
    BY <1>2, DivNat, Zenon
  <1>7. wanted = v * m + (wanted % v) /\ (wanted % v) \in 0..(v - 1)
    BY <1>i, DivMod, Zenon
  <1> HIDE DEF m
  <1>8. m * v = v * m /\ v * m \in Int
    BY <1>6, Products
  <1>9. v * m <= wanted
    BY <1>2, <1>7, <1>8
  <1>10. CASE ~syncs
    BY <1>1, <1>2, <1>5, <1>10 DEF K
  <1>11. CASE syncs /\ m * v > v
    <2>1. f = v * m
      BY <1>1, <1>8, <1>11
    <2>2. f \div v = m
      BY <1>6, <1>8, <2>1, DivUnique
    <2> DEFINE x == v * m
    <2>3. x \in Int /\ x <= wanted /\ x > v
      BY <1>8, <1>9, <1>11
    <2>4. f = x
      BY <2>1
    <2> HIDE DEF x
    <2>5. f \in Nat /\ f <= K /\ f >= v
      BY <1>0, <1>2, <1>5, <2>3, <2>4
    <2> QED
      BY <1>6, <2>1, <2>2, <2>5 DEF K
  <1>12. CASE syncs /\ ~(m * v > v)
    <2>1. f = v
      BY <1>1, <1>12
    <2>2. v * 1 = v
      OBVIOUS
    <2>3. f \div v = 1
      BY <2>1, <2>2, DivUnique
    <2> QED
      BY <1>v, <2>1, <2>2, <2>3 DEF K
  <1> QED
    BY <1>10, <1>11, <1>12

-----------------------------------------------------------------------------
(* The delay.                                                              *)

(* What setCompositeTimer() may rely on.                                   *)
Configured(c) ==
    /\ c.vBlank \in Nat \ {0} /\ c.vBlank <= 1000 * Milli
    /\ c.fps \in Nat /\ c.fps <= 1000 * Milli
    /\ c.vBlankTime \in Nat /\ c.vBlankTime <= 1000 * Milli
    /\ c.since \in Int /\ c.fps - c.since <= 1000 * Milli + 1

(* ... and with a backend that blocks for the retrace.                     *)
Retracing(c) ==
    /\ c.fps >= c.vBlank
    /\ c.fps = c.vBlank * (c.fps \div c.vBlank) /\ c.fps \div c.vBlank \in Nat

(* padding() ends with a retrace, within the frame and one interval more.  *)
LEMMA PaddingFacts ==
    ASSUME NEW c, Configured(c), Retracing(c)
    PROVE  /\ padding(c) \in Int /\ padding(c) >= 1
           /\ padding(c) <= c.fps + c.vBlank - 1
           /\ \E j \in Int : c.since + padding(c) = c.vBlank * j
  <1> DEFINE v == c.vBlank
             f == c.fps
             s == c.since
             m == f \div v
             q == quotient(s, v)
             r == remainder(s, v)
  <1>1. v \in Nat \ {0} /\ f \in Nat /\ s \in Int
    BY DEF Configured
  <1>2. f >= v /\ f = v * m /\ m \in Nat
    BY DEF Retracing
  <1>3. q \in Int /\ r \in Int /\ s = v * q + r /\ r < v /\ r > -v
        /\ (s >= 0 => r >= 0)
    BY <1>1, RemainderFacts
  <1>4. padding(c) = IF s > f THEN v - r ELSE (v - r) + (m - 1) * v
    BY DEF padding
  <1> HIDE DEF v, f, s, m, q, r
  <1>5. v * q \in Int /\ v * (q + 1) = v * q + v /\ v * m \in Int
    BY <1>1, <1>2, <1>3, Products
  <1>6. CASE s > f
    <2>1. padding(c) = v - r
      BY <1>4, <1>6
    <2>2. s + padding(c) = v * (q + 1)
      BY <1>1, <1>3, <1>5, <2>1
    <2>3. r >= 0
      BY <1>1, <1>3, <1>6
    <2>4. padding(c) \in Int /\ padding(c) >= 1 /\ padding(c) <= f + v - 1
      BY <1>1, <1>2, <1>3, <2>1, <2>3
    <2>5. q + 1 \in Int
      BY <1>3
    <2> QED
      BY <2>2, <2>4, <2>5 DEF s, v, f
  <1>7. CASE ~(s > f)
    <2>1. (m - 1) * v = v * m - v
      BY <1>1, <1>2, Products
    <2>2. padding(c) = f - r
      BY <1>1, <1>2, <1>3, <1>4, <1>5, <1>7, <2>1
    <2>3. v * (q + m) = v * q + v * m
      BY <1>1, <1>2, <1>3, Products
    <2>4. s + padding(c) = v * (q + m)
      BY <1>1, <1>2, <1>3, <1>5, <2>2, <2>3
    <2>5. padding(c) \in Int /\ padding(c) >= 1 /\ padding(c) <= f + v - 1
      BY <1>1, <1>2, <1>3, <2>2
    <2>6. q + m \in Int
      BY <1>2, <1>3
    <2> QED
      BY <2>4, <2>5, <2>6 DEF s, v, f
  <1> QED
    BY <1>6, <1>7

(* With a backend that blocks the pass is aimed at a retrace, or at none   *)
(* if even one interval more is not enough.                                *)
LEMMA BlockingInTime ==
    ASSUME NEW c, Configured(c), Retracing(c), c.blocks
    PROVE  InTime(c)
  <1> DEFINE v == c.vBlank
             f == c.fps
             s == c.since
             t == c.vBlankTime
             p == padding(c)
             D == p + (IF p < t THEN v ELSE 0) - t
             w == toUInt(nanoToMilli(D))
             u == waitTime(c)
             ready == s + u * Milli + t
             retrace == ready + ((-ready) % v)
             lacking == t - (p + v)
             slack == IF t <= v THEN v ELSE 2 * v
  <1>1. /\ v \in Nat \ {0} /\ f \in Nat /\ s \in Int /\ t \in Nat
        /\ v <= 1000 * Milli /\ f <= 1000 * Milli /\ f >= v /\ t <= 1000 * Milli
    BY DEF Configured, Retracing
  <1>2. p \in Int /\ p >= 1 /\ p <= f + v - 1
    BY PaddingFacts
  <1>3. PICK i \in Int : s + p = v * i
    BY PaddingFacts
  <1>4. waitBlocking(c) = w
    BY DEF waitBlocking
  <1>5. u = IF w < 250 THEN w ELSE 250
    BY <1>4 DEF waitTime
  <1>6. InTime(c) <=> IF lacking > 0
                      THEN u = IF lacking < Milli THEN 0 ELSE 250
                      ELSE /\ retrace <= s + f + slack
                           /\ retrace < ready + Milli \/ u = 250
    BY DEF InTime
  <1>m. Milli \in Nat \ {0} /\ IntLimit \in Nat /\ 2000 * Milli < IntLimit
    BY TicksAssumption
  <1> HIDE DEF v, f, s, t, p, u
  <1>d. D \in Int /\ D < IntLimit /\ s + D + t <= s + f + slack
        /\ lacking \in Int /\ (D < 0 => lacking > 0)
        /\ (lacking > 0 => D = -lacking /\ lacking < IntLimit)
    BY <1>1, <1>2, <1>m
  <1>e. slack \in Int
    BY <1>1
  <1>c. CASE lacking > 0
    <2>1. lacking \in Nat /\ lacking > 0 /\ lacking < IntLimit /\ D = -lacking
      BY <1>d, <1>c
    <2> HIDE DEF D, lacking
    <2>2. w = toUInt(nanoToMilli(-lacking))
      BY <2>1
    <2>3. IF lacking < Milli THEN w = 0 ELSE w \in Nat /\ w >= 250
      BY <2>1, <2>2, DelayWrapped
    <2> HIDE DEF w
    <2> QED
      BY <1>5, <1>6, <1>c, <2>3
  <1> SUFFICES ASSUME ~(lacking > 0)
               PROVE  /\ retrace <= s + f + slack
                      /\ retrace < ready + Milli \/ u = 250
    BY <1>6, <1>c
  <1>7. D \in Int /\ D >= 0 /\ D < IntLimit
    BY <1>d
  <1>8. \E j \in Int : s + D + t = v * j
    <2>1. CASE p < t
      <3>1. v * (i + 1) = v * i + v
        BY <1>1, Products
      <3>2. s + D + t = v * (i + 1)
        BY <1>1, <1>2, <1>3, <2>1, <3>1
      <3>3. i + 1 \in Int
        OBVIOUS
      <3> QED
        BY <3>2, <3>3
    <2>2. CASE ~(p < t)
      <3>1. s + D + t = v * i
        BY <1>1, <1>2, <1>3, <2>2
      <3> QED
        BY <3>1
    <2> QED
      BY <2>1, <2>2
  <1>9. PICK j \in Int : s + D + t = v * j
    BY <1>8
  <1> HIDE DEF D, slack
  <1>10. w \in Nat /\ w * Milli <= D /\ D < w * Milli + Milli
    BY <1>7, DelayRounded
  <1> HIDE DEF w
  <1>11. u \in Nat /\ u <= w /\ (u # 250 => u = w)
    BY <1>5, <1>10
  <1>12. u * Milli \in Int /\ w * Milli \in Int /\ u * Milli <= w * Milli
    BY <1>10, <1>11, <1>m, Products
  <1>13. ready \in Int /\ ready <= v * j
    BY <1>1, <1>7, <1>9, <1>10, <1>12
  <1>14. ready + ((-ready) % v) <= v * j /\ ready + ((-ready) % v) \in Int
    BY <1>1, <1>13, NextRetrace
  <1>15. u # 250 => v * j < ready + Milli
    <2> SUFFICES ASSUME u # 250 PROVE v * j < ready + Milli
      OBVIOUS
    <2>1. u * Milli = w * Milli
      BY <1>11
    <2> QED
      BY <1>1, <1>7, <1>9, <1>10, <1>12, <1>m, <2>1
  <1> HIDE DEF ready
  <1>16. v * j <= s + f + slack
    BY <1>d, <1>9
  <1>17. v * j \in Int
    BY <1>1
  <1> QED
    BY <1>1, <1>e, <1>13, <1>14, <1>15, <1>16, <1>17, <1>m

(* Without one the pass is aimed at the next tick of fpsInterval.          *)
LEMMA FreeInTime ==
    ASSUME NEW c, Configured(c), ~c.blocks
    PROVE  InTime(c)
  <1> DEFINE f == c.fps
             s == c.since
             D == f - s
             w == toUInt(nanoToMilli(D))
             u == waitTime(c)
             wake == s + u * Milli
  <1>1. f \in Nat /\ s \in Int /\ D <= 1000 * Milli + 1
    BY DEF Configured
  <1>2. u = LET z == IF f > s /\ w # 0 THEN w ELSE 1
            IN  IF z < 250 THEN z ELSE 250
    BY DEF waitTime, waitFree
  <1>3. InTime(c) <=> IF f < s + Milli THEN u = 1
                      ELSE /\ wake <= f
                           /\ f < wake + Milli \/ u = 250
    BY DEF InTime
  <1>m. Milli \in Nat \ {0} /\ IntLimit \in Nat /\ 2000 * Milli < IntLimit
    BY TicksAssumption
  <1>4. D \in Int /\ D < IntLimit /\ f = s + D
    BY <1>1, <1>m
  <1>5. D >= 0 => w \in Nat /\ w * Milli <= D /\ D < w * Milli + Milli
    BY <1>4, DelayRounded
  <1> HIDE DEF f, s, u, w, D
  <1>6. CASE f < s + Milli
    <2>1. f > s => w = 0
      <3> SUFFICES ASSUME f > s PROVE w = 0
        OBVIOUS
      <3>1. w \in Nat /\ w * Milli <= D /\ D < Milli
        BY <1>1, <1>4, <1>5, <1>6, <1>m
      <3>2. w # 0 => Milli * 1 <= Milli * w /\ w * Milli = Milli * w
        BY <1>m, <3>1, Products
      <3>3. Milli * 1 = Milli /\ w * Milli \in Int
        BY <1>m, <3>1
      <3> QED
        BY <1>4, <1>m, <3>1, <3>2, <3>3
    <2>2. u = 1
      BY <1>2, <2>1
    <2> QED
      BY <1>3, <1>6, <2>2
  <1>7. CASE ~(f < s + Milli)
    <2>1. D >= Milli /\ f > s
      BY <1>1, <1>4, <1>7, <1>m
    <2>2. w \in Nat /\ w * Milli <= D /\ D < w * Milli + Milli
      BY <1>4, <1>5, <1>m, <2>1
    <2>3. w # 0
      BY <1>4, <1>m, <2>1, <2>2
    <2>4. u = IF w < 250 THEN w ELSE 250
      BY <1>2, <2>1, <2>3
    <2>5. u \in Nat /\ u <= w /\ (u # 250 => u = w)
      BY <2>2, <2>4
    <2>6. u * Milli \in Int /\ w * Milli \in Int /\ u * Milli <= w * Milli
      BY <1>m, <2>2, <2>5, Products
    <2>7. wake <= f
      BY <1>1, <1>4, <2>2, <2>6
    <2>8. u # 250 => f < wake + Milli
      <3> SUFFICES ASSUME u # 250 PROVE f < wake + Milli
        OBVIOUS
      <3>1. u * Milli = w * Milli
        BY <2>5
      <3> QED
        BY <1>1, <1>4, <1>m, <2>2, <2>6, <3>1
    <2> QED
      BY <1>3, <1>7, <2>7, <2>8
  <1> QED
    BY <1>6, <1>7

(* Every delay is in time, for a new scene as for one that has painted.    *)
LEMMA DelaysInTime ==
    ASSUME NEW painted \in BOOLEAN
    PROVE  AllInTime(painted)
  <1> SUFFICES ASSUME NEW rate \in Rates, NEW maxFps \in MaxFps,
                      NEW syncs \in BOOLEAN,
                      NEW c \in timings(rate, maxFps, syncs, painted)
               PROVE  InTime(c)
    BY DEF AllInTime
  <1> DEFINE v == vBlankInterval(rate, syncs)
             f == fpsInterval(maxFps, v, syncs)
  <1>0. Milli \in Nat \ {0}
    BY TicksAssumption
  <1>1. rate \in Int /\ maxFps \in Nat \ {0}
    BY ConfigurationAssumption
  <1>2. v \in Nat \ {0} /\ v <= 1000 * Milli
    BY <1>1, VBlankFacts
  <1>s. c \in [vBlank: {v}, fps: {f}, vBlankTime: VBlankTimes,
               blocks: {FALSE, syncs},
               since: IF painted THEN RenderTimes
                      ELSE {f - (x + 1) : x \in VBlankTimes}]
    BY DEF timings
  <1> HIDE DEF v
  <1>3. /\ f \in Nat /\ f <= 1000 * Milli
        /\ syncs => f >= v /\ f = v * (f \div v) /\ f \div v \in Nat
    BY <1>1, <1>2, FpsFacts
  <1> HIDE DEF f
  <1>4. /\ c.vBlank = v /\ c.fps = f /\ c.vBlankTime \in VBlankTimes
        /\ c.blocks \in {FALSE, syncs}
        /\ c.since \in IF painted THEN RenderTimes
                       ELSE {f - (x + 1) : x \in VBlankTimes}
    BY <1>s
  <1>5. VBlankTimes \subseteq 0..(1000 * Milli) /\ RenderTimes \subseteq Nat
    BY ConfigurationAssumption
  <1>6. c.since \in Int /\ f - c.since <= 1000 * Milli + 1
    <2>1. CASE painted
      <3>1. c.since \in Nat
        BY <1>4, <1>5, <2>1, Zenon
      <3> QED
        BY <1>0, <1>3, <3>1
    <2>2. CASE ~painted
      <3>1. PICK x \in VBlankTimes : c.since = f - (x + 1)
        BY <1>4, <2>2
      <3>2. x \in Nat /\ x <= 1000 * Milli
        BY <1>0, <1>5
      <3> QED
        BY <1>0, <1>3, <3>1, <3>2
    <2> QED
      BY <2>1, <2>2
  <1>x. \A x \in VBlankTimes : x \in Nat /\ x <= 1000 * Milli
    BY <1>0, <1>5
  <1>t. c.vBlankTime \in VBlankTimes
    BY <1>4
  <1>7. c.vBlankTime \in Nat /\ c.vBlankTime <= 1000 * Milli
    BY <1>t, <1>x
  <1>8. Configured(c)
    BY <1>2, <1>3, <1>4, <1>6, <1>7 DEF Configured
  <1>9. c.blocks => syncs
    BY <1>4
  <1>10. c.blocks => Retracing(c)
    BY <1>3, <1>4, <1>9 DEF Retracing
  <1> QED
    BY <1>8, <1>10, BlockingInTime, FreeInTime

(* Whenever the timer runs, setCompositeTimer() has started it with a      *)
(* delay that meets the retrace, at every refresh rate, with every         *)
(* configuration and after a pass of any length: no delay overflows an     *)
(* int, and one wraps around as an unsigned number exactly if VBlankTime   *)
(* cannot be kept with one interval more, which makes it 250 ms.           *)
THEOREM RetracesAreMet == Spec => []RetraceIsMet
  <1>1. RetraceIsMet
    BY DelaysInTime DEF RetraceIsMet, StartsInTime, PassesInTime
  <1> QED
    BY <1>1, PTL
=============================================================================
