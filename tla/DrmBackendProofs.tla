-------------------------- MODULE DrmBackendProofs --------------------------
(***************************************************************************)
(* The safety properties of DrmBackend for every number of outputs, every  *)
(* environment and every bound on the events the kernel queues.            *)
(*                                                                         *)
(* One inductive invariant, Good, carries all of them.  Its parts hold in  *)
(* fewer and fewer environments: that the loop is awake in all of them,    *)
(* that the backend follows the terminal if logind does not race with the  *)
(* kernel, that the flips are counted if none is unread at a switch, and   *)
(* that no assertion fails if nothing else goes away during a flip.  One   *)
(* lemma per member function says which parts it keeps; a step is proved   *)
(* from the functions it calls.  A second one, Flying, holds in all of     *)
(* them: the flips that are counted are to come.                           *)
(***************************************************************************)
EXTENDS DrmBackend, FiniteSetTheorems, TLAPS

(* The members that only the life cycle of the scene changes.              *)
SameScene(l, m) ==
    /\ m.scene = l.scene
    /\ m.starting = l.starting
    /\ m.visible = l.visible
    /\ m.outputs = l.outputs

(***************************************************************************)
(* The inductive invariant, in parts that depend on the environment.       *)
(***************************************************************************)

(* A loop of this backend: no overlay window, no frame is held back.       *)
LoopOk(l) ==
    /\ l \in Loop
    /\ Deferred(l)
    /\ TimerHasScene(l)
    /\ ~l.starting /\ l.visible /\ ~l.flush

(* What holds at every call of the loop, also in the middle of a handler.  *)
Sound(s) ==
    /\ s \in Type
    /\ LoopOk(s.loop)
    /\ s.on \subseteq s.there
    /\ ~s.unseen /\ ~s.loop.outputs => s.on = {}

Always(s) == Sound(s) /\ (~s.unseen => Awake(s.loop))

(* The backend follows the terminal, and an output keeps its buffer only   *)
(* for a flip to come.                                                     *)
InStep(s) ==
    /\ s.active <=> s.vt
    /\ s.vt => \A o \in s.buf : s.events[o] > 0

Busy(s) == {o \in Outputs : s.events[o] > 0}

(* The kernel has at most one flip of an output, for its current buffer.   *)
OneFlip(s) ==
    \A o \in Outputs :
        /\ s.events[o] < 2
        /\ s.events[o] > 0 /\ o \in s.there => o \in s.buf

(* A swap is pending for the flips to come, or to block the loop.          *)
Counted(s) ==
    /\ OneFlip(s)
    /\ ~s.active => s.flips = 0 /\ Busy(s) = {} /\ s.loop.swapPending
    /\ s.active => /\ s.flips = Cardinality(Busy(s))
                   /\ s.loop.swapPending <=> s.flips > 0

Faultless(s) ==
    /\ ~s.loop.fault
    /\ s.loop.composeAtSwap => s.loop.scene
    /\ Busy(s) \subseteq s.there

FilterFollows(s, e) ==
    /\ s.on # s.there => s.filter
    /\ "hotplug" \notin e /\ s.filter => s.on # s.there

NoLateFlip(e) == e \cap {"flipAtSwitch", "logindRaces"} = {}
Calm(e) == e \cap {"flipAtSwitch", "logindRaces", "flipAtRestart",
                   "flipAtUnplug"} = {}

Good(s, e) ==
    /\ Always(s)
    /\ "logindRaces" \notin e => InStep(s)
    /\ NoLateFlip(e) => Counted(s)
    /\ Calm(e) => Faultless(s)
    /\ "dpmsFails" \notin e => FilterFollows(s, e)

DInv == Good(d, env)

-----------------------------------------------------------------------------
(* The loop's functions, when an assertion may have failed before.         *)

(* addRepaint() wakes the loop and changes nothing else.                   *)
LEMMA AddRepaintWakes ==
    ASSUME NEW l, LoopOk(l)
    PROVE  /\ LoopOk(addRepaint(l)) /\ Awake(addRepaint(l))
           /\ SameScene(l, addRepaint(l))
           /\ addRepaint(l).swapPending = l.swapPending
           /\ addRepaint(l).composeAtSwap = l.composeAtSwap
           /\ addRepaint(l).fault = l.fault
  BY DEF LoopOk, Loop, addRepaint, scheduleRepaint, setCompositeTimer,
         HasWork, Awake,
         Deferred, TimerHasScene, SameScene

(* A painting pass wakes the loop or waits for the swap it announced.      *)
LEMMA PaintPassWakes ==
    ASSUME NEW l, NEW f \in Frame, LoopOk(l), ~f.flush, l.scene, ~l.swapPending
    PROVE  /\ LoopOk(paintPass(l, f)) /\ Awake(paintPass(l, f))
           /\ SameScene(l, paintPass(l, f))
           /\ paintPass(l, f).swapPending <=> f.swap
           /\ paintPass(l, f).fault <=> l.fault
  <1> DEFINE n == IF l.frames = 1 THEN 2 ELSE 1
             q == [l EXCEPT !.repaints = f.again, !.flush = f.flush,
                            !.frames = n, !.timer = FALSE]
             p == swapIf(q, f.swap)
  <1>n. n \in 0..2
    OBVIOUS
  <1> HIDE DEF n
  <1>1. q \in Loop
    BY <1>n DEF LoopOk, Loop, Frame
  <1>2. /\ q.scene = l.scene /\ q.starting = l.starting
        /\ q.visible = l.visible /\ q.outputs = l.outputs
    BY DEF LoopOk, Loop
  <1>3. /\ q.swapPending = l.swapPending /\ q.composeAtSwap = l.composeAtSwap
        /\ q.fault = l.fault /\ q.timer = FALSE /\ q.flush = f.flush
    BY DEF LoopOk, Loop
  <1>4. ~q.swapPending /\ ~q.composeAtSwap /\ ~q.timer /\ ~q.flush
    BY <1>3 DEF LoopOk, Deferred
  <1> HIDE DEF q
  <1>5. /\ p \in Loop /\ SameScene(q, p)
        /\ p.swapPending <=> f.swap
        /\ p.fault <=> q.fault
        /\ ~p.composeAtSwap /\ ~p.timer /\ ~p.flush
    BY <1>1, <1>4 DEF Loop, Frame, SameScene, swapIf, aboutToSwapBuffers
  <1>6. LoopOk(p) /\ SameScene(l, p) /\ p.scene
    BY <1>2, <1>5 DEF LoopOk, SameScene, Deferred, TimerHasScene
  <1> HIDE DEF p
  <1>7. CASE p.swapPending /\ SyncsToVBlank
    <2>1. paintPass(l, f) = [p EXCEPT !.composeAtSwap = TRUE]
      BY <1>7 DEF paintPass, p, q, n
    <2> QED
      BY <1>3, <1>5, <1>6, <1>7, <2>1
      DEF LoopOk, Loop, HasWork, Awake, Deferred, TimerHasScene, SameScene
  <1>8. CASE ~(p.swapPending /\ SyncsToVBlank)
    <2>1. paintPass(l, f) = scheduleRepaint(p)
      BY <1>8 DEF paintPass, p, q, n
    <2>2. paintPass(l, f) = p \/ paintPass(l, f) = [p EXCEPT !.timer = TRUE]
      BY <2>1 DEF scheduleRepaint, setCompositeTimer
    <2>3. Awake(paintPass(l, f))
      BY <1>5, <1>6, <2>1 DEF HasWork, Awake, scheduleRepaint,
                              setCompositeTimer,
         LoopOk, Loop
    <2>4. /\ LoopOk(paintPass(l, f)) /\ SameScene(l, paintPass(l, f))
          /\ paintPass(l, f).swapPending = p.swapPending
          /\ paintPass(l, f).fault = p.fault
      BY <1>5, <1>6, <2>2 DEF LoopOk, Loop, Deferred, TimerHasScene, SameScene
    <2> QED
      BY <1>3, <1>5, <2>3, <2>4
  <1> QED
    BY <1>7, <1>8

(* A pass wakes the loop; the only fault is to run without a scene.        *)
LEMMA PerformCompositingWakes ==
    ASSUME NEW l, NEW f \in Frame, LoopOk(l), ~f.flush
    PROVE  /\ LoopOk(performCompositing(l, f)) /\ Awake(performCompositing(l, f))
           /\ SameScene(l, performCompositing(l, f))
           /\ performCompositing(l, f).swapPending
                <=> l.swapPending \/ (paints(l) /\ f.swap)
           /\ performCompositing(l, f).fault <=> l.fault \/ ~l.scene
           /\ performCompositing(l, f).composeAtSwap
                => l.scene \/ l.composeAtSwap
  <1>0. l.visible /\ ~l.flush /\ l \in Loop
    BY DEF LoopOk
  <1>1. CASE ~l.scene
    BY <1>0, <1>1 DEF performCompositing, LoopOk, Loop, HasWork, Awake,
                      Deferred,
                      TimerHasScene, SameScene, paints
  <1>2. CASE l.scene /\ l.swapPending
    BY <1>0, <1>2 DEF performCompositing, LoopOk, Loop, HasWork, Awake,
                      Deferred,
                      TimerHasScene, SameScene, paints
  <1>3. CASE l.scene /\ ~l.swapPending /\ ~l.outputs
    BY <1>0, <1>3 DEF performCompositing, LoopOk, Loop, HasWork, Awake,
                      Deferred,
                      TimerHasScene, SameScene, paints
  <1>4. CASE l.scene /\ ~l.swapPending /\ l.outputs /\ ~l.repaints
    <2>1. performCompositing(l, f)
              = [l EXCEPT !.flush = FALSE, !.timer = FALSE]
      BY <1>0, <1>4 DEF performCompositing, idlePass, swapIf
    <2> QED
      BY <1>0, <1>4, <2>1 DEF LoopOk, Loop, HasWork, Awake, Deferred,
                              TimerHasScene, SameScene, paints
  <1>5. CASE paints(l)
    <2>1. performCompositing(l, f) = paintPass(l, f)
      BY <1>5 DEF performCompositing, paints
    <2>2. ~l.swapPending /\ l.scene
      BY <1>5 DEF paints
    <2> QED
      BY <1>5, <2>1, <2>2, PaintPassWakes
  <1> QED
    BY <1>0, <1>1, <1>2, <1>3, <1>4, <1>5 DEF paints

(* bufferSwapComplete() when no pass is due.                                *)
LEMMA SwapDone ==
    ASSUME NEW l, NEW f \in Frame, LoopOk(l)
    PROVE  LET done == bufferSwapComplete([l EXCEPT !.composeAtSwap = FALSE], f)
           IN  /\ LoopOk(done) /\ SameScene(l, done)
               /\ ~done.swapPending /\ ~done.composeAtSwap
               /\ done.fault <=> l.fault \/ ~l.swapPending
               /\ Awake(l) /\ ~l.composeAtSwap => Awake(done)
  <1> DEFINE m == [l EXCEPT !.composeAtSwap = FALSE]
             done == bufferSwapComplete(m, f)
  <1>1. /\ m \in Loop /\ ~m.composeAtSwap /\ m.swapPending = l.swapPending
        /\ m.fault = l.fault /\ SameScene(l, m) /\ m.timer = l.timer
        /\ m.repaints = l.repaints /\ m.flush = l.flush
    BY DEF LoopOk, Loop, SameScene
  <1> HIDE DEF m
  <1>2. done = [m EXCEPT !.swapPending = FALSE, !.composeAtSwap = FALSE,
                         !.fault = @ \/ ~m.swapPending]
    BY <1>1 DEF bufferSwapComplete
  <1>3. /\ done \in Loop /\ SameScene(m, done) /\ done.timer = m.timer
        /\ done.repaints = m.repaints /\ done.flush = m.flush
        /\ ~done.swapPending /\ ~done.composeAtSwap
        /\ done.fault <=> m.fault \/ ~m.swapPending
    BY <1>1, <1>2 DEF Loop, SameScene
  <1> HIDE DEF done
  <1>4. LoopOk(done) /\ SameScene(l, done)
    BY <1>1, <1>3 DEF LoopOk, SameScene, Deferred, TimerHasScene
  <1>5. Awake(l) /\ ~l.composeAtSwap => Awake(done)
    BY <1>1, <1>3, <1>4 DEF HasWork, Awake, SameScene
  <1> QED
    BY <1>1, <1>3, <1>4, <1>5 DEF done, m

-----------------------------------------------------------------------------
(* Painting and presenting.                                                *)

(* The members that painting leaves alone.                                 *)
Same(s, t) ==
    /\ t.tty = s.tty /\ t.vt = s.vt /\ t.session = s.session
    /\ t.active = s.active /\ t.there = s.there /\ t.on = s.on
    /\ t.filter = s.filter /\ t.posted = s.posted /\ t.unseen = s.unseen
    /\ t.loop.outputs = s.loop.outputs /\ t.loop.scene = s.loop.scene

(* The outputs that flip are a finite set of outputs that are on.          *)
LEMMA FlippingFinite ==
    ASSUME NEW s, NEW p
    PROVE  /\ s \in Type => flipping(s, p) \subseteq s.on \cap Outputs
           /\ s \in Type => /\ IsFiniteSet(flipping(s, p))
                            /\ Cardinality(flipping(s, p)) \in Nat
  <1>1. s \in Type => flipping(s, p) \subseteq s.on \cap Outputs
    BY DEF flipping, Type
  <1>2. s \in Type => flipping(s, p) \in SUBSET Outputs
    BY <1>1
  <1> QED
    BY <1>1, <1>2, OutputsAssumption, FS_Subset, FS_CardinalityType

(* The frame of a pass of this backend.                                    *)
LEMMA FrameType ==
    ASSUME NEW s, NEW p \in Passes
    PROVE  drmFrame(s, p) \in Frame /\ ~drmFrame(s, p).flush
  BY DEF drmFrame, Frame, Passes

(* present(), member by member.                                            *)
LEMMA PresentFields ==
    ASSUME NEW s \in Type, NEW p \in Passes
    PROVE  LET flip == flipping(s, p)
           IN  /\ present(s, p) \in Type
               /\ Same(s, present(s, p))
               /\ present(s, p).loop = s.loop
               /\ present(s, p).flips = s.flips + Cardinality(flip)
               /\ present(s, p).buf = s.buf \cup flip \cup holding(s, p)
               /\ \A o \in Outputs : present(s, p).events[o] =
                     IF o \in flip THEN s.events[o] + 1 ELSE s.events[o]
  <1> DEFINE flip == flipping(s, p)
             ev == [o \in Outputs |->
                      IF o \in flip THEN s.events[o] + 1 ELSE s.events[o]]
             n == s.flips + Cardinality(flip)
             b == s.buf \cup flip \cup holding(s, p)
  <1>1. \A o \in flip : s.events[o] < MaxEvents
    BY DEF flipping
  <1>2. ev \in [Outputs -> 0..MaxEvents]
    BY <1>1, MaxEventsAssumption DEF Type
  <1>3. n \in Int
    BY FlippingFinite DEF Type
  <1>4. b \in SUBSET Outputs
    BY FlippingFinite DEF Type, holding
  <1>5. present(s, p) = [s EXCEPT !.flips = n, !.buf = b, !.events = ev]
    BY DEF present
  <1>6. \A o \in Outputs :
           ev[o] = IF o \in flip THEN s.events[o] + 1 ELSE s.events[o]
    OBVIOUS
  <1> HIDE DEF n, b, ev
  <1>7. /\ present(s, p) \in Type /\ present(s, p).flips = n
        /\ present(s, p).buf = b /\ present(s, p).events = ev
        /\ present(s, p).loop = s.loop
    BY <1>2, <1>3, <1>4, <1>5 DEF Type
  <1>8. Same(s, present(s, p))
    BY <1>5, <1>7 DEF Type, Same
  <1> QED
    BY <1>6, <1>7, <1>8 DEF n, b

(* A new loop for the backend changes nothing else.                        *)
LEMMA LoopReplaced ==
    ASSUME NEW s \in Type, NEW l \in Loop, l.outputs = s.loop.outputs,
           l.scene = s.loop.scene
    PROVE  LET t == [s EXCEPT !.loop = l]
           IN  /\ t \in Type /\ Same(s, t) /\ t.loop = l
               /\ t.flips = s.flips /\ t.buf = s.buf /\ t.events = s.events
  BY DEF Type, Same

(* composite(), member by member.                                          *)
LEMMA CompositeFields ==
    ASSUME NEW s, Sound(s), NEW p \in Passes
    PROVE  LET c == composite(s, p)
               flip == flipping(s, p)
           IN  /\ c \in Type /\ Same(s, c) /\ LoopOk(c.loop) /\ Awake(c.loop)
               /\ c.loop = performCompositing(s.loop, drmFrame(s, p))
               /\ paints(s.loop) =>
                     /\ c.flips = s.flips + Cardinality(flip)
                     /\ c.buf = s.buf \cup flip \cup holding(s, p)
                     /\ \A o \in Outputs : c.events[o] =
                           IF o \in flip THEN s.events[o] + 1 ELSE s.events[o]
               /\ ~paints(s.loop) =>
                     /\ c.flips = s.flips /\ c.buf = s.buf
                     /\ c.events = s.events
  <1> DEFINE l == performCompositing(s.loop, drmFrame(s, p))
             t == IF paints(s.loop) THEN present(s, p) ELSE s
             c == composite(s, p)
  <1>1. s \in Type /\ LoopOk(s.loop)
    BY DEF Sound
  <1>2. LoopOk(l) /\ Awake(l) /\ SameScene(s.loop, l)
    BY <1>1, FrameType, PerformCompositingWakes
  <1>3. l \in Loop /\ l.outputs = s.loop.outputs /\ l.scene = s.loop.scene
    BY <1>2 DEF LoopOk, SameScene
  <1>4. c = [t EXCEPT !.loop = l]
    BY DEF composite
  <1>5. t \in Type /\ Same(s, t) /\ t.loop = s.loop
    BY <1>1, PresentFields DEF Same
  <1> HIDE DEF l, t
  <1>6. /\ c \in Type /\ Same(t, c) /\ c.loop = l
        /\ c.flips = t.flips /\ c.buf = t.buf /\ c.events = t.events
    BY <1>3, <1>4, <1>5, LoopReplaced
  <1> HIDE DEF c
  <1>7. Same(s, c)
    BY <1>5, <1>6 DEF Same
  <1>8. paints(s.loop) => t = present(s, p)
    BY DEF t
  <1>9. ~paints(s.loop) => t = s
    BY DEF t
  <1>10. paints(s.loop) =>
            /\ c.flips = s.flips + Cardinality(flipping(s, p))
            /\ c.buf = s.buf \cup flipping(s, p) \cup holding(s, p)
            /\ \A o \in Outputs : c.events[o] =
                  IF o \in flipping(s, p) THEN s.events[o] + 1 ELSE s.events[o]
    BY <1>1, <1>6, <1>8, PresentFields
  <1> QED
    BY <1>2, <1>6, <1>7, <1>9, <1>10 DEF c, l

(* After a pass the repaint is scheduled, whatever held before.            *)
LEMMA CompositeAlways ==
    ASSUME NEW s, Sound(s), NEW p \in Passes
    PROVE  /\ Always(composite(s, p))
           /\ Same(s, composite(s, p))
           /\ Awake(composite(s, p).loop)
  <1> DEFINE c == composite(s, p)
  <1>1. c \in Type /\ Same(s, c) /\ LoopOk(c.loop) /\ Awake(c.loop)
    BY CompositeFields
  <1> HIDE DEF c
  <1>2. Sound(c)
    BY <1>1 DEF Sound, Same
  <1> QED
    BY <1>1, <1>2 DEF Always, c

(* A pass gives a buffer to an output that flips, and only to such a one   *)
(* while the terminal is ours.                                             *)
LEMMA CompositeInStep ==
    ASSUME NEW s, Sound(s), NEW p \in Passes, InStep(s)
    PROVE  InStep(composite(s, p))
  <1> DEFINE c == composite(s, p)
  <1>1. s \in Type /\ Same(s, c) /\ c \in Type
    BY CompositeFields DEF Sound
  <1>2. CASE paints(s.loop)
    <2>1. /\ c.buf = s.buf \cup flipping(s, p) \cup holding(s, p)
          /\ \A o \in Outputs : c.events[o] =
                IF o \in flipping(s, p) THEN s.events[o] + 1 ELSE s.events[o]
      BY <1>2, CompositeFields
    <2>2. s.vt => holding(s, p) = {}
      BY DEF holding
    <2>3. flipping(s, p) \subseteq Outputs
      BY <1>1, FlippingFinite
    <2> HIDE DEF c
    <2>4. s.vt => \A o \in c.buf : c.events[o] > 0
      <3> SUFFICES ASSUME s.vt, NEW o \in c.buf PROVE c.events[o] > 0
        OBVIOUS
      <3>1. o \in Outputs /\ s.events[o] \in Nat
        BY <1>1 DEF Type
      <3>2. CASE o \in flipping(s, p)
        BY <2>1, <3>1, <3>2
      <3>3. CASE o \notin flipping(s, p)
        BY <2>1, <2>2, <3>1, <3>3 DEF InStep
      <3> QED
        BY <3>2, <3>3
    <2> QED
      BY <1>1, <2>4 DEF InStep, Same, c
  <1>3. CASE ~paints(s.loop)
    <2>1. c.buf = s.buf /\ c.events = s.events
      BY <1>3, CompositeFields
    <2> QED
      BY <1>1, <2>1 DEF InStep, Same
  <1> QED
    BY <1>2, <1>3

(* A pass paints only when no flip is to come; then it announces a swap    *)
(* exactly if an output flips.                                             *)
LEMMA CompositeCounted ==
    ASSUME NEW s, Sound(s), NEW p \in Passes, Counted(s)
    PROVE  Counted(composite(s, p))
  <1> DEFINE c == composite(s, p)
             flip == flipping(s, p)
  <1>1. s \in Type /\ Same(s, c) /\ c \in Type /\ s.on \subseteq s.there
    BY CompositeFields DEF Sound
  <1>2. c.loop.swapPending
           <=> s.loop.swapPending \/ (paints(s.loop) /\ drmFrame(s, p).swap)
    BY FrameType, CompositeFields, PerformCompositingWakes DEF Sound
  <1>3. CASE paints(s.loop)
    <2>1. /\ c.flips = s.flips + Cardinality(flip)
          /\ c.buf = s.buf \cup flip \cup holding(s, p)
          /\ \A o \in Outputs : c.events[o] =
                IF o \in flip THEN s.events[o] + 1 ELSE s.events[o]
      BY <1>3, CompositeFields
    <2>2. ~s.loop.swapPending
      BY <1>3 DEF paints
    <2>3. s.active /\ Cardinality(Busy(s)) = s.flips /\ ~(s.flips > 0)
      BY <2>2, <1>1 DEF Counted, Type
    <2>4. Busy(s) \in SUBSET Outputs
      BY DEF Busy
    <2>5. Busy(s) = {} /\ s.flips = 0
      BY <2>3, <2>4, OutputsAssumption, FS_Subset, FS_EmptySet,
         FS_CardinalityType
    <2>6. \A o \in Outputs : s.events[o] = 0
      BY <1>1, <2>5 DEF Busy, Type
    <2>7. /\ flip \subseteq s.on \cap Outputs
          /\ IsFiniteSet(flip) /\ Cardinality(flip) \in Nat
      BY <1>1, FlippingFinite
    <2>s. drmFrame(s, p).swap <=> s.flips < 1 /\ s.flips + Cardinality(flip) >= 1
      BY DEF drmFrame
    <2>t. drmFrame(s, p).swap <=> Cardinality(flip) > 0
      BY <2>5, <2>7, <2>s
    <2>8. c.loop.swapPending <=> Cardinality(flip) > 0
      BY <1>2, <1>3, <2>2, <2>t
    <2> HIDE DEF c
    <2>9. \A o \in Outputs : c.events[o] = IF o \in flip THEN 1 ELSE 0
      BY <2>1, <2>6
    <2> HIDE DEF flip
    <2>10. Busy(c) = flip
      BY <2>7, <2>9 DEF Busy
    <2>11. OneFlip(c)
      BY <2>1, <2>9 DEF OneFlip
    <2>12. c.active /\ c.flips = Cardinality(flip)
      BY <1>1, <2>1, <2>3, <2>5, <2>7 DEF Same
    <2> QED
      BY <2>8, <2>10, <2>11, <2>12 DEF Counted, c
  <1>4. CASE ~paints(s.loop)
    <2>1. c.flips = s.flips /\ c.buf = s.buf /\ c.events = s.events
      BY <1>4, CompositeFields
    <2>2. c.loop.swapPending <=> s.loop.swapPending
      BY <1>2, <1>4
    <2>3. c.active = s.active /\ c.there = s.there
      BY <1>1 DEF Same
    <2> HIDE DEF c
    <2> QED
      BY <2>1, <2>2, <2>3 DEF Counted, OneFlip, Busy, c
  <1> QED
    BY <1>3, <1>4

(* A pass with a scene fails no assertion, and flips only outputs that     *)
(* are there.                                                              *)
LEMMA CompositeFaultless ==
    ASSUME NEW s, Sound(s), NEW p \in Passes, Faultless(s), s.loop.scene
    PROVE  Faultless(composite(s, p))
  <1> DEFINE c == composite(s, p)
  <1>1. /\ s \in Type /\ Same(s, c) /\ c \in Type /\ s.on \subseteq s.there
        /\ c.loop = performCompositing(s.loop, drmFrame(s, p))
    BY CompositeFields DEF Sound
  <1>2. ~c.loop.fault
    BY <1>1, FrameType, PerformCompositingWakes DEF Sound, Faultless
  <1>3. c.loop.scene
    BY <1>1 DEF Same
  <1>4. Busy(c) \subseteq Busy(s) \cup flipping(s, p)
    <2>1. CASE paints(s.loop)
      <3>1. \A o \in Outputs : c.events[o] =
               IF o \in flipping(s, p) THEN s.events[o] + 1 ELSE s.events[o]
        BY <2>1, CompositeFields
      <3> HIDE DEF c
      <3> QED
        BY <3>1 DEF Busy
    <2>2. CASE ~paints(s.loop)
      <3>1. c.events = s.events
        BY <2>2, CompositeFields
      <3> QED
        BY <3>1 DEF Busy
    <2> QED
      BY <2>1, <2>2
  <1>5. flipping(s, p) \subseteq s.there
    BY <1>1, FlippingFinite
  <1>6. Busy(c) \subseteq c.there
    BY <1>1, <1>4, <1>5 DEF Same, Faultless
  <1> QED
    BY <1>2, <1>3, <1>6 DEF Faultless

(* swapComplete() up to the pass that was waiting for the swap.            *)
swapDone(s, p) ==
    [s EXCEPT !.loop = bufferSwapComplete(
                 [s.loop EXCEPT !.composeAtSwap = FALSE], drmFrame(s, p))]

LEMMA SwapDoneFields ==
    ASSUME NEW s, Sound(s), NEW p \in Passes
    PROVE  LET x == swapDone(s, p)
           IN  /\ Sound(x) /\ Same(s, x)
               /\ x.flips = s.flips /\ x.buf = s.buf /\ x.events = s.events
               /\ ~x.loop.swapPending /\ ~x.loop.composeAtSwap
               /\ x.loop.fault <=> s.loop.fault \/ ~s.loop.swapPending
               /\ s.loop.composeAtSwap => swapComplete(s, p) = composite(x, p)
               /\ ~s.loop.composeAtSwap => /\ swapComplete(s, p) = x
                                           /\ Always(s) => Always(x)
  <1> DEFINE m == bufferSwapComplete([s.loop EXCEPT !.composeAtSwap = FALSE],
                                     drmFrame(s, p))
             x == swapDone(s, p)
  <1>1. s \in Type /\ LoopOk(s.loop) /\ drmFrame(s, p) \in Frame
    BY FrameType DEF Sound
  <1>2. /\ LoopOk(m) /\ SameScene(s.loop, m)
        /\ ~m.swapPending /\ ~m.composeAtSwap
        /\ m.fault <=> s.loop.fault \/ ~s.loop.swapPending
        /\ Awake(s.loop) /\ ~s.loop.composeAtSwap => Awake(m)
    BY <1>1, SwapDone
  <1>3. x = [s EXCEPT !.loop = m]
    BY DEF swapDone
  <1>4. /\ s.loop.composeAtSwap => swapComplete(s, p) = composite(x, p)
        /\ ~s.loop.composeAtSwap => swapComplete(s, p) = x
    BY DEF swapComplete, swapDone
  <1> HIDE DEF m
  <1>5. m \in Loop /\ m.outputs = s.loop.outputs /\ m.scene = s.loop.scene
    BY <1>2 DEF LoopOk, SameScene
  <1>6. /\ x \in Type /\ Same(s, x) /\ x.loop = m
        /\ x.flips = s.flips /\ x.buf = s.buf /\ x.events = s.events
    BY <1>1, <1>3, <1>5, LoopReplaced
  <1> HIDE DEF x
  <1>7. Sound(x)
    BY <1>2, <1>6 DEF Sound, Same
  <1>8. ~s.loop.composeAtSwap /\ Always(s) => Always(x)
    BY <1>2, <1>6, <1>7 DEF Always, Same
  <1> QED
    BY <1>2, <1>4, <1>6, <1>7, <1>8 DEF x

(* The completed swap and the pass it releases keep the loop awake.        *)
LEMMA SwapCompleteAlways ==
    ASSUME NEW s, Always(s), NEW p \in Passes
    PROVE  Always(swapComplete(s, p)) /\ Same(s, swapComplete(s, p))
  <1> DEFINE x == swapDone(s, p)
  <1>1. Sound(s)
    BY DEF Always
  <1>2. Sound(x) /\ Same(s, x)
    BY <1>1, SwapDoneFields
  <1>3. CASE s.loop.composeAtSwap
    <2>1. swapComplete(s, p) = composite(x, p)
      BY <1>1, <1>3, SwapDoneFields
    <2>2. Always(composite(x, p)) /\ Same(x, composite(x, p))
      BY <1>2, CompositeAlways
    <2> QED
      BY <1>2, <2>1, <2>2 DEF Same
  <1>4. CASE ~s.loop.composeAtSwap
    BY <1>1, <1>2, <1>4, SwapDoneFields
  <1> QED
    BY <1>3, <1>4

LEMMA SwapCompleteInStep ==
    ASSUME NEW s, Always(s), NEW p \in Passes, InStep(s)
    PROVE  InStep(swapComplete(s, p))
  <1> DEFINE x == swapDone(s, p)
  <1>1. Sound(s)
    BY DEF Always
  <1>2. Sound(x) /\ Same(s, x) /\ x.buf = s.buf /\ x.events = s.events
    BY <1>1, SwapDoneFields
  <1> HIDE DEF x
  <1>3. InStep(x)
    BY <1>2 DEF InStep, Same
  <1>4. CASE s.loop.composeAtSwap
    <2>1. swapComplete(s, p) = composite(x, p)
      BY <1>1, <1>4, SwapDoneFields DEF x
    <2> QED
      BY <1>2, <1>3, <2>1, CompositeInStep
  <1>5. CASE ~s.loop.composeAtSwap
    <2>1. swapComplete(s, p) = x
      BY <1>1, <1>5, SwapDoneFields DEF x
    <2> QED
      BY <1>3, <2>1
  <1> QED
    BY <1>4, <1>5

(* The swap completes when no flip is to come.                             *)
LEMMA SwapCompleteCounted ==
    ASSUME NEW s, Always(s), NEW p \in Passes,
           OneFlip(s), s.active, s.flips = 0, Busy(s) = {}
    PROVE  Counted(swapComplete(s, p))
  <1> DEFINE x == swapDone(s, p)
  <1>1. Sound(s)
    BY DEF Always
  <1>2. /\ Sound(x) /\ Same(s, x) /\ ~x.loop.swapPending
        /\ x.flips = s.flips /\ x.buf = s.buf /\ x.events = s.events
    BY <1>1, SwapDoneFields
  <1> HIDE DEF x
  <1>3. Counted(x)
    BY <1>2, FS_EmptySet DEF Counted, OneFlip, Busy, Same
  <1>4. CASE s.loop.composeAtSwap
    <2>1. swapComplete(s, p) = composite(x, p)
      BY <1>1, <1>4, SwapDoneFields DEF x
    <2> QED
      BY <1>2, <1>3, <2>1, CompositeCounted
  <1>5. CASE ~s.loop.composeAtSwap
    <2>1. swapComplete(s, p) = x
      BY <1>1, <1>5, SwapDoneFields DEF x
    <2> QED
      BY <1>3, <2>1
  <1> QED
    BY <1>4, <1>5

(* bufferSwapComplete() is called when a swap is pending, and the pass     *)
(* that waits for it has a scene.                                          *)
LEMMA SwapCompleteFaultless ==
    ASSUME NEW s, Always(s), NEW p \in Passes, Faultless(s), s.loop.swapPending
    PROVE  Faultless(swapComplete(s, p))
  <1> DEFINE x == swapDone(s, p)
  <1>1. Sound(s)
    BY DEF Always
  <1>2. /\ Sound(x) /\ Same(s, x) /\ x.events = s.events
        /\ ~x.loop.composeAtSwap
        /\ x.loop.fault <=> s.loop.fault \/ ~s.loop.swapPending
    BY <1>1, SwapDoneFields
  <1> HIDE DEF x
  <1>3. Faultless(x)
    BY <1>2 DEF Faultless, Busy, Same
  <1>4. CASE s.loop.composeAtSwap
    <2>1. swapComplete(s, p) = composite(x, p)
      BY <1>1, <1>4, SwapDoneFields DEF x
    <2>2. x.loop.scene
      BY <1>2, <1>4 DEF Faultless, Same
    <2> QED
      BY <1>2, <1>3, <2>1, <2>2, CompositeFaultless
  <1>5. CASE ~s.loop.composeAtSwap
    <2>1. swapComplete(s, p) = x
      BY <1>1, <1>5, SwapDoneFields DEF x
    <2> QED
      BY <1>3, <2>1
  <1> QED
    BY <1>4, <1>5

-----------------------------------------------------------------------------
(* The session: activate(), reactivate() and deactivate().                 *)

(* A repaint wakes the loop and touches no other part of the invariant.    *)
LEMMA RepaintKeeps ==
    ASSUME NEW s, Sound(s)
    PROVE  LET t == [s EXCEPT !.loop = addRepaint(@)]
           IN  /\ Always(t) /\ Same(s, t)
               /\ InStep(s) => InStep(t)
               /\ Counted(s) => Counted(t)
               /\ Faultless(s) => Faultless(t)
  <1> DEFINE l == addRepaint(s.loop)
             t == [s EXCEPT !.loop = l]
  <1>1. s \in Type /\ LoopOk(s.loop)
    BY DEF Sound
  <1>2. /\ LoopOk(l) /\ Awake(l) /\ SameScene(s.loop, l)
        /\ l.swapPending = s.loop.swapPending
        /\ l.composeAtSwap = s.loop.composeAtSwap
        /\ l.fault = s.loop.fault
    BY <1>1, AddRepaintWakes
  <1> HIDE DEF l
  <1>3. l \in Loop /\ l.outputs = s.loop.outputs /\ l.scene = s.loop.scene
    BY <1>2 DEF LoopOk, SameScene
  <1>4. /\ t \in Type /\ Same(s, t) /\ t.loop = l
        /\ t.flips = s.flips /\ t.buf = s.buf /\ t.events = s.events
    BY <1>1, <1>3, LoopReplaced
  <1> HIDE DEF t
  <1>5. Sound(t)
    BY <1>2, <1>4 DEF Sound, Same
  <1>6. Always(t)
    BY <1>2, <1>4, <1>5 DEF Always
  <1>7. Busy(t) = Busy(s)
    BY <1>4 DEF Busy
  <1>8. InStep(s) => InStep(t)
    BY <1>4 DEF InStep, Same
  <1>9. OneFlip(s) => OneFlip(t)
    BY <1>4 DEF OneFlip, Same
  <1>10. Counted(s) => Counted(t)
    BY <1>2, <1>4, <1>7, <1>9 DEF Counted, Same
  <1>11. Faultless(s) => Faultless(t)
    BY <1>2, <1>4, <1>7 DEF Faultless, Same
  <1> QED
    BY <1>4, <1>6, <1>8, <1>10, <1>11 DEF t, l

(* What a call of reactivate() or deactivate() leaves alone.               *)
SameOutputs(s, t) ==
    /\ t.on = s.on /\ t.there = s.there /\ t.filter = s.filter
    /\ t.vt = s.vt

(* reactivate() of an inactive backend: the members before the loop is     *)
(* restarted.                                                              *)
LEMMA ReactivatedFields ==
    ASSUME NEW s, Always(s), ~s.active
    PROVE  LET t == [s EXCEPT !.active = TRUE, !.buf = {}, !.flips = 0]
           IN  /\ Always(t) /\ SameOutputs(s, t) /\ t.active
               /\ t.buf = {} /\ t.flips = 0 /\ t.events = s.events
               /\ t.loop = s.loop
  <1> DEFINE n == 0
             t == [s EXCEPT !.active = TRUE, !.buf = {}, !.flips = n]
  <1>n. n \in Int
    OBVIOUS
  <1> HIDE DEF n
  <1>1. s \in Type
    BY DEF Always, Sound
  <1>a. t \in Type
    BY <1>1, <1>n DEF Type
  <1>b. t.active /\ t.unseen = s.unseen
    BY <1>1 DEF Type
  <1>c. t.buf = {} /\ t.flips = 0
    BY <1>1 DEF Type, n
  <1>d. t.events = s.events /\ t.loop = s.loop
    BY <1>1 DEF Type
  <1>2. /\ t \in Type /\ t.active
        /\ t.buf = {} /\ t.flips = 0 /\ t.events = s.events
        /\ t.loop = s.loop /\ t.unseen = s.unseen
    BY <1>a, <1>b, <1>c, <1>d
  <1>s. SameOutputs(s, t)
    BY <1>1 DEF Type, SameOutputs
  <1> HIDE DEF t, n
  <1>3. Always(t)
    BY <1>2, <1>s DEF Always, Sound, SameOutputs
  <1> QED
    BY <1>2, <1>3, <1>s DEF t, n

LEMMA ReactivateAlways ==
    ASSUME NEW s, Always(s), NEW p \in Passes
    PROVE  Always(reactivate(s, p)) /\ SameOutputs(s, reactivate(s, p))
  <1>1. CASE s.active
    BY <1>1 DEF reactivate, SameOutputs
  <1>2. CASE ~s.active
    <2> DEFINE t == [s EXCEPT !.active = TRUE, !.buf = {}, !.flips = 0]
               u == swapComplete(t, p)
    <2>1. Always(t) /\ SameOutputs(s, t)
      BY <1>2, ReactivatedFields
    <2> HIDE DEF t
    <2>2. Always(u) /\ Same(t, u)
      BY <2>1, SwapCompleteAlways
    <2>3. reactivate(s, p) = [u EXCEPT !.loop = addRepaint(@)]
      BY <1>2 DEF reactivate, t
    <2> HIDE DEF u
    <2>4. Always(reactivate(s, p)) /\ Same(u, reactivate(s, p))
      BY <2>2, <2>3, RepaintKeeps DEF Always
    <2> QED
      BY <2>1, <2>2, <2>4 DEF Same, SameOutputs
  <1> QED
    BY <1>1, <1>2

(* reactivate() takes the buffers from all outputs.                        *)
LEMMA ReactivateInStep ==
    ASSUME NEW s, Always(s), NEW p \in Passes, s.vt,
           s.active => \A o \in s.buf : s.events[o] > 0
    PROVE  InStep(reactivate(s, p))
  <1>1. CASE s.active
    BY <1>1 DEF reactivate, InStep
  <1>2. CASE ~s.active
    <2> DEFINE t == [s EXCEPT !.active = TRUE, !.buf = {}, !.flips = 0]
               u == swapComplete(t, p)
    <2>1. Always(t) /\ t.active /\ t.buf = {} /\ t.vt
      BY <1>2, ReactivatedFields DEF SameOutputs
    <2> HIDE DEF t
    <2>2. Always(u) /\ InStep(u)
      BY <2>1, SwapCompleteAlways, SwapCompleteInStep DEF InStep
    <2>3. reactivate(s, p) = [u EXCEPT !.loop = addRepaint(@)]
      BY <1>2 DEF reactivate, t
    <2> HIDE DEF u
    <2> QED
      BY <2>2, <2>3, RepaintKeeps DEF Always
  <1> QED
    BY <1>1, <1>2

(* reactivate() completes the swap with which deactivate() blocked the     *)
(* loop, once.                                                             *)
LEMMA ReactivateCounted ==
    ASSUME NEW s, Always(s), NEW p \in Passes, Counted(s)
    PROVE  /\ Counted(reactivate(s, p))
           /\ Faultless(s) => Faultless(reactivate(s, p))
  <1>1. CASE s.active
    BY <1>1 DEF reactivate
  <1>2. CASE ~s.active
    <2> DEFINE t == [s EXCEPT !.active = TRUE, !.buf = {}, !.flips = 0]
               u == swapComplete(t, p)
    <2>1. /\ Always(t) /\ SameOutputs(s, t) /\ t.active
          /\ t.buf = {} /\ t.flips = 0 /\ t.events = s.events
          /\ t.loop = s.loop
      BY <1>2, ReactivatedFields
    <2> HIDE DEF t
    <2>2. Busy(t) = {} /\ s.loop.swapPending
      BY <1>2, <2>1 DEF Busy, Counted
    <2>3. OneFlip(t)
      BY <2>1, <2>2 DEF OneFlip, Counted, Busy
    <2>4. Always(u) /\ Counted(u)
      BY <2>1, <2>2, <2>3, SwapCompleteAlways, SwapCompleteCounted
    <2>5. Faultless(s) => Faultless(t)
      BY <2>1, <2>2 DEF Faultless
    <2>6. Faultless(s) => Faultless(u)
      BY <2>1, <2>2, <2>5, SwapCompleteFaultless
    <2>7. reactivate(s, p) = [u EXCEPT !.loop = addRepaint(@)]
      BY <1>2 DEF reactivate, t
    <2> HIDE DEF u
    <2> QED
      BY <2>4, <2>6, <2>7, RepaintKeeps DEF Always
  <1> QED
    BY <1>1, <1>2

(* deactivate() of an active backend: the loop is blocked by a swap        *)
(* unless flips block it.                                                  *)
LEMMA DeactivateAlways ==
    ASSUME NEW s, Always(s)
    PROVE  /\ Always(deactivate(s)) /\ SameOutputs(s, deactivate(s))
           /\ ~deactivate(s).active
  <1>0. s \in Type /\ LoopOk(s.loop)
    BY DEF Always, Sound
  <1>1. CASE ~s.active
    BY <1>1 DEF deactivate, SameOutputs
  <1>2. CASE s.active
    <2> DEFINE l == IF s.flips = 0 THEN aboutToSwapBuffers(s.loop) ELSE s.loop
               t == [s EXCEPT !.active = FALSE, !.loop = l]
    <2>1. /\ LoopOk(l) /\ SameScene(s.loop, l)
          /\ Awake(s.loop) => Awake(l)
      BY <1>0 DEF aboutToSwapBuffers, LoopOk, Loop, SameScene, HasWork, Awake,
                  Deferred,
                  TimerHasScene
    <2>2. deactivate(s) = t
      BY <1>2 DEF deactivate
    <2> HIDE DEF l
    <2>3. l \in Loop
      BY <2>1 DEF LoopOk
    <2>4. t \in Type /\ t.loop = l
      BY <1>0, <2>3 DEF Type
    <2>5. ~t.active /\ t.unseen = s.unseen
      BY <1>0 DEF Type
    <2>6. SameOutputs(s, t)
      BY <1>0 DEF Type, SameOutputs
    <2> HIDE DEF t
    <2>7. Sound(t)
      BY <2>1, <2>4, <2>5, <2>6 DEF Always, Sound, SameOutputs, SameScene
    <2>8. Always(t)
      BY <2>1, <2>4, <2>5, <2>7 DEF Always
    <2> QED
      BY <2>2, <2>5, <2>6, <2>8
  <1> QED
    BY <1>1, <1>2

(* When no flip is to come no swap is pending either, so deactivate() may  *)
(* announce one.                                                           *)
LEMMA DeactivateCounted ==
    ASSUME NEW s, Always(s), Counted(s), Busy(s) = {}
    PROVE  /\ Counted(deactivate(s))
           /\ Faultless(s) => Faultless(deactivate(s))
  <1>0. s \in Type /\ LoopOk(s.loop)
    BY DEF Always, Sound
  <1>1. CASE ~s.active
    BY <1>1 DEF deactivate
  <1>2. CASE s.active
    <2> DEFINE l == aboutToSwapBuffers(s.loop)
               t == [s EXCEPT !.active = FALSE, !.loop = l]
    <2>1. s.flips = 0 /\ ~s.loop.swapPending
      BY <1>2, FS_EmptySet DEF Counted
    <2>2. /\ l \in Loop /\ l.swapPending /\ l.fault = s.loop.fault
          /\ l.composeAtSwap = s.loop.composeAtSwap /\ l.scene = s.loop.scene
      BY <1>0, <2>1 DEF aboutToSwapBuffers, LoopOk, Loop
    <2>3. deactivate(s) = t
      BY <1>2, <2>1 DEF deactivate
    <2> HIDE DEF l
    <2>4. t.loop = l /\ t.flips = s.flips
      BY <1>0, <2>2 DEF Type
    <2>5. ~t.active
      BY <1>0 DEF Type
    <2>6. t.events = s.events /\ t.buf = s.buf /\ t.there = s.there
      BY <1>0 DEF Type
    <2> HIDE DEF t
    <2>7. Busy(t) = {} /\ OneFlip(t)
      BY <2>6 DEF Counted, OneFlip, Busy
    <2>8. Counted(t)
      BY <2>1, <2>2, <2>4, <2>5, <2>7 DEF Counted
    <2>9. Faultless(s) => Faultless(t)
      BY <2>2, <2>4, <2>6, <2>7 DEF Faultless
    <2> QED
      BY <2>3, <2>8, <2>9
  <1> QED
    BY <1>1, <1>2

-----------------------------------------------------------------------------
(* Page flips.                                                             *)

(* The members pageFlipHandler() changes before it completes a swap.       *)
flipRead(s, o) ==
    [s EXCEPT !.buf = @ \ {o}, !.flips = @ - 1, !.events[o] = @ - 1]

LEMMA FlipReadFields ==
    ASSUME NEW s, Always(s), NEW o \in Outputs, s.events[o] > 0
    PROVE  LET t == flipRead(s, o)
           IN  /\ Always(t) /\ Same(s, t) /\ t.loop = s.loop
               /\ t.flips = s.flips - 1 /\ t.buf = s.buf \ {o}
               /\ \A q \in Outputs : t.events[q] =
                     IF q = o THEN s.events[q] - 1 ELSE s.events[q]
               /\ InStep(s) => InStep(t)
               /\ OneFlip(s) => OneFlip(t) /\ Busy(t) = Busy(s) \ {o}
               /\ Busy(t) \subseteq Busy(s)
  <1> DEFINE t == flipRead(s, o)
             n == s.flips - 1
             b == s.buf \ {o}
             ev == [s.events EXCEPT ![o] = @ - 1]
  <1>0. s \in Type
    BY DEF Always, Sound
  <1>1. s.events \in [Outputs -> 0..MaxEvents] /\ s.flips \in Int
        /\ s.buf \in SUBSET Outputs
    BY <1>0 DEF Type
  <1>2. n \in Int /\ b \in SUBSET Outputs
    BY <1>1
  <1>3. ev \in [Outputs -> 0..MaxEvents]
    BY <1>1, MaxEventsAssumption
  <1>4. \A q \in Outputs :
           ev[q] = IF q = o THEN s.events[q] - 1 ELSE s.events[q]
    BY <1>1
  <1>5. t = [s EXCEPT !.buf = b, !.flips = n, !.events = ev]
    BY DEF flipRead
  <1> HIDE DEF n, b, ev
  <1>6. t \in Type /\ t.loop = s.loop
    BY <1>0, <1>2, <1>3, <1>5 DEF Type
  <1>7. t.flips = n /\ t.buf = b /\ t.events = ev
    BY <1>0, <1>5 DEF Type
  <1>8. Same(s, t)
    BY <1>0, <1>5, <1>6 DEF Type, Same
  <1> HIDE DEF t
  <1>9. Always(t)
    BY <1>6, <1>8 DEF Always, Sound, Same
  <1>10. \A q \in Outputs :
            t.events[q] = IF q = o THEN s.events[q] - 1 ELSE s.events[q]
    BY <1>4, <1>7
  <1>11. t.buf = s.buf \ {o} /\ t.flips = s.flips - 1
    BY <1>7 DEF b, n
  <1>12. InStep(s) => InStep(t)
    <2>1. \A q \in t.buf : q \in s.buf /\ t.events[q] = s.events[q]
      BY <1>1, <1>10, <1>11
    <2> QED
      BY <1>8, <2>1 DEF InStep, Same
  <1>13. Busy(t) \subseteq Busy(s)
    BY <1>1, <1>10 DEF Busy
  <1>14. ASSUME OneFlip(s)
         PROVE  OneFlip(t) /\ Busy(t) = Busy(s) \ {o}
    <2>1. s.events[o] = 1
      BY <1>1, <1>14 DEF OneFlip
    <2>2. \A q \in Outputs : t.events[q] = IF q = o THEN 0 ELSE s.events[q]
      BY <1>10, <2>1
    <2>3. Busy(t) = Busy(s) \ {o}
      BY <2>2 DEF Busy
    <2>4. OneFlip(t)
      BY <1>8, <1>11, <1>14, <2>2 DEF OneFlip, Same
    <2> QED
      BY <2>3, <2>4
  <1> QED
    BY <1>6, <1>8, <1>9, <1>10, <1>11, <1>12, <1>13, <1>14 DEF t

(* pageFlipHandler() completes the swap with the last flip to come.        *)
LEMMA PageFlipHandlerKeeps ==
    ASSUME NEW s, Always(s), NEW o \in Outputs, s.events[o] > 0,
           NEW p \in Passes
    PROVE  LET h == pageFlipHandler(s, o, p)
           IN  /\ Always(h) /\ Same(s, h)
               /\ InStep(s) => InStep(h)
               /\ Counted(s) /\ s.active => Counted(h)
               /\ Counted(s) /\ s.active /\ Faultless(s) => Faultless(h)
  <1> DEFINE t == flipRead(s, o)
             h == pageFlipHandler(s, o, p)
  <1>1. h = IF t.flips = 0 THEN swapComplete(t, p) ELSE t
    BY DEF pageFlipHandler, flipRead
  <1>2. /\ Always(t) /\ Same(s, t) /\ t.loop = s.loop
        /\ t.flips = s.flips - 1
        /\ InStep(s) => InStep(t)
        /\ OneFlip(s) => OneFlip(t) /\ Busy(t) = Busy(s) \ {o}
        /\ Busy(t) \subseteq Busy(s)
    BY FlipReadFields
  <1>3. o \in Busy(s) /\ Busy(s) \in SUBSET Outputs
    BY DEF Busy
  <1>4. IsFiniteSet(Busy(s)) /\ Cardinality(Busy(s)) \in Nat
    BY <1>3, OutputsAssumption, FS_Subset, FS_CardinalityType
  <1>5. Cardinality(Busy(s) \ {o}) = Cardinality(Busy(s)) - 1
    BY <1>3, <1>4, FS_RemoveElement
  <1>6. IsFiniteSet(Busy(s) \ {o}) /\ Cardinality(Busy(s) \ {o}) \in Nat
    BY <1>4, FS_RemoveElement, FS_CardinalityType
  <1> HIDE DEF t, h
  <1>7. Always(h) /\ Same(s, h)
    BY <1>1, <1>2, SwapCompleteAlways DEF Same
  <1>8. InStep(s) => InStep(h)
    BY <1>1, <1>2, SwapCompleteInStep
  <1>9. ASSUME Counted(s), s.active
        PROVE  Counted(h) /\ (Faultless(s) => Faultless(h))
    <2>1. /\ OneFlip(s) /\ s.flips = Cardinality(Busy(s))
          /\ s.loop.swapPending <=> s.flips > 0
      BY <1>9 DEF Counted
    <2>2. /\ OneFlip(t) /\ Busy(t) = Busy(s) \ {o} /\ t.active
          /\ t.flips = Cardinality(Busy(t)) /\ t.flips \in Nat
      BY <1>2, <1>5, <1>6, <1>9, <2>1 DEF Same
    <2>3. s.loop.swapPending
      BY <1>4, <1>5, <1>6, <2>1
    <2>4. Faultless(s) => Faultless(t)
      BY <1>2 DEF Faultless, Same
    <2>5. CASE t.flips = 0
      <3>1. Busy(t) = {}
        BY <1>6, <2>2, <2>5, FS_EmptySet
      <3>2. Counted(h)
        BY <1>1, <1>2, <2>2, <2>5, <3>1, SwapCompleteCounted
      <3>3. Faultless(s) => Faultless(h)
        BY <1>1, <1>2, <2>3, <2>4, <2>5, SwapCompleteFaultless
      <3> QED
        BY <3>2, <3>3
    <2>6. CASE t.flips # 0
      <3>1. t.flips > 0
        BY <2>2, <2>6
      <3>2. Counted(t)
        BY <1>2, <2>2, <2>3, <3>1 DEF Counted
      <3> QED
        BY <1>1, <2>4, <2>6, <3>2
    <2> QED
      BY <2>5, <2>6
  <1> QED
    BY <1>7, <1>8, <1>9 DEF h

-----------------------------------------------------------------------------
(* Outputs that go on and off, come and go.                                *)

(* The members that tell of flips and of the session.                      *)
SameFlips(s, t) ==
    /\ t.vt = s.vt /\ t.active = s.active
    /\ t.flips = s.flips /\ t.buf = s.buf /\ t.events = s.events

(* What a change of the outputs' DPMS modes means to the invariant.        *)
LEMMA OutputsSwitched ==
    ASSUME NEW s, Sound(s), NEW t \in Type, NEW out \in BOOLEAN,
           t.loop = [s.loop EXCEPT !.outputs = out],
           SameFlips(s, t), t.there = s.there, t.unseen = s.unseen,
           t.on \subseteq t.there, ~out => t.on = {}
    PROVE  /\ Sound(t)
           /\ Awake(s.loop) /\ (out => s.loop.outputs) => Awake(t.loop)
           /\ InStep(s) => InStep(t)
           /\ Counted(s) => Counted(t)
           /\ Faultless(s) => Faultless(t)
  <1>0. LoopOk(s.loop) /\ s.loop \in Loop
    BY DEF Sound, LoopOk
  <1>1. /\ t.loop \in Loop /\ t.loop.outputs = out
        /\ t.loop.scene = s.loop.scene /\ t.loop.fault = s.loop.fault
        /\ t.loop.swapPending = s.loop.swapPending
        /\ t.loop.composeAtSwap = s.loop.composeAtSwap
    BY <1>0 DEF Loop
  <1>2. /\ t.loop.timer = s.loop.timer /\ t.loop.flush = s.loop.flush
        /\ t.loop.repaints = s.loop.repaints
        /\ t.loop.starting = s.loop.starting
        /\ t.loop.visible = s.loop.visible
    BY <1>0 DEF Loop
  <1>3. LoopOk(t.loop)
    BY <1>0, <1>1, <1>2 DEF LoopOk, Deferred, TimerHasScene
  <1>4. Sound(t)
    BY <1>1, <1>3 DEF Sound
  <1>5. Awake(s.loop) /\ (out => s.loop.outputs) => Awake(t.loop)
    BY <1>1, <1>2 DEF HasWork, Awake
  <1>6. Busy(t) = Busy(s)
    BY DEF Busy, SameFlips
  <1>7. InStep(s) => InStep(t)
    BY DEF InStep, SameFlips
  <1>8. OneFlip(s) => OneFlip(t)
    BY DEF OneFlip, SameFlips
  <1>9. Counted(s) => Counted(t)
    BY <1>1, <1>6, <1>8 DEF Counted, SameFlips
  <1>10. Faultless(s) => Faultless(t)
    BY <1>1, <1>6 DEF Faultless
  <1> QED
    BY <1>4, <1>5, <1>7, <1>9, <1>10

(* setDpms() off: if the loop had been told that all outputs are off, one  *)
(* could only be on unseen.                                                *)
LEMMA SetDpmsOff ==
    ASSUME NEW s, NEW e, Always(s), NEW o \in s.on
    PROVE  LET t == setDpms(s, o, "Off")
           IN  /\ Always(t)
               /\ InStep(s) => InStep(t)
               /\ Counted(s) => Counted(t)
               /\ Faultless(s) => Faultless(t)
               /\ FilterFollows(s, e) => FilterFollows(t, e)
  <1> DEFINE t == setDpms(s, o, "Off")
             on == s.on \ {o}
             out == on # {}
  <1>0. s \in Type /\ s.loop \in Loop /\ s.on \subseteq s.there
    BY DEF Always, Sound, LoopOk
  <1>1. on \in SUBSET Outputs /\ on \subseteq s.there /\ on # s.there
    BY <1>0 DEF Type
  <1>2. out \in BOOLEAN /\ (~out => on = {})
    OBVIOUS
  <1>3. t = [s EXCEPT !.on = on, !.loop = [s.loop EXCEPT !.outputs = out],
                      !.filter = TRUE]
    BY DEF setDpms
  <1> HIDE DEF out
  <1>4. [s.loop EXCEPT !.outputs = out] \in Loop
    BY <1>0, <1>2 DEF Loop
  <1> HIDE DEF on
  <1>5. t \in Type /\ t.loop = [s.loop EXCEPT !.outputs = out] /\ t.on = on
    BY <1>0, <1>1, <1>3, <1>4 DEF Type
  <1>6. SameFlips(s, t) /\ t.there = s.there /\ t.unseen = s.unseen
    BY <1>0, <1>3 DEF Type, SameFlips
  <1>7. t.filter
    BY <1>0, <1>3 DEF Type
  <1> HIDE DEF t
  <1>8. /\ Sound(t)
        /\ Awake(s.loop) /\ (out => s.loop.outputs) => Awake(t.loop)
        /\ InStep(s) => InStep(t)
        /\ Counted(s) => Counted(t)
        /\ Faultless(s) => Faultless(t)
    BY <1>1, <1>2, <1>5, <1>6, OutputsSwitched DEF Always
  <1>9. ~s.unseen => s.loop.outputs
    BY DEF Always, Sound
  <1>10. Always(t)
    BY <1>6, <1>8, <1>9 DEF Always
  <1>11. FilterFollows(t, e)
    BY <1>1, <1>5, <1>6, <1>7 DEF FilterFollows
  <1> QED
    BY <1>8, <1>10, <1>11 DEF t

(* setDpms() on: a repaint is asked for, and the filter stays while        *)
(* another output is off.                                                  *)
LEMMA SetDpmsOn ==
    ASSUME NEW s, NEW e, Always(s), NEW o \in s.there \ s.on
    PROVE  LET t == setDpms(s, o, "On")
           IN  /\ Always(t)
               /\ InStep(s) => InStep(t)
               /\ Counted(s) => Counted(t)
               /\ Faultless(s) => Faultless(t)
               /\ FilterFollows(s, e) => FilterFollows(t, e)
  <1> DEFINE on == s.on \cup {o}
             out == on # {}
             filter == s.filter /\ on # s.there
             u == [s EXCEPT !.on = on, !.loop = [s.loop EXCEPT !.outputs = out],
                            !.filter = filter]
             t == setDpms(s, o, "On")
  <1>0. s \in Type /\ s.loop \in Loop /\ s.on \subseteq s.there
    BY DEF Always, Sound, LoopOk
  <1>1. on \in SUBSET Outputs /\ on \subseteq s.there
    BY <1>0 DEF Type
  <1>2. out \in BOOLEAN /\ (~out => on = {})
    OBVIOUS
  <1>3. filter \in BOOLEAN
    OBVIOUS
  <1>4. t = [u EXCEPT !.loop = addRepaint(@)]
    <2> DEFINE set == [s EXCEPT !.on = on,
                                !.loop = [s.loop EXCEPT !.outputs = out]]
    <2>1. set.on = on /\ set.there = s.there /\ set.filter = s.filter
      BY <1>0 DEF Type
    <2>2. checkOutputsAreOn(set) = u
      BY <2>1 DEF checkOutputsAreOn
    <2>3. t = [checkOutputsAreOn(set) EXCEPT !.loop = addRepaint(@)]
      BY DEF setDpms
    <2> QED
      BY <2>2, <2>3
  <1> HIDE DEF out
  <1>5. [s.loop EXCEPT !.outputs = out] \in Loop
    BY <1>0, <1>2 DEF Loop
  <1> HIDE DEF on, filter
  <1>6. u \in Type /\ u.loop = [s.loop EXCEPT !.outputs = out] /\ u.on = on
    BY <1>0, <1>1, <1>3, <1>5 DEF Type
  <1>7. SameFlips(s, u) /\ u.there = s.there /\ u.unseen = s.unseen
    BY <1>0 DEF Type, SameFlips
  <1>8. u.filter <=> filter
    BY <1>0, <1>3 DEF Type
  <1> HIDE DEF u, t
  <1>9. /\ Sound(u)
        /\ InStep(s) => InStep(u)
        /\ Counted(s) => Counted(u)
        /\ Faultless(s) => Faultless(u)
    BY <1>1, <1>2, <1>6, <1>7, OutputsSwitched DEF Always
  <1>10. /\ Always(t) /\ Same(u, t)
         /\ InStep(u) => InStep(t)
         /\ Counted(u) => Counted(t)
         /\ Faultless(u) => Faultless(t)
    BY <1>4, <1>9, RepaintKeeps
  <1>11. FilterFollows(s, e) => FilterFollows(u, e)
    BY <1>0, <1>6, <1>7, <1>8 DEF FilterFollows, filter, on
  <1>12. FilterFollows(u, e) => FilterFollows(t, e)
    BY <1>10 DEF FilterFollows, Same
  <1> QED
    BY <1>9, <1>10, <1>11, <1>12 DEF t

(* turnOutputsOn(): the filter may go because every output goes on.        *)
LEMMA TurnOutputsOnKeeps ==
    ASSUME NEW s, NEW e, Always(s), NEW works \in SUBSET Outputs
    PROVE  LET t == turnOutputsOn(s, works)
           IN  /\ Always(t)
               /\ InStep(s) => InStep(t)
               /\ Counted(s) => Counted(t)
               /\ Faultless(s) => Faultless(t)
               /\ works = Outputs => FilterFollows(t, e)
  <1> DEFINE on == s.on \cup (works \cap s.there)
             out == IF on = s.on THEN s.loop.outputs ELSE on # {}
             u == [s EXCEPT !.filter = FALSE, !.on = on,
                            !.loop = [s.loop EXCEPT !.outputs = out]]
             t == turnOutputsOn(s, works)
  <1>0. s \in Type /\ s.loop \in Loop /\ s.on \subseteq s.there
    BY DEF Always, Sound, LoopOk
  <1>1. on \in SUBSET Outputs /\ on \subseteq s.there
    BY <1>0 DEF Type
  <1>2. out \in BOOLEAN /\ (on # s.on => out)
    BY <1>0 DEF Loop
  <1>3. t = IF on = s.on THEN u ELSE [u EXCEPT !.loop = addRepaint(@)]
    BY DEF turnOutputsOn
  <1>4. on = s.on => out = s.loop.outputs
    OBVIOUS
  <1>5. works = Outputs => on = s.there
    BY <1>0 DEF Type
  <1> HIDE DEF out, on
  <1>6. [s.loop EXCEPT !.outputs = out] \in Loop
    BY <1>0, <1>2 DEF Loop
  <1>7. u \in Type /\ u.loop = [s.loop EXCEPT !.outputs = out] /\ u.on = on
    BY <1>0, <1>1, <1>6 DEF Type
  <1>8. SameFlips(s, u) /\ u.there = s.there /\ u.unseen = s.unseen
    BY <1>0 DEF Type, SameFlips
  <1>9. ~u.filter
    BY <1>0 DEF Type
  <1> HIDE DEF u, t
  <1>a. works = Outputs => FilterFollows(u, e)
    BY <1>5, <1>7, <1>8, <1>9 DEF FilterFollows
  <1>b. CASE on = s.on
    <2>1. ~s.unseen /\ ~out => on = {}
      BY <1>4, <1>b DEF Always, Sound
    <2>2. s.loop = [s.loop EXCEPT !.outputs = out]
      BY <1>0, <1>4, <1>b DEF Loop
    <2>3. Sound(u)
      BY <1>1, <1>7, <1>8, <2>1, <2>2 DEF Sound, Always
    <2>4. Always(u)
      BY <1>7, <1>8, <2>2, <2>3 DEF Always
    <2>5. Busy(u) = Busy(s)
      BY <1>8 DEF Busy, SameFlips
    <2>6. /\ InStep(s) => InStep(u)
          /\ OneFlip(s) => OneFlip(u)
      BY <1>8 DEF InStep, OneFlip, SameFlips
    <2>7. /\ Counted(s) => Counted(u)
          /\ Faultless(s) => Faultless(u)
      BY <1>7, <1>8, <2>2, <2>5, <2>6 DEF Counted, Faultless, SameFlips
    <2> QED
      BY <1>3, <1>a, <1>b, <2>4, <2>6, <2>7 DEF t
  <1>c. CASE on # s.on
    <2>1. /\ Sound(u)
          /\ InStep(s) => InStep(u)
          /\ Counted(s) => Counted(u)
          /\ Faultless(s) => Faultless(u)
      BY <1>1, <1>2, <1>7, <1>8, <1>c, OutputsSwitched DEF Always
    <2>2. t = [u EXCEPT !.loop = addRepaint(@)]
      BY <1>3, <1>c
    <2>3. /\ Always(t) /\ Same(u, t)
          /\ InStep(u) => InStep(t)
          /\ Counted(u) => Counted(t)
          /\ Faultless(u) => Faultless(t)
      BY <2>1, <2>2, RepaintKeeps
    <2>4. FilterFollows(u, e) => FilterFollows(t, e)
      BY <2>3 DEF FilterFollows, Same
    <2> QED
      BY <1>a, <2>1, <2>3, <2>4 DEF t
  <1> QED
    BY <1>b, <1>c

(* An output that is deleted takes its buffer with it; a flip of it that   *)
(* is not read yet still counts.                                           *)
LEMMA OutputRemovedKeeps ==
    ASSUME NEW s, NEW e, Always(s), NEW o \in s.there, "hotplug" \in e
    PROVE  LET t == outputRemoved(s, o)
           IN  /\ Always(t)
               /\ InStep(s) => InStep(t)
               /\ Counted(s) => Counted(t)
               /\ Faultless(s) /\ s.events[o] = 0 => Faultless(t)
               /\ FilterFollows(s, e) => FilterFollows(t, e)
  <1> DEFINE t == outputRemoved(s, o)
             there == s.there \ {o}
             on == s.on \ {o}
             b == s.buf \ {o}
  <1>0. s \in Type /\ s.on \subseteq s.there
    BY DEF Always, Sound
  <1>1. /\ there \in SUBSET Outputs /\ on \in SUBSET Outputs
        /\ b \in SUBSET Outputs /\ on \subseteq there
        /\ s.events \in [Outputs -> 0..MaxEvents]
    BY <1>0 DEF Type
  <1>2. on # there => s.on # s.there
    BY <1>0
  <1>3. t = [s EXCEPT !.there = there, !.on = on, !.buf = b]
    BY DEF outputRemoved
  <1> HIDE DEF there, on, b
  <1>4. t \in Type /\ t.there = there /\ t.on = on /\ t.buf = b
    BY <1>0, <1>1, <1>3 DEF Type
  <1>5. /\ t.loop = s.loop /\ t.events = s.events /\ t.flips = s.flips
    BY <1>0, <1>3 DEF Type
  <1>6. /\ t.vt = s.vt /\ t.active = s.active /\ t.unseen = s.unseen
        /\ t.filter = s.filter
    BY <1>0, <1>3 DEF Type
  <1> HIDE DEF t
  <1>7. Sound(t)
    BY <1>1, <1>4, <1>5, <1>6 DEF Always, Sound, on
  <1>8. Always(t)
    BY <1>5, <1>6, <1>7 DEF Always
  <1>9. InStep(s) => InStep(t)
    BY <1>4, <1>5, <1>6 DEF InStep, b
  <1>10. OneFlip(s) => OneFlip(t)
    BY <1>4, <1>5 DEF OneFlip, there, b
  <1>11. Busy(t) = Busy(s)
    BY <1>5 DEF Busy
  <1>12. Counted(s) => Counted(t)
    BY <1>5, <1>6, <1>10, <1>11 DEF Counted
  <1>13. s.events[o] = 0 => o \notin Busy(s)
    BY DEF Busy
  <1>14. Faultless(s) /\ s.events[o] = 0 => Faultless(t)
    BY <1>4, <1>5, <1>11, <1>13 DEF Faultless, there
  <1>15. FilterFollows(s, e) => FilterFollows(t, e)
    BY <1>2, <1>4, <1>6 DEF FilterFollows
  <1> QED
    BY <1>8, <1>9, <1>12, <1>14, <1>15 DEF t

(* A new output is on.  If the loop thinks that all outputs are off, it is *)
(* not told.                                                               *)
LEMMA OutputAddedKeeps ==
    ASSUME NEW s, NEW e, Always(s), NEW o \in Outputs \ s.there,
           s.events[o] = 0, "hotplug" \in e
    PROVE  LET t == outputAdded(s, o)
           IN  /\ Always(t)
               /\ InStep(s) => InStep(t)
               /\ Counted(s) => Counted(t)
               /\ Faultless(s) => Faultless(t)
               /\ FilterFollows(s, e) => FilterFollows(t, e)
  <1> DEFINE t == outputAdded(s, o)
             there == s.there \cup {o}
             on == s.on \cup {o}
             un == s.unseen \/ ~s.loop.outputs
  <1>0. s \in Type /\ s.on \subseteq s.there
    BY DEF Always, Sound
  <1>1. /\ there \in SUBSET Outputs /\ on \in SUBSET Outputs
        /\ on \subseteq there /\ un \in BOOLEAN
    BY <1>0 DEF Type
  <1>2. on # there => s.on # s.there
    BY <1>0
  <1>3. t = [s EXCEPT !.there = there, !.on = on, !.unseen = un]
    BY DEF outputAdded
  <1> HIDE DEF there, on, un
  <1>4. t \in Type /\ t.there = there /\ t.on = on
    BY <1>0, <1>1, <1>3 DEF Type
  <1>5. /\ t.loop = s.loop /\ t.events = s.events /\ t.flips = s.flips
        /\ t.buf = s.buf
    BY <1>0, <1>3 DEF Type
  <1>6. /\ t.vt = s.vt /\ t.active = s.active /\ t.filter = s.filter
    BY <1>0, <1>3 DEF Type
  <1>7. t.unseen <=> un
    BY <1>0, <1>1, <1>3 DEF Type
  <1> HIDE DEF t
  <1>8. Sound(t)
    BY <1>1, <1>4, <1>5, <1>7 DEF Always, Sound, un
  <1>9. Always(t)
    BY <1>5, <1>7, <1>8 DEF Always, un
  <1>10. InStep(s) => InStep(t)
    BY <1>5, <1>6 DEF InStep
  <1>11. OneFlip(s) => OneFlip(t)
    BY <1>4, <1>5 DEF OneFlip, there
  <1>12. Busy(t) = Busy(s)
    BY <1>5 DEF Busy
  <1>13. Counted(s) => Counted(t)
    BY <1>5, <1>6, <1>11, <1>12 DEF Counted
  <1>14. Faultless(s) => Faultless(t)
    BY <1>4, <1>5, <1>12 DEF Faultless, there
  <1>15. FilterFollows(s, e) => FilterFollows(t, e)
    BY <1>2, <1>4, <1>6 DEF FilterFollows
  <1> QED
    BY <1>9, <1>10, <1>13, <1>14, <1>15 DEF t

-----------------------------------------------------------------------------
(* The scene, and what is queued.                                          *)

(* A change of the queues or of the terminal's state in the kernel.        *)
LEMMA QueuesChanged ==
    ASSUME NEW s, NEW e, Good(s, e), NEW t \in Type, SameFlips(s, t),
           t.loop = s.loop, t.there = s.there, t.on = s.on,
           t.filter = s.filter, t.unseen = s.unseen
    PROVE  Good(t, e)
  <1>1. Always(t)
    BY DEF Good, Always, Sound
  <1>2. Busy(t) = Busy(s)
    BY DEF Busy, SameFlips
  <1>3. InStep(s) => InStep(t)
    BY DEF InStep, SameFlips
  <1>4. OneFlip(s) => OneFlip(t)
    BY DEF OneFlip, SameFlips
  <1>5. Counted(s) => Counted(t)
    BY <1>2, <1>4 DEF Counted, SameFlips
  <1>6. Faultless(s) => Faultless(t)
    BY <1>2 DEF Faultless
  <1>7. FilterFollows(s, e) => FilterFollows(t, e)
    BY DEF FilterFollows
  <1> QED
    BY <1>1, <1>3, <1>5, <1>6, <1>7 DEF Good

(* The queues keep their types.                                            *)
LEMMA TailType ==
    ASSUME NEW S, NEW q \in Seq(S), q # <<>>
    PROVE  Tail(q) \in Seq(S)
  OBVIOUS

LEMMA PostedChanged ==
    ASSUME NEW s, NEW e, Good(s, e), NEW q \in Seq({"setup", "turnOutputsOn"})
    PROVE  Good([s EXCEPT !.posted = q], e)
  <1> DEFINE t == [s EXCEPT !.posted = q]
  <1>0. s \in Type
    BY DEF Good, Always, Sound
  <1>1. t \in Type /\ t.loop = s.loop /\ t.there = s.there /\ t.on = s.on
    BY <1>0 DEF Type
  <1>2. SameFlips(s, t) /\ t.filter = s.filter /\ t.unseen = s.unseen
    BY <1>0 DEF Type, SameFlips
  <1> HIDE DEF t
  <1>3. Good(t, e)
    BY <1>1, <1>2, QueuesChanged
  <1> QED
    BY <1>3 DEF t

LEMMA SessionChanged ==
    ASSUME NEW s, NEW e, Good(s, e), NEW q \in Seq(BOOLEAN),
           NEW y \in {"ours", "leaving", "away", "back"}
    PROVE  /\ Good([s EXCEPT !.session = q], e)
           /\ Good([s EXCEPT !.tty = y], e)
           /\ Good([s EXCEPT !.tty = y, !.session = q], e)
  <1>0. s \in Type
    BY DEF Good, Always, Sound
  <1>1. Good([s EXCEPT !.session = q], e)
    <2> DEFINE t == [s EXCEPT !.session = q]
    <2>1. t \in Type /\ t.loop = s.loop /\ t.there = s.there /\ t.on = s.on
      BY <1>0 DEF Type
    <2>2. SameFlips(s, t) /\ t.filter = s.filter /\ t.unseen = s.unseen
      BY <1>0 DEF Type, SameFlips
    <2> HIDE DEF t
    <2>3. Good(t, e)
      BY <2>1, <2>2, QueuesChanged
    <2> QED
      BY <2>3 DEF t
  <1>2. Good([s EXCEPT !.tty = y], e)
    <2> DEFINE t == [s EXCEPT !.tty = y]
    <2>1. t \in Type /\ t.loop = s.loop /\ t.there = s.there /\ t.on = s.on
      BY <1>0 DEF Type
    <2>2. SameFlips(s, t) /\ t.filter = s.filter /\ t.unseen = s.unseen
      BY <1>0 DEF Type, SameFlips
    <2> HIDE DEF t
    <2>3. Good(t, e)
      BY <2>1, <2>2, QueuesChanged
    <2> QED
      BY <2>3 DEF t
  <1>3. Good([s EXCEPT !.tty = y, !.session = q], e)
    <2> DEFINE t == [s EXCEPT !.tty = y, !.session = q]
    <2>1. t \in Type /\ t.loop = s.loop /\ t.there = s.there /\ t.on = s.on
      BY <1>0 DEF Type
    <2>2. SameFlips(s, t) /\ t.filter = s.filter /\ t.unseen = s.unseen
      BY <1>0 DEF Type, SameFlips
    <2> HIDE DEF t
    <2>3. Good(t, e)
      BY <2>1, <2>2, QueuesChanged
    <2> QED
      BY <2>3 DEF t
  <1> QED
    BY <1>1, <1>2, <1>3

(* The parts of the invariant that a pass needs and keeps.                 *)
LEMMA CompositeGood ==
    ASSUME NEW s, NEW e, NEW p \in Passes, Sound(s), s.loop.scene,
           "logindRaces" \notin e => InStep(s),
           NoLateFlip(e) => Counted(s),
           Calm(e) => Faultless(s),
           "dpmsFails" \notin e => FilterFollows(s, e)
    PROVE  Good(composite(s, p), e)
  <1>1. Always(composite(s, p)) /\ Same(s, composite(s, p))
    BY CompositeAlways
  <1>2. FilterFollows(s, e) => FilterFollows(composite(s, p), e)
    BY <1>1 DEF FilterFollows, Same
  <1> QED
    BY <1>1, <1>2, CompositeInStep, CompositeCounted, CompositeFaultless
    DEF Good

(* setup() starts with a full repaint, which wakes the loop.               *)
LEMMA SetupGood ==
    ASSUME NEW s, NEW e, NEW p \in Passes, Good(s, e)
    PROVE  Good(setup(s, p), e)
  <1>1. CASE s.loop.scene
    BY <1>1 DEF setup
  <1>2. CASE ~s.loop.scene
    <2> DEFINE l == [s.loop EXCEPT !.scene = TRUE, !.repaints = TRUE]
               x == [s EXCEPT !.loop = l]
    <2>0. s \in Type /\ LoopOk(s.loop) /\ s.loop \in Loop
      BY DEF Good, Always, Sound, LoopOk
    <2>1. setup(s, p) = composite(x, p)
      <3>1. x = [s EXCEPT !.loop.scene = TRUE, !.loop.repaints = TRUE]
        BY <2>0 DEF Type
      <3> QED
        BY <1>2, <3>1 DEF setup
    <2>2. /\ l \in Loop /\ l.scene /\ l.outputs = s.loop.outputs
          /\ l.swapPending = s.loop.swapPending
          /\ l.composeAtSwap = s.loop.composeAtSwap
          /\ l.fault = s.loop.fault
      BY <2>0 DEF Loop
    <2>3. /\ l.flush = s.loop.flush /\ l.visible = s.loop.visible
          /\ l.starting = s.loop.starting
      BY <2>0 DEF Loop
    <2>4. LoopOk(l)
      BY <2>0, <2>2, <2>3 DEF LoopOk, Deferred, TimerHasScene
    <2> HIDE DEF l
    <2>5. x \in Type /\ x.loop = l /\ SameFlips(s, x)
      BY <2>0, <2>2 DEF Type, SameFlips
    <2>6. /\ x.there = s.there /\ x.on = s.on /\ x.filter = s.filter
          /\ x.unseen = s.unseen
      BY <2>0 DEF Type
    <2> HIDE DEF x
    <2>7. Sound(x)
      BY <2>2, <2>4, <2>5, <2>6 DEF Good, Always, Sound
    <2>8. Busy(x) = Busy(s)
      BY <2>5 DEF Busy, SameFlips
    <2>9. InStep(s) => InStep(x)
      BY <2>5 DEF InStep, SameFlips
    <2>10. OneFlip(s) => OneFlip(x)
      BY <2>5, <2>6 DEF OneFlip, SameFlips
    <2>11. Counted(s) => Counted(x)
      BY <2>2, <2>5, <2>8, <2>10 DEF Counted, SameFlips
    <2>12. Faultless(s) => Faultless(x)
      BY <2>2, <2>5, <2>6, <2>8 DEF Faultless
    <2>13. FilterFollows(s, e) => FilterFollows(x, e)
      BY <2>6 DEF FilterFollows
    <2> QED
      BY <2>1, <2>2, <2>5, <2>7, <2>9, <2>11, <2>12, <2>13, CompositeGood
      DEF Good
  <1> QED
    BY <1>1, <1>2

(* restart() while no swap is pending leaves no pass waiting for one.      *)
LEMMA RestartGood ==
    ASSUME NEW s, NEW e, Good(s, e), Calm(e) => ~s.loop.swapPending
    PROVE  Good(restart(s), e)
  <1> DEFINE n == 0
             l == [s.loop EXCEPT !.scene = FALSE, !.timer = FALSE,
                                 !.repaints = FALSE, !.frames = n]
             q == Append(s.posted, "setup")
             t == restart(s)
  <1>0. s \in Type /\ LoopOk(s.loop) /\ s.loop \in Loop
    BY DEF Good, Always, Sound, LoopOk
  <1>1. n \in 0..2
    OBVIOUS
  <1>2. t = [s EXCEPT !.posted = q, !.loop = l]
    BY DEF restart
  <1> HIDE DEF n
  <1>3. q \in Seq({"setup", "turnOutputsOn"})
    BY <1>0 DEF Type
  <1>4. l \in Loop /\ ~l.scene /\ ~l.timer
    BY <1>0, <1>1 DEF Loop
  <1>5. /\ l.swapPending = s.loop.swapPending /\ l.outputs = s.loop.outputs
        /\ l.composeAtSwap = s.loop.composeAtSwap
        /\ l.fault = s.loop.fault
    BY <1>0 DEF Loop
  <1>6. /\ l.flush = s.loop.flush /\ l.visible = s.loop.visible
        /\ l.starting = s.loop.starting
    BY <1>0 DEF Loop
  <1>7. LoopOk(l) /\ Awake(l)
    BY <1>0, <1>4, <1>5, <1>6 DEF LoopOk, Deferred, TimerHasScene, HasWork,
                                  Awake
  <1> HIDE DEF l, q
  <1>8. t \in Type /\ t.loop = l /\ SameFlips(s, t)
    BY <1>0, <1>2, <1>3, <1>4 DEF Type, SameFlips
  <1>9. /\ t.there = s.there /\ t.on = s.on /\ t.filter = s.filter
        /\ t.unseen = s.unseen
    BY <1>0, <1>2 DEF Type
  <1> HIDE DEF t
  <1>10. Always(t)
    BY <1>5, <1>7, <1>8, <1>9 DEF Good, Always, Sound
  <1>11. Busy(t) = Busy(s)
    BY <1>8 DEF Busy, SameFlips
  <1>12. InStep(s) => InStep(t)
    BY <1>8 DEF InStep, SameFlips
  <1>13. OneFlip(s) => OneFlip(t)
    BY <1>8, <1>9 DEF OneFlip, SameFlips
  <1>14. Counted(s) => Counted(t)
    BY <1>5, <1>8, <1>11, <1>13 DEF Counted, SameFlips
  <1>15. Faultless(s) /\ ~s.loop.swapPending => Faultless(t)
    BY <1>0, <1>5, <1>8, <1>9, <1>11 DEF Faultless, LoopOk, Deferred
  <1>16. FilterFollows(s, e) => FilterFollows(t, e)
    BY <1>9 DEF FilterFollows
  <1> QED
    BY <1>10, <1>12, <1>14, <1>15, <1>16 DEF Good, t

-----------------------------------------------------------------------------
(* The steps.                                                              *)

(* The first state satisfies the invariant.                                *)
LEMMA InitGood == Init => DInv
  <1> SUFFICES ASSUME Init PROVE DInv
    OBVIOUS
  <1> DEFINE n == 0
             l == [scene |-> FALSE, starting |-> FALSE, timer |-> FALSE,
                   repaints |-> FALSE, swapPending |-> FALSE,
                   composeAtSwap |-> FALSE, flush |-> FALSE, visible |-> TRUE,
                   outputs |-> TRUE, frames |-> n, fault |-> FALSE]
             s == [loop |-> l,
                   tty |-> "ours", vt |-> TRUE, session |-> <<>>,
                   active |-> TRUE, flips |-> n, there |-> Outputs, buf |-> {},
                   events |-> NoEvents, on |-> Outputs, filter |-> FALSE,
                   posted |-> <<"setup">>, unseen |-> FALSE]
  <1>1. d = s
    BY DEF Init
  <1>2. n \in 0..2 /\ n \in Int /\ n = 0
    OBVIOUS
  <1> HIDE DEF n
  <1>3. l \in Loop /\ LoopOk(l) /\ Awake(l)
    BY <1>2 DEF Loop, LoopOk, Deferred, TimerHasScene, HasWork, Awake
  <1>4. ~l.fault /\ ~l.composeAtSwap /\ ~l.swapPending /\ l.outputs
    OBVIOUS
  <1> HIDE DEF l
  <1>5. NoEvents \in [Outputs -> 0..MaxEvents]
    BY MaxEventsAssumption DEF NoEvents
  <1>6. <<>> \in Seq(BOOLEAN) /\ <<"setup">> \in Seq({"setup", "turnOutputsOn"})
    OBVIOUS
  <1>7. s \in Type
    BY <1>2, <1>3, <1>5, <1>6 DEF Type
  <1>8. Always(s)
    BY <1>3, <1>4, <1>7 DEF Always, Sound
  <1>9. Busy(s) = {}
    BY DEF Busy, NoEvents
  <1>10. InStep(s)
    BY DEF InStep
  <1>11. OneFlip(s)
    BY DEF OneFlip, NoEvents
  <1>12. FilterFollows(s, env)
    BY DEF FilterFollows
  <1>13. s.active /\ s.flips = n /\ s.loop = l
    OBVIOUS
  <1> HIDE DEF s
  <1>14. Counted(s)
    BY <1>2, <1>4, <1>9, <1>11, <1>13, FS_EmptySet DEF Counted
  <1>15. Faultless(s)
    BY <1>4, <1>9, <1>13 DEF Faultless
  <1> QED
    BY <1>1, <1>8, <1>10, <1>12, <1>14, <1>15 DEF DInv, Good

(* Each step keeps the invariant, in the environment it starts in.         *)
LEMMA RunSetupGood ==
    ASSUME DInv, RunSetup
    PROVE  Good(d', env)
  <1>1. PICK p \in Passes : d' = setup([d EXCEPT !.posted = Tail(@)], p)
    BY DEF RunSetup
  <1>2. Tail(d.posted) \in Seq({"setup", "turnOutputsOn"})
    BY DEF DInv, Good, Always, Sound, Type, RunSetup
  <1> DEFINE s == [d EXCEPT !.posted = Tail(@)]
  <1>3. Good(s, env)
    BY <1>2, PostedChanged DEF DInv
  <1> HIDE DEF s
  <1>4. d' = setup(s, p)
    BY <1>1 DEF s
  <1> QED
    BY <1>3, <1>4, SetupGood

LEMMA RunTurnOutputsOnGood ==
    ASSUME DInv, RunTurnOutputsOn
    PROVE  Good(d', env)
  <1>1. PICK works \in SUBSET Outputs :
           /\ works = Outputs \/ "dpmsFails" \in env
           /\ d' = turnOutputsOn([d EXCEPT !.posted = Tail(@)], works)
    BY DEF RunTurnOutputsOn
  <1>2. Tail(d.posted) \in Seq({"setup", "turnOutputsOn"})
    BY DEF DInv, Good, Always, Sound, Type, RunTurnOutputsOn
  <1> DEFINE s == [d EXCEPT !.posted = Tail(@)]
             t == turnOutputsOn(s, works)
  <1>3. Good(s, env)
    BY <1>2, PostedChanged DEF DInv
  <1> HIDE DEF s
  <1>4. d' = t
    BY <1>1 DEF s
  <1>5. /\ Always(t)
        /\ InStep(s) => InStep(t)
        /\ Counted(s) => Counted(t)
        /\ Faultless(s) => Faultless(t)
        /\ works = Outputs => FilterFollows(t, env)
    BY <1>3, TurnOutputsOnKeeps DEF Good
  <1> HIDE DEF t
  <1>6. Good(t, env)
    BY <1>1, <1>3, <1>5 DEF Good
  <1> QED
    BY <1>4, <1>6

LEMMA DamageGood ==
    ASSUME DInv, Damage
    PROVE  Good(d', env)
  <1> DEFINE t == [d EXCEPT !.loop = addRepaint(@)]
  <1>1. /\ Always(t) /\ Same(d, t)
        /\ InStep(d) => InStep(t)
        /\ Counted(d) => Counted(t)
        /\ Faultless(d) => Faultless(t)
    BY RepaintKeeps DEF DInv, Good, Always
  <1>2. d' = t
    BY DEF Damage
  <1> HIDE DEF t
  <1>3. FilterFollows(d, env) => FilterFollows(t, env)
    BY <1>1 DEF FilterFollows, Same
  <1>4. Good(t, env)
    BY <1>1, <1>3 DEF DInv, Good
  <1> QED
    BY <1>2, <1>4

LEMMA TimerEventGood ==
    ASSUME DInv, TimerEvent
    PROVE  Good(d', env)
  <1>1. PICK p \in Passes : d' = composite(d, p)
    BY DEF TimerEvent
  <1>2. Sound(d) /\ d.loop.scene
    BY DEF TimerEvent, DInv, Good, Always, Sound, LoopOk, TimerHasScene
  <1> QED
    BY <1>1, <1>2, CompositeGood DEF DInv, Good

(* The event of a deleted output marks a fault; if no output goes with a   *)
(* flip under way there is none.                                           *)
LEMMA PageFlipGood ==
    ASSUME DInv, NEW o \in Outputs, PageFlip(o)
    PROVE  Good(d', env)
  <1>1. PICK p \in Passes :
           d' = [pageFlipHandler(d, o, p) EXCEPT
                   !.loop.fault = @ \/ o \notin d.there]
    BY DEF PageFlip
  <1> DEFINE h == pageFlipHandler(d, o, p)
             f == h.loop.fault \/ o \notin d.there
             l == [h.loop EXCEPT !.fault = f]
             t == [h EXCEPT !.loop = l]
  <1>2. /\ Always(h) /\ Same(d, h)
        /\ InStep(d) => InStep(h)
        /\ Counted(d) /\ d.active => Counted(h)
        /\ Counted(d) /\ d.active /\ Faultless(d) => Faultless(h)
    BY PageFlipHandlerKeeps DEF DInv, Good, PageFlip
  <1> HIDE DEF h
  <1>3. h \in Type /\ LoopOk(h.loop) /\ h.loop \in Loop
    BY <1>2 DEF Always, Sound, LoopOk
  <1>4. d' = t
    BY <1>1, <1>3 DEF h, Type
  <1>5. f \in BOOLEAN
    BY <1>3 DEF Loop
  <1>6. o \in d.there => (f <=> h.loop.fault)
    OBVIOUS
  <1> HIDE DEF f
  <1>7. /\ l \in Loop /\ l.fault = f /\ l.scene = h.loop.scene
        /\ l.swapPending = h.loop.swapPending /\ l.outputs = h.loop.outputs
        /\ l.composeAtSwap = h.loop.composeAtSwap
    BY <1>3, <1>5 DEF Loop
  <1>8. /\ l.flush = h.loop.flush /\ l.visible = h.loop.visible
        /\ l.starting = h.loop.starting /\ l.timer = h.loop.timer
        /\ l.repaints = h.loop.repaints
    BY <1>3, <1>5 DEF Loop
  <1>9. LoopOk(l)
    BY <1>3, <1>7, <1>8 DEF LoopOk, Deferred, TimerHasScene
  <1>10. Awake(h.loop) => Awake(l)
    BY <1>7, <1>8 DEF HasWork, Awake
  <1> HIDE DEF l
  <1>11. /\ t \in Type /\ Same(h, t) /\ t.loop = l
         /\ t.flips = h.flips /\ t.buf = h.buf /\ t.events = h.events
    BY <1>3, <1>7, LoopReplaced
  <1> HIDE DEF t
  <1>12. Always(t)
    BY <1>2, <1>9, <1>10, <1>11 DEF Always, Sound, Same
  <1>13. InStep(h) => InStep(t)
    BY <1>11 DEF InStep, Same
  <1>14. Busy(t) = Busy(h)
    BY <1>11 DEF Busy
  <1>15. OneFlip(h) => OneFlip(t)
    BY <1>11 DEF OneFlip, Same
  <1>16. Counted(h) => Counted(t)
    BY <1>7, <1>11, <1>14, <1>15 DEF Counted, Same
  <1>17. Faultless(h) /\ o \in d.there => Faultless(t)
    BY <1>6, <1>7, <1>11, <1>14 DEF Faultless, Same
  <1>18. FilterFollows(d, env) => FilterFollows(t, env)
    BY <1>2, <1>11 DEF FilterFollows, Same
  <1>19. "logindRaces" \notin env => d.active
    BY DEF DInv, Good, InStep, PageFlip
  <1>20. Faultless(d) => o \in d.there
    BY DEF Faultless, Busy, PageFlip
  <1>21. /\ NoLateFlip(env) => "logindRaces" \notin env
         /\ Calm(env) => NoLateFlip(env)
    BY DEF NoLateFlip, Calm
  <1>22. Good(t, env)
    BY <1>2, <1>12, <1>13, <1>16, <1>17, <1>18, <1>19, <1>20, <1>21
    DEF DInv, Good
  <1> QED
    BY <1>4, <1>22

(* m_active of the VirtualTerminal is in no part of the invariant but the  *)
(* one that relates it to the backend's.                                   *)
LEMMA VtChanged ==
    ASSUME NEW s, NEW e, Good(s, e), NEW v \in BOOLEAN,
           NEW y \in {"ours", "leaving", "away", "back"}
    PROVE  LET t == [s EXCEPT !.vt = v, !.tty = y]
           IN  /\ Always(t) /\ t.active = s.active /\ t.buf = s.buf
               /\ t.vt = v
               /\ t.events = s.events /\ Busy(t) = Busy(s)
               /\ NoLateFlip(e) => Counted(t)
               /\ Calm(e) => Faultless(t)
               /\ "dpmsFails" \notin e => FilterFollows(t, e)
  <1> DEFINE t == [s EXCEPT !.vt = v, !.tty = y]
  <1>0. s \in Type
    BY DEF Good, Always, Sound
  <1>1. t \in Type /\ t.loop = s.loop /\ t.vt = v
    BY <1>0 DEF Type
  <1>2. /\ t.flips = s.flips /\ t.buf = s.buf /\ t.events = s.events
        /\ t.active = s.active
    BY <1>0 DEF Type
  <1>3. /\ t.there = s.there /\ t.on = s.on /\ t.filter = s.filter
        /\ t.unseen = s.unseen
    BY <1>0 DEF Type
  <1> HIDE DEF t
  <1>4. Always(t)
    BY <1>1, <1>3 DEF Good, Always, Sound
  <1>5. Busy(t) = Busy(s)
    BY <1>2 DEF Busy
  <1>6. OneFlip(s) => OneFlip(t)
    BY <1>2, <1>3 DEF OneFlip
  <1>7. Counted(s) => Counted(t)
    BY <1>1, <1>2, <1>5, <1>6 DEF Counted
  <1>8. Faultless(s) => Faultless(t)
    BY <1>1, <1>3, <1>5 DEF Faultless
  <1>9. FilterFollows(s, e) => FilterFollows(t, e)
    BY <1>3 DEF FilterFollows
  <1> QED
    BY <1>1, <1>2, <1>4, <1>5, <1>7, <1>8, <1>9 DEF Good, t

LEMMA SwitchWithoutFlip ==
    ASSUME DInv, SwitchAllowed, NoLateFlip(env)
    PROVE  Busy(d) = {}
  <1>1. d.events = NoEvents
    BY DEF SwitchAllowed, NoLateFlip
  <1> QED
    BY <1>1 DEF Busy, NoEvents

(* Leaving the terminal deactivates the backend.                           *)
LEMMA LeaveGood ==
    ASSUME DInv, SwitchAllowed
    PROVE  Good(deactivate([d EXCEPT !.vt = FALSE]), env)
  <1> DEFINE t == [d EXCEPT !.vt = FALSE]
             u == deactivate(t)
  <1>0. d \in Type /\ d.tty \in {"ours", "leaving", "away", "back"}
    BY DEF DInv, Good, Always, Sound, Type
  <1>1. t = [d EXCEPT !.vt = FALSE, !.tty = d.tty]
    BY <1>0 DEF Type
  <1>a. ~t.vt
    BY <1>0 DEF Type
  <1> HIDE DEF t
  <1>b. FALSE \in BOOLEAN
    OBVIOUS
  <1>2. /\ Always(t) /\ Busy(t) = Busy(d)
        /\ NoLateFlip(env) => Counted(t)
        /\ Calm(env) => Faultless(t)
        /\ "dpmsFails" \notin env => FilterFollows(t, env)
    BY <1>0, <1>1, <1>b, VtChanged, Zenon DEF DInv
  <1>3. Always(u) /\ SameOutputs(t, u) /\ ~u.active
    BY <1>2, DeactivateAlways
  <1>4. NoLateFlip(env) => Counted(u) /\ (Faultless(t) => Faultless(u))
    BY <1>2, SwitchWithoutFlip, DeactivateCounted
  <1>5. Calm(env) => NoLateFlip(env)
    BY DEF Calm, NoLateFlip
  <1> HIDE DEF u
  <1>6. InStep(u)
    BY <1>a, <1>3 DEF InStep, SameOutputs
  <1>7. FilterFollows(t, env) => FilterFollows(u, env)
    BY <1>3 DEF FilterFollows, SameOutputs
  <1>8. Good(u, env)
    BY <1>2, <1>3, <1>4, <1>5, <1>6, <1>7 DEF Good
  <1> QED
    BY <1>8 DEF u, t

LEMMA VtActivateGood ==
    ASSUME DInv, VtActivate
    PROVE  Good(d', env)
  <1> DEFINE u == deactivate([d EXCEPT !.vt = FALSE])
  <1>1. Good(u, env)
    BY LeaveGood DEF VtActivate
  <1>2. d' = [u EXCEPT !.tty = "leaving"]
    BY DEF VtActivate
  <1> HIDE DEF u
  <1>3. <<>> \in Seq(BOOLEAN)
    OBVIOUS
  <1> QED
    BY <1>1, <1>2, <1>3, SessionChanged

LEMMA VtReleaseGood ==
    ASSUME DInv, VtRelease
    PROVE  Good(d', env)
  <1> DEFINE u == IF d.vt THEN deactivate([d EXCEPT !.vt = FALSE]) ELSE d
  <1>1. Good(u, env)
    BY LeaveGood DEF VtRelease, DInv
  <1>2. d' = [u EXCEPT !.tty = "away", !.session = Append(u.session, FALSE)]
    BY DEF VtRelease
  <1> HIDE DEF u
  <1>3. Append(u.session, FALSE) \in Seq(BOOLEAN)
    BY <1>1 DEF Good, Always, Sound, Type
  <1> QED
    BY <1>1, <1>2, <1>3, SessionChanged

LEMMA SwitchBackGood ==
    ASSUME DInv, SwitchBack
    PROVE  Good(d', env)
  <1>1. d' = [d EXCEPT !.tty = "back", !.session = Append(d.session, TRUE)]
    BY DEF SwitchBack
  <1>2. Append(d.session, TRUE) \in Seq(BOOLEAN)
    BY DEF DInv, Good, Always, Sound, Type
  <1> QED
    BY <1>1, <1>2, SessionChanged DEF DInv

(* The terminal is ours again: if the backend is still active, so was the  *)
(* terminal.                                                               *)
LEMMA VtAcquireGood ==
    ASSUME DInv, VtAcquire
    PROVE  Good(d', env)
  <1>1. PICK p \in Passes :
           d' = reactivate([d EXCEPT !.vt = TRUE, !.tty = "ours"], p)
    BY DEF VtAcquire
  <1> DEFINE t == [d EXCEPT !.vt = TRUE, !.tty = "ours"]
             u == reactivate(t, p)
  <1>2. /\ Always(t) /\ t.active = d.active /\ t.buf = d.buf /\ t.vt
        /\ t.events = d.events
        /\ NoLateFlip(env) => Counted(t)
        /\ Calm(env) => Faultless(t)
        /\ "dpmsFails" \notin env => FilterFollows(t, env)
    BY VtChanged DEF DInv
  <1>3. d' = u
    BY <1>1
  <1> HIDE DEF t
  <1>4. Always(u) /\ SameOutputs(t, u)
    BY <1>2, ReactivateAlways
  <1>5. "logindRaces" \notin env => InStep(u)
    BY <1>2, ReactivateInStep DEF DInv, Good, InStep
  <1>6. NoLateFlip(env) => Counted(u) /\ (Faultless(t) => Faultless(u))
    BY <1>2, ReactivateCounted
  <1>7. Calm(env) => NoLateFlip(env)
    BY DEF Calm, NoLateFlip
  <1> HIDE DEF u
  <1>8. FilterFollows(t, env) => FilterFollows(u, env)
    BY <1>4 DEF FilterFollows, SameOutputs
  <1>9. Good(u, env)
    BY <1>2, <1>4, <1>5, <1>6, <1>7, <1>8 DEF Good
  <1> QED
    BY <1>3, <1>9

(* logind only repeats what the terminal said, unless it gets ahead of it. *)
LEMMA SessionActiveChangedGood ==
    ASSUME DInv, SessionActiveChanged
    PROVE  Good(d', env)
  <1>0. d.session \in Seq(BOOLEAN) /\ d.session # <<>>
    BY DEF DInv, Good, Always, Sound, Type, SessionActiveChanged
  <1>1. PICK p \in Passes :
           d' = activate([d EXCEPT !.session = Tail(@)], Head(d.session), p)
    BY DEF SessionActiveChanged
  <1> DEFINE t == [d EXCEPT !.session = Tail(@)]
  <1>2. Tail(d.session) \in Seq(BOOLEAN)
    BY <1>0, TailType
  <1>3. Good(t, env)
    BY <1>2, SessionChanged DEF DInv
  <1>4. t.vt = d.vt /\ t.active = d.active
    BY DEF DInv, Good, Always, Sound, Type
  <1>5. d' = activate(t, Head(d.session), p)
    BY <1>1
  <1> HIDE DEF t
  <1>6. CASE "logindRaces" \notin env
    <2>1. d.vt = Head(d.session)
      BY <1>6 DEF SessionActiveChanged
    <2>2. t.active <=> Head(d.session)
      BY <1>3, <1>4, <1>6, <2>1 DEF Good, InStep
    <2>3. d' = t
      BY <1>5, <2>2 DEF activate, reactivate, deactivate
    <2> QED
      BY <1>3, <2>3
  <1>7. CASE "logindRaces" \in env
    <2>1. ~NoLateFlip(env) /\ ~Calm(env)
      BY <1>7 DEF NoLateFlip, Calm
    <2>2. /\ Always(reactivate(t, p)) /\ SameOutputs(t, reactivate(t, p))
          /\ Always(deactivate(t)) /\ SameOutputs(t, deactivate(t))
      BY <1>3, ReactivateAlways, DeactivateAlways DEF Good
    <2>3. Always(d') /\ SameOutputs(t, d')
      BY <1>5, <2>2 DEF activate
    <2>4. FilterFollows(t, env) => FilterFollows(d', env)
      BY <2>3 DEF FilterFollows, SameOutputs
    <2> QED
      BY <1>3, <1>7, <2>1, <2>3, <2>4 DEF Good
  <1> QED
    BY <1>6, <1>7

LEMMA SetDpmsGood ==
    ASSUME DInv, NEW o \in Outputs, SetDpms(o)
    PROVE  Good(d', env)
  <1>1. CASE o \in d.on /\ d' = setDpms(d, o, "Off")
    <2>1. LET t == setDpms(d, o, "Off")
          IN  /\ Always(t)
              /\ InStep(d) => InStep(t)
              /\ Counted(d) => Counted(t)
              /\ Faultless(d) => Faultless(t)
              /\ FilterFollows(d, env) => FilterFollows(t, env)
      BY <1>1, SetDpmsOff DEF DInv, Good
    <2> QED
      BY <1>1, <2>1 DEF DInv, Good
  <1>2. CASE o \in d.there \ d.on /\ d' = setDpms(d, o, "On")
    <2>1. LET t == setDpms(d, o, "On")
          IN  /\ Always(t)
              /\ InStep(d) => InStep(t)
              /\ Counted(d) => Counted(t)
              /\ Faultless(d) => Faultless(t)
              /\ FilterFollows(d, env) => FilterFollows(t, env)
      BY <1>2, SetDpmsOn DEF DInv, Good
    <2> QED
      BY <1>2, <2>1 DEF DInv, Good
  <1> QED
    BY <1>1, <1>2 DEF SetDpms

LEMMA HotPlugGood ==
    ASSUME DInv, NEW o \in Outputs, HotPlug(o)
    PROVE  Good(d', env)
  <1>0. "hotplug" \in env
    BY DEF HotPlug
  <1>1. CASE /\ o \in d.there
             /\ d.events[o] = 0 \/ "flipAtUnplug" \in env
             /\ d' = outputRemoved(d, o)
    <2> DEFINE t == outputRemoved(d, o)
    <2>1. /\ Always(t)
          /\ InStep(d) => InStep(t)
          /\ Counted(d) => Counted(t)
          /\ Faultless(d) /\ d.events[o] = 0 => Faultless(t)
          /\ FilterFollows(d, env) => FilterFollows(t, env)
      BY <1>0, <1>1, OutputRemovedKeeps DEF DInv, Good
    <2>2. Calm(env) => d.events[o] = 0
      BY <1>1 DEF Calm
    <2>3. d' = t
      BY <1>1
    <2> HIDE DEF t
    <2>4. Good(t, env)
      BY <2>1, <2>2 DEF DInv, Good
    <2> QED
      BY <2>3, <2>4
  <1>2. CASE o \notin d.there /\ d.events[o] = 0 /\ d' = outputAdded(d, o)
    <2> DEFINE t == outputAdded(d, o)
    <2>1. /\ Always(t)
          /\ InStep(d) => InStep(t)
          /\ Counted(d) => Counted(t)
          /\ Faultless(d) => Faultless(t)
          /\ FilterFollows(d, env) => FilterFollows(t, env)
      BY <1>0, <1>2, OutputAddedKeeps DEF DInv, Good
    <2>2. d' = t
      BY <1>2
    <2> HIDE DEF t
    <2>3. Good(t, env)
      BY <2>1 DEF DInv, Good
    <2> QED
      BY <2>2, <2>3
  <1> QED
    BY <1>1, <1>2 DEF HotPlug

LEMMA InputWhileOffGood ==
    ASSUME DInv, InputWhileOff
    PROVE  Good(d', env)
  <1>1. d' = [d EXCEPT !.posted = Append(d.posted, "turnOutputsOn")]
    BY DEF InputWhileOff
  <1>2. Append(d.posted, "turnOutputsOn") \in Seq({"setup", "turnOutputsOn"})
    BY DEF DInv, Good, Always, Sound, Type
  <1> QED
    BY <1>1, <1>2, PostedChanged DEF DInv

LEMMA GraphicsResetGood ==
    ASSUME DInv, GraphicsReset
    PROVE  Good(d', env)
  <1>1. d' = restart(d)
    BY DEF GraphicsReset
  <1>2. Calm(env) => ~d.loop.swapPending
    BY DEF GraphicsReset, Calm
  <1> QED
    BY <1>1, <1>2, RestartGood DEF DInv

-----------------------------------------------------------------------------
(* The flips that are counted are to come, in every environment.           *)

(* While the session is active a swap is pending only for a counted flip.  *)
Flying(s) ==
    /\ s.flips <= Cardinality(Flights(s))
    /\ s.active /\ s.loop.swapPending => s.flips >= 1

LEMMA FlightsFinite ==
    ASSUME NEW s
    PROVE  IsFiniteSet(Flights(s)) /\ Cardinality(Flights(s)) \in Nat
  <1>1. IsFiniteSet(1..MaxEvents)
    BY MaxEventsAssumption, FS_Interval
  <1>2. IsFiniteSet(Outputs \X (1..MaxEvents))
    BY <1>1, OutputsAssumption, FS_Product
  <1>3. Flights(s) \subseteq Outputs \X (1..MaxEvents)
    BY DEF Flights
  <1> QED
    BY <1>2, <1>3, FS_Subset, FS_CardinalityType

(* One more event of each of some outputs: as many more flips to come.     *)
LEMMA MoreFlights ==
    ASSUME NEW s \in Type, NEW t \in Type, NEW F \in SUBSET Outputs,
           \A o \in Outputs :
              t.events[o] = IF o \in F THEN s.events[o] + 1 ELSE s.events[o]
    PROVE  Cardinality(Flights(t)) = Cardinality(Flights(s)) + Cardinality(F)
  <1> DEFINE f == [o \in F |-> <<o, s.events[o] + 1>>]
             G == {<<o, s.events[o] + 1>> : o \in F}
  <1>1. \A o \in Outputs :
           s.events[o] \in 0..MaxEvents /\ t.events[o] \in 0..MaxEvents
    BY DEF Type
  <1>2. IsFiniteSet(F)
    BY OutputsAssumption, FS_Subset
  <1>3. IsFiniteSet(G) /\ Cardinality(G) = Cardinality(F)
    <2>1. f \in [F -> G]
      OBVIOUS
    <2>2. \A o, q \in F : f[o] = f[q] => o = q
      OBVIOUS
    <2>3. \A g \in G : \E o \in F : f[o] = g
      OBVIOUS
    <2>4. f \in Bijection(F, G)
      BY <2>1, <2>2, <2>3 DEF Bijection, Injection, Surjection, IsInjective
    <2>5. ExistsBijection(F, G)
      BY <2>4 DEF ExistsBijection
    <2> QED
      BY <1>2, <2>5, FS_Bijection
  <1>4. Flights(t) = Flights(s) \cup G
    <2>1. ASSUME NEW o \in Outputs, NEW n \in 1..MaxEvents
          PROVE  <<o, n>> \in Flights(t)
                    <=> <<o, n>> \in Flights(s) \/ <<o, n>> \in G
      <3>1. <<o, n>> \in Flights(t) <=> n <= t.events[o]
        BY DEF Flights
      <3>2. <<o, n>> \in Flights(s) <=> n <= s.events[o]
        BY DEF Flights
      <3>3. <<o, n>> \in G <=> o \in F /\ n = s.events[o] + 1
        OBVIOUS
      <3> HIDE DEF G
      <3>4. n <= t.events[o]
               <=> n <= s.events[o] \/ (o \in F /\ n = s.events[o] + 1)
        BY <1>1
      <3> QED
        BY <3>1, <3>2, <3>3, <3>4
    <2>2. G \subseteq Outputs \X (1..MaxEvents)
      <3> SUFFICES ASSUME NEW o \in F
                   PROVE  <<o, s.events[o] + 1>> \in Outputs \X (1..MaxEvents)
        OBVIOUS
      <3>1. t.events[o] = s.events[o] + 1 /\ o \in Outputs
        OBVIOUS
      <3>2. s.events[o] + 1 \in 1..MaxEvents
        BY <1>1, <3>1, MaxEventsAssumption
      <3> QED
        BY <3>1, <3>2
    <2>3. /\ Flights(t) \subseteq Outputs \X (1..MaxEvents)
          /\ Flights(s) \subseteq Outputs \X (1..MaxEvents)
      BY DEF Flights
    <2> HIDE DEF G
    <2> QED
      BY <2>1, <2>2, <2>3
  <1>5. Flights(s) \cap G = {}
    <2> SUFFICES ASSUME NEW o \in F, <<o, s.events[o] + 1>> \in Flights(s)
                 PROVE  FALSE
      OBVIOUS
    <2>1. s.events[o] + 1 <= s.events[o]
      BY DEF Flights
    <2> QED
      BY <1>1, <2>1
  <1> HIDE DEF G
  <1>6. Cardinality(Flights(s) \cup G)
           = Cardinality(Flights(s)) + Cardinality(G) - Cardinality({})
    BY <1>3, <1>5, FlightsFinite, FS_Union
  <1>7. Cardinality(F) \in Nat
    BY <1>2, FS_CardinalityType
  <1> QED
    BY <1>3, <1>4, <1>6, <1>7, FlightsFinite, FS_EmptySet

(* A step that neither flips nor announces a swap keeps the flips counted. *)
LEMMA FlyingSame ==
    ASSUME NEW s, NEW t, Flying(s), t.flips = s.flips, t.events = s.events,
           t.active /\ t.loop.swapPending => s.active /\ s.loop.swapPending
    PROVE  Flying(t)
  <1>1. Flights(t) = Flights(s)
    BY DEF Flights
  <1> QED
    BY <1>1 DEF Flying

LEMMA RepaintFlying ==
    ASSUME NEW s, Sound(s), Flying(s)
    PROVE  Flying([s EXCEPT !.loop = addRepaint(@)])
  <1> DEFINE l == addRepaint(s.loop)
             t == [s EXCEPT !.loop = l]
  <1>1. s \in Type /\ LoopOk(s.loop)
    BY DEF Sound
  <1>2. l.swapPending = s.loop.swapPending
    BY <1>1, AddRepaintWakes
  <1> HIDE DEF l
  <1>3. /\ t.loop = l /\ t.flips = s.flips /\ t.events = s.events
        /\ t.active = s.active
    BY <1>1 DEF Type
  <1> HIDE DEF t
  <1>4. Flying(t)
    BY <1>2, <1>3, FlyingSame
  <1> QED
    BY <1>4 DEF t, l

(* A pass announces a swap if it counts a flip.                            *)
LEMMA CompositeFlying ==
    ASSUME NEW s, Sound(s), NEW p \in Passes, Flying(s)
    PROVE  Flying(composite(s, p))
  <1> DEFINE c == composite(s, p)
             flip == flipping(s, p)
  <1>1. s \in Type /\ Same(s, c) /\ c \in Type
    BY CompositeFields DEF Sound
  <1>2. c.loop.swapPending
           <=> s.loop.swapPending \/ (paints(s.loop) /\ drmFrame(s, p).swap)
    BY FrameType, CompositeFields, PerformCompositingWakes DEF Sound
  <1>3. CASE paints(s.loop)
    <2>1. /\ c.flips = s.flips + Cardinality(flip)
          /\ \A o \in Outputs : c.events[o] =
                IF o \in flip THEN s.events[o] + 1 ELSE s.events[o]
      BY <1>3, CompositeFields
    <2>2. ~s.loop.swapPending
      BY <1>3 DEF paints
    <2>3. flip \in SUBSET Outputs /\ Cardinality(flip) \in Nat
      BY <1>1, FlippingFinite
    <2>4. drmFrame(s, p).swap => s.flips + Cardinality(flip) >= 1
      BY DEF drmFrame
    <2> HIDE DEF c, flip
    <2>5. Cardinality(Flights(c)) = Cardinality(Flights(s)) + Cardinality(flip)
      BY <1>1, <2>1, <2>3, MoreFlights
    <2>6. s.flips \in Int /\ Cardinality(Flights(s)) \in Nat
      BY <1>1, FlightsFinite DEF Type
    <2>7. c.flips <= Cardinality(Flights(c))
      BY <2>1, <2>3, <2>5, <2>6 DEF Flying
    <2>8. c.loop.swapPending => c.flips >= 1
      BY <1>2, <2>1, <2>2, <2>4
    <2>9. Flying(c)
      BY <2>7, <2>8 DEF Flying
    <2> QED
      BY <2>9 DEF c
  <1>4. CASE ~paints(s.loop)
    <2>1. c.flips = s.flips /\ c.events = s.events
      BY <1>4, CompositeFields
    <2>2. c.loop.swapPending <=> s.loop.swapPending
      BY <1>2, <1>4
    <2>3. c.active = s.active
      BY <1>1 DEF Same
    <2> HIDE DEF c
    <2>4. Flying(c)
      BY <2>1, <2>2, <2>3, FlyingSame
    <2> QED
      BY <2>4 DEF c
  <1> QED
    BY <1>3, <1>4

LEMMA SwapCompleteFlying ==
    ASSUME NEW s, Sound(s), NEW p \in Passes,
           s.flips <= Cardinality(Flights(s))
    PROVE  Flying(swapComplete(s, p))
  <1> DEFINE x == swapDone(s, p)
  <1>1. /\ Sound(x) /\ ~x.loop.swapPending
        /\ x.flips = s.flips /\ x.events = s.events
        /\ s.loop.composeAtSwap => swapComplete(s, p) = composite(x, p)
        /\ ~s.loop.composeAtSwap => swapComplete(s, p) = x
    BY SwapDoneFields
  <1> HIDE DEF x
  <1>2. Flights(x) = Flights(s)
    BY <1>1 DEF Flights
  <1>3. Flying(x)
    BY <1>1, <1>2 DEF Flying
  <1> QED
    BY <1>1, <1>3, CompositeFlying

(* reactivate() counts from zero; the flips still under way come all the   *)
(* same.                                                                   *)
LEMMA ReactivateFlying ==
    ASSUME NEW s, Always(s), NEW p \in Passes, Flying(s)
    PROVE  Flying(reactivate(s, p))
  <1>1. CASE s.active
    BY <1>1 DEF reactivate
  <1>2. CASE ~s.active
    <2> DEFINE t == [s EXCEPT !.active = TRUE, !.buf = {}, !.flips = 0]
               u == swapComplete(t, p)
    <2>1. Always(t) /\ t.flips = 0
      BY <1>2, ReactivatedFields
    <2> HIDE DEF t
    <2>2. t.flips <= Cardinality(Flights(t))
      BY <2>1, FlightsFinite
    <2>3. Flying(u) /\ Always(u)
      BY <2>1, <2>2, SwapCompleteFlying, SwapCompleteAlways DEF Always
    <2>4. reactivate(s, p) = [u EXCEPT !.loop = addRepaint(@)]
      BY <1>2 DEF reactivate, t
    <2> HIDE DEF u
    <2> QED
      BY <2>3, <2>4, RepaintFlying DEF Always
  <1> QED
    BY <1>1, <1>2

LEMMA DeactivateFlying ==
    ASSUME NEW s, Always(s), Flying(s)
    PROVE  Flying(deactivate(s))
  <1>1. CASE ~s.active
    BY <1>1 DEF deactivate
  <1>2. CASE s.active
    <2> DEFINE l == IF s.flips = 0 THEN aboutToSwapBuffers(s.loop) ELSE s.loop
               t == [s EXCEPT !.active = FALSE, !.loop = l]
    <2>0. s \in Type
      BY DEF Always, Sound
    <2>1. deactivate(s) = t
      BY <1>2 DEF deactivate
    <2> HIDE DEF l
    <2>2. t.flips = s.flips /\ t.events = s.events /\ ~t.active
      BY <2>0 DEF Type
    <2> HIDE DEF t
    <2>3. Flying(t)
      BY <2>2, FlyingSame
    <2> QED
      BY <2>1, <2>3
  <1> QED
    BY <1>1, <1>2

(* The handler counts down by one the event it has read.                   *)
LEMMA PageFlipHandlerFlying ==
    ASSUME NEW s, Always(s), NEW o \in Outputs, s.events[o] > 0,
           NEW p \in Passes, Flying(s)
    PROVE  Flying(pageFlipHandler(s, o, p))
  <1> DEFINE t == flipRead(s, o)
  <1>1. pageFlipHandler(s, o, p) = IF t.flips = 0 THEN swapComplete(t, p) ELSE t
    BY DEF pageFlipHandler, flipRead
  <1>2. /\ Always(t) /\ Same(s, t) /\ t.loop = s.loop
        /\ t.flips = s.flips - 1
        /\ \A q \in Outputs : t.events[q] =
              IF q = o THEN s.events[q] - 1 ELSE s.events[q]
    BY FlipReadFields
  <1> HIDE DEF t
  <1>3. s \in Type /\ t \in Type
    BY <1>2 DEF Always, Sound
  <1>4. \A q \in Outputs :
           s.events[q] = IF q \in {o} THEN t.events[q] + 1 ELSE t.events[q]
    BY <1>2, <1>3 DEF Type
  <1>5. Cardinality(Flights(s)) = Cardinality(Flights(t)) + Cardinality({o})
    BY <1>3, <1>4, MoreFlights
  <1>6. Cardinality({o}) = 1
    BY FS_Singleton
  <1>7. s.flips \in Int /\ Cardinality(Flights(t)) \in Nat
    BY <1>3, FlightsFinite DEF Type
  <1>8. t.flips <= Cardinality(Flights(t))
    BY <1>2, <1>5, <1>6, <1>7 DEF Flying
  <1>9. CASE t.flips = 0
    BY <1>1, <1>2, <1>8, <1>9, SwapCompleteFlying DEF Always
  <1>10. CASE t.flips # 0
    <2>1. t.active /\ t.loop.swapPending => t.flips >= 1
      BY <1>2, <1>7, <1>10 DEF Flying, Same
    <2> QED
      BY <1>1, <1>8, <1>10, <2>1 DEF Flying
  <1> QED
    BY <1>9, <1>10

(* Outputs that are switched neither flip nor announce a swap.             *)
LEMMA SwitchedFlying ==
    ASSUME NEW s, Sound(s), NEW on \in SUBSET Outputs, on \subseteq s.there,
           NEW out \in BOOLEAN, ~s.unseen /\ ~out => on = {},
           NEW filter \in BOOLEAN, Flying(s)
    PROVE  LET u == [s EXCEPT !.on = on, !.filter = filter,
                              !.loop = [s.loop EXCEPT !.outputs = out]]
           IN  Flying(u) /\ Flying([u EXCEPT !.loop = addRepaint(@)])
  <1> DEFINE l == [s.loop EXCEPT !.outputs = out]
             u == [s EXCEPT !.on = on, !.filter = filter, !.loop = l]
  <1>0. s \in Type /\ s.loop \in Loop /\ LoopOk(s.loop)
    BY DEF Sound, LoopOk
  <1>1. /\ l \in Loop /\ l.swapPending = s.loop.swapPending
        /\ l.outputs = out /\ LoopOk(l)
    BY <1>0 DEF Loop, LoopOk, Deferred, TimerHasScene
  <1> HIDE DEF l
  <1>2. /\ u \in Type /\ u.loop = l /\ u.flips = s.flips
        /\ u.events = s.events /\ u.active = s.active
        /\ u.on = on /\ u.there = s.there /\ u.unseen = s.unseen
    BY <1>0, <1>1 DEF Type
  <1> HIDE DEF u
  <1>3. Sound(u)
    BY <1>1, <1>2 DEF Sound
  <1>4. Flying(u)
    BY <1>1, <1>2, FlyingSame
  <1>5. Flying([u EXCEPT !.loop = addRepaint(@)])
    BY <1>3, <1>4, RepaintFlying
  <1> QED
    BY <1>4, <1>5 DEF u, l

LEMMA SetDpmsFlying ==
    ASSUME DInv, Flying(d), NEW o \in Outputs, SetDpms(o)
    PROVE  Flying(d')
  <1>0. Sound(d) /\ d \in Type /\ d.on \subseteq d.there
    BY DEF DInv, Good, Always, Sound
  <1>1. CASE o \in d.on /\ d' = setDpms(d, o, "Off")
    <2> DEFINE on == d.on \ {o}
               out == on # {}
               u == [d EXCEPT !.on = on, !.filter = TRUE,
                              !.loop = [d.loop EXCEPT !.outputs = out]]
    <2>1. on \in SUBSET Outputs /\ on \subseteq d.there
      BY <1>0 DEF Type
    <2>2. out \in BOOLEAN /\ (~out => on = {})
      OBVIOUS
    <2>3. d' = u
      BY <1>1 DEF setDpms
    <2> HIDE DEF on, out
    <2>4. Flying(u)
      BY <1>0, <2>1, <2>2, SwitchedFlying
    <2> QED
      BY <2>3, <2>4
  <1>2. CASE o \in d.there \ d.on /\ d' = setDpms(d, o, "On")
    <2> DEFINE on == d.on \cup {o}
               out == on # {}
               filter == d.filter /\ on # d.there
               u == [d EXCEPT !.on = on, !.filter = filter,
                              !.loop = [d.loop EXCEPT !.outputs = out]]
    <2>1. on \in SUBSET Outputs /\ on \subseteq d.there
      BY <1>0, <1>2 DEF Type
    <2>2. out \in BOOLEAN /\ filter \in BOOLEAN /\ (~out => on = {})
      OBVIOUS
    <2>3. d' = [u EXCEPT !.loop = addRepaint(@)]
      <3> DEFINE set == [d EXCEPT !.on = on,
                                  !.loop = [d.loop EXCEPT !.outputs = out]]
      <3>1. set.on = on /\ set.there = d.there /\ set.filter = d.filter
        BY <1>0 DEF Type
      <3>2. checkOutputsAreOn(set) = u
        BY <3>1 DEF checkOutputsAreOn
      <3>3. d' = [checkOutputsAreOn(set) EXCEPT !.loop = addRepaint(@)]
        BY <1>2 DEF setDpms
      <3> QED
        BY <3>2, <3>3
    <2> HIDE DEF on, out, filter
    <2>4. Flying([u EXCEPT !.loop = addRepaint(@)])
      BY <1>0, <2>1, <2>2, SwitchedFlying
    <2> QED
      BY <2>3, <2>4
  <1> QED
    BY <1>1, <1>2 DEF SetDpms

LEMMA RunTurnOutputsOnFlying ==
    ASSUME DInv, Flying(d), RunTurnOutputsOn
    PROVE  Flying(d')
  <1>1. PICK works \in SUBSET Outputs :
           d' = turnOutputsOn([d EXCEPT !.posted = Tail(@)], works)
    BY DEF RunTurnOutputsOn
  <1>2. Tail(d.posted) \in Seq({"setup", "turnOutputsOn"})
    BY DEF DInv, Good, Always, Sound, Type, RunTurnOutputsOn
  <1> DEFINE s == [d EXCEPT !.posted = Tail(@)]
             on == s.on \cup (works \cap s.there)
             out == IF on = s.on THEN s.loop.outputs ELSE on # {}
             u == [s EXCEPT !.on = on, !.filter = FALSE,
                            !.loop = [s.loop EXCEPT !.outputs = out]]
  <1>3. Good(s, env)
    BY <1>2, PostedChanged DEF DInv
  <1>4. /\ s.flips = d.flips /\ s.events = d.events /\ s.loop = d.loop
        /\ s.active = d.active
    BY DEF DInv, Good, Always, Sound, Type
  <1> HIDE DEF s
  <1>5. Sound(s) /\ s \in Type /\ s.loop \in Loop /\ s.on \subseteq s.there
    BY <1>3 DEF Good, Always, Sound, LoopOk
  <1>6. Flying(s)
    BY <1>4, FlyingSame
  <1>7. on \in SUBSET Outputs /\ on \subseteq s.there
    BY <1>5 DEF Type
  <1>8. out \in BOOLEAN /\ (~s.unseen /\ ~out => on = {})
    BY <1>5 DEF Sound, Loop
  <1>9. d' = u \/ d' = [u EXCEPT !.loop = addRepaint(@)]
    BY <1>1 DEF turnOutputsOn, s
  <1> HIDE DEF on, out
  <1>10. Flying(u) /\ Flying([u EXCEPT !.loop = addRepaint(@)])
    BY <1>5, <1>6, <1>7, <1>8, SwitchedFlying
  <1> HIDE DEF u
  <1> QED
    BY <1>9, <1>10

LEMMA HotPlugFlying ==
    ASSUME DInv, Flying(d), NEW o \in Outputs, HotPlug(o)
    PROVE  Flying(d')
  <1>0. d \in Type
    BY DEF DInv, Good, Always, Sound
  <1>1. d' = outputRemoved(d, o) \/ d' = outputAdded(d, o)
    BY DEF HotPlug
  <1>2. /\ d'.flips = d.flips /\ d'.events = d.events /\ d'.loop = d.loop
        /\ d'.active = d.active
    BY <1>0, <1>1 DEF outputRemoved, outputAdded, Type
  <1> QED
    BY <1>2, FlyingSame

(* A new scene starts with a pass; finish() leaves the pending swap alone. *)
LEMMA RunSetupFlying ==
    ASSUME DInv, Flying(d), RunSetup
    PROVE  Flying(d')
  <1>1. PICK p \in Passes : d' = setup([d EXCEPT !.posted = Tail(@)], p)
    BY DEF RunSetup
  <1>2. Tail(d.posted) \in Seq({"setup", "turnOutputsOn"})
    BY DEF DInv, Good, Always, Sound, Type, RunSetup
  <1> DEFINE s == [d EXCEPT !.posted = Tail(@)]
             l == [s.loop EXCEPT !.scene = TRUE, !.repaints = TRUE]
             x == [s EXCEPT !.loop = l]
  <1>3. Good(s, env)
    BY <1>2, PostedChanged DEF DInv
  <1>4. /\ s.flips = d.flips /\ s.events = d.events /\ s.loop = d.loop
        /\ s.active = d.active
    BY DEF DInv, Good, Always, Sound, Type
  <1> HIDE DEF s
  <1>5. Sound(s) /\ s \in Type /\ LoopOk(s.loop) /\ s.loop \in Loop
    BY <1>3 DEF Good, Always, Sound, LoopOk
  <1>6. Flying(s)
    BY <1>4, FlyingSame
  <1>7. d' = s \/ d' = composite(x, p)
    BY <1>1, <1>5 DEF setup, s, Type
  <1>8. /\ l \in Loop /\ l.outputs = s.loop.outputs /\ LoopOk(l)
        /\ l.swapPending = s.loop.swapPending
    BY <1>5 DEF Loop, LoopOk, Deferred, TimerHasScene
  <1> HIDE DEF l
  <1>9. /\ x \in Type /\ x.loop = l /\ x.flips = s.flips
        /\ x.events = s.events /\ x.active = s.active
        /\ x.on = s.on /\ x.there = s.there /\ x.unseen = s.unseen
    BY <1>5, <1>8 DEF Type
  <1> HIDE DEF x
  <1>10. Sound(x) /\ Flying(x)
    BY <1>5, <1>6, <1>8, <1>9, FlyingSame DEF Sound
  <1> QED
    BY <1>6, <1>7, <1>10, CompositeFlying

LEMMA GraphicsResetFlying ==
    ASSUME DInv, Flying(d), GraphicsReset
    PROVE  Flying(d')
  <1>0. d \in Type /\ d.loop \in Loop
    BY DEF DInv, Good, Always, Sound, LoopOk
  <1> DEFINE l == [d.loop EXCEPT !.scene = FALSE, !.timer = FALSE,
                                 !.repaints = FALSE, !.frames = 0]
             q == Append(d.posted, "setup")
  <1>1. d' = [d EXCEPT !.posted = q, !.loop = l]
    BY DEF GraphicsReset, restart
  <1>2. l.swapPending = d.loop.swapPending
    BY <1>0 DEF Loop
  <1> HIDE DEF l, q
  <1>3. /\ d'.flips = d.flips /\ d'.events = d.events /\ d'.loop = l
        /\ d'.active = d.active
    BY <1>0, <1>1 DEF Type
  <1> QED
    BY <1>2, <1>3, FlyingSame

LEMMA DamageFlying ==
    ASSUME DInv, Flying(d), Damage
    PROVE  Flying(d')
  BY RepaintFlying DEF Damage, DInv, Good, Always

LEMMA TimerEventFlying ==
    ASSUME DInv, Flying(d), TimerEvent
    PROVE  Flying(d')
  BY CompositeFlying DEF TimerEvent, DInv, Good, Always

LEMMA PageFlipFlying ==
    ASSUME DInv, Flying(d), NEW o \in Outputs, PageFlip(o)
    PROVE  Flying(d')
  <1>1. PICK p \in Passes :
           d' = [pageFlipHandler(d, o, p) EXCEPT
                   !.loop.fault = @ \/ o \notin d.there]
    BY DEF PageFlip
  <1> DEFINE h == pageFlipHandler(d, o, p)
  <1>2. Always(h) /\ Flying(h)
    BY PageFlipHandlerKeeps, PageFlipHandlerFlying DEF DInv, Good, PageFlip
  <1> HIDE DEF h
  <1>3. h \in Type /\ h.loop \in Loop
    BY <1>2 DEF Always, Sound, LoopOk
  <1>4. /\ d'.flips = h.flips /\ d'.events = h.events
        /\ d'.active = h.active /\ d'.loop.swapPending = h.loop.swapPending
    BY <1>1, <1>3 DEF Type, Loop, h
  <1> QED
    BY <1>2, <1>4, FlyingSame

(* The session's switches: deactivate(), reactivate(), or queues only.     *)
LEMMA SessionFlying ==
    ASSUME DInv, Flying(d),
           \/ VtActivate \/ VtRelease \/ SwitchBack \/ VtAcquire
           \/ SessionActiveChanged \/ InputWhileOff
    PROVE  Flying(d')
  <1>0. d \in Type /\ Always(d)
    BY DEF DInv, Good, Always, Sound
  <1>1. ASSUME NEW v \in BOOLEAN, NEW y \in {"ours", "leaving", "away", "back"},
               NEW q \in Seq(BOOLEAN)
        PROVE  LET t == [d EXCEPT !.vt = v, !.tty = y, !.session = q]
               IN  Always(t) /\ Flying(t)
    <2> DEFINE t == [d EXCEPT !.vt = v, !.tty = y, !.session = q]
    <2>1. /\ t \in Type /\ t.loop = d.loop /\ t.flips = d.flips
          /\ t.events = d.events /\ t.active = d.active
          /\ t.on = d.on /\ t.there = d.there /\ t.unseen = d.unseen
      BY <1>0 DEF Type
    <2> HIDE DEF t
    <2>2. Always(t) /\ Flying(t)
      BY <1>0, <2>1, FlyingSame DEF Always, Sound
    <2> QED
      BY <2>2 DEF t
  <1>2. /\ d.tty \in {"ours", "leaving", "away", "back"}
        /\ d.session \in Seq(BOOLEAN) /\ d.vt \in BOOLEAN
    BY <1>0 DEF Type
  <1>3. ASSUME NEW s, Flying(s), s \in Type,
               d'.flips = s.flips, d'.events = s.events,
               d'.loop = s.loop, d'.active = s.active
        PROVE  Flying(d')
    BY <1>3, FlyingSame
  <1>t. /\ TRUE \in BOOLEAN /\ FALSE \in BOOLEAN
        /\ "ours" \in {"ours", "leaving", "away", "back"}
    OBVIOUS
  <1>u. ASSUME NEW v \in BOOLEAN
        PROVE  [d EXCEPT !.vt = v]
                  = [d EXCEPT !.vt = v, !.tty = d.tty, !.session = d.session]
    BY <1>0 DEF Type
  <1>4. Flying(deactivate([d EXCEPT !.vt = FALSE]))
    BY <1>1, <1>2, <1>t, <1>u, DeactivateFlying
  <1>5. Always(deactivate([d EXCEPT !.vt = FALSE]))
    BY <1>1, <1>2, <1>t, <1>u, DeactivateAlways
  <1>6. CASE VtActivate
    <2> DEFINE u == deactivate([d EXCEPT !.vt = FALSE])
    <2>1. d' = [u EXCEPT !.tty = "leaving"]
      BY <1>6 DEF VtActivate
    <2>2. u \in Type
      BY <1>5 DEF Always, Sound
    <2> HIDE DEF u
    <2>3. /\ d'.flips = u.flips /\ d'.events = u.events
          /\ d'.loop = u.loop /\ d'.active = u.active
      BY <2>1, <2>2 DEF Type
    <2> QED
      BY <1>3, <1>4, <2>2, <2>3 DEF u
  <1>7. CASE VtRelease
    <2> DEFINE u == IF d.vt THEN deactivate([d EXCEPT !.vt = FALSE]) ELSE d
    <2>1. d' = [u EXCEPT !.tty = "away", !.session = Append(u.session, FALSE)]
      BY <1>7 DEF VtRelease
    <2>2. u \in Type
      BY <1>0, <1>5 DEF Always, Sound
    <2>3. Flying(u)
      BY <1>4
    <2> HIDE DEF u
    <2>4. /\ d'.flips = u.flips /\ d'.events = u.events
          /\ d'.loop = u.loop /\ d'.active = u.active
      BY <2>1, <2>2 DEF Type
    <2> QED
      BY <1>3, <2>2, <2>3, <2>4
  <1>8. CASE SwitchBack \/ InputWhileOff
    <2>1. /\ d'.flips = d.flips /\ d'.events = d.events
          /\ d'.loop = d.loop /\ d'.active = d.active
      BY <1>0, <1>8 DEF SwitchBack, InputWhileOff, Type
    <2> QED
      BY <1>0, <1>3, <2>1
  <1>9. CASE VtAcquire
    <2>1. PICK p \in Passes :
             d' = reactivate([d EXCEPT !.vt = TRUE, !.tty = "ours"], p)
      BY <1>9 DEF VtAcquire
    <2>2. [d EXCEPT !.vt = TRUE, !.tty = "ours"]
             = [d EXCEPT !.vt = TRUE, !.tty = "ours", !.session = d.session]
      BY <1>0 DEF Type
    <2> QED
      BY <1>1, <1>2, <1>t, <2>1, <2>2, ReactivateFlying
  <1>10. CASE SessionActiveChanged
    <2>1. PICK p \in Passes :
             d' = activate([d EXCEPT !.session = Tail(@)], Head(d.session), p)
      BY <1>10 DEF SessionActiveChanged
    <2>2. Tail(d.session) \in Seq(BOOLEAN)
      BY <1>2, <1>10, TailType DEF SessionActiveChanged
    <2>3. [d EXCEPT !.session = Tail(@)]
             = [d EXCEPT !.vt = d.vt, !.tty = d.tty, !.session = Tail(d.session)]
      BY <1>0 DEF Type
    <2> DEFINE s == [d EXCEPT !.session = Tail(@)]
    <2>4. Always(s) /\ Flying(s)
      BY <1>1, <1>2, <2>2, <2>3
    <2> HIDE DEF s
    <2>5. d' = reactivate(s, p) \/ d' = deactivate(s)
      BY <2>1 DEF activate, s
    <2> QED
      BY <2>4, <2>5, ReactivateFlying, DeactivateFlying
  <1> QED
    BY <1>6, <1>7, <1>8, <1>9, <1>10

-----------------------------------------------------------------------------
(* The theorems.                                                           *)

LEMMA NextGood == DInv /\ [Next]_vars => DInv'
  <1> SUFFICES ASSUME DInv, [Next]_vars PROVE DInv'
    OBVIOUS
  <1>1. CASE Next
    <2>1. Good(d', env)
      BY <1>1, RunSetupGood, RunTurnOutputsOnGood, DamageGood, TimerEventGood,
         PageFlipGood, VtActivateGood, VtReleaseGood, SwitchBackGood,
         VtAcquireGood, SessionActiveChangedGood, SetDpmsGood, HotPlugGood,
         InputWhileOffGood, GraphicsResetGood DEF Next, Step
    <2>2. env' = env
      BY <1>1 DEF Next
    <2> QED
      BY <2>1, <2>2 DEF DInv
  <1>2. CASE UNCHANGED vars
    BY <1>2 DEF vars, DInv
  <1> QED
    BY <1>1, <1>2

LEMMA NextFlying == DInv /\ Flying(d) /\ [Next]_vars => Flying(d')
  <1> SUFFICES ASSUME DInv, Flying(d), [Next]_vars PROVE Flying(d')
    OBVIOUS
  <1>1. CASE Next
    BY <1>1, RunSetupFlying, RunTurnOutputsOnFlying, DamageFlying,
       TimerEventFlying, PageFlipFlying, SetDpmsFlying, HotPlugFlying,
       SessionFlying, GraphicsResetFlying DEF Next, Step
  <1>2. CASE UNCHANGED vars
    BY <1>2, FlyingSame DEF vars
  <1> QED
    BY <1>1, <1>2

LEMMA InitFlying == Init => Flying(d)
  <1> SUFFICES ASSUME Init PROVE Flying(d)
    OBVIOUS
  <1>1. d.flips = 0 /\ ~d.loop.swapPending
    BY DEF Init
  <1> QED
    BY <1>1, FlightsFinite DEF Flying

(* The invariant holds in every reachable state of the backend.            *)
THEOREM DrmInvariant == Spec => []DInv
  BY InitGood, NextGood, PTL DEF Spec

LEMMA FlipsAreToCome == Spec => []Flying(d)
  <1>1. Init => Flying(d) /\ DInv
    BY InitFlying, InitGood
  <1>2. DInv /\ Flying(d) /\ [Next]_vars => (Flying(d) /\ DInv)'
    BY NextFlying, NextGood
  <1> QED
    BY <1>1, <1>2, PTL DEF Spec

(* Every member of DrmBackend keeps its type.                              *)
THEOREM TypeCorrect == Spec => []TypeOK
  <1>1. DInv => TypeOK
    BY DEF DInv, Good, Always, Sound, TypeOK
  <1> QED
    BY <1>1, DrmInvariant, PTL

(* The wake-up for a repaint is never lost in Compositor, with any number  *)
(* of outputs and in every environment (flips left unread at a switch of   *)
(* the terminal, logind ahead of the kernel, failing DPMS calls, graphics  *)
(* resets during a flip, hotplug): the timer runs, or a pass waits for     *)
(* reactivate() or for counted flips, all of which are to come.  Excepted  *)
(* are outputs plugged in while the loop thinks that all are off.          *)
THEOREM RepaintsAreNotLost == Spec => []NoLostRepaint
  <1>1. DInv /\ Flying(d) => NoLostRepaint
    <2> SUFFICES ASSUME DInv, Flying(d), ~d.unseen, HasWork(d.loop),
                        ~d.loop.timer
                 PROVE  /\ d.loop.composeAtSwap /\ d.loop.swapPending
                        /\ d.active => d.flips \in 1..Cardinality(Flights(d))
      BY DEF NoLostRepaint
    <2>1. d.loop.composeAtSwap /\ d.loop.swapPending
      BY DEF DInv, Good, Always, Awake
    <2>2. d.flips \in Int /\ Cardinality(Flights(d)) \in Nat
      BY FlightsFinite DEF DInv, Good, Always, Sound, Type
    <2> QED
      BY <2>1, <2>2 DEF Flying
  <1> QED
    BY <1>1, DrmInvariant, FlipsAreToCome, PTL

(* The assertions of aboutToSwapBuffers() and bufferSwapComplete() hold    *)
(* and no pass runs without a scene, in every calm environment.            *)
THEOREM AssertionsHold == Spec => []NoFault
  <1>1. DInv => NoFault
    BY DEF DInv, Good, Calm, Faultless, NoFault, NoAssertFails
  <1> QED
    BY <1>1, DrmInvariant, PTL

(* m_pageFlipsPending never counts a flip that is not to come, in every    *)
(* environment.  Unless a flip is left unread when the terminal is         *)
(* switched or logind gets ahead of the kernel, it is the number of flips  *)
(* the kernel still has, and deactivate() blocks the loop, which nothing   *)
(* unblocks before reactivate().                                           *)
THEOREM FlipsAreCounted == Spec => []FlipsCounted
  <1>1. DInv /\ Flying(d) => FlipsCounted
    BY DEF DInv, Good, NoLateFlip, Counted, Busy, Flying, FlipsCounted
  <1> QED
    BY <1>1, DrmInvariant, FlipsAreToCome, PTL

(* No output of an active session keeps a buffer without a flip to come,   *)
(* as long as logind does not get ahead of the kernel.                     *)
THEOREM OutputsAreNotFrozen == Spec => []NoFrozenOutput
  <1>1. DInv => NoFrozenOutput
    BY DEF DInv, Good, InStep, NoFrozenOutput
  <1> QED
    BY <1>1, DrmInvariant, PTL

(* As long as the driver obeys DPMS calls, the input filter is installed   *)
(* while an output is off; without hotplug, only then.                     *)
THEOREM FilterFollowsOutputs == Spec => []FilterWhileOff
  <1>1. DInv => FilterWhileOff
    BY DEF DInv, Good, FilterFollows, FilterWhileOff
  <1> QED
    BY <1>1, DrmInvariant, PTL
=============================================================================
