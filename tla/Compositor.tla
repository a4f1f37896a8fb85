----------------------------- MODULE Compositor -----------------------------
(***************************************************************************)
(* The life of KWin's Compositor on X11 (composite.cpp): starting and      *)
(* finishing the scene, the reasons that suspend it, the calls it posts to *)
(* the event loop, the ownership of the _NET_WM_CM selection and the timer *)
(* that gives it up, windows that block compositing, and the rendering     *)
(* loop of RepaintLoop.                                                    *)
(*                                                                         *)
(* Handlers call one another (slotReinitialize is finish then setup, and   *)
(* setup may run a whole painting pass), so the object is one record k and *)
(* every member function maps k to the k it leaves behind.  One step is    *)
(* one callback of the event loop.                                         *)
(***************************************************************************)
EXTENDS Naturals, Sequences, FiniteSets, RepaintLoop

CONSTANTS
    Windows,           \* the slots for managed X11 windows
    SwapEvents,        \* GLX_INTEL_swap_event with KWIN_USE_INTEL_SWAP_EVENT=1
    BlocksForRetrace,  \* m_backend->blocksForRetrace()
    Environments,      \* the values of KWIN_COMPOSE: "unset", or "N" (disabled)
    MaxPosted          \* bound: callbacks that post run below this queue length

ASSUME SwapEventsAssumption == SwapEvents \in BOOLEAN
ASSUME BlocksForRetraceAssumption == BlocksForRetrace \in BOOLEAN
ASSUME WindowsAssumption == IsFiniteSet(Windows)
ASSUME EnvironmentsAssumption == Environments \subseteq {"unset", "N"}
ASSUME MaxPostedAssumption == MaxPosted \in Nat

VARIABLE k

Reasons  == {"User", "BlockRule", "Script"}
Backends == {"OpenGL", "XRender"}
Calls    == {"setup", "suspendBlock", "resumeBlock", "fallback"}

(***************************************************************************)
(* gl: the scene is a SceneOpenGL; suspended is m_suspended as a set;      *)
(* owning is cm_selection's flag; release and reset are the single shot    *)
(* timers m_releaseSelectionTimer and compositeResetTimer; posted holds    *)
(* the queued invocations in order; swapInFlight: a swap of this scene's   *)
(* drawable has not been reported yet; win: what a window slot holds       *)
(* ("deleted" while its Deleted is kept for an effect); env: KWIN_COMPOSE; *)
(* mode, initialized and backend: options->compositingMode(),              *)
(* isCompositingInitialized() and the Backend entry of the configuration.  *)
(* Three members are history.  overridden: the user cleared the BlockRule  *)
(* bit while a window was blocking.  excuse: why the scene is gone when    *)
(* nothing suspends it.  orphaned: a scene went away with a swap in        *)
(* flight; its filter went with it, so the swap is never reported, but     *)
(* m_bufferSwapPending is kept and the next scene waits for the report.    *)
(***************************************************************************)
Type ==
    [loop: Loop, gl: BOOLEAN, suspended: SUBSET Reasons, owning: BOOLEAN,
     release: BOOLEAN, reset: BOOLEAN, posted: Seq(Calls),
     swapInFlight: BOOLEAN,
     win: [Windows -> {"none", "normal", "blocking", "deleted"}],
     env: Environments, mode: Backends \cup {"None"}, initialized: BOOLEAN,
     backend: Backends, overridden: BOOLEAN,
     excuse: {"none", "failed", "lost"}, orphaned: BOOLEAN]

Blocking(s) == \E w \in Windows : s.win[w] = "blocking"
DeletedWindows(s) == {w \in Windows : s.win[w] = "deleted"}

-----------------------------------------------------------------------------
(* The rendering loop, run with a GLX backend.                             *)

(* A pass in which an effect asks for another one, something visible was   *)
(* damaged, and the whole screen was rendered.                             *)
Passes == [again: BOOLEAN, damaged: BOOLEAN, full: BOOLEAN]

(* GlxBackend::present() swaps, and announces it, only for a full repaint; *)
(* a backend that blocks for the retrace posts a frame one pass later.     *)
glxFrame(s, p) ==
    LET blocks == s.gl /\ BlocksForRetrace
        posted == IF blocks THEN s.loop.flush ELSE p.damaged
    IN  [again |-> p.again,
         flush |-> blocks /\ p.damaged,
         swap  |-> s.gl /\ SwapEvents /\ p.full /\ posted]

composite(s, p) ==
    LET l == performCompositing(s.loop, glxFrame(s, p))
    IN  [s EXCEPT !.loop = l,
                  !.swapInFlight = @ \/ (l.swapPending /\ ~s.loop.swapPending)]

-----------------------------------------------------------------------------
(* The member functions.                                                   *)

post(s, call) == [s EXCEPT !.posted = Append(@, call)]

(* updateCompositeBlocking(0): the last blocking window is gone.           *)
updateCompositeBlocking(s) ==
    IF "BlockRule" \in s.suspended /\ ~Blocking(s)
    THEN post(s, "resumeBlock")
    ELSE s

(* updateCompositeBlocking(c) for a window c that blocks.                  *)
updateCompositeBlockingBy(s) ==
    IF "BlockRule" \in s.suspended THEN s ELSE post(s, "suspendBlock")

(* Discarding all Deleted windows; removing each one asks whether a        *)
(* suspension by window can end.                                           *)
discardDeleted(s) ==
    LET n == Cardinality(DeletedWindows(s))
        resumes == [i \in 1..n |-> "resumeBlock"]
    IN  [s EXCEPT
          !.win = [w \in Windows |->
                      IF s.win[w] = "deleted" THEN "none" ELSE s.win[w]],
          !.posted = IF "BlockRule" \in s.suspended /\ ~Blocking(s)
                     THEN @ \o resumes ELSE @]

(* Mutants of finish: the filter for swap events outlives its scene; the   *)
(* release timer is not started.                                           *)
finishLeavesFilter(s) ==
    IF ~s.loop.scene THEN s
    ELSE discardDeleted(
           [s EXCEPT !.release = TRUE, !.gl = FALSE,
                     !.loop = [@ EXCEPT !.scene = FALSE, !.timer = FALSE,
                                        !.repaints = FALSE, !.flush = FALSE,
                                        !.frames = 0, !.visible = TRUE]])

finishKeepsSelection(s) ==
    IF ~s.loop.scene THEN s
    ELSE discardDeleted(
           [s EXCEPT !.orphaned = @ \/ s.swapInFlight,
                     !.swapInFlight = FALSE, !.gl = FALSE,
                     !.loop = [@ EXCEPT !.scene = FALSE, !.timer = FALSE,
                                        !.repaints = FALSE, !.flush = FALSE,
                                        !.frames = 0, !.visible = TRUE]])

finish(s) ==
    IF ~s.loop.scene THEN s
    ELSE discardDeleted(
           [s EXCEPT !.release = TRUE, !.orphaned = @ \/ s.swapInFlight,
                     !.swapInFlight = FALSE, !.gl = FALSE,
                     !.loop = [@ EXCEPT !.scene = FALSE, !.timer = FALSE,
                                        !.repaints = FALSE, !.flush = FALSE,
                                        !.frames = 0, !.visible = TRUE]])

(* Options::reloadCompositingSettings(force).                              *)
reloadCompositingSettings(s, force) ==
    LET mode == IF s.env = "N" THEN "None" ELSE s.backend
    IN  [s EXCEPT !.mode = mode,
                  !.initialized = @ \/ (force /\ mode # "None")]

releaseSelection(s) == [s EXCEPT !.owning = FALSE]

(* No scene could be created: compositing stays off.                       *)
sceneFailed(s) ==
    releaseSelection([s EXCEPT !.loop.starting = FALSE, !.excuse = "failed"])

(* Mutant of startupWithWorkspace: the pass at the end is missing.         *)
startupWithoutPass(s, p) ==
    [s EXCEPT !.loop = [addRepaint(@) EXCEPT !.starting = FALSE],
              !.release = FALSE, !.excuse = "none"]

(* addRepaintFull() finds m_starting set, so only the last call of the     *)
(* function paints.                                                        *)
startupWithWorkspace(s, p) ==
    LET started == [addRepaint(s.loop) EXCEPT !.starting = FALSE]
    IN  composite([s EXCEPT !.loop = started, !.release = FALSE,
                            !.excuse = "none"], p)

(* The outcome o of starting: compositing is not possible at all, creating *)
(* the scene works, fails, or fails with a driver that recommends XRender  *)
(* (OpenGL only).                                                          *)
slotCompositingOptionsInitialized(s, o) ==
    LET claimed == discardDeleted([s EXCEPT !.owning = TRUE])
    IN  IF s.mode # "None" /\ o.scene = "ok"
        THEN startupWithWorkspace([claimed EXCEPT !.loop.scene = TRUE,
                                                  !.gl = s.mode = "OpenGL"],
                                  o.pass)
        ELSE sceneFailed(IF s.mode = "OpenGL" /\ o.scene = "recommendsXRender"
                         THEN post(claimed, "fallback") ELSE claimed)

(* Mutant of setup: the reasons to stay suspended are not consulted.       *)
setupRegardless(s, o) ==
    IF s.loop.scene THEN s
    ELSE slotCompositingOptionsInitialized([s EXCEPT !.loop.starting = TRUE], o)

setup(s, o) ==
    IF s.loop.scene \/ s.suspended # {} THEN s
    ELSE IF o.scene = "impossible" THEN [s EXCEPT !.excuse = "failed"]
    ELSE LET starting == [s EXCEPT !.loop.starting = TRUE]
         IN  slotCompositingOptionsInitialized(
                IF s.initialized THEN starting
                ELSE reloadCompositingSettings(starting, TRUE), o)

suspend(s, reason) ==
    finish([s EXCEPT !.suspended = @ \cup {reason},
                     !.overridden = @ /\ reason # "BlockRule"])

resume(s, reasons, o) ==
    setup([s EXCEPT !.suspended = @ \ reasons], o)

(* Mutant of restart: the setup is not posted.                             *)
restartFinishesOnly(s) == finish(s)

restart(s) ==
    IF s.loop.scene THEN post(finish(s), "setup") ELSE s

fallbackToXRenderCompositing(s, o) ==
    setup([finish(s) EXCEPT !.backend = "XRender", !.mode = "XRender"], o)

(* Options::updateSettings() re-reads the configuration before it signals  *)
(* the change; enabled is its Enabled entry.                               *)
slotConfigChanged(s, backend, enabled, o) ==
    LET read == reloadCompositingSettings(
                    [s EXCEPT !.backend = backend, !.initialized = FALSE],
                    enabled)
        up   == setup(read, o)
    IN  IF s.suspended = {}
        THEN [up EXCEPT !.loop = addRepaint(@)]
        ELSE finish(read)

slotReinitialize(s, backend, o) ==
    setup([finish(s) EXCEPT !.suspended = {}, !.backend = backend,
                            !.initialized = FALSE,
                            !.overridden = Blocking(s)], o)

slotToggleCompositing(s, o) ==
    IF s.suspended # {}
    THEN resume([s EXCEPT !.overridden = Blocking(s)], Reasons, o)
    ELSE suspend(s, "User")

(* Mutant of releaseCompositorSelection: the selection is not released.    *)
releaseForgotten(s) == IF s.loop.starting THEN s ELSE [s EXCEPT !.release = FALSE]

releaseCompositorSelection(s) ==
    LET fired == [s EXCEPT !.release = FALSE]
    IN  IF s.loop.scene THEN fired
        ELSE IF s.loop.starting THEN s
        ELSE releaseSelection(fired)

-----------------------------------------------------------------------------
(* The steps.                                                              *)

NoPass == [again |-> FALSE, damaged |-> FALSE, full |-> FALSE]

Outcomes ==
    [scene: {"ok"}, pass: Passes] \cup
    [scene: {"impossible", "failed", "recommendsXRender"}, pass: {NoPass}]

Room == Len(k.posted) < MaxPosted

(* The constructor: the first setup is posted.                             *)
Constructed(suspended, starting, env, backend) ==
    [loop |-> [scene |-> FALSE, starting |-> starting, timer |-> FALSE,
               repaints |-> FALSE, swapPending |-> FALSE,
               composeAtSwap |-> FALSE, flush |-> FALSE, visible |-> TRUE,
               outputs |-> TRUE, frames |-> 0, fault |-> FALSE],
     gl |-> FALSE, suspended |-> IF env = "N" THEN {"User"} ELSE suspended,
     owning |-> FALSE, release |-> FALSE, reset |-> FALSE,
     posted |-> <<"setup">>, swapInFlight |-> FALSE,
     win |-> [w \in Windows |-> "none"], env |-> env,
     mode |-> IF env = "N" THEN "None" ELSE backend,
     initialized |-> suspended = {} /\ env # "N", backend |-> backend,
     overridden |-> FALSE, excuse |-> "none", orphaned |-> FALSE]

(* m_starting is left uninitialised; Enabled and Backend come from the     *)
(* configuration.                                                          *)
Init ==
    \E suspended \in {{}, {"User"}}, starting \in BOOLEAN,
       env \in Environments, backend \in Backends :
        k = Constructed(suspended, starting, env, backend)

(* The event loop delivers the oldest queued invocation.                   *)
RunPosted(call) ==
    /\ k.posted # <<>>
    /\ Head(k.posted) = call
    /\ LET s == [k EXCEPT !.posted = Tail(@)] IN
       \E o \in Outcomes :
          k' = CASE call = "setup"        -> setup(s, o)
                 [] call = "suspendBlock" -> suspend(s, "BlockRule")
                 [] call = "resumeBlock"  -> resume(s, {"BlockRule"}, o)
                 [] call = "fallback"     -> fallbackToXRenderCompositing(s, o)

RunSetup    == RunPosted("setup")
RunSuspend  == RunPosted("suspendBlock")
RunResume   == RunPosted("resumeBlock")
RunFallback == RunPosted("fallback")

Toggle == Room /\ \E o \in Outcomes : k' = slotToggleCompositing(k, o)

DBusSuspend == Room /\ k' = suspend(k, "Script")

DBusResume == Room /\ \E o \in Outcomes : k' = resume(k, {"Script"}, o)

Reinitialize ==
    /\ Room
    /\ \E o \in Outcomes, b \in Backends : k' = slotReinitialize(k, b, o)

ConfigChanged ==
    /\ Room
    /\ \E o \in Outcomes, b \in Backends, enabled \in BOOLEAN :
          k' = slotConfigChanged(k, b, enabled, o)

(* A new refresh rate, seen while compositing.                             *)
RefreshRateChanged ==
    /\ k.loop.scene
    /\ k' = [k EXCEPT !.reset = TRUE]

ResetTimerFires ==
    /\ k.reset
    /\ Room
    /\ k' = restart([k EXCEPT !.reset = FALSE])

(* The driver reports a graphics reset.                                    *)
GraphicsReset ==
    /\ k.loop.scene
    /\ k.gl
    /\ Room
    /\ k' = restart(k)

ReleaseTimerFires ==
    /\ k.release
    /\ k' = releaseCompositorSelection(k)

(* Another compositing manager claims the selection.                       *)
LostOwnership ==
    /\ k.owning
    /\ Room
    /\ k' = finish([k EXCEPT !.owning = FALSE,
                             !.excuse = IF k.loop.scene THEN "lost" ELSE @])

(* createClient(): a window that blocks says so while it is managed.       *)
ManageClient(w) ==
    /\ k.win[w] = "none"
    /\ Room
    /\ \/ k' = [k EXCEPT !.win[w] = "normal"]
       \/ k' = updateCompositeBlockingBy([k EXCEPT !.win[w] = "blocking"])

(* Client::setBlockingCompositing(), when the value changes.               *)
SetBlockingCompositing(w) ==
    /\ Room
    /\ \/ /\ k.win[w] = "normal"
          /\ k' = updateCompositeBlockingBy([k EXCEPT !.win[w] = "blocking"])
       \/ /\ k.win[w] = "blocking"
          /\ k' = updateCompositeBlocking([k EXCEPT !.win[w] = "normal"])

ReleaseWindow(w) ==
    /\ k.win[w] \in {"normal", "blocking"}
    /\ \E shown \in BOOLEAN :
          k' = [k EXCEPT !.win[w] = "deleted",
                         !.loop = IF shown THEN addRepaint(@) ELSE @]

(* The last reference to a Deleted goes.                                   *)
RemoveDeleted(w) ==
    /\ k.win[w] = "deleted"
    /\ Room
    /\ k' = updateCompositeBlocking([k EXCEPT !.win[w] = "none"])

Damage ==
    /\ k.loop.scene
    /\ k' = [k EXCEPT !.loop = addRepaint(@)]

TimerEvent ==
    /\ k.loop.timer
    /\ \E p \in Passes : k' = composite(k, p)

(* SwapEventFilter::event() for the drawable of the current scene.         *)
SwapComplete ==
    /\ k.swapInFlight
    /\ \E p \in Passes :
          LET l == bufferSwapComplete(k.loop, glxFrame(k, p))
          IN  k' = [k EXCEPT !.loop = l, !.swapInFlight = l.swapPending]

(* XCB_VISIBILITY_NOTIFY on the overlay window.                            *)
VisibilityNotify(visible) ==
    /\ k.loop.scene
    /\ LET l == [k.loop EXCEPT !.visible = visible]
       IN  k' = [k EXCEPT !.loop =
                    scheduleRepaint(IF visible /\ ~k.loop.visible
                                    THEN addRepaint(l) ELSE l)]

WindowStep(w) ==
    \/ ManageClient(w)
    \/ SetBlockingCompositing(w)
    \/ ReleaseWindow(w)
    \/ RemoveDeleted(w)

Next ==
    \/ RunSetup \/ RunSuspend \/ RunResume \/ RunFallback
    \/ Toggle \/ DBusSuspend \/ DBusResume \/ Reinitialize \/ ConfigChanged
    \/ RefreshRateChanged \/ ResetTimerFires \/ GraphicsReset
    \/ ReleaseTimerFires \/ LostOwnership
    \/ \E w \in Windows : WindowStep(w)
    \/ Damage \/ TimerEvent \/ SwapComplete
    \/ \E v \in BOOLEAN : VisibilityNotify(v)

Spec == Init /\ [][Next]_k

(***************************************************************************)
(* The event loop keeps delivering queued calls and timers, the driver     *)
(* reports every swap, and a Deleted is released when its effect ends.     *)
(***************************************************************************)
FairSpec ==
    /\ Spec
    /\ WF_k(RunSetup \/ RunSuspend \/ RunResume \/ RunFallback)
    /\ WF_k(ResetTimerFires)
    /\ WF_k(ReleaseTimerFires)
    /\ WF_k(TimerEvent)
    /\ WF_k(SwapComplete)
    /\ \A w \in Windows : WF_k(RemoveDeleted(w))

-----------------------------------------------------------------------------
(* Properties.                                                             *)

(* Every member keeps its type.                                            *)
TypeOK == k \in Type

(* While the scene has something to repaint, or a rendered frame that is   *)
(* not on the screen, the composite timer runs or a pass is due at a swap  *)
(* that this scene will be told of: no order of damage, swap reports,      *)
(* restarts and visibility changes loses the wake-up.  There is one        *)
(* exception: finish() (composite.cpp) during a swap leaves the next scene *)
(* waiting for a report that does not come, and the wake-up is lost.       *)
NoLostRepaint ==
    ~k.orphaned /\ HasWork(k.loop)
        => k.loop.timer \/ (k.loop.composeAtSwap /\ k.swapInFlight)

(* No assert() on m_bufferSwapPending fails and no pass runs without a     *)
(* scene, although aboutToSwapBuffers() and bufferSwapComplete() come from *)
(* painting passes, idle passes and X events of different scenes.          *)
NoFault == ~k.loop.fault

(* While any reason suspends compositing there is no scene: a setup posted *)
(* before, or a resume for another reason, does not bring it back.         *)
SuspendedMeansOff == k.suspended # {} => ~k.loop.scene

(* A running scene owns the compositor selection, and a selection kept     *)
(* without a scene is guarded by the running release timer.                *)
SelectionFollowsScene ==
    /\ k.loop.scene => k.owning
    /\ k.owning /\ ~k.loop.scene => k.release

(* Compositing is off without a reason to suspend it only when a setup is  *)
(* queued, the last one failed or another compositor took over: restart()  *)
(* and the queued resume() never leave it off by accident.                 *)
OffForAReason ==
    \/ k.loop.scene
    \/ k.suspended # {}
    \/ k.excuse # "none"
    \/ \E i \in 1..Len(k.posted) : k.posted[i] = "setup"

(* A scene that is up has painted: the last call of startupWithWorkspace() *)
(* is there to "render at least once" (composite.cpp).  It does not when   *)
(* an earlier scene was finished during a swap whose report is lost, and   *)
(* in no other order of restarts, swaps and failed starts.                 *)
RendersAtLeastOnce ==
    k.loop.scene /\ ~k.loop.starting /\ k.loop.frames = 0
        => SwapEvents /\ k.orphaned

(* What is to be painted or posted is painted by a further pass, unless    *)
(* the scene goes away or is obscured.                                     *)
FramesReachTheScreen ==
    \A n \in 0..2 :
        (k.loop.scene /\ (k.loop.repaints \/ k.loop.flush) /\ k.loop.frames = n)
            ~> (\/ k.loop.frames # n
                \/ ~(k.loop.repaints \/ k.loop.flush)
                \/ ~k.loop.scene \/ ~k.loop.visible)

(* The selection is not kept for ever by a window manager that does not    *)
(* composite: releaseCompositorSelection() or a new scene follows.         *)
SelectionReleased ==
    (k.owning /\ ~k.loop.scene) ~> (~k.owning \/ k.loop.scene)
=============================================================================
