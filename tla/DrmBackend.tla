----------------------------- MODULE DrmBackend -----------------------------
(***************************************************************************)
(* KWin on DRM/KMS (backends/drm, virtual_terminal.cpp): page flips that   *)
(* throttle the Compositor's rendering loop, switches of the virtual       *)
(* terminal that block and restart it, outputs switched off by DPMS, and   *)
(* outputs that come and go.                                               *)
(*                                                                         *)
(* Two parties tell the backend that its session became active or          *)
(* inactive: VirtualTerminal (a signal of the kernel) and logind (a D-Bus  *)
(* signal).  Page flip events are read from the DRM file descriptor, but   *)
(* not while VirtualTerminal is inactive, so an event may be read long     *)
(* after the flip.  One step is one callback of the event loop.            *)
(***************************************************************************)
EXTENDS Integers, Sequences, FiniteSets, RepaintLoop

CONSTANTS
    Outputs,        \* the outputs
    Primary,        \* screen 0, which is not presented without damage and is
                    \* always connected
    Gbm,            \* EglGbmBackend, else DrmQPainterBackend
    Environments,   \* the environments considered: sets of Faults
    MaxEvents       \* bound: flip events of one output the kernel queues

(***************************************************************************)
(* What may go wrong around the backend: the terminal is released while a  *)
(* flip is unread; logind's signals come in any order with the kernel's;   *)
(* drmModeConnectorSetProperty fails; a graphics reset restarts the scene  *)
(* during a flip; outputs other than the first are unplugged and plugged   *)
(* in again; one is unplugged while its flip is unread.                    *)
(***************************************************************************)
Faults ==
    {"flipAtSwitch", "logindRaces", "dpmsFails", "flipAtRestart", "hotplug",
     "flipAtUnplug"}

ASSUME OutputsAssumption == IsFiniteSet(Outputs) /\ Primary \in Outputs
ASSUME EnvironmentAssumption ==
    Gbm \in BOOLEAN /\ Environments \subseteq SUBSET Faults
ASSUME MaxEventsAssumption == MaxEvents \in Nat \ {0}

VARIABLES
    d,      \* the backend
    env     \* the environment of this behaviour

vars == <<d, env>>

(***************************************************************************)
(* loop: the Compositor.  tty: where a switch of the terminal stands in    *)
(* the kernel ("leaving": KWin asked for it, "back": ours again but not    *)
(* acknowledged); vt: VirtualTerminal::m_active; session: the values of    *)
(* logind's Active property still to be delivered; active: m_active;       *)
(* flips: m_pageFlipsPending; there: m_outputs; buf: the outputs with an   *)
(* m_currentBuffer; events: page flip events not read yet, per output; on: *)
(* the outputs with DPMS mode On; filter: m_dpmsFilter is installed;       *)
(* posted: the queued invocations of setup() and turnOutputsOn().  unseen  *)
(* is history: an output was plugged in, and thus on, while the backend    *)
(* had told the loop that all are off.                                     *)
(***************************************************************************)
Type ==
    [loop: Loop, tty: {"ours", "leaving", "away", "back"}, vt: BOOLEAN,
     session: Seq(BOOLEAN), active: BOOLEAN, flips: Int,
     there: SUBSET Outputs, buf: SUBSET Outputs,
     events: [Outputs -> 0..MaxEvents], on: SUBSET Outputs,
     filter: BOOLEAN, posted: Seq({"setup", "turnOutputsOn"}),
     unseen: BOOLEAN]

NoEvents == [o \in Outputs |-> 0]

-----------------------------------------------------------------------------
(* Painting and presenting.                                                *)

(* A painting pass: whether an effect asks for another one, the outputs    *)
(* that are presented, and those whose page flip the kernel accepts.       *)
Passes ==
    {p \in [again: BOOLEAN, shown: {Outputs, Outputs \ {Primary}},
             accepted: SUBSET Outputs] : p.accepted \subseteq p.shown}

(* DrmOutput::present(), for every output: the outputs that flip.          *)
flipping(s, p) ==
    {o \in p.accepted \cap s.on :
        s.vt /\ o \notin s.buf /\ s.events[o] < MaxEvents}

(* Outputs that keep a buffer without flipping to it: the terminal is not  *)
(* active.  (DrmQPainterBackend::present() does not ask them.)             *)
holding(s, p) == IF s.vt \/ ~Gbm THEN {} ELSE p.shown \cap s.there

(* DrmBackend::present() counts the flips and announces the first one.     *)
drmFrame(s, p) ==
    [again |-> p.again, flush |-> FALSE,
     swap  |-> s.flips < 1 /\ s.flips + Cardinality(flipping(s, p)) >= 1]

present(s, p) ==
    LET flip == flipping(s, p)
    IN  [s EXCEPT !.flips = @ + Cardinality(flip),
                  !.buf = @ \cup flip \cup holding(s, p),
                  !.events = [o \in Outputs |->
                                 IF o \in flip THEN @[o] + 1 ELSE @[o]]]

composite(s, p) ==
    LET l == performCompositing(s.loop, drmFrame(s, p))
    IN  [(IF paints(s.loop) THEN present(s, p) ELSE s) EXCEPT !.loop = l]

(* bufferSwapComplete() and, if a pass was waiting for it, that pass.      *)
swapComplete(s, p) ==
    LET due  == s.loop.composeAtSwap
        done == bufferSwapComplete([s.loop EXCEPT !.composeAtSwap = FALSE],
                                   drmFrame(s, p))
    IN  IF due THEN composite([s EXCEPT !.loop = done], p)
        ELSE [s EXCEPT !.loop = done]

-----------------------------------------------------------------------------
(* DrmBackend's member functions.                                          *)

(* Mutants of reactivate: m_active is not consulted; the swap that blocks  *)
(* the loop is not completed.                                              *)
reactivateAlways(s, p) ==
    LET up == swapComplete([s EXCEPT !.active = TRUE, !.buf = {},
                                     !.flips = 0], p)
    IN  [up EXCEPT !.loop = addRepaint(@)]

reactivateStillBlocked(s, p) ==
    IF s.active THEN s
    ELSE [s EXCEPT !.active = TRUE, !.buf = {}, !.flips = 0,
                   !.loop = addRepaint(@)]

(* reactivate(): pageFlipped() on every output, then restart the loop.     *)
reactivate(s, p) ==
    IF s.active THEN s
    ELSE LET up == swapComplete([s EXCEPT !.active = TRUE, !.buf = {},
                                          !.flips = 0], p)
         IN  [up EXCEPT !.loop = addRepaint(@)]

deactivate(s) ==
    IF ~s.active THEN s
    ELSE [s EXCEPT !.active = FALSE,
                   !.loop = IF s.flips = 0 THEN aboutToSwapBuffers(@) ELSE @]

activate(s, active, p) == IF active THEN reactivate(s, p) ELSE deactivate(s)

(* Mutants of pageFlipHandler: the first flip of several completes the     *)
(* swap; the output keeps its buffer.                                      *)
pageFlipHandlerEager(s, o, p) ==
    swapComplete([s EXCEPT !.buf = @ \ {o}, !.flips = @ - 1,
                           !.events[o] = @ - 1], p)

pageFlipHandlerKeeps(s, o, p) ==
    LET flipped == [s EXCEPT !.flips = @ - 1, !.events[o] = @ - 1]
    IN  IF flipped.flips = 0 THEN swapComplete(flipped, p) ELSE flipped

pageFlipHandler(s, o, p) ==
    LET flipped == [s EXCEPT !.buf = @ \ {o}, !.flips = @ - 1,
                             !.events[o] = @ - 1]
    IN  IF flipped.flips = 0 THEN swapComplete(flipped, p) ELSE flipped

(* Mutant of checkOutputsAreOn: one output that is on is enough.           *)
checkSomeOutputIsOn(s) == [s EXCEPT !.filter = @ /\ s.on = {}]

(* checkOutputsAreOn(): the filter goes when all outputs are on.           *)
checkOutputsAreOn(s) == [s EXCEPT !.filter = @ /\ s.on # s.there]

(* Mutant of setDpms: no repaint when the output comes back.               *)
setDpmsSilently(s, o, mode) ==
    LET on  == IF mode = "On" THEN s.on \cup {o} ELSE s.on \ {o}
        set == [s EXCEPT !.on = on, !.loop.outputs = on # {}]
    IN  IF mode = "On" THEN checkOutputsAreOn(set)
        ELSE [set EXCEPT !.filter = TRUE]

(* DrmOutput::setDpms() for a mode the output is not in: dpmsChanged,      *)
(* then the filter, and a full repaint when the output comes back.         *)
setDpms(s, o, mode) ==
    LET on  == IF mode = "On" THEN s.on \cup {o} ELSE s.on \ {o}
        set == [s EXCEPT !.on = on, !.loop.outputs = on # {}]
    IN  IF mode = "On"
        THEN [checkOutputsAreOn(set) EXCEPT !.loop = addRepaint(@)]
        ELSE [set EXCEPT !.filter = TRUE]

(* turnOutputsOn(): the filter goes first, then every output is asked to   *)
(* go on; works is the set of outputs for which the driver does it.        *)
turnOutputsOn(s, works) ==
    LET on == s.on \cup (works \cap s.there)
        up == [s EXCEPT !.filter = FALSE, !.on = on,
                        !.loop.outputs = IF on = s.on THEN @ ELSE on # {}]
    IN  IF on = s.on THEN up ELSE [up EXCEPT !.loop = addRepaint(@)]

(* queryResources() after a hotplug event: a DrmOutput is deleted or       *)
(* created, which is on.  Neither counter nor filter nor loop is told.     *)
outputRemoved(s, o) ==
    [s EXCEPT !.there = @ \ {o}, !.on = @ \ {o}, !.buf = @ \ {o}]

outputAdded(s, o) ==
    [s EXCEPT !.there = @ \cup {o}, !.on = @ \cup {o},
              !.unseen = @ \/ ~s.loop.outputs]

(* Compositor::finish() and setup(), as restart() calls them; a scene of   *)
(* this backend always comes up again.                                     *)
restart(s) ==
    [s EXCEPT !.posted = Append(@, "setup"),
              !.loop = [@ EXCEPT !.scene = FALSE, !.timer = FALSE,
                                 !.repaints = FALSE, !.frames = 0]]

setup(s, p) ==
    IF s.loop.scene THEN s
    ELSE composite([s EXCEPT !.loop.scene = TRUE, !.loop.repaints = TRUE], p)

-----------------------------------------------------------------------------
(* The steps.                                                              *)

(* The backend is ready, the terminal is ours and the first setup() is     *)
(* queued.                                                                 *)
Init ==
    /\ env \in Environments
    /\ d = [loop |-> [scene |-> FALSE, starting |-> FALSE, timer |-> FALSE,
                      repaints |-> FALSE, swapPending |-> FALSE,
                      composeAtSwap |-> FALSE, flush |-> FALSE, visible |-> TRUE,
                      outputs |-> TRUE, frames |-> 0, fault |-> FALSE],
            tty |-> "ours", vt |-> TRUE, session |-> <<>>, active |-> TRUE,
            flips |-> 0, there |-> Outputs, buf |-> {}, events |-> NoEvents,
            on |-> Outputs, filter |-> FALSE, posted |-> <<"setup">>,
            unseen |-> FALSE]

RunSetup ==
    /\ d.posted # <<>> /\ Head(d.posted) = "setup"
    /\ \E p \in Passes : d' = setup([d EXCEPT !.posted = Tail(@)], p)

RunTurnOutputsOn ==
    /\ d.posted # <<>> /\ Head(d.posted) = "turnOutputsOn"
    /\ \E works \in SUBSET Outputs :
          /\ works = Outputs \/ "dpmsFails" \in env
          /\ d' = turnOutputsOn([d EXCEPT !.posted = Tail(@)], works)

Damage ==
    /\ d.loop.scene
    /\ d' = [d EXCEPT !.loop = addRepaint(@)]

TimerEvent ==
    /\ d.loop.timer
    /\ \E p \in Passes : d' = composite(d, p)

(* The notifier of the DRM file descriptor.  The event of an output that   *)
(* was deleted is handled with freed memory: if that still has its old     *)
(* contents everything goes on, but nothing is certain from then on.       *)
PageFlip(o) ==
    /\ d.vt
    /\ d.events[o] > 0
    /\ \E p \in Passes :
          d' = [pageFlipHandler(d, o, p) EXCEPT
                   !.loop.fault = @ \/ o \notin d.there]

SwitchAllowed == d.events = NoEvents \/ "flipAtSwitch" \in env
SessionRoom == Len(d.session) < IF "logindRaces" \in env THEN 2 ELSE 1

(* VirtualTerminal::activate(): KWin itself asks for another terminal.     *)
VtActivate ==
    /\ d.tty = "ours"
    /\ SwitchAllowed
    /\ d' = [deactivate([d EXCEPT !.vt = FALSE]) EXCEPT !.tty = "leaving"]

(* RELEASE_SIGNAL: the kernel switches away once the signal is handled.    *)
VtRelease ==
    /\ d.tty \in {"ours", "leaving"}
    /\ SwitchAllowed /\ SessionRoom
    /\ d' = [(IF d.vt THEN deactivate([d EXCEPT !.vt = FALSE]) ELSE d)
                EXCEPT !.tty = "away", !.session = Append(@, FALSE)]

(* Somebody switches back to the terminal; logind and kernel both signal.  *)
SwitchBack ==
    /\ d.tty = "away"
    /\ SessionRoom
    /\ d' = [d EXCEPT !.tty = "back", !.session = Append(@, TRUE)]

(* ACQUISITION_SIGNAL.                                                     *)
VtAcquire ==
    /\ d.tty = "back"
    /\ \E p \in Passes :
          d' = reactivate([d EXCEPT !.vt = TRUE, !.tty = "ours"], p)

(* logind's sessionActiveChanged.                                          *)
SessionActiveChanged ==
    /\ d.session # <<>>
    /\ d.vt = Head(d.session) \/ "logindRaces" \in env
    /\ \E p \in Passes :
          d' = activate([d EXCEPT !.session = Tail(@)], Head(d.session), p)

(* A client of the output management protocol switches an output off or on. *)
SetDpms(o) ==
    \/ o \in d.on /\ d' = setDpms(d, o, "Off")
    \/ o \in d.there \ d.on /\ d' = setDpms(d, o, "On")

(* The udev monitor's notifier.  (Bound: an output comes back after its    *)
(* events have been read.)                                                 *)
HotPlug(o) ==
    /\ "hotplug" \in env /\ o # Primary
    /\ \/ /\ o \in d.there
          /\ d.events[o] = 0 \/ "flipAtUnplug" \in env
          /\ d' = outputRemoved(d, o)
       \/ /\ o \notin d.there /\ d.events[o] = 0
          /\ d' = outputAdded(d, o)

(* Bound: one queued call at a time.                                       *)
Room == d.posted = <<>>

(* DpmsInputEventFilter::notify().                                         *)
InputWhileOff ==
    /\ d.filter
    /\ Room
    /\ d' = [d EXCEPT !.posted = Append(@, "turnOutputsOn")]

(* The queued resetCompositing signal of a SceneOpenGL.                    *)
GraphicsReset ==
    /\ Gbm
    /\ d.loop.scene
    /\ ~d.loop.swapPending \/ "flipAtRestart" \in env
    /\ Room
    /\ d' = restart(d)

Step ==
    \/ RunSetup \/ RunTurnOutputsOn
    \/ Damage \/ TimerEvent
    \/ \E o \in Outputs : PageFlip(o) \/ SetDpms(o) \/ HotPlug(o)
    \/ VtActivate \/ VtRelease \/ SwitchBack \/ VtAcquire \/ SessionActiveChanged
    \/ InputWhileOff
    \/ GraphicsReset

Next == Step /\ UNCHANGED env

Spec == Init /\ [][Next]_vars

(***************************************************************************)
(* The event loop delivers queued calls, timers and signals, and the       *)
(* kernel completes every flip it accepted.                                *)
(***************************************************************************)
FairSpec ==
    /\ Spec
    /\ WF_vars((RunSetup \/ RunTurnOutputsOn) /\ UNCHANGED env)
    /\ WF_vars(TimerEvent /\ UNCHANGED env)
    /\ \A o \in Outputs : WF_vars(PageFlip(o) /\ UNCHANGED env)
    /\ WF_vars(VtAcquire /\ UNCHANGED env)
    /\ WF_vars(SessionActiveChanged /\ UNCHANGED env)

-----------------------------------------------------------------------------
(* Properties.                                                             *)

(* Every member keeps its type.                                            *)
TypeOK == d \in Type

(* The flips to come: the page flip events that are still unread.          *)
Flights(s) ==
    {q \in Outputs \X (1..MaxEvents) : q[2] <= s.events[q[1]]}

(* The wake-up for a repaint is never lost, whatever page flips, switches  *)
(* of the terminal and DPMS changes come in between: a pass that waits for *)
(* a swap is released by reactivate() or by the last of the flips counted, *)
(* all of which are to come.  Excepted are outputs plugged in while all    *)
(* others are off: the loop learns that some are on when the next one goes *)
(* off, which asks for no repaint.                                         *)
NoLostRepaint ==
    ~d.unseen /\ HasWork(d.loop) =>
        \/ d.loop.timer
        \/ /\ d.loop.composeAtSwap /\ d.loop.swapPending
           /\ d.active => d.flips \in 1..Cardinality(Flights(d))

(* assert(m_bufferSwapPending) in bufferSwapComplete() and                 *)
(* assert(!m_bufferSwapPending) in aboutToSwapBuffers() hold, and no pass  *)
(* runs without a scene.                                                   *)
NoAssertFails == ~d.loop.fault

(* The assertions hold as long as no flip is unread when the terminal or   *)
(* the scene goes and logind does not get ahead of the kernel; a failing   *)
(* DPMS call does no harm to them.                                         *)
NoFault ==
    env \cap {"flipAtSwitch", "logindRaces", "flipAtRestart",
              "flipAtUnplug"} = {} => NoAssertFails

(* m_pageFlipsPending counts no flip that is not to come.  As long as no   *)
(* flip is unread when the terminal is switched and logind does not get    *)
(* ahead of the kernel, it is the number of flips to come, so the          *)
(* destructor's "wait for pageflips" ends, and the loop waits for a swap   *)
(* exactly until every output has shown its frame; while the session is    *)
(* inactive the loop is blocked by a pending swap instead: deactivate() is *)
(* there to "block compositor" (drm_backend.cpp).                          *)
FlipsCounted ==
    /\ d.flips <= Cardinality(Flights(d))
    /\ env \cap {"flipAtSwitch", "logindRaces"} = {}
          => IF d.active
             THEN /\ d.flips = Cardinality({o \in Outputs : d.events[o] > 0})
                  /\ d.flips > 0 <=> d.loop.swapPending
             ELSE d.loop.swapPending

(* An output of an active session refuses frames only while a flip to an   *)
(* earlier one is under way: reactivate() is there to "restart compositor" *)
(* (drm_backend.cpp).  Only logind getting ahead of the kernel breaks it.  *)
NoFrozenOutput ==
    "logindRaces" \notin env /\ d.active /\ d.vt
        => \A o \in d.buf : d.events[o] > 0

(* While an output is off, input reaches the filter that switches it on:   *)
(* "dpms still disabled, need to keep the filter" (drm_backend.cpp).       *)
FilterWhileOff ==
    "dpmsFails" \notin env =>
        /\ d.on # d.there => d.filter
        /\ "hotplug" \notin env /\ d.filter => d.on # d.there

FrameAskedFor ==
    /\ d.loop.scene /\ d.loop.repaints /\ d.loop.outputs
    /\ d.active /\ ~d.unseen

(* A frame asked for is painted, unless the outputs go off, the session    *)
(* becomes inactive or the scene goes away; whatever the environment does. *)
FramesReachTheScreen ==
    \/ []<>~FrameAskedFor
    \/ []<><<d'.loop.frames # d.loop.frames>>_d
=============================================================================
