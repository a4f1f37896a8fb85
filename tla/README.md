# A TLA+ model of KWin

KWin is the window manager and compositor of KDE Plasma. This directory models the
parts of it that decide *when* something happens and *who* gets it: the compositor's
life cycle and rendering loop, the DRM backend that throttles it, the way to the
session and its devices, the input thread, the loading of effects, the recovery from
crashes, the resize protocol with X11 clients, the choice of the active window and the
transient relation behind the stacking order. `PROJECT.json` lists runs, proofs, the
source lines behind every definition, hazards and findings; this file explains them.

## The system

KWin is one process with one event loop, a thread for input and threads that search
for effects. Most concurrency is between *callbacks*: X events, D-Bus calls, timers,
signals of the kernel, page flip events, and calls that KWin posts to its own event
loop (`QMetaObject::invokeMethod(..., Qt::QueuedConnection)`). A callback runs to its
end, but what it read when it posted a call may have changed when the call runs. A
module takes one callback of the event loop as one step, except where two threads
share data (`InputConnection`): there a step ends wherever the other thread can look.

| Component | State | Operations | Talks to |
|---|---|---|---|
| Rendering loop (`composite.cpp`) | composite timer, repaint regions, pending swap, pass deferred to it | `addRepaint`, `scheduleRepaint`, `performCompositing`, `setCompositeTimer`, `aboutToSwapBuffers`, `bufferSwapComplete` | scene and backend (calls), windows (signals) |
| Compositor life cycle (`composite.cpp`) | scene, suspend reasons, `_NET_WM_CM` selection, release and reset timers, posted calls | `setup`, `finish`, `suspend`, `resume`, `restart`, `slotReinitialize`, `slotToggleCompositing`, `updateCompositeBlocking` | Options, Workspace, GLX backend, D-Bus |
| DRM backend (`backends/drm`) | outputs, active session, pending page flips, current buffer and DPMS mode per output, input filter | `present`, `pageFlipHandler`, `activate`, `reactivate`, `deactivate`, `queryResources`, `turnOutputsOn`, `checkOutputsAreOn` | Compositor (calls), VirtualTerminal and logind (signals), kernel |
| VirtualTerminal | active flag, kernel's side of the switch | release and acquisition signals, `activate`, `init`, `setup` | DRM backend, logind |
| LogindIntegration | connection, session, control, Active property, terminal number | `takeControl`, `getSession`, D-Bus replies and signals | DRM backend, libinput |
| libinput connection | locked event queue, suspended flag, device counters | `handleEvent` (thread), `processEvents`, `deactivate` | input redirection, logind, seat |
| Effect loader | per loader a queue and a search, the loaded effects | `queryAndLoadAll`, `enqueue`, `dequeue`, `loadEffect`, `clear` | effects handler, configuration |
| Crash handling | crash counter, `OpenGLIsUnsafe` and `Enabled` in memory and on disk | start, crash, alternative window manager | Compositor, X server, control module |
| X11 clients: resize | sync counter, alarm, pending request, two timers | `getSyncCounter`, `sendSyncRequest`, `syncEvent`, `doResizeSync`, `leaveMoveResize` | client, X server |
| Groups and transients | groups, `WM_TRANSIENT_FOR`, main windows and transients | `checkTransient`, `checkGroup`, `checkGroupTransients`, `setTransient`, `cleanGrouping` | Workspace, stacking order |
| Stacking order (`layers.cpp`) | unconstrained and shown order | `constrainedStackingOrder`, `restack` | transients, focus chains |
| Focus chains (`focuschain.cpp`) | one list per desktop, the most recently used list | `update`, `remove`, `resize`, `moveAfterClient`, `nextForDesktop`, `getForActivation` | Workspace, TabBox |
| Activation (`activation.cpp`) | active and last active client, clients asked to take the focus, client of the delayed focus | `setActiveClient`, `requestFocus`, `activateNextClient`, `activateClient`, `delayFocus`, focus events | X server, focus chains, virtual desktops |
| Virtual desktops | number, current one | `setCurrent`, `setCount` | Workspace and focus chains (signals in connection order) |
| Tab groups, screen edges, shell clients, window switcher | lists of windows, timers | see `PROJECT.json` | Workspace |
| Scenes, effects, decorations, rules, placement, configuration modules | data and graphics | painting, geometry, matching | everything |

What is hard in this code, and what the properties are about:

* **The loop must not fall asleep.** The timer is stopped in four places of
  `performCompositing()` and started in one; damage, swap reports, visibility and
  output changes come in any order. (`NoLostRepaint`, `FramesReachTheScreen`) And when
  it runs, the delay is a 64 bit time that passes through `int` and `unsigned`.
  (`RetraceIsMet`)
* **Swaps are paired.** `aboutToSwapBuffers()` and `bufferSwapComplete()` assert that
  they alternate, but they are called from painting, idling, X events, page flips,
  terminal switches and unplugged outputs. (`NoFault`, `FlipsCounted`)
* **Posted calls act on a changed world.** A posted `setup()`, `suspend()` or
  `resume()` may run after the reason for it is gone; a queued effect may be loaded or
  unloaded meanwhile. (`SuspendedMeansOff`, `OffForAReason`, `LoadedOnce`)
* **Two parties report the same event.** The kernel and logind both say that the
  session is active; the alarm and the timers both end a sync request.
  (`NoFrozenOutput`, `WaitIsTimed`)
* **A signal is sent once.** The input thread tells the main thread about a batch only
  when the queue was empty; a loader posts one `dequeue()`. (`NoLostWakeup`,
  `ChannelSpec`, `OneDequeueUnderWay`, `EnabledGetsLoaded`) The counters of the devices
  are read by both threads. (`SeatHasWhatIsThere`, `SeatDropsWhatIsGone`)
* **Another process stops, or answers late.** logind is restarted between two messages,
  a client hangs in the middle of a resize. (`InStepAtRest`, `OneTakeControl`,
  `ControlledOnce`, `DeviceOpened`, `OneRequest`, `ShownEventually`)
* **KWin itself crashes.** What is remembered was written before the crash, by a
  process that shares the file with others. (`GlCrashNotRepeated`, `DriverIsSurvived`,
  `SettlesDown`)
* **Something fails half way.** A scene that cannot be created after the selection was
  claimed; an output that refuses to be switched on after the filter was dropped.
  (`SelectionFollowsScene`, `SelectionReleased`, `FilterWhileOff`)
* **Raw pointers in lists.** Focus chains, `should_get_focus`, `delayfocus_client` and
  the transient lists hold windows that are deleted by other callbacks.
  (`NoDanglingClient`, `TransiencyMatches`)
* **The focus is granted late.** KWin asks the X server for the focus and learns about
  it in an event. (`ActiveIsVisible`, `FocusPassedOn`)
* **Signals in connection order.** Removing desktops moves clients before the chains
  are resized. (`ListedWhereItLives`)
* **A relation edited from six functions.** Transients and main windows, for windows
  that may point at each other. (`NoShortLoops`,
  `NoTransientLoops`) The stacking order follows it in a loop that goes back up.
  (`LiftingEnds`, `TransientsOnTop`)

## Modules

Handlers of this code call one another deeply (`slotReinitialize()` is `finish()` and
`setup()`, and `setup()` may run a whole painting pass). Where that is so a module
keeps the object's members in **one record variable**, and a member function is an
operator from the record to the record it leaves behind; an action applies one handler.
Components with flat handlers (`InputConnection`, `EffectLoader`, `CrashRecovery`,
`SyncRequest`) have one variable per member. Operators carry the names of the C++
functions.

* **`RepaintLoop`** - the rendering loop as pure operators on a record. A painting pass
  is described by what the loop cannot control (`Frame`): an effect asks for another
  pass, posting the frame announces a swap, the frame is kept in the back buffer.
  `Awake`, `Deferred` and `TimerHasScene` are the loop's own invariant. `Awake` accepts a
  pass deferred to a pending swap; whether that swap will be reported the loop cannot
  know, so `NoLostRepaint` of `Compositor` and of `DrmBackend` ask for it.
* **`Compositor`** - the life cycle on X11 with a GLX or XRender scene, using
  `RepaintLoop`. `posted` is Qt's queue of invocations. `Outcomes` is what creating a
  scene may come to. `m_starting` is not initialised by the constructor, so `Init`
  leaves it open. Three history members: `overridden` (the user cleared the suspension
  by window), `excuse` (the last scene failed or was taken over) and `orphaned` (a scene
  was finished with a swap in flight, whose report is lost with its filter); `fault` records
  an assertion that failed or a null scene that was dereferenced.
* **`RepaintTiming`**, **`CompositorTiming`** - the intervals and delays of the composite
  timer as pure operators with C++'s truncating division and conversions to `int` and
  `uint`; `InTime` says what the delay aims at, and what becomes of it where `VBlankTime`
  is too long for that, and `RetraceIsMet` asks it of every
  start of the timer in `Compositor`. Ticks per millisecond and the range of `int` are
  scaled down together in the run.
* **`DrmBackend`** - `RepaintLoop` throttled by page flips, with VirtualTerminal, logind's
  signal, DPMS and hotplug. Events not read from the DRM descriptor are counted per
  output, because the descriptor is not read while the terminal is away. The variable
  `env` is fixed in a behaviour: which faults its surroundings show.
* **`Logind`** - LogindIntegration with `VirtualTerminal::init()`, `DrmBackend::init()`
  and `openDrm()` on one side and logind on the other; between them two sequences of
  messages, in which calls, answers and signals cross. Control, session and device are
  booleans; Qt connections that accumulate are counted (`openers`).
* **`InputConnection`** - both threads with the mutex, the two queues and the seat. A
  step of a thread that needs the mutex waits while `processEvents()` holds it. `lib` is
  what libinput has to report, `readable` whether its descriptor says so: devices and
  udev make it readable, `libinput_resume()` does not, and it is the one change after
  which `connection.cpp` calls no `handleEvent()` (lines 117-118; compare 124 and 136).
  Consecutive motions may be merged, as `processEvents()` does. Two history members
  record what the code does not protect (`raced`: `deactivate()` read the counters
  while they were being changed) and which devices libinput knows.
* **`EventChannel`** - what `InputConnection` promises: a sequence of events of which
  like motions at the front are delivered at once, everything else singly, all in order
  and none twice; and that what has been *noticed* is delivered in the end. Only devices
  added (`Silent`) may be produced without a notice, and wait for the next one.
  `InputConnection` implements it with `pending <- queue \o lib` and `noticed <- Noticed`:
  all of it while a `handleEvent()` is certain to come, else what is in the queue.
* **`EffectLoader`** - the three loaders, their queues and searches, and the handler's
  `effect_order` as a count per effect.
* **`CrashRecovery`** - processes one after the other. `mem` and `disk` are the group
  Compositing in memory and as a file, and `dirty` says that Enabled was changed in memory since the
  last sync, which writes it once; `KWIN_COMPOSE` is unset; the driver is good, or crashes in
  `createScene()`, or when painting. History: `crashed`, `initCrashes` and the counters
  of bounded events.
* **`SyncRequest`** - one window, its client and the part of the X server that keeps
  counter and alarm. A counter is known by the number of its advertisement; an alarm
  stays on the counter it was created for, and a client that has advertised again may
  answer with one or the other. `unresolved` (history): `isPending` was left set without
  a timer, until something else ends that wait.
* **`Transients`** - groups and the transient relation in one record; what the code
  reads in the order of a list (members of a group) is kept as a sequence. A loop over a
  list is a walk of `Lists`.
* **`StackingOrder`** - the loop of `constrainedStackingOrder()` over the relation of
  `Transients`, evaluated in every reachable state for every order asked for.
  `liftRound` is one round of the loop; a loop that has not ended after `Rounds` rounds
  is taken for one that never does.
* **`Lists`** - `QList::removeAll()` and the walk along a list (`Through`) as recursive
  functions.
* **`FocusChain`** - the chains as pure operators. The loops of `Activation` over clients
  are recursive functions on positions, so that they can be proved about.
* **`Activation`** - active client, virtual desktops and X11 clients around them, using
  `FocusChain`. `expected` is `should_get_focus`, `delayed` the client of
  `delayFocusTimer`. What the code reads from the stacking order (in which order
  windows are hidden, which window of an application is the lowest) is an arbitrary
  choice.
* **`CompositorProofs`** (with `RepaintLoop` and `CompositorTiming`) and the other
  **`...Proofs`** - lemmas and theorems about `Compositor`, `DrmBackend`, `Logind`,
  `Activation`, `InputConnection`, `StackingOrder` (with `Transients`) and, in
  `SmallComponentsProofs`, `EffectLoader`, `CrashRecovery` and `SyncRequest`.
  **`ListTheorems`** has the lemmas about lists and recursive functions that `Activation`
  and `StackingOrder` share.
* **`MC...`** - instances for TLC.

`RepaintLoop` is composed into `Compositor` and `DrmBackend`, `FocusChain` into
`Activation`, `Transients` into `StackingOrder`, `RepaintTiming` into
`CompositorTiming`.

Operators introduced by a comment "Mutant of ..." are faulty versions of the definition
after them; `PROJECT.json` says which property each one breaks.

## Runs

| Run | Instance | Shows |
|---|---|---|
| `compositor_safety` | two windows, two queued calls, swap events, a backend that blocks for the retrace | no lost repaint and every scene rendered, unless one was finished during a swap; assertions, suspension, selection, never off by accident |
| `compositor_live` | one window, one queued call, no swap events, `KWIN_COMPOSE` set or not; rates, frame limits and render times below | every frame asked for is painted; an unused selection is given up; the timer meets the retrace, or waits 250 ms where `VBlankTime` cannot be kept |
| `drm` | two outputs in six environments | see the table below |
| `activation` | two windows of two applications, up to three desktops, several unanswered requests for the focus, Focus Follows Mouse, previews of hidden windows kept | chains agree with windows and desktops, no dangling window, active window visible, focus passed on |
| `input_connection` | two devices that share a capability, motions and keys, three events under way | the connection implements `EventChannel`, with the liveness of what is noticed; no lost wake-up; the seat announces the devices there are |
| `logind` | two restarts, two refusals, two switches under way | in step at rest, one `TakeControl`, the device opened once, and in the end |
| `effect_loader` | three effects, one per loader, overlapping searches | one `dequeue()` per queue, loaded once, enabled effects get loaded |
| `crash_recovery` | three kinds of drivers, crashes and power loss between any two steps | a crash at start is not repeated, a bad driver is survived, restarts end |
| `sync_request` | a client that answers late, never, or advertises three counters | one request at a time per advertised counter, every wait timed but for two, the window shown |
| `stacking` | three windows, one a splash screen and one a dialog, pointing at each other | relation kept both ways, the way up ends, none for each other; for every order the loop ends with transients on top |
| `transient_loops` | four windows: a group window, its dialog, a splash screen and another window; expects a violation | a splash screen mapped last closes a loop of four transients (`NoTransientLoops`, a finding) |
| `drm_stale_flip` | one output; expects a violation | a page flip event read after the terminal came back makes the counter negative, and a later switch fails an assertion of `composite.cpp` (`NoAssertFails`, a finding) |

`drm` has an environment per behaviour. What a property excludes is what the backend
turned out not to survive (see the scenarios):

| Environment | `NoFault` | `FlipsCounted` | `NoFrozenOutput` | `FilterWhileOff` | `NoLostRepaint`, `FramesReachTheScreen` |
|---|---|---|---|---|---|
| `dpmsFails` | yes | yes | yes | - | yes |
| `dpmsFails`, `flipAtRestart` | - | yes | yes | - | yes |
| `flipAtSwitch` | - | - | yes | yes | yes |
| `flipAtRestart`, `logindRaces` | - | - | - | yes | yes |
| `hotplug` | yes | yes | yes | one way | yes |
| `hotplug`, `flipAtUnplug` | - | yes | yes | one way | yes |

("One way": an output that is off has the filter, but unplugging that output leaves the
filter installed with nothing to switch on, until the next input. With `hotplug` the last
column excepts outputs that were plugged in while all others were off, `unseen`. The "-"
of `FlipsCounted` are about the exact count; that no flip is counted that does not come
holds in every row, and `NoLostRepaint` builds on it: a deferred pass waits for
`reactivate()`, or for a positive count of flips all of which are to come.)

Distinct states: `compositor_safety` 256068, `compositor_live` 8014, `drm` 127601,
`input_connection` 536528, `crash_recovery` 394635, `sync_request` 12363.

### Bounds

* `Windows` (Compositor): a second window is needed for one to block while another one
  stops; a third would only repeat the roles. Symmetric. `MaxPosted` bounds the queue
  when a callback starts; a callback may still post several calls. Two calls are enough
  for a call to be decided on before, and run after, a contrary one.
* `Rates`, `MaxFps`, `VBlankTimes`, `RenderTimes`: 0 Hz (unknown), 1 Hz,
  ordinary and absurd rates, frame limits below and above them, no, the default-like
  and a long `VBlankTime`, and passes from nothing to longer than several frames, so
  that every branch of the delay and its saturation at 250 ms is reached. `Milli` = 4
  ticks and `IntLimit` = 8192 (2^31 in the code) keep the ratio that matters: a second
  fits in an `int`, a few do not.
* `Outputs`: two, so that a swap waits for several flips; one of them is the primary
  one, which is not presented without damage and not unplugged. `MaxEvents`: unread
  flips per output, two to let a stale flip and a fresh one coexist. One queued call at
  a time, and two undelivered values of logind's Active property when it races.
* `Clients`, `MaxDesktops`: one window takes the focus that the other one loses; with
  three desktops the current one, or others, are added and removed, two at once.
  `MaxExpected` bounds `should_get_focus` when a callback starts; two let a window be
  released that was asked before another one. What more windows add (which of several is
  next, restacking below the lowest of an application) is covered by the proofs, which
  are for any number.
* `Devices` (InputConnection): two with a common capability, so that one of them going
  must not take it away. Three events (`MaxEvents`) make a run of motions that is cut
  by a key; one session change waits for the input thread while another is handled.
* `MaxRestarts`, `MaxRefusals`, `MaxSwitches`: a restart or a refusal during the set-up
  and one after it; two signals to be crossed by one answer.
* `MaxSearches` = 1 search under way with a finished one not yet delivered lets searches
  overlap; `MaxQueue` bounds the queue when a loader is asked.
* `MaxOther` = 4 is the number of crashes in a row that brings up the dialog; two late
  crashes, three wishes of the user, two resets and two sessions let each be followed
  by the same once more.
* `MaxValue`, `MaxReads`: four requests cover the first frame and a resize with a retry,
  three counters a late answer to an old one.
* `Windows` (StackingOrder): a mutual relation needs two, a transient left behind by a
  lifted one three; one group leader besides the application's. With three windows
  `checkGroupTransients()` meets every loop; the shortest it misses has four
  (`MCFourWindows`, where properties are narrowed to those the loop needs). A window may
  change its properties once before KWin reads them (`MaxNotify`). `Rounds`, four times
  the square of the number of windows, is more than a loop that ends takes: were it too
  small, `LiftingEnds` would fail.
* `frames` counts 0, 1, 2, 1, 2, ...: enough to see that a further frame was painted.

### Fairness

All fairness is weak: each such step stays enabled until it is taken. Users, clients,
devices and faults have none.

* Compositor and DRM: the event loop delivers posted calls, timers and signals (Qt
  guarantees it while the process runs), the driver reports a swap or flip it accepted
  (the kernel's contract), and a Deleted window is released when its effect ends.
* Input: both threads are scheduled and go on with a function they have begun. The
  notifier (`Notified`) is enabled, and thus fair, only while the descriptor is readable:
  nothing makes the thread read what a resume has left in libinput.
* logind: KWin handles its messages, logind answers calls and systemd starts it again.
  Refusals of control are bounded, and so `DeviceOpened` is about a logind that gives it
  in the end.
* Effect loader: a search ends, and its signal and `dequeue()` are delivered.
* Crash recovery: a process that runs goes on, and `createScene()` returns or crashes.
* Sync requests: timers fire and events of the X server are read; a client need not
  ever answer.

The activation and stacking modules state safety and action properties only: nothing
obliges a window to accept the focus. Logind, crash recovery and sync requests may come
to rest (`CHECK_DEADLOCK FALSE`): their bounds are used up, or the user has left KWin.

## Scenarios the code does not survive

Found while modelling, and the reason why a property excludes something. The first
contradicts an assertion, the second a comment; they have the runs `drm_stale_flip` and
`transient_loops`.

* **Stale flip.** `reactivate()` sets `m_pageFlipsPending` to 0 while the event of an
  earlier flip is unread; the count goes to -1 and `assert(m_bufferSwapPending)`
  fails at a later switch (`flipAtSwitch`).
* **A loop of four transients.** A window with WM_TRANSIENT_FOR on the root window,
  mapped after another one of its group, has a dialog; the other one names the splash
  screen, which is mapped last and becomes transient for the dialog. No two are transient
  for each other, so `checkGroupTransients()` calls `removeTransientFromList()` for an
  entry that is not there (`hasTransient(..., true)` has found a way over a third
  window), and the loop stays. `findModal()` and others follow it without a check, and
  `constrainedStackingOrder()` may run for ever; `LiftingEnds` excepts loops.
* **Restart during a swap.** `finish()` keeps `m_bufferSwapPending`, but the filter that
  would report the swap goes with its scene. With swap events the next scene waits for a
  report that does not come: its first frame and every later wake-up are lost. The
  history member `orphaned` is the one exception of `NoLostRepaint` and
  `RendersAtLeastOnce`; both are checked and proved with swap events.
* **Resumed but not read.** After `resume()` nobody calls `handleEvent()` and nothing makes
  libinput's descriptor readable: the devices that come back are announced, and the saved
  counters compared, only when one of them sends something or the session is suspended
  again (`Silent`; met when the liveness of `ChannelSpec` was asked of the notifier).
* **Blocking windows.** A window that blocks and stops before the queued `suspend()` runs
  posts no `resume()`, as the bit is not set yet: compositing stays off although no
  window blocks; and the mirror image.
* **logind before the kernel.** `activate()` runs from logind's signal, `present()` asks
  VirtualTerminal, and an output keeps a buffer that no flip releases (`logindRaces`).
* **Flip between finish and setup.** `restart()` posts `setup()`; a flip event in between
  runs a pass without a scene (`flipAtRestart`). **Unplugged while flipping.**
  `queryResources()` deletes an output whose flip is pending; the event arrives with a
  pointer to it (`flipAtUnplug`; counted as a fault).
* **Plugged in while all are off.** `queryResources()` creates an output that is on, but
  nobody tells the Compositor, which was told that all are off and stopped its timer. It
  learns better when another output goes off (`checkOutputsAreOn()`), and no repaint is
  scheduled then: with three outputs the screen waits for the next damage (`unseen`; met
  when the proof of `NoLostRepaint` for any number of outputs failed).
* **DPMS refused.** `turnOutputsOn()` drops the filter before it asks the outputs, so one
  whose driver refuses stays off until something other than input switches it on.
* **Very fast displays.** `VBlankTime` (6 ms by default) is longer than the interval above
  166 Hz; adding one interval may not make the delay positive, and as an unsigned
  number it becomes 250 ms, or 0 if less than 1 ms is lacking. `InTime` says so. Where a
  frame limit spans several retraces the delay may aim at a later retrace than the first
  possible one; `InTime` allows that.
* **logind restarted.** `m_sessionControl` stays set, so `takeControl()` does nothing for
  the new connection and devices are refused; `DeviceOpened` excepts that outcome.
* **Connected too late.** `setup()` posts `doSetup()` to the input thread before
  `eventsRead` is connected. If the thread reads first, the signal reaches nobody and,
  as the queue is no longer empty, is not sent again. `SetupRaces` = TRUE lets it happen
  and breaks `NoLostWakeup`; run and theorem have FALSE.
* **Suspended during processing.** `deactivate()` reads the counters without the mutex; a
  device unplugged meanwhile may stay announced (`raced`).
* **First request given up.** The failsafe timer of the first frame leaves `isPending`
  set without a timer, and so does a counter advertised during the 33 ms of a client
  without one: the next resize waits for an answer nobody owes (`unresolved`).
* **Sticky windows** are missing from the chains of desktops added later, and when the
  current desktop is removed its windows arrive after the focus was settled, so nobody
  has it. `ListedWhereItLives` and `FocusPassedOn` say so.
* **Wayland windows** are not moved from removed desktops (`workspace.cpp:1082`), and
  their removal leaves `last_active_client` and other pointers (`workspace.cpp:402`).

## Proofs

| Module | Theorems | For every |
|---|---|---|
| `CompositorProofs` | `TypeCorrect`, `RepaintsAreNotLost`, `AssertionsHold`, `SuspensionHolds`, `SelectionIsGuarded`, `NeverOffByAccident`, `FirstFrameRendered`, `RetracesAreMet` | set of windows, queue bound, driver, environment, refresh rate and configuration |
| `DrmBackendProofs` | `DrmInvariant`, `TypeCorrect`, `RepaintsAreNotLost`, `AssertionsHold`, `FlipsAreCounted`, `OutputsAreNotFrozen`, `FilterFollowsOutputs` | finite set of outputs, environment, bound on unread events |
| `LogindProofs` | `LogindInvariant`, `TypeCorrect`, `OneTakeControlUnderWay`, `DeviceOpenedOnce`, `SessionInStep` | number of restarts, refusals and switches |
| `ActivationProofs` | `ActivationInvariant`, `TypeCorrect`, `NoDangling`, `ListedRight`, `ActiveVisible`, `FocusAlwaysPassedOn` | finite set of clients, their applications, number of desktops, focus policy, kind of previews, stacking order, bound on requests |
| `InputConnectionProofs` | `ChannelIsImplemented` (the refinement of `EventChannel`'s safety), `SeatInvariant`, `TypeCorrect`, `SeatIsComplete`, `SeatIsExact`; `WakeupIsNotLost` (assumes `SetupRaces` = FALSE) | finite set of devices, their capabilities, kind of input, bound |
| `StackingOrderProofs` | `RelationsInvariant`, `RelationsTypeCorrect`, `TransiencyAlwaysMatches`, `MainWindowsAlwaysEnd`, `NeverMutualTransients`, `NeverShortLoops`, `TransientsAlwaysOnTop` | finite set of windows, their leaders, hints and properties, splash screens and dialogs, bound on events |
| `SmallComponentsProofs`, of `EffectLoader` | `LoaderTypeCorrect`, `QueueIsServed`, `NeverLoadedTwice` | finite set of effects, configuration, number of searches |
| `SmallComponentsProofs`, of `CrashRecovery` | `RecoveryTypeCorrect`, `CrashesOnce`, `DriverNeverFatal` | number of crashes, resets and sessions |
| `SmallComponentsProofs`, of `SyncRequest` | `SyncTypeCorrect`, `AlwaysTimed`, `NeverTwoRequests` | number of requests and counters |

The assumptions are the named ASSUMEs on the constants. There is one lemma per function
or action, and the theorems follow by `PTL`. Few of the properties are inductive alone:

* **Compositor.** The invariant is `Inv`: the record is well typed and satisfies `Base`
  and `Off`. `Sound` is what holds even in the middle of a callback: the loop's own
  invariant, `LoopInv` - `Awake`, a pass is deferred only to a pending swap (otherwise
  `bufferSwapComplete()` would be the only wake-up and might never come), and the timer
  runs only with a scene - and: a scene is not starting; a swap in flight is pending and
  belongs to the current scene, which is why the assertion in `bufferSwapComplete()`
  cannot fail although X events are late; and the other way round, a pending swap is in
  flight or a scene was `orphaned`, so a deferred pass is released; an owned selection without a scene has the
  release timer running; and a scene has rendered, or was
  started after an orphaned swap. `Base` is `Sound` and what holds again whenever `finish()` or `setup()`
  returns: a suspended compositor has no scene, and a scene owns the selection. `Off` is
  `OffForAReason` of a record. It needs a step of its own because `restart()` passes
  through states in which only a call still to be queued brings compositing back.
* **The timer's delay.** `RetracesAreMet` needs no induction: whatever the members hold,
  the delay is right. The intervals are bounded by a second and the delay by an
  interval and a frame, so no conversion to `int` loses anything (that to `unsigned` does,
  exactly when `VBlankTime` lacks 1 ms or more)
  (`2000 * Milli < IntLimit`); the truncating division is bounded from both sides
  instead of computed, as the provers know little of products of variables.
* **DrmBackend.** `Good` has parts that hold in fewer and fewer environments: `Always` (the
  loop is sound and awake) in all of them; `InStep` (the backend follows the terminal
  and a buffer waits for a flip) unless logind races; `Counted` (the kernel has at most
  one flip of an output, and a swap is pending exactly for the flips to come, or to block
  an inactive session) unless a flip is unread at a switch; `Faultless` if nothing else
  goes away during a flip; `FilterFollows` unless DPMS calls fail. A handler passes
  through states in which the swap and the flips disagree (`present()` counts a flip,
  the loop announces the swap later), so the lemmas describe `present()`, `composite()`,
  `reactivate()` and `pageFlipHandler()` member by member before they conclude a part.
  TLC checked `Good` with two and three outputs. A second invariant, `Flying`, holds in
  every environment: `flips` is at most the number of unread events (`Flights`, a set of
  pairs, which `MoreFlights` counts when outputs flip), and an active backend has a swap
  pending only for a positive count. It gives `RepaintsAreNotLost` the flip that releases
  a deferred pass, and `FlipsAreCounted` its upper bound.
* **Logind.** Messages cross, so every fact comes in three stages: it is known, or a
  message that tells it is in the inbox behind everything that contradicts it, or a call
  that will be answered with it is under way. `Gone`, `Known`, `Searched`, `Followed` and
  `Numbered` say this of the connection, the session, its Active property and its
  terminal; `Single` ties `s_recursionCheck` to the one call or answer, `Steady` holds
  until the first restart. The lemmas say how taking the head of a queue and adding at
  its end change `Has`, `Last` and `AtMostOne`.
* **Activation.** `ActivationInv` is `Good`, with the clients of the moment, and `Sized`
  (a chain per desktop, clients on desktops that exist). `Good` is `ListsKnown` and
  `FocusKnown` (lists and pointers hold known clients, lists hold them once), `Listed`
  (where it lives), `Shown` and `ActiveShown`. `Shown` is what the properties do not say:
  a window is mapped exactly when it can be seen. `updateVisibility()` calls
  `clientHidden()` only when the mapping changes, so without it a hidden client could
  stay active; a FocusIn event of a visible client needs it too. `Good(s, K)` has the set
  `K` as a parameter because `manage()` works on a client that is not yet in the list of
  clients, and `release()` on one that no longer is. Loops over lists are recursive
  functions: `Reached` gives induction up to a length from the cardinality of intervals,
  `Recursion` that a function with given steps exists, `Carried` that a fact is kept from
  step to step; `RemoveAll`, `Inserted` and `Appended` say what a list holds afterwards.
  `FocusAlwaysPassedOn` is about steps: a client that wants the focus and lives on the
  current desktop is in that desktop's chain (`Listed`), so `Found` finds one there, and
  what is found can be seen (`Waiting`, `Passed`). The active window was mapped (`Shown`),
  so its hiding is noticed; `HiddenPasses`, `NextPassed` and `SwitchedPasses` follow the
  request to the end of the callback, in which nothing asks for an invisible window.
  The steps that do not hide the active client fall out by `SamePlacePasses`.
  The proof found that `makeFirstInChain` was written with overlapping cases, of which
  only TLC's order of evaluation chose the right one; it is a chain of conditions now,
  as in the code.
* **InputConnection.** The refinement needs types only (`ChannelType`): reading libinput
  leaves `queue \o lib` as it is and notices all of it, reports are added at its end, and a round of
  `processEvents()` takes one event or a run of like motions from its front. That a
  longest run exists is `RunExists`, by the cardinality of a set of lengths, as
  induction is not available. The wake-up needs `WakeInv`: a signal under way finds a
  queue that is not empty and a free mutex, a queue that is not empty has a signal or a
  reader, and the signal is connected. The seat needs `SeatInv`. Its heart is `Tracked`:
  the pending events tell a *story*, a sequence of sets of devices that starts with what
  the main thread has counted and ends with what libinput has opened, each event adding
  or removing one; and a capability that is not announced has, somewhere on the way, no
  device - so that its next device will be seen to be the first. A counter below zero is
  excluded by the same story. `Dropped` follows the saved counters through suspending,
  resuming and the comparison, as long as nothing `raced`. Neither depends on
  `SetupRaces`. TLC checked `SeatInv` with two devices.
* **Transients.** `IInv` is `Sound`, `Ending` and `NoMutual`. `Sound(g, K)` is
  `TransiencyMatches` taken apart, for the windows `K` that are in a group (those of
  `clients`, and one that `manage()` is about to add): `m_transientFor` follows
  `m_transientForId` (`Tied`), groups and members match (`Grouped`), an entry in a list is
  there by WM_TRANSIENT_FOR or by its group (`Listed`), and a main window lists its
  transients (`MainsList`). None is inductive without the others, as `cleanGrouping()`
  and `removeFromMainClients()` find lists by the members of the group. `Ending` is kept
  because `verifyTransientFor()` looks at the whole way up from a new main window
  (`leadsTo`), which is closed, so no set without an end can contain the new link.
  `NoMutual` is broken and repaired within a step: joining a group makes mutual pairs
  that contain the joining window only, removing from lists makes none, and
  `checkGroupTransients()` is a double walk along the members: `checkPair` of two
  members leaves that pair free of mutual relations and every later one keeps it so,
  which needs that a new pair is never formed with `Sound` kept at every stage. TLC
  checked the invariant with three windows.
* **StackingOrder.** `TransientsAlwaysOnTop` holds in each state by the invariant. The
  loop over positions has an invariant of its own, `Lifted`: the order holds the same
  windows, and every transient above position `i` is above its main windows. Lifting a
  window that has transients goes back to its new place, so what it may have left behind
  lies at or below `i`; lifting one whose list is empty keeps the rest, because a window
  with an empty list is nobody's main window, directly or not (`NoTransients`). Since it
  holds for any number of rounds, the value of `Rounds` does not matter. That the loop
  ends (`LiftingEnds`) is not proved: a window may have to be lifted more than once (a
  splash screen that stays below a dialog, when a main window of its own is lifted above
  that dialog), so the number of rounds needs a measure over whole orders, and `Rounds`
  is known to suffice for the three windows of the run only.
* **EffectLoader.** `LoaderInv`: types, and both properties together; `clear()`, the
  searches and the handler's destruction keep the queue, the flag and the posted call in
  step.
* **CrashRecovery.** `GlInv`: each crash in `createScene()` is paid for by the mark in the
  file or by a reset, a call under way is covered already, and a process knows of a
  mark that is on disk. `DriverInv`: the second crash in a row makes compositing
  impossible in every phase of the next process, and a process started by a crash still
  knows it when it claims the selection.
* **SyncRequest.** `WaitInv` adds what holds before the window is managed. `NeverTwoRequests`
  counts: requests, events on their way and
  `Free` (KWin has a counter and waits for nothing) never exceed the advertisements read.
  An advertisement pays for one request: it is an event first, then the freedom to send,
  then the request, then the alarm's event, which may give the freedom back (`OneInv`).

Only model checked: liveness, as the prover has no fairness (`FramesReachTheScreen`,
`SelectionReleased`, `DeviceOpened`, `EnabledGetsLoaded`, `SettlesDown`,
`ShownEventually`, and the delivery of noticed events in `ChannelSpec`, of which the
safety half is proved);
`LiftingEnds`, as said. Every other safety property of a passing run is a theorem.

## Not modelled

Graphics (scenes, effects, decorations), geometry and placement, rules, configuration
modules and thin wrappers have no protocol state; `PROJECT.json` says so for each. They
are most of the repository's lines. Within the modelled parts: unredirected windows, the
hardware cursor and mode setting, tab groups, activities, shading, the desktop window,
showing the desktop, separate screen focus, changes of a window's input hint after it was
managed, modal dialogs, docks and layers of fullscreen groups in the stacking order, the
contents of input events, `KWIN_COMPOSE` in `CrashRecovery`, `releaseControl()` (nothing calls it), a `MaxFPS` of 0 (which
divides by zero; excluded by `ConfigurationAssumption`), and Wayland windows.

## Plan

1. Proofs: a bound on the rounds for any number of windows, for `LiftingEnds`.
2. An abstract contract of a throttled loop that `Compositor` and `DrmBackend` refine.
3. The nested Wayland backend as a third user of `RepaintLoop`, whose scenes connect
   `frameRendered` again after each restart.
4. Shell clients in `Activation` (synchronous focus, unmapping without removal), tab
   groups, showing the desktop; `Transients` joined with `Activation` for modal windows.
5. Window switcher (`DesktopChain`), screen edges, unredirection.
