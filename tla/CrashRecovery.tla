---------------------------- MODULE CrashRecovery ----------------------------
(***************************************************************************)
(* How KWin on X11 survives its own crashes and those of the OpenGL driver *)
(* (crashChecking() and crashHandler() in main.cpp, performStartup() in    *)
(* main_x11.cpp, OpenGLIsUnsafe in composite.cpp and compositingprefs.cpp). *)
(* The crash handler starts a new process with --crashes n.  What one      *)
(* process has learned reaches the next through that number, which is      *)
(* forgotten after 15 seconds, and through kwinrc, of which each process   *)
(* has its own copy in memory.                                             *)
(*                                                                         *)
(* A crash may happen between any two steps.  The environment variable     *)
(* KWIN_COMPOSE is not set: with O, X or Q it makes Options report that    *)
(* compositing is wanted whatever Enabled says, so that a driver that      *)
(* crashes in painting is used again after the second crash.               *)
(***************************************************************************)
EXTENDS Naturals

CONSTANTS
    MaxOther,       \* bound: crashes that are not the driver's
    MaxLate,        \* bound: crashes in painting after the 15 seconds
    MaxAsks,        \* bound: the user turns compositing on
    MaxResets,      \* bound: the user resets OpenGLIsUnsafe
    MaxSessions     \* bound: logins and restarts chosen in the dialog

ASSUME CrashBoundsAssumption ==
    {MaxOther, MaxLate, MaxAsks, MaxResets, MaxSessions} \subseteq Nat

Phases == {"start", "claim", "setup", "creating", "up", "dialog", "gone"}
Drivers == {"good", "init", "paint"}
Kwinrc == [enabled: BOOLEAN, unsafe: BOOLEAN]

VARIABLES
    pc,             \* how far the process is; "gone": another WM, or none
    crashes,        \* Application::crashes
    timer,          \* resetCrashesCount() is due in 15 seconds
    other,          \* what an older process holds: "none", the "redirect"
                    \* of the root window, or WM_S0, the "selection", too
    mem, disk,      \* group Compositing of kwinrc, in memory and as a file
    dirty,          \* Enabled was changed in memory, and not synced since
    suspended,      \* m_suspended has UserSuspend
    scene,          \* there is a scene
    driver,         \* OpenGL works, or crashes in createScene() or paint()
    crashed,        \* history: the last start was the crash handler's
    initCrashes,    \* history: crashes in createScene()
    count           \* how often each bounded event has happened

process == <<pc, crashes, timer, other>>
settings == <<mem, disk, dirty>>
compositor == <<suspended, scene>>
recoveryVars == <<process, settings, compositor, driver, crashed,
                  initCrashes, count>>

Events == {"other", "late", "asks", "resets", "sessions"}
Bound == [other |-> MaxOther, late |-> MaxLate, asks |-> MaxAsks,
          resets |-> MaxResets, sessions |-> MaxSessions]
Counted(e) == /\ count[e] < Bound[e]
              /\ count' = [count EXCEPT ![e] = @ + 1]

RecoveryInit ==
    /\ pc = "start" /\ crashes = 0 /\ timer = FALSE
    /\ other \in {"none", "redirect", "selection"}
    /\ disk \in Kwinrc /\ mem = disk /\ dirty = FALSE
    /\ suspended = FALSE /\ scene = FALSE
    /\ driver \in Drivers
    /\ crashed = FALSE /\ initCrashes = 0
    /\ count = [e \in Events |-> 0]

-----------------------------------------------------------------------------
(* Start-up.                                                               *)

(* Mutant of crashChecking: compositing is never given up.                 *)
crashCheckingOnlyAsks ==
    /\ UNCHANGED settings
    /\ IF crashes >= 4 THEN pc' = "dialog" /\ UNCHANGED timer
                       ELSE pc' = "claim" /\ timer' = TRUE

(* crashChecking(): the entry Enabled is written, and not synced.  An      *)
(* entry that has that value already is not written at the next sync.      *)
crashChecking ==
    IF crashes >= 4
    THEN pc' = "dialog" /\ UNCHANGED <<timer, settings>>
    ELSE /\ pc' = "claim" /\ timer' = TRUE
         /\ IF crashes >= 2 THEN /\ mem' = [mem EXCEPT !.enabled = FALSE]
                                 /\ dirty' = (dirty \/ mem.enabled)
                            ELSE UNCHANGED <<mem, dirty>>
         /\ UNCHANGED disk

Check ==
    /\ pc = "start"
    /\ crashChecking
    /\ UNCHANGED <<crashes, other, compositor, driver, crashed, initCrashes,
                   count>>

wasCrash == crashes > 0

(* performStartup(): claim() with force takes the selection away from a    *)
(* process that crashed; that may still have the root window, and then     *)
(* only a process that was not started by a crash exits.  The constructor  *)
(* of Compositor takes Enabled from the options, which would ignore it if  *)
(* KWIN_COMPOSE forced compositing.                                        *)
Claim ==
    /\ pc = "claim"
    /\ IF other # "none" /\ ~wasCrash
       THEN pc' = "gone" /\ UNCHANGED <<other, suspended>>
       ELSE pc' = "setup" /\ other' = "none" /\ suspended' = ~mem.enabled
    /\ UNCHANGED <<crashes, timer, settings, scene, driver, crashed,
                   initCrashes, count>>

-----------------------------------------------------------------------------
(* The compositor.                                                         *)

(* KConfig::sync(): what this process has changed since the last one goes  *)
(* to the file, here the Enabled of crashChecking().                       *)
synced == [disk EXCEPT !.enabled = @ /\ ~dirty]

writeUnsafe(u) ==
    /\ mem' = [mem EXCEPT !.unsafe = u]
    /\ disk' = [synced EXCEPT !.unsafe = u]
    /\ dirty' = FALSE

(* Mutant of markUnsafe: the mark does not reach the file.                 *)
markUnsafeInMemory ==
    mem' = [mem EXCEPT !.unsafe = TRUE] /\ UNCHANGED <<disk, dirty>>

(* OpenGLIsUnsafe is in the file before createScene() is called.           *)
markUnsafe == writeUnsafe(TRUE)

(* Compositor::setup() and compositingPossible().                          *)
Setup ==
    /\ pc = "setup"
    /\ IF suspended \/ mem.unsafe THEN pc' = "up" /\ UNCHANGED settings
                                  ELSE pc' = "creating" /\ markUnsafe
    /\ UNCHANGED <<crashes, timer, other, compositor, driver, crashed,
                   initCrashes, count>>

(* createScene() returns, with or without a scene.                         *)
Created ==
    /\ pc = "creating" /\ driver # "init"
    /\ pc' = "up"
    /\ scene' \in BOOLEAN
    /\ writeUnsafe(FALSE)
    /\ UNCHANGED <<crashes, timer, other, suspended, driver, crashed,
                   initCrashes, count>>

(* resetCrashesCount().                                                    *)
Stable ==
    /\ pc = "up" /\ timer
    /\ crashes' = 0 /\ timer' = FALSE
    /\ UNCHANGED <<pc, other, settings, compositor, driver, crashed,
                   initCrashes, count>>

-----------------------------------------------------------------------------
(* Crashes.                                                                *)

(* Mutant of crashHandler: the new process is not told.                    *)
crashHandlerUncounted == crashes' = 0

(* crashHandler(): --crashes for the new process.                          *)
crashHandler == crashes' = crashes + 1

(* Another process begins with the file and without a scene; the old one   *)
(* may be there still, stopped by the tool that reports the crash.         *)
restart ==
    /\ pc' = "start" /\ timer' = FALSE /\ dirty' = FALSE
    /\ suspended' = FALSE /\ scene' = FALSE
    /\ UNCHANGED driver

crash ==
    /\ crashHandler /\ restart
    /\ other' \in {"none", "redirect", "selection"}
    /\ mem' = disk /\ UNCHANGED disk
    /\ crashed' = TRUE

CrashInit ==
    /\ pc = "creating" /\ driver = "init"
    /\ crash
    /\ initCrashes' = initCrashes + 1
    /\ UNCHANGED count

(* Painting; the count of crashes in a row starts again after Stable.      *)
CrashPaint ==
    /\ pc = "up" /\ scene /\ driver = "paint"
    /\ IF timer THEN UNCHANGED count ELSE Counted("late")
    /\ crash
    /\ UNCHANGED initCrashes

CrashOther ==
    /\ pc \in {"claim", "setup", "creating", "up"}
    /\ Counted("other")
    /\ crash
    /\ UNCHANGED initCrashes

-----------------------------------------------------------------------------
(* The user and the session.                                               *)

(* Something writes kwinrc, the virtual desktops for example.              *)
Sync ==
    /\ pc = "up" /\ dirty
    /\ disk' = synced /\ dirty' = FALSE
    /\ UNCHANGED <<process, mem, compositor, driver, crashed, initCrashes,
                   count>>

(* slotToggleCompositing().                                                *)
Toggle ==
    /\ pc = "up"
    /\ IF suspended THEN /\ suspended' = FALSE /\ pc' = "setup"
                         /\ Counted("asks") /\ UNCHANGED scene
                    ELSE /\ suspended' = TRUE /\ scene' = FALSE
                         /\ UNCHANGED <<pc, count>>
    /\ UNCHANGED <<crashes, timer, other, settings, driver, crashed,
                   initCrashes>>

(* slotReinitialize(): KConfig::reparseConfiguration() syncs first.        *)
Reinitialize ==
    /\ pc = "up" /\ Counted("asks")
    /\ disk' = synced /\ dirty' = FALSE
    /\ mem' = disk'
    /\ suspended' = FALSE /\ scene' = FALSE /\ pc' = "setup"
    /\ UNCHANGED <<crashes, timer, other, driver, crashed, initCrashes>>

(* Compositing::save() of the control module, another process; its signal  *)
(* reinit is Reinitialize, which may not come (KWin may be starting).      *)
Save ==
    /\ Counted("asks")
    /\ \E enabled \in BOOLEAN : disk' = [disk EXCEPT !.enabled = enabled]
    /\ UNCHANGED <<process, mem, dirty, compositor, driver, crashed,
                   initCrashes>>

(* Compositing::reenableOpenGLDetection() of the control module.           *)
ReenableOpenGLDetection ==
    /\ disk.unsafe /\ Counted("resets")
    /\ disk' = [disk EXCEPT !.unsafe = FALSE]
    /\ UNCHANGED <<process, mem, dirty, compositor, driver, crashed,
                   initCrashes>>

fresh == crashes' = 0 /\ crashed' = FALSE /\ other' = "none" /\ restart

(* AlternativeWMDialog: KWin again, another window manager, or cancelled.  *)
Choose ==
    /\ pc = "dialog"
    /\ \/ /\ Counted("sessions") /\ fresh
          /\ mem' = disk /\ UNCHANGED <<disk, initCrashes>>
       \/ /\ pc' = "gone"
          /\ UNCHANGED <<crashes, timer, other, settings, compositor, driver,
                         crashed, initCrashes, count>>

(* The session ends; the destructor of Workspace syncs.                    *)
Login ==
    /\ pc \in {"up", "gone"} /\ Counted("sessions") /\ fresh
    /\ disk' = IF pc = "up" THEN synced ELSE disk
    /\ mem' = disk'
    /\ UNCHANGED initCrashes

(* The machine is reset.                                                   *)
PowerLoss ==
    /\ Counted("sessions") /\ fresh
    /\ mem' = disk /\ UNCHANGED <<disk, initCrashes>>

RecoveryNext ==
    \/ Check \/ Claim \/ Setup \/ Created \/ Stable
    \/ CrashInit \/ CrashPaint \/ CrashOther
    \/ Sync \/ Toggle \/ Reinitialize
    \/ Save \/ ReenableOpenGLDetection \/ Choose \/ Login \/ PowerLoss

RecoverySpec == RecoveryInit /\ [][RecoveryNext]_recoveryVars

(* A process that runs goes on, and createScene() returns or crashes.      *)
FairRecoverySpec ==
    /\ RecoverySpec
    /\ WF_recoveryVars(Check) /\ WF_recoveryVars(Claim)
    /\ WF_recoveryVars(Setup)
    /\ WF_recoveryVars(Created) /\ WF_recoveryVars(CrashInit)

-----------------------------------------------------------------------------
(* Properties.                                                             *)

(* Every member keeps its type.                                            *)
RecoveryTypeOK ==
    /\ pc \in Phases /\ crashes \in Nat /\ timer \in BOOLEAN
    /\ other \in {"none", "redirect", "selection"}
    /\ mem \in Kwinrc /\ disk \in Kwinrc /\ dirty \in BOOLEAN
    /\ suspended \in BOOLEAN /\ scene \in BOOLEAN /\ driver \in Drivers
    /\ crashed \in BOOLEAN /\ initCrashes \in Nat /\ count \in [Events -> Nat]

(* "Some broken drivers crash on glXQuery() so to prevent constant KWin    *)
(* crashes" (composite.cpp): a driver that crashes in createScene() does   *)
(* so once, in whatever session, until the user resets the protection.     *)
GlCrashNotRepeated == initCrashes <= 1 + count["resets"]

(* A broken driver alone costs the user the effects and never the window   *)
(* manager: unless something else crashes or the user insists, KWin does   *)
(* not end up asking for another window manager, and a process that was    *)
(* started by a crash does not give way to the one that crashed.  (The     *)
(* user insists as well by setting KWIN_COMPOSE, see the Enabled that      *)
(* Claim reads; this is not modelled.)                                     *)
DriverIsSurvived ==
    count["other"] = 0 /\ count["asks"] = 0 =>
        pc # "dialog" /\ (pc = "gone" => ~crashed)

(* The restarts come to an end: from some time on KWin is up, or has asked *)
(* for another window manager.  (Crashes more than 15 seconds apart are    *)
(* bounded in the model; the code restarts after each of them.)            *)
SettlesDown == <>[](pc \in {"up", "dialog", "gone"})
=============================================================================
