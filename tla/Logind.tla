------------------------------- MODULE Logind -------------------------------
(***************************************************************************)
(* How KWin gets its session, its terminal and its graphics device from    *)
(* logind: LogindIntegration (logind.cpp), VirtualTerminal::init() and     *)
(* setup(), and DrmBackend::init() and openDrm().  Everything but          *)
(* TakeDevice is asynchronous: calls and answers are messages of the       *)
(* system bus, between which logind may be restarted, the session may be   *)
(* switched and control of it may be refused.                              *)
(*                                                                         *)
(* One step of KWin is one message handled by the event loop; the bus      *)
(* keeps the order of what it delivers to one peer.                        *)
(***************************************************************************)
EXTENDS Naturals, Sequences, FiniteSets

CONSTANTS
    MaxRestarts,    \* bound: how often logind is restarted
    MaxRefusals,    \* bound: how often TakeControl fails
    MaxSwitches     \* bound: PropertiesChanged signals under way

ASSUME BoundsAssumption ==
    {MaxRestarts, MaxRefusals, MaxSwitches} \subseteq Nat

VARIABLE l

Calls == {"ListNames", "GetSessionByPID", "Active", "VTNr", "TakeControl"}
Signals == {"PropertiesChanged", "Registered", "Unregistered"}

(***************************************************************************)
(* KWin: init (DrmBackend::init() has run); connected, control, active and *)
(* vtnr (m_vt is known) of LogindIntegration, which also has watched (it   *)
(* receives PropertiesChanged) and calling (s_recursionCheck); retry       *)
(* (takeControl() is connected to connectedChanged), openers (how often    *)
(* openDrm() is connected to hasSessionControlChanged), announced (the     *)
(* backend's lambda is connected to connectedChanged), tty (VirtualTerminal *)
(* has its terminal), waits (setup() is connected to virtualTerminal-      *)
(* Changed), opened (how often the device was opened).                     *)
(* The bus: calls to logind and inbox, the messages for KWin.              *)
(* logind: up, whether it knows the session, whether that is active and    *)
(* controlled by KWin; restarts and refusals count for the bounds.         *)
(***************************************************************************)
Type ==
    [init: BOOLEAN, connected: BOOLEAN, control: BOOLEAN, active: BOOLEAN,
     vtnr: BOOLEAN, watched: BOOLEAN, calling: BOOLEAN, retry: BOOLEAN,
     announced: BOOLEAN, openers: Nat, tty: BOOLEAN, waits: BOOLEAN,
     opened: Nat, calls: Seq(Calls),
     inbox: Seq([type: Calls, ok: BOOLEAN, value: BOOLEAN]
                \cup [type: Signals]),
     up: BOOLEAN, registered: BOOLEAN, isActive: BOOLEAN,
     controlled: BOOLEAN, restarts: Nat, refusals: Nat]

-----------------------------------------------------------------------------
(* LogindIntegration and its users.                                        *)

call(s, c) == [s EXCEPT !.calls = Append(@, c)]

(* Mutant of takeControl: it does not matter that a call is under way.     *)
takeControlAgain(s) ==
    IF ~s.connected \/ s.control THEN s
    ELSE call([s EXCEPT !.calling = TRUE], "TakeControl")

takeControl(s) ==
    IF ~s.connected \/ s.control \/ s.calling THEN s
    ELSE call([s EXCEPT !.calling = TRUE], "TakeControl")

(* VirtualTerminal::init(); setup() does nothing the second time.          *)
vtInit(s) ==
    LET up == [s EXCEPT !.tty = @ \/ s.vtnr, !.waits = TRUE]
    IN  IF s.connected THEN takeControl(up) ELSE [up EXCEPT !.retry = TRUE]

(* openDrm(), whose takeDevice() blocks until logind has answered.         *)
openDrm(s) ==
    LET up == vtInit(s)
    IN  IF s.up /\ s.controlled THEN [up EXCEPT !.opened = @ + 1] ELSE up

(* hasSessionControlChanged: openDrm() runs whatever the signal says, and  *)
(* once per connection.  After the first time it only opens the device:    *)
(* the terminal is set up and control has been asked for.                  *)
sessionControlChanged(s) ==
    LET opens == IF s.up /\ s.controlled THEN s.openers ELSE 0
    IN  IF s.openers = 0 THEN s ELSE [vtInit(s) EXCEPT !.opened = @ + opens]

(* The lambda of DrmBackend::init().                                       *)
backendTakeControl(s) ==
    IF s.control THEN openDrm(s)
    ELSE [takeControl(s) EXCEPT !.openers = @ + 1]

(* connectedChanged, which is emitted for a lost connection, too.          *)
connectedChanged(s) ==
    LET drm == IF s.announced THEN backendTakeControl(s) ELSE s
    IN  IF s.retry THEN takeControl(drm) ELSE drm

(* Mutants of sessionFound: what is set up already is set up again; the    *)
(* current state is not asked for.                                         *)
sessionFoundAgain(s, ok) ==
    IF ~ok THEN s
    ELSE connectedChanged(
            call(call([s EXCEPT !.connected = TRUE, !.watched = TRUE],
                      "Active"), "VTNr"))

sessionFoundUnread(s, ok) ==
    IF s.connected \/ ~ok THEN s
    ELSE connectedChanged(
            call([s EXCEPT !.connected = TRUE, !.watched = TRUE], "VTNr"))

(* The answer of GetSessionByPID.                                          *)
sessionFound(s, ok) ==
    IF s.connected \/ ~ok THEN s
    ELSE connectedChanged(
            call(call([s EXCEPT !.connected = TRUE, !.watched = TRUE],
                      "Active"), "VTNr"))

(* The answer of Get for VTNr: virtualTerminalChanged the first time.      *)
vtFound(s, ok) ==
    IF ok THEN [s EXCEPT !.vtnr = TRUE, !.tty = @ \/ s.waits] ELSE s

(* Mutant of controlTaken: a refusal leaves s_recursionCheck set.          *)
controlTakenOnce(s, ok) ==
    sessionControlChanged([s EXCEPT !.calling = ~ok, !.control = @ \/ ok])

(* The answer of TakeControl.                                              *)
controlTaken(s, ok) ==
    sessionControlChanged([s EXCEPT !.calling = FALSE, !.control = @ \/ ok])

(* PropertiesChanged calls getSessionActive() and getVirtualTerminal().    *)
propertiesChanged(s) ==
    IF s.connected THEN call(call(s, "Active"), "VTNr") ELSE s

serviceUnregistered(s) == connectedChanged([s EXCEPT !.connected = FALSE])

handle(s, m) ==
    CASE m.type = "PropertiesChanged" -> propertiesChanged(s)
      [] m.type = "Registered"        -> call(s, "GetSessionByPID")
      [] m.type = "Unregistered"      -> serviceUnregistered(s)
      [] m.type = "ListNames" ->
            IF m.value THEN call(s, "GetSessionByPID") ELSE s
      [] m.type = "GetSessionByPID"   -> sessionFound(s, m.ok)
      [] m.type = "Active" -> [s EXCEPT !.active = IF m.ok THEN m.value ELSE @]
      [] m.type = "VTNr"              -> vtFound(s, m.ok)
      [] m.type = "TakeControl"       -> controlTaken(s, m.ok)

-----------------------------------------------------------------------------
(* The steps.                                                              *)

(* LogindIntegration's constructor has asked for the names on the bus.     *)
Init ==
    \E up \in BOOLEAN, registered \in BOOLEAN, isActive \in BOOLEAN :
        l = [init |-> FALSE, connected |-> FALSE, control |-> FALSE,
             active |-> FALSE, vtnr |-> FALSE, watched |-> FALSE,
             calling |-> FALSE, retry |-> FALSE, announced |-> FALSE,
             openers |-> 0, tty |-> FALSE, waits |-> FALSE, opened |-> 0,
             calls |-> <<"ListNames">>, inbox |-> <<>>, up |-> up,
             registered |-> registered, isActive |-> isActive,
             controlled |-> FALSE, restarts |-> 0, refusals |-> 0]

(* DrmBackend::init().                                                     *)
BackendInit ==
    /\ ~l.init
    /\ l' = IF l.connected
            THEN backendTakeControl([l EXCEPT !.init = TRUE])
            ELSE [l EXCEPT !.init = TRUE, !.announced = TRUE]

Handle ==
    /\ l.inbox # <<>>
    /\ l' = handle([l EXCEPT !.inbox = Tail(@)], Head(l.inbox))

answer(s, ok, value) ==
    [s EXCEPT !.calls = Tail(@),
              !.inbox = Append(@, [type |-> Head(s.calls), ok |-> ok,
                                   value |-> value])]

(* logind, or the bus for a service that is not there, answers a call.     *)
Answer ==
    /\ l.calls # <<>> /\ Head(l.calls) # "TakeControl"
    /\ l' = CASE Head(l.calls) = "ListNames" -> answer(l, TRUE, l.up)
              [] Head(l.calls) = "GetSessionByPID" ->
                    answer(l, l.up /\ l.registered, FALSE)
              [] Head(l.calls) = "Active" -> answer(l, l.up, l.isActive)
              [] Head(l.calls) = "VTNr"   -> answer(l, l.up, FALSE)

GiveControl ==
    /\ l.calls # <<>> /\ Head(l.calls) = "TakeControl"
    /\ l' = [answer(l, l.up, FALSE) EXCEPT !.controlled = l.up]

(* Another process controls the session.                                   *)
RefuseControl ==
    /\ l.calls # <<>> /\ Head(l.calls) = "TakeControl"
    /\ l.refusals < MaxRefusals
    /\ l' = [answer(l, FALSE, FALSE) EXCEPT !.refusals = @ + 1]

(* logind goes away: the bus says so and answers the calls with errors.    *)
LogindStops ==
    /\ l.up /\ l.restarts < MaxRestarts
    /\ l' = [l EXCEPT !.up = FALSE, !.controlled = FALSE, !.calls = <<>>,
                      !.restarts = @ + 1,
                      !.inbox = Append(@, [type |-> "Unregistered"]) \o
                          [i \in DOMAIN l.calls |->
                              [type |-> l.calls[i], ok |-> FALSE,
                               value |-> FALSE]]]

LogindStarts ==
    /\ ~l.up
    /\ l' = [l EXCEPT !.up = TRUE,
                      !.inbox = Append(@, [type |-> "Registered"])]

(* The session is switched; the signal reaches KWin once it listens.       *)
SwitchSession ==
    /\ l.up /\ l.registered
    /\ Len(l.inbox) + Len(l.calls) < MaxSwitches
    /\ l' = [l EXCEPT !.isActive = ~@,
                      !.inbox = IF l.watched
                                THEN Append(@, [type |-> "PropertiesChanged"])
                                ELSE @]

Next ==
    \/ BackendInit \/ Handle
    \/ Answer \/ GiveControl \/ RefuseControl
    \/ LogindStops \/ LogindStarts
    \/ SwitchSession

Spec == Init /\ [][Next]_l

(* The event loop, the bus and logind get on with what they were sent.     *)
FairSpec ==
    /\ Spec
    /\ WF_l(BackendInit) /\ WF_l(Handle) /\ WF_l(LogindStarts)
    /\ WF_l(Answer \/ GiveControl \/ RefuseControl)

-----------------------------------------------------------------------------
(* Properties.                                                             *)

(* Every member keeps its type.                                            *)
TypeOK == l \in Type

(* When no message is under way, KWin knows its session if logind does,    *)
(* m_sessionActive is what logind says, and the terminal is taken over,    *)
(* although its number may arrive before or after the backend asks for it: *)
(* also when logind starts or is restarted, or the session is switched,    *)
(* between any two messages of the set-up.                                 *)
InStepAtRest ==
    l.calls = <<>> /\ l.inbox = <<>> /\ l.up =>
        /\ l.connected = l.registered
        /\ l.connected => /\ l.active = l.isActive
                          /\ l.vtnr /\ (l.waits => l.tty)

(* There is one TakeControl under way at most, although several parties    *)
(* ask for it: s_recursionCheck is about the call, not about recursion.    *)
OneTakeControl ==
    Cardinality({i \in DOMAIN l.calls : l.calls[i] = "TakeControl"})
        + Cardinality({i \in DOMAIN l.inbox : l.inbox[i].type = "TakeControl"})
      = IF l.calling THEN 1 ELSE 0

(* As long as logind is not restarted, hasSessionControl() is true only if *)
(* it is so, and the graphics device is opened once, however often control *)
(* was refused before.  (A restart leaves m_sessionControl set, and the    *)
(* signal for the lost connection makes the backend open again.)           *)
ControlledOnce ==
    l.restarts = 0 => /\ l.control => l.controlled
                      /\ l.opened <= 1

(* The graphics device is opened in the end, if logind knows the session   *)
(* and does not refuse control for ever: after refusals, and after a       *)
(* restart of logind, unless that took away control KWin believes to have. *)
DeviceOpened ==
    l.registered ~> (l.opened > 0 \/ (l.control /\ ~l.controlled))
=============================================================================
