-------------------------- MODULE InputConnection ---------------------------
(***************************************************************************)
(* Input on Wayland: LibInput::Connection (libinput/connection.cpp), which *)
(* lives in a thread of its own, and InputRedirection (input.cpp) in the   *)
(* main thread, which share the event queue under a mutex.  The input      *)
(* thread reads libinput's events and tells the main thread once per       *)
(* batch; it also suspends and resumes libinput when the session becomes   *)
(* inactive or active, without taking the mutex.  It reads libinput when   *)
(* that has something new to read from its devices or from udev; what      *)
(* libinput_resume() reports by itself is not new in this sense, and       *)
(* resuming is the one change of state after which nothing is read.        *)
(*                                                                         *)
(* One step is what one thread does between two points where the other one *)
(* can see or change something; a step that takes the mutex is not taken   *)
(* while the other thread holds it.                                        *)
(***************************************************************************)
EXTENDS Naturals, Sequences, FiniteSets, SequencesExt

CONSTANTS
    Devices,        \* input devices that may be plugged in
    Inputs,         \* the kinds of input events, of motion, axis and key
    Capabilities,   \* keyboard, pointer, touch
    Caps,           \* the capabilities of each device
    SetupRaces,     \* doSetup() may run before eventsRead is connected
    MaxEvents,      \* bound: events under way when libinput reports one
    MaxPosted       \* bound: session changes queued for the input thread

ASSUME DevicesAssumption ==
    IsFiniteSet(Devices) /\ Caps \in [Devices -> SUBSET Capabilities]
ASSUME InputsAssumption == Inputs \cap {"added", "removed"} = {}
ASSUME SetupRacesAssumption == SetupRaces \in BOOLEAN
ASSUME MaxEventsAssumption == MaxEvents \in Nat /\ MaxPosted \in Nat

VARIABLES
    lib,            \* what libinput has to report, in order
    readable,       \* its descriptor is readable: devices or udev sent data
    queue,          \* m_eventQueue
    mutex,          \* where processEvents() is: it holds m_mutex unless "free"
    reads,          \* deliveries of eventsRead queued for the main thread
    connected,      \* the main thread has connected eventsRead
    suspended,      \* Context::m_suspended
    wasSuspended,   \* wasSuspended
    before,         \* capabilities with m_...BeforeSuspend
    count,          \* m_keyboard, m_pointer, m_touch
    seat,           \* capabilities the Wayland seat announces
    thread,         \* where the input thread is
    posted,         \* session changes queued for it
    session,        \* LogindIntegration::m_sessionActive
    plugged,        \* devices that are plugged in
    known,          \* devices that libinput has opened
    raced           \* history: deactivate() ran in the midst of processing

mainVars == <<connected, count, seat>>
threadVars == <<suspended, before, thread, posted, raced>>
worldVars == <<session, plugged, known>>
vars == <<lib, readable, queue, mutex, reads, wasSuspended, mainVars,
          threadVars, worldVars>>

Events ==
    [type: {"added", "removed"}, dev: Devices]
        \cup [type: Inputs, dev: {"any"}]

Mergeable(e) == e.type \in {"motion", "axis"}

added(d) == [type |-> "added", dev |-> d]
removed(d) == [type |-> "removed", dev |-> d]

(* Context::assignSeat() has opened the devices that logind hands out.      *)
Init ==
    /\ plugged \in SUBSET Devices /\ known \in SUBSET plugged
    /\ \E order \in SetToSeqs(known) :
          lib = [i \in DOMAIN order |-> added(order[i])]
    /\ readable = FALSE /\ queue = <<>> /\ reads = 0 /\ mutex = "free"
    /\ connected = FALSE /\ suspended = FALSE /\ wasSuspended = FALSE
    /\ before = {} /\ count = [c \in Capabilities |-> 0] /\ seat = {}
    /\ thread = "new" /\ posted = <<>> /\ raced = FALSE
    /\ session \in BOOLEAN

-----------------------------------------------------------------------------
(* The input thread.                                                       *)

(* Mutant of handleEvent: eventsRead is emitted only when the queue has    *)
(* not been empty.                                                         *)
handleEventQuietly ==
    /\ mutex = "free"
    /\ queue' = queue \o lib
    /\ lib' = <<>> /\ readable' = FALSE
    /\ reads' = IF queue # <<>> /\ lib # <<>> THEN reads + 1 ELSE reads

(* Everything libinput has is read; only a queue that was empty wakes the  *)
(* main thread.                                                            *)
handleEvent ==
    /\ mutex = "free"
    /\ queue' = queue \o lib
    /\ lib' = <<>> /\ readable' = FALSE
    /\ reads' = IF connected /\ queue = <<>> /\ lib # <<>>
                THEN reads + 1 ELSE reads

DoSetup ==
    /\ thread = "new"
    /\ SetupRaces \/ connected
    /\ handleEvent
    /\ thread' = "loop"
    /\ UNCHANGED <<mutex, wasSuspended, mainVars, suspended, before, posted,
                   worldVars, raced>>

(* QSocketNotifier::activated.                                             *)
Notified ==
    /\ thread = "loop" /\ readable
    /\ handleEvent
    /\ UNCHANGED <<mutex, wasSuspended, mainVars, threadVars, worldVars>>

(* A session change is for nothing: libinput is in that state already.     *)
IgnoreChange ==
    /\ thread = "loop" /\ posted # <<>>
    /\ Head(posted) # suspended
    /\ posted' = Tail(posted)
    /\ UNCHANGED <<lib, readable, queue, mutex, reads, wasSuspended, mainVars,
                   suspended, before, thread, worldVars, raced>>

(* Context::resume(): libinput opens the devices that logind hands out and *)
(* reports them, to whoever asks next: the descriptor does not become      *)
(* readable, and no handleEvent() follows.                                 *)
Resume ==
    /\ thread = "loop" /\ posted # <<>>
    /\ Head(posted) /\ suspended
    /\ \E opened \in SUBSET plugged : \E order \in SetToSeqs(opened) :
          /\ known' = opened
          /\ lib' = lib \o [i \in DOMAIN order |-> added(order[i])]
    /\ suspended' = FALSE
    /\ thread' = "resumed"
    /\ posted' = Tail(posted)
    /\ UNCHANGED <<readable, queue, mutex, reads, wasSuspended, mainVars,
                   before, session, plugged, raced>>

(* Mutant of MarkResumed: the flag is not set.                             *)
MarkNothing ==
    /\ thread = "resumed"
    /\ thread' = "loop"
    /\ UNCHANGED <<lib, readable, queue, mutex, reads, wasSuspended, mainVars,
                   suspended, before, posted, worldVars, raced>>

(* wasSuspended is set without the mutex.                                  *)
MarkResumed ==
    /\ thread = "resumed"
    /\ wasSuspended' = TRUE
    /\ thread' = "loop"
    /\ UNCHANGED <<lib, readable, queue, mutex, reads, mainVars, suspended,
                   before, posted, worldVars, raced>>

(* deactivate(): what there was before it is read without the mutex.       *)
Deactivate ==
    /\ thread = "loop" /\ posted # <<>>
    /\ ~Head(posted) /\ ~suspended
    /\ before' = {c \in Capabilities : count[c] > 0}
    /\ raced' = (raced \/ wasSuspended \/ mutex # "free" \/ queue # <<>>)
    /\ thread' = "deactivating"
    /\ posted' = Tail(posted)
    /\ UNCHANGED <<lib, readable, queue, mutex, reads, wasSuspended, mainVars,
                   suspended, worldVars>>

(* Context::suspend(): libinput closes its devices and reports that.       *)
Suspend ==
    /\ thread = "deactivating"
    /\ \E order \in SetToSeqs(known) :
          lib' = lib \o [i \in DOMAIN order |-> removed(order[i])]
    /\ known' = {}
    /\ suspended' = TRUE
    /\ thread' = "suspended"
    /\ UNCHANGED <<readable, queue, mutex, reads, wasSuspended, mainVars,
                   before, posted, session, plugged, raced>>

(* The handleEvent() at the end of deactivate().                           *)
ReadAfterSuspend ==
    /\ thread = "suspended"
    /\ handleEvent
    /\ thread' = "loop"
    /\ UNCHANGED <<mutex, wasSuspended, mainVars, suspended, before, posted,
                   worldVars, raced>>

-----------------------------------------------------------------------------
(* The main thread.                                                        *)

(* InputRedirection::setupLibInput(), after conn->setup().                 *)
SetupLibInput ==
    /\ ~connected
    /\ connected' = TRUE
    /\ UNCHANGED <<lib, readable, queue, mutex, reads, wasSuspended, count,
                   seat, threadVars, worldVars>>

(* eventsRead is delivered: processEvents() takes the mutex.               *)
ProcessEvents ==
    /\ reads > 0 /\ mutex = "free"
    /\ reads' = reads - 1
    /\ mutex' = "events"
    /\ UNCHANGED <<lib, readable, queue, wasSuspended, mainVars, threadVars,
                   worldVars>>

(* Events at the front of the queue that are merged with the first one.    *)
mergedFrom(q) ==
    IF ~Mergeable(Head(q)) THEN 1
    ELSE CHOOSE n \in 1..Len(q) :
            /\ \A i \in 1..n : q[i].type = q[1].type
            /\ n = Len(q) \/ q[n + 1].type # q[1].type

(* The handlers of has...Changed() ignore it while libinput is suspended.  *)
deviceAdded(d) ==
    /\ count' = [c \in Capabilities |-> count[c] + IF c \in Caps[d] THEN 1 ELSE 0]
    /\ seat' = IF suspended THEN seat
               ELSE seat \cup {c \in Caps[d] : count[c] = 0}

(* Mutant of deviceRemoved: any device that goes takes its capabilities.   *)
deviceRemovedEntirely(d) ==
    /\ count' = [c \in Capabilities |-> count[c] - IF c \in Caps[d] THEN 1 ELSE 0]
    /\ seat' = IF suspended THEN seat ELSE seat \ Caps[d]

deviceRemoved(d) ==
    /\ count' = [c \in Capabilities |-> count[c] - IF c \in Caps[d] THEN 1 ELSE 0]
    /\ seat' = IF suspended THEN seat
               ELSE seat \ {c \in Caps[d] : count[c] = 1}

(* Mutant of ProcessEvent: an event that ends a run of motions is lost.    *)
ProcessEventGreedily ==
    /\ mutex = "events" /\ queue # <<>>
    /\ LET e == Head(queue)
           n == IF Mergeable(e) /\ mergedFrom(queue) < Len(queue)
                THEN mergedFrom(queue) + 1 ELSE mergedFrom(queue) IN
       /\ queue' = SubSeq(queue, n + 1, Len(queue))
       /\ CASE e.type = "added"   -> deviceAdded(e.dev)
            [] e.type = "removed" -> deviceRemoved(e.dev)
            [] OTHER -> UNCHANGED <<count, seat>>
    /\ UNCHANGED <<lib, readable, mutex, reads, wasSuspended, connected,
                   threadVars, worldVars>>

(* One round of the loop in processEvents().                               *)
ProcessEvent ==
    /\ mutex = "events" /\ queue # <<>>
    /\ LET e == Head(queue)
           n == mergedFrom(queue) IN
       /\ queue' = SubSeq(queue, n + 1, Len(queue))
       /\ CASE e.type = "added"   -> deviceAdded(e.dev)
            [] e.type = "removed" -> deviceRemoved(e.dev)
            [] OTHER -> UNCHANGED <<count, seat>>
    /\ UNCHANGED <<lib, readable, mutex, reads, wasSuspended, connected,
                   threadVars, worldVars>>

(* After the loop: what was there before a suspension and is not now.      *)
ReportMissing ==
    /\ mutex = "events" /\ queue = <<>>
    /\ mutex' = IF wasSuspended THEN "clearing" ELSE "free"
    /\ seat' = IF wasSuspended /\ ~suspended
               THEN seat \ {c \in before : count[c] = 0} ELSE seat
    /\ UNCHANGED <<lib, readable, queue, reads, wasSuspended, connected, count,
                   threadVars, worldVars>>

ClearSuspended ==
    /\ mutex = "clearing"
    /\ wasSuspended' = FALSE
    /\ mutex' = "free"
    /\ UNCHANGED <<lib, readable, queue, reads, mainVars, threadVars,
                   worldVars>>

-----------------------------------------------------------------------------
(* The world: sessions are switched, devices come and go and report input. *)

Room == Len(lib) + Len(queue) < MaxEvents

(* logind's sessionActiveChanged, for which doSetup() connects.            *)
SessionActiveChanged ==
    /\ thread # "new" /\ Len(posted) < MaxPosted /\ Room
    /\ session' = ~session
    /\ posted' = Append(posted, session')
    /\ UNCHANGED <<lib, readable, queue, mutex, reads, wasSuspended, mainVars,
                   suspended, before, thread, plugged, known, raced>>

(* VirtualTerminal::activeChanged(false); true is not passed on.           *)
VtInactive ==
    /\ connected /\ Len(posted) < MaxPosted /\ Room
    /\ posted' = Append(posted, FALSE)
    /\ UNCHANGED <<lib, readable, queue, mutex, reads, wasSuspended, mainVars,
                   suspended, before, thread, worldVars, raced>>

(* libinput follows udev unless it is suspended, and a device that it has  *)
(* opened hangs up when it goes.                                           *)
Plug(d) ==
    /\ d \notin plugged /\ Room
    /\ plugged' = plugged \cup {d}
    /\ readable' = (readable \/ ~suspended)
    /\ \/ /\ ~suspended
          /\ known' = known \cup {d}
          /\ lib' = Append(lib, added(d))
       \/ UNCHANGED <<known, lib>>
    /\ UNCHANGED <<queue, mutex, reads, wasSuspended, mainVars, threadVars,
                   session>>

Unplug(d) ==
    /\ d \in plugged /\ Room
    /\ plugged' = plugged \ {d}
    /\ known' = known \ {d}
    /\ readable' = (readable \/ d \in known \/ ~suspended)
    /\ lib' = IF d \in known THEN Append(lib, removed(d)) ELSE lib
    /\ UNCHANGED <<queue, mutex, reads, wasSuspended, mainVars, threadVars,
                   session>>

Input ==
    /\ known # {} /\ Room
    /\ \E type \in Inputs :
          lib' = Append(lib, [type |-> type, dev |-> "any"])
    /\ readable' = TRUE
    /\ UNCHANGED <<queue, mutex, reads, wasSuspended, mainVars, threadVars,
                   worldVars>>

InputThread ==
    \/ DoSetup \/ Notified \/ IgnoreChange
    \/ Resume \/ MarkResumed
    \/ Deactivate \/ Suspend \/ ReadAfterSuspend

MainThread ==
    \/ SetupLibInput
    \/ ProcessEvents \/ ProcessEvent \/ ReportMissing \/ ClearSuspended

World ==
    \/ SessionActiveChanged \/ VtInactive
    \/ \E d \in Devices : Plug(d) \/ Unplug(d)
    \/ Input

Next == InputThread \/ MainThread \/ World

Spec == Init /\ [][Next]_vars

(***************************************************************************)
(* Both threads run an event loop that delivers notifiers and queued calls *)
(* and goes on with a function it has begun; neither waits for the world.  *)
(* The notifier fires as long as the descriptor is readable; that does not *)
(* read what a resume has left in libinput.                                *)
(***************************************************************************)
FairSpec ==
    /\ Spec
    /\ WF_vars(DoSetup) /\ WF_vars(Notified)
    /\ WF_vars(IgnoreChange \/ Resume \/ Deactivate)
    /\ WF_vars(MarkResumed \/ Suspend \/ ReadAfterSuspend)
    /\ WF_vars(MainThread)

-----------------------------------------------------------------------------
(* Properties.                                                             *)

(* Every member keeps its type: in particular no counter of devices is     *)
(* ever decremented below zero.                                            *)
TypeOK ==
    /\ lib \in Seq(Events) /\ queue \in Seq(Events)
    /\ mutex \in {"free", "events", "clearing"} /\ reads \in 0..1
    /\ {connected, suspended, wasSuspended} \subseteq BOOLEAN
    /\ {readable, session, raced} \subseteq BOOLEAN
    /\ before \in SUBSET Capabilities /\ seat \in SUBSET Capabilities
    /\ count \in [Capabilities -> Nat]
    /\ thread \in {"new", "loop", "resumed", "deactivating", "suspended"}
    /\ posted \in Seq(BOOLEAN)
    /\ known \in SUBSET plugged /\ plugged \in SUBSET Devices

(* Events in the queue are always about to be processed: eventsRead, which *)
(* is emitted only when the queue was empty, is under way once, or         *)
(* processEvents() is running.  A signal too few would be the last one.    *)
NoLostWakeup ==
    /\ queue # <<>> => reads = 1 \/ mutex = "events"
    /\ reads > 0 => queue # <<>> /\ mutex = "free"

(* Nothing is under way between libinput and the seat.                     *)
Settled ==
    /\ lib = <<>> /\ queue = <<>> /\ posted = <<>>
    /\ thread = "loop" /\ mutex = "free"

Present == UNION {Caps[d] : d \in known}

(* Once things settle in a session that is not suspended, what the seat    *)
(* announces includes every device there is, and the counters agree with   *)
(* libinput, however plugging and switching were interleaved.  After a     *)
(* resume things may stay unsettled until some device sends input, see     *)
(* ChannelSpec.                                                            *)
SeatHasWhatIsThere ==
    Settled /\ ~suspended =>
        /\ Present \subseteq seat
        /\ \A c \in Capabilities :
              count[c] = Cardinality({d \in known : c \in Caps[d]})

(* And it announces no more than that, once processEvents() has seen that  *)
(* libinput was suspended: a device that was unplugged meanwhile is gone.  *)
(* The exception is a session that was suspended in the midst of           *)
(* processing or again before it: the counters that deactivate() saves     *)
(* then are not what the seat announces.                                   *)
SeatDropsWhatIsGone ==
    Settled /\ ~suspended /\ ~wasSuspended /\ ~raced => seat \subseteq Present

(* libinput reports it without having been sent anything.                  *)
Silent(e) == e.type = "added"

(* A handleEvent() is certain to come: the notifier will fire, or the      *)
(* input thread is in a function that ends with one.                       *)
ReadIsDue == readable \/ thread \in {"new", "deactivating", "suspended"}

Noticed == IF ReadIsDue THEN Len(queue \o lib) ELSE Len(queue)

(* The events of libinput reach the main thread (libinput/connection.cpp)  *)
(* in order and exactly once.  They do reach it, too, with the exception   *)
(* of the devices that a resume adds: these wait in libinput for the next  *)
(* event that makes the descriptor readable, or for the next suspension.   *)
Channel ==
    INSTANCE EventChannel WITH pending <- queue \o lib, noticed <- Noticed

ChannelSpec == Channel!Spec
=============================================================================
