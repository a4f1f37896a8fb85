----------------------------- MODULE SyncRequest -----------------------------
(***************************************************************************)
(* _NET_WM_SYNC_REQUEST: how an X11 client and KWin agree on when a frame  *)
(* of a resize, or the first frame of a window, is drawn (getSyncCounter(), *)
(* sendSyncRequest(), syncEvent(), doResizeSync(), leaveMoveResize()).     *)
(* KWin asks with a message that carries a number; the client draws and    *)
(* sets its counter to that number; the X server tells KWin through an     *)
(* alarm.  A client may be slow, hang, or advertise its counter anew; two  *)
(* timers of KWin go on without it.                                        *)
(*                                                                         *)
(* One window, resized without an effect that paints the resize.           *)
(***************************************************************************)
EXTENDS Naturals, Sequences

CONSTANTS
    MaxValue,       \* bound: requests sent to one counter
    MaxReads        \* bound: how often the counter is advertised

ASSUME SyncBoundsAssumption == {MaxValue, MaxReads} \subseteq Nat

VARIABLES
    counter,        \* syncRequest.counter: which advertisement it was read
                    \* from, 0 for XCB_NONE
    alarm,          \* syncRequest.alarm, 0 for XCB_NONE
    value,          \* syncRequest.value
    isPending,      \* syncRequest.isPending
    timeout,        \* syncRequest.timeout, which applies the geometry
    failsafe,       \* syncRequest.failsafeTimeout
    ready,          \* ready_for_painting
    phase,          \* "new", "shown" (managed) or "resize"
    behind,         \* the frame has not the size the client was given
    reads,          \* how often a counter was advertised
    requests,       \* messages the client has not answered
    server,         \* the alarm KWin created last, if any, the counter that
                    \* it watches and the value it waits for
    events,         \* events of the X server for KWin
    unresolved      \* history: isPending was left set without a timer, by a
                    \* first request given up or a counter read meanwhile

kwin == <<counter, alarm, value, isPending, timeout, failsafe, ready>>
window == <<phase, behind>>
client == <<reads, requests, server>>
syncVars == <<kwin, window, client, events, unresolved>>

Timers == {"none", "stopped", "running"}
SyncEvents == [type: {"alarm"}, alarm: Nat, value: Nat]
              \cup [type: {"property"}, counter: Nat, same: BOOLEAN]

SyncInit ==
    /\ counter = 0 /\ alarm = 0 /\ value = 0 /\ isPending = FALSE
    /\ timeout = "none" /\ failsafe = "none" /\ ready = FALSE
    /\ phase = "new" /\ behind = FALSE
    /\ reads = 0 /\ requests = <<>>
    /\ server = [counter |-> 0, next |-> 1, alarm |-> 0]
    /\ events = <<>> /\ unresolved = FALSE

-----------------------------------------------------------------------------
(* Requests.                                                               *)

(* Mutant of sendSyncRequest: it does not matter that one is pending.      *)
sendSyncRequestAgain(c, number) ==
    IF c = 0
    THEN UNCHANGED <<isPending, failsafe, requests>> /\ value' = number
    ELSE /\ value' = number + 1
         /\ requests' = Append(requests, number + 1)
         /\ isPending' = TRUE /\ failsafe' = "running"

(* Mutant of sendSyncRequest: the failsafe timer is not started again.     *)
sendSyncRequestUntimed(c, number) ==
    IF c = 0 \/ isPending
    THEN UNCHANGED <<isPending, failsafe, requests>> /\ value' = number
    ELSE /\ value' = number + 1
         /\ requests' = Append(requests, number + 1)
         /\ isPending' = TRUE
         /\ failsafe' = IF failsafe = "none" THEN "running" ELSE failsafe

(* sendSyncRequest(), with the counter and the value it finds.             *)
sendSyncRequest(c, number) ==
    IF c = 0 \/ isPending
    THEN UNCHANGED <<isPending, failsafe, requests>> /\ value' = number
    ELSE /\ value' = number + 1
         /\ requests' = Append(requests, number + 1)
         /\ isPending' = TRUE /\ failsafe' = "running"

(* getSyncCounter(): the counter that was read is set to 0, and gets an    *)
(* alarm only when there is none; the alarm that is there keeps its        *)
(* counter and its value.  That is the same counter or another one.        *)
getSyncCounter(read, same) ==
    /\ counter' = read
    /\ IF alarm # 0
       THEN /\ server' = [server EXCEPT !.counter = IF same THEN 0 ELSE @]
            /\ UNCHANGED alarm
       ELSE \/ /\ alarm' = read
               /\ server' = [counter |-> 0, next |-> 1, alarm |-> read]
            \/ /\ server' = [counter |-> 0, next |-> 1, alarm |-> 0]
               /\ UNCHANGED alarm

(* manage(): the counter is read, and the first frame asked for.           *)
Manage ==
    /\ phase = "new" /\ phase' = "shown"
    /\ reads' \in {0, 1} /\ counter' = reads'
    /\ alarm' \in {0, reads'} /\ server' = [server EXCEPT !.alarm = alarm']
    /\ \E compositing \in BOOLEAN :
          IF compositing
          THEN sendSyncRequest(reads', 0) /\ UNCHANGED ready
          ELSE /\ ready' = TRUE
               /\ UNCHANGED <<isPending, failsafe, requests, value>>
    /\ UNCHANGED <<timeout, behind, events, unresolved>>

(* damageNotifyEvent() and addDamage().                                    *)
Damage ==
    /\ phase # "new"
    /\ ~(isPending /\ phase = "resize") /\ ~ready /\ counter = 0
    /\ ready' = TRUE
    /\ UNCHANGED <<counter, alarm, value, isPending, timeout, failsafe,
                   window, client, events, unresolved>>

-----------------------------------------------------------------------------
(* Resizing.                                                               *)

(* handleMoveResize() with a new size, and doResizeSync(): the client is   *)
(* given its size at once, the frame follows.                              *)
Motion ==
    /\ phase # "new"
    /\ ~(phase = "resize" /\ isPending)
    /\ value < MaxValue
    /\ phase' = "resize" /\ behind' = TRUE /\ timeout' = "running"
    /\ IF counter # 0 THEN sendSyncRequest(counter, value)
                       ELSE /\ isPending' = TRUE
                            /\ UNCHANGED <<value, failsafe, requests>>
    /\ UNCHANGED <<counter, alarm, ready, reads, server, events, unresolved>>

(* timeout: performMoveResize(), after 250 ms with a counter or after 33   *)
(* without; "NEVER do this for clients with a valid counter".              *)
Timeout ==
    /\ timeout = "running"
    /\ timeout' = "stopped" /\ behind' = FALSE
    /\ isPending' = (isPending /\ counter # 0)
    /\ unresolved' = (unresolved /\ isPending')
    /\ UNCHANGED <<counter, alarm, value, failsafe, ready, phase, client,
                   events>>

(* finishMoveResize() and leaveMoveResize(), which apply the geometry.     *)
Finish ==
    /\ phase = "resize" /\ phase' = "shown" /\ behind' = FALSE
    /\ isPending' = (isPending /\ counter # 0)
    /\ unresolved' = (unresolved /\ isPending')
    /\ timeout' = "none"
    /\ UNCHANGED <<counter, alarm, value, failsafe, ready, client, events>>

(* Mutant of failsafeTimeout: a window without a frame is not shown.       *)
failsafeTimeoutUnseen ==
    /\ isPending' = FALSE /\ counter' = 0 /\ alarm' = 0
    /\ timeout' = "none" /\ failsafe' = "none"
    /\ UNCHANGED <<ready, unresolved>>

(* failsafeTimeout: before the first frame the window is shown without it; *)
(* later the client is taken for one without a counter.                    *)
failsafeTimeout ==
    IF ready
    THEN /\ isPending' = FALSE /\ counter' = 0 /\ alarm' = 0
         /\ timeout' = "none" /\ failsafe' = "none"
         /\ unresolved' = FALSE /\ UNCHANGED ready
    ELSE /\ ready' = TRUE /\ failsafe' = "stopped"
         /\ unresolved' = isPending
         /\ UNCHANGED <<isPending, counter, alarm, timeout>>

Failsafe ==
    /\ failsafe = "running"
    /\ failsafeTimeout
    /\ UNCHANGED <<value, window, client, events>>

-----------------------------------------------------------------------------
(* Events and the client.                                                  *)

(* syncEvent(): the answer to the request sent last.                       *)
syncEvent(e) ==
    IF e.alarm = alarm /\ e.value = value
    THEN /\ ready' = TRUE /\ isPending' = FALSE
         /\ failsafe' = IF failsafe = "none" THEN "none" ELSE "stopped"
         /\ IF phase = "resize"
            THEN /\ timeout' = IF timeout = "none" THEN "none" ELSE "stopped"
                 /\ behind' = FALSE
            ELSE UNCHANGED <<timeout, behind>>
    ELSE UNCHANGED <<ready, isPending, failsafe, timeout, behind>>

AlarmNotify ==
    /\ events # <<>> /\ Head(events).type = "alarm"
    /\ syncEvent(Head(events))
    /\ events' = Tail(events)
    /\ unresolved' = (unresolved /\ isPending')
    /\ UNCHANGED <<counter, alarm, value, phase, client>>

(* propertyNotifyEvent(): the counter is read again.                       *)
PropertyNotify ==
    /\ events # <<>> /\ Head(events).type = "property"
    /\ getSyncCounter(Head(events).counter, Head(events).same)
    /\ value' = 0
    /\ events' = Tail(events)
    /\ unresolved' = (unresolved \/ (isPending /\ counter = 0))
    /\ UNCHANGED <<isPending, timeout, failsafe, ready, window, reads,
                   requests>>

(* The client has drawn and sets its counter; the alarm goes off when the  *)
(* counter rises to what it waits for.  A client that has advertised again *)
(* may set a counter that this alarm does not watch.                       *)
Answer ==
    /\ requests # <<>>
    /\ requests' = Tail(requests)
    /\ LET v == Head(requests)
           hit == /\ server.alarm # 0
                  /\ server.counter < server.next /\ server.next <= v
       IN  \/ /\ server' = [server EXCEPT !.counter = v,
                                          !.next = IF hit THEN v + 1 ELSE @]
              /\ events' = IF hit
                           THEN Append(events, [type |-> "alarm", value |-> v,
                                                alarm |-> server.alarm])
                           ELSE events
           \/ reads > 1 /\ UNCHANGED <<server, events>>
    /\ UNCHANGED <<kwin, window, reads, unresolved>>

(* The client advertises a counter anew: the one that the alarm watches,   *)
(* or another.                                                             *)
Advertise ==
    /\ phase # "new" /\ reads < MaxReads
    /\ reads' = reads + 1
    /\ \E same \in BOOLEAN :
          events' = Append(events, [type |-> "property", counter |-> reads + 1,
                                   same |-> same])
    /\ UNCHANGED <<kwin, window, requests, server, unresolved>>

SyncNext ==
    \/ Manage \/ Damage \/ Motion \/ Timeout \/ Finish \/ Failsafe
    \/ AlarmNotify \/ PropertyNotify \/ Answer \/ Advertise

SyncSpec == SyncInit /\ [][SyncNext]_syncVars

(* Timers fire and events are handled; nothing is assumed of the client.   *)
FairSyncSpec ==
    /\ SyncSpec
    /\ WF_syncVars(Timeout) /\ WF_syncVars(Failsafe)
    /\ WF_syncVars(AlarmNotify) /\ WF_syncVars(PropertyNotify)

-----------------------------------------------------------------------------
(* Properties.                                                             *)

(* Every member keeps its type.                                            *)
SyncTypeOK ==
    /\ counter \in Nat /\ alarm \in Nat /\ value \in Nat
    /\ isPending \in BOOLEAN /\ timeout \in Timers /\ failsafe \in Timers
    /\ ready \in BOOLEAN /\ phase \in {"new", "shown", "resize"}
    /\ behind \in BOOLEAN /\ reads \in Nat /\ requests \in Seq(Nat)
    /\ server \in [counter: Nat, next: Nat, alarm: Nat]
    /\ events \in Seq(SyncEvents) /\ unresolved \in BOOLEAN

(* "do NOT, NEVER send a sync request when there's one on the stack. the   *)
(* clients will just stop respoding" (client.cpp): a client has at most    *)
(* one request to answer for every time it has advertised a counter, so    *)
(* one if it never does so again, through the first frame, resizes that    *)
(* follow on one another and both timers.  (One that does may have two:    *)
(* the number starts at 0 and a late answer passes for the new one.)       *)
OneRequest == Len(requests) <= reads

(* Whenever KWin waits for a client there is a timer that ends the wait:   *)
(* the failsafe timer, or the 33 ms of a client without a counter.  There  *)
(* are two exceptions, until something else ends the wait: a first request *)
(* that the failsafe timer gave up, and a client whose counter was read    *)
(* during those 33 ms.  Both leave isPending set.                          *)
WaitIsTimed ==
    isPending /\ ~unresolved =>
        failsafe = "running" \/ (counter = 0 /\ timeout = "running")

(* A window whose first frame was asked for is shown, whether the client   *)
(* answers, hangs, is resized meanwhile or advertises another counter.     *)
ShownEventually == failsafe = "running" /\ ~ready ~> ready
=============================================================================
