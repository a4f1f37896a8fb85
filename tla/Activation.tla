----------------------------- MODULE Activation -----------------------------
(***************************************************************************)
(* Which client is active (activation.cpp), and what changes it: windows   *)
(* that are managed and released, minimized, moved between virtual         *)
(* desktops (virtualdesktops.cpp, workspace.cpp), and focus events of the  *)
(* X server.  KWin asks X for the focus and a client is active only when   *)
(* the FocusIn event arrives; until then it is in should_get_focus.        *)
(*                                                                         *)
(* X11 clients with the focus policies Click to Focus and Focus Follows    *)
(* Mouse, which asks for the focus when the pointer has rested on a window *)
(* for a while.  Without transients, tab groups, activities, shading, a    *)
(* desktop window, separate screen focus and auto raise.  The stacking     *)
(* order is not modelled: what is read from it is an arbitrary choice.     *)
(* One step is one callback of the event loop.                             *)
(***************************************************************************)
EXTENDS FocusChain, FiniteSets

CONSTANTS
    MaxDesktops,      \* VirtualDesktopManager::maximum()
    KeepsPreviews,    \* compositing() and hiddenPreviews() is Shown
    FollowsMouse,     \* focusPolicy() is FocusFollowsMouse
    MaxExpected       \* bound: should_get_focus when a callback starts

ASSUME MaxDesktopsAssumption == MaxDesktops \in Nat \ {0}
ASSUME MaxExpectedAssumption == MaxExpected \in Nat
ASSUME OptionsAssumption == KeepsPreviews \in BOOLEAN /\ FollowsMouse \in BOOLEAN

VARIABLE f

Desktops == 1..MaxDesktops

(***************************************************************************)
(* count and current: VirtualDesktopManager; chains and mru: FocusChain;   *)
(* active: active_client; last: last_active_client; expected:              *)
(* should_get_focus; delayed: delayfocus_client while delayFocusTimer      *)
(* runs; clients: the managed clients; desk, minimized and map             *)
(* (mapping_state): of each client; wants: those with wantsTabFocus().     *)
(* fault is history: removeClient()'s assertion that c is not active has   *)
(* failed.                                                                 *)
(***************************************************************************)
Type ==
    [count: Desktops, current: Desktops, chains: Seq(Seq(Clients)),
     mru: Seq(Clients), active: Clients \cup {NoClient},
     last: Clients \cup {NoClient}, expected: Seq(Clients),
     delayed: Clients \cup {NoClient},
     clients: SUBSET Clients, desk: [Clients -> Desktops \cup {OnAllDesktops}],
     minimized: SUBSET Clients, map: [Clients -> {"Mapped", "Kept", "Unmapped"}],
     wants: SUBSET Clients, fault: BOOLEAN]

(* The orders in which a list of the workspace may hold some clients.      *)
Orders == [S \in SUBSET Clients |-> SetToSeqs(S)]

-----------------------------------------------------------------------------
(* Workspace's member functions; blocked is block_focus > 0.               *)

(* The old client is deactivated first, so update() sees no active client. *)
setActiveClient(s, c) ==
    LET none == [s EXCEPT !.active = NoClient]
    IN  IF c \in {s.active, NoClient} THEN [s EXCEPT !.active = c]
        ELSE [update(none, c, "MakeFirst") EXCEPT !.active = c, !.last = c]

(* takeActivity() with ActivityFocus, which ends a delayed request, then   *)
(* Client::takeFocus() if the client is shown.                             *)
requestFocus(s, c, blocked) ==
    IF c = NoClient \/ (blocked /\ c # s.active) THEN s
    ELSE [s EXCEPT !.delayed = NoClient,
                   !.expected = IF c \in s.minimized THEN @ ELSE Append(@, c)]

(* Mutant of activateNextClient: the focus is given up and not passed on.  *)
activateNobody(s, c, blocked) ==
    IF c = s.active
    THEN [setActiveClient(s, NoClient) EXCEPT !.expected = removeAll(@, c)] ELSE s

(* The focus of c, or the request for it, goes to the next client.         *)
passFocusOn(s, c, blocked) ==
    IF blocked THEN s
    ELSE requestFocus(s, nextForDesktop(s, c, s.current), FALSE)

activateNextClient(s, c, blocked) ==
    LET was  == IF c = s.active THEN setActiveClient(s, NoClient) ELSE s
        free == [was EXCEPT !.expected = removeAll(@, c)]
    IN  IF c # s.active /\ (s.expected = <<>> \/ c # Last(s.expected)) THEN s
        ELSE passFocusOn(free, c, blocked)

(* What updateVisibility() does to the window: internalHide(),             *)
(* internalShow(), or internalKeep() for the previews.                     *)
shownAs(s, c) ==
    IF c \in s.minimized THEN "Unmapped"
    ELSE IF isOnCurrentDesktop(s, c) THEN "Mapped"
    ELSE IF KeepsPreviews THEN "Kept" ELSE "Unmapped"

(* Mutant of updateVisibility: the workspace is not told of a kept window. *)
updateVisibilityQuietly(s, c, blocked) ==
    LET state == shownAs(s, c)
        set == [s EXCEPT !.map[c] = state]
    IN  IF s.map[c] = state \/ state # "Unmapped" THEN set
        ELSE activateNextClient(set, c, blocked)

(* Client::updateVisibility(); hiding or keeping a client calls            *)
(* clientHidden(), which activates another one.                            *)
updateVisibility(s, c, blocked) ==
    LET state == shownAs(s, c)
        set == [s EXCEPT !.map[c] = state]
    IN  IF s.map[c] = state \/ state = "Mapped" THEN set
        ELSE activateNextClient(set, c, blocked)

(* AbstractClient::setDesktop() with a desktop that exists.                *)
setDesktop(s, c, d) ==
    IF s.desk[c] = d THEN s
    ELSE update(updateVisibility([s EXCEPT !.desk[c] = d], c, FALSE),
                c, "MakeFirst")

(* restackClientUnderActive(); under: where restack() puts c, a client of  *)
(* the active one's application, or none when their layers differ.         *)
restackClientUnderActive(s, c, under) ==
    IF s.active \in {NoClient, c} \/ under \in {NoClient, c} THEN s
    ELSE moveAfterClient(s, c, IF belongToSameApplication(s.active, c)
                               THEN s.active ELSE under)

sendClientToDesktop(s, c, d, activate, under) ==
    LET sent == setDesktop(s, c, d)
        wasOn == isOnDesktop(s, c, d) \/ s.desk[c] = OnAllDesktops
    IN  IF d > s.count THEN s
        ELSE IF ~isOnCurrentDesktop(sent, c) THEN sent
        ELSE IF c \in s.wants /\ ~wasOn /\ activate
        THEN requestFocus(sent, c, FALSE)
        ELSE restackClientUnderActive(sent, c, under)

(* The active client stays active if it is the one to activate.            *)
activateClientOnNewDesktop(s, d, blocked) ==
    LET next == getForActivation(s, d)
        left == IF next = s.active THEN s ELSE setActiveClient(s, NoClient)
    IN  requestFocus(left, next, blocked)

(* slotCurrentDesktopChanged(): the clients of the old desktop are hidden, *)
(* bottom to top, those of the new one shown, then the focus is restored.  *)
switchTo(s, d, order, blocked) ==
    LET hide[i \in 0..Len(order)] ==
            IF i = 0 THEN [s EXCEPT !.current = d]
            ELSE IF order[i] \in s.clients /\ ~isOnDesktop(s, order[i], d)
            THEN updateVisibility(hide[i - 1], order[i], TRUE)
            ELSE hide[i - 1]
        hidden == hide[Len(order)]
        shown  == [hidden EXCEPT !.map = [c \in Clients |->
                      IF c \in s.clients \ s.minimized /\ isOnDesktop(s, c, d)
                      THEN "Mapped" ELSE @[c]]]
    IN  activateClientOnNewDesktop(shown, d, blocked)

(* VirtualDesktopManager::setCurrent().                                    *)
setCurrent(s, d, order, blocked) ==
    IF d \notin 1..s.count \/ d = s.current THEN s
    ELSE switchTo(s, d, order, blocked)

(* A client of a removed desktop goes to the last one that is left.        *)
sendFromRemoved(s, c, n, under) ==
    IF c \in s.clients /\ s.desk[c] > n
    THEN sendClientToDesktop(s, c, n, FALSE, under) ELSE s

(* Mutant of setCount: the clients of removed desktops are not moved.      *)
setCountOnly(s, n, order, list, under) ==
    LET counted == [s EXCEPT !.count = n]
        current == IF counted.current > n
                   THEN setCurrent(counted, n, order, FALSE) ELSE counted
    IN  resize(current, n)

(* VirtualDesktopManager::setCount(): desktopsRemoved moves the clients of *)
(* removed desktops, in the order of the client list, before countChanged  *)
(* resizes the chains.                                                     *)
setCount(s, n, order, list, under) ==
    LET counted == [s EXCEPT !.count = n]
        current == IF counted.current > n
                   THEN setCurrent(counted, n, order, FALSE) ELSE counted
        send[i \in 0..Len(list)] ==
            IF i = 0 THEN current
            ELSE sendFromRemoved(send[i - 1], list[i], n, under)
    IN  resize(send[Len(list)], n)

minimize(s, c) ==
    IF c \in s.minimized THEN s
    ELSE update(updateVisibility([s EXCEPT !.minimized = @ \cup {c}], c, FALSE),
                c, "MakeFirst")

(* The chains are not updated.                                             *)
unminimize(s, c) ==
    IF c \notin s.minimized THEN s
    ELSE updateVisibility([s EXCEPT !.minimized = @ \ {c}], c, FALSE)

activateClient(s, c, order) ==
    LET there == IF isOnCurrentDesktop(s, c) THEN s
                 ELSE setCurrent(s, s.desk[c], order, TRUE)
    IN  requestFocus(unminimize(there, c), c, FALSE)

(* Client::manage() and Workspace::addClient().  asks: the window is to be *)
(* minimized, or its activation is allowed or refused.                     *)
manage(s, c, desk, asks, order, under) ==
    LET new    == [s EXCEPT !.desk[c] = desk]
        placed == update(updateVisibility(new, c, FALSE), c, "MakeFirst")
        there  == CASE asks = "minimized" -> minimize(placed, c)
                    [] asks = "allowed" -> setCurrent(placed, desk, order, FALSE)
                    [] asks = "refused" ->
                         IF isOnCurrentDesktop(placed, c)
                         THEN restackClientUnderActive(placed, c, under)
                         ELSE placed
        shown  == updateVisibility(there, c, FALSE)
        asked  == IF asks = "allowed" /\ c \in s.wants
                  THEN requestFocus(shown, c, FALSE) ELSE shown
    IN  [update(asked, c, "Update") EXCEPT !.clients = @ \cup {c}]

(* Mutant of release: delayFocusTimer is not stopped.                      *)
releaseStillDelayed(s, c) ==
    LET gone == remove(activateNextClient(s, c, FALSE), c)
    IN  [gone EXCEPT !.expected = removeAll(@, c), !.clients = @ \ {c},
                     !.last = IF @ = c THEN NoClient ELSE @,
                     !.minimized = @ \ {c}, !.wants = @ \ {c},
                     !.desk[c] = OnAllDesktops, !.map[c] = "Unmapped",
                     !.fault = @ \/ gone.active = c]

(* releaseWindow() and destroyClient(): clientHidden(), then               *)
(* Workspace::removeClient().                                              *)
release(s, c) ==
    LET gone == remove(activateNextClient(s, c, FALSE), c)
    IN  [gone EXCEPT !.expected = removeAll(@, c), !.clients = @ \ {c},
                     !.last = IF @ = c THEN NoClient ELSE @,
                     !.delayed = IF @ = c THEN NoClient ELSE @,
                     !.minimized = @ \ {c}, !.wants = @ \ {c},
                     !.desk[c] = OnAllDesktops, !.map[c] = "Unmapped",
                     !.fault = @ \/ gone.active = c]

(* gotFocusIn(): c and all that were asked before it.                      *)
gotFocusIn(s, c) ==
    IF ~Contains(s.expected, c) THEN s
    ELSE LET first == Min({i \in 1..Len(s.expected) : s.expected[i] = c})
         IN  [s EXCEPT !.expected = SubSeq(@, first + 1, Len(@))]

(* restoreFocus(): the focus goes back to who should have it.              *)
restoreFocus(s) ==
    requestFocus(s, IF s.expected # <<>> THEN Last(s.expected) ELSE s.last,
                 FALSE)

-----------------------------------------------------------------------------
(* The steps.                                                              *)

Init ==
    \E n \in Desktops :
        f = [count |-> n, current |-> 1, chains |-> [d \in 1..n |-> <<>>],
             mru |-> <<>>, active |-> NoClient, last |-> NoClient,
             expected |-> <<>>, delayed |-> NoClient, clients |-> {},
             desk |-> [c \in Clients |-> OnAllDesktops], minimized |-> {},
             map |-> [c \in Clients |-> "Unmapped"], wants |-> {},
             fault |-> FALSE]

Room == Len(f.expected) < MaxExpected

(* The stacking of the clients that are hidden when d becomes the current  *)
(* desktop.                                                                *)
Leaving(d) ==
    IF d \in {f.current, OnAllDesktops} THEN {<<>>}
    ELSE Orders[{c \in f.clients : ~isOnDesktop(f, c, d)}]

(* The clients restack() may find at the bottom of the active application. *)
Unders ==
    {NoClient} \cup {c \in f.clients : /\ f.active # NoClient
                                      /\ belongToSameApplication(f.active, c)}

Manage(c) ==
    /\ Room
    /\ c \notin f.clients
    /\ \E desk \in 0..f.count, wants \in BOOLEAN :
          LET new == [f EXCEPT !.wants = IF wants THEN @ \cup {c} ELSE @] IN
          \/ f' = manage(new, c, desk, "minimized", <<>>, NoClient)
          \/ \E order \in Leaving(desk) :
                f' = manage(new, c, desk, "allowed", order, NoClient)
          \/ \E under \in Unders :
                f' = manage(new, c, desk, "refused", <<>>, under)

Release(c) ==
    /\ Room \/ Contains(f.expected, c)
    /\ c \in f.clients
    /\ f' = release(f, c)

(* A FocusIn event; one that KWin did not cause may be refused.            *)
FocusIn(c) ==
    /\ Room \/ Contains(f.expected, c)
    /\ c \in f.clients \ f.minimized
    /\ isOnCurrentDesktop(f, c)
    /\ \/ f' = setActiveClient(gotFocusIn(f, c), c)
       \/ /\ ~Contains(f.expected, c)
          /\ f' = restoreFocus(f)

(* The focus leaves the active client and no FocusIn follows.              *)
FocusOut ==
    /\ f.active # NoClient
    /\ f' = setActiveClient(f, NoClient)

(* enterEvent(): the pointer has come to a client that is on the screen.   *)
PointerEnters(c) ==
    /\ FollowsMouse
    /\ c \in f.clients /\ f.map[c] = "Mapped"
    /\ f' = [f EXCEPT !.delayed = c]

(* leaveEvent().                                                           *)
PointerLeaves ==
    /\ f.delayed # NoClient
    /\ f' = [f EXCEPT !.delayed = NoClient]

(* delayFocus(), by the timer.                                             *)
DelayFocus ==
    /\ Room
    /\ f.delayed # NoClient
    /\ f' = [requestFocus(f, f.delayed, FALSE) EXCEPT !.delayed = NoClient]

ActivateClient(c) ==
    /\ Room
    /\ c \in f.clients
    /\ \E order \in Leaving(f.desk[c]) : f' = activateClient(f, c, order)

Minimize(c) ==
    /\ Room
    /\ c \in f.clients \ f.minimized
    /\ f' = minimize(f, c)

(* unminimize() by the client or the task bar, and the MapRequest of a     *)
(* client that is managed already.                                         *)
Unminimize(c) ==
    /\ c \in f.clients \cap f.minimized
    /\ f' = unminimize(f, c)

MapRequest(c) ==
    /\ Room
    /\ c \in f.clients
    /\ LET up == unminimize(f, c) IN
       \/ f' = update(up, c, "Update")
       \/ /\ ~isOnCurrentDesktop(up, c)
          /\ \E order \in Leaving(f.desk[c]) :
                f' = update(activateClient(up, c, order), c, "Update")

SendToDesktop(c, d) ==
    /\ Room
    /\ c \in f.clients
    /\ d <= f.count /\ d # f.desk[c]
    /\ \E activate \in BOOLEAN,
          under \in IF d \in {f.current, OnAllDesktops} THEN Unders ELSE {NoClient} :
          f' = sendClientToDesktop(f, c, d, activate, under)

(* setOnAllDesktops(), from the user actions menu or a script.             *)
SetOnAllDesktops(c) ==
    /\ Room
    /\ c \in f.clients
    /\ f' = setDesktop(f, c, IF f.desk[c] = OnAllDesktops THEN f.current
                             ELSE OnAllDesktops)

SetCurrent(d) ==
    /\ Room
    /\ d \in 1..f.count \ {f.current}
    /\ \E order \in Leaving(d) : f' = setCurrent(f, d, order, FALSE)

SetCount(n) ==
    /\ Room
    /\ \/ n > f.count /\ f' = setCount(f, n, <<>>, <<>>, NoClient)
       \/ /\ n < f.count
          /\ \E order \in Leaving(Min({f.current, n})),
                list \in Orders[{c \in f.clients : f.desk[c] > n}],
                under \in Unders :
                f' = setCount(f, n, order, list, under)

(* A client asks to be restacked below another one.                        *)
Restack(c, under) ==
    /\ {c, under} \subseteq f.clients /\ c # under
    /\ c \in f.wants
    /\ f' = moveAfterClient(f, c, under)

ClientStep(c) ==
    \/ Manage(c) \/ Release(c)
    \/ FocusIn(c) \/ PointerEnters(c) \/ ActivateClient(c)
    \/ Minimize(c) \/ Unminimize(c) \/ MapRequest(c)
    \/ SetOnAllDesktops(c)
    \/ \E d \in Desktops \cup {OnAllDesktops} : SendToDesktop(c, d)
    \/ \E under \in Clients : Restack(c, under)

Next ==
    \/ \E c \in Clients : ClientStep(c)
    \/ FocusOut \/ PointerLeaves \/ DelayFocus
    \/ \E d \in Desktops : SetCurrent(d) \/ SetCount(d)

Spec == Init /\ [][Next]_f

-----------------------------------------------------------------------------
(* Properties.                                                             *)

(* Every member keeps its type.                                            *)
TypeOK == f \in Type

Lists(s) == {s.chains[d] : d \in DOMAIN s.chains} \cup {s.mru}

(* removeClient() leaves no pointer to the client that is deleted next: not *)
(* in a focus chain, not in should_get_focus, not as active or last active *)
(* client, not as the client that delayFocus() will be called for.  A      *)
(* client is never twice in a chain, so that Alt+Tab, which walks the      *)
(* chain until it is back at its start, comes back.                        *)
NoDanglingClient ==
    /\ \A list \in Lists(f) : ToSet(list) \subseteq f.clients /\ IsInjective(list)
    /\ ToSet(f.expected) \cup {f.active, f.last, f.delayed}
          \subseteq f.clients \cup {NoClient}
    /\ ~f.fault

(* There is a chain for every desktop, and a client that wants the focus   *)
(* is in the most recently used chain and, if it is on one desktop, in the *)
(* chain of that desktop and in no other: also when the desktop it was on  *)
(* is removed, which moves the client before the chains are resized.       *)
ListedWhereItLives ==
    /\ Len(f.chains) = f.count /\ f.current <= f.count
    /\ \A c \in f.clients :
          /\ f.desk[c] <= f.count
          /\ Contains(f.mru, c) <=> c \in f.wants
          /\ f.desk[c] # OnAllDesktops =>
                \A d \in 1..f.count :
                    Contains(f.chains[d], c) <=> c \in f.wants /\ d = f.desk[c]

visible(s, c) ==
    c \in s.clients \ s.minimized /\ isOnCurrentDesktop(s, c)

(* The active client can be seen: minimizing it, moving it to another      *)
(* desktop, switching desktops and late FocusIn events never leave the     *)
(* keyboard with a window that is not on the screen.                       *)
ActiveIsVisible == f.active # NoClient => visible(f, f.active)

(* When the active client is hidden or goes away, the focus is requested   *)
(* for a visible client, if one that wants it lives on the current         *)
(* desktop.  (Not when desktops are removed: their clients arrive after    *)
(* the focus was settled and are not activated.)                           *)
FocusPassedOn ==
    [][/\ f.active # NoClient /\ ~visible(f', f.active)
       /\ f'.count = f.count
       /\ \E c \in f'.wants : visible(f', c) /\ f'.desk[c] # OnAllDesktops
       => /\ f'.expected # <<>>
          /\ visible(f', Last(f'.expected))]_f
=============================================================================
