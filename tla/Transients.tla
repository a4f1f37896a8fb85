----------------------------- MODULE Transients -----------------------------
(***************************************************************************)
(* Window groups and transients of X11 clients (group.cpp): which client   *)
(* is a dialog of which others.  The relation is kept twice, as the main   *)
(* window of a client and as the list of transients of the main window,    *)
(* and a client with WM_TRANSIENT_FOR on the root window is transient for  *)
(* the members of its group that were there before it.                     *)
(*                                                                         *)
(* Every window has a WM_CLIENT_LEADER; windows with different leaders are *)
(* of different processes.  No window is modal or embedded in another one. *)
(***************************************************************************)
EXTENDS Lists, FiniteSets

CONSTANTS
    Windows,        \* windows of applications
    NoWindow,       \* XCB_WINDOW_NONE
    Root,           \* rootWindow()
    ClientLeader,   \* wmClientLeader() of each window
    Splashes,       \* the windows with isSplash()
    Leaders,        \* group leaders
    Hints,          \* the leaders that WM_HINTS of each window may name
    Targets,        \* what WM_TRANSIENT_FOR of each window may be set to
    NoGroup,        \* no leader in WM_HINTS; no group
    MaxNotify       \* bound: PropertyNotify events under way

ASSUME WindowsAssumption ==
    /\ IsFiniteSet(Windows) /\ {NoWindow, Root} \cap Windows = {}
    /\ Splashes \subseteq Windows /\ NoWindow # Root

(* A group is known by its leader, or by a number if it has none.          *)
Numbers == 1..(Cardinality(Windows) + 1)
Groups == Leaders \cup Numbers

ASSUME GroupsAssumption ==
    NoGroup \notin Groups /\ Hints \in [Windows -> SUBSET Leaders]
ASSUME TargetsAssumption ==
    Targets \in [Windows -> SUBSET (Windows \cup {NoWindow, Root})]
ASSUME MaxNotifyAssumption == MaxNotify \in Nat

VARIABLE rel

(***************************************************************************)
(* clients: Workspace::clients; orig, tid and tfor:                        *)
(* m_originalTransientForId, m_transientForId and m_transientFor; trans:   *)
(* m_transients; hint: info->groupLeader(); group: in_group; members: of   *)
(* each group, which exists while it has some; prop: the property          *)
(* WM_TRANSIENT_FOR, which applications and KWin write; notify: the        *)
(* windows with a PropertyNotify under way.  fault is history: an          *)
(* assertion of addTransient() or setTransient() has failed.               *)
(***************************************************************************)
Relations ==
    [clients: Seq(Windows), orig: [Windows -> Windows \cup {NoWindow, Root}],
     tid: [Windows -> Windows \cup {NoWindow, Root}],
     tfor: [Windows -> Windows \cup {NoWindow}], trans: [Windows -> SUBSET Windows],
     hint: [Windows -> Leaders \cup {NoGroup}],
     group: [Windows -> Groups \cup {NoGroup}], members: [Groups -> Seq(Windows)],
     prop: [Windows -> Windows \cup {NoWindow, Root, "unset"}],
     notify: SUBSET Windows, fault: BOOLEAN]

managed(g, w) == Contains(g.clients, w)
isTransient(g, w) == g.tid[w] # NoWindow
groupTransient(g, w) == g.tid[w] = Root

(* The windows that can be reached from those in S.                        *)
Closure(S, R) ==
    {w \in Windows : \A T \in SUBSET Windows :
        S \subseteq T /\ (\A p \in R : p[1] \in T => p[2] \in T) => w \in T}

(* A window and the windows above it by transientFor().                    *)
chain(g, w) ==
    Closure({w}, {<<x, g.tfor[x]>> : x \in {y \in Windows : g.tfor[y] # NoWindow}})

(* From m down by the lists of transients to a window that lists top, in   *)
(* the group of top and not beyond the windows in met.                     *)
reachesDown(g, m, top, met, indirect) ==
    LET inGroup == {x \in Windows : g.group[x] = g.group[top]}
        steps == {p \in (inGroup \ met) \X inGroup : p[2] \in g.trans[p[1]]}
    IN  \E x \in Closure({m} \cap inGroup, IF indirect THEN steps ELSE {}) :
            top \in g.trans[x]

(***************************************************************************)
(* hasTransient(): m is the main window of c; indirect: directly or not.   *)
(* From c one goes up by transientFor(), then, if one arrives at a group   *)
(* transient, down from m, not beyond a window that was met on the way up. *)
(***************************************************************************)
hasTransientOver(g, m, c, indirect, up) ==
    \/ g.tfor[c] = m
    \/ m \in up \ {c}
    \/ \E top \in up : /\ g.tfor[top] = NoWindow /\ isTransient(g, top)
                      /\ reachesDown(g, m, top, up \ {top}, indirect)

hasTransient(g, m, c, indirect) ==
    hasTransientOver(g, m, c, indirect, IF indirect THEN chain(g, c) ELSE {c})

(* The windows that c is a transient of.                                   *)
mainClients(g, c) ==
    IF ~isTransient(g, c) THEN {}
    ELSE IF g.tfor[c] # NoWindow THEN {g.tfor[c]}
    ELSE {m \in ToSet(g.members[g.group[c]]) : hasTransient(g, m, c, FALSE)}

belongToSameApplication(g, c1, c2) ==
    \/ c1 = c2
    \/ isTransient(g, c1) /\ hasTransient(g, c2, c1, TRUE)
    \/ isTransient(g, c2) /\ hasTransient(g, c1, c2, TRUE)
    \/ g.group[c1] = g.group[c2]
    \/ ClientLeader[c1] = ClientLeader[c2]

-----------------------------------------------------------------------------
(* The lists.                                                              *)

addTransient(g, m, c) ==
    [g EXCEPT !.trans[m] = @ \cup {c}, !.fault = @ \/ m = c \/ c \in g.trans[m]]

removeTransientFromList(g, m, c) == [g EXCEPT !.trans[m] = @ \ {c}]

(* removeTransient() of some windows; a client whose main window goes away *)
(* is not transient any more.                                              *)
removeTransient(g, ms, c) ==
    LET lists == [g EXCEPT !.trans = [m \in Windows |->
                              IF m \in ms THEN @[m] \ {c} ELSE @[m]]]
    IN  IF g.tfor[c] \notin ms THEN lists
        ELSE [lists EXCEPT !.tid[c] = NoWindow, !.tfor[c] = NoWindow]

removeFromMainClients(g, c) ==
    removeTransient(g, IF groupTransient(g, c) THEN ToSet(g.members[g.group[c]])
                       ELSE {g.tfor[c]}, c)

(* Mutant of checkPair: windows that are transient for c are not looked at. *)
checkPairOneWay(g, c, m) ==
    LET Third(s, n) ==
            IF /\ n \notin {c, m} /\ hasTransient(s, m, c, FALSE)
               /\ hasTransient(s, n, c, FALSE) /\ hasTransient(s, m, n, TRUE)
            THEN removeTransientFromList(s, m, c) ELSE s
    IN  Through(Third, g, g.members[g.group[c]])

(* checkGroupTransients() for a group transient c and another member m: c  *)
(* is not transient for m if m is transient for c, ...                     *)
cutMain(g, c, m) ==
    IF m # c /\ c \in chain(g, m) THEN removeTransientFromList(g, m, c) ELSE g

(* ... nor if both are group transients, and transient for each other, ... *)
cutMutual(g, c, m) ==
    IF groupTransient(g, m) /\ hasTransient(g, c, m, TRUE) /\ hasTransient(g, m, c, TRUE)
    THEN removeTransientFromList(g, m, c) ELSE g

(* ... nor if it is transient for n, and n for m.                          *)
cutIndirect(g, c, m, n) ==
    IF hasTransient(g, m, n, TRUE) THEN removeTransientFromList(g, m, c) ELSE g

checkPair(g, c, m) ==
    LET Third(s, n) ==
            IF n \in {c, m} \/ ~hasTransient(s, m, c, FALSE)
                            \/ ~hasTransient(s, n, c, FALSE) THEN s
            ELSE cutIndirect(cutIndirect(s, c, m, n), c, n, m)
    IN  Through(Third, cutMutual(cutMain(g, c, m), c, m), g.members[g.group[c]])

checkMember(g, gr, c) ==
    LET Pair(s, m) == IF m = c THEN s ELSE checkPair(s, c, m)
    IN  IF groupTransient(g, c) THEN Through(Pair, g, g.members[gr]) ELSE g

checkGroupTransients(g, gr) ==
    LET Member(s, c) == checkMember(s, gr, c)
    IN  Through(Member, g, g.members[gr])

-----------------------------------------------------------------------------
(* Groups.                                                                 *)

changeGroup(g, w, gr) ==
    IF g.group[w] = gr THEN g
    ELSE LET left == IF g.group[w] = NoGroup THEN g
                     ELSE [g EXCEPT !.members[g.group[w]] = removeAll(@, w)]
         IN  [left EXCEPT !.group[w] = gr, !.members[gr] = Append(@, w)]

(* The members of a group that came before w.                              *)
before(g, gr, w) ==
    LET ms == g.members[gr]
    IN  {ms[i] : i \in {j \in 1..Len(ms) : w \notin {ms[k] : k \in 1..j}}}

(* The transients of w that are no longer in its group are not its own,    *)
(* and w is not transient for the members of its old group.                *)
dropOthers(g, w, old) ==
    LET own == [g EXCEPT !.trans[w] =
                   {c \in @ : ~groupTransient(g, c) \/ g.group[c] = g.group[w]}]
    IN  IF old = NoGroup \/ ~groupTransient(g, w) THEN own
        ELSE removeTransient(own, ToSet(g.members[old]), w)

(* A group transient is one of the members that came before it.            *)
followOthers(g, w) ==
    LET mains == IF groupTransient(g, w) THEN before(g, g.group[w], w) ELSE {}
    IN  [g EXCEPT !.trans = [m \in Windows |-> IF m \in mains THEN @[m] \cup {w}
                                               ELSE @[m]],
                  !.fault = @ \/ \E m \in mains : w \in g.trans[m]]

(* A splash screen is transient for members that come later, too.          *)
followSplashes(g, w) ==
    LET Splash(s, m) ==
            IF m \in Splashes \ {w} /\ groupTransient(s, m)
               /\ ~hasTransient(s, w, m, TRUE)
            THEN addTransient(s, w, m) ELSE s
    IN  Through(Splash, g, g.members[g.group[w]])

(***************************************************************************)
(* The second half of checkGroup(): w is in group gr, which is new to it   *)
(* if joins.  Group transients are transients of members of their group    *)
(* only.                                                                   *)
(***************************************************************************)
settle(g, w, gr, joins) ==
    checkGroupTransients(
        IF ~joins THEN g
        ELSE followSplashes(followOthers(
                 dropOthers(changeGroup(g, w, gr), w, g.group[w]), w), w), gr)

(* changeClientLeaderGroup().                                              *)
changeClientLeaderGroup(g, w, gr) ==
    IF g.tfor[w] # NoWindow \/ g.hint[w] # NoGroup THEN g
    ELSE settle(g, w, gr, gr # g.group[w])

(* findClientLeaderGroup(): the group of the windows with the same client  *)
(* leader; if they have several, their members are moved into the first.   *)
moveMembers(g, from, w, gr) ==
    LET Move(s, y) == IF y = w THEN s ELSE changeClientLeaderGroup(s, y, gr)
    IN  Through(Move, g, g.members[from])

findClientLeaderGroup(g, w) ==
    LET Look(a, x) ==
            IF x = w \/ ClientLeader[x] # ClientLeader[w] THEN a
            ELSE IF a.ret \in {NoGroup, a.g.group[x]}
            THEN [a EXCEPT !.ret = a.g.group[x]]
            ELSE [a EXCEPT !.g = moveMembers(a.g, a.g.group[x], w, a.ret)]
    IN  Through(Look, [g |-> g, ret |-> NoGroup], g.clients)

(* The number of a new group; a window that is alone keeps the number.     *)
newGroup(g, w) ==
    CHOOSE n \in Numbers : /\ g.members[n] \in {<<>>, <<w>>}
                           /\ \A m \in 1..(n - 1) : g.members[m] \notin {<<>>, <<w>>}

(* checkGroup(): the group of the main window, else that of WM_HINTS, else *)
(* that of the client leader, else a new one.                              *)
checkLeaderGroup(found, w, force) ==
    IF found.ret = NoGroup THEN settle(found.g, w, newGroup(found.g, w), TRUE)
    ELSE settle(found.g, w, found.ret, force \/ found.ret # found.g.group[w])

checkGroup(g, w, force) ==
    LET gr == IF g.tfor[w] # NoWindow THEN g.group[g.tfor[w]] ELSE g.hint[w]
    IN  IF gr = NoGroup THEN checkLeaderGroup(findClientLeaderGroup(g, w), w, force)
        ELSE settle(g, w, gr, force \/ gr # g.group[w])

-----------------------------------------------------------------------------
(* WM_TRANSIENT_FOR.                                                       *)

(* setTransient(): v is verified.                                          *)
setTransient(g, w, v) ==
    LET off  == [removeFromMainClients(g, w) EXCEPT !.tid[w] = v]
        main == IF v \in {NoWindow, Root} THEN NoWindow ELSE v
        on   == IF main = NoWindow THEN off
                ELSE [addTransient(off, main, w) EXCEPT !.fault = @ \/ ~managed(g, v)]
    IN  IF v = g.tid[w] THEN g
        ELSE checkGroup([on EXCEPT !.tfor[w] = main], w, TRUE)

(* The clients that m_transientForId leads to from v.                      *)
leadsTo(g, v) ==
    LET clients == ToSet(g.clients)
    IN  Closure({v} \cap clients,
                {p \in clients \X clients : g.tid[p[1]] = p[2]})

(* verifyTransientFor(): a window is not transient for itself, directly or *)
(* not, nor for a window that is not managed; chains end at 20 windows.    *)
verifyTransientFor(g, w, v, set) ==
    LET given == IF v = w \/ (v = NoWindow /\ (set \/ w \in Splashes)) THEN Root ELSE v
        loop  == w \in leadsTo(g, given) \/ Cardinality(leadsTo(g, given)) >= 20
    IN  IF given # NoWindow /\ (loop \/ ~managed(g, given)) THEN Root ELSE given

(* KWin corrects the property of a window that points to itself or to no  *)
(* window.                                                                 *)
correctProperty(g, w, v, set) ==
    LET to == IF v = w \/ (v = NoWindow /\ set /\ w \notin Splashes) THEN Root ELSE v
    IN  IF to = g.orig[w] THEN g
        ELSE [g EXCEPT !.prop[w] = to, !.notify = @ \cup {w}]

verifyAndSet(g, w, v, set) ==
    setTransient(correctProperty(g, w, v, set), w, verifyTransientFor(g, w, v, set))

(* readTransient(): the property as it is now.                             *)
readTransient(g, w) ==
    LET set == g.prop[w] # "unset"
        v   == IF set THEN g.prop[w] ELSE NoWindow
    IN  verifyAndSet([g EXCEPT !.orig[w] = v], w, v, set)

(* checkTransients(): windows that waited for w to be mapped.              *)
checkTransients(g, w) ==
    LET Check(s, c) == IF s.orig[c] = w THEN verifyAndSet(s, c, w, TRUE) ELSE s
    IN  Through(Check, g, g.clients)

(* Mutant of cleanGrouping: the window stays in the lists of transients.   *)
cleanGroupingListed(g, w) ==
    LET off == removeFromMainClients(g, w)
        gr  == g.group[w]
    IN  [off EXCEPT !.members[gr] = removeAll(@, w), !.group[w] = NoGroup,
                    !.tid[w] = NoWindow]

(* cleanGrouping(): w is released.                                         *)
cleanGrouping(g, w) ==
    LET off  == removeFromMainClients(g, w)
        free == {c \in off.trans[w] : off.tfor[c] = w}
        gr   == g.group[w]
        out  == [off EXCEPT
                    !.tid  = [c \in Windows |-> IF c \in free THEN NoWindow ELSE @[c]],
                    !.tfor = [c \in Windows |-> IF c \in free THEN NoWindow ELSE @[c]],
                    !.members[gr] = removeAll(@, w), !.group[w] = NoGroup]
    IN  [removeTransient(out, ToSet(off.members[gr]), w) EXCEPT
            !.trans[w] = @ \ free, !.tid[w] = NoWindow]

-----------------------------------------------------------------------------
(* The steps.                                                              *)

(* Client::manage() and Workspace::addClient().                            *)
Manage(w) ==
    /\ ~managed(rel, w)
    /\ \E hint \in Hints[w] \cup {NoGroup} :
          LET new  == checkGroup([rel EXCEPT !.hint[w] = hint], w, FALSE)
              read == readTransient(new, w)
          IN  rel' = checkTransients([read EXCEPT !.clients = Append(@, w)], w)

(* releaseWindow() and destroyClient(); the next Client is a new one.      *)
Release(w) ==
    /\ managed(rel, w)
    /\ rel' = [cleanGrouping(rel, w) EXCEPT
                !.clients = removeAll(@, w), !.orig[w] = NoWindow, !.trans[w] = {},
                !.hint[w] = NoGroup, !.notify = @ \ {w}]

(* An application sets or deletes WM_TRANSIENT_FOR.                        *)
SetProperty(w) ==
    /\ Cardinality(rel.notify) < MaxNotify
    /\ \E v \in Targets[w] \cup {"unset"} :
          /\ v # rel.prop[w]
          /\ rel' = [rel EXCEPT !.prop[w] = v,
                            !.notify = IF managed(rel, w) THEN @ \cup {w} ELSE @]

(* PropertyNotify for WM_TRANSIENT_FOR.                                    *)
PropertyNotify(w) ==
    /\ w \in rel.notify
    /\ rel' = readTransient([rel EXCEPT !.notify = @ \ {w}], w)

(* PropertyNotify for WM_HINTS with another group leader.                  *)
SetGroupLeader(w) ==
    /\ managed(rel, w)
    /\ \E hint \in (Hints[w] \cup {NoGroup}) \ {rel.hint[w]} :
          rel' = checkGroup([rel EXCEPT !.hint[w] = hint], w, FALSE)

Init ==
    rel = [clients |-> <<>>, orig |-> [w \in Windows |-> NoWindow],
         tid |-> [w \in Windows |-> NoWindow],
         tfor |-> [w \in Windows |-> NoWindow], trans |-> [w \in Windows |-> {}],
         hint |-> [w \in Windows |-> NoGroup],
         group |-> [w \in Windows |-> NoGroup],
         members |-> [gr \in Groups |-> <<>>],
         prop |-> [w \in Windows |-> "unset"], notify |-> {}, fault |-> FALSE]

Next ==
    \E w \in Windows :
        \/ Manage(w) \/ Release(w)
        \/ SetProperty(w) \/ PropertyNotify(w) \/ SetGroupLeader(w)

Spec == Init /\ [][Next]_rel

-----------------------------------------------------------------------------
(* Properties.                                                             *)

Clients == ToSet(rel.clients)

(* Every member keeps its type.                                            *)
TypeOK == rel \in Relations

(* What performTransiencyCheck() (group.cpp) checks where it is compiled:  *)
(* main windows and transients match both ways, and so do groups and their *)
(* members.  The assertions of addTransient() and setTransient() hold.     *)
TransiencyMatches ==
    /\ ~rel.fault
    /\ \A w \in Clients :
          /\ rel.group[w] # NoGroup /\ Contains(rel.members[rel.group[w]], w)
          /\ \A m \in mainClients(rel, w) : w \in rel.trans[m] /\ m \in Clients
          /\ \A c \in rel.trans[w] : w \in mainClients(rel, c) /\ c \in Clients
    /\ \A gr \in Groups, w \in Windows :
          Contains(rel.members[gr], w) => rel.group[w] = gr

(* The way up from main window to main window ends, wherever applications *)
(* let WM_TRANSIENT_FOR point in the meantime: hasTransientInternal(),     *)
(* checkGroupTransients() and updateLayer() go up without a check, which   *)
(* verifyTransientFor() has to make superfluous.                           *)
MainWindowsEnd ==
    \A S \in SUBSET Clients : S # {} => \E w \in S : rel.tfor[w] \notin S

(* No window is transient for itself and no two windows are for each       *)
(* other, whichever of them became a group transient last                  *)
(* (checkGroupTransients()).                                               *)
NoMutualTransients ==
    \A w \in Clients : \A c \in rel.trans[w] : w \notin rel.trans[c]

(* What is certain about loops in the relation.                            *)
NoShortLoops == MainWindowsEnd /\ NoMutualTransients

(* "Make sure that no group transient is considered transient for a window *)
(* that is (directly or indirectly) transient for it" (group.cpp):         *)
(* findModal(), updateLayer(), allMainClients() and raiseClient() follow   *)
(* the lists of transients without a check.                                *)
NoTransientLoops ==
    \A w \in Clients :
        w \notin Closure(rel.trans[w], {p \in Windows \X Windows : p[2] \in rel.trans[p[1]]})
=============================================================================
