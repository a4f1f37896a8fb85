----------------------------- MODULE FocusChain -----------------------------
(***************************************************************************)
(* KWin's focus chains (focuschain.cpp): one list of clients for every     *)
(* virtual desktop, from which the next active client is taken, and one    *)
(* most recently used list for Alt+Tab.  The most recent client is the     *)
(* last of its list.  Every member function maps the record of the window  *)
(* manager's state (see Activation) to the record it leaves behind.        *)
(***************************************************************************)
EXTENDS Lists

CONSTANTS
    Clients,    \* the slots for managed X11 windows
    NoClient,   \* NULL
    App         \* the application a client belongs to

ASSUME ClientsAssumption ==
    IsFiniteSet(Clients) /\ NoClient \notin Clients /\ DOMAIN App = Clients

OnAllDesktops == 0   \* NET::OnAllDesktops

isOnDesktop(s, c, d) == s.desk[c] \in {d, OnAllDesktops}

isOnCurrentDesktop(s, c) == isOnDesktop(s, c, s.current)

belongToSameApplication(a, b) == App[a] = App[b]

-----------------------------------------------------------------------------
(* One list.                                                               *)

(* A minimized client goes behind the minimized one that is most recent.   *)
putFirst(s, c, rest) ==
    LET minimized == {i \in 1..Len(rest) : rest[i] \in s.minimized}
    IN  IF c \notin s.minimized THEN Append(rest, c)
        ELSE IF minimized = {} THEN <<c>> \o rest
        ELSE InsertAt(rest, Max(minimized) + 1, c)

makeFirstInChain(s, c, chain) == putFirst(s, c, removeAll(chain, c))

insertClientIntoChain(s, c, chain) ==
    IF Contains(chain, c) THEN chain
    ELSE IF chain # <<>> /\ Last(chain) = s.active
    THEN InsertAt(chain, Len(chain), c)
    ELSE Append(chain, c)

updateClientInChain(s, c, change, chain) ==
    IF change = "MakeFirst" THEN makeFirstInChain(s, c, chain)
    ELSE insertClientIntoChain(s, c, chain)

(* Behind the reference, or behind all clients of the reference's          *)
(* application when c belongs to another one.                              *)
putAfter(c, reference, rest) ==
    LET same == {i \in 1..Len(rest) :
                    IF belongToSameApplication(reference, c)
                    THEN rest[i] = reference
                    ELSE belongToSameApplication(reference, rest[i])}
    IN  InsertAt(rest, Max(same), c)

moveAfterClientInChain(c, reference, chain) ==
    IF ~Contains(chain, reference) THEN chain
    ELSE putAfter(c, reference, removeAll(chain, c))

-----------------------------------------------------------------------------
(* All lists.                                                              *)

remove(s, c) ==
    [s EXCEPT !.chains = [d \in DOMAIN @ |-> removeAll(@[d], c)],
              !.mru = removeAll(@, c)]

(* countChanged: lists for the new desktops, none for the removed ones.    *)
resize(s, size) ==
    [s EXCEPT !.chains = [d \in 1..size |->
                             IF d <= Len(@) THEN @[d] ELSE <<>>]]

(* On all desktops, only the list of the current one is reordered.         *)
chainsWith(s, c, change) ==
    [d \in DOMAIN s.chains |->
        LET chain == s.chains[d] IN
        IF s.desk[c] = OnAllDesktops
        THEN IF d = s.current THEN updateClientInChain(s, c, change, chain)
             ELSE insertClientIntoChain(s, c, chain)
        ELSE IF s.desk[c] = d THEN updateClientInChain(s, c, change, chain)
        ELSE removeAll(chain, c)]

update(s, c, change) ==
    IF c \notin s.wants THEN remove(s, c)
    ELSE [s EXCEPT !.chains = chainsWith(s, c, change),
                   !.mru = updateClientInChain(s, c, change, @)]

moveAfterClient(s, c, reference) ==
    IF c \notin s.wants THEN s
    ELSE [s EXCEPT !.chains = [d \in DOMAIN @ |->
                                  IF isOnDesktop(s, c, d)
                                  THEN moveAfterClientInChain(c, reference, @[d])
                                  ELSE @[d]],
                   !.mru = moveAfterClientInChain(c, reference, @)]

-----------------------------------------------------------------------------
(* Queries.  A client is shown unless it is minimized.                     *)

isUsableFocusCandidate(s, c, prev) ==
    c # prev /\ c \notin s.minimized /\ isOnCurrentDesktop(s, c)

(* The most recent client of a desktop's list that is in a set, or none.   *)
mostRecent(s, desktop, candidates) ==
    LET chain == IF desktop \in DOMAIN s.chains THEN s.chains[desktop] ELSE <<>>
        passing == {i \in 1..Len(chain) : chain[i] \in candidates}
    IN  IF passing = {} THEN NoClient ELSE chain[Max(passing)]

nextForDesktop(s, reference, desktop) ==
    mostRecent(s, desktop,
               {c \in Clients : isUsableFocusCandidate(s, c, reference)})

getForActivation(s, desktop) ==
    mostRecent(s, desktop, Clients \ s.minimized)
=============================================================================
