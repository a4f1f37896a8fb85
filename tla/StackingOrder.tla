--------------------------- MODULE StackingOrder ----------------------------
(***************************************************************************)
(* The stacking order that is shown (layers.cpp): from the order that      *)
(* users and applications asked for, sorted into layers, each transient is *)
(* lifted above its main windows.  Raising, lowering and changing layers   *)
(* lead to any order of the clients, so every order is considered in every *)
(* state that the relations of the clients can reach.                      *)
(*                                                                         *)
(* No docks and no windows on the way out (Deleted).                       *)
(***************************************************************************)
EXTENDS Transients

CONSTANT Dialogs    \* the windows with isDialog()

ASSUME DialogsAssumption == Dialogs \subseteq Windows

(* #93832: no splash screens above dialogs; #76026: no dialogs of a group  *)
(* above its windows.                                                      *)
keepTransientAbove(g, main, w) ==
    /\ ~(w \in Splashes /\ main \in Dialogs)
    /\ ~(w \in Dialogs /\ groupTransient(g, w))

(* Where the main windows are that w, at position i, has to be lifted over. *)
mainsAbove(g, order, i) ==
    LET w == order[i]
    IN  {j \in (i + 1)..Len(order) :
            /\ isTransient(g, w)
            /\ IF groupTransient(g, w) THEN hasTransient(g, order[j], w, TRUE)
               ELSE order[j] = g.tfor[w]
            /\ keepTransientAbove(g, order[j], w)}

(* The order with the window at position i moved up to position j.         *)
movedUp(order, i, j) ==
    [k \in DOMAIN order |-> IF k < i \/ j < k THEN order[k]
                            ELSE IF k = j THEN order[i] ELSE order[k + 1]]

(* Mutants of liftRound: the transients of a lifted window are left        *)
(* behind; a window is lifted to just below its main window.               *)
liftRoundOnce(g, s) ==
    LET mains == mainsAbove(g, s.order, s.i)
    IN  IF s.i = 0 THEN s
        ELSE [order |-> IF mains = {} THEN s.order ELSE movedUp(s.order, s.i, Max(mains)),
              i |-> s.i - 1]

liftRoundBelow(g, s) ==
    LET mains == mainsAbove(g, s.order, s.i)
    IN  IF s.i = 0 THEN s
        ELSE IF mains = {} THEN [s EXCEPT !.i = @ - 1]
        ELSE [order |-> movedUp(s.order, s.i, Max(mains) - 1),
              i |-> IF g.trans[s.order[s.i]] # {} THEN Max(mains) - 1 ELSE s.i - 1]

(***************************************************************************)
(* One round of the loop of constrainedStackingOrder(), at position i.  A  *)
(* window that was lifted may have left its own transients behind, so the  *)
(* loop goes back up to its main window.                                   *)
(***************************************************************************)
liftRound(g, s) ==
    LET mains == mainsAbove(g, s.order, s.i)
    IN  IF s.i = 0 THEN s
        ELSE IF mains = {} THEN [s EXCEPT !.i = @ - 1]
        ELSE [order |-> movedUp(s.order, s.i, Max(mains)),
              i |-> IF g.trans[s.order[s.i]] # {} THEN Max(mains) - 1 ELSE s.i - 1]

(* More rounds than a loop that ends takes: each window is lifted over     *)
(* each other one at most once for every order of the rest.                *)
Rounds == 4 * Cardinality(Windows) * Cardinality(Windows)

(* The loop ends at position 0.                                            *)
constrainedStackingOrder(g, order) ==
    LET after[r \in 0..Rounds] ==
            IF r = 0 THEN [order |-> order, i |-> Len(order)]
            ELSE liftRound(g, after[r - 1])
    IN  after[Rounds]

Orders == [S \in SUBSET Windows |-> SetToSeqs(S)]

position(order, w) == CHOOSE i \in DOMAIN order : order[i] = w

(* As long as no window is its own transient, however indirectly, the     *)
(* loop ends, whatever the order asked for.                                *)
LiftingEnds ==
    NoTransientLoops =>
        \A order \in Orders[Clients] : constrainedStackingOrder(rel, order).i = 0

(* "They should never be below their mainwindow" (layers.cpp): when the    *)
(* loop ends, the order it returns has the same windows, and each          *)
(* transient is above its main windows, unless keepTransientAbove() makes  *)
(* an exception.                                                           *)
TransientsOnTop ==
    \A order \in Orders[Clients] :
        LET shown == constrainedStackingOrder(rel, order) IN
        shown.i = 0 =>
            /\ shown.order \in Orders[Clients]
            /\ \A w \in Clients : \A m \in mainClients(rel, w) :
                  keepTransientAbove(rel, m, w)
                      => position(shown.order, m) < position(shown.order, w)
=============================================================================
