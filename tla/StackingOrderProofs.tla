------------------------ MODULE StackingOrderProofs ------------------------
(***************************************************************************)
(* Proofs about Transients and StackingOrder: the relations between main   *)
(* windows, transients and groups match at any time, the way from main     *)
(* window to main window ends and no two windows are transient for each    *)
(* other, for any windows, groups, properties and order of events.         *)
(***************************************************************************)
EXTENDS StackingOrder, ListTheorems

-----------------------------------------------------------------------------
(* The invariant, in parts.  K: the windows that are in a group, which are *)
(* the clients and a window that manage() is about to make one.            *)

(* m_transientFor is the client that m_transientForId names.               *)
Tied(g) ==
    \A c \in Windows :
        g.tfor[c] = IF g.tid[c] \in {NoWindow, Root} THEN NoWindow ELSE g.tid[c]

(* Groups and their members match both ways.                               *)
Grouped(g, K) ==
    /\ \A w \in Windows : g.group[w] # NoGroup <=> w \in K
    /\ \A gr \in Groups, w \in Windows :
          Contains(g.members[gr], w) <=> g.group[w] = gr

(* c is a transient of m by its WM_TRANSIENT_FOR and, perhaps, its group.  *)
Below(g, c, m) ==
    g.tfor[c] = m \/ (g.tid[c] = Root /\ g.group[c] = g.group[m])

(* What is in a list of transients belongs there, ...                      *)
Listed(g, K) ==
    \A m \in Windows : \A c \in g.trans[m] :
        c \in K /\ m \in K /\ c # m /\ Below(g, c, m)

(* ... and a window is in the list of its main window.                     *)
MainsList(g) ==
    \A c \in Windows : g.tfor[c] # NoWindow => c \in g.trans[g.tfor[c]]

Sound(g, K) ==
    /\ g \in Relations /\ ~g.fault
    /\ Tied(g) /\ Grouped(g, K) /\ Listed(g, K) /\ MainsList(g)

(* The way up by transientFor() ends.                                      *)
Ending(g) == \A S \in SUBSET Windows : S # {} => \E w \in S : g.tfor[w] \notin S

Mutual(g, a, b) == a \in g.trans[b] /\ b \in g.trans[a]

NoMutual(g) == \A a, b \in Windows : ~Mutual(g, a, b)

(* What no step with groups changes.                                       *)
Kept(g, x) ==
    /\ x.clients = g.clients /\ x.tid = g.tid /\ x.tfor = g.tfor
    /\ x.notify = g.notify

-----------------------------------------------------------------------------
(* Lists and closures.                                                     *)

LEMMA Types ==
    ASSUME NEW g \in Relations
    PROVE  /\ g.clients \in Seq(Windows)
           /\ g.orig \in [Windows -> Windows \cup {NoWindow, Root}]
           /\ g.tid \in [Windows -> Windows \cup {NoWindow, Root}]
           /\ g.tfor \in [Windows -> Windows \cup {NoWindow}]
           /\ g.trans \in [Windows -> SUBSET Windows]
           /\ g.hint \in [Windows -> Leaders \cup {NoGroup}]
           /\ g.group \in [Windows -> Groups \cup {NoGroup}]
           /\ g.members \in [Groups -> Seq(Windows)]
           /\ g.prop \in [Windows -> Windows \cup {NoWindow, Root, "unset"}]
           /\ g.notify \in SUBSET Windows /\ g.fault \in BOOLEAN
BY DEF Relations

(* Relations with other lists of transients, or other groups.              *)
Relisted(g, t, f) == [g EXCEPT !.trans = t, !.fault = f]

Regrouped(g, gr, ms) == [g EXCEPT !.group = gr, !.members = ms]

LEMMA RelistedTypes ==
    ASSUME NEW g \in Relations, NEW t \in [Windows -> SUBSET Windows],
           NEW f \in BOOLEAN, NEW x, x = Relisted(g, t, f)
    PROVE  /\ x \in Relations /\ x.trans = t /\ x.fault = f /\ Kept(g, x)
           /\ x.group = g.group /\ x.members = g.members
BY DEF Relations, Kept, Relisted

LEMMA RegroupedTypes ==
    ASSUME NEW g \in Relations, NEW gr \in [Windows -> Groups \cup {NoGroup}],
           NEW ms \in [Groups -> Seq(Windows)], NEW x, x = Regrouped(g, gr, ms)
    PROVE  /\ x \in Relations /\ x.group = gr /\ x.members = ms /\ Kept(g, x)
           /\ x.trans = g.trans /\ x.fault = g.fault
BY DEF Relations, Kept, Regrouped

LEMMA Appended ==
    ASSUME NEW C, NEW list \in Seq(C), NEW w \in C
    PROVE  /\ Append(list, w) \in Seq(C)
           /\ \A x : Contains(Append(list, w), x) <=> x = w \/ Contains(list, x)
<1> DEFINE a == Append(list, w)
<1>1. /\ a \in Seq(C) /\ Len(a) = Len(list) + 1 /\ a[Len(list) + 1] = w
      /\ \A i \in 1..Len(list) : a[i] = list[i]
      /\ Len(list) \in Nat
  OBVIOUS
<1> HIDE DEF a
<1>2. 1..Len(a) = 1..Len(list) \cup {Len(a)}
  BY <1>1
<1> QED
  BY <1>1, <1>2 DEF Contains, a

LEMMA ToSetContains ==
    ASSUME NEW C, NEW list \in Seq(C)
    PROVE  ToSet(list) \in SUBSET C /\ \A x : x \in ToSet(list) <=> Contains(list, x)
BY DEF ToSet, Contains

(* What can be reached contains the start and is reached step by step.     *)
LEMMA Reaches ==
    ASSUME NEW S \in SUBSET Windows, NEW R
    PROVE  /\ S \subseteq Closure(S, R) /\ Closure(S, R) \subseteq Windows
           /\ \A p \in R : p[1] \in Closure(S, R) /\ p[2] \in Windows
                               => p[2] \in Closure(S, R)
<1>1. S \subseteq Closure(S, R) /\ Closure(S, R) \subseteq Windows
  BY DEF Closure
<1>2. ASSUME NEW p \in R, p[1] \in Closure(S, R), p[2] \in Windows
      PROVE  p[2] \in Closure(S, R)
  BY <1>2 DEF Closure
<1> QED
  BY <1>1, <1>2

-----------------------------------------------------------------------------
(* Groups.                                                                 *)

LEMMA GroupChanged ==
    ASSUME NEW g \in Relations, NEW K \in SUBSET Windows, Grouped(g, K),
           NEW w \in Windows, NEW gr \in Groups
    PROVE  LET x == changeGroup(g, w, gr) IN
           /\ x \in Relations /\ Grouped(x, K \cup {w}) /\ Kept(g, x)
           /\ x.trans = g.trans /\ x.fault = g.fault
           /\ x.group = [g.group EXCEPT ![w] = gr]
<1> DEFINE x == changeGroup(g, w, gr)
           old == g.group[w]
<1>1. gr # NoGroup /\ NoGroup \notin Groups
  BY GroupsAssumption
<1>2. /\ g.group \in [Windows -> Groups \cup {NoGroup}]
      /\ g.members \in [Groups -> Seq(Windows)]
  BY Types
<1>3. CASE old = gr
  <2>1. x = g
    BY <1>3 DEF changeGroup
  <2>2. w \in K /\ K \cup {w} = K
    BY <1>1, <1>3 DEF Grouped
  <2>3. g.group = [g.group EXCEPT ![w] = gr]
    BY <1>2, <1>3
  <2> QED
    BY <2>1, <2>2, <2>3 DEF Kept
<1>4. CASE old # gr
  <2> DEFINE left == IF old = NoGroup THEN g.members
                     ELSE [g.members EXCEPT ![old] = removeAll(@, w)]
             ms == [left EXCEPT ![gr] = Append(@, w)]
             gs == [g.group EXCEPT ![w] = gr]
  <2>1. /\ left \in [Groups -> Seq(Windows)]
        /\ \A r \in Groups, v \in Windows :
              Contains(left[r], v) <=> g.group[v] = r /\ v # w
    <3>1. CASE old = NoGroup
      BY <1>1, <1>2, <3>1 DEF Grouped
    <3>2. CASE old # NoGroup
      <4>1. old \in Groups /\ g.members[old] \in Seq(Windows)
        BY <1>2, <3>2
      <4>2. /\ removeAll(g.members[old], w) \in Seq(Windows)
            /\ \A v : Contains(removeAll(g.members[old], w), v)
                         <=> v # w /\ Contains(g.members[old], v)
        BY <4>1, RemoveAll
      <4>3. left \in [Groups -> Seq(Windows)]
        BY <1>2, <3>2, <4>2
      <4>4. /\ left[old] = removeAll(g.members[old], w)
            /\ \A r \in Groups : r # old => left[r] = g.members[r]
        BY <1>2, <3>2, <4>1
      <4> QED
        BY <4>1, <4>2, <4>3, <4>4 DEF Grouped
    <3> QED
      BY <3>1, <3>2
  <2> HIDE DEF left
  <2>2. /\ Append(left[gr], w) \in Seq(Windows)
        /\ \A v : Contains(Append(left[gr], w), v) <=> v = w \/ Contains(left[gr], v)
    <3>1. left[gr] \in Seq(Windows)
      BY <2>1
    <3> QED
      BY <3>1, Appended
  <2>3. /\ ms \in [Groups -> Seq(Windows)] /\ ms[gr] = Append(left[gr], w)
        /\ \A r \in Groups : r # gr => ms[r] = left[r]
    BY <2>1, <2>2
  <2>4. gs \in [Windows -> Groups \cup {NoGroup}] /\ gs[w] = gr
        /\ \A v \in Windows : v # w => gs[v] = g.group[v]
    BY <1>2
  <2>5. x = Regrouped(g, gs, ms)
    <3>1. CASE old = NoGroup
      BY <1>4, <3>1 DEF changeGroup, left, Regrouped, Relations
    <3>2. CASE old # NoGroup
      BY <1>4, <3>2 DEF changeGroup, left, Regrouped, Relations
    <3> QED
      BY <3>1, <3>2
  <2> HIDE DEF ms
  <2>6. /\ x \in Relations /\ x.group = gs /\ x.members = ms /\ Kept(g, x)
        /\ x.trans = g.trans /\ x.fault = g.fault
    <3> HIDE DEF x, gs
    <3> QED
      BY <2>3, <2>4, <2>5, RegroupedTypes
  <2>7. \A v \in Windows : gs[v] # NoGroup <=> v \in K \cup {w}
    BY <1>1, <2>4 DEF Grouped
  <2>8. \A r \in Groups, v \in Windows : Contains(ms[r], v) <=> gs[v] = r
    <3> SUFFICES ASSUME NEW r \in Groups, NEW v \in Windows
                 PROVE  Contains(ms[r], v) <=> gs[v] = r
      OBVIOUS
    <3>1. CASE r = gr
      <4>1. Contains(ms[gr], v) <=> v = w \/ Contains(left[gr], v)
        BY <2>2, <2>3
      <4> QED
        BY <1>4, <2>1, <2>4, <3>1, <4>1
    <3>2. CASE r # gr
      BY <1>4, <2>1, <2>3, <2>4, <3>2
    <3> QED
      BY <3>1, <3>2
  <2>9. Grouped(x, K \cup {w})
    BY <2>6, <2>7, <2>8 DEF Grouped
  <2> QED
    BY <2>6, <2>9
<1> QED
  BY <1>3, <1>4

(* x is s after w came to group gr.                                        *)
Moved(s, x, w, gr, K) ==
    Sound(x, K \cup {w}) /\ Kept(s, x) /\ x.group = [s.group EXCEPT ![w] = gr]

(* dropOthers() leaves only transients that belong there; where a group    *)
(* transient is still listed, it is not by its group.                      *)
LEMMA OthersDropped ==
    ASSUME NEW K \in SUBSET Windows, NEW s, Sound(s, K),
           NEW w \in Windows, NEW gr \in Groups
    PROVE  LET x == dropOthers(changeGroup(s, w, gr), w, s.group[w]) IN
           /\ Moved(s, x, w, gr, K)
           /\ \A m \in Windows : w \in x.trans[m] => s.tfor[w] = m
           /\ \A m \in Windows : x.trans[m] \subseteq s.trans[m]
<1> DEFINE g == changeGroup(s, w, gr)
           old == s.group[w]
           cut == old # NoGroup /\ groupTransient(g, w)
           own == {c \in g.trans[w] : ~groupTransient(g, c) \/ g.group[c] = g.group[w]}
           t1 == [g.trans EXCEPT ![w] = own]
           t == IF cut THEN [m \in Windows |-> IF m \in ToSet(g.members[old])
                                              THEN t1[m] \ {w} ELSE t1[m]]
                ELSE t1
           x == dropOthers(g, w, old)
<1>1. /\ g \in Relations /\ Grouped(g, K \cup {w}) /\ Kept(s, g)
      /\ g.trans = s.trans /\ g.fault = s.fault
      /\ g.group = [s.group EXCEPT ![w] = gr]
  <2>1. s \in Relations /\ Grouped(s, K)
    BY DEF Sound
  <2> QED
    BY <2>1, GroupChanged
<1>2. x = dropOthers(g, w, old)
  OBVIOUS
<1> HIDE DEF g, x
<1>3. /\ g.tid \in [Windows -> Windows \cup {NoWindow, Root}]
      /\ g.trans \in [Windows -> SUBSET Windows] /\ g.fault \in BOOLEAN
      /\ g.members \in [Groups -> Seq(Windows)]
      /\ s.group \in [Windows -> Groups \cup {NoGroup}]
  BY <1>1, Types DEF Sound
<1>4. /\ g.group[w] = gr
      /\ \A m \in Windows : m # w => g.group[m] = s.group[m]
  BY <1>1, <1>3
<1>5. t1 \in [Windows -> SUBSET Windows] /\ t1[w] = own
      /\ \A m \in Windows : m # w => t1[m] = g.trans[m]
  BY <1>3
<1>6. cut => g.tfor[w] = NoWindow
             /\ \A m : m \in ToSet(g.members[old]) <=> Contains(g.members[old], m)
             /\ ToSet(g.members[old]) \in SUBSET Windows
  <2> SUFFICES ASSUME cut
               PROVE  /\ g.tfor[w] = NoWindow
                      /\ \A m : m \in ToSet(g.members[old])
                                  <=> Contains(g.members[old], m)
                      /\ ToSet(g.members[old]) \in SUBSET Windows
    OBVIOUS
  <2>1. old \in Groups
    BY <1>3
  <2>2. g.members[old] \in Seq(Windows)
    BY <1>3, <2>1
  <2>3. g.tfor[w] = NoWindow
    BY <1>1 DEF Sound, Tied, Kept, groupTransient
  <2> QED
    BY <2>2, <2>3, ToSetContains
<1>7. x = Relisted(g, t, g.fault)
  <2> DEFINE y == [g EXCEPT !.trans[w] = own]
  <2>1. y = [g EXCEPT !.trans = t1]
    BY <1>1 DEF Relations
  <2>2. CASE ~cut
    <3>1. x = [g EXCEPT !.trans[w] =
                   {c \in @ : ~groupTransient(g, c) \/ g.group[c] = g.group[w]}]
      BY <1>2, <2>2 DEF dropOthers
    <3>2. [g EXCEPT !.trans = t1] = [g EXCEPT !.trans = t1, !.fault = g.fault]
      BY <1>1 DEF Relations
    <3> QED
      BY <2>1, <2>2, <3>1, <3>2 DEF Relisted
  <2>3. CASE cut
    <3>1. x = removeTransient(y, ToSet(g.members[old]), w)
      BY <1>2, <2>3 DEF dropOthers
    <3>2. y.tfor = g.tfor /\ y.trans = t1
      BY <1>1, <2>1 DEF Relations
    <3>3. y.tfor[w] \notin ToSet(g.members[old])
      BY <1>6, <2>3, <3>2, WindowsAssumption
    <3>4. x = [y EXCEPT !.trans = [m \in Windows |->
                   IF m \in ToSet(g.members[old]) THEN @[m] \ {w} ELSE @[m]]]
      BY <3>1, <3>3 DEF removeTransient
    <3>5. x = [y EXCEPT !.trans = t]
      BY <2>3, <3>2, <3>4
    <3> HIDE DEF y, t
    <3>6. x = [g EXCEPT !.trans = t, !.fault = g.fault]
      BY <1>1, <2>1, <3>5 DEF Relations
    <3> QED
      BY <3>6 DEF Relisted
  <2> QED
    BY <2>2, <2>3
<1>8. /\ t \in [Windows -> SUBSET Windows]
      /\ \A m \in Windows :
            /\ t[m] \subseteq t1[m]
            /\ cut /\ Contains(g.members[old], m) => w \notin t[m]
            /\ \A c \in t1[m] : c # w => c \in t[m]
            /\ ~cut => t[m] = t1[m]
  <2>1. CASE cut
    BY <1>5, <1>6, <2>1
  <2>2. CASE ~cut
    BY <1>5, <2>2
  <2> QED
    BY <2>1, <2>2
<1> HIDE DEF t, t1
<1>9. /\ x \in Relations /\ x.trans = t /\ x.fault = g.fault /\ Kept(g, x)
      /\ x.group = g.group /\ x.members = g.members
  BY <1>1, <1>3, <1>7, <1>8, RelistedTypes
<1> HIDE DEF cut
<1>10. \A m \in Windows : t[m] \subseteq s.trans[m]
  BY <1>1, <1>5, <1>8
<1>11. ASSUME NEW m \in Windows, w \in t[m] PROVE s.tfor[w] = m
  <2>1. w \in s.trans[m]
    BY <1>10, <1>11
  <2>2. w \in K /\ m \in K /\ w # m /\ Below(s, w, m)
    BY <2>1 DEF Sound, Listed
  <2> SUFFICES ASSUME s.tid[w] = Root, old = s.group[m] PROVE FALSE
    BY <2>2 DEF Below
  <2>3. old # NoGroup /\ old \in Groups
    BY <1>3, <2>2 DEF Sound, Grouped
  <2>4. cut
    BY <1>1, <2>3 DEF cut, groupTransient, Kept
  <2>5. Contains(g.members[old], m)
    BY <1>1, <1>4, <2>2, <2>3 DEF Grouped
  <2> QED
    BY <1>8, <1>11, <2>4, <2>5
<1>12. Kept(s, x)
  BY <1>1, <1>9 DEF Kept
<1>13. Tied(x)
  BY <1>12 DEF Sound, Tied, Kept
<1>14. Grouped(x, K \cup {w})
  BY <1>1, <1>9 DEF Grouped
<1>15. Listed(x, K \cup {w})
  <2> SUFFICES ASSUME NEW m \in Windows, NEW c \in t[m]
               PROVE  c \in K /\ m \in K /\ c # m /\ Below(x, c, m)
    BY <1>9 DEF Listed
  <2>1. c \in s.trans[m] /\ c \in Windows
    BY <1>8, <1>10
  <2>2. c \in K /\ m \in K /\ c # m /\ Below(s, c, m)
    BY <2>1 DEF Sound, Listed
  <2>3. x.tfor = s.tfor /\ x.tid = s.tid /\ g.tid = s.tid
    BY <1>1, <1>12 DEF Kept
  <2>4. CASE c = w
    BY <1>11, <2>2, <2>3, <2>4 DEF Below
  <2>5. CASE m = w
    <3>1. c \in own
      BY <1>5, <1>8, <2>5
    <3> QED
      BY <1>9, <2>2, <2>3, <2>5, <3>1 DEF Below, groupTransient
  <2>6. CASE c # w /\ m # w
    BY <1>4, <1>9, <2>1, <2>2, <2>3, <2>6 DEF Below
  <2> QED
    BY <2>4, <2>5, <2>6
<1>16. MainsList(x)
  <2> SUFFICES ASSUME NEW c \in Windows, s.tfor[c] # NoWindow
               PROVE  c \in t[s.tfor[c]]
    BY <1>9, <1>12 DEF MainsList, Kept
  <2> DEFINE m == s.tfor[c]
  <2>1. m \in Windows /\ s.tid[c] = m
    BY Types DEF Sound, Tied
  <2>2. c \in s.trans[m] /\ c # m
    <3>1. c \in s.trans[m]
      BY DEF Sound, MainsList
    <3> QED
      BY <2>1, <3>1 DEF Sound, Listed
  <2>3. c \in t1[m]
    <3>1. ~groupTransient(g, c)
      BY <1>1, <2>1, WindowsAssumption DEF groupTransient, Kept
    <3> QED
      BY <1>1, <1>5, <2>1, <2>2, <3>1
  <2> HIDE DEF m
  <2>4. CASE c # w
    BY <1>8, <2>1, <2>3, <2>4 DEF m
  <2>5. CASE c = w
    <3>1. ~cut
      BY <1>1, <2>1, <2>5, WindowsAssumption DEF cut, groupTransient, Kept
    <3> QED
      BY <1>8, <2>1, <2>3, <3>1 DEF m
  <2> QED
    BY <2>4, <2>5
<1>17. Sound(x, K \cup {w})
  BY <1>1, <1>9, <1>13, <1>14, <1>15, <1>16 DEF Sound
<1>18. Moved(s, x, w, gr, K)
  BY <1>1, <1>9, <1>12, <1>17 DEF Moved
<1> QED
  BY <1>9, <1>10, <1>11, <1>18 DEF x, g

(* followOthers() keeps the relations sound: w, which is not listed as a   *)
(* group transient, becomes one of other members of its group.             *)
LEMMA OthersFollowed ==
    ASSUME NEW K \in SUBSET Windows, NEW s, Sound(s, K), NEW w \in K,
           \A m \in Windows : w \in s.trans[m] => s.tfor[w] = m,
           NEW x, x = followOthers(s, w)
    PROVE  /\ Sound(x, K) /\ Kept(s, x) /\ x.group = s.group
           /\ \A m \in Windows : x.trans[m] \subseteq s.trans[m] \cup {w}
<1> DEFINE gr == s.group[w]
           mains == IF groupTransient(s, w) THEN before(s, gr, w) ELSE {}
           t == [m \in Windows |-> IF m \in mains THEN s.trans[m] \cup {w}
                                   ELSE s.trans[m]]
           f == s.fault \/ \E m \in mains : w \in s.trans[m]
<1>1. s \in Relations /\ gr \in Groups
  BY Types DEF Sound, Grouped
<1>2. /\ s.trans \in [Windows -> SUBSET Windows] /\ s.fault \in BOOLEAN /\ ~s.fault
      /\ s.members[gr] \in Seq(Windows)
  BY <1>1, Types DEF Sound
<1>3. \A m \in mains : /\ m \in Windows /\ m # w /\ s.group[m] = gr /\ m \in K
                       /\ s.tid[w] = Root
  <2> SUFFICES ASSUME NEW m \in mains
               PROVE  m \in Windows /\ m # w /\ s.group[m] = gr /\ m \in K
    BY DEF groupTransient
  <2> DEFINE ms == s.members[gr]
  <2>1. PICK j \in 1..Len(ms) : m = ms[j] /\ w \notin {ms[k] : k \in 1..j}
    BY DEF before
  <2>2. m # w /\ m \in Windows
    BY <1>2, <2>1
  <2>3. Contains(ms, m)
    BY <2>1 DEF Contains
  <2>4. s.group[m] = gr
    BY <1>1, <2>2, <2>3 DEF Sound, Grouped
  <2>5. gr # NoGroup
    BY <1>1, GroupsAssumption
  <2> QED
    BY <2>2, <2>4, <2>5 DEF Sound, Grouped
<1>4. f = s.fault
  <2> SUFFICES ASSUME NEW m \in mains, w \in s.trans[m] PROVE FALSE
    BY <1>2
  <2>1. s.tfor[w] = m /\ m \in Windows /\ s.tid[w] = Root
    BY <1>3
  <2> QED
    BY <2>1, WindowsAssumption DEF Sound, Tied
<1>5. x = Relisted(s, t, s.fault)
  <2>1. x = [s EXCEPT !.trans = t, !.fault = f]
    BY <1>1 DEF followOthers, Relations
  <2> HIDE DEF f
  <2> QED
    BY <1>4, <2>1 DEF Relisted
<1>6. t \in [Windows -> SUBSET Windows]
  BY <1>2
<1>7. \A m \in Windows : t[m] = IF m \in mains THEN s.trans[m] \cup {w} ELSE s.trans[m]
  OBVIOUS
<1> HIDE DEF t, f, mains
<1>8. /\ x \in Relations /\ x.trans = t /\ x.fault = s.fault /\ Kept(s, x)
      /\ x.group = s.group /\ x.members = s.members
  BY <1>1, <1>2, <1>5, <1>6, RelistedTypes
<1>9. Tied(x) /\ Grouped(x, K)
  BY <1>8 DEF Sound, Tied, Grouped, Kept
<1>10. Listed(x, K)
  <2> SUFFICES ASSUME NEW m \in Windows, NEW c \in t[m]
               PROVE  c \in K /\ m \in K /\ c # m /\ Below(s, c, m)
    BY <1>8 DEF Listed, Below, Kept
  <2>1. CASE c \in s.trans[m]
    BY <2>1 DEF Sound, Listed
  <2>2. CASE c \notin s.trans[m]
    <3>1. m \in mains /\ c = w
      BY <1>7, <2>2
    <3> QED
      BY <1>3, <3>1 DEF Below
  <2> QED
    BY <2>1, <2>2
<1>11. MainsList(x)
  <2> SUFFICES ASSUME NEW c \in Windows, s.tfor[c] # NoWindow
               PROVE  c \in t[s.tfor[c]]
    BY <1>8 DEF MainsList, Kept
  <2>1. s.tfor[c] \in Windows /\ c \in s.trans[s.tfor[c]]
    BY Types DEF Sound, MainsList
  <2> QED
    BY <1>7, <2>1
<1> QED
  BY <1>7, <1>8, <1>9, <1>10, <1>11 DEF Sound

(* Who is in a list of transients is found by hasTransient().              *)
LEMMA HasListed ==
    ASSUME NEW K, NEW g, Sound(g, K), NEW m \in Windows, NEW c \in g.trans[m]
    PROVE  c \in Windows /\ hasTransient(g, m, c, TRUE)
<1>1. c \in Windows /\ c \in K /\ m \in K /\ Below(g, c, m)
  BY Types DEF Sound, Listed
<1>2. CASE g.tfor[c] = m
  BY <1>1, <1>2 DEF hasTransient, hasTransientOver
<1>3. CASE g.tid[c] = Root /\ g.group[c] = g.group[m]
  <2> DEFINE up == chain(g, c)
             met == up \ {c}
             inGroup == {x \in Windows : g.group[x] = g.group[c]}
             steps == {p \in (inGroup \ met) \X inGroup : p[2] \in g.trans[p[1]]}
  <2>1. c \in up
    BY <1>1, Reaches DEF chain
  <2>2. m \in Closure({m} \cap inGroup, steps)
    <3>1. {m} \cap inGroup = {m}
      BY <1>3
    <3> HIDE DEF inGroup, steps
    <3> QED
      BY <3>1, Reaches
  <2>3. reachesDown(g, m, c, met, TRUE)
    BY <2>2 DEF reachesDown
  <2>4. g.tfor[c] = NoWindow /\ isTransient(g, c)
    BY <1>1, <1>3, WindowsAssumption DEF Sound, Tied, isTransient
  <2> HIDE DEF up
  <2>5. hasTransientOver(g, m, c, TRUE, up)
    BY <2>1, <2>3, <2>4 DEF hasTransientOver
  <2> QED
    BY <1>1, <2>5 DEF hasTransient, up
<1> QED
  BY <1>1, <1>2, <1>3 DEF Below

(* g with more transients of w only.                                       *)
MoreOf(g, w, K) ==
    {x \in Relations : /\ Sound(x, K) /\ Kept(g, x) /\ x.group = g.group
                       /\ x.members = g.members
                       /\ \A m \in Windows \ {w} : x.trans[m] = g.trans[m]}

LEMMA SplashAdded ==
    ASSUME NEW K \in SUBSET Windows, NEW g, NEW w \in K, NEW s \in MoreOf(g, w, K),
           NEW m \in Windows, m # w, m \in K, s.group[m] = s.group[w],
           groupTransient(s, m), ~hasTransient(s, w, m, TRUE)
    PROVE  addTransient(s, w, m) \in MoreOf(g, w, K)
<1> DEFINE x == addTransient(s, w, m)
           t == [s.trans EXCEPT ![w] = @ \cup {m}]
<1>1. /\ s \in Relations /\ Sound(s, K) /\ Kept(g, s) /\ s.group = g.group
      /\ s.members = g.members
      /\ \A v \in Windows \ {w} : s.trans[v] = g.trans[v]
  BY DEF MoreOf
<1>2. s.trans \in [Windows -> SUBSET Windows] /\ s.fault \in BOOLEAN /\ ~s.fault
  BY <1>1, Types DEF Sound
<1>3. m \notin s.trans[w]
  BY <1>1, HasListed
<1>4. x = Relisted(s, t, s.fault)
  <2>1. x = [s EXCEPT !.trans = t, !.fault = s.fault \/ w = m \/ m \in s.trans[w]]
    BY <1>1 DEF addTransient, Relations
  <2>2. (s.fault \/ w = m \/ m \in s.trans[w]) = s.fault
    BY <1>2, <1>3
  <2> QED
    BY <2>1, <2>2 DEF Relisted
<1>5. /\ t \in [Windows -> SUBSET Windows] /\ t[w] = s.trans[w] \cup {m}
      /\ \A v \in Windows \ {w} : t[v] = s.trans[v]
  BY <1>2
<1> HIDE DEF x, t
<1>6. /\ x \in Relations /\ x.trans = t /\ x.fault = s.fault /\ Kept(s, x)
      /\ x.group = s.group /\ x.members = s.members
  BY <1>1, <1>2, <1>4, <1>5, RelistedTypes
<1>7. Tied(x) /\ Grouped(x, K)
  BY <1>1, <1>6 DEF Sound, Tied, Grouped, Kept
<1>8. Listed(x, K)
  <2> SUFFICES ASSUME NEW v \in Windows, NEW c \in t[v]
               PROVE  c \in K /\ v \in K /\ c # v /\ Below(s, c, v)
    BY <1>6 DEF Listed, Below, Kept
  <2>1. CASE c \in s.trans[v]
    BY <1>1, <2>1 DEF Sound, Listed
  <2>2. CASE c \notin s.trans[v]
    <3>1. c = m /\ v = w
      BY <1>5, <2>2
    <3> QED
      BY <3>1 DEF Below, groupTransient
  <2> QED
    BY <2>1, <2>2
<1>9. MainsList(x)
  <2> SUFFICES ASSUME NEW c \in Windows, s.tfor[c] # NoWindow
               PROVE  c \in t[s.tfor[c]]
    BY <1>6 DEF MainsList, Kept
  <2>1. s.tfor[c] \in Windows /\ c \in s.trans[s.tfor[c]]
    BY <1>1, Types DEF Sound, MainsList
  <2> QED
    BY <1>5, <2>1
<1>10. Sound(x, K)
  BY <1>2, <1>6, <1>7, <1>8, <1>9 DEF Sound
<1> QED
  BY <1>1, <1>5, <1>6, <1>10 DEF MoreOf, Kept, x

LEMMA SplashesFollowed ==
    ASSUME NEW K \in SUBSET Windows, NEW g, Sound(g, K), NEW w \in K
    PROVE  followSplashes(g, w) \in MoreOf(g, w, K)
<1> DEFINE l == g.members[g.group[w]]
           n == Len(l)
           T == MoreOf(g, w, K)
           Step(x, i) == IF /\ l[i] \in Splashes \ {w} /\ groupTransient(x, l[i])
                            /\ ~hasTransient(x, w, l[i], TRUE)
                         THEN addTransient(x, w, l[i]) ELSE x
           Q(k) == k = [i \in 0..n |-> IF i = 0 THEN g ELSE Step(k[i - 1], i)]
           S == [i \in 0..n |-> T]
           F == [i \in 1..n |-> [x \in T |-> Step(x, i)]]
           h == CHOOSE k : Q(k)
<1>1. g.group[w] \in Groups /\ l \in Seq(Windows) /\ n \in Nat
  <2>1. g.group[w] \in Groups /\ g.members \in [Groups -> Seq(Windows)]
    BY Types DEF Sound, Grouped
  <2> QED
    BY <2>1
<1>2. g \in T
  BY DEF MoreOf, Sound, Kept
<1>3. \A i \in 1..n : \A x \in T : Step(x, i) \in T
  <2> SUFFICES ASSUME NEW i \in 1..n, NEW x \in T, l[i] \in Splashes \ {w},
                      groupTransient(x, l[i]), ~hasTransient(x, w, l[i], TRUE)
               PROVE  addTransient(x, w, l[i]) \in T
    OBVIOUS
  <2>1. l[i] \in Windows /\ l[i] # w /\ Contains(l, l[i])
    BY <1>1 DEF Contains
  <2>2. g.group[l[i]] = g.group[w] /\ g.group[w] # NoGroup
    BY <1>1, <2>1, GroupsAssumption DEF Sound, Grouped
  <2>3. l[i] \in K /\ x.group = g.group
    BY <2>1, <2>2 DEF Sound, Grouped, MoreOf
  <2> HIDE DEF l
  <2> QED
    BY <2>1, <2>2, <2>3, SplashAdded
<1> HIDE DEF T
<1>4. PICK k : Computes(k, n, g, F, S)
  <2>1. g \in S[0]
    BY <1>1, <1>2
  <2>2. \A i \in 1..n : \A x \in S[i - 1] : F[i][x] \in S[i]
    <3> HIDE DEF Step
    <3> QED
      BY <1>1, <1>3
  <2> HIDE DEF n, S, F
  <2> QED
    BY <1>1, <2>1, <2>2, Recursion
<1>5. Q(k)
  <2>1. \A i \in 0..n : i # 0 => k[i] = Step(k[i - 1], i)
    <3> SUFFICES ASSUME NEW i \in 0..n, i # 0 PROVE k[i] = Step(k[i - 1], i)
      OBVIOUS
    <3>1. i \in 1..n /\ i - 1 \in 0..n
      BY <1>1
    <3>2. k[i] = F[i][k[i - 1]] /\ k[i - 1] \in T
      BY <1>4, <3>1 DEF Computes
    <3> HIDE DEF Step
    <3> QED
      BY <3>1, <3>2
  <2>2. k[0] = g /\ k = [i \in 0..n |-> k[i]]
    BY <1>1, <1>4 DEF Computes
  <2> HIDE DEF Step
  <2> QED
    BY <2>1, <2>2
<1>6. Q(h)
  BY <1>5
<1>7. followSplashes(g, w) = h[n]
  BY DEF followSplashes, Through
<1> HIDE DEF h
<1>8. \A i \in 0..n : h[i] \in S[i]
  <2>1. h[0] \in S[0]
    BY <1>1, <1>2, <1>6
  <2>2. \A i \in 1..n : h[i - 1] \in S[i - 1] => h[i] \in S[i]
    <3> SUFFICES ASSUME NEW i \in 1..n, h[i - 1] \in S[i - 1] PROVE h[i] \in S[i]
      OBVIOUS
    <3>1. i \in 0..n /\ i # 0 /\ i - 1 \in 0..n
      BY <1>1
    <3>2. h[i] = Step(h[i - 1], i)
      <4> HIDE DEF Step
      <4> QED
        BY <1>6, <3>1
    <3> HIDE DEF Step
    <3> QED
      BY <1>3, <3>1, <3>2
  <2> HIDE DEF S
  <2> QED
    BY <1>1, <2>1, <2>2, Carried
<1> QED
  BY <1>1, <1>7, <1>8 DEF T

-----------------------------------------------------------------------------
(* checkGroupTransients().                                                 *)

(* g with fewer transients, of which only group transients are missing.    *)
Fewer(g, x) ==
    \A m \in Windows : /\ x.trans[m] \subseteq g.trans[m]
                       /\ \A c \in g.trans[m] : c \notin x.trans[m] => g.tid[c] = Root

CutOf(g) ==
    {x \in Relations : /\ Kept(g, x) /\ x.fault = g.fault /\ x.group = g.group
                       /\ x.members = g.members /\ Fewer(g, x)}

LEMMA CutTwice ==
    ASSUME NEW g, NEW x \in CutOf(g), NEW y \in CutOf(x)
    PROVE  y \in CutOf(g)
<1>1. \A m \in Windows : x.trans[m] \in SUBSET Windows
  BY Types DEF CutOf
<1>2. Fewer(g, y)
  BY <1>1 DEF CutOf, Fewer, Kept
<1> QED
  BY <1>2 DEF CutOf, Kept

LEMMA CutNone ==
    ASSUME NEW g \in Relations
    PROVE  g \in CutOf(g)
BY DEF CutOf, Kept, Fewer

LEMMA CutOne ==
    ASSUME NEW g \in Relations, NEW c, g.tid[c] = Root, NEW m \in Windows
    PROVE  LET x == removeTransientFromList(g, m, c) IN
           x \in CutOf(g) /\ c \notin x.trans[m]
<1> DEFINE x == removeTransientFromList(g, m, c)
           t == [g.trans EXCEPT ![m] = @ \ {c}]
<1>1. g.trans \in [Windows -> SUBSET Windows] /\ g.fault \in BOOLEAN
  BY Types
<1>2. x = Relisted(g, t, g.fault)
  BY DEF removeTransientFromList, Relisted, Relations
<1>3. /\ t \in [Windows -> SUBSET Windows] /\ t[m] = g.trans[m] \ {c}
      /\ \A v \in Windows \ {m} : t[v] = g.trans[v]
  BY <1>1
<1> HIDE DEF t, x
<1>4. /\ x \in Relations /\ x.trans = t /\ x.fault = g.fault /\ Kept(g, x)
      /\ x.group = g.group /\ x.members = g.members
  BY <1>1, <1>2, <1>3, RelistedTypes
<1>5. Fewer(g, x)
  BY <1>3, <1>4 DEF Fewer
<1>6. x \in CutOf(g) /\ c \notin x.trans[m]
  BY <1>3, <1>4, <1>5 DEF CutOf
<1> QED
  BY <1>6 DEF x

LEMMA CutSound ==
    ASSUME NEW K, NEW g, Sound(g, K), NEW x \in CutOf(g)
    PROVE  Sound(x, K)
<1>1. /\ x \in Relations /\ x.fault = g.fault /\ Kept(g, x) /\ Fewer(g, x)
      /\ x.group = g.group /\ x.members = g.members
  BY DEF CutOf
<1>2. Tied(x) /\ Grouped(x, K)
  BY <1>1 DEF Sound, Tied, Grouped, Kept
<1>3. Listed(x, K)
  BY <1>1 DEF Sound, Listed, Below, Kept, Fewer
<1>4. MainsList(x)
  <2> SUFFICES ASSUME NEW c \in Windows, g.tfor[c] # NoWindow
               PROVE  c \in x.trans[g.tfor[c]]
    BY <1>1 DEF MainsList, Kept
  <2>1. g.tfor[c] \in Windows /\ c \in g.trans[g.tfor[c]] /\ g.tid[c] # Root
    BY Types DEF Sound, MainsList, Tied
  <2> QED
    BY <1>1, <2>1 DEF Fewer
<1> QED
  BY <1>1, <1>2, <1>3, <1>4 DEF Sound

(* Two windows of which c is a group transient are not transient for each  *)
(* other once cutMain() and cutMutual() have looked at them.               *)
LEMMA MutualCut ==
    ASSUME NEW K, NEW g, Sound(g, K), NEW c \in Windows, NEW m \in Windows,
           c # m, g.tid[c] = Root
    PROVE  LET x == cutMutual(cutMain(g, c, m), c, m) IN
           x \in CutOf(g) /\ ~Mutual(x, c, m)
<1> DEFINE y == cutMain(g, c, m)
           x == cutMutual(y, c, m)
<1>1. y \in CutOf(g) /\ (c \in chain(g, m) => c \notin y.trans[m])
  <2>1. g \in Relations
    BY DEF Sound
  <2> QED
    BY <2>1, CutOne, CutNone DEF cutMain
<1> HIDE DEF y
<1>2. y \in Relations /\ Kept(g, y) /\ Fewer(g, y) /\ Sound(y, K) /\ y.tid[c] = Root
  BY <1>1, CutSound DEF CutOf, Kept
<1> DEFINE both == /\ groupTransient(y, m) /\ hasTransient(y, c, m, TRUE)
                   /\ hasTransient(y, m, c, TRUE)
<1>3. CASE both
  <2>1. x = removeTransientFromList(y, m, c)
    BY <1>3 DEF cutMutual
  <2>2. x \in CutOf(y) /\ c \notin x.trans[m]
    BY <1>2, <2>1, CutOne
  <2> HIDE DEF x
  <2>3. x \in CutOf(g)
    BY <1>1, <2>2, CutTwice
  <2> QED
    BY <2>2, <2>3 DEF Mutual, x, y
<1>4. CASE ~both
  <2>1. x = y
    BY <1>4 DEF cutMutual
  <2>2. ~Mutual(y, c, m)
    <3> SUFFICES ASSUME c \in y.trans[m], m \in y.trans[c] PROVE FALSE
      BY DEF Mutual
    <3>1. hasTransient(y, c, m, TRUE) /\ hasTransient(y, m, c, TRUE)
      BY <1>2, HasListed
    <3>2. y.tid[m] # Root
      BY <1>4, <3>1 DEF groupTransient
    <3>3. Below(y, m, c)
      BY <1>2 DEF Sound, Listed
    <3>4. g.tfor[m] = c
      BY <1>2, <3>2, <3>3 DEF Below, Kept
    <3>5. c \in chain(g, m)
      <4> DEFINE R == {<<v, g.tfor[v]>> : v \in {u \in Windows : g.tfor[u] # NoWindow}}
      <4>1. <<m, c>> \in R
        BY <3>4, WindowsAssumption
      <4>2. /\ {m} \subseteq Closure({m}, R)
            /\ \A p \in R : p[1] \in Closure({m}, R) /\ p[2] \in Windows
                               => p[2] \in Closure({m}, R)
        <5> HIDE DEF R
        <5> QED
          BY Reaches
      <4> HIDE DEF R
      <4>3. c \in Closure({m}, R)
        BY <4>1, <4>2
      <4> QED
        BY <4>3 DEF chain, R
    <3> QED
      BY <1>1, <3>5
  <2> HIDE DEF x
  <2>3. x \in CutOf(g) /\ ~Mutual(x, c, m)
    BY <1>1, <2>1, <2>2
  <2> QED
    BY <2>3 DEF x, y
<1> QED
  BY <1>3, <1>4

LEMMA IndirectCut ==
    ASSUME NEW g \in Relations, NEW c, g.tid[c] = Root, NEW m \in Windows, NEW n
    PROVE  cutIndirect(g, c, m, n) \in CutOf(g)
BY CutOne, CutNone DEF cutIndirect

(* checkPair() cuts, and lets no two windows be transient for each other.  *)
LEMMA PairCut ==
    ASSUME NEW K, NEW g, Sound(g, K), NEW c \in Windows, NEW m \in Windows,
           c # m, c \in K, g.tid[c] = Root
    PROVE  LET x == checkPair(g, c, m) IN x \in CutOf(g) /\ ~Mutual(x, c, m)
<1> DEFINE l == g.members[g.group[c]]
           n == Len(l)
           b == cutMutual(cutMain(g, c, m), c, m)
           T == CutOf(b)
           Step(x, i) == IF l[i] \in {c, m} \/ ~hasTransient(x, m, c, FALSE)
                                            \/ ~hasTransient(x, l[i], c, FALSE) THEN x
                         ELSE cutIndirect(cutIndirect(x, c, m, l[i]), c, l[i], m)
           Q(k) == k = [i \in 0..n |-> IF i = 0 THEN b ELSE Step(k[i - 1], i)]
           S == [i \in 0..n |-> T]
           F == [i \in 1..n |-> [x \in T |-> Step(x, i)]]
           h == CHOOSE k : Q(k)
<1>1. l \in Seq(Windows) /\ n \in Nat
  <2>1. g.group[c] \in Groups /\ g.members \in [Groups -> Seq(Windows)]
    BY Types DEF Sound, Grouped
  <2> QED
    BY <2>1
<1>2. b \in CutOf(g) /\ ~Mutual(b, c, m)
  BY MutualCut
<1>3. checkPair(g, c, m) = h[n]
  BY DEF checkPair, Through
<1> HIDE DEF b
<1>4. b \in Relations /\ b.tid[c] = Root
  BY <1>2 DEF CutOf, Kept
<1>5. b \in T
  BY <1>4, CutNone
<1>6. \A i \in 1..n : \A x \in T : Step(x, i) \in T
  <2> SUFFICES ASSUME NEW i \in 1..n, NEW x \in T
               PROVE  cutIndirect(cutIndirect(x, c, m, l[i]), c, l[i], m) \in T
    OBVIOUS
  <2>1. l[i] \in Windows /\ x \in Relations /\ x.tid[c] = Root
    BY <1>1, <1>4 DEF CutOf, Kept
  <2> HIDE DEF l
  <2> DEFINE y == cutIndirect(x, c, m, l[i])
  <2>2. y \in CutOf(x)
    BY <2>1, IndirectCut
  <2> HIDE DEF y
  <2>3. y \in Relations /\ y.tid[c] = Root
    BY <2>1, <2>2 DEF CutOf, Kept
  <2>4. cutIndirect(y, c, l[i], m) \in CutOf(y)
    BY <2>1, <2>3, IndirectCut
  <2>5. cutIndirect(y, c, l[i], m) \in T
    BY <2>2, <2>4, CutTwice
  <2> QED
    BY <2>5 DEF y
<1> HIDE DEF T
<1>7. PICK k : Computes(k, n, b, F, S)
  <2>1. b \in S[0]
    BY <1>1, <1>5
  <2>2. \A i \in 1..n : \A x \in S[i - 1] : F[i][x] \in S[i]
    <3> HIDE DEF Step
    <3> QED
      BY <1>1, <1>6
  <2> HIDE DEF n, S, F
  <2> QED
    BY <1>1, <2>1, <2>2, Recursion
<1>8. Q(k)
  <2>1. \A i \in 0..n : i # 0 => k[i] = Step(k[i - 1], i)
    <3> SUFFICES ASSUME NEW i \in 0..n, i # 0 PROVE k[i] = Step(k[i - 1], i)
      OBVIOUS
    <3>1. i \in 1..n /\ i - 1 \in 0..n
      BY <1>1
    <3>2. k[i] = F[i][k[i - 1]] /\ k[i - 1] \in T
      BY <1>7, <3>1 DEF Computes
    <3> HIDE DEF Step
    <3> QED
      BY <3>1, <3>2
  <2>2. k[0] = b /\ k = [i \in 0..n |-> k[i]]
    BY <1>1, <1>7 DEF Computes
  <2> HIDE DEF Step
  <2> QED
    BY <2>1, <2>2
<1>9. Q(h)
  BY <1>8
<1> HIDE DEF h
<1>10. \A i \in 0..n : h[i] \in S[i]
  <2>1. h[0] \in S[0]
    BY <1>1, <1>5, <1>9
  <2>2. \A i \in 1..n : h[i - 1] \in S[i - 1] => h[i] \in S[i]
    <3> SUFFICES ASSUME NEW i \in 1..n, h[i - 1] \in S[i - 1] PROVE h[i] \in S[i]
      OBVIOUS
    <3>1. i \in 0..n /\ i # 0 /\ i - 1 \in 0..n
      BY <1>1
    <3>2. h[i] = Step(h[i - 1], i)
      <4> HIDE DEF Step
      <4> QED
        BY <1>9, <3>1
    <3> HIDE DEF Step
    <3> QED
      BY <1>6, <3>1, <3>2
  <2> HIDE DEF S
  <2> QED
    BY <1>1, <2>1, <2>2, Carried
<1>11. h[n] \in CutOf(b)
  BY <1>1, <1>10 DEF T
<1>12. h[n] \in CutOf(g)
  BY <1>2, <1>11, CutTwice
<1>13. ~Mutual(h[n], c, m)
  BY <1>2, <1>11 DEF CutOf, Fewer, Mutual
<1> QED
  BY <1>3, <1>12, <1>13

LEMMA CutNotMutual ==
    ASSUME NEW g, NEW x \in CutOf(g), NEW a \in Windows, NEW b \in Windows,
           ~Mutual(g, a, b)
    PROVE  ~Mutual(x, a, b)
BY DEF CutOf, Fewer, Mutual

(* After checkMember() for a group transient c, no window of the group is  *)
(* transient for c as well as the other way round.                         *)
LEMMA MemberCut ==
    ASSUME NEW K, NEW g, Sound(g, K), NEW gr \in Groups, NEW c \in Windows, c \in K
    PROVE  LET x == checkMember(g, gr, c) IN
           /\ x \in CutOf(g)
           /\ g.tid[c] = Root =>
                 \A m \in Windows : Contains(g.members[gr], m) /\ m # c
                                       => ~Mutual(x, c, m)
<1>1. CASE g.tid[c] # Root
  <2>1. checkMember(g, gr, c) = g
    BY <1>1 DEF checkMember, groupTransient
  <2> QED
    BY <1>1, <2>1, CutNone DEF Sound
<1>2. CASE g.tid[c] = Root
  <2> DEFINE l == g.members[gr]
             n == Len(l)
             S == [i \in 0..n |-> {x \in CutOf(g) : \A j \in 1..i :
                                      l[j] # c => ~Mutual(x, c, l[j])}]
             Step(x, i) == IF l[i] = c THEN x ELSE checkPair(x, c, l[i])
             Q(k) == k = [i \in 0..n |-> IF i = 0 THEN g ELSE Step(k[i - 1], i)]
             F == [i \in 1..n |-> [x \in S[i - 1] |-> Step(x, i)]]
             h == CHOOSE k : Q(k)
  <2>1. l \in Seq(Windows) /\ n \in Nat
    BY Types DEF Sound
  <2>2. g \in S[0]
    BY <2>1, CutNone DEF Sound
  <2>3. \A i \in 1..n : \A x \in S[i - 1] : Step(x, i) \in S[i]
    <3> SUFFICES ASSUME NEW i \in 1..n, NEW x \in S[i - 1] PROVE Step(x, i) \in S[i]
      OBVIOUS
    <3>1. i \in 0..n /\ i - 1 \in 0..n /\ l[i] \in Windows
          /\ 1..i = 1..(i - 1) \cup {i}
      BY <2>1
    <3>2. x \in CutOf(g) /\ \A j \in 1..(i - 1) : l[j] # c => ~Mutual(x, c, l[j])
      BY <3>1
    <3>3. CASE l[i] = c
      BY <3>1, <3>2, <3>3
    <3>4. CASE l[i] # c
      <4> DEFINE y == checkPair(x, c, l[i])
      <4>1. Sound(x, K) /\ x.tid[c] = Root
        BY <1>2, <3>2, CutSound DEF CutOf, Kept
      <4>2. y \in CutOf(x) /\ ~Mutual(y, c, l[i])
        <5> HIDE DEF l
        <5> QED
          BY <3>1, <3>4, <4>1, PairCut
      <4> HIDE DEF y
      <4>3. y \in CutOf(g)
        BY <3>2, <4>2, CutTwice
      <4>4. \A j \in 1..(i - 1) : l[j] # c => ~Mutual(y, c, l[j])
        <5> SUFFICES ASSUME NEW j \in 1..(i - 1), l[j] # c PROVE ~Mutual(y, c, l[j])
          OBVIOUS
        <5>1. l[j] \in Windows
          BY <2>1, <3>1
        <5> HIDE DEF l
        <5> QED
          BY <3>2, <4>2, <5>1, CutNotMutual
      <4>5. y \in S[i]
        BY <3>1, <4>2, <4>3, <4>4
      <4> QED
        BY <3>4, <4>5 DEF y
    <3> QED
      BY <3>3, <3>4
  <2>4. checkMember(g, gr, c) = h[n]
    BY <1>2 DEF checkMember, Through, groupTransient
  <2> HIDE DEF Step
  <2>5. PICK k : Computes(k, n, g, F, S)
    <3>1. \A i \in 1..n : \A x \in S[i - 1] : F[i][x] \in S[i]
      <4> HIDE DEF S
      <4> QED
        BY <2>1, <2>3
    <3> HIDE DEF n, S, F
    <3> QED
      BY <2>1, <2>2, <3>1, Recursion
  <2>6. Q(k)
    <3>1. \A i \in 0..n : i # 0 => k[i] = Step(k[i - 1], i)
      <4> SUFFICES ASSUME NEW i \in 0..n, i # 0 PROVE k[i] = Step(k[i - 1], i)
        OBVIOUS
      <4>1. i \in 1..n /\ i - 1 \in 0..n
        BY <2>1
      <4>2. k[i] = F[i][k[i - 1]] /\ k[i - 1] \in S[i - 1]
        BY <2>5, <4>1 DEF Computes
      <4> HIDE DEF S
      <4> QED
        BY <4>1, <4>2
    <3>2. k[0] = g /\ k = [i \in 0..n |-> k[i]]
      BY <2>1, <2>5 DEF Computes
    <3> QED
      BY <3>1, <3>2
  <2>7. Q(h)
    BY <2>6
  <2> HIDE DEF h
  <2>8. \A i \in 0..n : h[i] \in S[i]
    <3>1. h[0] \in S[0]
      BY <2>1, <2>2, <2>7
    <3>2. \A i \in 1..n : h[i - 1] \in S[i - 1] => h[i] \in S[i]
      <4> SUFFICES ASSUME NEW i \in 1..n, h[i - 1] \in S[i - 1] PROVE h[i] \in S[i]
        OBVIOUS
      <4>1. i \in 0..n /\ i # 0
        BY <2>1
      <4>2. h[i] = Step(h[i - 1], i)
        BY <2>7, <4>1
      <4> HIDE DEF S
      <4> QED
        BY <2>3, <4>2
    <3> HIDE DEF S
    <3> QED
      BY <2>1, <3>1, <3>2, Carried
  <2>9. h[n] \in CutOf(g) /\ \A j \in 1..n : l[j] # c => ~Mutual(h[n], c, l[j])
    <3>1. h[n] \in S[n] /\ n \in 0..n
      <4>1. n \in 0..n
        BY <2>1
      <4> HIDE DEF S
      <4> QED
        BY <2>8, <4>1
    <3>2. S[n] = {x \in CutOf(g) : \A j \in 1..n : l[j] # c => ~Mutual(x, c, l[j])}
      BY <3>1
    <3> HIDE DEF S, n, l
    <3> QED
      BY <3>1, <3>2
  <2>10. ASSUME NEW m \in Windows, Contains(l, m), m # c PROVE ~Mutual(h[n], c, m)
    <3>1. PICK j \in 1..n : l[j] = m
      BY <2>10 DEF Contains
    <3> HIDE DEF n, l
    <3> QED
      BY <2>9, <2>10, <3>1
  <2> QED
    BY <2>4, <2>9, <2>10
<1> QED
  BY <1>1, <1>2

(* Neither are any two windows of the group after checkGroupTransients().  *)
LEMMA GroupCut ==
    ASSUME NEW K, NEW g, Sound(g, K), Ending(g), NEW gr \in Groups
    PROVE  LET x == checkGroupTransients(g, gr) IN
           /\ x \in CutOf(g)
           /\ \A a, b \in Windows : g.group[a] = gr /\ g.group[b] = gr
                                       => ~Mutual(x, a, b)
<1> DEFINE l == g.members[gr]
           n == Len(l)
           Apart(x, c) == g.tid[c] = Root =>
                             \A m \in Windows : Contains(l, m) /\ m # c
                                                   => ~Mutual(x, c, m)
           S == [i \in 0..n |-> {x \in CutOf(g) : \A j \in 1..i : Apart(x, l[j])}]
           Step(x, i) == checkMember(x, gr, l[i])
           Q(k) == k = [i \in 0..n |-> IF i = 0 THEN g ELSE Step(k[i - 1], i)]
           F == [i \in 1..n |-> [x \in S[i - 1] |-> Step(x, i)]]
           h == CHOOSE k : Q(k)
<1>1. l \in Seq(Windows) /\ n \in Nat
  BY Types DEF Sound
<1>2. g \in S[0]
  BY <1>1, CutNone DEF Sound
<1>3. \A i \in 1..n : \A x \in S[i - 1] : Step(x, i) \in S[i]
  <2> SUFFICES ASSUME NEW i \in 1..n, NEW x \in S[i - 1] PROVE Step(x, i) \in S[i]
    OBVIOUS
  <2> DEFINE y == Step(x, i)
             c == l[i]
  <2>1. i \in 0..n /\ i - 1 \in 0..n /\ c \in Windows /\ Contains(l, c)
        /\ 1..i = 1..(i - 1) \cup {i}
    BY <1>1 DEF Contains
  <2>2. x \in CutOf(g) /\ \A j \in 1..(i - 1) : Apart(x, l[j])
    <3> HIDE DEF Apart
    <3> QED
      BY <2>1
  <2>3. c \in K
    <3>1. g.group[c] = gr
      BY <2>1 DEF Sound, Grouped
    <3> QED
      BY <2>1, <3>1, GroupsAssumption DEF Sound, Grouped
  <2>4. Sound(x, K) /\ x.tid = g.tid /\ x.members = g.members
    BY <2>2, CutSound DEF CutOf, Kept
  <2>5. /\ y \in CutOf(x)
        /\ g.tid[c] = Root => \A m \in Windows : Contains(l, m) /\ m # c
                                                    => ~Mutual(y, c, m)
    <3> HIDE DEF c
    <3>1. checkMember(x, gr, c) \in CutOf(x)
          /\ (x.tid[c] = Root =>
                \A m \in Windows : Contains(x.members[gr], m) /\ m # c
                                      => ~Mutual(checkMember(x, gr, c), c, m))
      BY <2>1, <2>3, <2>4, MemberCut
    <3> QED
      BY <2>4, <3>1 DEF c
  <2> HIDE DEF y
  <2>6. y \in CutOf(g)
    BY <2>2, <2>5, CutTwice
  <2>7. \A j \in 1..(i - 1) : Apart(y, l[j])
    <3> SUFFICES ASSUME NEW j \in 1..(i - 1), g.tid[l[j]] = Root, NEW m \in Windows,
                        Contains(l, m), m # l[j]
                 PROVE  ~Mutual(y, l[j], m)
      OBVIOUS
    <3>1. l[j] \in Windows
      BY <1>1, <2>1
    <3>2. ~Mutual(x, l[j], m)
      BY <2>2
    <3> HIDE DEF l
    <3> QED
      BY <2>5, <3>1, <3>2, CutNotMutual
  <2>8. \A j \in 1..i : Apart(y, l[j])
    <3>1. Apart(y, l[i])
      BY <2>5
    <3> HIDE DEF Apart
    <3> QED
      BY <2>1, <2>7, <3>1
  <2>9. y \in S[i]
    <3> HIDE DEF Apart
    <3> QED
      BY <2>1, <2>6, <2>8
  <2> QED
    BY <2>9 DEF y
<1>4. checkGroupTransients(g, gr) = h[n]
  BY DEF checkGroupTransients, Through
<1> HIDE DEF Step, Apart
<1>5. PICK k : Computes(k, n, g, F, S)
  <2>1. \A i \in 1..n : \A x \in S[i - 1] : F[i][x] \in S[i]
    <3> HIDE DEF S
    <3> QED
      BY <1>1, <1>3
  <2> HIDE DEF n, S, F
  <2> QED
    BY <1>1, <1>2, <2>1, Recursion
<1>6. Q(k)
  <2>1. \A i \in 0..n : i # 0 => k[i] = Step(k[i - 1], i)
    <3> SUFFICES ASSUME NEW i \in 0..n, i # 0 PROVE k[i] = Step(k[i - 1], i)
      OBVIOUS
    <3>1. i \in 1..n /\ i - 1 \in 0..n
      BY <1>1
    <3>2. k[i] = F[i][k[i - 1]] /\ k[i - 1] \in S[i - 1]
      BY <1>5, <3>1 DEF Computes
    <3> HIDE DEF S
    <3> QED
      BY <3>1, <3>2
  <2>2. k[0] = g /\ k = [i \in 0..n |-> k[i]]
    BY <1>1, <1>5 DEF Computes
  <2> QED
    BY <2>1, <2>2
<1>7. Q(h)
  BY <1>6
<1> HIDE DEF h
<1>8. \A i \in 0..n : h[i] \in S[i]
  <2>1. h[0] \in S[0]
    BY <1>1, <1>2, <1>7
  <2>2. \A i \in 1..n : h[i - 1] \in S[i - 1] => h[i] \in S[i]
    <3> SUFFICES ASSUME NEW i \in 1..n, h[i - 1] \in S[i - 1] PROVE h[i] \in S[i]
      OBVIOUS
    <3>1. i \in 0..n /\ i # 0
      BY <1>1
    <3>2. h[i] = Step(h[i - 1], i)
      BY <1>7, <3>1
    <3> HIDE DEF S
    <3> QED
      BY <1>3, <3>2
  <2> HIDE DEF S
  <2> QED
    BY <1>1, <2>1, <2>2, Carried
<1> DEFINE x == h[n]
<1>9. x \in CutOf(g) /\ \A j \in 1..n : Apart(x, l[j])
  <2>1. h[n] \in S[n] /\ n \in 0..n
    <3>1. n \in 0..n
      BY <1>1
    <3> HIDE DEF S
    <3> QED
      BY <1>8, <3>1
  <2>2. S[n] = {v \in CutOf(g) : \A j \in 1..n : Apart(v, l[j])}
    BY <2>1
  <2> HIDE DEF S, n, l
  <2> QED
    BY <2>1, <2>2 DEF x
<1> HIDE DEF x
<1>10. ASSUME NEW a \in Windows, NEW b \in Windows, g.group[a] = gr, g.group[b] = gr,
              Mutual(x, a, b)
       PROVE  FALSE
  <2>1. Contains(l, a) /\ Contains(l, b)
    BY <1>10 DEF Sound, Grouped
  <2>2. a \in g.trans[b] /\ b \in g.trans[a]
    BY <1>9, <1>10 DEF Mutual, CutOf, Fewer
  <2>3. a # b /\ Below(g, a, b) /\ Below(g, b, a)
    BY <2>2 DEF Sound, Listed
  <2>4. Apart(x, a) /\ Apart(x, b)
    BY <1>9, <2>1 DEF Contains
  <2>5. g.tid[a] # Root /\ g.tid[b] # Root
    <3>1. Mutual(x, b, a)
      BY <1>10 DEF Mutual
    <3> QED
      BY <1>10, <2>1, <2>3, <2>4, <3>1 DEF Apart
  <2>6. g.tfor[a] = b /\ g.tfor[b] = a
    BY <2>3, <2>5 DEF Below
  <2>7. PICK w \in {a, b} : g.tfor[w] \notin {a, b}
    BY DEF Ending
  <2> QED
    BY <2>6, <2>7
<1>11. \A a, b \in Windows : g.group[a] = gr /\ g.group[b] = gr => ~Mutual(x, a, b)
  BY <1>10
<1> QED
  BY <1>4, <1>9, <1>11 DEF x

-----------------------------------------------------------------------------
(* checkGroup().                                                           *)

NoMutualBut(g, w) == \A a, b \in Windows \ {w} : ~Mutual(g, a, b)

(* Two windows that are transient for each other are in one group.         *)
LEMMA MutualGroup ==
    ASSUME NEW K, NEW g, Sound(g, K), Ending(g), NEW a \in Windows, NEW b \in Windows,
           Mutual(g, a, b)
    PROVE  g.group[a] = g.group[b]
<1>1. Below(g, a, b) /\ Below(g, b, a)
  BY DEF Sound, Listed, Mutual
<1> SUFFICES ASSUME g.tfor[a] = b, g.tfor[b] = a PROVE FALSE
  BY <1>1 DEF Below
<1>2. PICK w \in {a, b} : g.tfor[w] \notin {a, b}
  BY DEF Ending
<1> QED
  BY <1>2

(* The second half of checkGroup(), up to checkGroupTransients().          *)
LEMMA Joined ==
    ASSUME NEW K \in SUBSET Windows, NEW s, Sound(s, K),
           NEW w \in Windows, NEW gr \in Groups
    PROVE  LET x == followSplashes(followOthers(
                        dropOthers(changeGroup(s, w, gr), w, s.group[w]), w), w) IN
           /\ Moved(s, x, w, gr, K)
           /\ \A m \in Windows \ {w} : x.trans[m] \subseteq s.trans[m] \cup {w}
<1> DEFINE L == K \cup {w}
           a == dropOthers(changeGroup(s, w, gr), w, s.group[w])
           b == followOthers(a, w)
           x == followSplashes(b, w)
<1>1. /\ Sound(a, L) /\ Kept(s, a) /\ a.group = [s.group EXCEPT ![w] = gr]
      /\ \A m \in Windows : w \in a.trans[m] => s.tfor[w] = m
      /\ \A m \in Windows : a.trans[m] \subseteq s.trans[m]
  <2>1. /\ Moved(s, a, w, gr, K)
        /\ \A m \in Windows : w \in a.trans[m] => s.tfor[w] = m
        /\ \A m \in Windows : a.trans[m] \subseteq s.trans[m]
    BY OthersDropped
  <2> HIDE DEF a
  <2> QED
    BY <2>1 DEF Moved
<1> HIDE DEF a
<1>2. L \in SUBSET Windows /\ w \in L
  OBVIOUS
<1>3. \A m \in Windows : w \in a.trans[m] => a.tfor[w] = m
  BY <1>1 DEF Kept
<1> HIDE DEF L
<1>4. /\ Sound(b, L) /\ Kept(a, b) /\ b.group = a.group
      /\ \A m \in Windows : b.trans[m] \subseteq a.trans[m] \cup {w}
  BY <1>1, <1>2, <1>3, OthersFollowed
<1>5. x = followSplashes(b, w)
  OBVIOUS
<1> HIDE DEF b, x
<1>6. x \in MoreOf(b, w, L)
  BY <1>2, <1>4, <1>5, SplashesFollowed
<1>7. Sound(x, L) /\ Kept(b, x) /\ x.group = b.group
      /\ \A m \in Windows \ {w} : x.trans[m] = b.trans[m]
  BY <1>6 DEF MoreOf
<1>8. Kept(s, x)
  BY <1>1, <1>4, <1>7 DEF Kept
<1>9. \A m \in Windows \ {w} : x.trans[m] \subseteq s.trans[m] \cup {w}
  BY <1>1, <1>4, <1>7
<1> QED
  BY <1>1, <1>4, <1>7, <1>8, <1>9 DEF Moved, L, x, b, a

LEMMA Settled ==
    ASSUME NEW K \in SUBSET Windows, NEW s, Sound(s, K), Ending(s),
           NEW w \in Windows, NEW gr \in Groups, NEW joins \in BOOLEAN,
           ~joins => s.group[w] = gr
    PROVE  LET x == settle(s, w, gr, joins) IN
           Moved(s, x, w, gr, K) /\ (NoMutualBut(s, w) => NoMutual(x))
<1> DEFINE L == K \cup {w}
           g == IF ~joins THEN s
                ELSE followSplashes(followOthers(
                         dropOthers(changeGroup(s, w, gr), w, s.group[w]), w), w)
           x == settle(s, w, gr, joins)
<1>1. s.group \in [Windows -> Groups \cup {NoGroup}] /\ gr # NoGroup
  BY Types, GroupsAssumption DEF Sound
<1>2. /\ Sound(g, L) /\ Kept(s, g) /\ g.group = [s.group EXCEPT ![w] = gr]
      /\ \A m \in Windows \ {w} : g.trans[m] \subseteq s.trans[m] \cup {w}
  <2>1. CASE joins
    <3> DEFINE y == followSplashes(followOthers(
                        dropOthers(changeGroup(s, w, gr), w, s.group[w]), w), w)
    <3>1. /\ Moved(s, y, w, gr, K)
          /\ \A m \in Windows \ {w} : y.trans[m] \subseteq s.trans[m] \cup {w}
      BY Joined
    <3> HIDE DEF y
    <3>2. g = y
      BY <2>1 DEF y
    <3> HIDE DEF g
    <3> QED
      BY <3>1, <3>2 DEF Moved
  <2>2. CASE ~joins
    <3>1. g = s /\ w \in K
      BY <1>1, <2>2 DEF Sound, Grouped
    <3>2. L = K /\ s.group = [s.group EXCEPT ![w] = gr]
      BY <1>1, <2>2, <3>1
    <3> HIDE DEF g, L
    <3> QED
      BY <3>1, <3>2 DEF Kept
  <2> QED
    BY <2>1, <2>2
<1>3. x = checkGroupTransients(g, gr)
  BY DEF settle
<1> HIDE DEF g, L, x
<1>4. Ending(g)
  BY <1>2 DEF Ending, Kept
<1>5. /\ x \in CutOf(g)
      /\ \A a, b \in Windows : g.group[a] = gr /\ g.group[b] = gr => ~Mutual(x, a, b)
  <2>1. Sound(g, L)
    BY <1>2
  <2>2. /\ checkGroupTransients(g, gr) \in CutOf(g)
        /\ \A a, b \in Windows : g.group[a] = gr /\ g.group[b] = gr
                                    => ~Mutual(checkGroupTransients(g, gr), a, b)
    BY <1>4, <2>1, GroupCut
  <2> QED
    BY <1>3, <2>2
<1>6. Sound(x, L)
  BY <1>2, <1>5, CutSound
<1>7. Kept(s, x) /\ x.group = g.group
  BY <1>2, <1>5 DEF CutOf, Kept
<1>8. ASSUME NoMutualBut(s, w), NEW a \in Windows, NEW b \in Windows, Mutual(x, a, b)
      PROVE  FALSE
  <2>1. Mutual(g, a, b)
    BY <1>5, <1>8, CutNotMutual
  <2>2. g.group[a] = g.group[b]
    <3>1. Sound(g, L)
      BY <1>2
    <3> QED
      BY <1>4, <2>1, <3>1, MutualGroup
  <2>3. a # w /\ b # w
    BY <1>1, <1>2, <1>5, <1>8, <2>2
  <2>4. Mutual(s, a, b)
    BY <1>2, <2>1, <2>3 DEF Mutual
  <2> QED
    BY <1>8, <2>3, <2>4 DEF NoMutualBut
<1>9. NoMutualBut(s, w) => NoMutual(x)
  BY <1>8 DEF NoMutual
<1> QED
  BY <1>2, <1>6, <1>7, <1>9 DEF Moved, L, x

-----------------------------------------------------------------------------
(* The group of the client leader.                                         *)

(* The invariant, and g with windows in other groups.                      *)
Orderly(g, K) == Sound(g, K) /\ Ending(g) /\ NoMutual(g)

Regroupings(g, K) == {x \in Relations : Orderly(x, K) /\ Kept(g, x)}

LEMMA EndingKept ==
    ASSUME NEW g, NEW x, Ending(g), Kept(g, x)
    PROVE  Ending(x)
BY DEF Ending, Kept

LEMMA LeaderGroupChanged ==
    ASSUME NEW K \in SUBSET Windows, NEW g, NEW s \in Regroupings(g, K),
           NEW w \in K, NEW gr \in Groups
    PROVE  changeClientLeaderGroup(s, w, gr) \in Regroupings(g, K)
<1>1. Sound(s, K) /\ Ending(s) /\ NoMutual(s) /\ Kept(g, s)
  BY DEF Regroupings, Orderly
<1>2. CASE s.tfor[w] # NoWindow \/ s.hint[w] # NoGroup
  BY <1>2 DEF changeClientLeaderGroup
<1>3. CASE ~(s.tfor[w] # NoWindow \/ s.hint[w] # NoGroup)
  <2> DEFINE joins == gr # s.group[w]
             x == settle(s, w, gr, joins)
  <2>1. joins \in BOOLEAN /\ (~joins => s.group[w] = gr)
    OBVIOUS
  <2>2. changeClientLeaderGroup(s, w, gr) = x
    BY <1>3 DEF changeClientLeaderGroup
  <2> HIDE DEF joins
  <2>3. Moved(s, x, w, gr, K) /\ (NoMutualBut(s, w) => NoMutual(x))
    BY <1>1, <2>1, Settled
  <2> HIDE DEF x
  <2>4. K \cup {w} = K /\ NoMutualBut(s, w)
    BY <1>1 DEF NoMutual, NoMutualBut
  <2>5. Sound(x, K) /\ Kept(s, x) /\ NoMutual(x)
    BY <2>3, <2>4 DEF Moved
  <2>6. Ending(x) /\ Kept(g, x) /\ x \in Relations
    BY <1>1, <2>5 DEF Ending, Kept, Sound
  <2> QED
    BY <2>2, <2>5, <2>6 DEF Regroupings, Orderly
<1> QED
  BY <1>2, <1>3

LEMMA MembersMoved ==
    ASSUME NEW K \in SUBSET Windows, NEW g, NEW s \in Regroupings(g, K),
           NEW from \in Groups, NEW w, NEW gr \in Groups
    PROVE  moveMembers(s, from, w, gr) \in Regroupings(g, K)
<1> DEFINE l == s.members[from]
           n == Len(l)
           T == Regroupings(g, K)
           Step(x, i) == IF l[i] = w THEN x ELSE changeClientLeaderGroup(x, l[i], gr)
           Q(k) == k = [i \in 0..n |-> IF i = 0 THEN s ELSE Step(k[i - 1], i)]
           S == [i \in 0..n |-> T]
           F == [i \in 1..n |-> [x \in T |-> Step(x, i)]]
           h == CHOOSE k : Q(k)
<1>1. Sound(s, K)
  BY DEF Regroupings, Orderly
<1>2. l \in Seq(Windows) /\ n \in Nat
  BY <1>1, Types DEF Sound
<1>3. s \in T
  OBVIOUS
<1>4. \A i \in 1..n : \A x \in T : Step(x, i) \in T
  <2> SUFFICES ASSUME NEW i \in 1..n, NEW x \in T
               PROVE  changeClientLeaderGroup(x, l[i], gr) \in T
    OBVIOUS
  <2>1. l[i] \in Windows /\ Contains(l, l[i])
    BY <1>2 DEF Contains
  <2>2. l[i] \in K
    BY <1>1, <2>1, GroupsAssumption DEF Sound, Grouped
  <2> HIDE DEF l
  <2> QED
    BY <2>2, LeaderGroupChanged
<1> HIDE DEF T
<1>5. PICK k : Computes(k, n, s, F, S)
  <2>1. s \in S[0]
    BY <1>2, <1>3
  <2>2. \A i \in 1..n : \A x \in S[i - 1] : F[i][x] \in S[i]
    <3> HIDE DEF Step
    <3> QED
      BY <1>2, <1>4
  <2> HIDE DEF n, S, F
  <2> QED
    BY <1>2, <2>1, <2>2, Recursion
<1>6. Q(k)
  <2>1. \A i \in 0..n : i # 0 => k[i] = Step(k[i - 1], i)
    <3> SUFFICES ASSUME NEW i \in 0..n, i # 0 PROVE k[i] = Step(k[i - 1], i)
      OBVIOUS
    <3>1. i \in 1..n /\ i - 1 \in 0..n
      BY <1>2
    <3>2. k[i] = F[i][k[i - 1]] /\ k[i - 1] \in T
      BY <1>5, <3>1 DEF Computes
    <3> HIDE DEF Step
    <3> QED
      BY <3>1, <3>2
  <2>2. k[0] = s /\ k = [i \in 0..n |-> k[i]]
    BY <1>2, <1>5 DEF Computes
  <2> HIDE DEF Step
  <2> QED
    BY <2>1, <2>2
<1>7. Q(h)
  BY <1>6
<1>8. moveMembers(s, from, w, gr) = h[n]
  BY DEF moveMembers, Through
<1> HIDE DEF h
<1>9. \A i \in 0..n : h[i] \in S[i]
  <2>1. h[0] \in S[0]
    BY <1>2, <1>3, <1>7
  <2>2. \A i \in 1..n : h[i - 1] \in S[i - 1] => h[i] \in S[i]
    <3> SUFFICES ASSUME NEW i \in 1..n, h[i - 1] \in S[i - 1] PROVE h[i] \in S[i]
      OBVIOUS
    <3>1. i \in 0..n /\ i # 0 /\ i - 1 \in 0..n
      BY <1>2
    <3>2. h[i] = Step(h[i - 1], i)
      <4> HIDE DEF Step
      <4> QED
        BY <1>7, <3>1
    <3> HIDE DEF Step
    <3> QED
      BY <1>4, <3>1, <3>2
  <2> HIDE DEF S
  <2> QED
    BY <1>2, <2>1, <2>2, Carried
<1>10. h[n] \in T
  <2>1. n \in 0..n
    BY <1>2
  <2> QED
    BY <1>9, <2>1
<1> QED
  BY <1>8, <1>10 DEF T

(* findClientLeaderGroup() finds a group or none.                          *)
LEMMA LeaderGroupFound ==
    ASSUME NEW K \in SUBSET Windows, NEW g, NEW s \in Regroupings(g, K),
           \A c \in Windows : Contains(s.clients, c) => c \in K, NEW w
    PROVE  findClientLeaderGroup(s, w)
               \in [g : Regroupings(g, K), ret : Groups \cup {NoGroup}]
<1> DEFINE l == s.clients
           n == Len(l)
           T == [g : Regroupings(g, K), ret : Groups \cup {NoGroup}]
           Step(a, i) ==
               IF l[i] = w \/ ClientLeader[l[i]] # ClientLeader[w] THEN a
               ELSE IF a.ret \in {NoGroup, a.g.group[l[i]]}
               THEN [a EXCEPT !.ret = a.g.group[l[i]]]
               ELSE [a EXCEPT !.g = moveMembers(a.g, a.g.group[l[i]], w, a.ret)]
           b == [g |-> s, ret |-> NoGroup]
           Q(k) == k = [i \in 0..n |-> IF i = 0 THEN b ELSE Step(k[i - 1], i)]
           S == [i \in 0..n |-> T]
           F == [i \in 1..n |-> [x \in T |-> Step(x, i)]]
           h == CHOOSE k : Q(k)
<1>1. Sound(s, K)
  BY DEF Regroupings, Orderly
<1>2. l \in Seq(Windows) /\ n \in Nat
  BY <1>1, Types DEF Sound
<1>3. b \in T
  OBVIOUS
<1>4. \A i \in 1..n : \A x \in T : Step(x, i) \in T
  <2> SUFFICES ASSUME NEW i \in 1..n, NEW a \in T PROVE Step(a, i) \in T
    OBVIOUS
  <2>1. l[i] \in Windows /\ l[i] \in K
    BY <1>2 DEF Contains
  <2>2. a.g \in Regroupings(g, K) /\ a.ret \in Groups \cup {NoGroup}
    OBVIOUS
  <2>3. a.g.group[l[i]] \in Groups
    <3>1. Sound(a.g, K)
      BY <2>2 DEF Regroupings, Orderly
    <3> QED
      BY <2>1, <3>1, Types DEF Sound, Grouped
  <2>4. ASSUME a.ret # NoGroup
        PROVE  moveMembers(a.g, a.g.group[l[i]], w, a.ret) \in Regroupings(g, K)
    <3>1. a.ret \in Groups
      BY <2>2, <2>4
    <3> HIDE DEF l, T
    <3> QED
      BY <2>2, <2>3, <3>1, MembersMoved
  <2> HIDE DEF l
  <2> QED
    BY <2>2, <2>3, <2>4
<1>5. findClientLeaderGroup(s, w) = h[n]
  BY DEF findClientLeaderGroup, Through
<1> HIDE DEF T, b
<1>6. PICK k : Computes(k, n, b, F, S)
  <2>1. b \in S[0]
    BY <1>2, <1>3
  <2>2. \A i \in 1..n : \A x \in S[i - 1] : F[i][x] \in S[i]
    <3> HIDE DEF Step
    <3> QED
      BY <1>2, <1>4
  <2> HIDE DEF n, S, F
  <2> QED
    BY <1>2, <2>1, <2>2, Recursion
<1>7. Q(k)
  <2>1. \A i \in 0..n : i # 0 => k[i] = Step(k[i - 1], i)
    <3> SUFFICES ASSUME NEW i \in 0..n, i # 0 PROVE k[i] = Step(k[i - 1], i)
      OBVIOUS
    <3>1. i \in 1..n /\ i - 1 \in 0..n
      BY <1>2
    <3>2. k[i] = F[i][k[i - 1]] /\ k[i - 1] \in T
      BY <1>6, <3>1 DEF Computes
    <3> HIDE DEF Step
    <3> QED
      BY <3>1, <3>2
  <2>2. k[0] = b /\ k = [i \in 0..n |-> k[i]]
    BY <1>2, <1>6 DEF Computes
  <2> HIDE DEF Step
  <2> QED
    BY <2>1, <2>2
<1>8. Q(h)
  BY <1>7
<1> HIDE DEF h
<1>9. \A i \in 0..n : h[i] \in S[i]
  <2>1. h[0] \in S[0]
    BY <1>2, <1>3, <1>8
  <2>2. \A i \in 1..n : h[i - 1] \in S[i - 1] => h[i] \in S[i]
    <3> SUFFICES ASSUME NEW i \in 1..n, h[i - 1] \in S[i - 1] PROVE h[i] \in S[i]
      OBVIOUS
    <3>1. i \in 0..n /\ i # 0 /\ i - 1 \in 0..n
      BY <1>2
    <3>2. h[i] = Step(h[i - 1], i)
      <4> HIDE DEF Step
      <4> QED
        BY <1>8, <3>1
    <3> HIDE DEF Step
    <3> QED
      BY <1>4, <3>1, <3>2
  <2> HIDE DEF S
  <2> QED
    BY <1>2, <2>1, <2>2, Carried
<1>10. h[n] \in T
  <2>1. n \in 0..n
    BY <1>2
  <2> QED
    BY <1>9, <2>1
<1> QED
  BY <1>5, <1>10 DEF T

-----------------------------------------------------------------------------
(* checkGroup() puts a window into a group.                                *)

LEMMA NumberFound ==
    ASSUME NEW K, NEW g, Sound(g, K), NEW w
    PROVE  newGroup(g, w) \in Groups
<1> DEFINE C == Cardinality(Windows)
           N == C + 1
           P == {n \in Numbers : g.members[n] \in {<<>>, <<w>>}}
<1>1. C \in Nat /\ N \in Nat /\ Numbers = 1..N /\ Numbers \subseteq Groups
  BY WindowsAssumption, FS_CardinalityType DEF Numbers, Groups
<1>2. P # {}
  <2> SUFFICES ASSUME P = {} PROVE FALSE
    OBVIOUS
  <2> DEFINE f == [n \in Numbers |-> g.members[n][1]]
  <2>1. ASSUME NEW n \in Numbers PROVE f[n] \in Windows /\ g.group[f[n]] = n
    <3> DEFINE l == g.members[n]
    <3>1. l # <<>> /\ l \in Seq(Windows) /\ n \in Groups
      BY <1>1, Types DEF Sound
    <3>2. l[1] \in Windows /\ 1 \in 1..Len(l)
      BY <3>1
    <3>3. Contains(l, l[1])
      BY <3>2 DEF Contains
    <3> QED
      BY <3>1, <3>2, <3>3 DEF Sound, Grouped
  <2>2. f \in [Numbers -> Windows]
    BY <2>1
  <2>3. IsFiniteSet(Numbers) /\ Cardinality(Numbers) = N
    BY <1>1, FS_Interval
  <2> HIDE DEF f
  <2>4. C < Cardinality(Numbers)
    BY <1>1, <2>3
  <2>5. PICK x, y \in Numbers : x # y /\ f[x] = f[y]
    BY <2>2, <2>3, <2>4, FS_PigeonHole, WindowsAssumption
  <2> QED
    BY <2>1, <2>5
<1>3. Min(P) \in P /\ \A i \in P : Min(P) <= i
  <2>1. P \in SUBSET (1..N)
    BY <1>1
  <2> HIDE DEF P, N
  <2> QED
    BY <1>1, <1>2, <2>1, MinPosition
<1> DEFINE m == Min(P)
<1>4. m \in Numbers /\ g.members[m] \in {<<>>, <<w>>}
  BY <1>3
<1>5. \A i \in 1..(m - 1) : g.members[i] \notin {<<>>, <<w>>}
  <2> SUFFICES ASSUME NEW i \in 1..(m - 1), g.members[i] \in {<<>>, <<w>>} PROVE FALSE
    OBVIOUS
  <2> HIDE DEF m, P
  <2>1. i \in Numbers /\ ~(m <= i)
    BY <1>1, <1>4
  <2>2. i \in P
    BY <2>1 DEF P
  <2> QED
    BY <1>3, <2>1, <2>2 DEF m
<1> HIDE DEF m
<1>6. \E n \in Numbers : /\ g.members[n] \in {<<>>, <<w>>}
                         /\ \A i \in 1..(n - 1) : g.members[i] \notin {<<>>, <<w>>}
  BY <1>4, <1>5
<1>7. newGroup(g, w) \in Numbers
  BY <1>6 DEF newGroup
<1> QED
  BY <1>1, <1>7

LEMMA SettledOrderly ==
    ASSUME NEW K \in SUBSET Windows, NEW s, Sound(s, K), Ending(s),
           NEW w \in Windows, NEW gr \in Groups, NEW joins \in BOOLEAN,
           ~joins => s.group[w] = gr, NoMutualBut(s, w)
    PROVE  settle(s, w, gr, joins) \in Regroupings(s, K \cup {w})
<1> DEFINE x == settle(s, w, gr, joins)
           L == K \cup {w}
<1>1. Moved(s, x, w, gr, K) /\ (NoMutualBut(s, w) => NoMutual(x))
  BY Settled
<1> HIDE DEF x
<1>2. Sound(x, L) /\ Kept(s, x) /\ NoMutual(x)
  BY <1>1 DEF Moved
<1>3. Ending(x) /\ x \in Relations
  BY <1>2, EndingKept DEF Sound
<1> HIDE DEF L
<1> QED
  BY <1>2, <1>3 DEF Regroupings, Orderly, x, L

LEMMA KeptTwice ==
    ASSUME NEW g, NEW s, Kept(g, s), NEW L, NEW x \in Regroupings(s, L)
    PROVE  x \in Regroupings(g, L)
BY DEF Regroupings, Kept

LEMMA GroupChecked ==
    ASSUME NEW K \in SUBSET Windows, NEW g, Sound(g, K), Ending(g),
           \A c \in Windows : Contains(g.clients, c) => c \in K,
           NEW w \in Windows, NoMutualBut(g, w),
           g.tfor[w] = NoWindow => NoMutual(g), NEW force \in BOOLEAN
    PROVE  checkGroup(g, w, force) \in Regroupings(g, K \cup {w})
<1> DEFINE gr == IF g.tfor[w] # NoWindow THEN g.group[g.tfor[w]] ELSE g.hint[w]
           L == K \cup {w}
<1>1. gr \in Groups \cup {NoGroup} /\ (g.tfor[w] # NoWindow => gr # NoGroup)
  <2>1. g \in Relations
    BY DEF Sound
  <2>2. CASE g.tfor[w] # NoWindow
    <3>1. g.tfor[w] \in Windows /\ w \in g.trans[g.tfor[w]]
      BY <2>1, <2>2, Types DEF Sound, MainsList
    <3>2. g.tfor[w] \in K
      BY <3>1 DEF Sound, Listed
    <3> QED
      BY <2>1, <2>2, <3>1, <3>2, Types DEF Sound, Grouped
  <2>3. CASE g.tfor[w] = NoWindow
    BY <2>1, <2>3, Types DEF Groups
  <2> QED
    BY <2>2, <2>3
<1>2. CASE gr # NoGroup
  <2> DEFINE joins == force \/ gr # g.group[w]
  <2>1. checkGroup(g, w, force) = settle(g, w, gr, joins)
    BY <1>2 DEF checkGroup
  <2>2. joins \in BOOLEAN /\ (~joins => g.group[w] = gr) /\ gr \in Groups
    BY <1>1, <1>2
  <2> HIDE DEF joins, gr
  <2>3. settle(g, w, gr, joins) \in Regroupings(g, K \cup {w})
    BY <2>2, SettledOrderly
  <2> QED
    BY <2>1, <2>3
<1>3. CASE gr = NoGroup
  <2> DEFINE a == findClientLeaderGroup(g, w)
  <2>1. checkGroup(g, w, force) = checkLeaderGroup(a, w, force)
    BY <1>3 DEF checkGroup
  <2>2. NoMutual(g)
    BY <1>1, <1>3
  <2>3. g \in Regroupings(g, K)
    BY <2>2 DEF Regroupings, Orderly, Kept, Sound
  <2>4. a \in [g : Regroupings(g, K), ret : Groups \cup {NoGroup}]
    BY <2>3, LeaderGroupFound
  <2> HIDE DEF a
  <2> DEFINE s == a.g
  <2>5. s \in Regroupings(g, K) /\ a.ret \in Groups \cup {NoGroup}
    BY <2>4
  <2> HIDE DEF s
  <2>6. Sound(s, K) /\ Ending(s) /\ Kept(g, s) /\ NoMutualBut(s, w)
    BY <2>5 DEF Regroupings, Orderly, NoMutual, NoMutualBut
  <2>7. CASE a.ret = NoGroup
    <3> DEFINE joins == TRUE
               n == newGroup(s, w)
    <3>1. checkLeaderGroup(a, w, force) = settle(s, w, n, joins)
      BY <2>7 DEF checkLeaderGroup, s
    <3>2. n \in Groups /\ joins \in BOOLEAN /\ (~joins => s.group[w] = n)
      BY <2>6, NumberFound
    <3> HIDE DEF joins, n
    <3>3. settle(s, w, n, joins) \in Regroupings(s, K \cup {w})
      BY <2>6, <3>2, SettledOrderly
    <3> QED
      BY <2>1, <2>6, <3>1, <3>3, KeptTwice
  <2>8. CASE a.ret # NoGroup
    <3> DEFINE joins == force \/ a.ret # s.group[w]
               n == a.ret
    <3>1. checkLeaderGroup(a, w, force) = settle(s, w, n, joins)
      BY <2>8 DEF checkLeaderGroup, s
    <3>2. n \in Groups /\ joins \in BOOLEAN /\ (~joins => s.group[w] = n)
      BY <2>5, <2>8
    <3> HIDE DEF joins, n
    <3>3. settle(s, w, n, joins) \in Regroupings(s, K \cup {w})
      BY <2>6, <3>2, SettledOrderly
    <3> QED
      BY <2>1, <2>6, <3>1, <3>3, KeptTwice
  <2> QED
    BY <2>7, <2>8
<1> QED
  BY <1>2, <1>3

-----------------------------------------------------------------------------
(* setTransient().                                                         *)

(* Main windows are clients.                                               *)
MainsManaged(g) == \A c \in Windows : g.tfor[c] # NoWindow => managed(g, g.tfor[c])

(* Where the steps that do not change the clients lead to.                 *)
Results(C, K) ==
    {x \in Relations : /\ Orderly(x, K) /\ MainsManaged(x) /\ x.clients = C
                       /\ x.notify \subseteq K}

Retargeted(g, t, id, main) == [g EXCEPT !.trans = t, !.tid = id, !.tfor = main]

LEMMA RetargetedTypes ==
    ASSUME NEW g \in Relations, NEW t \in [Windows -> SUBSET Windows],
           NEW id \in [Windows -> Windows \cup {NoWindow, Root}],
           NEW main \in [Windows -> Windows \cup {NoWindow}],
           NEW x, x = Retargeted(g, t, id, main)
    PROVE  /\ x \in Relations /\ x.trans = t /\ x.tid = id /\ x.tfor = main
           /\ x.fault = g.fault /\ x.clients = g.clients /\ x.notify = g.notify
           /\ x.group = g.group /\ x.members = g.members
BY DEF Relations, Retargeted

(* A client that is not transient for any window is in no list.            *)
LEMMA MainsRemoved ==
    ASSUME NEW K \in SUBSET Windows, NEW g, Sound(g, K), NEW c \in K
    PROVE  removeFromMainClients(g, c) =
               Retargeted(g, [m \in Windows |-> g.trans[m] \ {c}],
                          IF groupTransient(g, c) THEN g.tid
                          ELSE [g.tid EXCEPT ![c] = NoWindow],
                          [g.tfor EXCEPT ![c] = NoWindow])
<1> DEFINE ms == IF groupTransient(g, c) THEN ToSet(g.members[g.group[c]])
                 ELSE {g.tfor[c]}
           t == [m \in Windows |-> IF m \in ms THEN g.trans[m] \ {c} ELSE g.trans[m]]
           u == [m \in Windows |-> g.trans[m] \ {c}]
           no == [g.tid EXCEPT ![c] = NoWindow]
           to == [g.tfor EXCEPT ![c] = NoWindow]
           x == removeFromMainClients(g, c)
<1>1. /\ g \in Relations /\ g.group[c] \in Groups
      /\ g.trans \in [Windows -> SUBSET Windows]
      /\ g.tid \in [Windows -> Windows \cup {NoWindow, Root}]
      /\ g.tfor \in [Windows -> Windows \cup {NoWindow}]
  BY Types DEF Sound, Grouped
<1>2. g.members[g.group[c]] \in Seq(Windows)
  BY <1>1, Types
<1>3. \A m \in Windows : c \in g.trans[m] => m \in ms
  <2> SUFFICES ASSUME NEW m \in Windows, c \in g.trans[m] PROVE m \in ms
    OBVIOUS
  <2>1. m \in K /\ Below(g, c, m)
    BY DEF Sound, Listed
  <2>2. CASE groupTransient(g, c)
    <3>1. g.tid[c] = Root /\ g.tfor[c] = NoWindow
      BY <2>2 DEF groupTransient, Sound, Tied
    <3>2. g.group[m] = g.group[c]
      BY <2>1, <3>1, WindowsAssumption DEF Below
    <3>3. Contains(g.members[g.group[c]], m)
      BY <1>1, <3>2 DEF Sound, Grouped
    <3> QED
      BY <1>2, <2>2, <3>3, ToSetContains
  <2>3. CASE ~groupTransient(g, c)
    BY <2>1, <2>3 DEF Below, groupTransient
  <2> QED
    BY <2>2, <2>3
<1>4. t = u
  BY <1>1, <1>3
<1>5. x = removeTransient(g, ms, c)
  BY DEF removeFromMainClients
<1>6. CASE groupTransient(g, c)
  <2>1. g.tfor[c] = NoWindow
    BY <1>6 DEF groupTransient, Sound, Tied
  <2>2. g.tfor[c] \notin ms
    BY <1>2, <1>6, <2>1, ToSetContains, WindowsAssumption
  <2>3. x = [g EXCEPT !.trans = t]
    BY <1>1, <1>5, <2>2 DEF removeTransient
  <2>4. to = g.tfor
    BY <1>1, <2>1
  <2> HIDE DEF t, u, to
  <2>5. x = Retargeted(g, u, g.tid, to)
    BY <1>1, <1>4, <2>3, <2>4 DEF Retargeted, Relations
  <2> QED
    BY <1>6, <2>5 DEF u, to
<1>7. CASE ~groupTransient(g, c)
  <2>1. g.tfor[c] \in ms
    BY <1>7
  <2> DEFINE lists == [g EXCEPT !.trans = t]
  <2>2. x = [lists EXCEPT !.tid[c] = NoWindow, !.tfor[c] = NoWindow]
    BY <1>1, <1>5, <2>1 DEF removeTransient
  <2> HIDE DEF t, x
  <2>3. x = [lists EXCEPT !.tid = no, !.tfor = to]
    BY <1>1, <2>2 DEF Relations
  <2> HIDE DEF no, to, u
  <2>4. x = Retargeted(g, u, no, to)
    BY <1>1, <1>4, <2>3 DEF Retargeted, Relations
  <2> QED
    BY <1>7, <2>4 DEF u, no, to, x
<1> QED
  BY <1>6, <1>7

(* A window that does not lead back to w is a main window for it.          *)
LEMMA EndingRetargeted ==
    ASSUME NEW K, NEW g, Sound(g, K), Ending(g), MainsManaged(g),
           NEW w \in Windows, NEW main,
           main = NoWindow \/ (/\ main \in Windows /\ managed(g, main)
                               /\ w \notin leadsTo(g, main)),
           NEW x, x.tfor = [g.tfor EXCEPT ![w] = main]
    PROVE  Ending(x)
<1>1. /\ g.tfor \in [Windows -> Windows \cup {NoWindow}]
      /\ g.clients \in Seq(Windows)
  BY Types DEF Sound
<1>2. /\ x.tfor[w] = main
      /\ \A v \in Windows : v # w => x.tfor[v] = g.tfor[v]
  BY <1>1
<1> SUFFICES ASSUME NEW S \in SUBSET Windows, S # {},
                    \A v \in S : x.tfor[v] \in S
             PROVE  FALSE
  BY DEF Ending
<1>3. PICK a \in S : g.tfor[a] \notin S
  BY DEF Ending
<1>4. a = w /\ main \in S
  BY <1>2, <1>3
<1>5. main \in Windows /\ managed(g, main) /\ w \notin leadsTo(g, main)
  BY <1>4, WindowsAssumption
<1> DEFINE clients == ToSet(g.clients)
           R == {p \in clients \X clients : g.tid[p[1]] = p[2]}
           L == leadsTo(g, main)
<1>6. clients \in SUBSET Windows /\ \A v : v \in clients <=> Contains(g.clients, v)
  BY <1>1, ToSetContains
<1> HIDE DEF clients
<1>7. L = Closure({main} \cap clients, R)
  BY DEF leadsTo, clients
<1> HIDE DEF L, R
<1>8. /\ main \in L /\ L \subseteq Windows
      /\ \A p \in R : p[1] \in L /\ p[2] \in Windows => p[2] \in L
  <2>1. {main} \cap clients \in SUBSET Windows /\ main \in {main} \cap clients
    BY <1>5, <1>6 DEF managed
  <2> QED
    BY <1>7, <2>1, Reaches
<1>9. PICK b \in S \cap L : g.tfor[b] \notin S \cap L
  <2>1. S \cap L \in SUBSET Windows /\ S \cap L # {}
    BY <1>4, <1>8
  <2> QED
    BY <2>1 DEF Ending
<1>10. b # w /\ b \in Windows
  BY <1>5, <1>9 DEF L
<1>11. g.tfor[b] \in S /\ g.tfor[b] \in Windows /\ g.tfor[b] # NoWindow
  BY <1>2, <1>9, <1>10, WindowsAssumption
<1>12. g.tid[b] = g.tfor[b] /\ g.tfor[b] \in clients
  BY <1>6, <1>10, <1>11 DEF Sound, Tied, MainsManaged, managed
<1>13. b \in clients
  <2> SUFFICES ASSUME b \notin clients PROVE FALSE
    OBVIOUS
  <2> DEFINE J == L \ {b}
  <2>1. b # main
    BY <1>5, <1>6 DEF managed
  <2>2. {main} \cap clients \subseteq J /\ J \in SUBSET Windows
    BY <1>8, <2>1
  <2>3. \A p \in R : p[1] \in J => p[2] \in J
    BY <1>6, <1>8 DEF R
  <2>4. L \subseteq J
    BY <1>7, <2>2, <2>3 DEF Closure
  <2> QED
    BY <1>9, <2>4
<1>14. <<b, g.tfor[b]>> \in R
  BY <1>12, <1>13 DEF R
<1>15. g.tfor[b] \in L
  BY <1>8, <1>9, <1>11, <1>14
<1> QED
  BY <1>9, <1>11, <1>15

(* setTransient() up to checkGroup(): w leaves the lists of its main       *)
(* windows, and joins that of the new one.                                 *)
LEMMA TransientSet ==
    ASSUME NEW K \in SUBSET Windows, NEW g, Orderly(g, K), MainsManaged(g),
           \A c \in Windows : Contains(g.clients, c) => c \in K, g.notify \subseteq K,
           NEW w \in K, NEW v,
           v \in {NoWindow, Root}
               \/ (v \in Windows /\ v # w /\ managed(g, v) /\ w \notin leadsTo(g, v))
    PROVE  setTransient(g, w, v) \in Results(g.clients, K)
<1> DEFINE main == IF v \in {NoWindow, Root} THEN NoWindow ELSE v
           u == [m \in Windows |-> g.trans[m] \ {w}]
           t == [m \in Windows |-> IF m = main THEN u[m] \cup {w} ELSE u[m]]
           id == [g.tid EXCEPT ![w] = v]
           to == [g.tfor EXCEPT ![w] = main]
           y == Retargeted(g, t, id, to)
<1>1. Sound(g, K) /\ Ending(g) /\ NoMutual(g)
  BY DEF Orderly
<1>2. /\ g \in Relations /\ ~g.fault /\ g.fault \in BOOLEAN
      /\ g.trans \in [Windows -> SUBSET Windows]
      /\ g.tid \in [Windows -> Windows \cup {NoWindow, Root}]
      /\ g.tfor \in [Windows -> Windows \cup {NoWindow}]
  BY <1>1, Types DEF Sound
<1>3. CASE v = g.tid[w]
  <2>1. setTransient(g, w, v) = g
    BY <1>3 DEF setTransient
  <2> QED
    BY <1>2, <2>1 DEF Results
<1>4. CASE v # g.tid[w]
  <2>1. /\ main = NoWindow \/ (/\ main \in Windows /\ main # w /\ managed(g, main)
                              /\ w \notin leadsTo(g, main) /\ main \in K)
        /\ main = IF v \in {NoWindow, Root} THEN NoWindow ELSE v
    BY DEF managed
  <2>2. setTransient(g, w, v) = checkGroup(y, w, TRUE)
    <3> DEFINE no == IF groupTransient(g, w) THEN g.tid
                     ELSE [g.tid EXCEPT ![w] = NoWindow]
               off1 == [g.tfor EXCEPT ![w] = NoWindow]
               r == removeFromMainClients(g, w)
               off == [r EXCEPT !.tid[w] = v]
               on == IF main = NoWindow THEN off
                     ELSE [addTransient(off, main, w) EXCEPT
                               !.fault = @ \/ ~managed(g, v)]
    <3>1. r = Retargeted(g, u, no, off1)
      BY <1>1, MainsRemoved
    <3>2. /\ no \in [Windows -> Windows \cup {NoWindow, Root}]
          /\ [no EXCEPT ![w] = v] = id
      BY <1>2
    <3>3. [off1 EXCEPT ![w] = main] = to
      BY <1>2
    <3> HIDE DEF r
    <3>4. off = Retargeted(g, u, id, off1)
      <4>1. off = [r EXCEPT !.tid = [no EXCEPT ![w] = v]]
        BY <1>2, <3>1 DEF Retargeted, Relations
      <4> HIDE DEF off, no, id, u, off1
      <4> QED
        BY <1>2, <3>1, <3>2, <4>1 DEF Retargeted, Relations
    <3> HIDE DEF off, no, id, off1
    <3>5. on = Retargeted(g, t, id, off1)
      <4>1. CASE main = NoWindow
        <5>1. t = u
          BY <2>1, <4>1, WindowsAssumption
        <5> QED
          BY <3>4, <4>1, <5>1
      <4>2. CASE main # NoWindow
        <5>1. main \in Windows /\ main # w /\ managed(g, v)
          BY <2>1, <4>2
        <5>2. off.trans = u /\ off.fault = g.fault
          BY <1>2, <3>4 DEF Retargeted, Relations
        <5>3. w \notin u[main] /\ [u EXCEPT ![main] = @ \cup {w}] = t
          BY <5>1
        <5>4. (((off.fault \/ main = w \/ w \in off.trans[main]) \/ ~managed(g, v)))
                  = off.fault
          BY <1>2, <5>1, <5>2, <5>3
        <5>5. addTransient(off, main, w) =
                  [off EXCEPT !.trans[main] = @ \cup {w},
                              !.fault = off.fault \/ main = w \/ w \in off.trans[main]]
          BY DEF addTransient
        <5>6. on = [off EXCEPT !.trans = t, !.fault = off.fault]
          <6> DEFINE f == off.fault \/ main = w \/ w \in off.trans[main]
          <6>1. on = [[off EXCEPT !.trans[main] = @ \cup {w}, !.fault = f]
                         EXCEPT !.fault = @ \/ ~managed(g, v)]
            BY <4>2, <5>5
          <6> HIDE DEF f, main, t, u
          <6>2. on = [off EXCEPT !.trans[main] = @ \cup {w},
                                 !.fault = f \/ ~managed(g, v)]
            BY <1>2, <3>4, <6>1 DEF Retargeted, Relations
          <6>3. on = [off EXCEPT !.trans = t, !.fault = f \/ ~managed(g, v)]
            BY <1>2, <3>4, <5>2, <5>3, <6>2 DEF Retargeted, Relations
          <6> QED
            BY <5>4, <6>3 DEF f
        <5> HIDE DEF t, u, on
        <5> QED
          BY <1>2, <3>4, <5>2, <5>6 DEF Retargeted, Relations
      <4> QED
        BY <4>1, <4>2
    <3>6. setTransient(g, w, v) = checkGroup([on EXCEPT !.tfor[w] = main], w, TRUE)
      BY <1>4 DEF setTransient, off, r
    <3> HIDE DEF on, t, main
    <3>7. [on EXCEPT !.tfor[w] = main] = [on EXCEPT !.tfor = [off1 EXCEPT ![w] = main]]
      BY <1>2, <3>5 DEF Retargeted, Relations, off1
    <3> HIDE DEF to
    <3>8. [on EXCEPT !.tfor[w] = main] = y
      BY <1>2, <3>3, <3>5, <3>7 DEF Retargeted, Relations
    <3> QED
      BY <3>6, <3>8
  <2>3. /\ t \in [Windows -> SUBSET Windows]
        /\ id \in [Windows -> Windows \cup {NoWindow, Root}]
        /\ to \in [Windows -> Windows \cup {NoWindow}]
    BY <1>2, <2>1
  <2>4. /\ \A m \in Windows, c \in Windows :
             c \in t[m] <=> IF c = w THEN m = main ELSE c \in g.trans[m]
        /\ id[w] = v /\ to[w] = main
        /\ \A c \in Windows : c # w => id[c] = g.tid[c] /\ to[c] = g.tfor[c]
    BY <1>2
  <2> HIDE DEF t, id, to
  <2>5. y = Retargeted(g, t, id, to)
    OBVIOUS
  <2> HIDE DEF y
  <2>6. /\ y \in Relations /\ y.trans = t /\ y.tid = id /\ y.tfor = to
        /\ y.fault = g.fault /\ y.clients = g.clients /\ y.notify = g.notify
        /\ y.group = g.group /\ y.members = g.members
    BY <1>2, <2>3, <2>5, RetargetedTypes
  <2>7. Tied(y)
    <3> SUFFICES ASSUME NEW c \in Windows
                 PROVE  to[c] = IF id[c] \in {NoWindow, Root} THEN NoWindow ELSE id[c]
      BY <2>6 DEF Tied
    <3>1. CASE c = w
      BY <2>1, <2>4, <3>1
    <3>2. CASE c # w
      BY <1>1, <2>4, <3>2 DEF Sound, Tied
    <3> QED
      BY <3>1, <3>2
  <2>8. Grouped(y, K)
    BY <1>1, <2>6 DEF Sound, Grouped
  <2>9. Listed(y, K)
    <3> SUFFICES ASSUME NEW m \in Windows, NEW c \in t[m]
                 PROVE  c \in K /\ m \in K /\ c # m /\ Below(y, c, m)
      BY <2>6 DEF Listed
    <3>1. c \in Windows
      BY <2>3
    <3>2. CASE c = w
      <4>1. m = main /\ main # NoWindow
        BY <2>4, <3>1, <3>2, WindowsAssumption
      <4> QED
        BY <2>1, <2>4, <2>6, <3>2, <4>1 DEF Below
    <3>3. CASE c # w
      <4>1. c \in g.trans[m]
        BY <2>4, <3>1, <3>3
      <4>2. c \in K /\ m \in K /\ c # m /\ Below(g, c, m)
        BY <1>1, <4>1 DEF Sound, Listed
      <4> QED
        BY <2>4, <2>6, <3>1, <3>3, <4>2 DEF Below
    <3> QED
      BY <3>2, <3>3
  <2>10. MainsList(y)
    <3> SUFFICES ASSUME NEW c \in Windows, to[c] # NoWindow
                 PROVE  c \in t[to[c]]
      BY <2>6 DEF MainsList
    <3>1. to[c] \in Windows
      BY <2>3
    <3>2. CASE c = w
      BY <2>4, <3>1, <3>2
    <3>3. CASE c # w
      BY <1>1, <2>4, <3>1, <3>3 DEF Sound, MainsList
    <3> QED
      BY <3>2, <3>3
  <2>11. Sound(y, K)
    BY <1>2, <2>6, <2>7, <2>8, <2>9, <2>10 DEF Sound
  <2>12. Ending(y)
    <3>1. y.tfor = [g.tfor EXCEPT ![w] = main]
      BY <2>6 DEF to
    <3> HIDE DEF main
    <3> QED
      BY <1>1, <2>1, <3>1, EndingRetargeted
  <2>13. MainsManaged(y)
    <3> SUFFICES ASSUME NEW c \in Windows, to[c] # NoWindow PROVE managed(g, to[c])
      BY <2>6 DEF MainsManaged, managed
    <3>1. CASE c = w
      BY <2>1, <2>4, <3>1
    <3>2. CASE c # w
      BY <2>4, <3>2 DEF MainsManaged
    <3> QED
      BY <3>1, <3>2
  <2>14. NoMutualBut(y, w)
    BY <1>1, <2>4, <2>6 DEF NoMutual, NoMutualBut, Mutual
  <2>15. y.tfor[w] = NoWindow => NoMutual(y)
    <3> SUFFICES ASSUME main = NoWindow, NEW a \in Windows, NEW b \in Windows,
                        Mutual(y, a, b)
                 PROVE  FALSE
      BY <2>4, <2>6 DEF NoMutual
    <3>1. a # w /\ b # w
      BY <2>4, <2>6, WindowsAssumption DEF Mutual
    <3>2. Mutual(g, a, b)
      BY <2>4, <2>6, <3>1 DEF Mutual
    <3> QED
      BY <1>1, <3>2 DEF NoMutual
  <2>16. \A c \in Windows : Contains(y.clients, c) => c \in K
    BY <2>6
  <2> DEFINE force == TRUE
  <2>17. force \in BOOLEAN
    OBVIOUS
  <2> HIDE DEF force
  <2>18. checkGroup(y, w, force) \in Regroupings(y, K \cup {w})
    BY <2>11, <2>12, <2>14, <2>15, <2>16, <2>17, GroupChecked
  <2> DEFINE z == checkGroup(y, w, force)
  <2> HIDE DEF z
  <2>19. z \in Relations /\ Orderly(z, K) /\ Kept(y, z)
    <3>1. K \cup {w} = K
      OBVIOUS
    <3>2. z \in Regroupings(y, K)
      BY <2>18, <3>1 DEF z
    <3> QED
      BY <3>2 DEF Regroupings
  <2>20. MainsManaged(z) /\ z.clients = g.clients /\ z.notify \subseteq K
    BY <2>6, <2>13, <2>19 DEF MainsManaged, managed, Kept
  <2>21. z \in Results(g.clients, K)
    BY <2>19, <2>20 DEF Results
  <2> QED
    BY <2>2, <2>21 DEF z, force
<1> QED
  BY <1>3, <1>4

-----------------------------------------------------------------------------
(* WM_TRANSIENT_FOR.                                                       *)

(* x has the windows in the same places as g.                              *)
SamePlaces(g, x) ==
    /\ x.clients = g.clients /\ x.tid = g.tid /\ x.tfor = g.tfor
    /\ x.trans = g.trans /\ x.fault = g.fault
    /\ x.group = g.group /\ x.members = g.members

LEMMA OrderlySame ==
    ASSUME NEW g, NEW K, Orderly(g, K), NEW x \in Relations, SamePlaces(g, x)
    PROVE  Orderly(x, K)
<1>1. Tied(x) /\ Grouped(x, K)
  BY DEF SamePlaces, Orderly, Sound, Tied, Grouped
<1>2. Listed(x, K) /\ MainsList(x)
  BY DEF SamePlaces, Orderly, Sound, Listed, MainsList, Below
<1>3. Ending(x) /\ NoMutual(x)
  BY DEF SamePlaces, Orderly, Ending, NoMutual, Mutual
<1> QED
  BY <1>1, <1>2, <1>3 DEF Orderly, Sound, SamePlaces

LEMMA MainsManagedSame ==
    ASSUME NEW g, MainsManaged(g), NEW x, SamePlaces(g, x)
    PROVE  MainsManaged(x)
BY DEF MainsManaged, managed, SamePlaces

(* What verifyTransientFor() lets through.                                 *)
LEMMA Verified ==
    ASSUME NEW g, NEW w, w \notin {NoWindow, Root}, NEW set \in BOOLEAN,
           NEW v \in Windows \cup {NoWindow, Root}
    PROVE  LET r == verifyTransientFor(g, w, v, set) IN
           r \in {NoWindow, Root}
               \/ (r \in Windows /\ r # w /\ managed(g, r) /\ w \notin leadsTo(g, r))
<1> DEFINE given == IF v = w \/ (v = NoWindow /\ (set \/ w \in Splashes)) THEN Root ELSE v
           loop == w \in leadsTo(g, given) \/ Cardinality(leadsTo(g, given)) >= 20
<1>1. verifyTransientFor(g, w, v, set) =
          IF given # NoWindow /\ (loop \/ ~managed(g, given)) THEN Root ELSE given
  BY DEF verifyTransientFor
<1>2. given \in Windows \cup {NoWindow, Root} /\ given # w
  OBVIOUS
<1>3. ~loop => w \notin leadsTo(g, given)
  OBVIOUS
<1> HIDE DEF given, loop
<1> QED
  BY <1>1, <1>2, <1>3

LEMMA PropertyCorrected ==
    ASSUME NEW g \in Relations, NEW w \in Windows, NEW set \in BOOLEAN,
           NEW v \in Windows \cup {NoWindow, Root}
    PROVE  LET x == correctProperty(g, w, v, set) IN
           /\ x \in Relations /\ SamePlaces(g, x)
           /\ x.notify \subseteq g.notify \cup {w}
<1> DEFINE to == IF v = w \/ (v = NoWindow /\ set /\ w \notin Splashes) THEN Root ELSE v
           x == [g EXCEPT !.prop[w] = to, !.notify = @ \cup {w}]
<1>1. /\ g.prop \in [Windows -> Windows \cup {NoWindow, Root, "unset"}]
      /\ g.notify \in SUBSET Windows
  BY Types
<1>2. to \in Windows \cup {NoWindow, Root}
  OBVIOUS
<1>3. correctProperty(g, w, v, set) = IF to = g.orig[w] THEN g ELSE x
  BY DEF correctProperty
<1> HIDE DEF to
<1>4. x \in Relations /\ SamePlaces(g, x) /\ x.notify = g.notify \cup {w}
  BY <1>1, <1>2 DEF Relations, SamePlaces
<1> HIDE DEF x
<1> QED
  BY <1>3, <1>4 DEF SamePlaces

LEMMA VerifiedAndSet ==
    ASSUME NEW C, NEW K \in SUBSET Windows, NEW g \in Results(C, K),
           \A c \in Windows : Contains(C, c) => c \in K,
           NEW w \in K, NEW set \in BOOLEAN, NEW v \in Windows \cup {NoWindow, Root}
    PROVE  verifyAndSet(g, w, v, set) \in Results(C, K)
<1> DEFINE x == correctProperty(g, w, v, set)
           r == verifyTransientFor(g, w, v, set)
<1>1. /\ g \in Relations /\ Orderly(g, K) /\ MainsManaged(g) /\ g.clients = C
      /\ g.notify \subseteq K
  BY DEF Results
<1>2. w \in Windows /\ w \notin {NoWindow, Root}
  BY WindowsAssumption
<1>3. x \in Relations /\ SamePlaces(g, x) /\ x.notify \subseteq g.notify \cup {w}
  BY <1>1, <1>2, PropertyCorrected
<1>4. r \in {NoWindow, Root}
         \/ (r \in Windows /\ r # w /\ managed(g, r) /\ w \notin leadsTo(g, r))
  BY <1>2, Verified
<1>5. verifyAndSet(g, w, v, set) = setTransient(x, w, r)
  BY DEF verifyAndSet
<1> HIDE DEF x, r
<1>6. Orderly(x, K) /\ MainsManaged(x) /\ x.clients = C
  BY <1>1, <1>3, OrderlySame, MainsManagedSame DEF SamePlaces
<1>7. r \in {NoWindow, Root}
         \/ (r \in Windows /\ r # w /\ managed(x, r) /\ w \notin leadsTo(x, r))
  BY <1>3, <1>4 DEF managed, leadsTo, SamePlaces
<1>8. (\A c \in Windows : Contains(x.clients, c) => c \in K) /\ x.notify \subseteq K
  BY <1>1, <1>3, <1>6
<1>9. setTransient(x, w, r) \in Results(x.clients, K)
  BY <1>6, <1>7, <1>8, TransientSet
<1> QED
  BY <1>5, <1>6, <1>9

LEMMA TransientRead ==
    ASSUME NEW C, NEW K \in SUBSET Windows, NEW g \in Results(C, K),
           \A c \in Windows : Contains(C, c) => c \in K, NEW w \in K
    PROVE  readTransient(g, w) \in Results(C, K)
<1> DEFINE set == g.prop[w] # "unset"
           v == IF set THEN g.prop[w] ELSE NoWindow
           x == [g EXCEPT !.orig[w] = v]
<1>1. g \in Relations /\ Orderly(g, K) /\ MainsManaged(g) /\ g.clients = C
  BY DEF Results
<1>2. w \in Windows /\ g.prop[w] \in Windows \cup {NoWindow, Root, "unset"}
      /\ g.orig \in [Windows -> Windows \cup {NoWindow, Root}]
  BY <1>1, Types
<1>3. v \in Windows \cup {NoWindow, Root} /\ set \in BOOLEAN
  BY <1>2
<1>4. readTransient(g, w) = verifyAndSet(x, w, v, set)
  BY DEF readTransient
<1> HIDE DEF v, set
<1>5. x \in Relations /\ SamePlaces(g, x) /\ x.notify = g.notify
  BY <1>1, <1>2, <1>3 DEF Relations, SamePlaces
<1> HIDE DEF x
<1>6. x \in Results(C, K)
  BY <1>1, <1>5, OrderlySame, MainsManagedSame DEF Results, SamePlaces
<1>7. verifyAndSet(x, w, v, set) \in Results(C, K)
  BY <1>3, <1>6, VerifiedAndSet
<1> QED
  BY <1>4, <1>7

LEMMA TransientsChecked ==
    ASSUME NEW C, NEW K \in SUBSET Windows, NEW g \in Results(C, K),
           \A c \in Windows : Contains(C, c) => c \in K, NEW w \in K
    PROVE  checkTransients(g, w) \in Results(C, K)
<1> DEFINE l == g.clients
           n == Len(l)
           T == Results(C, K)
           Step(x, i) == IF x.orig[l[i]] = w THEN verifyAndSet(x, l[i], w, TRUE) ELSE x
           Q(k) == k = [i \in 0..n |-> IF i = 0 THEN g ELSE Step(k[i - 1], i)]
           S == [i \in 0..n |-> T]
           F == [i \in 1..n |-> [x \in T |-> Step(x, i)]]
           h == CHOOSE k : Q(k)
<1>1. l \in Seq(Windows) /\ n \in Nat /\ l = C
  BY Types DEF Results
<1>2. g \in T
  OBVIOUS
<1>3. \A i \in 1..n : \A x \in T : Step(x, i) \in T
  <2> SUFFICES ASSUME NEW i \in 1..n, NEW x \in T
               PROVE  verifyAndSet(x, l[i], w, TRUE) \in T
    OBVIOUS
  <2>1. l[i] \in Windows /\ Contains(l, l[i])
    BY <1>1 DEF Contains
  <2> DEFINE set == TRUE
             c == l[i]
  <2>2. c \in K /\ set \in BOOLEAN /\ w \in Windows \cup {NoWindow, Root}
    BY <1>1, <2>1
  <2> HIDE DEF set, c
  <2>3. verifyAndSet(x, c, w, set) \in Results(C, K)
    BY <2>2, VerifiedAndSet
  <2> QED
    BY <2>3 DEF set, c
<1> HIDE DEF T
<1>4. PICK k : Computes(k, n, g, F, S)
  <2>1. g \in S[0]
    BY <1>1, <1>2
  <2>2. \A i \in 1..n : \A x \in S[i - 1] : F[i][x] \in S[i]
    <3> HIDE DEF Step
    <3> QED
      BY <1>1, <1>3
  <2> HIDE DEF n, S, F
  <2> QED
    BY <1>1, <2>1, <2>2, Recursion
<1>5. Q(k)
  <2>1. \A i \in 0..n : i # 0 => k[i] = Step(k[i - 1], i)
    <3> SUFFICES ASSUME NEW i \in 0..n, i # 0 PROVE k[i] = Step(k[i - 1], i)
      OBVIOUS
    <3>1. i \in 1..n /\ i - 1 \in 0..n
      BY <1>1
    <3>2. k[i] = F[i][k[i - 1]] /\ k[i - 1] \in T
      BY <1>4, <3>1 DEF Computes
    <3> HIDE DEF Step
    <3> QED
      BY <3>1, <3>2
  <2>2. k[0] = g /\ k = [i \in 0..n |-> k[i]]
    BY <1>1, <1>4 DEF Computes
  <2> HIDE DEF Step
  <2> QED
    BY <2>1, <2>2
<1>6. Q(h)
  BY <1>5
<1>7. checkTransients(g, w) = h[n]
  BY DEF checkTransients, Through
<1> HIDE DEF h
<1>8. \A i \in 0..n : h[i] \in S[i]
  <2>1. h[0] \in S[0]
    BY <1>1, <1>2, <1>6
  <2>2. \A i \in 1..n : h[i - 1] \in S[i - 1] => h[i] \in S[i]
    <3> SUFFICES ASSUME NEW i \in 1..n, h[i - 1] \in S[i - 1] PROVE h[i] \in S[i]
      OBVIOUS
    <3>1. i \in 0..n /\ i # 0 /\ i - 1 \in 0..n
      BY <1>1
    <3>2. h[i] = Step(h[i - 1], i)
      <4> HIDE DEF Step
      <4> QED
        BY <1>6, <3>1
    <3> HIDE DEF Step
    <3> QED
      BY <1>3, <3>1, <3>2
  <2> HIDE DEF S
  <2> QED
    BY <1>1, <2>1, <2>2, Carried
<1>9. h[n] \in T
  <2>1. n \in 0..n
    BY <1>1
  <2> QED
    BY <1>8, <2>1
<1> QED
  BY <1>7, <1>9 DEF T

-----------------------------------------------------------------------------
(* The steps.                                                              *)

(* The inductive invariant.                                                *)
IInv(g) == Orderly(g, ToSet(g.clients)) /\ g.notify \subseteq ToSet(g.clients)

LEMMA ClientsListed ==
    ASSUME NEW g \in Relations
    PROVE  /\ ToSet(g.clients) \in SUBSET Windows
           /\ \A c : managed(g, c) <=> c \in ToSet(g.clients)
           /\ \A c : Contains(g.clients, c) <=> c \in ToSet(g.clients)
BY Types, ToSetContains DEF managed

LEMMA MainsAreManaged ==
    ASSUME NEW g, IInv(g)
    PROVE  MainsManaged(g) /\ g \in Results(g.clients, ToSet(g.clients))
<1>1. g \in Relations /\ Sound(g, ToSet(g.clients))
  BY DEF IInv, Orderly, Sound
<1>2. MainsManaged(g)
  <2> SUFFICES ASSUME NEW c \in Windows, g.tfor[c] # NoWindow
               PROVE  managed(g, g.tfor[c])
    BY DEF MainsManaged
  <2>1. g.tfor[c] \in Windows /\ c \in g.trans[g.tfor[c]]
    BY <1>1, Types DEF Sound, MainsList
  <2>2. g.tfor[c] \in ToSet(g.clients)
    BY <1>1, <2>1 DEF Sound, Listed
  <2> QED
    BY <1>1, <2>2, ClientsListed
<1> QED
  BY <1>1, <1>2 DEF Results, IInv

(* Other hints, or other events under way.                                 *)
LEMMA Hinted ==
    ASSUME NEW g, IInv(g), NEW x \in Relations, SamePlaces(g, x),
           x.notify \subseteq ToSet(g.clients)
    PROVE  IInv(x)
<1>1. Orderly(x, ToSet(g.clients))
  BY OrderlySame DEF IInv
<1> QED
  BY <1>1 DEF IInv, SamePlaces

LEMMA GroupHint ==
    ASSUME NEW g, IInv(g), NEW w \in Windows, NEW hint \in Hints[w] \cup {NoGroup}
    PROVE  LET x == checkGroup([g EXCEPT !.hint[w] = hint], w, FALSE) IN
           x \in Results(g.clients, ToSet(g.clients) \cup {w})
<1> DEFINE y == [g EXCEPT !.hint[w] = hint]
           C == g.clients
           K == ToSet(C)
           force == FALSE
<1>1. g \in Relations /\ g.hint \in [Windows -> Leaders \cup {NoGroup}]
  BY Types DEF IInv, Orderly, Sound
<1>2. hint \in Leaders \cup {NoGroup}
  BY GroupsAssumption
<1>3. y \in Relations /\ SamePlaces(g, y) /\ y.notify = g.notify
  BY <1>1, <1>2 DEF Relations, SamePlaces
<1> HIDE DEF y
<1>4. IInv(y) /\ y.clients = C
  BY <1>3, Hinted DEF SamePlaces, IInv
<1>5. /\ K \in SUBSET Windows /\ Sound(y, K) /\ Ending(y) /\ NoMutual(y)
      /\ \A c \in Windows : Contains(y.clients, c) => c \in K
  BY <1>3, <1>4, ClientsListed DEF IInv, Orderly
<1>6. NoMutualBut(y, w) /\ force \in BOOLEAN
  BY <1>5 DEF NoMutual, NoMutualBut
<1> HIDE DEF force, K
<1>7. checkGroup(y, w, force) \in Regroupings(y, K \cup {w})
  BY <1>5, <1>6, GroupChecked
<1> DEFINE x == checkGroup(y, w, force)
<1> HIDE DEF x
<1>8. x \in Relations /\ Orderly(x, K \cup {w}) /\ Kept(y, x)
  BY <1>7 DEF Regroupings, x
<1>9. MainsManaged(x) /\ x.clients = C /\ x.notify \subseteq K \cup {w}
  BY <1>4, <1>8, MainsAreManaged DEF MainsManaged, managed, Kept, IInv, K
<1>10. x \in Results(C, K \cup {w})
  BY <1>8, <1>9 DEF Results
<1> QED
  BY <1>10 DEF x, y, K, force

LEMMA ManageStep ==
    ASSUME IInv(rel), NEW w \in Windows, Manage(w)
    PROVE  IInv(rel')
<1> DEFINE C == rel.clients
           K == ToSet(C) \cup {w}
           D == Append(C, w)
<1>1. rel \in Relations /\ C \in Seq(Windows)
  BY Types DEF IInv, Orderly, Sound
<1>2. /\ K \in SUBSET Windows /\ w \in K
      /\ \A c \in Windows : Contains(C, c) => c \in K
  BY <1>1, ClientsListed
<1>3. /\ D \in Seq(Windows)
      /\ \A c : Contains(D, c) <=> c = w \/ Contains(C, c)
  <2> HIDE DEF C
  <2> QED
    BY <1>1, Appended
<1>4. ToSet(D) = K
  <2> HIDE DEF C, D
  <2>1. \A c : c \in ToSet(D) <=> Contains(D, c)
    BY <1>3, ToSetContains
  <2>2. \A c : c \in ToSet(C) <=> Contains(C, c)
    BY <1>1, ToSetContains
  <2> QED
    BY <1>3, <2>1, <2>2
<1>5. PICK hint \in Hints[w] \cup {NoGroup} :
         LET new  == checkGroup([rel EXCEPT !.hint[w] = hint], w, FALSE)
             read == readTransient(new, w)
         IN  rel' = checkTransients([read EXCEPT !.clients = Append(@, w)], w)
  BY DEF Manage
<1> DEFINE new == checkGroup([rel EXCEPT !.hint[w] = hint], w, FALSE)
           read == readTransient(new, w)
           y == [read EXCEPT !.clients = Append(@, w)]
<1>6. new \in Results(C, K)
  BY GroupHint
<1>7. rel' = checkTransients(y, w)
  BY <1>5
<1> HIDE DEF new
<1>8. read \in Results(C, K)
  <2> HIDE DEF C, K
  <2> QED
    BY <1>2, <1>6, TransientRead
<1> HIDE DEF read
<1>9. /\ read \in Relations /\ Orderly(read, K) /\ MainsManaged(read)
      /\ read.clients = C /\ read.notify \subseteq K
  BY <1>8 DEF Results
<1> HIDE DEF K
<1>10. /\ y \in Relations /\ y.clients = D /\ y.tid = read.tid /\ y.tfor = read.tfor
       /\ y.trans = read.trans /\ y.fault = read.fault /\ y.group = read.group
       /\ y.members = read.members /\ y.notify = read.notify
  BY <1>3, <1>9 DEF Relations
<1> HIDE DEF y, D
<1>11. Orderly(y, K)
  <2>1. Tied(y) /\ Grouped(y, K)
    BY <1>9, <1>10 DEF Orderly, Sound, Tied, Grouped
  <2>2. Listed(y, K) /\ MainsList(y)
    BY <1>9, <1>10 DEF Orderly, Sound, Listed, MainsList, Below
  <2>3. Ending(y) /\ NoMutual(y)
    BY <1>9, <1>10 DEF Orderly, Ending, NoMutual, Mutual
  <2> QED
    BY <1>9, <1>10, <2>1, <2>2, <2>3 DEF Orderly, Sound
<1>12. MainsManaged(y)
  BY <1>3, <1>9, <1>10 DEF MainsManaged, managed
<1>13. y \in Results(D, K)
  BY <1>9, <1>10, <1>11, <1>12 DEF Results
<1>14. \A c \in Windows : Contains(D, c) => c \in K
  BY <1>2, <1>3
<1>15. rel' \in Results(D, K)
  <2> HIDE DEF C
  <2> QED
    BY <1>2, <1>7, <1>13, <1>14, TransientsChecked
<1> QED
  BY <1>4, <1>15 DEF Results, IInv

LEMMA SetPropertyStep ==
    ASSUME IInv(rel), NEW w \in Windows, SetProperty(w)
    PROVE  IInv(rel')
<1>1. rel \in Relations
  BY DEF IInv, Orderly, Sound
<1>2. PICK v \in Targets[w] \cup {"unset"} :
         rel' = [rel EXCEPT !.prop[w] = v,
                     !.notify = IF managed(rel, w) THEN @ \cup {w} ELSE @]
  BY DEF SetProperty
<1>3. v \in Windows \cup {NoWindow, Root, "unset"}
  BY TargetsAssumption
<1>4. /\ rel.prop \in [Windows -> Windows \cup {NoWindow, Root, "unset"}]
      /\ rel.notify \in SUBSET Windows
  BY <1>1, Types
<1>5. rel' \in Relations
  <2>1. (IF managed(rel, w) THEN rel.notify \cup {w} ELSE rel.notify) \in SUBSET Windows
    BY <1>4
  <2> QED
    BY <1>1, <1>2, <1>3, <1>4, <2>1 DEF Relations
<1>6. SamePlaces(rel, rel') /\ rel'.notify \subseteq ToSet(rel.clients)
  <2>1. SamePlaces(rel, rel')
    BY <1>1, <1>2 DEF Relations, SamePlaces
  <2>2. managed(rel, w) => w \in ToSet(rel.clients)
    BY <1>1, ClientsListed
  <2>3. rel'.notify = IF managed(rel, w) THEN rel.notify \cup {w} ELSE rel.notify
    BY <1>1, <1>2 DEF Relations
  <2> QED
    BY <2>1, <2>2, <2>3 DEF IInv
<1> QED
  BY <1>5, <1>6, Hinted

LEMMA PropertyNotifyStep ==
    ASSUME IInv(rel), NEW w \in Windows, PropertyNotify(w)
    PROVE  IInv(rel')
<1> DEFINE y == [rel EXCEPT !.notify = @ \ {w}]
           C == y.clients
           K == ToSet(C)
<1>1. rel \in Relations
  BY DEF IInv, Orderly, Sound
<1>2. y \in Relations /\ SamePlaces(rel, y) /\ y.notify \subseteq rel.notify
  BY <1>1 DEF Relations, SamePlaces
<1>3. rel' = readTransient(y, w) /\ w \in ToSet(rel.clients)
  BY DEF PropertyNotify, IInv
<1> HIDE DEF y
<1>4. IInv(y) /\ w \in K
  BY <1>2, <1>3, Hinted DEF SamePlaces, IInv
<1>5. /\ y \in Results(C, K) /\ K \in SUBSET Windows
      /\ \A c \in Windows : Contains(C, c) => c \in K
  BY <1>2, <1>4, MainsAreManaged, ClientsListed
<1> HIDE DEF C, K
<1>6. rel' \in Results(C, K)
  BY <1>3, <1>4, <1>5, TransientRead
<1> QED
  BY <1>6 DEF Results, IInv, C, K

LEMMA SetGroupLeaderStep ==
    ASSUME IInv(rel), NEW w \in Windows, SetGroupLeader(w)
    PROVE  IInv(rel')
<1> DEFINE C == rel.clients
           K == ToSet(C)
<1>1. PICK hint \in Hints[w] \cup {NoGroup} :
         rel' = checkGroup([rel EXCEPT !.hint[w] = hint], w, FALSE)
  BY DEF SetGroupLeader
<1>2. rel' \in Results(C, K \cup {w})
  BY <1>1, GroupHint
<1>3. K \cup {w} = K
  <2>1. rel \in Relations /\ managed(rel, w)
    BY DEF SetGroupLeader, IInv, Orderly, Sound
  <2>2. w \in K
    BY <2>1, ClientsListed
  <2> QED
    BY <2>2
<1> HIDE DEF K
<1>4. rel' \in Results(C, K)
  BY <1>2, <1>3
<1> QED
  BY <1>4 DEF Results, IInv, K

(* cleanGrouping() leaves nothing of a window.                             *)
LEMMA GroupingCleaned ==
    ASSUME NEW K \in SUBSET Windows, NEW g, Sound(g, K), NEW w \in K
    PROVE  LET x == cleanGrouping(g, w) IN
           /\ x \in Relations /\ x.fault = g.fault /\ x.clients = g.clients
           /\ x.notify = g.notify
           /\ \A m \in Windows : m # w => x.trans[m] = g.trans[m] \ {w}
           /\ \A c \in Windows :
                 /\ x.tid[c] = IF c = w \/ g.tfor[c] = w THEN NoWindow ELSE g.tid[c]
                 /\ x.tfor[c] = IF c = w \/ g.tfor[c] = w THEN NoWindow ELSE g.tfor[c]
           /\ x.group = [g.group EXCEPT ![w] = NoGroup]
           /\ \A r \in Groups, v \in Windows :
                 Contains(x.members[r], v) <=> v # w /\ Contains(g.members[r], v)
<1> DEFINE u == [m \in Windows |-> g.trans[m] \ {w}]
           no == IF groupTransient(g, w) THEN g.tid ELSE [g.tid EXCEPT ![w] = NoWindow]
           to == [g.tfor EXCEPT ![w] = NoWindow]
           off == removeFromMainClients(g, w)
           gr == g.group[w]
<1>1. /\ g \in Relations /\ gr \in Groups /\ g.fault \in BOOLEAN
      /\ g.trans \in [Windows -> SUBSET Windows]
      /\ g.tid \in [Windows -> Windows \cup {NoWindow, Root}]
      /\ g.tfor \in [Windows -> Windows \cup {NoWindow}]
      /\ g.members \in [Groups -> Seq(Windows)]
      /\ g.group \in [Windows -> Groups \cup {NoGroup}]
  BY Types DEF Sound, Grouped
<1>2. off = Retargeted(g, u, no, to)
  BY MainsRemoved
<1>3. /\ u \in [Windows -> SUBSET Windows]
      /\ no \in [Windows -> Windows \cup {NoWindow, Root}]
      /\ to \in [Windows -> Windows \cup {NoWindow}]
  BY <1>1
<1>4. /\ \A m \in Windows : u[m] = g.trans[m] \ {w}
      /\ to[w] = NoWindow /\ \A c \in Windows : c # w => to[c] = g.tfor[c]
      /\ \A c \in Windows : c # w => no[c] = g.tid[c]
  BY <1>1
<1> HIDE DEF u, no, to, off
<1>5. /\ off \in Relations /\ off.trans = u /\ off.tid = no /\ off.tfor = to
      /\ off.fault = g.fault /\ off.clients = g.clients /\ off.notify = g.notify
      /\ off.group = g.group /\ off.members = g.members
  BY <1>1, <1>2, <1>3 DEF Relations, Retargeted
<1> DEFINE free == {c \in off.trans[w] : off.tfor[c] = w}
           id2 == [c \in Windows |-> IF c \in free THEN NoWindow ELSE no[c]]
           to2 == [c \in Windows |-> IF c \in free THEN NoWindow ELSE to[c]]
           ms2 == [g.members EXCEPT ![gr] = removeAll(@, w)]
           gs2 == [g.group EXCEPT ![w] = NoGroup]
           out == [off EXCEPT
                    !.tid  = [c \in Windows |-> IF c \in free THEN NoWindow ELSE @[c]],
                    !.tfor = [c \in Windows |-> IF c \in free THEN NoWindow ELSE @[c]],
                    !.members[gr] = removeAll(@, w), !.group[w] = NoGroup]
           ms == ToSet(off.members[gr])
           rt == removeTransient(out, ms, w)
           x == cleanGrouping(g, w)
<1>6. \A c \in Windows : c \in free <=> g.tfor[c] = w
  <2> SUFFICES ASSUME NEW c \in Windows PROVE c \in free <=> g.tfor[c] = w
    OBVIOUS
  <2>1. c = w => c \notin free /\ g.tfor[c] # w
    <3>1. w \notin u[w]
      BY <1>4
    <3>2. g.tfor[w] = w => w \in g.trans[w]
      BY WindowsAssumption DEF Sound, MainsList
    <3>3. w \notin g.trans[w]
      BY DEF Sound, Listed
    <3> QED
      BY <1>5, <3>1, <3>2, <3>3
  <2>2. c # w /\ g.tfor[c] = w => c \in g.trans[w]
    BY WindowsAssumption DEF Sound, MainsList
  <2> QED
    BY <1>4, <1>5, <2>1, <2>2
<1>7. /\ removeAll(g.members[gr], w) \in Seq(Windows)
      /\ \A v : Contains(removeAll(g.members[gr], w), v)
                   <=> v # w /\ Contains(g.members[gr], v)
  BY <1>1, RemoveAll
<1>8. /\ id2 \in [Windows -> Windows \cup {NoWindow, Root}]
      /\ to2 \in [Windows -> Windows \cup {NoWindow}]
      /\ ms2 \in [Groups -> Seq(Windows)] /\ ms2[gr] = removeAll(g.members[gr], w)
      /\ \A r \in Groups : r # gr => ms2[r] = g.members[r]
      /\ gs2 \in [Windows -> Groups \cup {NoGroup}]
  BY <1>1, <1>3, <1>7
<1>9. /\ \A c \in Windows : id2[c] = IF g.tfor[c] = w THEN NoWindow ELSE no[c]
      /\ \A c \in Windows : to2[c] = IF g.tfor[c] = w THEN NoWindow ELSE to[c]
  BY <1>6
<1>10. out = [off EXCEPT !.tid = id2, !.tfor = to2, !.members = ms2, !.group = gs2]
  <2> HIDE DEF free
  <2>1. out = [off EXCEPT !.tid = id2, !.tfor = to2,
                   !.members[gr] = removeAll(@, w), !.group[w] = NoGroup]
    BY <1>5
  <2> HIDE DEF id2, to2, out
  <2> QED
    BY <1>5, <2>1 DEF Relations
<1>11. x = [rt EXCEPT !.trans[w] = @ \ free, !.tid[w] = NoWindow]
  BY DEF cleanGrouping, off
<1> HIDE DEF id2, to2, ms2, gs2, out, rt, x, free
<1>12. /\ out \in Relations /\ out.tid = id2 /\ out.tfor = to2 /\ out.members = ms2
       /\ out.group = gs2 /\ out.trans = u /\ out.fault = g.fault
       /\ out.clients = g.clients /\ out.notify = g.notify
  BY <1>5, <1>8, <1>10 DEF Relations
<1>13. rt = Relisted(out, u, out.fault)
  <2>1. ms \in SUBSET Windows
    BY <1>1, <1>5, ToSetContains
  <2>2. out.tfor[w] \notin ms
    BY <1>4, <1>9, <1>12, <2>1, WindowsAssumption
  <2>3. rt = [out EXCEPT !.trans = [m \in Windows |-> IF m \in ms THEN @[m] \ {w}
                                                     ELSE @[m]]]
    BY <2>2 DEF removeTransient, rt
  <2>4. [m \in Windows |-> IF m \in ms THEN u[m] \ {w} ELSE u[m]] = u
    BY <1>3, <1>4
  <2>5. rt = [out EXCEPT !.trans = u]
    BY <1>12, <2>3, <2>4
  <2> QED
    BY <1>12, <2>5 DEF Relisted, Relations
<1>14. rt \in Relations /\ rt.trans = u /\ rt.fault = g.fault /\ Kept(out, rt)
       /\ rt.group = gs2 /\ rt.members = ms2
  BY <1>1, <1>3, <1>12, <1>13, RelistedTypes
<1>15. /\ x \in Relations /\ x.trans = [u EXCEPT ![w] = @ \ free]
       /\ x.tid = [id2 EXCEPT ![w] = NoWindow] /\ x.tfor = to2 /\ x.group = gs2
       /\ x.members = ms2 /\ x.fault = g.fault /\ x.clients = g.clients
       /\ x.notify = g.notify
  <2>1. /\ [u EXCEPT ![w] = @ \ free] \in [Windows -> SUBSET Windows]
        /\ [id2 EXCEPT ![w] = NoWindow] \in [Windows -> Windows \cup {NoWindow, Root}]
    BY <1>3, <1>8
  <2>2. /\ rt.tid = id2 /\ rt.tfor = to2 /\ rt.clients = g.clients
        /\ rt.notify = g.notify
    BY <1>12, <1>14 DEF Kept
  <2>3. x = [rt EXCEPT !.trans = [u EXCEPT ![w] = @ \ free],
                       !.tid = [id2 EXCEPT ![w] = NoWindow]]
    BY <1>11, <1>14, <2>2 DEF Relations
  <2> QED
    BY <1>14, <2>1, <2>2, <2>3 DEF Relations
<1>16. \A m \in Windows : m # w => x.trans[m] = g.trans[m] \ {w}
  BY <1>3, <1>4, <1>15
<1>17. \A c \in Windows :
           /\ x.tid[c] = IF c = w \/ g.tfor[c] = w THEN NoWindow ELSE g.tid[c]
           /\ x.tfor[c] = IF c = w \/ g.tfor[c] = w THEN NoWindow ELSE g.tfor[c]
  <2> SUFFICES ASSUME NEW c \in Windows
               PROVE  /\ x.tid[c] = IF c = w \/ g.tfor[c] = w THEN NoWindow ELSE g.tid[c]
                      /\ x.tfor[c] = IF c = w \/ g.tfor[c] = w THEN NoWindow
                                     ELSE g.tfor[c]
    OBVIOUS
  <2>1. CASE c = w
    BY <1>4, <1>8, <1>9, <1>15, <2>1
  <2>2. CASE c # w
    BY <1>4, <1>8, <1>9, <1>15, <2>2
  <2> QED
    BY <2>1, <2>2
<1>18. \A r \in Groups, v \in Windows :
           Contains(x.members[r], v) <=> v # w /\ Contains(g.members[r], v)
  <2> SUFFICES ASSUME NEW r \in Groups, NEW v \in Windows
               PROVE  Contains(ms2[r], v) <=> v # w /\ Contains(g.members[r], v)
    BY <1>15
  <2>1. CASE r = gr
    BY <1>7, <1>8, <2>1
  <2>2. CASE r # gr
    <3>1. Contains(g.members[r], w) => FALSE
      BY <2>2 DEF Sound, Grouped
    <3> QED
      BY <1>8, <2>2, <3>1
  <2> QED
    BY <2>1, <2>2
<1>19. x.group = [g.group EXCEPT ![w] = NoGroup]
  BY <1>15 DEF gs2
<1> QED
  BY <1>15, <1>16, <1>17, <1>18, <1>19 DEF x

LEMMA ReleaseStep ==
    ASSUME IInv(rel), NEW w \in Windows, Release(w)
    PROVE  IInv(rel')
<1> DEFINE K == ToSet(rel.clients)
           L == K \ {w}
           x == cleanGrouping(rel, w)
           t == [x.trans EXCEPT ![w] = {}]
<1>1. /\ rel \in Relations /\ Sound(rel, K) /\ Ending(rel) /\ NoMutual(rel)
      /\ rel.notify \subseteq K
  BY DEF IInv, Orderly, Sound
<1>2. K \in SUBSET Windows /\ w \in K /\ L \in SUBSET Windows
  BY <1>1, ClientsListed DEF Release
<1> HIDE DEF K
<1>3. /\ x \in Relations /\ x.fault = rel.fault /\ x.clients = rel.clients
      /\ x.notify = rel.notify
      /\ \A m \in Windows : m # w => x.trans[m] = rel.trans[m] \ {w}
      /\ \A c \in Windows :
            /\ x.tid[c] = IF c = w \/ rel.tfor[c] = w THEN NoWindow ELSE rel.tid[c]
            /\ x.tfor[c] = IF c = w \/ rel.tfor[c] = w THEN NoWindow ELSE rel.tfor[c]
      /\ x.group = [rel.group EXCEPT ![w] = NoGroup]
      /\ \A r \in Groups, v \in Windows :
            Contains(x.members[r], v) <=> v # w /\ Contains(rel.members[r], v)
  BY <1>1, <1>2, GroupingCleaned
<1>4. rel' = [x EXCEPT !.clients = removeAll(@, w), !.orig[w] = NoWindow,
                       !.trans[w] = {}, !.hint[w] = NoGroup, !.notify = @ \ {w}]
  BY DEF Release
<1> HIDE DEF x
<1>5. /\ x.clients \in Seq(Windows) /\ x.trans \in [Windows -> SUBSET Windows]
      /\ x.orig \in [Windows -> Windows \cup {NoWindow, Root}]
      /\ x.hint \in [Windows -> Leaders \cup {NoGroup}]
      /\ x.notify \in SUBSET Windows
      /\ rel.group \in [Windows -> Groups \cup {NoGroup}]
  BY <1>1, <1>3, Types
<1>6. /\ removeAll(x.clients, w) \in Seq(Windows)
      /\ \A v : Contains(removeAll(x.clients, w), v) <=> v # w /\ Contains(x.clients, v)
  BY <1>5, RemoveAll
<1>7. /\ t \in [Windows -> SUBSET Windows] /\ t[w] = {}
      /\ \A m \in Windows : m # w => t[m] = rel.trans[m] \ {w}
  BY <1>3, <1>5
<1>8. /\ rel' \in Relations /\ rel'.clients = removeAll(x.clients, w)
      /\ rel'.trans = t /\ rel'.notify = x.notify \ {w}
      /\ rel'.tid = x.tid /\ rel'.tfor = x.tfor
      /\ rel'.group = x.group /\ rel'.members = x.members /\ rel'.fault = rel.fault
  <2>1. /\ [x.orig EXCEPT ![w] = NoWindow] \in [Windows -> Windows \cup {NoWindow, Root}]
        /\ [x.hint EXCEPT ![w] = NoGroup] \in [Windows -> Leaders \cup {NoGroup}]
        /\ x.notify \ {w} \in SUBSET Windows
    BY <1>5
  <2> HIDE DEF t
  <2>2. rel' = [x EXCEPT !.clients = removeAll(x.clients, w),
                         !.orig = [x.orig EXCEPT ![w] = NoWindow],
                         !.trans = t, !.hint = [x.hint EXCEPT ![w] = NoGroup],
                         !.notify = x.notify \ {w}]
    BY <1>3, <1>4 DEF Relations, t
  <2> QED
    BY <1>3, <1>6, <1>7, <2>1, <2>2 DEF Relations
<1> HIDE DEF t
<1>9. ToSet(rel'.clients) = L
  <2>1. \A v : v \in ToSet(rel'.clients) <=> Contains(rel'.clients, v)
    BY <1>8, ClientsListed
  <2>2. \A v : v \in K <=> Contains(rel.clients, v)
    BY <1>1, ClientsListed DEF K
  <2> QED
    BY <1>3, <1>6, <1>8, <2>1, <2>2
<1>10. /\ rel'.group[w] = NoGroup
       /\ \A v \in Windows : v # w => rel'.group[v] = rel.group[v]
  BY <1>3, <1>5, <1>8
<1>11. Tied(rel')
  <2> SUFFICES ASSUME NEW c \in Windows
               PROVE  x.tfor[c] = IF x.tid[c] \in {NoWindow, Root} THEN NoWindow
                                  ELSE x.tid[c]
    BY <1>8 DEF Tied
  <2> QED
    BY <1>1, <1>3 DEF Sound, Tied
<1>12. Grouped(rel', L)
  <2>1. \A v \in Windows : rel'.group[v] # NoGroup <=> v \in L
    BY <1>1, <1>10 DEF Sound, Grouped
  <2>2. \A r \in Groups, v \in Windows : Contains(rel'.members[r], v) <=> rel'.group[v] = r
    BY <1>1, <1>3, <1>8, <1>10, GroupsAssumption DEF Sound, Grouped
  <2> QED
    BY <2>1, <2>2 DEF Grouped
<1>13. \A m \in Windows : t[m] \subseteq rel.trans[m] \ {w} /\ (m = w => t[m] = {})
  BY <1>7
<1>14. Listed(rel', L)
  <2> SUFFICES ASSUME NEW m \in Windows, NEW c \in t[m]
               PROVE  c \in L /\ m \in L /\ c # m /\ Below(rel', c, m)
    BY <1>8 DEF Listed
  <2>1. c \in rel.trans[m] /\ c # w /\ m # w /\ c \in Windows
    BY <1>7, <1>13
  <2>2. c \in K /\ m \in K /\ c # m /\ Below(rel, c, m)
    BY <1>1, <2>1 DEF Sound, Listed
  <2>3. CASE rel.tfor[c] = m
    BY <1>3, <1>8, <2>1, <2>2, <2>3 DEF Below
  <2>4. CASE rel.tid[c] = Root /\ rel.group[c] = rel.group[m]
    <3>1. rel.tfor[c] # w
      BY <1>1, <1>2, <2>1, <2>4, WindowsAssumption DEF Sound, Tied
    <3> QED
      BY <1>3, <1>8, <1>10, <2>1, <2>2, <2>4, <3>1 DEF Below
  <2> QED
    BY <2>2, <2>3, <2>4 DEF Below
<1>15. MainsList(rel')
  <2> SUFFICES ASSUME NEW c \in Windows, x.tfor[c] # NoWindow PROVE c \in t[x.tfor[c]]
    BY <1>8 DEF MainsList
  <2>1. c # w /\ rel.tfor[c] # w /\ x.tfor[c] = rel.tfor[c]
    BY <1>3
  <2>2. rel.tfor[c] \in Windows /\ c \in rel.trans[rel.tfor[c]]
    BY <1>1, <2>1, Types DEF Sound, MainsList
  <2> QED
    BY <1>7, <2>1, <2>2
<1>16. Ending(rel')
  <2> SUFFICES ASSUME NEW S \in SUBSET Windows, S # {}
               PROVE  \E v \in S : x.tfor[v] \notin S
    BY <1>8 DEF Ending
  <2>1. PICK v \in S : rel.tfor[v] \notin S
    BY <1>1 DEF Ending
  <2>2. x.tfor[v] \notin S
    BY <1>3, <2>1, WindowsAssumption
  <2> QED
    BY <2>2
<1>17. NoMutual(rel')
  BY <1>1, <1>8, <1>13 DEF NoMutual, Mutual
<1>18. rel'.notify \subseteq L
  BY <1>1, <1>3, <1>8
<1> QED
  BY <1>1, <1>8, <1>9, <1>11, <1>12, <1>14, <1>15, <1>16, <1>17, <1>18
     DEF IInv, Orderly, Sound

-----------------------------------------------------------------------------
(* The theorems.                                                           *)

LEMMA InitInvariant ==
    ASSUME Init
    PROVE  IInv(rel)
<1> DEFINE none == [gr \in Groups |-> <<>>]
<1>1. /\ rel.clients = <<>> /\ rel.trans = [w \in Windows |-> {}] /\ rel.notify = {}
      /\ rel.tid = [w \in Windows |-> NoWindow]
      /\ rel.tfor = [w \in Windows |-> NoWindow]
      /\ rel.group = [w \in Windows |-> NoGroup] /\ rel.members = none
      /\ rel.fault = FALSE
  BY DEF Init
<1>2. rel \in Relations
  <2>1. <<>> \in Seq(Windows) /\ none \in [Groups -> Seq(Windows)]
    OBVIOUS
  <2>2. /\ [w \in Windows |-> NoWindow] \in [Windows -> Windows \cup {NoWindow, Root}]
        /\ [w \in Windows |-> NoWindow] \in [Windows -> Windows \cup {NoWindow}]
        /\ [w \in Windows |-> {}] \in [Windows -> SUBSET Windows]
        /\ [w \in Windows |-> NoGroup] \in [Windows -> Leaders \cup {NoGroup}]
        /\ [w \in Windows |-> NoGroup] \in [Windows -> Groups \cup {NoGroup}]
        /\ [w \in Windows |-> "unset"]
               \in [Windows -> Windows \cup {NoWindow, Root, "unset"}]
    OBVIOUS
  <2> HIDE DEF none
  <2> QED
    BY <2>1, <2>2 DEF Init, Relations, none
<1>3. ToSet(rel.clients) = {}
  BY <1>1, <1>2, ClientsListed DEF ToSet
<1>4. Grouped(rel, {})
  <2>1. \A w \in Windows, gr \in Groups : ~Contains(none[gr], w)
    BY DEF Contains
  <2>2. \A w \in Windows, gr \in Groups : rel.group[w] # gr
    BY <1>1, GroupsAssumption
  <2> HIDE DEF none
  <2> QED
    BY <1>1, <2>1, <2>2 DEF Grouped
<1>5. Tied(rel) /\ Listed(rel, {}) /\ MainsList(rel)
  BY <1>1 DEF Tied, Listed, MainsList
<1>6. Ending(rel) /\ NoMutual(rel)
  BY <1>1, WindowsAssumption DEF Ending, NoMutual, Mutual
<1> QED
  BY <1>1, <1>2, <1>3, <1>4, <1>5, <1>6 DEF IInv, Orderly, Sound

THEOREM RelationsInvariant == Spec => []IInv(rel)
<1>1. Init => IInv(rel)
  BY InitInvariant
<1>2. IInv(rel) /\ [Next]_rel => IInv(rel)'
  <2> SUFFICES ASSUME IInv(rel), [Next]_rel PROVE IInv(rel')
    OBVIOUS
  <2>1. ASSUME NEW w \in Windows, Manage(w) PROVE IInv(rel')
    BY <2>1, ManageStep
  <2>2. ASSUME NEW w \in Windows, Release(w) PROVE IInv(rel')
    BY <2>2, ReleaseStep
  <2>3. ASSUME NEW w \in Windows, SetProperty(w) PROVE IInv(rel')
    BY <2>3, SetPropertyStep
  <2>4. ASSUME NEW w \in Windows, PropertyNotify(w) PROVE IInv(rel')
    BY <2>4, PropertyNotifyStep
  <2>5. ASSUME NEW w \in Windows, SetGroupLeader(w) PROVE IInv(rel')
    BY <2>5, SetGroupLeaderStep
  <2>6. CASE rel' = rel
    BY <2>6
  <2> QED
    BY <2>1, <2>2, <2>3, <2>4, <2>5, <2>6 DEF Next
<1> QED
  BY <1>1, <1>2, PTL DEF Spec

(* Every window, group and list keeps its type.                            *)
THEOREM RelationsTypeCorrect == Spec => []TypeOK
<1>1. IInv(rel) => TypeOK
  BY DEF IInv, Orderly, Sound, TypeOK
<1> QED
  BY <1>1, RelationsInvariant, PTL

(* The windows a client is a transient of are those that list it.          *)
LEMMA MainClients ==
    ASSUME NEW K, NEW g, Sound(g, K), NEW c \in K, c \in Windows
    PROVE  \A m \in Windows : m \in mainClients(g, c) <=> c \in g.trans[m]
<1>1. /\ g \in Relations /\ g.group[c] \in Groups
      /\ g.tfor \in [Windows -> Windows \cup {NoWindow}]
  BY Types DEF Sound, Grouped
<1>2. g.members[g.group[c]] \in Seq(Windows)
  BY <1>1, Types
<1> SUFFICES ASSUME NEW m \in Windows
             PROVE  m \in mainClients(g, c) <=> c \in g.trans[m]
  OBVIOUS
<1>3. CASE g.tid[c] = NoWindow
  <2>1. g.tfor[c] = NoWindow
    BY <1>3 DEF Sound, Tied
  <2>2. c \in g.trans[m] => FALSE
    BY <1>3, <2>1, WindowsAssumption DEF Sound, Listed, Below
  <2> QED
    BY <1>3, <2>2 DEF mainClients, isTransient
<1>4. CASE g.tid[c] # NoWindow /\ g.tfor[c] # NoWindow
  <2>1. mainClients(g, c) = {g.tfor[c]}
    BY <1>4 DEF mainClients, isTransient
  <2>2. g.tid[c] # Root /\ c \in g.trans[g.tfor[c]]
    BY <1>4 DEF Sound, Tied, MainsList
  <2>3. c \in g.trans[m] => g.tfor[c] = m
    BY <2>2 DEF Sound, Listed, Below
  <2> QED
    BY <2>1, <2>2, <2>3
<1>5. CASE g.tid[c] # NoWindow /\ g.tfor[c] = NoWindow
  <2> DEFINE inGroup == {x \in Windows : g.group[x] = g.group[c]}
  <2>1. m \in mainClients(g, c) <=>
            m \in ToSet(g.members[g.group[c]]) /\ hasTransient(g, m, c, FALSE)
    BY <1>5 DEF mainClients, isTransient
  <2>2. m \in ToSet(g.members[g.group[c]]) <=> m \in inGroup
    BY <1>1, <1>2, ToSetContains DEF Sound, Grouped
  <2>3. m \in inGroup => (hasTransient(g, m, c, FALSE) <=> c \in g.trans[m])
    <3> SUFFICES ASSUME m \in inGroup
                 PROVE  hasTransient(g, m, c, FALSE) <=> c \in g.trans[m]
      OBVIOUS
    <3> DEFINE down == Closure({m} \cap inGroup, {})
    <3>1. down = {m}
      BY DEF Closure
    <3>2. reachesDown(g, m, c, {c} \ {c}, FALSE) <=> \E x \in down : c \in g.trans[x]
      BY DEF reachesDown
    <3> HIDE DEF down
    <3>3. reachesDown(g, m, c, {c} \ {c}, FALSE) <=> c \in g.trans[m]
      BY <3>1, <3>2
    <3>4. g.tfor[c] # m /\ m \notin {c} \ {c}
      BY <1>5, WindowsAssumption
    <3>5. hasTransient(g, m, c, FALSE) <=> hasTransientOver(g, m, c, FALSE, {c})
      BY DEF hasTransient
    <3> QED
      BY <1>5, <3>3, <3>4, <3>5 DEF hasTransientOver, isTransient
  <2>4. c \in g.trans[m] => m \in inGroup
    BY <1>5, WindowsAssumption DEF Sound, Listed, Below
  <2> HIDE DEF inGroup
  <2> QED
    BY <2>1, <2>2, <2>3, <2>4
<1> QED
  BY <1>3, <1>4, <1>5

LEMMA IsSound ==
    ASSUME IInv(rel)
    PROVE  TransiencyMatches
<1>1. Sound(rel, Clients) /\ rel \in Relations /\ Clients \in SUBSET Windows
  BY ClientsListed DEF IInv, Orderly, Sound, Clients
<1>2. \A c \in Clients : mainClients(rel, c) \in SUBSET Windows
  <2> SUFFICES ASSUME NEW c \in Clients
               PROVE  mainClients(rel, c) \in SUBSET Windows
    OBVIOUS
  <2>1. rel.members[rel.group[c]] \in Seq(Windows)
    BY <1>1, Types DEF Sound, Grouped
  <2>2. ToSet(rel.members[rel.group[c]]) \in SUBSET Windows
    BY <2>1, ToSetContains
  <2>3. rel.tfor[c] # NoWindow => rel.tfor[c] \in Windows
    BY <1>1, Types
  <2> QED
    BY <2>2, <2>3 DEF mainClients
<1>3. \A w \in Clients :
         /\ rel.group[w] # NoGroup /\ Contains(rel.members[rel.group[w]], w)
         /\ \A m \in mainClients(rel, w) : w \in rel.trans[m] /\ m \in Clients
         /\ \A c \in rel.trans[w] : w \in mainClients(rel, c) /\ c \in Clients
  <2> SUFFICES ASSUME NEW w \in Clients
               PROVE  /\ rel.group[w] # NoGroup
                      /\ Contains(rel.members[rel.group[w]], w)
                      /\ \A m \in mainClients(rel, w) :
                            w \in rel.trans[m] /\ m \in Clients
                      /\ \A c \in rel.trans[w] :
                            w \in mainClients(rel, c) /\ c \in Clients
    OBVIOUS
  <2>1. w \in Windows /\ rel.group[w] \in Groups
    BY <1>1, Types DEF Sound, Grouped
  <2>2. Contains(rel.members[rel.group[w]], w)
    BY <1>1, <2>1 DEF Sound, Grouped
  <2>3. \A m \in mainClients(rel, w) : w \in rel.trans[m] /\ m \in Clients
    BY <1>1, <1>2, <2>1, MainClients DEF Sound, Listed
  <2>4. \A c \in rel.trans[w] : w \in mainClients(rel, c) /\ c \in Clients
    BY <1>1, <2>1, MainClients DEF Sound, Listed
  <2> QED
    BY <2>1, <2>2, <2>3, <2>4, GroupsAssumption
<1> QED
  BY <1>1, <1>3 DEF TransiencyMatches, Sound, Grouped

(* Main windows, transients, groups and their members match both ways.     *)
THEOREM TransiencyAlwaysMatches == Spec => []TransiencyMatches
BY IsSound, RelationsInvariant, PTL

(* The way up from main window to main window ends.                        *)
THEOREM MainWindowsAlwaysEnd == Spec => []MainWindowsEnd
<1>1. ASSUME IInv(rel) PROVE MainWindowsEnd
  <2>1. Clients \in SUBSET Windows /\ Ending(rel)
    BY <1>1, ClientsListed DEF IInv, Orderly, Sound, Clients
  <2> QED
    BY <2>1 DEF MainWindowsEnd, Ending
<1> QED
  BY <1>1, RelationsInvariant, PTL

(* No two windows are transient for each other.                            *)
THEOREM NeverMutualTransients == Spec => []NoMutualTransients
<1>1. ASSUME IInv(rel) PROVE NoMutualTransients
  <2>1. /\ Clients \in SUBSET Windows /\ NoMutual(rel)
        /\ \A w \in Windows : rel.trans[w] \subseteq Windows
    BY <1>1, ClientsListed, Types DEF IInv, Orderly, Sound, Clients
  <2> QED
    BY <2>1 DEF NoMutualTransients, NoMutual, Mutual
<1> QED
  BY <1>1, RelationsInvariant, PTL

(* Loops in the relation are neither of main windows only nor of two       *)
(* windows.                                                                *)
THEOREM NeverShortLoops == Spec => []NoShortLoops
<1>1. MainWindowsEnd /\ NoMutualTransients => NoShortLoops
  BY DEF NoShortLoops
<1> QED
  BY <1>1, MainWindowsAlwaysEnd, NeverMutualTransients, PTL

-----------------------------------------------------------------------------
(* constrainedStackingOrder().                                             *)

LEMMA OrderOf ==
    ASSUME NEW C \in SUBSET Windows, NEW n, n = Cardinality(C)
    PROVE  /\ n \in Nat
           /\ \A order : order \in Orders[C] <=>
                 /\ order \in [1..n -> C]
                 /\ \A i, j \in 1..n : i # j => order[i] # order[j]
           /\ \A order \in Orders[C] :
                 /\ Len(order) = n /\ DOMAIN order = 1..n
                 /\ \A w \in C : \E i \in 1..n : order[i] = w
<1>1. IsFiniteSet(C) /\ n \in Nat
  BY WindowsAssumption, FS_Subset, FS_CardinalityType
<1>2. Orders[C] = {f \in [1..n -> C] : \A i, j \in 1..n : i # j => f[i] # f[j]}
  BY DEF Orders, SetToSeqs
<1>3. ASSUME NEW order \in Orders[C]
      PROVE  /\ Len(order) = n /\ DOMAIN order = 1..n
             /\ \A w \in C : \E i \in 1..n : order[i] = w
  <2>1. /\ order \in [1..n -> C]
        /\ \A i, j \in 1..n : i # j => order[i] # order[j]
    BY <1>2
  <2>2. order \in Seq(C) /\ Len(order) = n
    BY <1>1, <2>1
  <2>3. order \in Injection(1..n, C)
    BY <2>1 DEF Injection, IsInjective
  <2>4. IsFiniteSet(1..n) /\ Cardinality(1..n) = n
    BY <1>1, FS_Interval
  <2>5. order \in Surjection(1..n, C)
    BY <1>1, <2>3, <2>4, FS_Injection
  <2> QED
    BY <2>1, <2>2, <2>5 DEF Surjection
<1> QED
  BY <1>1, <1>2, <1>3

(* A window without transients is not above another one in the relation.   *)
LEMMA NoTransients ==
    ASSUME NEW K, NEW g, Sound(g, K), NEW w \in Windows, g.trans[w] = {},
           NEW c \in Windows, c # w
    PROVE  g.tfor[c] # w /\ ~hasTransient(g, w, c, TRUE)
<1>1. \A x \in Windows : g.tfor[x] # w
  BY WindowsAssumption DEF Sound, MainsList
<1> DEFINE R == {<<x, g.tfor[x]>> : x \in {y \in Windows : g.tfor[y] # NoWindow}}
           up == chain(g, c)
<1>2. w \notin up
  <2>1. \A p \in R : p[2] # w
    BY <1>1
  <2> DEFINE J == Closure({c}, R) \ {w}
  <2>2. /\ {c} \subseteq Closure({c}, R) /\ Closure({c}, R) \subseteq Windows
        /\ \A p \in R : p[1] \in Closure({c}, R) /\ p[2] \in Windows
                           => p[2] \in Closure({c}, R)
    <3> HIDE DEF R
    <3> QED
      BY Reaches
  <2>3. \A p \in R : p[2] \in Windows
    BY Types DEF Sound
  <2> HIDE DEF R
  <2>4. J \in SUBSET Windows /\ {c} \subseteq J /\ \A p \in R : p[1] \in J => p[2] \in J
    BY <2>1, <2>2, <2>3
  <2> HIDE DEF J
  <2>5. Closure({c}, R) \subseteq J
    BY <2>4 DEF Closure
  <2> QED
    BY <2>5 DEF chain, J, R
<1>3. ASSUME NEW top \in up, NEW met PROVE ~reachesDown(g, w, top, met, TRUE)
  <2> DEFINE inGroup == {x \in Windows : g.group[x] = g.group[top]}
             steps == {p \in (inGroup \ met) \X inGroup : p[2] \in g.trans[p[1]]}
  <2> SUFFICES ASSUME NEW x \in Closure({w} \cap inGroup, steps), top \in g.trans[x]
               PROVE  FALSE
    BY DEF reachesDown
  <2>1. {w} \cap inGroup \subseteq {w} /\ {w} \in SUBSET Windows
    OBVIOUS
  <2>2. \A p \in steps : p[1] \in {w} => p[2] \in {w}
    OBVIOUS
  <2> HIDE DEF inGroup, steps
  <2>3. x = w
    BY <2>1, <2>2 DEF Closure
  <2> QED
    BY <2>3
<1> HIDE DEF up
<1>4. ~hasTransientOver(g, w, c, TRUE, up)
  BY <1>1, <1>2, <1>3 DEF hasTransientOver
<1> QED
  BY <1>1, <1>4 DEF hasTransient, up

(* The states of the loop: everything above position i is in its place.    *)
Lifted(g, C) ==
    {s \in [order : Orders[C], i : 0..Cardinality(C)] :
        \A k \in 1..Cardinality(C) : k > s.i => mainsAbove(g, s.order, k) = {}}

LEMMA MovedUp ==
    ASSUME NEW C \in SUBSET Windows, NEW n, n = Cardinality(C),
           NEW order \in Orders[C], NEW i \in 1..n, NEW j \in 1..n, i < j
    PROVE  LET x == movedUp(order, i, j) IN
           /\ x \in Orders[C] /\ x[j] = order[i]
           /\ \A k \in 1..n : k < i \/ j < k => x[k] = order[k]
           /\ \A k \in i..(j - 1) : x[k] = order[k + 1]
<1>1. /\ n \in Nat /\ order \in [1..n -> C] /\ DOMAIN order = 1..n
      /\ \A k, m \in 1..n : k # m => order[k] # order[m]
  BY OrderOf
<1> DEFINE x == movedUp(order, i, j)
           from == [k \in 1..n |-> IF k < i \/ j < k THEN k
                                   ELSE IF k = j THEN i ELSE k + 1]
<1>2. /\ from \in [1..n -> 1..n]
      /\ \A k, m \in 1..n : k # m => from[k] # from[m]
  BY <1>1
<1>3. \A k \in 1..n : x[k] = order[from[k]]
  BY <1>1 DEF movedUp
<1>4. x = [k \in 1..n |-> x[k]]
  BY <1>1 DEF movedUp
<1> HIDE DEF x
<1>5. x \in [1..n -> C]
  <2>1. \A k \in 1..n : x[k] \in C
    BY <1>1, <1>2, <1>3
  <2> QED
    BY <1>4, <2>1
<1>6. \A k, m \in 1..n : k # m => x[k] # x[m]
  <2> HIDE DEF from
  <2> QED
    BY <1>1, <1>2, <1>3
<1>7. x \in Orders[C]
  <2>1. \A o : o \in Orders[C] <=> /\ o \in [1..n -> C]
                                   /\ \A k, m \in 1..n : k # m => o[k] # o[m]
    BY OrderOf
  <2> QED
    BY <1>5, <1>6, <2>1
<1>8. /\ from[j] = i
      /\ \A k \in 1..n : k < i \/ j < k => from[k] = k
      /\ \A k \in i..(j - 1) : k \in 1..n /\ from[k] = k + 1
  BY <1>1
<1> HIDE DEF from
<1> QED
  BY <1>3, <1>7, <1>8 DEF x

LEMMA RoundLifted ==
    ASSUME NEW K, NEW g, Sound(g, K), NEW C \in SUBSET Windows, NEW s \in Lifted(g, C)
    PROVE  liftRound(g, s) \in Lifted(g, C)
<1> DEFINE n == Cardinality(C)
           order == s.order
           i == s.i
           w == order[i]
           mains == mainsAbove(g, order, i)
           j == Max(mains)
           x == movedUp(order, i, j)
<1>1. /\ n \in Nat /\ order \in Orders[C] /\ i \in 0..n
      /\ \A k \in 1..n : k > i => mainsAbove(g, order, k) = {}
  BY OrderOf DEF Lifted
<1>2. /\ order \in [1..n -> C] /\ Len(order) = n
      /\ \A k, m \in 1..n : k # m => order[k] # order[m]
  BY <1>1, OrderOf
<1>3. CASE i = 0
  BY <1>3 DEF liftRound
<1>4. CASE i # 0 /\ mains = {}
  <2>1. liftRound(g, s) = [s EXCEPT !.i = i - 1]
    BY <1>4 DEF liftRound
  <2>2. \A k \in 1..n : k > i - 1 => mainsAbove(g, order, k) = {}
    <3> SUFFICES ASSUME NEW k \in 1..n, k > i - 1 PROVE mainsAbove(g, order, k) = {}
      OBVIOUS
    <3>1. k > i \/ k = i
      BY <1>1
    <3> QED
      BY <1>1, <1>4, <3>1
  <2>3. i - 1 \in 0..n
    BY <1>1, <1>4
  <2>4. [s EXCEPT !.i = i - 1].order = order /\ [s EXCEPT !.i = i - 1].i = i - 1
        /\ [s EXCEPT !.i = i - 1] \in [order : Orders[C], i : 0..n]
    BY <1>1, <2>3 DEF Lifted
  <2> QED
    BY <2>1, <2>2, <2>4 DEF Lifted
<1>5. CASE i # 0 /\ mains # {}
  <2>1. i \in 1..n
    BY <1>1, <1>5
  <2>2. mains \in SUBSET ((i + 1)..n) /\ mains \in SUBSET (1..n)
    <3>1. mains \in SUBSET ((i + 1)..n)
      BY <1>2 DEF mainsAbove
    <3>2. (i + 1)..n \subseteq 1..n
      BY <1>1, <2>1
    <3> QED
      BY <3>1, <3>2
  <2>3. j \in mains /\ \A k \in mains : k <= j
    <3> HIDE DEF mains, n
    <3> QED
      BY <1>1, <1>5, <2>2, MaxPosition
  <2>4. j \in 1..n /\ i < j
    BY <1>1, <2>1, <2>2, <2>3
  <2> HIDE DEF mains, j
  <2>5. /\ x \in Orders[C] /\ x[j] = order[i]
        /\ \A k \in 1..n : k < i \/ j < k => x[k] = order[k]
        /\ \A k \in i..(j - 1) : x[k] = order[k + 1]
    BY <1>1, <2>1, <2>4, MovedUp
  <2> HIDE DEF x
  <2>6. Len(x) = n
    BY <2>5, OrderOf
  <2>7. w \in Windows
    BY <1>2, <2>1
  <2>8. ASSUME NEW k \in 1..n, k > j PROVE mainsAbove(g, x, k) = {}
    <3>1. x[k] = order[k] /\ mainsAbove(g, order, k) = {} /\ k > i
      BY <1>1, <2>1, <2>4, <2>5, <2>8
    <3>2. \A m \in (k + 1)..n : x[m] = order[m]
      BY <2>4, <2>5, <2>8
    <3> QED
      BY <1>2, <2>6, <3>1, <3>2 DEF mainsAbove
  <2>9. mainsAbove(g, x, j) = {}
    <3> SUFFICES ASSUME NEW m \in mainsAbove(g, x, j) PROVE FALSE
      OBVIOUS
    <3>1. m \in (j + 1)..n
      BY <2>6 DEF mainsAbove
    <3>2. x[m] = order[m] /\ m \in (i + 1)..n
      <4>1. m \in 1..n /\ j < m /\ m \in (i + 1)..n
        BY <1>1, <2>1, <2>4, <3>1
      <4> QED
        BY <2>5, <4>1
    <3>3. m \in mains
      BY <1>2, <2>5, <3>2 DEF mainsAbove, mains
    <3> QED
      BY <2>3, <2>4, <3>1, <3>3
  <2>10. ASSUME g.trans[w] = {}, NEW k \in i..(j - 1) PROVE mainsAbove(g, x, k) = {}
    <3> SUFFICES ASSUME NEW m \in mainsAbove(g, x, k) PROVE FALSE
      OBVIOUS
    <3> DEFINE c == order[k + 1]
    <3>1. k \in 1..n /\ k + 1 \in 1..n /\ k + 1 > i /\ m \in (k + 1)..n /\ m \in 1..n
      BY <2>1, <2>4, <2>6, <2>10 DEF mainsAbove
    <3>2. x[k] = c /\ mainsAbove(g, order, k + 1) = {} /\ c \in Windows
      BY <1>1, <1>2, <2>5, <2>10, <3>1
    <3>3. /\ isTransient(g, c)
          /\ IF groupTransient(g, c) THEN hasTransient(g, x[m], c, TRUE)
             ELSE x[m] = g.tfor[c]
          /\ keepTransientAbove(g, x[m], c)
      BY <3>2 DEF mainsAbove
    <3> HIDE DEF c
    <3>4. CASE m = j
      <4>1. x[m] = w /\ c # w
        BY <1>2, <2>1, <2>5, <3>1, <3>4 DEF c
      <4>2. g.tfor[c] # w /\ ~hasTransient(g, w, c, TRUE)
        <5> HIDE DEF w
        <5> QED
          BY <2>7, <2>10, <3>2, <4>1, NoTransients
      <4> QED
        BY <3>3, <4>1, <4>2
    <3>5. CASE m > j
      <4>1. x[m] = order[m] /\ m \in (k + 1 + 1)..n
        BY <2>4, <2>5, <2>10, <3>1, <3>5
      <4>2. m \in mainsAbove(g, order, k + 1)
        BY <1>2, <3>3, <4>1 DEF mainsAbove, c
      <4> QED
        BY <3>2, <4>2
    <3>6. CASE m < j
      <4>1. m \in i..(j - 1) /\ m + 1 \in (k + 1 + 1)..n
        BY <1>1, <2>1, <2>4, <2>10, <3>1, <3>6
      <4>2. x[m] = order[m + 1]
        BY <2>5, <4>1
      <4>3. m + 1 \in mainsAbove(g, order, k + 1)
        BY <1>2, <3>3, <4>1, <4>2 DEF mainsAbove, c
      <4> QED
        BY <3>2, <4>3
    <3> QED
      BY <2>4, <3>1, <3>4, <3>5, <3>6
  <2> DEFINE to == IF g.trans[w] # {} THEN j - 1 ELSE i - 1
  <2>11. liftRound(g, s) = [order |-> x, i |-> to]
    BY <1>5 DEF liftRound, x, j, mains
  <2>12. to \in 0..n
    BY <1>1, <2>1, <2>4
  <2>13. ASSUME NEW k \in 1..n, k > to PROVE mainsAbove(g, x, k) = {}
    <3>1. CASE g.trans[w] # {}
      <4>1. k = j \/ k > j
        BY <2>4, <2>13, <3>1
      <4> QED
        BY <2>8, <2>9, <4>1
    <3>2. CASE g.trans[w] = {}
      <4>1. k \in i..(j - 1) \/ k = j \/ k > j
        BY <2>1, <2>4, <2>13, <3>2
      <4> QED
        BY <2>8, <2>9, <2>10, <3>2, <4>1
    <3> QED
      BY <3>1, <3>2
  <2> HIDE DEF to
  <2>14. [order |-> x, i |-> to] \in Lifted(g, C)
    BY <2>5, <2>12, <2>13 DEF Lifted
  <2> QED
    BY <2>11, <2>14
<1> QED
  BY <1>3, <1>4, <1>5

LEMMA OrderLifted ==
    ASSUME NEW K, NEW g, Sound(g, K), NEW C \in SUBSET Windows, NEW order \in Orders[C]
    PROVE  constrainedStackingOrder(g, order) \in Lifted(g, C)
<1> DEFINE n == Rounds
           b == [order |-> order, i |-> Len(order)]
           T == Lifted(g, C)
           Step(x, i) == liftRound(g, x)
           Q(k) == k = [i \in 0..n |-> IF i = 0 THEN b ELSE Step(k[i - 1], i)]
           S == [i \in 0..n |-> T]
           F == [i \in 1..n |-> [x \in T |-> Step(x, i)]]
           h == CHOOSE k : Q(k)
<1>1. n \in Nat
  BY WindowsAssumption, FS_CardinalityType DEF Rounds
<1>2. b \in T
  <2>1. Len(order) = Cardinality(C) /\ Cardinality(C) \in Nat
    BY OrderOf
  <2> QED
    BY <2>1 DEF Lifted
<1>3. \A i \in 1..n : \A x \in T : Step(x, i) \in T
  BY RoundLifted
<1>4. constrainedStackingOrder(g, order) = h[n]
  BY DEF constrainedStackingOrder
<1> HIDE DEF T, b, n
<1>5. PICK k : Computes(k, n, b, F, S)
  <2>1. b \in S[0]
    BY <1>1, <1>2
  <2>2. \A i \in 1..n : \A x \in S[i - 1] : F[i][x] \in S[i]
    <3> HIDE DEF Step
    <3> QED
      BY <1>1, <1>3
  <2> HIDE DEF n, S, F
  <2> QED
    BY <1>1, <2>1, <2>2, Recursion
<1>6. Q(k)
  <2>1. \A i \in 0..n : i # 0 => k[i] = Step(k[i - 1], i)
    <3> SUFFICES ASSUME NEW i \in 0..n, i # 0 PROVE k[i] = Step(k[i - 1], i)
      OBVIOUS
    <3>1. i \in 1..n /\ i - 1 \in 0..n
      BY <1>1
    <3>2. k[i] = F[i][k[i - 1]] /\ k[i - 1] \in T
      BY <1>5, <3>1 DEF Computes
    <3> HIDE DEF Step
    <3> QED
      BY <3>1, <3>2
  <2>2. k[0] = b /\ k = [i \in 0..n |-> k[i]]
    BY <1>1, <1>5 DEF Computes
  <2> HIDE DEF Step
  <2> QED
    BY <2>1, <2>2
<1>7. Q(h)
  BY <1>6
<1> HIDE DEF h
<1>8. \A i \in 0..n : h[i] \in S[i]
  <2>1. h[0] \in S[0]
    BY <1>1, <1>2, <1>7
  <2>2. \A i \in 1..n : h[i - 1] \in S[i - 1] => h[i] \in S[i]
    <3> SUFFICES ASSUME NEW i \in 1..n, h[i - 1] \in S[i - 1] PROVE h[i] \in S[i]
      OBVIOUS
    <3>1. i \in 0..n /\ i # 0 /\ i - 1 \in 0..n
      BY <1>1
    <3>2. h[i] = Step(h[i - 1], i)
      <4> HIDE DEF Step
      <4> QED
        BY <1>7, <3>1
    <3> HIDE DEF Step
    <3> QED
      BY <1>3, <3>1, <3>2
  <2> HIDE DEF S
  <2> QED
    BY <1>1, <2>1, <2>2, Carried
<1>9. h[n] \in T
  <2>1. n \in 0..n
    BY <1>1
  <2> QED
    BY <1>8, <2>1
<1> QED
  BY <1>4, <1>9 DEF T

(* When the loop has ended, each transient is above its main windows, and  *)
(* the order has the same windows.                                         *)
THEOREM TransientsAlwaysOnTop == Spec => []TransientsOnTop
<1>1. ASSUME IInv(rel) PROVE TransientsOnTop
  <2>1. Sound(rel, Clients) /\ Clients \in SUBSET Windows
    BY <1>1, ClientsListed DEF IInv, Orderly, Sound, Clients
  <2> DEFINE n == Cardinality(Clients)
  <2>2. ASSUME NEW shown \in Lifted(rel, Clients), shown.i = 0,
               NEW w \in Clients, NEW m \in mainClients(rel, w),
               keepTransientAbove(rel, m, w)
        PROVE  position(shown.order, m) < position(shown.order, w)
    <3> DEFINE order == shown.order
    <3>1. /\ n \in Nat /\ order \in Orders[Clients] /\ DOMAIN order = 1..n
          /\ Len(order) = n
          /\ \A v \in Clients : \E i \in 1..n : order[i] = v
      BY <2>1, OrderOf DEF Lifted
    <3>2. \A k \in 1..n : mainsAbove(rel, order, k) = {}
      BY <2>2, <3>1 DEF Lifted
    <3>3. w \in rel.trans[m] /\ m \in Clients /\ w # m
      <4>1. TransiencyMatches
        BY <1>1, IsSound
      <4> QED
        BY <2>1, <4>1 DEF TransiencyMatches, Sound, Listed
    <3> DEFINE p == position(order, m)
               q == position(order, w)
    <3>4. p \in 1..n /\ order[p] = m /\ q \in 1..n /\ order[q] = w
      BY <3>1, <3>3 DEF position
    <3> HIDE DEF p, q, order
    <3> SUFFICES ASSUME ~(p < q) PROVE FALSE
      BY DEF p, q, order
    <3>5. p \in (q + 1)..n
      BY <3>1, <3>3, <3>4
    <3>6. isTransient(rel, w) /\ (~groupTransient(rel, w) => m = rel.tfor[w])
      <4>1. isTransient(rel, w)
        BY DEF mainClients
      <4>2. ~groupTransient(rel, w) => rel.tfor[w] # NoWindow
        BY <2>1, <4>1 DEF Sound, Tied, isTransient, groupTransient
      <4> QED
        BY <4>1, <4>2 DEF mainClients
    <3>7. hasTransient(rel, m, w, TRUE)
      BY <2>1, <3>3, HasListed
    <3>8. p \in mainsAbove(rel, order, q)
      BY <2>2, <3>1, <3>4, <3>5, <3>6, <3>7 DEF mainsAbove
    <3> QED
      BY <3>2, <3>4, <3>8
  <2>3. \A order \in Orders[Clients] :
            constrainedStackingOrder(rel, order) \in Lifted(rel, Clients)
    BY <2>1, OrderLifted
  <2>4. \A shown \in Lifted(rel, Clients) : shown.order \in Orders[Clients]
    BY DEF Lifted
  <2> QED
    BY <2>2, <2>3, <2>4 DEF TransientsOnTop
<1> QED
  BY <1>1, RelationsInvariant, PTL
=============================================================================
