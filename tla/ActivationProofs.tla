-------------------------- MODULE ActivationProofs --------------------------
(***************************************************************************)
(* Proofs about Activation.                                                *)
(***************************************************************************)
EXTENDS Activation, ListTheorems

-----------------------------------------------------------------------------
(* Lists of clients.                                                       *)

(* A list r has the clients of a list, and c.                              *)
With(r, list, c) ==
    /\ r \in Seq(Clients) /\ Once(r)
    /\ \A x : Contains(r, x) <=> x = c \/ Contains(list, x)

LEMMA Joined ==
    ASSUME NEW C, NEW a \in Seq(C), NEW b \in Seq(C)
    PROVE  a \o b \in Seq(C) /\ Len(a \o b) = Len(a) + Len(b)
OBVIOUS

LEMMA Inserted ==
    ASSUME NEW list \in Seq(Clients), NEW c \in Clients,
           NEW k \in 1..(Len(list) + 1), Once(list), ~Contains(list, c)
    PROVE  With(InsertAt(list, k, c), list, c)
<1> DEFINE n == Len(list)
           a == SubSeq(list, 1, k - 1)
           b == SubSeq(list, k, n)
           r == InsertAt(list, k, c)
<1>1. n \in Nat /\ k \in Nat /\ k >= 1 /\ k <= n + 1
      /\ \A i \in 1..n : list[i] \in Clients /\ list[i] # c
  BY DEF Contains
<1>2. a \in Seq(Clients) /\ Len(a) = k - 1 /\ \A i \in 1..(k - 1) : a[i] = list[i]
  BY <1>1
<1>3. b \in Seq(Clients) /\ Len(b) = n - k + 1
      /\ \A i \in 1..(n - k + 1) : b[i] = list[i + k - 1]
  BY <1>1
<1>4. r = (a \o <<c>>) \o b
  BY DEF InsertAt
<1> HIDE DEF n, a, b, r
<1> DEFINE u == a \o <<c>>
<1>5. u \in Seq(Clients) /\ Len(u) = k /\ u[k] = c
      /\ \A i \in 1..(k - 1) : u[i] = list[i]
  <2>1. <<c>> \in Seq(Clients) /\ Len(<<c>>) = 1 /\ <<c>>[1] = c
    OBVIOUS
  <2>2. u \in Seq(Clients) /\ Len(u) = k
    BY <1>1, <1>2, <2>1
  <2>3. u[k] = c
    BY <1>1, <1>2, <2>1
  <2>4. \A i \in 1..(k - 1) : u[i] = list[i]
    BY <1>1, <1>2, <2>1
  <2> QED
    BY <2>2, <2>3, <2>4
<1>15. r = u \o b
  BY <1>4
<1> HIDE DEF u
<1>6. r \in Seq(Clients) /\ Len(r) = n + 1
  <2>1. r \in Seq(Clients)
    BY <1>3, <1>5, <1>15
  <2>2. Len(r) = Len(u) + Len(b)
    BY <1>3, <1>5, <1>15, Joined
  <2>3. k + (n - k + 1) = n + 1
    BY <1>1
  <2> QED
    BY <1>3, <1>5, <2>1, <2>2, <2>3
<1>7. \A i \in 1..k : r[i] = u[i]
  BY <1>1, <1>3, <1>5, <1>15
<1>8. \A i \in (k + 1)..(n + 1) : r[i] = list[i - 1]
  <2> SUFFICES ASSUME NEW i \in (k + 1)..(n + 1) PROVE r[i] = list[i - 1]
    OBVIOUS
  <2>1. i - k \in 1..(n - k + 1) /\ (i - k) + k - 1 = i - 1
    BY <1>1
  <2>2. r[i] = b[i - k]
    BY <1>1, <1>3, <1>5, <1>15, <2>1
  <2>3. b[i - k] = list[(i - k) + k - 1]
    BY <1>3, <2>1
  <2> QED
    BY <2>1, <2>2, <2>3
<1>9. r[k] = c /\ \A i \in 1..(k - 1) : r[i] = list[i]
  BY <1>1, <1>5, <1>7
<1>10. Once(r)
  <2> SUFFICES ASSUME NEW i \in 1..Len(r), NEW j \in 1..Len(r), r[i] = r[j]
               PROVE  i = j
    BY DEF Once
  <2> DEFINE old(l) == IF l < k THEN l ELSE l - 1
  <2>1. \A l \in 1..Len(r) : l # k => old(l) \in 1..n /\ r[l] = list[old(l)]
    BY <1>1, <1>6, <1>8, <1>9
  <2>4. \A l \in 1..Len(r) : l # k => r[l] # c
    <3> HIDE DEF old
    <3> QED
      BY <1>1, <2>1
  <2>2. CASE i = k \/ j = k
    BY <1>9, <2>2, <2>4
  <2>3. CASE i # k /\ j # k
    <3>1. old(i) = old(j)
      BY <2>1, <2>3 DEF Once, n
    <3> QED
      BY <1>1, <1>6, <2>3, <3>1
  <2> QED
    BY <2>2, <2>3
<1>11. \A x : Contains(r, x) => x = c \/ Contains(list, x)
  <2> SUFFICES ASSUME NEW i \in 1..Len(r) PROVE r[i] = c \/ Contains(list, r[i])
    BY DEF Contains
  <2>1. CASE i = k
    BY <1>9, <2>1
  <2>2. CASE i < k
    <3>1. i \in 1..n /\ r[i] = list[i]
      BY <1>1, <1>6, <1>9, <2>2
    <3> QED
      BY <3>1 DEF Contains, n
  <2>3. CASE i > k
    <3>1. i - 1 \in 1..n /\ r[i] = list[i - 1]
      BY <1>1, <1>6, <1>8, <2>3
    <3> QED
      BY <3>1 DEF Contains, n
  <2> QED
    BY <1>1, <2>1, <2>2, <2>3
<1>12. Contains(r, c)
  <2>1. k \in 1..Len(r)
    BY <1>1, <1>6
  <2> QED
    BY <1>9, <2>1 DEF Contains
<1>13. \A x : Contains(list, x) => Contains(r, x)
  <2> SUFFICES ASSUME NEW i \in 1..n PROVE Contains(r, list[i])
    BY DEF Contains, n
  <2>1. CASE i < k
    <3>1. i \in 1..Len(r) /\ r[i] = list[i]
      BY <1>1, <1>6, <1>9, <2>1
    <3> QED
      BY <3>1 DEF Contains
  <2>2. CASE i >= k
    <3>1. i + 1 \in 1..Len(r) /\ i + 1 \in (k + 1)..(n + 1) /\ (i + 1) - 1 = i
      BY <1>1, <1>6, <2>2
    <3>2. r[i + 1] = list[i]
      BY <1>8, <3>1
    <3> QED
      BY <3>1, <3>2 DEF Contains
  <2> QED
    BY <1>1, <2>1, <2>2
<1>14. With(r, list, c)
  BY <1>6, <1>10, <1>11, <1>12, <1>13 DEF With
<1> QED
  BY <1>14 DEF r

LEMMA Appended ==
    ASSUME NEW list \in Seq(Clients), NEW c \in Clients,
           Once(list), ~Contains(list, c)
    PROVE  With(Append(list, c), list, c)
<1> DEFINE r == Append(list, c)
<1>1. r \in Seq(Clients) /\ Len(r) = Len(list) + 1 /\ r[Len(list) + 1] = c
      /\ (\A i \in 1..Len(list) : r[i] = list[i]) /\ Len(list) \in Nat
  OBVIOUS
<1> HIDE DEF r
<1>2. \A i \in 1..Len(r) : i \in 1..Len(list) \/ i = Len(list) + 1
  BY <1>1
<1>3. \A i \in 1..Len(list) : list[i] # c
  BY DEF Contains
<1>4. Once(r)
  BY <1>1, <1>2, <1>3 DEF Once
<1>5. \A x : Contains(r, x) => x = c \/ Contains(list, x)
  BY <1>1, <1>2 DEF Contains
<1>6. Len(list) + 1 \in 1..Len(r) /\ 1..Len(list) \subseteq 1..Len(r)
  BY <1>1
<1>7. \A x : x = c \/ Contains(list, x) => Contains(r, x)
  BY <1>1, <1>6 DEF Contains
<1>8. With(r, list, c)
  BY <1>1, <1>4, <1>5, <1>7 DEF With
<1> QED
  BY <1>8 DEF r

LEMMA MadeFirst ==
    ASSUME NEW s, NEW list \in Seq(Clients), NEW c \in Clients, Once(list)
    PROVE  With(makeFirstInChain(s, c, list), list, c)
<1> DEFINE rest == removeAll(list, c)
           minimized == {i \in 1..Len(rest) : rest[i] \in s.minimized}
<1>1. rest \in Seq(Clients) /\ Once(rest)
      /\ \A x : Contains(rest, x) <=> x # c /\ Contains(list, x)
  BY RemoveAll
<1>2. \A r : With(r, rest, c) => With(r, list, c)
  BY <1>1 DEF With
<1>3. Len(rest) \in Nat
  BY <1>1
<1>4. CASE c \notin s.minimized
  <2>1. makeFirstInChain(s, c, list) = Append(rest, c)
    BY <1>4 DEF makeFirstInChain, putFirst
  <2> HIDE DEF rest
  <2> QED
    BY <1>1, <1>2, <2>1, Appended
<1>5. CASE c \in s.minimized /\ minimized = {}
  <2>1. makeFirstInChain(s, c, list) = <<c>> \o rest
    BY <1>5 DEF makeFirstInChain, putFirst
  <2> HIDE DEF rest
  <2>2. InsertAt(rest, 1, c) = <<c>> \o rest
    BY <1>1 DEF InsertAt
  <2>3. With(InsertAt(rest, 1, c), rest, c)
    BY <1>1, <1>3, Inserted
  <2> QED
    BY <1>2, <2>1, <2>2, <2>3
<1>6. CASE c \in s.minimized /\ minimized # {}
  <2>1. makeFirstInChain(s, c, list) = InsertAt(rest, Max(minimized) + 1, c)
    BY <1>6 DEF makeFirstInChain, putFirst
  <2>2. Max(minimized) \in minimized
    <3>1. minimized \in SUBSET (1..Len(rest)) /\ minimized # {}
      BY <1>6
    <3> HIDE DEF rest, minimized
    <3> QED
      BY <1>3, <3>1, MaxPosition
  <2> HIDE DEF rest
  <2>3. Max(minimized) + 1 \in 1..(Len(rest) + 1)
    BY <1>3, <2>2
  <2>4. With(InsertAt(rest, Max(minimized) + 1, c), rest, c)
    BY <1>1, <2>3, Inserted
  <2> QED
    BY <1>2, <2>1, <2>4
<1> QED
  BY <1>4, <1>5, <1>6

LEMMA InsertedInto ==
    ASSUME NEW s, NEW list \in Seq(Clients), NEW c \in Clients, Once(list)
    PROVE  With(insertClientIntoChain(s, c, list), list, c)
<1>1. CASE Contains(list, c)
  BY <1>1 DEF insertClientIntoChain, With
<1>2. CASE ~Contains(list, c)
  <2>1. CASE list # <<>> /\ Last(list) = s.active
    <3>1. Len(list) \in 1..(Len(list) + 1)
      BY <2>1
    <3> QED
      BY <1>2, <2>1, <3>1, Inserted DEF insertClientIntoChain
  <2>2. CASE ~(list # <<>> /\ Last(list) = s.active)
    BY <1>2, <2>2, Appended DEF insertClientIntoChain
  <2> QED
    BY <2>1, <2>2
<1> QED
  BY <1>1, <1>2

LEMMA UpdatedIn ==
    ASSUME NEW s, NEW list \in Seq(Clients), NEW c \in Clients, NEW change,
           Once(list)
    PROVE  With(updateClientInChain(s, c, change, list), list, c)
BY MadeFirst, InsertedInto DEF updateClientInChain

(* A client that is moved in a list is in it afterwards if the client it   *)
(* is moved to is.                                                         *)
LEMMA MovedAfter ==
    ASSUME NEW list \in Seq(Clients), NEW c \in Clients,
           NEW reference \in Clients, reference # c, Once(list)
    PROVE  LET r == moveAfterClientInChain(c, reference, list) IN
           \/ ~Contains(list, reference) /\ r = list
           \/ Contains(list, reference) /\ With(r, list, c)
<1> DEFINE rest == removeAll(list, c)
           same == {i \in 1..Len(rest) :
                       IF belongToSameApplication(reference, c)
                       THEN rest[i] = reference
                       ELSE belongToSameApplication(reference, rest[i])}
           r == moveAfterClientInChain(c, reference, list)
<1>1. rest \in Seq(Clients) /\ Once(rest)
      /\ \A x : Contains(rest, x) <=> x # c /\ Contains(list, x)
  BY RemoveAll
<1>2. \A q : With(q, rest, c) => With(q, list, c)
  BY <1>1 DEF With
<1>3. Len(rest) \in Nat
  BY <1>1
<1>4. CASE ~Contains(list, reference)
  BY <1>4 DEF moveAfterClientInChain, putAfter
<1>5. CASE Contains(list, reference)
  <2>1. r = InsertAt(rest, Max(same), c)
    BY <1>5 DEF moveAfterClientInChain, putAfter
  <2> HIDE DEF rest, r
  <2>2. PICK i \in 1..Len(rest) : rest[i] = reference
    BY <1>1, <1>5 DEF Contains
  <2>3. i \in same
    BY <2>2 DEF belongToSameApplication
  <2>4. Max(same) \in same
    <3>1. same \in SUBSET (1..Len(rest)) /\ same # {}
      BY <2>3
    <3> HIDE DEF same
    <3> QED
      BY <1>3, <3>1, MaxPosition
  <2>5. Max(same) \in 1..(Len(rest) + 1)
    BY <1>3, <2>4
  <2> HIDE DEF same
  <2>6. With(InsertAt(rest, Max(same), c), rest, c)
    BY <1>1, <2>5, Inserted
  <2> QED
    BY <1>2, <1>5, <2>1, <2>6 DEF r
<1> QED
  BY <1>4, <1>5

LEMMA MadeOf ==
    ASSUME NEW C, NEW n \in Nat, NEW q, DOMAIN q = 1..n, q = [d \in 1..n |-> q[d]],
           \A d \in 1..n : q[d] \in C
    PROVE  q \in Seq(C) /\ Len(q) = n /\ DOMAIN q = 1..Len(q)
<1>1. q \in [1..n -> C]
  OBVIOUS
<1> QED
  BY <1>1

-----------------------------------------------------------------------------
(* The parts of the state that the functions change or leave alone.        *)

SamePlace(s, t) ==
    /\ t.count = s.count /\ t.current = s.current /\ t.clients = s.clients
    /\ t.desk = s.desk /\ t.minimized = s.minimized /\ t.wants = s.wants

SameFocus(s, t) ==
    /\ t.active = s.active /\ t.last = s.last /\ t.expected = s.expected
    /\ t.delayed = s.delayed /\ t.fault = s.fault

SameLists(s, t) == t.chains = s.chains /\ t.mru = s.mru

SameActive(s, t) == t.map = s.map /\ t.active = s.active /\ t.last = s.last

(* No list and no pointer holds a client outside K, and no list holds one  *)
(* twice.                                                                  *)
ListsKnown(s, K) ==
    /\ \A d \in 1..Len(s.chains) :
          Once(s.chains[d]) /\ \A x : Contains(s.chains[d], x) => x \in K
    /\ Once(s.mru) /\ \A x : Contains(s.mru, x) => x \in K

FocusKnown(s, K) ==
    /\ \A x : Contains(s.expected, x) => x \in K
    /\ s.active \in K \cup {NoClient} /\ s.last \in K \cup {NoClient}
    /\ s.delayed \in K \cup {NoClient}
    /\ ~s.fault

Known(s, K) == s \in Type /\ K \subseteq Clients /\ ListsKnown(s, K) /\ FocusKnown(s, K)

(* A client of K is in the lists it belongs to.                            *)
ListedAs(s, c) ==
    /\ Contains(s.mru, c) <=> c \in s.wants
    /\ s.desk[c] # OnAllDesktops =>
          \A d \in 1..Len(s.chains) :
              Contains(s.chains[d], c) <=> c \in s.wants /\ d = s.desk[c]

Listed(s, K) == \A c \in K : ListedAs(s, c)

(* A window is mapped if and only if it can be seen.                       *)
Shown(s, K) ==
    \A c \in K : s.map[c] = "Mapped"
                    <=> c \notin s.minimized /\ isOnCurrentDesktop(s, c)

ActiveShown(s) == s.active # NoClient => s.map[s.active] = "Mapped"

LEMMA ListTypes ==
    ASSUME NEW s \in Type
    PROVE  /\ s.chains \in Seq(Seq(Clients)) /\ s.mru \in Seq(Clients)
           /\ Len(s.chains) \in Nat /\ DOMAIN s.chains = 1..Len(s.chains)
           /\ \A d \in 1..Len(s.chains) : s.chains[d] \in Seq(Clients)
           /\ s.expected \in Seq(Clients)
BY DEF Type

(* What FocusChain::update() leaves behind, list by list.                  *)
LEMMA Updated ==
    ASSUME NEW s, NEW K, NEW c \in K, NEW change, NEW t,
           s \in Type, K \subseteq Clients, ListsKnown(s, K),
           t = update(s, c, change)
    PROVE  /\ t \in Type /\ Len(t.chains) = Len(s.chains) /\ ListsKnown(t, K)
           /\ SamePlace(s, t) /\ SameFocus(s, t) /\ t.map = s.map
           /\ Listed(s, K \ {c}) => Listed(t, K)
<1> DEFINE D == 1..Len(s.chains)
<1>1. s.mru \in Seq(Clients) /\ Len(s.chains) \in Nat /\ DOMAIN s.chains = D
      /\ \A d \in D : s.chains[d] \in Seq(Clients)
  BY ListTypes
<1>2. c \in Clients /\ Once(s.mru) /\ \A d \in D : Once(s.chains[d])
  BY DEF ListsKnown
<1>3. CASE c \notin s.wants
  <2> DEFINE ch == [d \in D |-> removeAll(s.chains[d], c)]
             m == removeAll(s.mru, c)
  <2>1. m \in Seq(Clients) /\ Once(m)
        /\ \A x : Contains(m, x) <=> x # c /\ Contains(s.mru, x)
    BY <1>1, <1>2, RemoveAll
  <2>2. \A d \in D : /\ ch[d] \in Seq(Clients) /\ Once(ch[d])
                     /\ \A x : Contains(ch[d], x) <=> x # c /\ Contains(s.chains[d], x)
    BY <1>1, <1>2, RemoveAll
  <2>3. t = [s EXCEPT !.chains = ch, !.mru = m]
    BY <1>1, <1>3 DEF update, remove
  <2>4. DOMAIN ch = D /\ ch = [d \in D |-> ch[d]]
    OBVIOUS
  <2> HIDE DEF ch, m
  <2>5. ch \in Seq(Seq(Clients)) /\ Len(ch) = Len(s.chains)
    BY <1>1, <2>2, <2>4, MadeOf
  <2>6. /\ t \in Type /\ t.chains = ch /\ t.mru = m
        /\ SamePlace(s, t) /\ SameFocus(s, t) /\ t.map = s.map
    <3>1. m \in Seq(Clients)
      BY <2>1
    <3> QED
      BY <2>3, <2>5, <3>1 DEF Type, SamePlace, SameFocus
  <2>7. ListsKnown(t, K)
    BY <2>1, <2>2, <2>5, <2>6 DEF ListsKnown
  <2>8. ASSUME Listed(s, K \ {c}) PROVE Listed(t, K)
    <3> SUFFICES ASSUME NEW x \in K PROVE ListedAs(t, x)
      BY DEF Listed
    <3>1. t.desk = s.desk /\ t.wants = s.wants
      BY <2>6 DEF SamePlace
    <3>2. CASE x = c
      BY <1>3, <2>1, <2>2, <2>5, <2>6, <3>1, <3>2 DEF ListedAs
    <3>3. CASE x # c
      <4>1. ListedAs(s, x)
        BY <2>8, <3>3 DEF Listed
      <4> QED
        BY <2>1, <2>2, <2>5, <2>6, <3>1, <3>3, <4>1 DEF ListedAs
    <3> QED
      BY <3>2, <3>3
  <2> QED
    BY <2>5, <2>6, <2>7, <2>8
<1>4. CASE c \in s.wants
  <2> DEFINE ch == chainsWith(s, c, change)
             m == updateClientInChain(s, c, change, s.mru)
  <2>1. With(m, s.mru, c)
    BY <1>1, <1>2, UpdatedIn
  <2>2. ASSUME NEW d \in D
        PROVE  /\ ch[d] \in Seq(Clients) /\ Once(ch[d])
               /\ \A x : x # c => (Contains(ch[d], x) <=> Contains(s.chains[d], x))
               /\ s.desk[c] # OnAllDesktops =>
                     (Contains(ch[d], c) <=> d = s.desk[c])
    <3>1. s.chains[d] \in Seq(Clients) /\ Once(s.chains[d])
      BY <1>1, <1>2
    <3>2. CASE s.desk[c] \in {d, OnAllDesktops}
      <4>1. With(ch[d], s.chains[d], c)
        BY <1>1, <1>2, <3>1, <3>2, UpdatedIn, InsertedInto DEF chainsWith
      <4>2. d # OnAllDesktops
        BY <1>1 DEF OnAllDesktops
      <4> QED
        BY <3>2, <4>1, <4>2 DEF With
    <3>3. CASE s.desk[c] \notin {d, OnAllDesktops}
      <4>1. ch[d] = removeAll(s.chains[d], c)
        BY <1>1, <3>3 DEF chainsWith
      <4> QED
        BY <3>1, <3>3, <4>1, RemoveAll
    <3> QED
      BY <3>2, <3>3
  <2>3. t = [s EXCEPT !.chains = ch, !.mru = m]
    BY <1>4 DEF update
  <2>4. DOMAIN ch = D /\ ch = [d \in D |-> ch[d]]
    BY <1>1 DEF chainsWith
  <2> HIDE DEF ch, m
  <2>5. ch \in Seq(Seq(Clients)) /\ Len(ch) = Len(s.chains)
    BY <1>1, <2>2, <2>4, MadeOf
  <2>6. /\ t \in Type /\ t.chains = ch /\ t.mru = m
        /\ SamePlace(s, t) /\ SameFocus(s, t) /\ t.map = s.map
    <3>1. m \in Seq(Clients)
      BY <2>1 DEF With
    <3> QED
      BY <2>3, <2>5, <3>1 DEF Type, SamePlace, SameFocus
  <2>7. ListsKnown(t, K)
    BY <2>1, <2>2, <2>5, <2>6 DEF ListsKnown, With
  <2>8. ASSUME Listed(s, K \ {c}) PROVE Listed(t, K)
    <3> SUFFICES ASSUME NEW x \in K PROVE ListedAs(t, x)
      BY DEF Listed
    <3>1. t.desk = s.desk /\ t.wants = s.wants
      BY <2>6 DEF SamePlace
    <3>2. CASE x = c
      BY <1>4, <2>1, <2>2, <2>5, <2>6, <3>1, <3>2 DEF ListedAs, With
    <3>3. CASE x # c
      <4>1. ListedAs(s, x)
        BY <2>8, <3>3 DEF Listed
      <4> QED
        BY <2>1, <2>2, <2>5, <2>6, <3>1, <3>3, <4>1 DEF ListedAs, With
    <3> QED
      BY <3>2, <3>3
  <2> QED
    BY <2>5, <2>6, <2>7, <2>8
<1> QED
  BY <1>3, <1>4

(* FocusChain::remove().                                                   *)
LEMMA Removed ==
    ASSUME NEW s, NEW K, NEW c, NEW t,
           s \in Type, K \subseteq Clients, ListsKnown(s, K), t = remove(s, c)
    PROVE  /\ t \in Type /\ Len(t.chains) = Len(s.chains)
           /\ ListsKnown(t, K \ {c})
           /\ SamePlace(s, t) /\ SameFocus(s, t) /\ t.map = s.map
           /\ Listed(s, K) => Listed(t, K \ {c})
<1> DEFINE D == 1..Len(s.chains)
           ch == [d \in D |-> removeAll(s.chains[d], c)]
           m == removeAll(s.mru, c)
<1>1. s.mru \in Seq(Clients) /\ Len(s.chains) \in Nat /\ DOMAIN s.chains = D
      /\ \A d \in D : s.chains[d] \in Seq(Clients)
  BY ListTypes
<1>2. Once(s.mru) /\ \A d \in D : Once(s.chains[d])
  BY DEF ListsKnown
<1>3. m \in Seq(Clients) /\ Once(m)
      /\ \A x : Contains(m, x) <=> x # c /\ Contains(s.mru, x)
  BY <1>1, <1>2, RemoveAll
<1>4. \A d \in D : /\ ch[d] \in Seq(Clients) /\ Once(ch[d])
                   /\ \A x : Contains(ch[d], x) <=> x # c /\ Contains(s.chains[d], x)
  BY <1>1, <1>2, RemoveAll
<1>5. t = [s EXCEPT !.chains = ch, !.mru = m]
  BY <1>1 DEF remove
<1>6. DOMAIN ch = D /\ ch = [d \in D |-> ch[d]]
  OBVIOUS
<1> HIDE DEF ch, m
<1>7. ch \in Seq(Seq(Clients)) /\ Len(ch) = Len(s.chains)
  BY <1>1, <1>4, <1>6, MadeOf
<1>8. /\ t \in Type /\ t.chains = ch /\ t.mru = m
      /\ SamePlace(s, t) /\ SameFocus(s, t) /\ t.map = s.map
  <2>1. m \in Seq(Clients)
    BY <1>3
  <2> QED
    BY <1>5, <1>7, <2>1 DEF Type, SamePlace, SameFocus
<1>9. ListsKnown(t, K \ {c})
  BY <1>3, <1>4, <1>7, <1>8 DEF ListsKnown
<1>10. ASSUME Listed(s, K) PROVE Listed(t, K \ {c})
  <2> SUFFICES ASSUME NEW x \in K, x # c PROVE ListedAs(t, x)
    BY DEF Listed
  <2>1. t.desk = s.desk /\ t.wants = s.wants
    BY <1>8 DEF SamePlace
  <2>2. ListedAs(s, x)
    BY <1>10 DEF Listed
  <2> QED
    BY <1>3, <1>4, <1>7, <1>8, <2>1, <2>2 DEF ListedAs
<1> QED
  BY <1>7, <1>8, <1>9, <1>10

(* FocusChain::moveAfterClient() moves a client where it is listed.        *)
LEMMA Moved ==
    ASSUME NEW s, NEW K, NEW c \in K, NEW reference \in K, reference # c, NEW t,
           s \in Type, K \subseteq Clients, ListsKnown(s, K), Listed(s, K),
           t = moveAfterClient(s, c, reference)
    PROVE  /\ t \in Type /\ Len(t.chains) = Len(s.chains) /\ ListsKnown(t, K)
           /\ SamePlace(s, t) /\ SameFocus(s, t) /\ t.map = s.map
           /\ Listed(t, K)
<1>1. CASE c \notin s.wants
  <2>1. t = s
    BY <1>1 DEF moveAfterClient
  <2> QED
    BY <2>1 DEF SamePlace, SameFocus
<1>2. CASE c \in s.wants
  <2> DEFINE D == 1..Len(s.chains)
             ch == [d \in D |-> IF isOnDesktop(s, c, d)
                                THEN moveAfterClientInChain(c, reference, s.chains[d])
                                ELSE s.chains[d]]
             m == moveAfterClientInChain(c, reference, s.mru)
  <2>1. s.mru \in Seq(Clients) /\ Len(s.chains) \in Nat /\ DOMAIN s.chains = D
        /\ \A d \in D : s.chains[d] \in Seq(Clients)
    BY ListTypes
  <2>2. Once(s.mru) /\ (\A d \in D : Once(s.chains[d]))
        /\ c \in Clients /\ reference \in Clients
    BY DEF ListsKnown
  <2>3. m = s.mru \/ With(m, s.mru, c)
    BY <2>1, <2>2, MovedAfter
  <2>4. \A d \in D : \/ ch[d] = s.chains[d]
                     \/ isOnDesktop(s, c, d) /\ With(ch[d], s.chains[d], c)
    <3> SUFFICES ASSUME NEW d \in D, isOnDesktop(s, c, d)
                 PROVE  ch[d] = s.chains[d] \/ With(ch[d], s.chains[d], c)
      OBVIOUS
    <3>1. ch[d] = moveAfterClientInChain(c, reference, s.chains[d])
      OBVIOUS
    <3> QED
      BY <2>1, <2>2, <3>1, MovedAfter
  <2>5. t = [s EXCEPT !.chains = ch, !.mru = m]
    BY <1>2, <2>1 DEF moveAfterClient
  <2>6. DOMAIN ch = D /\ ch = [d \in D |-> ch[d]]
    OBVIOUS
  <2> HIDE DEF ch, m
  <2>7. \A d \in D : ch[d] \in Seq(Clients) /\ Once(ch[d])
    BY <2>1, <2>2, <2>4 DEF With
  <2>8. m \in Seq(Clients) /\ Once(m)
    BY <2>1, <2>2, <2>3 DEF With
  <2>9. ch \in Seq(Seq(Clients)) /\ Len(ch) = Len(s.chains)
    BY <2>1, <2>6, <2>7, MadeOf
  <2>10. /\ t \in Type /\ t.chains = ch /\ t.mru = m
         /\ SamePlace(s, t) /\ SameFocus(s, t) /\ t.map = s.map
    <3>1. m \in Seq(Clients)
      BY <2>8
    <3> QED
      BY <2>5, <2>9, <3>1 DEF Type, SamePlace, SameFocus
  <2>11. ListsKnown(t, K)
    <3>1. \A x : Contains(m, x) => x \in K
      BY <2>3 DEF With, ListsKnown
    <3>2. \A d \in D : \A x : Contains(ch[d], x) => x \in K
      BY <2>4 DEF With, ListsKnown
    <3> QED
      BY <2>7, <2>8, <2>9, <2>10, <3>1, <3>2 DEF ListsKnown
  <2>12. Listed(t, K)
    <3> SUFFICES ASSUME NEW x \in K PROVE ListedAs(t, x)
      BY DEF Listed
    <3>1. t.desk = s.desk /\ t.wants = s.wants
      BY <2>10 DEF SamePlace
    <3>2. ListedAs(s, x) /\ ListedAs(s, c)
      BY DEF Listed
    <3>3. Contains(m, x) <=> Contains(s.mru, x)
      BY <1>2, <2>3, <3>2 DEF ListedAs, With
    <3>4. ASSUME s.desk[x] # OnAllDesktops, NEW d \in D
          PROVE  Contains(ch[d], x) <=> Contains(s.chains[d], x)
      <4>1. CASE ch[d] = s.chains[d]
        BY <4>1
      <4>2. CASE isOnDesktop(s, c, d) /\ With(ch[d], s.chains[d], c)
        <5>1. x = c => Contains(s.chains[d], x)
          BY <1>2, <3>2, <3>4, <4>2 DEF ListedAs, isOnDesktop
        <5> QED
          BY <4>2, <5>1 DEF With
      <4> QED
        BY <2>4, <4>1, <4>2
    <3> QED
      BY <2>9, <2>10, <3>1, <3>2, <3>3, <3>4 DEF ListedAs
  <2> QED
    BY <2>9, <2>10, <2>11, <2>12
<1> QED
  BY <1>1, <1>2

(* The next client comes from a list of the focus chain.                   *)
LEMMA MostRecent ==
    ASSUME NEW s, NEW K, NEW desktop, NEW candidates, s \in Type, ListsKnown(s, K)
    PROVE  mostRecent(s, desktop, candidates) \in (K \cap candidates) \cup {NoClient}
<1> DEFINE chain == IF desktop \in DOMAIN s.chains THEN s.chains[desktop] ELSE <<>>
           passing == {i \in 1..Len(chain) : chain[i] \in candidates}
<1>1. mostRecent(s, desktop, candidates) =
         IF passing = {} THEN NoClient ELSE chain[Max(passing)]
  BY DEF mostRecent
<1>2. chain \in Seq(Clients) /\ \A x : Contains(chain, x) => x \in K
  <2>1. CASE desktop \in DOMAIN s.chains
    BY <2>1, ListTypes DEF ListsKnown
  <2>2. CASE desktop \notin DOMAIN s.chains
    <3>1. chain = <<>>
      BY <2>2
    <3> HIDE DEF chain
    <3>2. chain \in Seq(Clients) /\ 1..Len(chain) = {}
      BY <3>1
    <3> QED
      BY <3>2 DEF Contains
  <2> QED
    BY <2>1, <2>2
<1> HIDE DEF chain
<1>3. CASE passing # {}
  <2>1. Len(chain) \in Nat /\ passing \in SUBSET (1..Len(chain))
    BY <1>2
  <2>2. \A i \in passing : i \in 1..Len(chain) /\ chain[i] \in candidates
    OBVIOUS
  <2> HIDE DEF passing
  <2>3. Max(passing) \in passing
    BY <1>3, <2>1, MaxPosition
  <2>4. chain[Max(passing)] \in K \cap candidates
    BY <1>2, <2>2, <2>3 DEF Contains
  <2> QED
    BY <1>1, <1>3, <2>4
<1>4. CASE passing = {}
  BY <1>1, <1>4
<1> QED
  BY <1>3, <1>4

-----------------------------------------------------------------------------
(* Workspace's functions.                                                  *)

(* What is said of the lists and the windows does not depend on the rest.  *)
LEMMA SameListed ==
    ASSUME NEW s, NEW t, NEW K, SamePlace(s, t), SameLists(s, t), Listed(s, K)
    PROVE  Listed(t, K)
BY DEF SamePlace, SameLists, Listed, ListedAs

LEMMA SameShown ==
    ASSUME NEW s, NEW t, NEW K, SamePlace(s, t), t.map = s.map, Shown(s, K)
    PROVE  Shown(t, K)
BY DEF SamePlace, Shown, isOnCurrentDesktop, isOnDesktop

LEMMA SameListsKnown ==
    ASSUME NEW s, NEW t, NEW K, SameLists(s, t), ListsKnown(s, K)
    PROVE  ListsKnown(t, K)
BY DEF SameLists, ListsKnown

LEMMA SameFocusKnown ==
    ASSUME NEW s, NEW t, NEW K, SameFocus(s, t), FocusKnown(s, K)
    PROVE  FocusKnown(t, K)
BY DEF SameFocus, FocusKnown

LEMMA Deactivated ==
    ASSUME NEW s, NEW K, NEW t, Known(s, K), t = setActiveClient(s, NoClient)
    PROVE  /\ Known(t, K) /\ SamePlace(s, t) /\ SameLists(s, t)
           /\ t.map = s.map /\ t.active = NoClient
           /\ t.expected = s.expected /\ t.last = s.last /\ t.delayed = s.delayed
<1>1. s \in Type /\ t = [s EXCEPT !.active = NoClient]
  BY DEF Known, setActiveClient
<1>2. /\ t \in Type /\ SamePlace(s, t) /\ SameLists(s, t) /\ t.map = s.map
      /\ t.active = NoClient /\ t.expected = s.expected /\ t.last = s.last
      /\ t.delayed = s.delayed /\ t.fault = s.fault
  BY <1>1 DEF Type, SamePlace, SameLists
<1>3. FocusKnown(t, K)
  BY <1>2 DEF Known, FocusKnown
<1> QED
  BY <1>2, <1>3, SameListsKnown DEF Known

(* A client becomes active: it is first in its lists.                      *)
LEMMA Activated ==
    ASSUME NEW s, NEW K, NEW c \in K, NEW t, Known(s, K), Listed(s, K),
           t = setActiveClient(s, c)
    PROVE  /\ Known(t, K) /\ SamePlace(s, t) /\ Listed(t, K)
           /\ t.map = s.map /\ t.active = c /\ Len(t.chains) = Len(s.chains)
<1>1. s \in Type /\ c \in Clients /\ c # NoClient
  BY ClientsAssumption DEF Known
<1>2. CASE c = s.active
  <2>1. t = s
    BY <1>1, <1>2 DEF setActiveClient, Type
  <2> QED
    BY <1>2, <2>1 DEF SamePlace
<1>3. CASE c # s.active
  <2> DEFINE none == [s EXCEPT !.active = NoClient]
             u == update(none, c, "MakeFirst")
  <2>1. t = [u EXCEPT !.active = c, !.last = c]
    BY <1>1, <1>3 DEF setActiveClient
  <2>2. /\ none \in Type /\ SamePlace(s, none) /\ SameLists(s, none)
        /\ none.map = s.map /\ none.expected = s.expected
        /\ none.delayed = s.delayed /\ none.fault = s.fault
    BY <1>1 DEF Type, SamePlace, SameLists
  <2> HIDE DEF none
  <2>3. ListsKnown(none, K) /\ Listed(none, K \ {c})
    BY <2>2, SameListsKnown, SameListed DEF Known, Listed
  <2>4. /\ u \in Type /\ Len(u.chains) = Len(none.chains) /\ ListsKnown(u, K)
        /\ SamePlace(none, u) /\ SameFocus(none, u) /\ u.map = none.map
        /\ Listed(u, K)
    BY <2>2, <2>3, Updated DEF Known
  <2> HIDE DEF u
  <2>5. /\ t \in Type /\ SamePlace(u, t) /\ SameLists(u, t) /\ t.map = u.map
        /\ t.active = c /\ t.last = c /\ t.expected = u.expected
        /\ t.delayed = u.delayed /\ t.fault = u.fault
    BY <1>1, <2>1, <2>4 DEF Type, SamePlace, SameLists
  <2>6. FocusKnown(t, K)
    BY <2>2, <2>4, <2>5 DEF Known, FocusKnown, SameFocus
  <2>7. ListsKnown(t, K) /\ Listed(t, K)
    BY <2>4, <2>5, SameListsKnown, SameListed
  <2> QED
    BY <2>2, <2>4, <2>5, <2>6, <2>7 DEF Known, SamePlace, SameLists
<1> QED
  BY <1>2, <1>3

LEMMA Requested ==
    ASSUME NEW s, NEW K, NEW c \in K \cup {NoClient}, NEW blocked, NEW t,
           Known(s, K), t = requestFocus(s, c, blocked)
    PROVE  /\ Known(t, K) /\ SamePlace(s, t) /\ SameLists(s, t)
           /\ SameActive(s, t)
<1>1. CASE c = NoClient \/ (blocked /\ c # s.active)
  <2>1. t = s
    BY <1>1 DEF requestFocus
  <2> QED
    BY <2>1 DEF SamePlace, SameLists, SameActive
<1>2. CASE ~(c = NoClient \/ (blocked /\ c # s.active))
  <2> DEFINE e == IF c \in s.minimized THEN s.expected ELSE Append(s.expected, c)
  <2>1. s \in Type /\ c \in Clients /\ c \in K
    BY <1>2 DEF Known
  <2>2. t = [s EXCEPT !.delayed = NoClient, !.expected = e]
    BY <1>2, <2>1 DEF requestFocus
  <2>3. s.expected \in Seq(Clients)
    BY <2>1, ListTypes
  <2>4. e \in Seq(Clients) /\ \A x : Contains(e, x) => x = c \/ Contains(s.expected, x)
    <3>1. CASE c \in s.minimized
      BY <2>3, <3>1
    <3>2. CASE c \notin s.minimized
      <4>1. e = Append(s.expected, c)
        BY <3>2
      <4> HIDE DEF e
      <4>2. e \in Seq(Clients) /\ Len(e) = Len(s.expected) + 1
            /\ e[Len(s.expected) + 1] = c /\ Len(s.expected) \in Nat
            /\ \A i \in 1..Len(s.expected) : e[i] = s.expected[i]
        BY <2>1, <2>3, <4>1
      <4>3. \A i \in 1..Len(e) : i \in 1..Len(s.expected) \/ i = Len(s.expected) + 1
        BY <4>2
      <4> QED
        BY <4>2, <4>3 DEF Contains
    <3> QED
      BY <3>1, <3>2
  <2> HIDE DEF e
  <2>5. /\ t \in Type /\ SamePlace(s, t) /\ SameLists(s, t) /\ t.map = s.map
        /\ t.active = s.active /\ t.last = s.last /\ t.fault = s.fault
        /\ t.delayed = NoClient /\ t.expected = e
    <3>1. e \in Seq(Clients)
      BY <2>4
    <3> QED
      BY <2>1, <2>2, <3>1 DEF Type, SamePlace, SameLists
  <2>6. FocusKnown(t, K)
    BY <2>1, <2>4, <2>5 DEF Known, FocusKnown
  <2> QED
    BY <2>5, <2>6, SameListsKnown DEF Known, SameActive
<1> QED
  BY <1>1, <1>2

(* activateNextClient() changes the focus only, and c is not active        *)
(* afterwards.                                                             *)
LEMMA NextActivated ==
    ASSUME NEW s, NEW K, NEW c \in K, NEW blocked, NEW t, Known(s, K),
           t = activateNextClient(s, c, blocked)
    PROVE  /\ Known(t, K) /\ SamePlace(s, t) /\ SameLists(s, t)
           /\ t.map = s.map /\ t.last = s.last
           /\ t.active = IF s.active = c THEN NoClient ELSE s.active
<1> DEFINE was  == IF c = s.active THEN setActiveClient(s, NoClient) ELSE s
           free == [was EXCEPT !.expected = removeAll(@, c)]
<1>1. /\ Known(was, K) /\ SamePlace(s, was) /\ SameLists(s, was)
      /\ was.map = s.map /\ was.last = s.last
      /\ was.active = IF s.active = c THEN NoClient ELSE s.active
  BY Deactivated DEF SamePlace, SameLists
<1>2. \/ t = s /\ c # s.active
      \/ t = free
      \/ t = requestFocus(free, nextForDesktop(free, c, free.current), FALSE)
  BY DEF activateNextClient, passFocusOn
<1> HIDE DEF was
<1>3. /\ Known(free, K) /\ SamePlace(was, free) /\ SameLists(was, free)
      /\ free.map = was.map /\ free.last = was.last /\ free.active = was.active
  <2> DEFINE e == removeAll(was.expected, c)
  <2>1. was \in Type /\ was.expected \in Seq(Clients)
    BY <1>1, ListTypes DEF Known
  <2>2. e \in Seq(Clients) /\ \A x : Contains(e, x) => Contains(was.expected, x)
    BY <2>1, RemoveAll
  <2>3. free = [was EXCEPT !.expected = e]
    OBVIOUS
  <2> HIDE DEF free, e
  <2>4. /\ free \in Type /\ SamePlace(was, free) /\ SameLists(was, free)
        /\ free.map = was.map /\ free.last = was.last /\ free.active = was.active
        /\ free.delayed = was.delayed /\ free.fault = was.fault
        /\ free.expected = e
    <3>1. e \in Seq(Clients)
      BY <2>2
    <3> QED
      BY <2>1, <2>3, <3>1 DEF Type, SamePlace, SameLists
  <2>5. FocusKnown(free, K)
    BY <1>1, <2>2, <2>4 DEF Known, FocusKnown
  <2> QED
    BY <1>1, <2>4, <2>5, SameListsKnown DEF Known
<1> HIDE DEF free
<1>4. nextForDesktop(free, c, free.current) \in K \cup {NoClient}
  BY <1>3, MostRecent DEF nextForDesktop, Known
<1>5. CASE t = s /\ c # s.active
  BY <1>5 DEF SamePlace, SameLists
<1>6. CASE t = free
  BY <1>1, <1>3, <1>6 DEF SamePlace, SameLists
<1>7. CASE t = requestFocus(free, nextForDesktop(free, c, free.current), FALSE)
  <2> DEFINE next == nextForDesktop(free, c, free.current)
             no == FALSE
  <2>2. t = requestFocus(free, next, no)
    BY <1>7
  <2>3. next \in K \cup {NoClient}
    BY <1>4
  <2> HIDE DEF next, no
  <2>1. /\ Known(t, K) /\ SamePlace(free, t) /\ SameLists(free, t)
        /\ SameActive(free, t)
    BY <1>3, <2>2, <2>3, Requested
  <2> QED
    BY <1>1, <1>3, <2>1 DEF SamePlace, SameLists, SameActive
<1> QED
  BY <1>2, <1>5, <1>6, <1>7

(* updateVisibility() maps the window if it can be seen, and takes the     *)
(* focus away from it if not.                                              *)
LEMMA Refreshed ==
    ASSUME NEW s, NEW K, NEW c \in K, NEW blocked, NEW t, Known(s, K),
           t = updateVisibility(s, c, blocked)
    PROVE  /\ Known(t, K) /\ SamePlace(s, t) /\ SameLists(s, t)
           /\ \A x \in Clients : t.map[x] = IF x = c THEN shownAs(s, c) ELSE s.map[x]
           /\ t.last = s.last /\ t.active \in {s.active, NoClient}
           /\ ActiveShown(s) => ActiveShown(t)
<1> DEFINE state == shownAs(s, c)
           set == [s EXCEPT !.map[c] = state]
<1>1. s \in Type /\ c \in Clients /\ state \in {"Mapped", "Kept", "Unmapped"}
  BY DEF Known, shownAs
<1>2. t = IF s.map[c] = state \/ state = "Mapped" THEN set
          ELSE activateNextClient(set, c, blocked)
  BY DEF updateVisibility
<1> HIDE DEF state
<1>3. /\ set \in Type /\ SamePlace(s, set) /\ SameLists(s, set)
      /\ SameFocus(s, set) /\ set.map = [s.map EXCEPT ![c] = state]
  BY <1>1 DEF Type, SamePlace, SameLists, SameFocus
<1> HIDE DEF set
<1>4. Known(set, K)
  BY <1>3, SameListsKnown, SameFocusKnown DEF Known
<1>5. s.map \in [Clients -> {"Mapped", "Kept", "Unmapped"}]
  BY <1>1 DEF Type
<1>8. \A x \in Clients : set.map[x] = IF x = c THEN state ELSE s.map[x]
  BY <1>1, <1>3, <1>5
<1>6. CASE s.map[c] = state \/ state = "Mapped"
  <2>1. t = set
    BY <1>2, <1>6
  <2>2. ASSUME ActiveShown(s) PROVE ActiveShown(t)
    <3> SUFFICES ASSUME t.active # NoClient PROVE t.map[t.active] = "Mapped"
      BY DEF ActiveShown
    <3>1. t.active = s.active /\ s.map[s.active] = "Mapped"
      BY <1>3, <2>1, <2>2 DEF ActiveShown, SameFocus
    <3>2. s.active \in Clients
      BY <3>1 DEF Known, FocusKnown
    <3> QED
      BY <1>3, <1>5, <1>6, <2>1, <3>1, <3>2
  <2> QED
    BY <1>3, <1>4, <1>8, <2>1, <2>2 DEF state, SameFocus
<1>7. CASE ~(s.map[c] = state \/ state = "Mapped")
  <2>1. t = activateNextClient(set, c, blocked)
    BY <1>2, <1>7
  <2>2. /\ Known(t, K) /\ SamePlace(set, t) /\ SameLists(set, t)
        /\ t.map = set.map /\ t.last = set.last
        /\ t.active = IF set.active = c THEN NoClient ELSE set.active
    BY <1>4, <2>1, NextActivated
  <2>3. ASSUME ActiveShown(s) PROVE ActiveShown(t)
    <3> SUFFICES ASSUME t.active # NoClient PROVE t.map[t.active] = "Mapped"
      BY DEF ActiveShown
    <3>1. t.active = s.active /\ s.active # c /\ s.map[s.active] = "Mapped"
      BY <1>3, <2>2, <2>3 DEF ActiveShown, SameFocus
    <3>2. s.active \in Clients
      BY <3>1 DEF Known, FocusKnown
    <3> QED
      BY <1>3, <1>5, <2>2, <3>1, <3>2
  <2> QED
    BY <1>3, <1>8, <2>2, <2>3 DEF state, SamePlace, SameLists, SameFocus
<1> QED
  BY <1>6, <1>7

(* All that is said of the state between two calls, for the clients of K.  *)
Good(s, K) == Known(s, K) /\ Listed(s, K) /\ Shown(s, K) /\ ActiveShown(s)

(* The window of c is brought up to date after a change.                   *)
LEMMA ShownAgain ==
    ASSUME NEW s, NEW K, NEW c \in K, NEW blocked, NEW t, Known(s, K),
           Shown(s, K \ {c}), ActiveShown(s), t = updateVisibility(s, c, blocked)
    PROVE  /\ Known(t, K) /\ SamePlace(s, t) /\ SameLists(s, t)
           /\ Shown(t, K) /\ ActiveShown(t)
<1>1. /\ Known(t, K) /\ SamePlace(s, t) /\ SameLists(s, t) /\ ActiveShown(t)
      /\ \A x \in Clients : t.map[x] = IF x = c THEN shownAs(s, c) ELSE s.map[x]
  BY Refreshed
<1>2. K \subseteq Clients
  BY DEF Known, Type
<1>3. shownAs(s, c) = "Mapped" <=> c \notin s.minimized /\ isOnCurrentDesktop(s, c)
  BY DEF shownAs
<1>4. Shown(t, K)
  <2> SUFFICES ASSUME NEW x \in K
               PROVE  t.map[x] = "Mapped"
                         <=> x \notin t.minimized /\ isOnCurrentDesktop(t, x)
    BY DEF Shown
  <2>1. x \notin t.minimized /\ isOnCurrentDesktop(t, x)
           <=> x \notin s.minimized /\ isOnCurrentDesktop(s, x)
    BY <1>1 DEF SamePlace, isOnCurrentDesktop, isOnDesktop
  <2>2. CASE x = c
    BY <1>1, <1>2, <1>3, <2>1, <2>2
  <2>3. CASE x # c
    <3>1. t.map[x] = s.map[x]
      BY <1>1, <1>2, <2>3
    <3> QED
      BY <2>1, <2>3, <3>1 DEF Shown
  <2> QED
    BY <2>2, <2>3
<1> QED
  BY <1>1, <1>4

(* The window of c and its place in the lists are brought up to date.      *)
LEMMA Settled ==
    ASSUME NEW s, NEW K, NEW c \in K, NEW blocked, NEW change, NEW t,
           Known(s, K), Listed(s, K \ {c}), Shown(s, K \ {c}), ActiveShown(s),
           t = update(updateVisibility(s, c, blocked), c, change)
    PROVE  Good(t, K) /\ SamePlace(s, t) /\ Len(t.chains) = Len(s.chains)
<1> DEFINE u == updateVisibility(s, c, blocked)
<1>1. t = update(u, c, change)
  OBVIOUS
<1>2. /\ Known(u, K) /\ SamePlace(s, u) /\ SameLists(s, u)
      /\ Shown(u, K) /\ ActiveShown(u)
  BY ShownAgain
<1> HIDE DEF u
<1>3. Listed(u, K \ {c})
  BY <1>2, SameListed
<1>4. /\ t \in Type /\ Len(t.chains) = Len(u.chains) /\ ListsKnown(t, K)
      /\ SamePlace(u, t) /\ SameFocus(u, t) /\ t.map = u.map /\ Listed(t, K)
  BY <1>1, <1>2, <1>3, Updated DEF Known
<1>5. Known(t, K)
  BY <1>2, <1>4, SameFocusKnown DEF Known
<1>6. Shown(t, K)
  BY <1>2, <1>4, SameShown
<1>7. ActiveShown(t)
  BY <1>2, <1>4 DEF ActiveShown, SameFocus
<1> QED
  BY <1>2, <1>4, <1>5, <1>6, <1>7 DEF Good, SamePlace, SameLists

LEMMA SentTo ==
    ASSUME NEW s, NEW K, NEW c \in K, NEW d \in Desktops \cup {OnAllDesktops},
           NEW t, Good(s, K), t = setDesktop(s, c, d)
    PROVE  /\ Good(t, K) /\ Len(t.chains) = Len(s.chains)
           /\ t.count = s.count /\ t.current = s.current /\ t.clients = s.clients
           /\ t.desk = [s.desk EXCEPT ![c] = d]
           /\ t.minimized = s.minimized /\ t.wants = s.wants
<1>1. s \in Type /\ c \in Clients /\ s.desk \in [Clients -> Desktops \cup {OnAllDesktops}]
  BY DEF Good, Known, Type
<1>2. CASE s.desk[c] = d
  <2>1. t = s
    BY <1>2 DEF setDesktop
  <2>2. s.desk = [s.desk EXCEPT ![c] = d]
    BY <1>1, <1>2
  <2> QED
    BY <2>1, <2>2
<1>3. CASE s.desk[c] # d
  <2> DEFINE u == [s EXCEPT !.desk[c] = d]
             no == FALSE
  <2>1. t = update(updateVisibility(u, c, no), c, "MakeFirst")
    BY <1>3 DEF setDesktop
  <2>2. /\ u \in Type /\ SameLists(s, u) /\ SameFocus(s, u) /\ u.map = s.map
        /\ u.count = s.count /\ u.current = s.current /\ u.clients = s.clients
        /\ u.desk = [s.desk EXCEPT ![c] = d]
        /\ u.minimized = s.minimized /\ u.wants = s.wants
    BY <1>1 DEF Type, SameLists, SameFocus
  <2> HIDE DEF u, no
  <2>3. Known(u, K)
    BY <2>2, SameListsKnown, SameFocusKnown DEF Good, Known
  <2>4. \A x \in K \ {c} : u.desk[x] = s.desk[x]
    BY <1>1, <2>2 DEF Good, Known
  <2>5. Listed(u, K \ {c})
    BY <2>2, <2>4 DEF Good, Listed, ListedAs, SameLists
  <2>6. Shown(u, K \ {c})
    BY <2>2, <2>4 DEF Good, Shown, isOnCurrentDesktop, isOnDesktop
  <2>7. ActiveShown(u)
    BY <2>2 DEF Good, ActiveShown, SameFocus
  <2>8. Good(t, K) /\ SamePlace(u, t) /\ Len(t.chains) = Len(u.chains)
    BY <2>1, <2>3, <2>5, <2>6, <2>7, Settled
  <2> QED
    BY <2>2, <2>8 DEF SamePlace, SameLists
<1> QED
  BY <1>2, <1>3

MinimizedToo(s, c, t) == t.minimized = s.minimized \cup {c}

LEMMA Minimized ==
    ASSUME NEW s, NEW K, NEW c \in K, NEW t, Good(s, K), t = minimize(s, c)
    PROVE  /\ Good(t, K) /\ Len(t.chains) = Len(s.chains)
           /\ t.count = s.count /\ t.current = s.current /\ t.clients = s.clients
           /\ t.desk = s.desk /\ t.wants = s.wants
           /\ MinimizedToo(s, c, t)
<1>1. s \in Type /\ c \in Clients
  BY DEF Good, Known
<1>2. CASE c \in s.minimized
  <2>1. t = s
    BY <1>2 DEF minimize
  <2>2. s.minimized = s.minimized \cup {c}
    BY <1>2
  <2> QED
    BY <2>1, <2>2 DEF MinimizedToo
<1>3. CASE c \notin s.minimized
  <2> DEFINE u == [s EXCEPT !.minimized = s.minimized \cup {c}]
             no == FALSE
  <2>1. t = update(updateVisibility(u, c, no), c, "MakeFirst")
    BY <1>1, <1>3 DEF minimize
  <2>2. /\ u \in Type /\ SameLists(s, u) /\ SameFocus(s, u) /\ u.map = s.map
        /\ u.count = s.count /\ u.current = s.current /\ u.clients = s.clients
        /\ u.desk = s.desk /\ u.minimized = s.minimized \cup {c}
        /\ u.wants = s.wants
    BY <1>1 DEF Type, SameLists, SameFocus
  <2> HIDE DEF u, no
  <2>3. Known(u, K)
    BY <2>2, SameListsKnown, SameFocusKnown DEF Good, Known
  <2>4. Listed(u, K \ {c})
    BY <2>2 DEF Good, Listed, ListedAs, SameLists
  <2>5. Shown(u, K \ {c})
    BY <2>2 DEF Good, Shown, isOnCurrentDesktop, isOnDesktop
  <2>6. ActiveShown(u)
    BY <2>2 DEF Good, ActiveShown, SameFocus
  <2>7. Good(t, K) /\ SamePlace(u, t) /\ Len(t.chains) = Len(u.chains)
    BY <2>1, <2>3, <2>4, <2>5, <2>6, Settled
  <2> QED
    BY <2>2, <2>7 DEF SamePlace, SameLists, MinimizedToo
<1> QED
  BY <1>2, <1>3

LEMMA Unminimized ==
    ASSUME NEW s, NEW K, NEW c \in K, NEW t, Good(s, K), t = unminimize(s, c)
    PROVE  /\ Good(t, K) /\ Len(t.chains) = Len(s.chains)
           /\ t.count = s.count /\ t.current = s.current /\ t.clients = s.clients
           /\ t.desk = s.desk /\ t.wants = s.wants
           /\ t.minimized = s.minimized \ {c}
<1>1. s \in Type /\ c \in Clients
  BY DEF Good, Known
<1>2. CASE c \notin s.minimized
  <2>1. t = s
    BY <1>2 DEF unminimize
  <2>2. s.minimized = s.minimized \ {c}
    BY <1>2
  <2> QED
    BY <2>1, <2>2
<1>3. CASE c \in s.minimized
  <2> DEFINE u == [s EXCEPT !.minimized = s.minimized \ {c}]
             no == FALSE
  <2>1. t = updateVisibility(u, c, no)
    BY <1>1, <1>3 DEF unminimize
  <2>2. /\ u \in Type /\ SameLists(s, u) /\ SameFocus(s, u) /\ u.map = s.map
        /\ u.count = s.count /\ u.current = s.current /\ u.clients = s.clients
        /\ u.desk = s.desk /\ u.minimized = s.minimized \ {c}
        /\ u.wants = s.wants
    BY <1>1 DEF Type, SameLists, SameFocus
  <2> HIDE DEF u, no
  <2>3. Known(u, K)
    BY <2>2, SameListsKnown, SameFocusKnown DEF Good, Known
  <2>4. Listed(u, K)
    BY <2>2 DEF Good, Listed, ListedAs, SameLists
  <2>5. Shown(u, K \ {c})
    BY <2>2 DEF Good, Shown, isOnCurrentDesktop, isOnDesktop
  <2>6. ActiveShown(u)
    BY <2>2 DEF Good, ActiveShown, SameFocus
  <2>7. /\ Known(t, K) /\ SamePlace(u, t) /\ SameLists(u, t)
        /\ Shown(t, K) /\ ActiveShown(t)
    BY <2>1, <2>3, <2>5, <2>6, ShownAgain
  <2>8. Listed(t, K)
    BY <2>4, <2>7, SameListed
  <2> QED
    BY <2>2, <2>7, <2>8 DEF Good, SamePlace, SameLists
<1> QED
  BY <1>2, <1>3

(* Only the lists have changed.                                            *)
LEMMA StillGood ==
    ASSUME NEW s, NEW t, NEW K, Good(s, K), t \in Type, ListsKnown(t, K),
           Listed(t, K), SamePlace(s, t), SameFocus(s, t), t.map = s.map
    PROVE  Good(t, K)
<1>1. Known(t, K)
  BY SameFocusKnown DEF Good, Known
<1>2. Shown(t, K)
  BY SameShown DEF Good
<1>3. ActiveShown(t)
  BY DEF Good, ActiveShown, SameFocus
<1> QED
  BY <1>1, <1>2, <1>3 DEF Good

LEMMA Asked ==
    ASSUME NEW s, NEW K, NEW c \in K \cup {NoClient}, NEW blocked, NEW t,
           Good(s, K), t = requestFocus(s, c, blocked)
    PROVE  Good(t, K) /\ SamePlace(s, t) /\ SameLists(s, t)
<1>1. /\ Known(t, K) /\ SamePlace(s, t) /\ SameLists(s, t)
      /\ t.map = s.map /\ t.active = s.active
  BY Requested DEF Good, SameActive
<1>2. Listed(t, K) /\ Shown(t, K)
  BY <1>1, SameListed, SameShown DEF Good
<1>3. ActiveShown(t)
  BY <1>1 DEF Good, ActiveShown
<1> QED
  BY <1>1, <1>2, <1>3 DEF Good

LEMMA Restacked ==
    ASSUME NEW s, NEW K, NEW c \in K, NEW under \in K \cup {NoClient}, NEW t,
           Good(s, K), t = restackClientUnderActive(s, c, under)
    PROVE  Good(t, K) /\ SamePlace(s, t) /\ Len(t.chains) = Len(s.chains)
<1>1. CASE s.active \in {NoClient, c} \/ under \in {NoClient, c}
  <2>1. t = s
    BY <1>1 DEF restackClientUnderActive
  <2> QED
    BY <2>1 DEF SamePlace
<1>2. CASE ~(s.active \in {NoClient, c} \/ under \in {NoClient, c})
  <2> DEFINE ref == IF belongToSameApplication(s.active, c) THEN s.active ELSE under
  <2>1. t = moveAfterClient(s, c, ref)
    BY <1>2 DEF restackClientUnderActive
  <2>2. ref \in K /\ ref # c
    BY <1>2 DEF Good, Known, FocusKnown
  <2> HIDE DEF ref
  <2>3. s \in Type /\ K \subseteq Clients /\ ListsKnown(s, K) /\ Listed(s, K)
    BY DEF Good, Known
  <2>4. /\ t \in Type /\ Len(t.chains) = Len(s.chains) /\ ListsKnown(t, K)
        /\ SamePlace(s, t) /\ SameFocus(s, t) /\ t.map = s.map /\ Listed(t, K)
    BY <2>1, <2>2, <2>3, Moved
  <2> QED
    BY <2>4, StillGood
<1> QED
  BY <1>1, <1>2

LEMMA Sent ==
    ASSUME NEW s, NEW K, NEW c \in K, NEW d \in Desktops \cup {OnAllDesktops},
           NEW activate, NEW under \in K \cup {NoClient}, NEW t, Good(s, K),
           d <= s.count, t = sendClientToDesktop(s, c, d, activate, under)
    PROVE  /\ Good(t, K) /\ Len(t.chains) = Len(s.chains)
           /\ t.count = s.count /\ t.current = s.current /\ t.clients = s.clients
           /\ t.desk = [s.desk EXCEPT ![c] = d]
           /\ t.minimized = s.minimized /\ t.wants = s.wants
<1> DEFINE sent == setDesktop(s, c, d)
           no == FALSE
<1>1. /\ Good(sent, K) /\ Len(sent.chains) = Len(s.chains)
      /\ sent.count = s.count /\ sent.current = s.current
      /\ sent.clients = s.clients /\ sent.desk = [s.desk EXCEPT ![c] = d]
      /\ sent.minimized = s.minimized /\ sent.wants = s.wants
  BY SentTo
<1>2. ~(d > s.count)
  BY DEF Good, Known, Type, Desktops, OnAllDesktops
<1>3. \/ t = sent \/ t = requestFocus(sent, c, no)
      \/ t = restackClientUnderActive(sent, c, under)
  BY <1>2 DEF sendClientToDesktop
<1> HIDE DEF sent, no
<1>4. CASE t = sent
  BY <1>1, <1>4
<1>5. CASE t = requestFocus(sent, c, no)
  <2>1. Good(t, K) /\ SamePlace(sent, t) /\ SameLists(sent, t)
    BY <1>1, <1>5, Asked
  <2> QED
    BY <1>1, <2>1 DEF SamePlace, SameLists
<1>6. CASE t = restackClientUnderActive(sent, c, under)
  <2>1. Good(t, K) /\ SamePlace(sent, t) /\ Len(t.chains) = Len(sent.chains)
    BY <1>1, <1>6, Restacked
  <2> QED
    BY <1>1, <2>1 DEF SamePlace
<1> QED
  BY <1>3, <1>4, <1>5, <1>6

-----------------------------------------------------------------------------
(* The focus is passed on.                                                 *)

(* The focus was requested last for a client of K that can be seen.        *)
Passed(s, K) ==
    /\ s.expected # <<>>
    /\ Last(s.expected) \in K \ s.minimized
    /\ isOnCurrentDesktop(s, Last(s.expected))

(* A client of K that is not minimized is in the list of desktop d.        *)
Waiting(s, K, d) ==
    /\ d \in 1..Len(s.chains)
    /\ \E y \in K \ s.minimized : Contains(s.chains[d], y)

(* A client that wants the focus and can be seen lives on this desktop.    *)
Wanted(s) == \E y \in s.wants : visible(s, y) /\ s.desk[y] # OnAllDesktops

(* FocusPassedOn of the step from s to t.                                  *)
PassesOn(s, t) ==
    s.active # NoClient /\ ~visible(t, s.active) /\ t.count = s.count /\ Wanted(t)
        => Passed(t, t.clients)

(* A request does not depend on the rest of the state.                     *)
LEMMA PassedStays ==
    ASSUME NEW s, NEW t, NEW K, Passed(s, K), SamePlace(s, t),
           t.expected = s.expected
    PROVE  Passed(t, K)
BY DEF Passed, SamePlace, isOnCurrentDesktop, isOnDesktop

(* The client that wants the focus is in the list of the desktop.          *)
LEMMA SomeoneWaits ==
    ASSUME NEW s, NEW K, NEW y \in K, Listed(s, K), y \in s.wants \ s.minimized,
           s.desk[y] # OnAllDesktops, s.desk[y] \in 1..Len(s.chains)
    PROVE  Waiting(s, K, s.desk[y])
BY DEF Listed, ListedAs, Waiting

(* The next client is in the list of the desktop, and hence on it.         *)
LEMMA Found ==
    ASSUME NEW s, NEW K, NEW L, NEW d \in 1..Len(s.chains), NEW candidates, NEW y,
           s \in Type, ListsKnown(s, K), Listed(s, L),
           y \in candidates, Contains(s.chains[d], y)
    PROVE  LET x == mostRecent(s, d, candidates) IN
           x \in K \cap candidates /\ (x \in L => isOnDesktop(s, x, d))
<1> DEFINE chain == s.chains[d]
           passing == {i \in 1..Len(chain) : chain[i] \in candidates}
<1>1. /\ chain \in Seq(Clients) /\ \A x : Contains(chain, x) => x \in K
      /\ d \in DOMAIN s.chains
  BY ListTypes DEF ListsKnown
<1>2. mostRecent(s, d, candidates) =
         IF passing = {} THEN NoClient ELSE chain[Max(passing)]
  BY <1>1 DEF mostRecent
<1>3. Len(chain) \in Nat /\ passing # {} /\ passing \in SUBSET (1..Len(chain))
  BY <1>1 DEF Contains
<1>4. \A i \in passing : i \in 1..Len(chain) /\ chain[i] \in candidates
  OBVIOUS
<1> HIDE DEF passing
<1>5. Max(passing) \in passing
  BY <1>3, MaxPosition
<1>6. /\ chain[Max(passing)] \in K \cap candidates
      /\ Contains(chain, chain[Max(passing)])
  BY <1>1, <1>4, <1>5 DEF Contains
<1>7. \A x \in L : Contains(chain, x) => isOnDesktop(s, x, d)
  BY DEF Listed, ListedAs, isOnDesktop
<1> HIDE DEF chain
<1> QED
  BY <1>2, <1>3, <1>6, <1>7

(* A request for a client that can be seen.                                *)
LEMMA AskedPasses ==
    ASSUME NEW s, NEW K, NEW c \in K, NEW blocked, ~blocked, NEW t,
           s \in Type, K \subseteq Clients, isOnCurrentDesktop(s, c),
           c \notin s.minimized \/ Passed(s, K), t = requestFocus(s, c, blocked)
    PROVE  Passed(t, K)
<1> DEFINE e == IF c \in s.minimized THEN s.expected ELSE Append(s.expected, c)
<1>1. c # NoClient /\ c \in Clients /\ s.expected \in Seq(Clients)
  BY ClientsAssumption, ListTypes
<1>2. t = [s EXCEPT !.delayed = NoClient, !.expected = e]
  BY <1>1 DEF requestFocus
<1>3. \/ e = s.expected /\ c \in s.minimized
      \/ e # <<>> /\ Last(e) = c /\ c \notin s.minimized
  <2>1. CASE c \notin s.minimized
    <3>1. e = Append(s.expected, c)
      BY <2>1
    <3> HIDE DEF e
    <3>2. Len(e) = Len(s.expected) + 1 /\ e[Len(s.expected) + 1] = c
          /\ Len(s.expected) \in Nat
      BY <1>1, <3>1
    <3> QED
      BY <2>1, <3>1, <3>2 DEF Last
  <2> QED
    BY <2>1
<1> HIDE DEF e
<1>4. SamePlace(s, t) /\ t.expected = e
  BY <1>2 DEF SamePlace, Type
<1>5. isOnCurrentDesktop(t, c)
  BY <1>4 DEF SamePlace, isOnCurrentDesktop, isOnDesktop
<1>6. CASE e = s.expected /\ c \in s.minimized
  BY <1>4, <1>6, PassedStays
<1>7. CASE e # <<>> /\ Last(e) = c /\ c \notin s.minimized
  BY <1>4, <1>5, <1>7 DEF Passed, SamePlace
<1> QED
  BY <1>3, <1>6, <1>7

(* activateNextClient() of the active client.                              *)
LEMMA NextPassed ==
    ASSUME NEW s, NEW K, NEW c \in K, NEW blocked, ~blocked, NEW t,
           Known(s, K), Listed(s, K \ {c}), Waiting(s, K \ {c}, s.current),
           c = s.active \/ Passed(s, K \ {c}),
           t = activateNextClient(s, c, blocked)
    PROVE  Passed(t, K \ {c})
<1> DEFINE was  == IF c = s.active THEN setActiveClient(s, NoClient) ELSE s
           free == [was EXCEPT !.expected = removeAll(@, c)]
           next == nextForDesktop(free, c, free.current)
<1>1. CASE c = s.active
  <2>1. t = requestFocus(free, next, FALSE)
    BY <1>1 DEF activateNextClient, passFocusOn
  <2>2. was = setActiveClient(s, NoClient)
    BY <1>1
  <2> HIDE DEF was
  <2>3. Known(was, K) /\ SamePlace(s, was) /\ SameLists(s, was)
    BY <2>2, Deactivated
  <2>4. /\ free \in Type /\ SamePlace(was, free) /\ SameLists(was, free)
    <3> DEFINE e == removeAll(was.expected, c)
    <3>1. was \in Type /\ e \in Seq(Clients)
      BY <2>3, ListTypes, RemoveAll DEF Known
    <3>2. free = [was EXCEPT !.expected = e]
      OBVIOUS
    <3> HIDE DEF e, free
    <3> QED
      BY <3>1, <3>2 DEF Type, SamePlace, SameLists
  <2> HIDE DEF free
  <2>5. SamePlace(s, free) /\ SameLists(s, free)
    BY <2>3, <2>4 DEF SamePlace, SameLists
  <2>6. ListsKnown(free, K) /\ Listed(free, K \ {c}) /\ K \subseteq Clients
    BY <2>5, SameListsKnown, SameListed DEF Known
  <2>7. PICK y \in (K \ {c}) \ free.minimized :
           free.current \in 1..Len(free.chains)
           /\ Contains(free.chains[free.current], y)
    BY <2>5 DEF Waiting, SamePlace, SameLists
  <2>8. isOnCurrentDesktop(free, y)
    BY <2>6, <2>7 DEF Listed, ListedAs, isOnCurrentDesktop, isOnDesktop
  <2> DEFINE candidates == {x \in Clients : isUsableFocusCandidate(free, x, c)}
  <2>9. y \in candidates
    BY <2>6, <2>7, <2>8 DEF isUsableFocusCandidate
  <2>10. \A x \in candidates : x # c /\ x \notin free.minimized
                               /\ isOnCurrentDesktop(free, x)
    BY DEF isUsableFocusCandidate
  <2>11. next = mostRecent(free, free.current, candidates)
    BY DEF nextForDesktop
  <2> HIDE DEF candidates, next
  <2>12. next \in K \cap candidates
    BY <2>4, <2>6, <2>7, <2>9, <2>11, Found
  <2>13. /\ next \in K \ {c} /\ isOnCurrentDesktop(free, next)
         /\ next \notin free.minimized /\ K \ {c} \subseteq Clients
    BY <2>6, <2>10, <2>12
  <2> DEFINE no == FALSE
             L == K \ {c}
  <2>14. t = requestFocus(free, next, no) /\ ~no /\ next \in L /\ L \subseteq Clients
    BY <2>1, <2>13
  <2> HIDE DEF no, L
  <2>15. Passed(t, L)
    BY <2>4, <2>13, <2>14, AskedPasses
  <2> QED
    BY <2>15 DEF L
<1>2. CASE c # s.active
  <2>1. s.expected # <<>> /\ c # Last(s.expected)
    BY <1>2 DEF Passed
  <2>2. t = s
    BY <1>2, <2>1 DEF activateNextClient
  <2> QED
    BY <1>2, <2>2
<1> QED
  BY <1>1, <1>2

(* updateVisibility() of a client that is active, and is hidden, or when   *)
(* another client was asked for.                                           *)
LEMMA VisibilityPasses ==
    ASSUME NEW s, NEW K, NEW c \in K, NEW blocked, ~blocked, NEW t,
           Known(s, K), Listed(s, K \ {c}), Waiting(s, K \ {c}, s.current),
           \/ Passed(s, K \ {c})
           \/ c = s.active /\ s.map[c] = "Mapped" /\ shownAs(s, c) # "Mapped",
           t = updateVisibility(s, c, blocked)
    PROVE  Passed(t, K \ {c})
<1> DEFINE state == shownAs(s, c)
           set == [s EXCEPT !.map[c] = state]
           L == K \ {c}
<1>1. s \in Type /\ c \in Clients /\ state \in {"Mapped", "Kept", "Unmapped"}
  BY DEF Known, shownAs
<1>2. t = IF s.map[c] = state \/ state = "Mapped" THEN set
          ELSE activateNextClient(set, c, blocked)
  BY DEF updateVisibility
<1>3. \/ Passed(s, L)
      \/ c = s.active /\ ~(s.map[c] = state \/ state = "Mapped")
  OBVIOUS
<1> HIDE DEF state
<1>4. /\ set \in Type /\ SamePlace(s, set) /\ SameLists(s, set)
      /\ SameFocus(s, set)
  BY <1>1 DEF Type, SamePlace, SameLists, SameFocus
<1> HIDE DEF set
<1>5. Known(set, K) /\ Listed(set, L)
  BY <1>4, SameListsKnown, SameFocusKnown, SameListed DEF Known
<1>6. Waiting(set, L, set.current)
  BY <1>4 DEF Waiting, SamePlace, SameLists
<1>7. Passed(s, L) => Passed(set, L)
  BY <1>4, PassedStays DEF SameFocus
<1>8. CASE s.map[c] = state \/ state = "Mapped"
  BY <1>2, <1>3, <1>7, <1>8
<1>9. CASE ~(s.map[c] = state \/ state = "Mapped")
  <2>1. t = activateNextClient(set, c, blocked)
    BY <1>2, <1>9
  <2>2. c = set.active \/ Passed(set, L)
    BY <1>3, <1>4, <1>7 DEF SameFocus
  <2> QED
    BY <1>5, <1>6, <2>1, <2>2, NextPassed
<1> QED
  BY <1>8, <1>9

(* What the active client leaves, and the place it has then in the lists.  *)
LEMMA SettledPasses ==
    ASSUME NEW s, NEW K, NEW c \in K, NEW blocked, ~blocked, NEW change, NEW t,
           Known(s, K), Listed(s, K \ {c}), Waiting(s, K \ {c}, s.current),
           c = s.active, s.map[c] = "Mapped", shownAs(s, c) # "Mapped",
           t = update(updateVisibility(s, c, blocked), c, change)
    PROVE  Passed(t, K)
<1> DEFINE u == updateVisibility(s, c, blocked)
<1>1. t = update(u, c, change)
  OBVIOUS
<1>2. Passed(u, K \ {c})
  BY VisibilityPasses
<1>3. Known(u, K)
  BY Refreshed
<1> HIDE DEF u
<1>4. SamePlace(u, t) /\ SameFocus(u, t)
  BY <1>1, <1>3, Updated DEF Known
<1>5. Passed(u, K)
  BY <1>2 DEF Passed
<1> QED
  BY <1>4, <1>5, PassedStays DEF SameFocus

(* The desktop that becomes current: its most recent client is asked for.  *)
LEMMA SwitchedPasses ==
    ASSUME NEW s, NEW K, NEW d, NEW blocked, ~blocked, NEW t,
           Known(s, K), Listed(s, K), Waiting(s, K, d), s.current = d,
           t = activateClientOnNewDesktop(s, d, blocked)
    PROVE  Passed(t, K)
<1> DEFINE next == getForActivation(s, d)
           left == IF next = s.active THEN s ELSE setActiveClient(s, NoClient)
<1>1. t = requestFocus(left, next, blocked)
  BY DEF activateClientOnNewDesktop
<1>2. PICK y \in K \ s.minimized :
         d \in 1..Len(s.chains) /\ Contains(s.chains[d], y)
  BY DEF Waiting
<1>3. next \in K \ s.minimized /\ isOnDesktop(s, next, d)
  <2> DEFINE candidates == Clients \ s.minimized
  <2>1. y \in candidates /\ s \in Type /\ ListsKnown(s, K)
    BY <1>2 DEF Known
  <2>2. next = mostRecent(s, d, candidates)
    BY DEF getForActivation
  <2>3. \A x \in candidates : x \notin s.minimized
    OBVIOUS
  <2> HIDE DEF candidates, next
  <2>4. next \in K \cap candidates /\ (next \in K => isOnDesktop(s, next, d))
    BY <1>2, <2>1, <2>2, Found
  <2> QED
    BY <2>3, <2>4
<1> HIDE DEF next
<1>4. PICK l : l = left /\ Known(l, K) /\ SamePlace(s, l)
  BY Deactivated DEF SamePlace
<1> HIDE DEF left
<1>5. isOnCurrentDesktop(l, next) /\ next \in K \ l.minimized
  BY <1>3, <1>4 DEF SamePlace, isOnCurrentDesktop, isOnDesktop
<1> QED
  BY <1>1, <1>4, <1>5, AskedPasses DEF Known

-----------------------------------------------------------------------------
(* Another desktop becomes current.                                        *)

(* The clients that are hidden when d becomes the current desktop.         *)
Leaves(s, x, d) == x \in s.clients /\ ~isOnDesktop(s, x, d)

(* The state x when the first i clients of the stacking order have been    *)
(* looked at.                                                              *)
HiddenUpTo(s, K, d, order, x, i) ==
    /\ Known(x, K) /\ SameLists(s, x) /\ ActiveShown(x)
    /\ x.count = s.count /\ x.current = d /\ x.clients = s.clients
    /\ x.desk = s.desk /\ x.minimized = s.minimized /\ x.wants = s.wants
    /\ \A j \in 1..i : Leaves(s, order[j], d) => x.map[order[j]] # "Mapped"
    /\ \A w \in Clients : x.map[w] = s.map[w] \/ Leaves(s, w, d)

LEMMA HidesOne ==
    ASSUME NEW s, NEW K, NEW d, NEW order, NEW i, NEW x, NEW blocked, NEW y,
           s.clients \subseteq K, i \in Nat, i >= 1,
           HiddenUpTo(s, K, d, order, x, i - 1),
           y = IF order[i] \in s.clients /\ ~isOnDesktop(s, order[i], d)
               THEN updateVisibility(x, order[i], blocked) ELSE x
    PROVE  HiddenUpTo(s, K, d, order, y, i)
<1>1. 1..i = 1..(i - 1) \cup {i}
  OBVIOUS
<1>2. CASE ~Leaves(s, order[i], d)
  BY <1>1, <1>2 DEF HiddenUpTo, Leaves
<1>3. CASE Leaves(s, order[i], d)
  <2> DEFINE c == order[i]
  <2>1. y = updateVisibility(x, c, blocked) /\ c \in K /\ Known(x, K)
    BY <1>3 DEF Leaves, HiddenUpTo
  <2> HIDE DEF c
  <2>2. /\ Known(y, K) /\ SamePlace(x, y) /\ SameLists(x, y)
        /\ \A w \in Clients : y.map[w] = IF w = c THEN shownAs(x, c) ELSE x.map[w]
        /\ ActiveShown(x) => ActiveShown(y)
    BY <2>1, Refreshed
  <2>3. shownAs(x, c) # "Mapped"
    BY <1>3 DEF Leaves, HiddenUpTo, shownAs, isOnCurrentDesktop, isOnDesktop, c
  <2>6. \A j \in 1..i : Leaves(s, order[j], d) => y.map[order[j]] # "Mapped"
    <3> SUFFICES ASSUME NEW j \in 1..i, Leaves(s, order[j], d)
                 PROVE  y.map[order[j]] # "Mapped"
      OBVIOUS
    <3>1. order[j] \in Clients
      BY <2>1 DEF Leaves, Known
    <3>2. CASE order[j] = c
      BY <2>2, <2>3, <3>1, <3>2
    <3>3. CASE order[j] # c
      <4>1. j \in 1..(i - 1)
        BY <1>1, <3>3 DEF c
      <4>2. x.map[order[j]] # "Mapped"
        BY <4>1 DEF HiddenUpTo
      <4> QED
        BY <2>2, <3>1, <3>3, <4>2
    <3> QED
      BY <3>2, <3>3
  <2>7. \A w \in Clients : y.map[w] = s.map[w] \/ Leaves(s, w, d)
    BY <1>3, <2>2 DEF HiddenUpTo, c
  <2> QED
    BY <2>2, <2>6, <2>7 DEF HiddenUpTo, SamePlace, SameLists
<1> QED
  BY <1>2, <1>3

LEMMA Switched ==
    ASSUME NEW s, NEW K, NEW d \in Desktops, NEW order, NEW blocked, NEW t,
           Known(s, K), Listed(s, K), s.clients \subseteq K, Shown(s, s.clients),
           ActiveShown(s), Len(order) \in Nat,
           \A x : Leaves(s, x, d) => Contains(order, x),
           t = switchTo(s, d, order, blocked)
    PROVE  /\ Known(t, K) /\ Listed(t, K) /\ Shown(t, s.clients) /\ ActiveShown(t)
           /\ SameLists(s, t) /\ t.current = d
           /\ t.count = s.count /\ t.clients = s.clients /\ t.desk = s.desk
           /\ t.minimized = s.minimized /\ t.wants = s.wants
           /\ ~blocked /\ Waiting(s, K, d) => Passed(t, K)
<1> DEFINE n == Len(order)
           yes == TRUE
           first == [s EXCEPT !.current = d]
           Step(x, i) == IF order[i] \in s.clients /\ ~isOnDesktop(s, order[i], d)
                         THEN updateVisibility(x, order[i], yes) ELSE x
           Q(k) == k = [i \in 0..n |-> IF i = 0 THEN first
                        ELSE IF order[i] \in s.clients /\ ~isOnDesktop(s, order[i], d)
                        THEN updateVisibility(k[i - 1], order[i], yes) ELSE k[i - 1]]
           S == [i \in 0..n |-> {x \in Type : HiddenUpTo(s, K, d, order, x, i)}]
           F == [i \in 1..n |-> [x \in S[i - 1] |-> Step(x, i)]]
           h == CHOOSE k : Q(k)
           hidden == h[n]
           shown == [hidden EXCEPT !.map = [c \in Clients |->
                        IF c \in s.clients \ s.minimized /\ isOnDesktop(s, c, d)
                        THEN "Mapped" ELSE hidden.map[c]]]
           next == getForActivation(shown, d)
           left == IF next = shown.active THEN shown
                   ELSE setActiveClient(shown, NoClient)
<1>1. t = activateClientOnNewDesktop(shown, d, blocked)
  BY DEF switchTo
<1>0. t = requestFocus(left, next, blocked)
  BY <1>1 DEF activateClientOnNewDesktop
<1> HIDE DEF yes
<1>2. first \in S[0]
  <2>1. s \in Type
    BY DEF Known
  <2>2. /\ first \in Type /\ SameLists(s, first) /\ SameFocus(s, first)
        /\ first.count = s.count /\ first.current = d /\ first.clients = s.clients
        /\ first.desk = s.desk /\ first.minimized = s.minimized
        /\ first.wants = s.wants /\ first.map = s.map
    BY <2>1 DEF Type, SameLists, SameFocus
  <2> HIDE DEF first
  <2>3. Known(first, K)
    BY <2>2, SameListsKnown, SameFocusKnown DEF Known
  <2>4. ActiveShown(first)
    BY <2>2 DEF ActiveShown, SameFocus
  <2>5. HiddenUpTo(s, K, d, order, first, 0)
    BY <2>2, <2>3, <2>4 DEF HiddenUpTo
  <2> QED
    BY <2>2, <2>5
<1>3. \A i \in 1..n : \A x \in S[i - 1] : Step(x, i) \in S[i]
  <2> SUFFICES ASSUME NEW i \in 1..n, NEW x \in S[i - 1] PROVE Step(x, i) \in S[i]
    OBVIOUS
  <2>1. i - 1 \in 0..n /\ i \in 0..n /\ i \in Nat /\ i >= 1
    OBVIOUS
  <2>2. HiddenUpTo(s, K, d, order, x, i - 1)
    BY <2>1
  <2>3. HiddenUpTo(s, K, d, order, Step(x, i), i)
    BY <2>1, <2>2, HidesOne
  <2>4. Step(x, i) \in Type
    BY <2>3 DEF HiddenUpTo, Known
  <2> HIDE DEF Step
  <2> QED
    BY <2>1, <2>3, <2>4
<1>4. \A i \in 1..n : \A x \in S[i - 1] : F[i][x] \in S[i]
  <2> HIDE DEF S, Step
  <2> QED
    BY <1>3
<1>5. PICK g : Computes(g, n, first, F, S)
  <2> HIDE DEF n, first, S, F
  <2> QED
    BY <1>2, <1>4, Recursion DEF n
<1>6. Q(g)
  <2> HIDE DEF first
  <2>1. \A i \in 0..n : i # 0 => g[i] = Step(g[i - 1], i)
    <3> SUFFICES ASSUME NEW i \in 0..n, i # 0 PROVE g[i] = Step(g[i - 1], i)
      OBVIOUS
    <3>1. i \in 1..n /\ i - 1 \in 0..n
      OBVIOUS
    <3>2. g[i] = F[i][g[i - 1]] /\ g[i - 1] \in S[i - 1]
      BY <1>5, <3>1 DEF Computes
    <3> HIDE DEF S, Step
    <3> QED
      BY <3>1, <3>2
  <2>2. g[0] = first /\ g = [i \in 0..n |-> g[i]]
    BY <1>5 DEF Computes
  <2> QED
    BY <2>1, <2>2
<1>7. Q(h)
  <2> HIDE DEF Q
  <2> QED
    BY <1>6
<1>8. h[n] \in S[n]
  <2> HIDE DEF h, first
  <2>1. h[0] \in S[0]
    BY <1>2, <1>7
  <2>2. \A i \in 1..n : h[i] = Step(h[i - 1], i)
    <3> SUFFICES ASSUME NEW i \in 1..n PROVE h[i] = Step(h[i - 1], i)
      OBVIOUS
    <3>1. i \in 0..n /\ i # 0
      OBVIOUS
    <3> HIDE DEF n
    <3> QED
      BY <1>7, <3>1
  <2>3. \A i \in 1..n : h[i - 1] \in S[i - 1] => h[i] \in S[i]
    <3> HIDE DEF S, Step
    <3> QED
      BY <1>3, <2>2
  <2> HIDE DEF S, n
  <2>4. \A i \in 0..n : h[i] \in S[i]
    BY <2>1, <2>3, Carried DEF n
  <2> QED
    BY <2>4 DEF n
<1> HIDE DEF h
<1>9. HiddenUpTo(s, K, d, order, hidden, n)
  <2>1. n \in 0..n
    OBVIOUS
  <2> HIDE DEF n
  <2> QED
    BY <1>8, <2>1
<1> HIDE DEF hidden
<1>10. /\ shown \in Type /\ SamePlace(hidden, shown) /\ SameLists(hidden, shown)
       /\ SameFocus(hidden, shown)
       /\ \A c \in Clients : shown.map[c] =
             IF c \in s.clients \ s.minimized /\ isOnDesktop(s, c, d)
             THEN "Mapped" ELSE hidden.map[c]
  <2>1. hidden \in Type
    BY <1>9 DEF HiddenUpTo, Known
  <2> QED
    BY <2>1 DEF Type, SamePlace, SameLists, SameFocus
<1> HIDE DEF shown
<1>11. Known(shown, K)
  BY <1>9, <1>10, SameListsKnown, SameFocusKnown DEF HiddenUpTo, Known
<1>12. ActiveShown(shown)
  <2> SUFFICES ASSUME shown.active # NoClient
               PROVE  shown.map[shown.active] = "Mapped"
    BY DEF ActiveShown
  <2>1. shown.active = hidden.active /\ hidden.map[hidden.active] = "Mapped"
    BY <1>9, <1>10 DEF HiddenUpTo, ActiveShown, SameFocus
  <2>2. hidden.active \in Clients
    BY <1>9, <2>1 DEF HiddenUpTo, Known, FocusKnown
  <2> QED
    BY <1>10, <2>1, <2>2
<1>13. Shown(shown, s.clients)
  <2> SUFFICES ASSUME NEW c \in s.clients
               PROVE  shown.map[c] = "Mapped"
                         <=> c \notin shown.minimized /\ isOnCurrentDesktop(shown, c)
    BY DEF Shown
  <2>1. shown.minimized = s.minimized /\ shown.desk = s.desk /\ shown.current = d
    BY <1>9, <1>10 DEF HiddenUpTo, SamePlace
  <2>2. c \in Clients
    BY DEF Known
  <2>3. isOnCurrentDesktop(shown, c) <=> isOnDesktop(s, c, d)
    BY <2>1 DEF isOnCurrentDesktop, isOnDesktop
  <2>4. CASE ~isOnDesktop(s, c, d)
    <3>1. PICK j \in 1..n : order[j] = c
      BY <2>4 DEF Leaves, Contains
    <3>2. hidden.map[c] # "Mapped"
      BY <1>9, <2>4, <3>1 DEF HiddenUpTo, Leaves
    <3> QED
      BY <1>10, <2>2, <2>3, <2>4, <3>2
  <2>5. CASE isOnDesktop(s, c, d) /\ c \in s.minimized
    <3>1. hidden.map[c] = s.map[c]
      BY <1>9, <2>2, <2>5 DEF HiddenUpTo, Leaves
    <3>2. s.map[c] # "Mapped"
      BY <2>5 DEF Shown
    <3> QED
      BY <1>10, <2>1, <2>2, <2>5, <3>1, <3>2
  <2>6. CASE isOnDesktop(s, c, d) /\ c \notin s.minimized
    BY <1>10, <2>1, <2>2, <2>3, <2>6
  <2> QED
    BY <2>4, <2>5, <2>6
<1>14. next \in K \cup {NoClient}
  BY <1>11, MostRecent DEF getForActivation, Known
<1> HIDE DEF next
<1>15. PICK l : /\ l = left /\ Known(l, K) /\ SamePlace(shown, l)
                /\ SameLists(shown, l) /\ l.map = shown.map
                /\ l.active \in {shown.active, NoClient}
  BY <1>11, Deactivated DEF SamePlace, SameLists
<1> HIDE DEF left
<1>16. /\ Known(t, K) /\ SamePlace(l, t) /\ SameLists(l, t)
       /\ t.map = l.map /\ t.active = l.active
  <2>1. Known(t, K) /\ SamePlace(l, t) /\ SameLists(l, t) /\ SameActive(l, t)
    BY <1>0, <1>14, <1>15, Requested
  <2> QED
    BY <2>1 DEF SameActive
<1>17. SamePlace(shown, t) /\ SameLists(shown, t) /\ t.map = shown.map
  BY <1>15, <1>16 DEF SamePlace, SameLists
<1>18. Shown(t, s.clients)
  BY <1>13, <1>17, SameShown
<1>19. ActiveShown(t)
  BY <1>12, <1>15, <1>16, <1>17 DEF ActiveShown
<1>20. /\ SameLists(s, t) /\ t.current = d /\ t.count = s.count
       /\ t.clients = s.clients /\ t.desk = s.desk
       /\ t.minimized = s.minimized /\ t.wants = s.wants
  BY <1>9, <1>10, <1>17 DEF HiddenUpTo, SamePlace, SameLists
<1>21. Listed(t, K)
  BY <1>20 DEF Listed, ListedAs, SameLists
<1>22. ASSUME ~blocked, Waiting(s, K, d) PROVE Passed(t, K)
  <2>1. /\ SameLists(s, shown) /\ shown.current = d
        /\ shown.desk = s.desk /\ shown.minimized = s.minimized
        /\ shown.wants = s.wants
    BY <1>9, <1>10 DEF HiddenUpTo, SamePlace, SameLists
  <2>2. Listed(shown, K)
    BY <2>1 DEF Listed, ListedAs, SameLists
  <2>3. Waiting(shown, K, d)
    BY <1>22, <2>1 DEF Waiting, SameLists
  <2> QED
    BY <1>1, <1>11, <1>22, <2>1, <2>2, <2>3, SwitchedPasses
<1> QED
  BY <1>16, <1>18, <1>19, <1>20, <1>21, <1>22

(* An order of a set of clients holds them all.                            *)
LEMMA Ordered ==
    ASSUME NEW S \in SUBSET Clients, NEW order \in Orders[S]
    PROVE  Len(order) \in Nat /\ \A x \in S : Contains(order, x)
<1> DEFINE n == Cardinality(S)
<1>1. IsFiniteSet(S) /\ n \in Nat
  BY ClientsAssumption, FS_Subset, FS_CardinalityType
<1>2. order \in [1..n -> S] /\ \A i, j \in 1..n : i # j => order[i] # order[j]
  BY DEF Orders, SetToSeqs
<1>3. order \in Injection(1..n, S)
  BY <1>2 DEF Injection, IsInjective
<1>4. IsFiniteSet(1..n) /\ Cardinality(1..n) = n
  BY <1>1, FS_Interval
<1>5. order \in Surjection(1..n, S)
  BY <1>1, <1>3, <1>4, FS_Injection
<1>6. Len(order) = n
  BY <1>1, <1>2
<1>7. \A x \in S : \E i \in 1..n : order[i] = x
  BY <1>5 DEF Surjection
<1> QED
  BY <1>1, <1>6, <1>7 DEF Contains

(* The order of the clients to hide holds them all.                        *)
Covers(s, order, d) ==
    Len(order) \in Nat /\ \A x : Leaves(s, x, d) => Contains(order, x)

(* What holds while a client of K that is not yet in s.clients is managed. *)
Ready(s, K) ==
    /\ Known(s, K) /\ Listed(s, K) /\ s.clients \subseteq K
    /\ Shown(s, s.clients) /\ ActiveShown(s)

LEMMA GoodIsReady ==
    ASSUME NEW s, NEW K, s.clients \subseteq K, Good(s, K)
    PROVE  Ready(s, K)
BY DEF Good, Ready, Shown

(* t differs from s in the focus, the mapped windows and the desktop.      *)
OnlyCurrent(s, t, d) ==
    /\ SameLists(s, t)
    /\ t.current = IF d \in 1..s.count THEN d ELSE s.current
    /\ t.count = s.count /\ t.clients = s.clients /\ t.desk = s.desk
    /\ t.minimized = s.minimized /\ t.wants = s.wants

LEMMA MadeCurrent ==
    ASSUME NEW s, NEW K, NEW d \in Desktops \cup {OnAllDesktops}, NEW order,
           NEW blocked, NEW t, Ready(s, K),
           d \in Desktops /\ d # s.current => Covers(s, order, d),
           t = setCurrent(s, d, order, blocked)
    PROVE  /\ Ready(t, K) /\ OnlyCurrent(s, t, d)
           /\ ~blocked /\ d \in 1..s.count /\ d # s.current /\ Waiting(s, K, d)
                => Passed(t, K)
<1>1. CASE d \notin 1..s.count \/ d = s.current
  <2>1. t = s
    BY <1>1 DEF setCurrent
  <2> QED
    BY <1>1, <2>1 DEF SameLists, OnlyCurrent
<1>2. CASE ~(d \notin 1..s.count \/ d = s.current)
  <2>1. t = switchTo(s, d, order, blocked)
    BY <1>2 DEF setCurrent
  <2>2. d \in Desktops /\ Covers(s, order, d)
    BY <1>2 DEF OnAllDesktops
  <2>3. /\ Known(t, K) /\ Listed(t, K) /\ Shown(t, s.clients) /\ ActiveShown(t)
        /\ SameLists(s, t) /\ t.current = d
        /\ t.count = s.count /\ t.clients = s.clients /\ t.desk = s.desk
        /\ t.minimized = s.minimized /\ t.wants = s.wants
        /\ ~blocked /\ Waiting(s, K, d) => Passed(t, K)
    BY <2>1, <2>2, Switched DEF Ready, Covers
  <2> QED
    BY <1>2, <2>3 DEF Ready, OnlyCurrent
<1> QED
  BY <1>1, <1>2

-----------------------------------------------------------------------------
(* The number of desktops changes.                                         *)

LEMMA Resized ==
    ASSUME NEW s, NEW K, NEW n \in Nat, NEW t, Good(s, K),
           \A c \in K : s.desk[c] <= Len(s.chains), t = resize(s, n)
    PROVE  Good(t, K) /\ SamePlace(s, t) /\ Len(t.chains) = n
<1> DEFINE L == Len(s.chains)
           ch == [d \in 1..n |-> IF d <= L THEN s.chains[d] ELSE <<>>]
<1>1. s \in Type /\ s.chains \in Seq(Seq(Clients)) /\ L \in Nat
      /\ \A d \in 1..L : s.chains[d] \in Seq(Clients)
  BY ListTypes DEF Good, Known
<1>2. t = [s EXCEPT !.chains = ch]
  BY <1>1 DEF resize
<1>3. DOMAIN ch = 1..n /\ ch = [d \in 1..n |-> ch[d]]
  OBVIOUS
<1>4. \A d \in 1..n :
         \/ d \in 1..L /\ ch[d] = s.chains[d]
         \/ d \notin 1..L /\ ch[d] = <<>>
  BY <1>1
<1> HIDE DEF ch, L
<1>5. \A d \in 1..n : ch[d] \in Seq(Clients)
  <2>1. <<>> \in Seq(Clients)
    OBVIOUS
  <2> QED
    BY <1>1, <1>4, <2>1
<1>6. ch \in Seq(Seq(Clients)) /\ Len(ch) = n
  BY <1>3, <1>5, MadeOf
<1>7. /\ t \in Type /\ t.chains = ch /\ t.mru = s.mru
      /\ SamePlace(s, t) /\ SameFocus(s, t) /\ t.map = s.map
  BY <1>1, <1>2, <1>6 DEF Type, SamePlace, SameFocus
<1>8. Once(<<>>) /\ \A x : ~Contains(<<>>, x)
  BY DEF Once, Contains
<1>9. ListsKnown(t, K)
  <2>1. ListsKnown(s, K)
    BY DEF Good, Known
  <2> QED
    BY <1>4, <1>6, <1>7, <1>8, <2>1 DEF ListsKnown, L
<1>10. Listed(t, K)
  <2> SUFFICES ASSUME NEW c \in K PROVE ListedAs(t, c)
    BY DEF Listed
  <2>1. t.desk = s.desk /\ t.wants = s.wants
    BY <1>7 DEF SamePlace
  <2>2. ListedAs(s, c)
    BY DEF Good, Listed
  <2>3. ASSUME s.desk[c] # OnAllDesktops, NEW d \in 1..n
        PROVE  Contains(ch[d], c) <=> c \in s.wants /\ d = s.desk[c]
    <3>1. CASE d \in 1..L /\ ch[d] = s.chains[d]
      BY <2>2, <2>3, <3>1 DEF ListedAs, L
    <3>2. CASE d \notin 1..L /\ ch[d] = <<>>
      <4>1. d # s.desk[c]
        BY <1>1, <3>2 DEF L
      <4> QED
        BY <1>8, <3>2, <4>1
    <3> QED
      BY <1>4, <3>1, <3>2
  <2> QED
    BY <1>6, <1>7, <2>1, <2>2, <2>3 DEF ListedAs
<1>11. Good(t, K)
  BY <1>7, <1>9, <1>10, StillGood
<1> QED
  BY <1>6, <1>7, <1>11

(* There is a list for every desktop, and clients are on desktops that     *)
(* exist.                                                                  *)
Sized(s) ==
    /\ Len(s.chains) = s.count /\ s.current <= s.count
    /\ \A c \in s.clients : s.desk[c] <= s.count

(* The state x when the first i clients have been sent to desktop n.       *)
SentUpTo(s, n, list, x, i) ==
    /\ Good(x, s.clients) /\ x.count = n /\ x.current <= n
    /\ x.clients = s.clients /\ Len(x.chains) = Len(s.chains)
    /\ \A j \in 1..i : list[j] \in s.clients => x.desk[list[j]] <= n
    /\ \A w \in s.clients : x.desk[w] = s.desk[w] \/ x.desk[w] <= n
    /\ \A w \in s.clients : x.desk[w] <= s.count

LEMMA SendsOne ==
    ASSUME NEW s, NEW n \in Desktops, NEW list, NEW under \in s.clients \cup {NoClient},
           NEW x, NEW i \in Nat, i >= 1, NEW y,
           s \in Type, SentUpTo(s, n, list, x, i - 1),
           y = sendFromRemoved(x, list[i], n, under)
    PROVE  SentUpTo(s, n, list, y, i)
<1> DEFINE c == list[i]
           no == FALSE
<1>0. y = IF c \in s.clients /\ x.desk[c] > n
          THEN sendClientToDesktop(x, c, n, no, under) ELSE x
  BY DEF sendFromRemoved, SentUpTo
<1> HIDE DEF no
<1>1. 1..i = 1..(i - 1) \cup {i}
  OBVIOUS
<1>2. s.clients \subseteq Clients /\ x \in Type /\ n \in Nat
      /\ \A w \in s.clients : x.desk[w] \in Nat
  BY DEF SentUpTo, Good, Known, Type, Desktops, OnAllDesktops
<1>3. CASE ~(c \in s.clients /\ x.desk[c] > n)
  <2>1. y = x
    BY <1>0, <1>3
  <2>2. c \in s.clients => x.desk[c] <= n
    BY <1>2, <1>3
  <2> QED
    BY <1>1, <2>1, <2>2 DEF SentUpTo
<1>4. CASE c \in s.clients /\ x.desk[c] > n
  <2>1. y = sendClientToDesktop(x, c, n, no, under)
    BY <1>0, <1>4
  <2> HIDE DEF c
  <2>2. Good(x, s.clients) /\ n <= x.count /\ n \in Desktops \cup {OnAllDesktops}
    BY <1>2 DEF SentUpTo
  <2>3. /\ Good(y, s.clients) /\ Len(y.chains) = Len(x.chains)
        /\ y.count = x.count /\ y.current = x.current /\ y.clients = x.clients
        /\ y.desk = [x.desk EXCEPT ![c] = n]
    BY <1>4, <2>1, <2>2, Sent
  <2>4. x.desk \in [Clients -> Desktops \cup {OnAllDesktops}]
    BY <1>2 DEF Type
  <2>5. \A w \in s.clients : y.desk[w] = IF w = c THEN n ELSE x.desk[w]
    BY <1>2, <2>3, <2>4
  <2>6. n <= s.count
    <3>1. s.count \in Nat /\ x.desk[c] <= s.count
      BY <1>4 DEF SentUpTo, Type, Desktops
    <3> QED
      BY <1>2, <1>4, <3>1
  <2>7. \A j \in 1..i : list[j] \in s.clients => y.desk[list[j]] <= n
    <3> SUFFICES ASSUME NEW j \in 1..i, list[j] \in s.clients
                 PROVE  y.desk[list[j]] <= n
      OBVIOUS
    <3>1. CASE list[j] = c
      BY <1>2, <2>5, <3>1
    <3>2. CASE list[j] # c
      <4>1. j \in 1..(i - 1)
        BY <1>1, <3>2 DEF c
      <4> QED
        BY <2>5, <3>2, <4>1 DEF SentUpTo
    <3> QED
      BY <3>1, <3>2
  <2>8. \A w \in s.clients : y.desk[w] = s.desk[w] \/ y.desk[w] <= n
    BY <1>2, <2>5 DEF SentUpTo
  <2>9. \A w \in s.clients : y.desk[w] <= s.count
    BY <2>5, <2>6 DEF SentUpTo
  <2> QED
    BY <2>3, <2>7, <2>8, <2>9 DEF SentUpTo
<1> QED
  BY <1>3, <1>4

LEMMA Counted ==
    ASSUME NEW s, NEW n \in Desktops, NEW order, NEW list,
           NEW under \in s.clients \cup {NoClient}, NEW t,
           Good(s, s.clients), Sized(s), s.current > n => Covers(s, order, n),
           Len(list) \in Nat,
           \A x \in s.clients : s.desk[x] > n => Contains(list, x),
           t = setCount(s, n, order, list, under)
    PROVE  Good(t, t.clients) /\ Sized(t) /\ t.count = n
<1> DEFINE K == s.clients
           m == Len(list)
           no == FALSE
           counted == [s EXCEPT !.count = n]
           current == IF counted.current > n
                      THEN setCurrent(counted, n, order, no) ELSE counted
           Step(x, i) == sendFromRemoved(x, list[i], n, under)
           Q(k) == k = [i \in 0..m |-> IF i = 0 THEN current
                        ELSE sendFromRemoved(k[i - 1], list[i], n, under)]
           S == [i \in 0..m |-> {x \in Type : SentUpTo(s, n, list, x, i)}]
           F == [i \in 1..m |-> [x \in S[i - 1] |-> Step(x, i)]]
           h == CHOOSE k : Q(k)
<1>1. t = resize(h[m], n)
  BY DEF setCount
<1> HIDE DEF no
<1>2. s \in Type /\ n \in Nat /\ s.count \in Nat /\ s.current \in Nat
      /\ \A w \in s.clients : s.desk[w] \in Nat
  BY DEF Good, Known, Type, Desktops, OnAllDesktops
<1>3. /\ counted \in Type /\ SameLists(s, counted) /\ SameFocus(s, counted)
      /\ counted.count = n /\ counted.current = s.current
      /\ counted.clients = s.clients /\ counted.desk = s.desk
      /\ counted.minimized = s.minimized /\ counted.wants = s.wants
      /\ counted.map = s.map
  BY <1>2 DEF Type, SameLists, SameFocus
<1> HIDE DEF counted
<1>4. Good(counted, K)
  <2>1. Known(counted, K)
    BY <1>3, SameListsKnown, SameFocusKnown DEF Good, Known
  <2>2. Listed(counted, K)
    BY <1>3 DEF Good, Listed, ListedAs, SameLists
  <2>3. Shown(counted, K)
    BY <1>3 DEF Good, Shown, isOnCurrentDesktop, isOnDesktop
  <2>4. ActiveShown(counted)
    BY <1>3 DEF Good, ActiveShown, SameFocus
  <2> QED
    BY <2>1, <2>2, <2>3, <2>4 DEF Good
<1>5. PICK first : /\ first = current /\ Good(first, K) /\ SameLists(s, first)
                   /\ first.count = n /\ first.current <= n
                   /\ first.clients = s.clients /\ first.desk = s.desk
  <2>1. CASE counted.current > n
    <3>1. Covers(counted, order, n)
      BY <1>3, <2>1 DEF Covers, Leaves, isOnDesktop
    <3>2. Ready(counted, K)
      BY <1>3, <1>4, GoodIsReady
    <3>3. current = setCurrent(counted, n, order, no)
      BY <2>1
    <3>4. n \in 1..counted.count /\ n \in Desktops \cup {OnAllDesktops}
      BY <1>2, <1>3 DEF Desktops
    <3> HIDE DEF current
    <3>5. Ready(current, K) /\ OnlyCurrent(counted, current, n)
      BY <3>1, <3>2, <3>3, <3>4, MadeCurrent
    <3>6. current.current = n /\ n <= n
      BY <1>2, <3>4, <3>5 DEF OnlyCurrent
    <3> QED
      BY <1>3, <3>5, <3>6 DEF Ready, Good, SameLists, OnlyCurrent
  <2>2. CASE ~(counted.current > n)
    <3>1. current = counted
      BY <2>2
    <3>2. counted.current <= n
      BY <1>2, <1>3, <2>2
    <3> HIDE DEF current
    <3> QED
      BY <1>3, <1>4, <3>1, <3>2
  <2> QED
    BY <2>1, <2>2
<1> HIDE DEF current
<1>6. current \in S[0]
  <2>1. SentUpTo(s, n, list, first, 0)
    BY <1>5 DEF SentUpTo, SameLists, Sized
  <2>2. first \in Type /\ 0 \in 0..m
    BY <1>5 DEF Good, Known
  <2> QED
    BY <1>5, <2>1, <2>2
<1>7. \A i \in 1..m : \A x \in S[i - 1] : Step(x, i) \in S[i]
  <2> SUFFICES ASSUME NEW i \in 1..m, NEW x \in S[i - 1] PROVE Step(x, i) \in S[i]
    OBVIOUS
  <2>1. i - 1 \in 0..m /\ i \in 0..m /\ i \in Nat /\ i >= 1
    OBVIOUS
  <2>2. SentUpTo(s, n, list, x, i - 1)
    BY <2>1
  <2>3. SentUpTo(s, n, list, Step(x, i), i)
    BY <1>2, <2>1, <2>2, SendsOne
  <2>4. Step(x, i) \in Type
    BY <2>3 DEF SentUpTo, Good, Known
  <2> HIDE DEF Step
  <2> QED
    BY <2>1, <2>3, <2>4
<1>8. \A i \in 1..m : \A x \in S[i - 1] : F[i][x] \in S[i]
  <2> HIDE DEF S, Step
  <2> QED
    BY <1>7
<1>9. PICK g : Computes(g, m, current, F, S)
  <2> HIDE DEF m, S, F
  <2> QED
    BY <1>6, <1>8, Recursion DEF m
<1>10. Q(g)
  <2>1. \A i \in 0..m : i # 0 => g[i] = Step(g[i - 1], i)
    <3> SUFFICES ASSUME NEW i \in 0..m, i # 0 PROVE g[i] = Step(g[i - 1], i)
      OBVIOUS
    <3>1. i \in 1..m /\ i - 1 \in 0..m
      OBVIOUS
    <3>2. g[i] = F[i][g[i - 1]] /\ g[i - 1] \in S[i - 1]
      BY <1>9, <3>1 DEF Computes
    <3> HIDE DEF S, Step
    <3> QED
      BY <3>1, <3>2
  <2>2. g[0] = current /\ g = [i \in 0..m |-> g[i]]
    BY <1>9 DEF Computes
  <2> QED
    BY <2>1, <2>2
<1>11. Q(h)
  <2> HIDE DEF Q
  <2> QED
    BY <1>10
<1>12. h[m] \in S[m]
  <2> HIDE DEF h
  <2>1. h[0] \in S[0]
    BY <1>6, <1>11
  <2>2. \A i \in 1..m : h[i] = Step(h[i - 1], i)
    <3> SUFFICES ASSUME NEW i \in 1..m PROVE h[i] = Step(h[i - 1], i)
      OBVIOUS
    <3>1. i \in 0..m /\ i # 0
      OBVIOUS
    <3> HIDE DEF m
    <3> QED
      BY <1>11, <3>1
  <2>3. \A i \in 1..m : h[i - 1] \in S[i - 1] => h[i] \in S[i]
    <3> HIDE DEF S, Step
    <3> QED
      BY <1>7, <2>2
  <2> HIDE DEF S, m
  <2>4. \A i \in 0..m : h[i] \in S[i]
    BY <2>1, <2>3, Carried DEF m
  <2> QED
    BY <2>4 DEF m
<1> HIDE DEF h
<1>13. PICK last : last = h[m] /\ SentUpTo(s, n, list, last, m)
  <2>1. m \in 0..m
    OBVIOUS
  <2> HIDE DEF m
  <2> QED
    BY <1>12, <2>1
<1>14. \A w \in K : last.desk[w] <= n
  <2> SUFFICES ASSUME NEW w \in K PROVE last.desk[w] <= n
    OBVIOUS
  <2>1. CASE s.desk[w] > n
    <3>1. PICK j \in 1..m : list[j] = w
      BY <2>1 DEF Contains
    <3> QED
      BY <1>13, <3>1 DEF SentUpTo
  <2>2. CASE ~(s.desk[w] > n)
    <3>1. s.desk[w] <= n
      BY <1>2, <2>2
    <3> QED
      BY <1>13, <3>1 DEF SentUpTo
  <2> QED
    BY <2>1, <2>2
<1>15. \A w \in K : last.desk[w] <= Len(last.chains)
  BY <1>13 DEF SentUpTo, Sized
<1>16. Good(last, K) /\ t = resize(last, n)
  BY <1>1, <1>13 DEF SentUpTo
<1>17. Good(t, K) /\ SamePlace(last, t) /\ Len(t.chains) = n
  BY <1>2, <1>15, <1>16, Resized
<1>18. /\ t.clients = K /\ t.count = n /\ t.current <= n
       /\ \A w \in K : t.desk[w] <= n
  BY <1>13, <1>14, <1>17 DEF SentUpTo, SamePlace
<1> QED
  BY <1>17, <1>18 DEF Sized

-----------------------------------------------------------------------------
(* Clients are activated, managed and released.                            *)

(* Only the focus has changed, and no other client is active.              *)
LEMMA FocusChanged ==
    ASSUME NEW s, NEW t, NEW K, Good(s, K), t \in Type, FocusKnown(t, K),
           SamePlace(s, t), SameLists(s, t), t.map = s.map,
           t.active \in {s.active, NoClient}
    PROVE  Good(t, K)
<1>1. Known(t, K)
  BY SameListsKnown DEF Good, Known
<1>2. Listed(t, K) /\ Shown(t, K)
  BY SameListed, SameShown DEF Good
<1>3. ActiveShown(t)
  BY DEF Good, ActiveShown
<1> QED
  BY <1>1, <1>2, <1>3 DEF Good

LEMMA SameSize ==
    ASSUME NEW s, NEW t, Sized(s), SamePlace(s, t), Len(t.chains) = Len(s.chains)
    PROVE  Sized(t)
BY DEF Sized, SamePlace

(* The answer to a request of the focus, and to those before it.           *)
LEMMA GotFocus ==
    ASSUME NEW s, NEW K, NEW c, NEW t, Good(s, K), t = gotFocusIn(s, c)
    PROVE  Good(t, K) /\ SamePlace(s, t) /\ SameLists(s, t) /\ SameActive(s, t)
<1>1. s \in Type /\ s.expected \in Seq(Clients)
  BY ListTypes DEF Good, Known
<1>2. CASE ~Contains(s.expected, c)
  <2>1. t = s
    BY <1>2 DEF gotFocusIn
  <2> QED
    BY <2>1 DEF SamePlace, SameLists, SameActive
<1>3. CASE Contains(s.expected, c)
  <2> DEFINE n == Len(s.expected)
             P == {i \in 1..n : s.expected[i] = c}
             k == Min(P)
             e == SubSeq(s.expected, k + 1, n)
  <2>1. t = [s EXCEPT !.expected = e]
    BY <1>1, <1>3 DEF gotFocusIn
  <2>2. n \in Nat /\ P # {} /\ P \in SUBSET (1..n)
    BY <1>1, <1>3 DEF Contains
  <2>3. k \in 1..n
    <3> HIDE DEF n, P
    <3> QED
      BY <2>2, MinPosition
  <2> HIDE DEF k
  <2>4. e \in Seq(Clients) /\ Len(e) = n - k
        /\ \A i \in 1..(n - k) : e[i] = s.expected[i + k]
    BY <1>1, <2>2, <2>3
  <2> HIDE DEF e
  <2>5. \A x : Contains(e, x) => Contains(s.expected, x)
    <3> SUFFICES ASSUME NEW i \in 1..Len(e) PROVE Contains(s.expected, e[i])
      BY DEF Contains
    <3>1. i + k \in 1..n /\ e[i] = s.expected[i + k]
      BY <2>2, <2>3, <2>4
    <3> QED
      BY <3>1 DEF Contains
  <2>6. /\ t \in Type /\ SamePlace(s, t) /\ SameLists(s, t) /\ SameActive(s, t)
        /\ t.expected = e /\ t.delayed = s.delayed /\ t.fault = s.fault
    <3>1. e \in Seq(Clients)
      BY <2>4
    <3> QED
      BY <1>1, <2>1, <3>1 DEF Type, SamePlace, SameLists, SameActive
  <2>7. FocusKnown(t, K)
    BY <2>5, <2>6 DEF Good, Known, FocusKnown, SameActive
  <2> QED
    BY <2>6, <2>7, FocusChanged DEF SameActive
<1> QED
  BY <1>2, <1>3

LEMMA ClientActivated ==
    ASSUME NEW s, NEW c \in s.clients, NEW order, NEW t,
           Good(s, s.clients), Sized(s),
           s.desk[c] \in Desktops /\ s.desk[c] # s.current
              => Covers(s, order, s.desk[c]),
           t = activateClient(s, c, order)
    PROVE  /\ Good(t, t.clients) /\ Sized(t) /\ t.clients = s.clients
           /\ Passed(t, t.clients)
<1> DEFINE K == s.clients
           yes == TRUE
           no == FALSE
           there == IF isOnCurrentDesktop(s, c) THEN s
                    ELSE setCurrent(s, s.desk[c], order, yes)
           up == unminimize(there, c)
<1>1. t = requestFocus(up, c, no)
  BY DEF activateClient
<1> HIDE DEF yes, no
<1>2. s.desk[c] \in Desktops \cup {OnAllDesktops} /\ Ready(s, K)
  BY GoodIsReady DEF Good, Known, Type
<1>3. PICK a : /\ a = there /\ Good(a, K) /\ Sized(a) /\ a.clients = K
               /\ isOnCurrentDesktop(a, c)
  <2>1. CASE isOnCurrentDesktop(s, c)
    BY <2>1
  <2>2. CASE ~isOnCurrentDesktop(s, c)
    <3> DEFINE d == s.desk[c]
               u == setCurrent(s, d, order, yes)
    <3>1. there = u
      BY <2>2
    <3>2. d \in Desktops \cup {OnAllDesktops}
          /\ (d \in Desktops /\ d # s.current => Covers(s, order, d))
      BY <1>2
    <3>3. d <= s.count /\ s.count \in Nat /\ s.current \in Nat
      BY DEF Sized, Good, Known, Type, Desktops
    <3>8. d \in 1..s.count /\ s.desk[c] = d
      <4>1. d # OnAllDesktops /\ d <= s.count /\ d \in Nat
        BY <1>2, <2>2 DEF isOnCurrentDesktop, isOnDesktop, Sized, Desktops,
                          OnAllDesktops
      <4> QED
        BY <3>3, <4>1 DEF OnAllDesktops
    <3> HIDE DEF d
    <3>4. Ready(u, K) /\ OnlyCurrent(s, u, d)
      BY <1>2, <3>2, MadeCurrent
    <3> HIDE DEF u
    <3>5. Good(u, K)
      BY <3>4 DEF Ready, Good, OnlyCurrent
    <3>6. u.current <= u.count
      BY <3>3, <3>4 DEF OnlyCurrent, Sized
    <3>7. Sized(u) /\ u.clients = K
      BY <3>4, <3>6 DEF OnlyCurrent, Sized, SameLists
    <3>9. isOnCurrentDesktop(u, c)
      BY <3>4, <3>8 DEF OnlyCurrent, isOnCurrentDesktop, isOnDesktop
    <3> QED
      BY <3>1, <3>5, <3>7, <3>9
  <2> QED
    BY <2>1, <2>2
<1>4. up = unminimize(a, c)
  BY <1>3
<1> HIDE DEF there, up
<1>5. /\ Good(up, K) /\ Len(up.chains) = Len(a.chains)
      /\ up.count = a.count /\ up.current = a.current /\ up.clients = a.clients
      /\ up.desk = a.desk /\ up.wants = a.wants
      /\ up.minimized = a.minimized \ {c}
  <2>1. c \in K /\ Good(a, K)
    BY <1>3
  <2> HIDE DEF K
  <2> QED
    BY <1>4, <2>1, Unminimized
<1>6. Sized(up)
  BY <1>3, <1>5 DEF Sized
<1>7. Good(t, K) /\ SamePlace(up, t) /\ SameLists(up, t)
  BY <1>1, <1>5, Asked
<1>8. Sized(t) /\ t.clients = K
  BY <1>3, <1>5, <1>6, <1>7, SameSize DEF SamePlace, SameLists
<1>9. Passed(t, K)
  <2>1. c \notin up.minimized /\ isOnCurrentDesktop(up, c)
    BY <1>3, <1>5 DEF isOnCurrentDesktop, isOnDesktop
  <2>2. up \in Type /\ K \subseteq Clients /\ c \in K /\ ~no
    BY <1>5 DEF Good, Known, no
  <2> HIDE DEF K
  <2> QED
    BY <1>1, <2>1, <2>2, AskedPasses
<1> QED
  BY <1>7, <1>8, <1>9

(* What manage() does to the state p for the client c: the desktop stays,  *)
(* or c's desktop becomes current and its most recent client is asked for. *)
StaysOrSwitches(p, K, c, desk, a) ==
    /\ a.wants = p.wants
    /\ \/ a.current = p.current /\ a.minimized \subseteq p.minimized \cup {c}
       \/ /\ a.current = desk /\ desk \in 1..p.count
          /\ a.minimized = p.minimized /\ a.chains = p.chains
          /\ Waiting(p, K, desk) => Passed(a, K)

(* Client::manage(): the client joins those of s.                          *)
LEMMA Managed ==
    ASSUME NEW s, NEW c \in Clients, c \notin s.clients, NEW desk \in 0..s.count,
           NEW asks \in {"minimized", "allowed", "refused"}, NEW order,
           NEW under \in s.clients \cup {NoClient}, NEW t,
           Good(s, s.clients), Sized(s),
           asks = "allowed" /\ desk \in Desktops /\ desk # s.current
              => Covers(s, order, desk),
           t = manage(s, c, desk, asks, order, under)
    PROVE  Good(t, t.clients) /\ Sized(t) /\ PassesOn(s, t)
<1> DEFINE K == s.clients \cup {c}
           no == FALSE
           new == [s EXCEPT !.desk[c] = desk]
           placed == update(updateVisibility(new, c, no), c, "MakeFirst")
           there == CASE asks = "minimized" -> minimize(placed, c)
                      [] asks = "allowed" -> setCurrent(placed, desk, order, no)
                      [] asks = "refused" ->
                           IF isOnCurrentDesktop(placed, c)
                           THEN restackClientUnderActive(placed, c, under)
                           ELSE placed
           shown == updateVisibility(there, c, no)
           asked == IF asks = "allowed" /\ c \in s.wants
                    THEN requestFocus(shown, c, no) ELSE shown
           last == update(asked, c, "Update")
<1>1. t = [last EXCEPT !.clients = last.clients \cup {c}]
  BY Zenon DEF manage
<1> HIDE DEF no
<1>2. /\ s \in Type /\ s.clients \subseteq Clients /\ K \subseteq Clients
      /\ s.count \in Desktops /\ s.current \in Nat /\ K \ {c} = s.clients
      /\ desk \in Desktops \cup {OnAllDesktops} /\ desk \in Nat /\ desk <= s.count
  <2>1. s \in Type
    BY DEF Good, Known
  <2>2. /\ s.clients \subseteq Clients /\ s.count \in Desktops /\ s.current \in Desktops
    BY <2>1 DEF Type
  <2>3. /\ s.count \in Nat /\ s.count <= MaxDesktops /\ s.current \in Nat
    BY <2>2, MaxDesktopsAssumption DEF Desktops
  <2>4. /\ desk \in Desktops \cup {OnAllDesktops} /\ desk \in Nat /\ desk <= s.count
    BY <2>3, MaxDesktopsAssumption DEF Desktops, OnAllDesktops
  <2> QED
    BY <2>1, <2>2, <2>3, <2>4
<1>3. /\ new \in Type /\ SameLists(s, new) /\ SameFocus(s, new) /\ new.map = s.map
      /\ new.count = s.count /\ new.current = s.current
      /\ new.clients = s.clients /\ new.minimized = s.minimized
      /\ new.wants = s.wants /\ new.desk[c] = desk
      /\ \A x \in s.clients : new.desk[x] = s.desk[x]
  BY <1>2 DEF Type, SameLists, SameFocus
<1> HIDE DEF new
<1>4. Known(new, K) /\ Listed(new, K \ {c}) /\ Shown(new, K \ {c}) /\ ActiveShown(new)
  <2>1. ListsKnown(s, K) /\ FocusKnown(s, K)
    BY DEF Good, Known, ListsKnown, FocusKnown
  <2>2. Known(new, K)
    BY <1>2, <1>3, <2>1, SameListsKnown, SameFocusKnown DEF Known
  <2>3. Listed(new, s.clients)
    BY <1>3 DEF Good, Listed, ListedAs, SameLists
  <2>4. Shown(new, s.clients)
    BY <1>3 DEF Good, Shown, isOnCurrentDesktop, isOnDesktop
  <2>5. ActiveShown(new)
    BY <1>3 DEF Good, ActiveShown, SameFocus
  <2> QED
    BY <1>2, <2>2, <2>3, <2>4, <2>5
<1>5. Good(placed, K) /\ SamePlace(new, placed) /\ Len(placed.chains) = Len(new.chains)
  BY <1>4, Settled
<1> HIDE DEF placed
<1>6. /\ placed.count = s.count /\ placed.current = s.current
      /\ placed.clients = s.clients /\ Len(placed.chains) = Len(s.chains)
      /\ placed.desk = new.desk
  BY <1>3, <1>5 DEF SamePlace, SameLists
<1>7. Ready(placed, K)
  BY <1>5, <1>6, GoodIsReady
<1>8. PICK a : /\ a = there /\ Ready(a, K) /\ Len(a.chains) = Len(s.chains)
               /\ a.count = s.count /\ a.current <= s.count
               /\ a.clients = s.clients /\ a.desk = new.desk
               /\ StaysOrSwitches(placed, K, c, desk, a)
  <2>1. CASE asks = "minimized"
    <3> DEFINE u == minimize(placed, c)
    <3>1. there = u
      BY <2>1
    <3>2. /\ Good(u, K) /\ Len(u.chains) = Len(placed.chains)
          /\ u.count = placed.count /\ u.current = placed.current
          /\ u.clients = placed.clients /\ u.desk = placed.desk
          /\ u.wants = placed.wants /\ u.minimized = placed.minimized \cup {c}
      <4>1. Good(placed, K) /\ c \in K
        BY <1>5
      <4>2. PICK w : w = minimize(placed, c)
        OBVIOUS
      <4> HIDE DEF K
      <4>3. /\ Good(w, K) /\ Len(w.chains) = Len(placed.chains)
            /\ w.count = placed.count /\ w.current = placed.current
            /\ w.clients = placed.clients /\ w.desk = placed.desk
            /\ w.wants = placed.wants /\ MinimizedToo(placed, c, w)
        BY <4>1, <4>2, Minimized
      <4> QED
        BY <4>2, <4>3 DEF MinimizedToo
    <3> HIDE DEF u
    <3>3. Ready(u, K)
      BY <1>6, <3>2, GoodIsReady
    <3> QED
      BY <1>6, <3>1, <3>2, <3>3 DEF Sized, StaysOrSwitches
  <2>2. CASE asks = "allowed"
    <3> DEFINE u == setCurrent(placed, desk, order, no)
    <3>1. there = u
      BY <2>2
    <3>2. desk \in Desktops /\ desk # placed.current => Covers(placed, order, desk)
      BY <1>3, <1>6, <2>2 DEF Covers, Leaves, isOnDesktop
    <3>3. /\ Ready(u, K) /\ OnlyCurrent(placed, u, desk)
          /\ ~no /\ desk \in 1..placed.count /\ desk # placed.current
                /\ Waiting(placed, K, desk) => Passed(u, K)
      BY <1>2, <1>7, <3>2, MadeCurrent
    <3> HIDE DEF u
    <3>5. StaysOrSwitches(placed, K, c, desk, u)
      <4>1. ~no
        BY DEF no
      <4> QED
        BY <3>3, <4>1 DEF OnlyCurrent, SameLists, StaysOrSwitches
    <3>4. u.current <= s.count
      BY <1>2, <1>6, <3>3 DEF OnlyCurrent, Sized
    <3> QED
      BY <1>6, <3>1, <3>3, <3>4, <3>5 DEF OnlyCurrent, SameLists
  <2>3. CASE asks = "refused"
    <3>1. \/ there = restackClientUnderActive(placed, c, under)
          \/ there = placed
      BY <2>3
    <3>2. CASE there = placed
      BY <1>6, <1>7, <3>2 DEF Sized, StaysOrSwitches
    <3>3. CASE there = restackClientUnderActive(placed, c, under)
      <4> DEFINE u == restackClientUnderActive(placed, c, under)
      <4>1. Good(u, K) /\ SamePlace(placed, u) /\ Len(u.chains) = Len(placed.chains)
        <5>1. under \in K \cup {NoClient} /\ c \in K /\ Good(placed, K)
          BY <1>5
        <5> HIDE DEF K
        <5> QED
          BY <5>1, Restacked
      <4> HIDE DEF u
      <4>2. u.clients = s.clients
        BY <1>6, <4>1 DEF SamePlace
      <4>3. Ready(u, K)
        BY <4>1, <4>2, GoodIsReady
      <4>4. there = u
        BY <3>3 DEF u
      <4> HIDE DEF there
      <4> QED
        BY <1>6, <4>1, <4>3, <4>4 DEF Sized, SamePlace, StaysOrSwitches
    <3> QED
      BY <3>1, <3>2, <3>3
  <2> QED
    BY <2>1, <2>2, <2>3
<1>9. shown = updateVisibility(a, c, no)
  BY <1>8
<1> HIDE DEF there, shown
<1>10. /\ Known(shown, K) /\ SamePlace(a, shown) /\ SameLists(a, shown)
       /\ Shown(shown, K) /\ ActiveShown(shown)
  <2>1. Known(a, K) /\ Shown(a, K \ {c}) /\ ActiveShown(a)
    BY <1>2, <1>8 DEF Ready
  <2> QED
    BY <1>9, <2>1, ShownAgain
<1>11. Good(shown, K)
  BY <1>8, <1>10, SameListed DEF Good, Ready
<1>12. PICK b : /\ b = asked /\ Good(b, K) /\ SamePlace(shown, b)
                /\ SameLists(shown, b)
  <2>1. CASE asked = requestFocus(shown, c, no)
    BY <1>11, <2>1, Asked
  <2>2. CASE asked = shown
    BY <1>11, <2>2 DEF SamePlace, SameLists
  <2> QED
    BY <2>1, <2>2
<1>13. last = update(b, c, "Update")
  BY <1>12
<1> HIDE DEF asked, last
<1>14. /\ last \in Type /\ Len(last.chains) = Len(b.chains) /\ ListsKnown(last, K)
       /\ SamePlace(b, last) /\ SameFocus(b, last) /\ last.map = b.map
       /\ Listed(last, K)
  <2>1. b \in Type /\ ListsKnown(b, K) /\ Listed(b, K \ {c})
    BY <1>12 DEF Good, Known, Listed
  <2> QED
    BY <1>2, <1>13, <2>1, Updated
<1>15. Good(last, K)
  BY <1>12, <1>14, StillGood
<1>16. /\ last.count = s.count /\ last.current <= s.count
       /\ last.clients = s.clients /\ last.desk = new.desk
       /\ Len(last.chains) = Len(s.chains)
  BY <1>8, <1>10, <1>12, <1>14 DEF SamePlace, SameLists
<1>17. /\ t \in Type /\ SameLists(last, t) /\ SameFocus(last, t)
       /\ t.map = last.map /\ t.count = last.count /\ t.current = last.current
       /\ t.clients = K /\ t.desk = last.desk
       /\ t.minimized = last.minimized /\ t.wants = last.wants
  BY <1>1, <1>2, <1>14, <1>16 DEF Type, SameLists, SameFocus
<1>18. Good(t, K)
  <2>1. Known(t, K)
    BY <1>15, <1>17, SameListsKnown, SameFocusKnown DEF Good, Known
  <2>2. Listed(t, K)
    BY <1>15, <1>17 DEF Good, Listed, ListedAs, SameLists
  <2>3. Shown(t, K)
    BY <1>15, <1>17 DEF Good, Shown, isOnCurrentDesktop, isOnDesktop
  <2>4. ActiveShown(t)
    BY <1>15, <1>17 DEF Good, ActiveShown, SameFocus
  <2> QED
    BY <2>1, <2>2, <2>3, <2>4 DEF Good
<1>19. Sized(t)
  <2>1. \A x \in K : t.desk[x] <= s.count
    BY <1>2, <1>3, <1>16, <1>17 DEF Sized
  <2> QED
    BY <1>16, <1>17, <2>1 DEF Sized, SameLists
<1>20. PassesOn(s, t)
  <2> SUFFICES ASSUME s.active # NoClient, ~visible(t, s.active), Wanted(t)
               PROVE  Passed(t, K)
    BY <1>17 DEF PassesOn
  <2>1. /\ s.active \in s.clients \ s.minimized /\ s.active # c
        /\ isOnCurrentDesktop(s, s.active)
    BY DEF Good, Known, FocusKnown, Shown, ActiveShown
  <2>2. /\ t.current = a.current /\ t.minimized = a.minimized
        /\ t.wants = a.wants /\ t.desk = new.desk
    BY <1>10, <1>12, <1>14, <1>16, <1>17 DEF SamePlace
  <2>3. placed.minimized = s.minimized /\ placed.current = s.current
    BY <1>3, <1>5 DEF SamePlace
  <2>4. ~(t.current = s.current /\ t.minimized \subseteq s.minimized \cup {c})
    BY <1>3, <1>17, <2>1, <2>2 DEF visible, isOnCurrentDesktop, isOnDesktop
  <2>5. /\ a.wants = placed.wants /\ a.current = desk /\ desk \in 1..placed.count
        /\ a.minimized = placed.minimized /\ a.chains = placed.chains
        /\ Waiting(placed, K, desk) => Passed(a, K)
    BY <1>8, <2>2, <2>3, <2>4 DEF StaysOrSwitches
  <2>6. PICK y \in K \ a.minimized : y \in placed.wants /\ placed.desk[y] = desk
    BY <1>6, <1>17, <2>2, <2>5 DEF Wanted, visible, isOnCurrentDesktop, isOnDesktop
  <2>7. Waiting(placed, K, desk)
    <3>1. desk # OnAllDesktops /\ desk \in 1..Len(placed.chains)
      BY <1>6, <2>5 DEF OnAllDesktops, Sized
    <3> HIDE DEF K
    <3> QED
      BY <1>7, <2>5, <2>6, <3>1, SomeoneWaits DEF Ready
  <2>8. Passed(a, K) /\ Waiting(a, K, a.current)
    BY <2>5, <2>7 DEF Waiting
  <2>9. isOnCurrentDesktop(a, c)
    BY <1>3, <1>8, <2>5 DEF isOnCurrentDesktop, isOnDesktop
  <2>10. Passed(shown, K)
    <3>1. CASE c \notin a.minimized
      <4>1. shown = [a EXCEPT !.map[c] = "Mapped"]
        BY <1>9, <2>9, <3>1 DEF updateVisibility, shownAs
      <4>2. shown.expected = a.expected
        BY <1>8, <4>1 DEF Ready, Known, Type
      <4> QED
        BY <1>10, <2>8, <4>2, PassedStays
    <3>2. CASE c \in a.minimized
      <4>1. Passed(a, K \ {c}) /\ Waiting(a, K \ {c}, a.current)
        BY <2>8, <3>2 DEF Passed, Waiting
      <4>2. Known(a, K) /\ Listed(a, K \ {c}) /\ c \in K /\ ~no
        BY <1>8 DEF Ready, Listed, no
      <4> HIDE DEF K
      <4>3. Passed(shown, K \ {c})
        BY <1>9, <4>1, <4>2, VisibilityPasses
      <4> QED
        BY <4>3 DEF Passed
    <3> QED
      BY <3>1, <3>2
  <2>11. Passed(b, K)
    <3>1. b = shown \/ b = requestFocus(shown, c, no)
      BY <1>12 DEF asked
    <3>2. isOnCurrentDesktop(shown, c) /\ shown \in Type
          /\ K \subseteq Clients /\ c \in K /\ ~no
      BY <1>2, <1>10, <2>9 DEF Known, SamePlace, isOnCurrentDesktop, isOnDesktop, no
    <3> HIDE DEF K
    <3> QED
      BY <2>10, <3>1, <3>2, AskedPasses
  <2>12. Passed(last, K)
    BY <1>14, <2>11, PassedStays DEF SameFocus
  <2> QED
    BY <1>17, <2>12 DEF Passed, SameFocus, isOnCurrentDesktop, isOnDesktop
<1> QED
  BY <1>17, <1>18, <1>19, <1>20

(* Workspace::removeClient(): no pointer to the client is left.            *)
LEMMA Released ==
    ASSUME NEW s, NEW c \in s.clients, NEW t, Good(s, s.clients), Sized(s),
           t = release(s, c)
    PROVE  Good(t, t.clients) /\ Sized(t) /\ PassesOn(s, t)
<1> DEFINE K == s.clients
           no == FALSE
           next == activateNextClient(s, c, no)
           gone == remove(next, c)
           e == removeAll(gone.expected, c)
<1>1. t = [gone EXCEPT !.expected = e, !.clients = gone.clients \ {c},
                       !.last = IF gone.last = c THEN NoClient ELSE gone.last,
                       !.delayed = IF gone.delayed = c THEN NoClient ELSE gone.delayed,
                       !.minimized = gone.minimized \ {c}, !.wants = gone.wants \ {c},
                       !.desk[c] = OnAllDesktops, !.map[c] = "Unmapped",
                       !.fault = gone.fault \/ gone.active = c]
  BY DEF release
<1> HIDE DEF no
<1>2. /\ Known(next, K) /\ SamePlace(s, next) /\ SameLists(s, next)
      /\ next.map = s.map /\ next.active = IF s.active = c THEN NoClient ELSE s.active
  BY NextActivated DEF Good
<1>3. c \in Clients /\ c # NoClient
  BY ClientsAssumption DEF Good, Known
<1> HIDE DEF next
<1>4. Listed(next, K)
  BY <1>2, SameListed DEF Good
<1>5. /\ gone \in Type /\ Len(gone.chains) = Len(next.chains)
      /\ ListsKnown(gone, K \ {c}) /\ SamePlace(next, gone)
      /\ SameFocus(next, gone) /\ gone.map = next.map /\ Listed(gone, K \ {c})
  <2>1. next \in Type /\ K \subseteq Clients /\ ListsKnown(next, K)
    BY <1>2 DEF Known
  <2> HIDE DEF K
  <2>2. PICK u : u = gone
    OBVIOUS
  <2>3. u = remove(next, c)
    BY <2>2
  <2> HIDE DEF gone
  <2> QED
    BY <1>4, <2>1, <2>2, <2>3, Removed
<1> HIDE DEF gone
<1>6. /\ e \in Seq(Clients)
      /\ \A x : Contains(e, x) <=> x # c /\ Contains(gone.expected, x)
      /\ gone.expected # <<>> /\ Last(gone.expected) # c
            => e # <<>> /\ Last(e) = Last(gone.expected)
  BY <1>5, ListTypes, RemoveAll
<1> HIDE DEF e
<1>7. gone.active # c
  BY <1>2, <1>3, <1>5 DEF SameFocus
<1>8. FocusKnown(gone, K)
  BY <1>2, <1>5, SameFocusKnown DEF Known
<1>9. /\ t \in Type /\ SameLists(gone, t) /\ t.count = gone.count
      /\ t.current = gone.current /\ t.clients = gone.clients \ {c}
      /\ t.minimized = gone.minimized \ {c} /\ t.wants = gone.wants \ {c}
      /\ \A x \in Clients : x # c => t.desk[x] = gone.desk[x] /\ t.map[x] = gone.map[x]
      /\ t.expected = e /\ t.active = gone.active
      /\ t.last = (IF gone.last = c THEN NoClient ELSE gone.last)
      /\ t.delayed = (IF gone.delayed = c THEN NoClient ELSE gone.delayed)
  <2>1. e \in Seq(Clients) /\ gone \in Type
    BY <1>5, <1>6
  <2> DEFINE l == IF gone.last = c THEN NoClient ELSE gone.last
             y == IF gone.delayed = c THEN NoClient ELSE gone.delayed
             k == gone.clients \ {c}
             m == gone.minimized \ {c}
             w == gone.wants \ {c}
             p == [gone.desk EXCEPT ![c] = OnAllDesktops]
             v == [gone.map EXCEPT ![c] = "Unmapped"]
             b == gone.fault \/ gone.active = c
  <2>2. t = [gone EXCEPT !.expected = e, !.clients = k, !.last = l, !.delayed = y,
                         !.minimized = m, !.wants = w, !.desk = p, !.map = v,
                         !.fault = b]
    BY <1>1, <2>1 DEF Type
  <2>3. /\ l \in Clients \cup {NoClient} /\ y \in Clients \cup {NoClient}
        /\ k \in SUBSET Clients /\ m \in SUBSET Clients /\ w \in SUBSET Clients
        /\ p \in [Clients -> Desktops \cup {OnAllDesktops}]
        /\ v \in [Clients -> {"Mapped", "Kept", "Unmapped"}] /\ b \in BOOLEAN
    BY <2>1 DEF Type
  <2>4. \A x \in Clients : x # c => p[x] = gone.desk[x] /\ v[x] = gone.map[x]
    BY <2>1 DEF Type
  <2>5. /\ t \in Type /\ SameLists(gone, t) /\ t.count = gone.count
        /\ t.current = gone.current /\ t.clients = k
        /\ t.minimized = m /\ t.wants = w /\ t.desk = p /\ t.map = v
        /\ t.expected = e /\ t.active = gone.active /\ t.last = l /\ t.delayed = y
    <3> HIDE DEF l, y, k, m, w, p, v, b
    <3>1. PICK g : g = [gone EXCEPT !.expected = e, !.clients = k, !.last = l,
                                    !.delayed = y, !.minimized = m]
      OBVIOUS
    <3>2. /\ g \in Type /\ SameLists(gone, g) /\ g.count = gone.count
          /\ g.current = gone.current /\ g.clients = k /\ g.minimized = m
          /\ g.expected = e /\ g.active = gone.active /\ g.last = l /\ g.delayed = y
      BY <2>1, <2>3, <3>1 DEF Type, SameLists
    <3>3. t = [g EXCEPT !.wants = w, !.desk = p, !.map = v, !.fault = b]
      BY <2>1, <2>2, <3>1 DEF Type
    <3>4. /\ t \in Type /\ SameLists(g, t) /\ t.count = g.count
          /\ t.current = g.current /\ t.clients = g.clients
          /\ t.minimized = g.minimized /\ t.wants = w /\ t.desk = p /\ t.map = v
          /\ t.expected = g.expected /\ t.active = g.active /\ t.last = g.last
          /\ t.delayed = g.delayed
      BY <2>3, <3>2, <3>3 DEF Type, SameLists
    <3> QED
      BY <3>2, <3>4 DEF SameLists
  <2> QED
    BY <2>4, <2>5
<1>10. t.fault = FALSE
  BY <1>1, <1>5, <1>7, <1>8 DEF Type, FocusKnown
<1>11. t.clients = K \ {c} /\ K \ {c} \subseteq Clients
  BY <1>2, <1>5, <1>9 DEF SamePlace, Known
<1>12. FocusKnown(t, K \ {c})
  BY <1>6, <1>7, <1>8, <1>9, <1>10 DEF FocusKnown
<1>13. Known(t, K \ {c})
  BY <1>5, <1>9, <1>11, <1>12, SameListsKnown DEF Known
<1>14. Listed(t, K \ {c})
  BY <1>5, <1>9, <1>11 DEF Listed, ListedAs, SameLists
<1>15. Shown(t, K \ {c})
  <2>1. Shown(gone, K)
    BY <1>2, <1>5, SameShown DEF Good
  <2> QED
    BY <1>9, <1>11, <2>1 DEF Shown, isOnCurrentDesktop, isOnDesktop
<1>16. ActiveShown(t)
  <2> SUFFICES ASSUME t.active # NoClient PROVE t.map[t.active] = "Mapped"
    BY DEF ActiveShown
  <2>1. t.active \in Clients /\ t.active # c
    BY <1>7, <1>9, <1>11, <1>12 DEF FocusKnown
  <2>2. gone.map = s.map /\ gone.active = s.active
    BY <1>2, <1>5, <1>9 DEF SameFocus
  <2>3. s.map[s.active] = "Mapped"
    BY <1>9, <2>2 DEF Good, ActiveShown
  <2> QED
    BY <1>9, <2>1, <2>2, <2>3
<1>17. Good(t, t.clients)
  BY <1>11, <1>13, <1>14, <1>15, <1>16 DEF Good
<1>18. Sized(t)
  BY <1>2, <1>5, <1>9, <1>11 DEF Sized, SamePlace, SameLists
<1>19. PassesOn(s, t)
  <2> SUFFICES ASSUME s.active # NoClient, ~visible(t, s.active), Wanted(t)
               PROVE  Passed(t, K \ {c})
    BY <1>11 DEF PassesOn
  <2>1. /\ s.active \in K \ s.minimized /\ isOnCurrentDesktop(s, s.active)
    BY DEF Good, Known, FocusKnown, Shown, ActiveShown
  <2>2. SamePlace(s, gone) /\ K \subseteq Clients
    BY <1>2, <1>5 DEF SamePlace, Known
  <2>3. s.active = c
    BY <1>9, <1>11, <2>1, <2>2 DEF visible, SamePlace, isOnCurrentDesktop, isOnDesktop
  <2>4. PICK y \in (K \ {c}) \ s.minimized : y \in s.wants /\ s.desk[y] = s.current
                                            /\ s.desk[y] # OnAllDesktops
    BY <1>9, <1>11, <2>2 DEF Wanted, visible, SamePlace, isOnCurrentDesktop, isOnDesktop
  <2>5. Known(s, K) /\ Listed(s, K \ {c}) /\ c \in K
    BY DEF Good, Listed
  <2>6. Waiting(s, K \ {c}, s.current)
    <3> DEFINE L == K \ {c}
    <3>1. s.current \in 1..Len(s.chains)
      <4>1. s.current \in Nat /\ s.current >= 1
        BY <2>5 DEF Known, Type, Desktops
      <4> QED
        BY <4>1 DEF Sized
    <3>2. y \in L /\ Listed(s, L)
      BY <2>4, <2>5
    <3> HIDE DEF L
    <3> QED
      BY <2>4, <3>1, <3>2, SomeoneWaits DEF L
  <2>7. Passed(next, K \ {c})
    <3>1. next = activateNextClient(s, c, no) /\ ~no
      BY DEF next, no
    <3> HIDE DEF K
    <3> QED
      BY <2>3, <2>5, <2>6, <3>1, NextPassed
  <2>8. Passed(gone, K \ {c})
    BY <1>5, <2>7, PassedStays DEF SameFocus
  <2> QED
    <3>1. /\ gone.expected # <<>> /\ isOnCurrentDesktop(gone, Last(gone.expected))
          /\ Last(gone.expected) \in (K \ {c}) \ gone.minimized
      BY <2>8 DEF Passed
    <3>2. t.expected # <<>> /\ Last(t.expected) = Last(gone.expected)
      BY <1>6, <1>9, <3>1
    <3> QED
      BY <1>9, <2>2, <3>1, <3>2 DEF Passed, isOnCurrentDesktop, isOnDesktop
<1> QED
  BY <1>17, <1>18, <1>19

-----------------------------------------------------------------------------
(* The inductive invariant, and the steps that keep it.                    *)

(* Good says of the lists, the pointers and the windows what the           *)
(* properties say, and that a window is mapped exactly when it can be      *)
(* seen, which makes clientHidden() pass the focus on; Sized that clients  *)
(* are on desktops that have a list.                                       *)
ActivationInv == Good(f, f.clients) /\ Sized(f)

LEMMA InitInv ==
    ASSUME Init
    PROVE  ActivationInv
<1>1. PICK n \in Desktops :
        f = [count |-> n, current |-> 1, chains |-> [d \in 1..n |-> <<>>],
             mru |-> <<>>, active |-> NoClient, last |-> NoClient,
             expected |-> <<>>, delayed |-> NoClient, clients |-> {},
             desk |-> [c \in Clients |-> OnAllDesktops], minimized |-> {},
             map |-> [c \in Clients |-> "Unmapped"], wants |-> {},
             fault |-> FALSE]
  BY DEF Init
<1> DEFINE ch == [d \in 1..n |-> <<>>]
<1>2. n \in Nat /\ n >= 1 /\ 1 \in Desktops
  BY MaxDesktopsAssumption DEF Desktops
<1>3. /\ ch \in Seq(Seq(Clients)) /\ Len(ch) = n
  <2>1. DOMAIN ch = 1..n /\ ch = [d \in 1..n |-> ch[d]]
        /\ \A d \in 1..n : ch[d] \in Seq(Clients)
    OBVIOUS
  <2> HIDE DEF ch
  <2> QED
    BY <1>2, <2>1, MadeOf
<1>4. \A d \in 1..n : ch[d] = <<>>
  OBVIOUS
<1>5. /\ f.count = n /\ f.current = 1 /\ f.chains = ch /\ f.mru = <<>>
      /\ f.active = NoClient /\ f.last = NoClient /\ f.expected = <<>>
      /\ f.delayed = NoClient /\ f.clients = {} /\ f.fault = FALSE
  BY <1>1
<1>6. f \in Type
  <2> HIDE DEF ch
  <2>1. f = [count |-> n, current |-> 1, chains |-> ch,
             mru |-> <<>>, active |-> NoClient, last |-> NoClient,
             expected |-> <<>>, delayed |-> NoClient, clients |-> {},
             desk |-> [c \in Clients |-> OnAllDesktops], minimized |-> {},
             map |-> [c \in Clients |-> "Unmapped"], wants |-> {},
             fault |-> FALSE]
    BY <1>1 DEF ch
  <2> QED
    BY <1>2, <1>3, <2>1 DEF Type
<1> HIDE DEF ch
<1>7. Once(<<>>) /\ \A x : ~Contains(<<>>, x)
  BY DEF Once, Contains
<1>8. ListsKnown(f, {}) /\ FocusKnown(f, {})
  BY <1>3, <1>4, <1>5, <1>7 DEF ListsKnown, FocusKnown
<1>9. Good(f, {})
  BY <1>5, <1>6, <1>8 DEF Good, Known, Listed, Shown, ActiveShown
<1> QED
  BY <1>2, <1>3, <1>5, <1>9 DEF ActivationInv, Sized

(* The types of what the steps choose.                                     *)
LEMMA Chosen ==
    ASSUME ActivationInv
    PROVE  /\ f \in Type /\ f.clients \subseteq Clients
           /\ f.count \in Desktops /\ f.current \in Desktops
           /\ f.count \in Nat /\ f.count <= MaxDesktops /\ f.current \in Nat
           /\ Unders \subseteq f.clients \cup {NoClient}
           /\ \A c \in Clients : f.desk[c] \in Desktops \cup {OnAllDesktops}
<1>1. f \in Type
  BY DEF ActivationInv, Good, Known
<1>2. /\ f.clients \subseteq Clients /\ f.count \in Desktops /\ f.current \in Desktops
      /\ \A c \in Clients : f.desk[c] \in Desktops \cup {OnAllDesktops}
  BY <1>1 DEF Type
<1>3. f.count \in Nat /\ f.count <= MaxDesktops /\ f.current \in Nat
  BY <1>2, MaxDesktopsAssumption DEF Desktops
<1>4. Unders \subseteq f.clients \cup {NoClient}
  BY DEF Unders
<1> QED
  BY <1>1, <1>2, <1>3, <1>4

LEMMA LeavingCovers ==
    ASSUME ActivationInv, NEW d \in Desktops, d # f.current, NEW order \in Leaving(d)
    PROVE  Covers(f, order, d)
<1> DEFINE S == {c \in f.clients : ~isOnDesktop(f, c, d)}
<1>1. d # OnAllDesktops
  BY DEF Desktops, OnAllDesktops
<1>2. order \in Orders[S]
  BY <1>1 DEF Leaving
<1>3. S \in SUBSET Clients
  BY Chosen
<1>4. \A x : Leaves(f, x, d) => x \in S
  BY DEF Leaves
<1> HIDE DEF S
<1>5. Len(order) \in Nat /\ \A x \in S : Contains(order, x)
  BY <1>2, <1>3, Ordered
<1> QED
  BY <1>4, <1>5 DEF Covers

LEMMA ManageInv ==
    ASSUME ActivationInv, NEW c \in Clients, Manage(c)
    PROVE  ActivationInv' /\ PassesOn(f, f')
<1>1. PICK desk \in 0..f.count, wants \in BOOLEAN :
         LET new == [f EXCEPT !.wants = IF wants THEN @ \cup {c} ELSE @] IN
         \/ f' = manage(new, c, desk, "minimized", <<>>, NoClient)
         \/ \E order \in Leaving(desk) :
               f' = manage(new, c, desk, "allowed", order, NoClient)
         \/ \E under \in Unders :
               f' = manage(new, c, desk, "refused", <<>>, under)
  BY DEF Manage
<1> DEFINE w == IF wants THEN f.wants \cup {c} ELSE f.wants
           g == [f EXCEPT !.wants = w]
<1>2. \/ f' = manage(g, c, desk, "minimized", <<>>, NoClient)
      \/ \E order \in Leaving(desk) :
            f' = manage(g, c, desk, "allowed", order, NoClient)
      \/ \E under \in Unders :
            f' = manage(g, c, desk, "refused", <<>>, under)
  BY <1>1
<1>3. c \notin f.clients /\ f \in Type
  BY Chosen DEF Manage
<1>4. w \in SUBSET Clients /\ \A x \in f.clients : x \in w <=> x \in f.wants
  BY <1>3 DEF Type
<1>5. /\ g \in Type /\ SameLists(f, g) /\ SameFocus(f, g) /\ g.map = f.map
      /\ g.count = f.count /\ g.current = f.current /\ g.clients = f.clients
      /\ g.desk = f.desk /\ g.minimized = f.minimized /\ g.wants = w
  <2> HIDE DEF w
  <2> QED
    BY <1>3, <1>4 DEF Type, SameLists, SameFocus
<1> HIDE DEF g, w
<1>6. Good(g, g.clients)
  <2>1. Known(g, f.clients)
    BY <1>5, SameListsKnown, SameFocusKnown DEF ActivationInv, Good, Known
  <2>2. Listed(g, f.clients)
    BY <1>4, <1>5 DEF ActivationInv, Good, Listed, ListedAs, SameLists
  <2>3. Shown(g, f.clients)
    BY <1>5 DEF ActivationInv, Good, Shown, isOnCurrentDesktop, isOnDesktop
  <2>4. ActiveShown(g)
    BY <1>5 DEF ActivationInv, Good, ActiveShown, SameFocus
  <2> QED
    BY <1>5, <2>1, <2>2, <2>3, <2>4 DEF Good
<1>7. Sized(g)
  BY <1>5 DEF ActivationInv, Sized, SameLists
<1>8. c \notin g.clients /\ desk \in 0..g.count /\ Unders \subseteq g.clients \cup {NoClient}
  BY <1>3, <1>5, Chosen
<1>9. \A order \in Leaving(desk) :
         desk \in Desktops /\ desk # g.current => Covers(g, order, desk)
  BY <1>5, LeavingCovers DEF Covers, Leaves, isOnDesktop
<1>10. PICK t : t = f'
  OBVIOUS
<1>11. ASSUME NEW asks \in {"minimized", "allowed", "refused"}, NEW order,
              NEW under \in Unders \cup {NoClient},
              asks = "allowed" => order \in Leaving(desk),
              t = manage(g, c, desk, asks, order, under)
       PROVE  ActivationInv' /\ PassesOn(f, f')
  <2>1. asks = "allowed" /\ desk \in Desktops /\ desk # g.current => Covers(g, order, desk)
    BY <1>9, <1>11
  <2>2. under \in g.clients \cup {NoClient}
    BY <1>8
  <2>3. Good(t, t.clients) /\ Sized(t) /\ PassesOn(g, t)
    BY <1>6, <1>7, <1>8, <1>11, <2>1, <2>2, Managed
  <2>4. PassesOn(f, t)
    BY <1>5, <2>3 DEF PassesOn, SameFocus
  <2> QED
    BY <1>10, <2>3, <2>4 DEF ActivationInv
<1>12. CASE f' = manage(g, c, desk, "minimized", <<>>, NoClient)
  BY <1>10, <1>11, <1>12
<1>13. ASSUME NEW order \in Leaving(desk),
              f' = manage(g, c, desk, "allowed", order, NoClient)
       PROVE  ActivationInv' /\ PassesOn(f, f')
  BY <1>10, <1>11, <1>13
<1>14. ASSUME NEW under \in Unders,
              f' = manage(g, c, desk, "refused", <<>>, under)
       PROVE  ActivationInv' /\ PassesOn(f, f')
  BY <1>10, <1>11, <1>14
<1> QED
  BY <1>2, <1>12, <1>13, <1>14

LEMMA ReleaseInv ==
    ASSUME ActivationInv, NEW c \in Clients, Release(c)
    PROVE  ActivationInv' /\ PassesOn(f, f')
BY Released DEF ActivationInv, Release

LEMMA FocusInInv ==
    ASSUME ActivationInv, NEW c \in Clients, FocusIn(c)
    PROVE  ActivationInv'
<1> DEFINE K == f.clients
<1>1. c \in K /\ f.map[c] = "Mapped"
  BY DEF FocusIn, ActivationInv, Good, Shown
<1>2. CASE f' = setActiveClient(gotFocusIn(f, c), c)
  <2>1. PICK g : g = gotFocusIn(f, c)
    OBVIOUS
  <2>2. Good(g, K) /\ SamePlace(f, g) /\ SameLists(f, g) /\ SameActive(f, g)
    BY <2>1, GotFocus DEF ActivationInv
  <2>3. f' = setActiveClient(g, c)
    BY <1>2, <2>1
  <2>4. /\ Known(f', K) /\ SamePlace(g, f') /\ Listed(f', K)
        /\ f'.map = g.map /\ f'.active = c /\ Len(f'.chains) = Len(g.chains)
    <3> HIDE DEF K
    <3>1. PICK h : h = setActiveClient(g, c)
      OBVIOUS
    <3>2. Known(g, K) /\ Listed(g, K) /\ c \in K
      BY <1>1, <2>2 DEF Good
    <3>3. /\ Known(h, K) /\ SamePlace(g, h) /\ Listed(h, K)
          /\ h.map = g.map /\ h.active = c /\ Len(h.chains) = Len(g.chains)
      BY <3>1, <3>2, Activated
    <3> QED
      BY <2>3, <3>1, <3>3
  <2>5. Shown(f', K)
    BY <2>2, <2>4, SameShown DEF Good
  <2>6. ActiveShown(f')
    BY <1>1, <2>2, <2>4 DEF ActiveShown, SameActive
  <2>7. f'.clients = K
    BY <2>2, <2>4 DEF SamePlace
  <2>8. Sized(f')
    BY <2>2, <2>4, SameSize DEF ActivationInv, SameLists
  <2> QED
    BY <2>4, <2>5, <2>6, <2>7, <2>8 DEF ActivationInv, Good
<1>3. CASE f' = restoreFocus(f)
  <2> DEFINE no == FALSE
             x == IF f.expected # <<>> THEN Last(f.expected) ELSE f.last
  <2>1. f' = requestFocus(f, x, no)
    BY <1>3 DEF restoreFocus
  <2>2. x \in K \cup {NoClient}
    <3>1. f.expected \in Seq(Clients) /\ FocusKnown(f, K)
      BY ListTypes DEF ActivationInv, Good, Known
    <3>2. f.expected # <<>> => Contains(f.expected, Last(f.expected))
      BY <3>1 DEF Contains, Last
    <3> QED
      BY <3>1, <3>2 DEF FocusKnown
  <2> HIDE DEF no, x
  <2>3. Good(f', K) /\ SamePlace(f, f') /\ SameLists(f, f')
    BY <2>1, <2>2, Asked DEF ActivationInv
  <2> QED
    BY <2>3, SameSize DEF ActivationInv, SamePlace, SameLists
<1> QED
  BY <1>2, <1>3 DEF FocusIn

LEMMA FocusOutInv ==
    ASSUME ActivationInv, FocusOut
    PROVE  ActivationInv'
<1> DEFINE K == f.clients
<1>1. Known(f, K) /\ f' = setActiveClient(f, NoClient)
  BY DEF FocusOut, ActivationInv, Good
<1>2. /\ Known(f', K) /\ SamePlace(f, f') /\ SameLists(f, f')
      /\ f'.map = f.map /\ f'.active = NoClient
  BY <1>1, Deactivated
<1>3. Good(f', K)
  BY <1>2, FocusChanged DEF ActivationInv, Known
<1> QED
  BY <1>2, <1>3, SameSize DEF ActivationInv, SamePlace, SameLists

(* Only the client that delayFocus() will be called for changes.           *)
LEMMA DelayedChanged ==
    ASSUME NEW s, NEW K, NEW x \in K \cup {NoClient}, NEW t, Good(s, K),
           t = [s EXCEPT !.delayed = x]
    PROVE  Good(t, K) /\ SamePlace(s, t) /\ SameLists(s, t)
<1>1. s \in Type /\ K \subseteq Clients
  BY DEF Good, Known
<1>2. /\ t \in Type /\ SamePlace(s, t) /\ SameLists(s, t) /\ t.map = s.map
      /\ t.active = s.active /\ t.last = s.last /\ t.expected = s.expected
      /\ t.delayed = x /\ t.fault = s.fault
  BY <1>1 DEF Type, SamePlace, SameLists
<1>3. FocusKnown(t, K)
  BY <1>2 DEF Good, Known, FocusKnown
<1> QED
  BY <1>2, <1>3, FocusChanged

LEMMA PointerInv ==
    ASSUME ActivationInv, PointerLeaves \/ \E c \in Clients : PointerEnters(c)
    PROVE  ActivationInv'
<1>1. PICK x \in f.clients \cup {NoClient} : f' = [f EXCEPT !.delayed = x]
  BY DEF PointerLeaves, PointerEnters
<1>2. Good(f', f.clients) /\ SamePlace(f, f') /\ SameLists(f, f')
  BY <1>1, DelayedChanged DEF ActivationInv
<1> QED
  BY <1>2, SameSize DEF ActivationInv, SamePlace, SameLists

LEMMA DelayFocusInv ==
    ASSUME ActivationInv, DelayFocus
    PROVE  ActivationInv'
<1> DEFINE no == FALSE
           K == f.clients
<1>1. f' = [requestFocus(f, f.delayed, no) EXCEPT !.delayed = NoClient]
  BY DEF DelayFocus
<1> HIDE DEF no
<1>2. PICK g : g = requestFocus(f, f.delayed, no)
  OBVIOUS
<1>3. f.delayed \in K \cup {NoClient}
  BY DEF ActivationInv, Good, Known, FocusKnown
<1>4. Good(g, K) /\ SamePlace(f, g) /\ SameLists(f, g)
  BY <1>2, <1>3, Asked DEF ActivationInv
<1>5. Good(f', K) /\ SamePlace(g, f') /\ SameLists(g, f')
  <2> HIDE DEF K
  <2>1. f' = [g EXCEPT !.delayed = NoClient] /\ NoClient \in K \cup {NoClient}
    BY <1>1, <1>2
  <2> QED
    BY <1>4, <2>1, DelayedChanged
<1>6. SamePlace(f, f') /\ SameLists(f, f')
  BY <1>4, <1>5 DEF SamePlace, SameLists
<1> QED
  BY <1>5, <1>6, SameSize DEF ActivationInv, SamePlace, SameLists

LEMMA ActivateClientInv ==
    ASSUME ActivationInv, NEW c \in Clients, ActivateClient(c)
    PROVE  ActivationInv'
<1>1. PICK order \in Leaving(f.desk[c]) : f' = activateClient(f, c, order)
  BY DEF ActivateClient
<1>2. c \in f.clients /\ Good(f, f.clients) /\ Sized(f)
  BY DEF ActivateClient, ActivationInv
<1>3. f.desk[c] \in Desktops /\ f.desk[c] # f.current => Covers(f, order, f.desk[c])
  BY LeavingCovers
<1> QED
  BY <1>1, <1>2, <1>3, ClientActivated DEF ActivationInv

LEMMA MinimizeInv ==
    ASSUME ActivationInv, NEW c \in Clients, Minimize(c) \/ Unminimize(c)
    PROVE  ActivationInv'
<1> DEFINE K == f.clients
<1>1. c \in K /\ Good(f, K)
  BY DEF ActivationInv, Minimize, Unminimize
<1>2. f' = minimize(f, c) \/ f' = unminimize(f, c)
  BY DEF Minimize, Unminimize
<1>3. PICK h : h = f'
  OBVIOUS
<1>4. /\ Good(h, K) /\ Len(h.chains) = Len(f.chains)
      /\ h.count = f.count /\ h.current = f.current /\ h.clients = f.clients
      /\ h.desk = f.desk
  <2> HIDE DEF K
  <2>1. CASE h = minimize(f, c)
    BY <1>1, <2>1, Minimized
  <2>2. CASE h = unminimize(f, c)
    BY <1>1, <2>2, Unminimized
  <2> QED
    BY <1>2, <1>3, <2>1, <2>2
<1>5. Sized(h)
  BY <1>4 DEF ActivationInv, Sized
<1> QED
  BY <1>3, <1>4, <1>5 DEF ActivationInv

(* FocusChain::update() of a client that is managed.                       *)
LEMMA UpdatedGood ==
    ASSUME NEW s, NEW c \in s.clients, NEW change, NEW t, Good(s, s.clients), Sized(s),
           t = update(s, c, change)
    PROVE  Good(t, t.clients) /\ Sized(t)
<1> DEFINE K == s.clients
<1>1. s \in Type /\ K \subseteq Clients /\ ListsKnown(s, K) /\ Listed(s, K \ {c})
  BY DEF Good, Known, Listed
<1>2. /\ t \in Type /\ Len(t.chains) = Len(s.chains) /\ ListsKnown(t, K)
      /\ SamePlace(s, t) /\ SameFocus(s, t) /\ t.map = s.map /\ Listed(t, K)
  <2>1. c \in K
    OBVIOUS
  <2> HIDE DEF K
  <2> QED
    BY <1>1, <2>1, Updated
<1>3. Good(t, K)
  BY <1>2, StillGood
<1> QED
  BY <1>2, <1>3, SameSize DEF SamePlace

LEMMA MapRequestInv ==
    ASSUME ActivationInv, NEW c \in Clients, MapRequest(c)
    PROVE  ActivationInv'
<1> DEFINE K == f.clients
<1>1. c \in K /\ Good(f, K)
  BY DEF ActivationInv, MapRequest
<1>2. PICK up : up = unminimize(f, c)
  OBVIOUS
<1>3. /\ Good(up, K) /\ Len(up.chains) = Len(f.chains)
      /\ up.count = f.count /\ up.current = f.current /\ up.clients = f.clients
      /\ up.desk = f.desk
  <2> HIDE DEF K
  <2> QED
    BY <1>1, <1>2, Unminimized
<1>4. Sized(up) /\ Good(up, up.clients) /\ c \in up.clients
  BY <1>1, <1>3 DEF ActivationInv, Sized
<1>5. CASE f' = update(up, c, "Update")
  BY <1>4, <1>5, UpdatedGood DEF ActivationInv
<1>6. ASSUME NEW order \in Leaving(f.desk[c]),
             f' = update(activateClient(up, c, order), c, "Update")
      PROVE  ActivationInv'
  <2>1. f.desk[c] \in Desktops /\ f.desk[c] # f.current => Covers(f, order, f.desk[c])
    BY LeavingCovers
  <2>2. up.desk[c] \in Desktops /\ up.desk[c] # up.current => Covers(up, order, up.desk[c])
    BY <1>3, <2>1 DEF Covers, Leaves, isOnDesktop
  <2>3. PICK a : a = activateClient(up, c, order)
    OBVIOUS
  <2>4. Good(a, a.clients) /\ Sized(a) /\ a.clients = up.clients
    BY <1>4, <2>2, <2>3, ClientActivated
  <2>5. f' = update(a, c, "Update") /\ c \in a.clients
    BY <1>4, <1>6, <2>3, <2>4
  <2> QED
    BY <2>4, <2>5, UpdatedGood DEF ActivationInv
<1>7. \/ f' = update(up, c, "Update")
      \/ \E order \in Leaving(f.desk[c]) :
            f' = update(activateClient(up, c, order), c, "Update")
  BY <1>2 DEF MapRequest
<1> QED
  BY <1>5, <1>6, <1>7

(* A client on another desktop that exists.                                *)
LEMMA SizedAfterMove ==
    ASSUME ActivationInv, NEW c \in f.clients, NEW d, d <= f.count, NEW h,
           Good(h, f.clients), Len(h.chains) = Len(f.chains), h.count = f.count,
           h.current = f.current, h.clients = f.clients,
           h.desk = [f.desk EXCEPT ![c] = d]
    PROVE  Good(h, h.clients) /\ Sized(h)
<1>1. f.desk \in [Clients -> Desktops \cup {OnAllDesktops}] /\ f.clients \subseteq Clients
  BY Chosen DEF Type
<1>2. \A x \in f.clients : h.desk[x] = d \/ h.desk[x] = f.desk[x]
  BY <1>1
<1> QED
  BY <1>2 DEF ActivationInv, Sized

LEMMA SendToDesktopInv ==
    ASSUME ActivationInv, NEW c \in Clients, NEW d \in Desktops \cup {OnAllDesktops},
           SendToDesktop(c, d)
    PROVE  ActivationInv'
<1> DEFINE K == f.clients
<1>1. c \in K /\ Good(f, K) /\ d <= f.count
  BY DEF ActivationInv, SendToDesktop
<1>2. PICK activate, under :
         f' = sendClientToDesktop(f, c, d, activate, under) /\ under \in Unders
  BY DEF SendToDesktop, Unders
<1>3. PICK h : h = sendClientToDesktop(f, c, d, activate, under)
  OBVIOUS
<1>4. under \in K \cup {NoClient}
  BY <1>2, Chosen
<1>5. /\ Good(h, K) /\ Len(h.chains) = Len(f.chains)
      /\ h.count = f.count /\ h.current = f.current /\ h.clients = f.clients
      /\ h.desk = [f.desk EXCEPT ![c] = d]
  <2> HIDE DEF K
  <2> QED
    BY <1>1, <1>3, <1>4, Sent
<1> QED
  BY <1>1, <1>2, <1>3, <1>5, SizedAfterMove DEF ActivationInv

LEMMA SetOnAllDesktopsInv ==
    ASSUME ActivationInv, NEW c \in Clients, SetOnAllDesktops(c)
    PROVE  ActivationInv'
<1> DEFINE K == f.clients
           d == IF f.desk[c] = OnAllDesktops THEN f.current ELSE OnAllDesktops
<1>1. c \in K /\ Good(f, K) /\ f' = setDesktop(f, c, d)
  BY DEF ActivationInv, SetOnAllDesktops
<1>2. d \in Desktops \cup {OnAllDesktops} /\ d <= f.count
  BY Chosen DEF ActivationInv, Sized, OnAllDesktops
<1> HIDE DEF d
<1>3. PICK h : h = setDesktop(f, c, d)
  OBVIOUS
<1>4. /\ Good(h, K) /\ Len(h.chains) = Len(f.chains)
      /\ h.count = f.count /\ h.current = f.current /\ h.clients = f.clients
      /\ h.desk = [f.desk EXCEPT ![c] = d]
  <2> HIDE DEF K
  <2> QED
    BY <1>1, <1>2, <1>3, SentTo
<1> QED
  BY <1>1, <1>2, <1>3, <1>4, SizedAfterMove DEF ActivationInv

LEMMA SetCurrentInv ==
    ASSUME ActivationInv, NEW d \in Desktops, SetCurrent(d)
    PROVE  ActivationInv'
<1> DEFINE K == f.clients
           no == FALSE
<1>1. PICK order \in Leaving(d) : f' = setCurrent(f, d, order, no)
  BY DEF SetCurrent
<1> HIDE DEF no
<1>2. d # f.current /\ d \in 1..f.count
  BY DEF SetCurrent
<1>3. Covers(f, order, d)
  BY <1>2, LeavingCovers
<1>4. Ready(f, K)
  BY GoodIsReady DEF ActivationInv
<1>5. PICK h : h = setCurrent(f, d, order, no)
  OBVIOUS
<1>6. Ready(h, K) /\ OnlyCurrent(f, h, d)
  <2> HIDE DEF K
  <2>1. d \in Desktops \cup {OnAllDesktops}
    OBVIOUS
  <2> QED
    BY <1>3, <1>4, <1>5, <2>1, MadeCurrent
<1>7. h.clients = K /\ Good(h, K)
  BY <1>6 DEF OnlyCurrent, Ready, Good
<1>8. h.current <= h.count
  BY <1>2, <1>6, Chosen DEF OnlyCurrent
<1>9. Sized(h)
  BY <1>6, <1>7, <1>8 DEF OnlyCurrent, Sized, SameLists, ActivationInv
<1> QED
  BY <1>1, <1>5, <1>7, <1>9 DEF ActivationInv

LEMMA SetCountInv ==
    ASSUME ActivationInv, NEW n \in Desktops, SetCount(n)
    PROVE  ActivationInv' /\ f'.count = n /\ n # f.count
<1>1. /\ Good(f, f.clients) /\ Sized(f) /\ n \in Nat /\ f.current <= f.count
      /\ f.count \in Nat /\ f.current \in Nat /\ f.current \in Desktops
  BY Chosen DEF ActivationInv, Sized, Desktops
<1>2. \A x \in f.clients : f.desk[x] \in Nat /\ f.desk[x] <= f.count
  BY Chosen DEF ActivationInv, Sized, Desktops, OnAllDesktops
<1>3. CASE n > f.count /\ f' = setCount(f, n, <<>>, <<>>, NoClient)
  <2>1. ~(f.current > n) /\ \A x \in f.clients : ~(f.desk[x] > n)
    BY <1>1, <1>2, <1>3
  <2>2. Len(<<>>) \in Nat /\ NoClient \in f.clients \cup {NoClient}
    OBVIOUS
  <2>3. PICK none : none = <<>>
    OBVIOUS
  <2>4. f' = setCount(f, n, none, none, NoClient) /\ Len(none) \in Nat
    BY <1>3, <2>2, <2>3
  <2> QED
    <3>1. PICK t : t = f'
      OBVIOUS
    <3>2. Good(t, t.clients) /\ Sized(t) /\ t.count = n
      BY <1>1, <2>1, <2>2, <2>4, <3>1, Counted
    <3> QED
      BY <1>3, <3>1, <3>2, <1>1 DEF ActivationInv
<1>4. ASSUME n < f.count, NEW order \in Leaving(Min({f.current, n})),
             NEW list \in Orders[{c \in f.clients : f.desk[c] > n}],
             NEW under \in Unders, f' = setCount(f, n, order, list, under)
      PROVE  ActivationInv' /\ f'.count = n
  <2> DEFINE S == {c \in f.clients : f.desk[c] > n}
  <2>1. S \in SUBSET Clients
    BY Chosen
  <2>2. list \in Orders[S] /\ \A x \in f.clients : f.desk[x] > n => x \in S
    BY <1>4
  <2> HIDE DEF S
  <2>3. Len(list) \in Nat /\ \A x \in S : Contains(list, x)
    BY <2>1, <2>2, Ordered
  <2>4. f.current > n => Covers(f, order, n)
    <3> SUFFICES ASSUME f.current > n PROVE Covers(f, order, n)
      OBVIOUS
    <3> DEFINE P == {f.current, n}
    <3>1. n \in P /\ (\A y \in P : n <= y) /\ P \subseteq Nat
      BY <1>1
    <3>2. \A z \in P : (\A y \in P : z <= y) => z = n
      BY <1>1
    <3>3. Min(P) = n
      BY <3>1, <3>2 DEF Min
    <3>4. n # f.current /\ order \in Leaving(n)
      BY <1>1, <1>4, <3>3
    <3> QED
      BY <3>4, LeavingCovers
  <2>5. under \in f.clients \cup {NoClient}
    BY <1>4, Chosen
  <2>6. \A x \in f.clients : f.desk[x] > n => Contains(list, x)
    BY <2>2, <2>3
  <2> QED
    BY <1>1, <1>4, <2>3, <2>4, <2>5, <2>6, Counted DEF ActivationInv
<1>5. n # f.count
  BY <1>1 DEF SetCount
<1> QED
  BY <1>3, <1>4, <1>5 DEF SetCount

LEMMA RestackInv ==
    ASSUME ActivationInv, NEW c \in Clients, NEW under \in Clients, Restack(c, under)
    PROVE  ActivationInv'
<1> DEFINE K == f.clients
<1>1. /\ c \in K /\ under \in K /\ under # c /\ f \in Type /\ K \subseteq Clients
      /\ ListsKnown(f, K) /\ Listed(f, K)
  BY DEF ActivationInv, Good, Known, Restack
<1>2. PICK h : h = moveAfterClient(f, c, under)
  OBVIOUS
<1>3. /\ h \in Type /\ Len(h.chains) = Len(f.chains) /\ ListsKnown(h, K)
      /\ SamePlace(f, h) /\ SameFocus(f, h) /\ h.map = f.map /\ Listed(h, K)
  <2> HIDE DEF K
  <2> QED
    BY <1>1, <1>2, Moved
<1>4. Good(h, K)
  BY <1>3, StillGood DEF ActivationInv
<1>5. Sized(h) /\ h.clients = K
  BY <1>3, SameSize DEF ActivationInv, SamePlace
<1> QED
  BY <1>2, <1>4, <1>5 DEF ActivationInv, Restack

LEMMA NextInv ==
    ASSUME ActivationInv, [Next]_f
    PROVE  ActivationInv'
<1>1. CASE UNCHANGED f
  BY <1>1 DEF ActivationInv
<1>2. ASSUME NEW c \in Clients, ClientStep(c)
      PROVE  ActivationInv'
  BY <1>2, ManageInv, ReleaseInv, FocusInInv, PointerInv, ActivateClientInv,
     MinimizeInv, MapRequestInv, SetOnAllDesktopsInv, SendToDesktopInv, RestackInv
     DEF ClientStep
<1>3. CASE FocusOut \/ PointerLeaves \/ DelayFocus
  BY <1>3, FocusOutInv, PointerInv, DelayFocusInv
<1>4. ASSUME NEW d \in Desktops, SetCurrent(d) \/ SetCount(d)
      PROVE  ActivationInv'
  BY <1>4, SetCurrentInv, SetCountInv
<1> QED
  BY <1>1, <1>2, <1>3, <1>4 DEF Next

(* Whatever is managed, released, minimized, sent to desktops, whichever   *)
(* desktops come and go and whenever focus events arrive, the invariant    *)
(* holds.                                                                  *)
THEOREM ActivationInvariant == Spec => []ActivationInv
BY InitInv, NextInv, PTL DEF Spec

(* Every member of Workspace, FocusChain and the clients keeps its type.   *)
THEOREM TypeCorrect == Spec => []TypeOK
<1>1. ActivationInv => TypeOK
  BY Chosen DEF TypeOK
<1> QED
  BY <1>1, ActivationInvariant, PTL

(* removeClient() leaves no pointer to the client that is deleted next, in *)
(* no focus chain, not in should_get_focus and not as active, last active  *)
(* or delayed client; it never finds the client still active; and no chain *)
(* holds a client twice.                                                   *)
THEOREM NoDangling == Spec => []NoDanglingClient
<1>1. ActivationInv => NoDanglingClient
  <2> SUFFICES ASSUME ActivationInv PROVE NoDanglingClient
    OBVIOUS
  <2> DEFINE K == f.clients
  <2>1. f \in Type /\ ListsKnown(f, K) /\ FocusKnown(f, K)
    BY DEF ActivationInv, Good, Known
  <2>2. ASSUME NEW list \in Seq(Clients), Once(list),
               \A x : Contains(list, x) => x \in K
        PROVE  ToSet(list) \subseteq K /\ IsInjective(list)
    <3>1. DOMAIN list = 1..Len(list)
      OBVIOUS
    <3>2. \A i \in 1..Len(list) : list[i] \in K
      BY <2>2 DEF Contains
    <3>3. ToSet(list) \subseteq K
      BY <3>1, <3>2 DEF ToSet
    <3>4. IsInjective(list)
      BY <2>2, <3>1 DEF Once, IsInjective
    <3> QED
      BY <3>3, <3>4
  <2>3. \A list \in Lists(f) : ToSet(list) \subseteq K /\ IsInjective(list)
    <3> SUFFICES ASSUME NEW list \in Lists(f)
                 PROVE  ToSet(list) \subseteq K /\ IsInjective(list)
      OBVIOUS
    <3>1. list \in Seq(Clients) /\ Once(list) /\ \A x : Contains(list, x) => x \in K
      BY <2>1, ListTypes DEF Lists, ListsKnown
    <3> QED
      BY <2>2, <3>1
  <2>4. ToSet(f.expected) \subseteq K
    <3>1. f.expected \in Seq(Clients) /\ DOMAIN f.expected = 1..Len(f.expected)
      BY <2>1, ListTypes
    <3>2. \A i \in 1..Len(f.expected) : f.expected[i] \in K
      BY <2>1 DEF FocusKnown, Contains
    <3> QED
      BY <3>1, <3>2 DEF ToSet
  <2> QED
    BY <2>1, <2>3, <2>4 DEF NoDanglingClient, FocusKnown
<1> QED
  BY <1>1, ActivationInvariant, PTL

(* There is a focus chain for every virtual desktop, clients are on        *)
(* desktops that exist, and one that wants the focus is in the most        *)
(* recently used chain and in the chain of its desktop and no other, also  *)
(* when desktops are removed.                                              *)
THEOREM ListedRight == Spec => []ListedWhereItLives
<1>1. ActivationInv => ListedWhereItLives
  BY DEF ActivationInv, Good, Listed, ListedAs, Sized, ListedWhereItLives
<1> QED
  BY <1>1, ActivationInvariant, PTL

(* The active client is not minimized and is on the current desktop,       *)
(* whichever of its desktop, the current one or the number of desktops     *)
(* changes, and however late FocusIn events are.                           *)
THEOREM ActiveVisible == Spec => []ActiveIsVisible
<1>1. ActivationInv => ActiveIsVisible
  BY DEF ActivationInv, Good, Known, FocusKnown, Shown, ActiveShown,
         ActiveIsVisible, visible
<1> QED
  BY <1>1, ActivationInvariant, PTL

-----------------------------------------------------------------------------
(* The steps keep the active client in sight or pass the focus on.         *)

(* What can be seen does not change.                                       *)
LEMMA InSight ==
    ASSUME ActivationInv, f.active # NoClient
    PROVE  visible(f, f.active)
BY DEF ActivationInv, Good, Known, FocusKnown, Shown, ActiveShown, visible

LEMMA SamePlacePasses ==
    ASSUME ActivationInv, NEW t, SamePlace(f, t)
    PROVE  PassesOn(f, t)
<1>1. f.active # NoClient => visible(t, f.active)
  BY InSight DEF SamePlace, visible, isOnCurrentDesktop, isOnDesktop
<1> QED
  BY <1>1 DEF PassesOn

(* Focus events, the pointer, its timer and restacking.                    *)
LEMMA EventPasses ==
    ASSUME ActivationInv,
           \/ \E c \in Clients : FocusIn(c) \/ PointerEnters(c)
                                 \/ \E under \in Clients : Restack(c, under)
           \/ FocusOut \/ PointerLeaves \/ DelayFocus
    PROVE  PassesOn(f, f')
<1> DEFINE K == f.clients
           no == FALSE
<1>1. Good(f, K) /\ Known(f, K) /\ f \in Type /\ K \subseteq Clients
  BY DEF ActivationInv, Good, Known
<1>2. PICK t : t = f'
  OBVIOUS
<1>3. ASSUME NEW x, t = [f EXCEPT !.delayed = x] PROVE SamePlace(f, t)
  BY <1>1, <1>3 DEF SamePlace, Type
<1>4. ASSUME NEW x \in K \cup {NoClient}, NEW u, u = requestFocus(f, x, no)
      PROVE  SamePlace(f, u)
  <2> HIDE DEF K, no
  <2> QED
    BY <1>1, <1>4, Requested
<1>5. ASSUME NEW c \in Clients, FocusIn(c) PROVE SamePlace(f, t)
  <2>1. CASE f' = setActiveClient(gotFocusIn(f, c), c)
    <3>1. PICK g : g = gotFocusIn(f, c)
      OBVIOUS
    <3>2. Good(g, K) /\ SamePlace(f, g)
      BY <1>1, <3>1, GotFocus
    <3>3. Known(g, K) /\ Listed(g, K) /\ c \in K /\ t = setActiveClient(g, c)
      BY <1>2, <1>5, <2>1, <3>1, <3>2 DEF FocusIn, Good
    <3> HIDE DEF K
    <3>4. SamePlace(g, t)
      BY <3>3, Activated
    <3> QED
      BY <3>2, <3>4 DEF SamePlace
  <2>2. CASE f' = restoreFocus(f)
    <3> DEFINE x == IF f.expected # <<>> THEN Last(f.expected) ELSE f.last
    <3>1. t = requestFocus(f, x, no)
      BY <1>2, <2>2 DEF restoreFocus
    <3>2. x \in K \cup {NoClient}
      <4>1. f.expected \in Seq(Clients) /\ FocusKnown(f, K)
        BY <1>1, ListTypes DEF Known
      <4>2. f.expected # <<>> => Contains(f.expected, Last(f.expected))
        BY <4>1 DEF Contains, Last
      <4> QED
        BY <4>1, <4>2 DEF FocusKnown
    <3> HIDE DEF x, K, no
    <3> QED
      BY <1>4, <3>1, <3>2
  <2> QED
    BY <1>5, <2>1, <2>2 DEF FocusIn
<1>6. ASSUME PointerLeaves \/ \E c \in Clients : PointerEnters(c) PROVE SamePlace(f, t)
  BY <1>2, <1>3, <1>6 DEF PointerLeaves, PointerEnters
<1>7. ASSUME NEW c \in Clients, NEW under \in Clients, Restack(c, under)
      PROVE  SamePlace(f, t)
  <2>1. /\ c \in K /\ under \in K /\ under # c /\ ListsKnown(f, K) /\ Listed(f, K)
        /\ t = moveAfterClient(f, c, under)
    BY <1>1, <1>2, <1>7 DEF Restack, Good, Known
  <2> HIDE DEF K
  <2> QED
    BY <1>1, <2>1, Moved
<1>8. ASSUME FocusOut PROVE SamePlace(f, t)
  <2>1. t = setActiveClient(f, NoClient)
    BY <1>2, <1>8 DEF FocusOut
  <2> HIDE DEF K
  <2> QED
    BY <1>1, <2>1, Deactivated
<1>9. ASSUME DelayFocus PROVE SamePlace(f, t)
  <2>1. PICK u : u = requestFocus(f, f.delayed, no)
    OBVIOUS
  <2>2. f.delayed \in K \cup {NoClient}
    BY <1>1 DEF Known, FocusKnown
  <2>3. SamePlace(f, u)
    BY <1>4, <2>1, <2>2
  <2>4. t = [u EXCEPT !.delayed = NoClient] /\ u \in Type
    <3>1. Known(u, K)
      <4> HIDE DEF K, no
      <4> QED
        BY <1>1, <2>1, <2>2, Requested
    <3> QED
      BY <1>2, <1>9, <2>1, <3>1 DEF DelayFocus, Known
  <2>5. SamePlace(u, t)
    BY <2>4 DEF SamePlace, Type
  <2> QED
    BY <2>3, <2>5 DEF SamePlace
<1>10. SamePlace(f, t)
  BY <1>5, <1>6, <1>7, <1>8, <1>9
<1> QED
  BY <1>2, <1>10, SamePlacePasses

(* u is s after a change of c: of its desktop, or minimized.               *)
Changes(s, c, u) ==
    /\ u \in Type /\ SameLists(s, u) /\ SameFocus(s, u) /\ u.map = s.map
    /\ u.count = s.count /\ u.current = s.current /\ u.clients = s.clients
    /\ u.wants = s.wants
    /\ \A x \in s.clients \ {c} :
          u.desk[x] = s.desk[x] /\ (x \in u.minimized <=> x \in s.minimized)

(* The active client c leaves the screen by such a change.                 *)
LEMMA HiddenPasses ==
    ASSUME ActivationInv, NEW c \in f.clients, c = f.active, NEW u, NEW blocked,
           ~blocked, NEW change, NEW t, Changes(f, c, u), shownAs(u, c) # "Mapped",
           SamePlace(u, t), t = update(updateVisibility(u, c, blocked), c, change),
           Wanted(t)
    PROVE  Passed(t, f.clients)
<1> DEFINE K == f.clients
<1>1. /\ Known(u, K) /\ Listed(u, K \ {c}) /\ K \subseteq Clients
  BY SameListsKnown, SameFocusKnown
     DEF ActivationInv, Good, Known, Listed, ListedAs, SameLists, Changes
<1>2. c \notin u.minimized => ~isOnCurrentDesktop(u, c)
  BY DEF shownAs
<1>3. c = u.active /\ u.map[c] = "Mapped"
  BY <1>1, ClientsAssumption DEF ActivationInv, Good, Known, ActiveShown, SameFocus, Changes
<1>4. PICK y \in (K \ {c}) \ u.minimized : y \in u.wants /\ u.desk[y] = u.current
                                          /\ u.desk[y] # OnAllDesktops
  BY <1>2 DEF Changes, Wanted, visible, SamePlace, isOnCurrentDesktop, isOnDesktop
<1>5. u.current \in 1..Len(u.chains)
  <2>1. f.current \in Nat /\ f.current >= 1
    BY Chosen DEF Desktops
  <2> QED
    BY <2>1 DEF ActivationInv, Sized, SameLists, Changes
<1>6. Waiting(u, K \ {c}, u.current)
  <2> DEFINE L == K \ {c}
  <2>1. y \in L /\ Listed(u, L)
    BY <1>1, <1>4
  <2> HIDE DEF L
  <2> QED
    BY <1>4, <1>5, <2>1, SomeoneWaits DEF L
<1>7. c \in K
  OBVIOUS
<1> HIDE DEF K
<1> QED
  BY <1>1, <1>3, <1>6, <1>7, SettledPasses DEF K

LEMMA MinimizePasses ==
    ASSUME ActivationInv, NEW c \in Clients, Minimize(c)
    PROVE  PassesOn(f, f')
<1> DEFINE u == [f EXCEPT !.minimized = f.minimized \cup {c}]
           no == FALSE
<1>1. c \in f.clients \ f.minimized /\ f' = minimize(f, c) /\ f \in Type
  BY Chosen DEF Minimize
<1>2. PICK t : t = f'
  OBVIOUS
<1>3. t = update(updateVisibility(u, c, no), c, "MakeFirst") /\ ~no
  BY <1>1, <1>2 DEF minimize, Type
<1>4. /\ u \in Type /\ SameLists(f, u) /\ SameFocus(f, u) /\ u.map = f.map
      /\ u.count = f.count /\ u.current = f.current /\ u.clients = f.clients
      /\ u.desk = f.desk /\ u.minimized = f.minimized \cup {c}
      /\ u.wants = f.wants
  BY <1>1 DEF Type, SameLists, SameFocus
<1>5. shownAs(u, c) # "Mapped"
  BY <1>4 DEF shownAs
<1> HIDE DEF u, no
<1>6. SamePlace(u, t) /\ t.clients = f.clients
  <2>1. /\ t.count = f.count /\ t.current = f.current /\ t.clients = f.clients
        /\ t.desk = f.desk /\ t.wants = f.wants
        /\ t.minimized = f.minimized \cup {c}
    <3>1. t = minimize(f, c)
      BY <1>1, <1>2
    <3>2. PICK K : K = f.clients
      OBVIOUS
    <3>3. Good(f, K) /\ c \in K
      BY <1>1, <3>2 DEF ActivationInv
    <3>4. /\ t.count = f.count /\ t.current = f.current /\ t.clients = f.clients
          /\ t.desk = f.desk /\ t.wants = f.wants /\ MinimizedToo(f, c, t)
      BY <3>1, <3>3, Minimized
    <3> QED
      BY <3>4 DEF MinimizedToo
  <2> QED
    BY <1>4, <2>1 DEF SamePlace
<1>7. ASSUME f.active # NoClient, ~visible(t, f.active), Wanted(t)
      PROVE  Passed(t, f.clients)
  <2>1. f.active = c
    BY <1>4, <1>6, <1>7, InSight DEF visible, SamePlace, isOnCurrentDesktop, isOnDesktop
  <2> QED
    <3>1. Changes(f, c, u)
      BY <1>4 DEF Changes
    <3> QED
      BY <1>1, <1>3, <1>5, <1>6, <1>7, <2>1, <3>1, HiddenPasses
<1> QED
  BY <1>2, <1>6, <1>7 DEF PassesOn

LEMMA UnminimizePasses ==
    ASSUME ActivationInv, NEW c \in f.clients, NEW up, up = unminimize(f, c)
    PROVE  /\ Good(up, f.clients) /\ Len(up.chains) = Len(f.chains)
           /\ up.count = f.count /\ up.current = f.current
           /\ up.clients = f.clients /\ up.desk = f.desk
           /\ f.active # NoClient => visible(up, f.active)
<1>1. /\ Good(up, f.clients) /\ Len(up.chains) = Len(f.chains)
      /\ up.count = f.count /\ up.current = f.current
      /\ up.clients = f.clients /\ up.desk = f.desk
      /\ up.minimized = f.minimized \ {c}
  <2>1. PICK K : K = f.clients
    OBVIOUS
  <2> QED
    <3>1. Good(f, K) /\ c \in K
      BY <2>1 DEF ActivationInv
    <3> QED
      BY <2>1, <3>1, Unminimized
<1> QED
  BY <1>1, InSight DEF visible, isOnCurrentDesktop, isOnDesktop

LEMMA UnminimizeStepPasses ==
    ASSUME ActivationInv, NEW c \in Clients, Unminimize(c)
    PROVE  PassesOn(f, f')
<1>1. PICK t : t = unminimize(f, c)
  OBVIOUS
<1>2. f.active # NoClient => visible(t, f.active)
  BY <1>1, UnminimizePasses DEF Unminimize
<1> QED
  BY <1>1, <1>2 DEF PassesOn, Unminimize

(* setDesktop() of the active client.                                      *)
LEMMA SetDesktopPasses ==
    ASSUME ActivationInv, NEW c \in f.clients, NEW d \in Desktops \cup {OnAllDesktops},
           NEW t, t = setDesktop(f, c, d)
    PROVE  PassesOn(f, t)
<1> DEFINE u == [f EXCEPT !.desk[c] = d]
           no == FALSE
<1>1. f \in Type /\ c \in Clients
  BY Chosen
<1>2. CASE f.desk[c] = d
  <2>1. t = f
    BY <1>2 DEF setDesktop
  <2> QED
    BY <2>1, InSight DEF PassesOn
<1>3. CASE f.desk[c] # d
  <2>1. t = update(updateVisibility(u, c, no), c, "MakeFirst") /\ ~no
    BY <1>3 DEF setDesktop
  <2>2. /\ u \in Type /\ SameLists(f, u) /\ SameFocus(f, u) /\ u.map = f.map
        /\ u.count = f.count /\ u.current = f.current /\ u.clients = f.clients
        /\ u.desk = [f.desk EXCEPT ![c] = d]
        /\ u.minimized = f.minimized /\ u.wants = f.wants
    BY <1>1 DEF Type, SameLists, SameFocus
  <2>3. \A x \in f.clients \ {c} : u.desk[x] = f.desk[x]
    BY <1>1, <2>2, Chosen DEF Type
  <2> HIDE DEF u, no
  <2>4. SamePlace(u, t) /\ t.clients = f.clients
    <3>1. PICK K : K = f.clients
      OBVIOUS
    <3>2. /\ t.count = f.count /\ t.current = f.current /\ t.clients = f.clients
          /\ t.desk = [f.desk EXCEPT ![c] = d]
          /\ t.minimized = f.minimized /\ t.wants = f.wants
      <4>1. Good(f, K) /\ c \in K
        BY <3>1 DEF ActivationInv
      <4> QED
        BY <4>1, SentTo
    <3> QED
      BY <2>2, <3>2 DEF SamePlace
  <2>5. ASSUME f.active # NoClient, ~visible(t, f.active), Wanted(t)
        PROVE  Passed(t, f.clients)
    <3>1. f.active = c /\ c \notin u.minimized /\ ~isOnCurrentDesktop(u, c)
      BY <2>2, <2>3, <2>4, <2>5, InSight
         DEF visible, SamePlace, isOnCurrentDesktop, isOnDesktop
    <3>2. shownAs(u, c) # "Mapped"
      BY <3>1 DEF shownAs
    <3> QED
      <4>1. Changes(f, c, u)
        BY <2>2, <2>3 DEF Changes
      <4> QED
        BY <2>1, <2>4, <2>5, <3>1, <3>2, <4>1, HiddenPasses
  <2> QED
    BY <2>4, <2>5 DEF PassesOn
<1> QED
  BY <1>2, <1>3

LEMMA SendToDesktopPasses ==
    ASSUME ActivationInv, NEW c \in Clients, NEW d \in Desktops \cup {OnAllDesktops},
           SendToDesktop(c, d)
    PROVE  PassesOn(f, f')
<1>1. c \in f.clients /\ d <= f.count /\ Good(f, f.clients)
  BY DEF SendToDesktop, ActivationInv
<1>2. PICK activate, under :
         f' = sendClientToDesktop(f, c, d, activate, under) /\ under \in Unders
  BY DEF SendToDesktop, Unders
<1>3. PICK t : t = sendClientToDesktop(f, c, d, activate, under)
  OBVIOUS
<1>4. PICK sent : sent = setDesktop(f, c, d)
  OBVIOUS
<1>5. PICK K : K = f.clients
  OBVIOUS
<1>6. /\ t.count = f.count /\ t.current = f.current /\ t.clients = f.clients
      /\ t.desk = [f.desk EXCEPT ![c] = d]
      /\ t.minimized = f.minimized /\ t.wants = f.wants
  <2>1. Good(f, K) /\ c \in K /\ under \in K \cup {NoClient}
    BY <1>1, <1>2, <1>5, Chosen
  <2> QED
    BY <1>1, <1>3, <2>1, Sent
<1>7. /\ sent.count = f.count /\ sent.current = f.current
      /\ sent.clients = f.clients /\ sent.desk = [f.desk EXCEPT ![c] = d]
      /\ sent.minimized = f.minimized /\ sent.wants = f.wants
  <2>1. Good(f, K) /\ c \in K
    BY <1>1, <1>5
  <2> QED
    BY <1>4, <2>1, SentTo
<1>8. CASE ~isOnCurrentDesktop(sent, c)
  <2>1. ~(d > f.count)
    BY <1>1, Chosen DEF Desktops, OnAllDesktops
  <2>2. t = sent
    BY <1>3, <1>4, <1>8, <2>1 DEF sendClientToDesktop
  <2> QED
    BY <1>1, <1>2, <1>3, <1>4, <2>2, SetDesktopPasses
<1>9. CASE isOnCurrentDesktop(sent, c)
  <2>1. f.active # NoClient => visible(t, f.active)
    <3>1. \A x \in f.clients \ {c} : t.desk[x] = f.desk[x]
      BY <1>6, Chosen DEF Type
    <3>2. isOnCurrentDesktop(t, c)
      BY <1>6, <1>7, <1>9 DEF isOnCurrentDesktop, isOnDesktop
    <3> QED
      BY <1>6, <3>1, <3>2, InSight DEF visible, isOnCurrentDesktop, isOnDesktop
  <2> QED
    BY <1>2, <1>3, <2>1 DEF PassesOn
<1> QED
  BY <1>8, <1>9

LEMMA SetOnAllDesktopsPasses ==
    ASSUME ActivationInv, NEW c \in Clients, SetOnAllDesktops(c)
    PROVE  PassesOn(f, f')
<1> DEFINE d == IF f.desk[c] = OnAllDesktops THEN f.current ELSE OnAllDesktops
<1>1. c \in f.clients /\ f' = setDesktop(f, c, d)
  BY DEF SetOnAllDesktops
<1>2. d \in Desktops \cup {OnAllDesktops}
  BY Chosen
<1> HIDE DEF d
<1>3. PICK t : t = setDesktop(f, c, d)
  OBVIOUS
<1> QED
  BY <1>1, <1>2, <1>3, SetDesktopPasses

LEMMA ActivateClientPasses ==
    ASSUME ActivationInv, NEW c \in Clients, ActivateClient(c) \/ MapRequest(c)
    PROVE  PassesOn(f, f')
<1>1. c \in f.clients /\ Good(f, f.clients) /\ Sized(f)
  BY DEF ActivateClient, MapRequest, ActivationInv
<1>2. PICK up : up = unminimize(f, c)
  OBVIOUS
<1>3. /\ Good(up, f.clients) /\ Len(up.chains) = Len(f.chains)
      /\ up.count = f.count /\ up.current = f.current
      /\ up.clients = f.clients /\ up.desk = f.desk
      /\ f.active # NoClient => visible(up, f.active)
  BY <1>1, <1>2, UnminimizePasses
<1>4. ASSUME NEW order \in Leaving(f.desk[c]) PROVE
         f.desk[c] \in Desktops /\ f.desk[c] # f.current => Covers(f, order, f.desk[c])
  BY <1>4, LeavingCovers
<1>5. ASSUME NEW s, NEW t, s.clients = f.clients, Good(s, s.clients),
             t = update(s, c, "Update")
      PROVE  SamePlace(s, t) /\ SameFocus(s, t)
  <2>1. PICK K : K = s.clients
    OBVIOUS
  <2>2. s \in Type /\ K \subseteq Clients /\ ListsKnown(s, K) /\ c \in K
    BY <1>1, <1>5, <2>1 DEF Good, Known
  <2> QED
    BY <1>5, <2>2, Updated
<1>6. ASSUME NEW order \in Leaving(f.desk[c]), f' = activateClient(f, c, order)
      PROVE  PassesOn(f, f')
  <2>1. PICK t : t = activateClient(f, c, order)
    OBVIOUS
  <2>2. Passed(t, t.clients)
    BY <1>1, <1>4, <2>1, ClientActivated
  <2> QED
    BY <1>6, <2>1, <2>2 DEF PassesOn
<1>7. CASE f' = update(up, c, "Update")
  <2>1. PICK t : t = update(up, c, "Update")
    OBVIOUS
  <2>2. SamePlace(up, t)
    BY <1>3, <1>5, <2>1
  <2>3. f.active # NoClient => visible(t, f.active)
    BY <1>3, <2>2 DEF SamePlace, visible, isOnCurrentDesktop, isOnDesktop
  <2> QED
    BY <1>7, <2>1, <2>3 DEF PassesOn
<1>8. ASSUME NEW order \in Leaving(f.desk[c]),
             f' = update(activateClient(up, c, order), c, "Update")
      PROVE  PassesOn(f, f')
  <2>1. PICK a : a = activateClient(up, c, order)
    OBVIOUS
  <2>2. up.desk[c] \in Desktops /\ up.desk[c] # up.current => Covers(up, order, up.desk[c])
    BY <1>3, <1>4 DEF Covers, Leaves, isOnDesktop
  <2>3. Sized(up)
    BY <1>1, <1>3 DEF Sized
  <2>4. Good(a, a.clients) /\ a.clients = up.clients /\ Passed(a, a.clients)
    BY <1>1, <1>3, <2>1, <2>2, <2>3, ClientActivated
  <2>5. PICK t : t = update(a, c, "Update")
    OBVIOUS
  <2>6. SamePlace(a, t) /\ SameFocus(a, t)
    BY <1>3, <1>5, <2>4, <2>5
  <2>7. Passed(t, a.clients)
    BY <2>4, <2>6, PassedStays DEF SameFocus
  <2>8. Passed(t, t.clients)
    BY <2>6, <2>7 DEF SamePlace
  <2> QED
    BY <1>8, <2>1, <2>5, <2>8 DEF PassesOn
<1>9. \/ \E order \in Leaving(f.desk[c]) : f' = activateClient(f, c, order)
      \/ f' = update(up, c, "Update")
      \/ \E order \in Leaving(f.desk[c]) :
            f' = update(activateClient(up, c, order), c, "Update")
  BY <1>2 DEF ActivateClient, MapRequest
<1> QED
  BY <1>6, <1>7, <1>8, <1>9

LEMMA SetCurrentPasses ==
    ASSUME ActivationInv, NEW d \in Desktops, SetCurrent(d)
    PROVE  PassesOn(f, f')
<1> DEFINE no == FALSE
<1>1. PICK order \in Leaving(d) : f' = setCurrent(f, d, order, no)
  BY DEF SetCurrent
<1>2. ~no /\ d # f.current /\ d \in 1..f.count /\ d \in Desktops \cup {OnAllDesktops}
  BY DEF SetCurrent
<1> HIDE DEF no
<1>3. PICK t : t = setCurrent(f, d, order, no)
  OBVIOUS
<1>4. PICK K : K = f.clients
  OBVIOUS
<1>5. Ready(f, K) /\ Covers(f, order, d)
  BY <1>1, <1>2, <1>4, GoodIsReady, LeavingCovers DEF ActivationInv
<1>6. OnlyCurrent(f, t, d) /\ (Waiting(f, K, d) => Passed(t, K))
  BY <1>2, <1>3, <1>5, MadeCurrent
<1>7. ASSUME Wanted(t) PROVE Waiting(f, K, d)
  <2>1. PICK y \in K \ f.minimized : y \in f.wants /\ f.desk[y] = d
    BY <1>2, <1>4, <1>6, <1>7
       DEF OnlyCurrent, Wanted, visible, isOnCurrentDesktop, isOnDesktop
  <2>2. d # OnAllDesktops /\ d \in 1..Len(f.chains)
    BY <1>2 DEF OnAllDesktops, ActivationInv, Sized
  <2> QED
    BY <1>5, <2>1, <2>2, SomeoneWaits DEF Ready
<1>8. t.clients = K
  BY <1>4, <1>6 DEF OnlyCurrent
<1> QED
  BY <1>1, <1>3, <1>6, <1>7, <1>8 DEF PassesOn

LEMMA SetCountPasses ==
    ASSUME ActivationInv, NEW n \in Desktops, SetCount(n)
    PROVE  PassesOn(f, f')
<1>1. f'.count = n /\ n # f.count
  BY SetCountInv
<1> QED
  BY <1>1 DEF PassesOn

LEMMA NextPasses ==
    ASSUME ActivationInv, [Next]_f
    PROVE  PassesOn(f, f')
<1>1. CASE UNCHANGED f
  BY <1>1, InSight DEF PassesOn
<1>2. ASSUME NEW c \in Clients, ClientStep(c)
      PROVE  PassesOn(f, f')
  BY <1>2, ManageInv, ReleaseInv, EventPasses, ActivateClientPasses, MinimizePasses,
     UnminimizeStepPasses, SetOnAllDesktopsPasses, SendToDesktopPasses
     DEF ClientStep
<1>3. CASE FocusOut \/ PointerLeaves \/ DelayFocus
  BY <1>3, EventPasses
<1>4. ASSUME NEW d \in Desktops, SetCurrent(d) \/ SetCount(d)
      PROVE  PassesOn(f, f')
  BY <1>4, SetCurrentPasses, SetCountPasses
<1> QED
  BY <1>1, <1>2, <1>3, <1>4 DEF Next

(* When the active client is minimized, sent to another desktop, released, *)
(* or left behind on a desktop that is not current any more, the focus is  *)
(* requested for a client that can be seen, if one that wants the focus    *)
(* lives on the current desktop.                                           *)
THEOREM FocusAlwaysPassedOn == Spec => FocusPassedOn
<1>1. ActivationInv /\ [Next]_f => PassesOn(f, f')
  BY NextPasses
<1>2. PassesOn(f, f') =>
         (/\ f.active # NoClient /\ ~visible(f', f.active)
          /\ f'.count = f.count
          /\ \E c \in f'.wants : visible(f', c) /\ f'.desk[c] # OnAllDesktops
          => /\ f'.expected # <<>>
             /\ visible(f', Last(f'.expected)))
  BY DEF PassesOn, Passed, Wanted, visible
<1> QED
  BY <1>1, <1>2, ActivationInvariant, PTL DEF Spec, FocusPassedOn
=============================================================================
