---------------------------- MODULE ListTheorems ----------------------------
(***************************************************************************)
(* What the walks of Lists compute, for every list.                        *)
(***************************************************************************)
EXTENDS Lists, FiniteSetTheorems, TLAPS

-----------------------------------------------------------------------------
(* Induction and recursion over the positions of a list.                   *)

(* A set that holds 0 and with every number below n the next one holds     *)
(* them all: its initial segments are as many as it has numbers.           *)
LEMMA Reached ==
    ASSUME NEW n \in Nat, NEW R, 0 \in R,
           \A i \in 0..n : i \in R /\ i < n => i + 1 \in R
    PROVE  0..n \subseteq R
<1> DEFINE I == {i \in 1..n : \A j \in 1..i : j \in R}
           c == Cardinality(I)
<1>1. \A m \in Nat : IsFiniteSet(1..m) /\ Cardinality(1..m) = m
  BY FS_Interval
<1>2. IsFiniteSet(I) /\ c \in Nat
  BY <1>1, FS_Subset, FS_CardinalityType
<1>3. \A i \in I : 1..i \subseteq I
  OBVIOUS
<1>4. I \subseteq 1..c
  <2> SUFFICES ASSUME NEW i \in I, ~(i <= c) PROVE FALSE
    BY <1>2
  <2>1. i \in Nat /\ 1..i \subseteq I
    BY <1>3
  <2>2. Cardinality(1..i) <= c
    BY <1>2, <2>1, FS_Subset
  <2> QED
    BY <1>1, <2>1, <2>2
<1>5. I = 1..c
  BY <1>1, <1>2, <1>4, FS_Subset
<1> HIDE DEF c
<1>6. c < n => c + 1 \in I
  <2> SUFFICES ASSUME c < n PROVE \A j \in 1..(c + 1) : j \in R
    BY <1>2
  <2>1. \A j \in 1..c : j \in R
    BY <1>5
  <2>2. c \in R
    BY <1>2, <2>1
  <2>3. c + 1 \in R
    BY <1>2, <2>2
  <2> QED
    BY <1>2, <2>1, <2>3
<1>7. ~(c < n)
  <2>1. c + 1 \notin 1..c
    BY <1>2
  <2> HIDE DEF I
  <2> QED
    BY <1>5, <1>6, <2>1
<1>8. \A j \in 1..n : j \in R
  BY <1>2, <1>5, <1>7
<1> QED
  BY <1>8

(* What holds of the first value of a recursive function, and of each      *)
(* value if it holds of the one before, holds of all.                      *)
LEMMA Carried ==
    ASSUME NEW n \in Nat, NEW h, NEW S, h[0] \in S[0],
           \A i \in 1..n : h[i - 1] \in S[i - 1] => h[i] \in S[i]
    PROVE  \A i \in 0..n : h[i] \in S[i]
<1> DEFINE R == {i \in 0..n : h[i] \in S[i]}
<1>1. 0 \in R
  OBVIOUS
<1>2. \A i \in 0..n : i \in R /\ i < n => i + 1 \in R
  <2> SUFFICES ASSUME NEW i \in 0..n, h[i] \in S[i], i < n
               PROVE  h[i + 1] \in S[i + 1]
    OBVIOUS
  <2>1. i + 1 \in 1..n /\ (i + 1) - 1 = i
    OBVIOUS
  <2> QED
    BY <2>1
<1> HIDE DEF R
<1>3. 0..n \subseteq R
  BY <1>1, <1>2, Reached
<1> QED
  BY <1>3 DEF R

(* g has the first value s, each further value is a step F of the one      *)
(* before, and the values stay in the sets S.                              *)
Computes(g, n, s, F, S) ==
    /\ g = [i \in 0..n |-> g[i]]
    /\ g[0] = s
    /\ \A i \in 1..n : g[i] = F[i][g[i - 1]]
    /\ \A i \in 0..n : g[i] \in S[i]

(* The recursive function with first value s and step F exists.            *)
LEMMA Recursion ==
    ASSUME NEW n \in Nat, NEW s, NEW F, NEW S, s \in S[0],
           \A i \in 1..n : \A x \in S[i - 1] : F[i][x] \in S[i]
    PROVE  \E g : Computes(g, n, s, F, S)
<1> DEFINE R == {m \in 0..n : \E g : Computes(g, m, s, F, S)}
<1>1. 0 \in R
  <2> DEFINE g == [i \in 0..0 |-> s]
  <2>1. 0..0 = {0} /\ 1..0 = {} /\ 0 \in 0..n
    OBVIOUS
  <2>2. Computes(g, 0, s, F, S)
    BY <2>1 DEF Computes
  <2> QED
    BY <2>1, <2>2
<1>2. \A m \in 0..n : m \in R /\ m < n => m + 1 \in R
  <2> SUFFICES ASSUME NEW m \in 0..n, m \in R, m < n
               PROVE  \E g : Computes(g, m + 1, s, F, S)
    OBVIOUS
  <2>1. PICK g : Computes(g, m, s, F, S)
    OBVIOUS
  <2> DEFINE k == [i \in 0..(m + 1) |-> IF i = m + 1 THEN F[i][g[m]] ELSE g[i]]
  <2>2. \A i \in 0..m : k[i] = g[i]
    OBVIOUS
  <2>3. k[m + 1] = F[m + 1][g[m]] /\ m + 1 \in 1..n /\ (m + 1) - 1 = m
    OBVIOUS
  <2>4. k = [i \in 0..(m + 1) |-> k[i]]
    OBVIOUS
  <2> HIDE DEF k
  <2>5. k[m + 1] \in S[m + 1]
    BY <2>1, <2>3 DEF Computes
  <2>6. \A i \in 0..(m + 1) : k[i] \in S[i]
    BY <2>1, <2>2, <2>5 DEF Computes
  <2>7. k[0] = s
    BY <2>1, <2>2 DEF Computes
  <2>8. \A i \in 1..(m + 1) : k[i] = F[i][k[i - 1]]
    <3> SUFFICES ASSUME NEW i \in 1..(m + 1) PROVE k[i] = F[i][k[i - 1]]
      OBVIOUS
    <3>1. CASE i = m + 1
      BY <2>2, <2>3, <3>1
    <3>2. CASE i \in 1..m
      <4>1. g[i] = F[i][g[i - 1]]
        BY <2>1, <3>2 DEF Computes
      <4>2. i - 1 \in 0..m /\ i \in 0..m
        BY <3>2
      <4> QED
        BY <2>2, <4>1, <4>2
    <3> QED
      BY <3>1, <3>2
  <2>9. Computes(k, m + 1, s, F, S)
    BY <2>4, <2>6, <2>7, <2>8 DEF Computes
  <2> QED
    BY <2>9
<1> HIDE DEF R
<1>3. n \in R
  BY <1>1, <1>2, Reached
<1> QED
  BY <1>3 DEF R

(* A set of positions has a largest one.                                   *)
LEMMA MaxPosition ==
    ASSUME NEW n \in Nat, NEW P \in SUBSET (1..n), P # {}
    PROVE  Max(P) \in P /\ \A i \in P : i <= Max(P)
<1> DEFINE R == {i \in 0..n : \A j \in P : j <= n - i}
<1>1. \E x \in P : \A y \in P : x >= y
  <2> SUFFICES ASSUME \A x \in P : \E y \in P : ~(x >= y) PROVE FALSE
    OBVIOUS
  <2>1. 0 \in R
    OBVIOUS
  <2>2. \A i \in 0..n : i \in R /\ i < n => i + 1 \in R
    <3> SUFFICES ASSUME NEW i \in 0..n, i \in R, i < n
                 PROVE  \A j \in P : j <= n - (i + 1)
      OBVIOUS
    <3>1. n - i \notin P
      OBVIOUS
    <3> QED
      BY <3>1
  <2> HIDE DEF R
  <2>3. n \in R
    BY <2>1, <2>2, Reached
  <2>4. \A j \in P : j <= n - n
    BY <2>3 DEF R
  <2>5. \A j \in P : j >= 1 /\ j <= 0
    BY <2>4
  <2>6. \A j \in P : FALSE
    BY <2>5
  <2> QED
    BY <2>6
<1>2. Max(P) \in P /\ \A y \in P : Max(P) >= y
  BY <1>1 DEF Max
<1> QED
  BY <1>2

(* And a smallest one.                                                     *)
LEMMA MinPosition ==
    ASSUME NEW n \in Nat, NEW P \in SUBSET (1..n), P # {}
    PROVE  Min(P) \in P /\ \A i \in P : Min(P) <= i
<1> DEFINE R == {i \in 0..n : \A j \in P : j > i}
<1>1. \E x \in P : \A y \in P : x <= y
  <2> SUFFICES ASSUME \A x \in P : \E y \in P : ~(x <= y) PROVE FALSE
    OBVIOUS
  <2>1. 0 \in R
    OBVIOUS
  <2>2. \A i \in 0..n : i \in R /\ i < n => i + 1 \in R
    <3> SUFFICES ASSUME NEW i \in 0..n, i \in R, i < n
                 PROVE  \A j \in P : j > i + 1
      OBVIOUS
    <3>1. i + 1 \notin P
      OBVIOUS
    <3> QED
      BY <3>1
  <2> HIDE DEF R
  <2>3. n \in R
    BY <2>1, <2>2, Reached
  <2>4. \A j \in P : j > n
    BY <2>3 DEF R
  <2>5. \A j \in P : FALSE
    BY <2>4
  <2> QED
    BY <2>5
<1> QED
  BY <1>1 DEF Min

-----------------------------------------------------------------------------
(* Lists of clients.                                                       *)

(* No client is twice in a list.                                           *)
Once(list) == \A i, j \in 1..Len(list) : list[i] = list[j] => i = j

(* removeAll() takes a client out of a list and no other; another one that *)
(* is last stays last.                                                     *)
LEMMA RemoveAll ==
    ASSUME NEW C, NEW list \in Seq(C), NEW c
    PROVE  LET r == removeAll(list, c) IN
           /\ r \in Seq(C)
           /\ \A x : Contains(r, x) <=> x # c /\ Contains(list, x)
           /\ Once(list) => Once(r)
           /\ list # <<>> /\ Last(list) # c => r # <<>> /\ Last(r) = Last(list)
<1> DEFINE n == Len(list)
           Step(q, i) == IF list[i] = c THEN q ELSE Append(q, list[i])
           Q(k) == k = [i \in 0..n |-> IF i = 0 THEN <<>>
                        ELSE IF list[i] = c THEN k[i - 1]
                        ELSE Append(k[i - 1], list[i])]
           Before(i) == {list[j] : j \in 1..i} \ {c}
           P(q, i) == /\ q \in Seq(C)
                      /\ \A j \in 1..Len(q) : q[j] \in Before(i)
                      /\ \A x \in Before(i) : \E j \in 1..Len(q) : q[j] = x
                      /\ Once(list) => Once(q)
                      /\ i > 0 /\ list[i] # c => Len(q) > 0 /\ q[Len(q)] = list[i]
           S == [i \in 0..n |-> {q \in Seq(C) : P(q, i)}]
           F == [i \in 1..n |-> [q \in S[i - 1] |-> Step(q, i)]]
           h == CHOOSE k : Q(k)
<1>1. n \in Nat /\ \A i \in 1..n : list[i] \in C
  OBVIOUS
<1>2. <<>> \in S[0]
  <2>1. P(<<>>, 0) /\ 0 \in 0..n
    BY <1>1 DEF Once
  <2> QED
    BY <2>1
<1>3. \A i \in 1..n : \A q \in S[i - 1] : Step(q, i) \in S[i]
  <2> SUFFICES ASSUME NEW i \in 1..n, NEW q \in S[i - 1]
               PROVE  Step(q, i) \in S[i]
    OBVIOUS
  <2>1. i - 1 \in 0..n /\ i \in 0..n /\ i \in Nat
    BY <1>1
  <2>2. P(q, i - 1)
    BY <2>1
  <2>5. 1..i = 1..(i - 1) \cup {i}
    BY <2>1
  <2>3. CASE list[i] = c
    <3>1. Before(i) = Before(i - 1)
      BY <2>3, <2>5
    <3>2. P(q, i)
      BY <2>2, <2>3, <3>1
    <3> QED
      BY <2>1, <2>3, <3>2
  <2>4. CASE list[i] # c
    <3> DEFINE r == Append(q, list[i])
    <3>1. r \in Seq(C) /\ Len(r) = Len(q) + 1 /\ r[Len(q) + 1] = list[i]
          /\ (\A j \in 1..Len(q) : r[j] = q[j]) /\ Len(q) \in Nat
      BY <1>1, <2>2
    <3>2. Before(i) = Before(i - 1) \cup {list[i]}
      BY <2>4, <2>5
    <3> HIDE DEF r
    <3>3. \A j \in 1..Len(r) : j = Len(q) + 1 \/ j \in 1..Len(q)
      BY <3>1
    <3>4. \A j \in 1..Len(r) : r[j] \in Before(i)
      BY <2>2, <3>1, <3>2, <3>3
    <3>5. \A x \in Before(i) : \E j \in 1..Len(r) : r[j] = x
      <4> SUFFICES ASSUME NEW x \in Before(i) PROVE \E j \in 1..Len(r) : r[j] = x
        OBVIOUS
      <4>1. CASE x = list[i]
        <5>1. Len(q) + 1 \in 1..Len(r)
          BY <3>1
        <5> QED
          BY <3>1, <4>1, <5>1
      <4>2. CASE x \in Before(i - 1)
        <5>1. PICK j \in 1..Len(q) : q[j] = x
          BY <2>2, <4>2
        <5>2. j \in 1..Len(r) /\ r[j] = x
          BY <3>1, <5>1
        <5> QED
          BY <5>2
      <4> QED
        BY <3>2, <4>1, <4>2
    <3>6. Once(list) => Once(r)
      <4> SUFFICES ASSUME Once(list) PROVE Once(r)
        OBVIOUS
      <4>1. list[i] \notin Before(i - 1)
        <5> SUFFICES ASSUME NEW j \in 1..(i - 1), list[j] = list[i] PROVE FALSE
          OBVIOUS
        <5>1. j \in 1..n /\ j # i
          BY <2>1
        <5> QED
          BY <5>1 DEF Once
      <4>2. Once(q)
        BY <2>2
      <4>3. \A j \in 1..Len(q) : q[j] # list[i]
        BY <2>2, <4>1
      <4> QED
        BY <3>1, <3>3, <4>2, <4>3 DEF Once
    <3>7. P(r, i)
      BY <3>1, <3>4, <3>5, <3>6
    <3>8. Step(q, i) = r
      BY <2>4 DEF r
    <3> HIDE DEF P
    <3> QED
      BY <2>1, <3>1, <3>7, <3>8
  <2> QED
    BY <2>3, <2>4
<1>4. \A i \in 1..n : \A q \in S[i - 1] : F[i][q] \in S[i]
  <2> HIDE DEF S, Step
  <2> QED
    BY <1>3
<1>5. PICK g : Computes(g, n, <<>>, F, S)
  <2> HIDE DEF n, S, F
  <2> QED
    BY <1>1, <1>2, <1>4, Recursion
<1>6. Q(g)
  <2>1. \A i \in 0..n : i # 0 => g[i] = Step(g[i - 1], i)
    <3> SUFFICES ASSUME NEW i \in 0..n, i # 0 PROVE g[i] = Step(g[i - 1], i)
      OBVIOUS
    <3>1. i \in 1..n /\ i - 1 \in 0..n
      BY <1>1
    <3>2. g[i] = F[i][g[i - 1]] /\ g[i - 1] \in S[i - 1]
      BY <1>5, <3>1 DEF Computes
    <3> HIDE DEF S, Step
    <3> QED
      BY <3>1, <3>2
  <2>2. g[0] = <<>> /\ g = [i \in 0..n |-> g[i]]
    BY <1>1, <1>5 DEF Computes
  <2> QED
    BY <2>1, <2>2
<1>7. Q(h)
  BY <1>6
<1>8. removeAll(list, c) = h[n]
  BY DEF removeAll
<1> HIDE DEF h
<1>9. h[n] \in S[n]
  <2>1. h[0] \in S[0]
    BY <1>1, <1>2, <1>7
  <2>2. \A i \in 1..n : h[i] = Step(h[i - 1], i)
    <3> SUFFICES ASSUME NEW i \in 1..n PROVE h[i] = Step(h[i - 1], i)
      OBVIOUS
    <3>1. i \in 0..n /\ i # 0
      BY <1>1
    <3> HIDE DEF n
    <3> QED
      BY <1>7, <3>1
  <2>3. \A i \in 1..n : h[i - 1] \in S[i - 1] => h[i] \in S[i]
    <3> HIDE DEF S, Step
    <3> QED
      BY <1>3, <2>2
  <2> HIDE DEF S
  <2>4. \A i \in 0..n : h[i] \in S[i]
    BY <1>1, <2>1, <2>3, Carried
  <2> QED
    BY <1>1, <2>4
<1>10. P(h[n], n)
  <2>1. n \in 0..n
    BY <1>1
  <2> HIDE DEF n, P
  <2> QED
    BY <1>9, <2>1
<1>11. \A x : Contains(h[n], x) <=> x # c /\ Contains(list, x)
  <2>1. /\ \A j \in 1..Len(h[n]) : h[n][j] \in Before(n)
        /\ \A x \in Before(n) : \E j \in 1..Len(h[n]) : h[n][j] = x
    BY <1>10
  <2>2. \A x : x \in Before(n) <=> x # c /\ Contains(list, x)
    BY DEF Contains
  <2> HIDE DEF P, Before
  <2> QED
    BY <2>1, <2>2 DEF Contains
<1>12. ASSUME list # <<>>, Last(list) # c
       PROVE  h[n] # <<>> /\ Last(h[n]) = Last(list)
  <2>1. n > 0 /\ list[n] # c
    BY <1>1, <1>12 DEF Last
  <2>2. Len(h[n]) > 0 /\ h[n][Len(h[n])] = list[n]
    BY <1>10, <2>1
  <2> QED
    BY <2>2 DEF Last
<1> QED
  BY <1>8, <1>10, <1>11, <1>12
=============================================================================
