----------------------- MODULE InputConnectionProofs ------------------------
(***************************************************************************)
(* Proofs about InputConnection, for any devices, kinds of input and       *)
(* bounds.  Its steps are steps of EventChannel, so no event is lost,      *)
(* repeated or overtaken between libinput and the main thread.  An event   *)
(* in the shared queue always has a wake-up under way.  And the seat       *)
(* follows libinput: the events that are pending tell a story that leads   *)
(* from the devices that the main thread has counted to those that         *)
(* libinput has opened.                                                    *)
(***************************************************************************)
EXTENDS InputConnection, FiniteSetTheorems, TLAPS

-----------------------------------------------------------------------------
(* Sequences of events.                                                    *)

LEMMA EventTypes ==
    /\ \A d \in Devices : added(d) \in Events /\ removed(d) \in Events
    /\ \A type \in Inputs : [type |-> type, dev |-> "any"] \in Events
<1>1. \A d \in Devices : added(d) \in Events /\ removed(d) \in Events
  BY DEF added, removed, Events
<1>2. \A type \in Inputs : [type |-> type, dev |-> "any"] \in Events
  BY DEF Events
<1> QED
  BY <1>1, <1>2

(* The events that report a set of devices, in any order.                  *)
LEMMA ReportTypes ==
    ASSUME NEW S \in SUBSET Devices, NEW order \in SetToSeqs(S)
    PROVE  /\ [i \in DOMAIN order |-> added(order[i])] \in Seq(Events)
           /\ [i \in DOMAIN order |-> removed(order[i])] \in Seq(Events)
<1>1. IsFiniteSet(S)
  BY DevicesAssumption, FS_Subset
<1>2. Cardinality(S) \in Nat
  BY <1>1, FS_CardinalityType
<1>3. order \in [1..Cardinality(S) -> S]
  BY DEF SetToSeqs
<1>4. DOMAIN order = 1..Cardinality(S)
      /\ \A i \in DOMAIN order : order[i] \in Devices
  BY <1>3
<1>5. [i \in DOMAIN order |-> added(order[i])]
         \in [1..Cardinality(S) -> Events]
  BY <1>4, EventTypes
<1>6. [i \in DOMAIN order |-> removed(order[i])]
         \in [1..Cardinality(S) -> Events]
  BY <1>4, EventTypes
<1> QED
  BY <1>2, <1>5, <1>6

LEMMA Emptiness ==
    ASSUME NEW s \in Seq(Events), NEW t \in Seq(Events)
    PROVE  /\ s \o t \in Seq(Events)
           /\ s \o t = <<>> <=> s = <<>> /\ t = <<>>
<1>1. s \o t \in Seq(Events) /\ Len(s \o t) = Len(s) + Len(t)
  OBVIOUS
<1>2. \A u \in Seq(Events) : u = <<>> <=> Len(u) = 0
  OBVIOUS
<1> QED
  BY <1>1, <1>2

(* Reading libinput leaves what is pending as it is.                       *)
LEMMA MovedIsPending ==
    ASSUME NEW s \in Seq(Events), NEW t \in Seq(Events)
    PROVE  (s \o t) \o <<>> = s \o t
<1>1. s \o t \in Seq(Events)
  OBVIOUS
<1> QED
  BY <1>1

(* What libinput reports is added at the end of what is pending.           *)
LEMMA ReportedIsLast ==
    ASSUME NEW s \in Seq(Events), NEW t \in Seq(Events), NEW u \in Seq(Events)
    PROVE  /\ s \o (t \o u) = (s \o t) \o u
           /\ IsPrefix(s \o t, s \o (t \o u))
<1>1. s \o (t \o u) = (s \o t) \o u
  OBVIOUS
<1> DEFINE p == s \o t
<1>2. p \in Seq(Events)
  OBVIOUS
<1> HIDE DEF p
<1>3. Len(p) <= Len(p \o u)
  BY <1>2
<1>4. SubSeq(p, 1, Len(p)) = p
  BY <1>2
<1>5. SubSeq(p \o u, 1, Len(p)) = p
  BY <1>2
<1>6. IsPrefix(p, p \o u)
  BY <1>3, <1>4, <1>5 DEF IsPrefix
<1> QED
  BY <1>1, <1>6 DEF p

LEMMA AppendIsReport ==
    ASSUME NEW s \in Seq(Events), NEW e \in Events
    PROVE  Append(s, e) = s \o <<e>> /\ <<e>> \in Seq(Events) /\ <<e>> # <<>>
OBVIOUS

-----------------------------------------------------------------------------
(* Runs of events that are merged.                                         *)

(* The longest run of events of one kind at the front of a queue exists:   *)
(* it is as long as there are positions up to which all agree.             *)
LEMMA RunExists ==
    ASSUME NEW q \in Seq(Events), q # <<>>
    PROVE  \E n \in 1..Len(q) :
              /\ \A i \in 1..n : q[i].type = q[1].type
              /\ n = Len(q) \/ q[n + 1].type # q[1].type
<1> DEFINE Agree(n) == \A i \in 1..n : q[i].type = q[1].type
           R == {n \in 1..Len(q) : Agree(n)}
           c == Cardinality(R)
<1>1. Len(q) \in Nat /\ Len(q) > 0
  OBVIOUS
<1>2. \A n \in Nat : IsFiniteSet(1..n) /\ Cardinality(1..n) = n
  BY FS_Interval
<1>3. IsFiniteSet(R) /\ c \in Nat
  BY <1>1, <1>2, FS_Subset, FS_CardinalityType
<1>4. 1 \in R
  BY <1>1
<1>5. c > 0
  <2>1. R # {}
    BY <1>4
  <2>2. c # 0
    BY <1>3, <2>1, FS_EmptySet
  <2> QED
    BY <1>3, <2>2
<1>6. \A n \in R : 1..n \subseteq R
  BY <1>1
<1>7. c \in R
  <2> SUFFICES ASSUME c \notin R PROVE FALSE
    OBVIOUS
  <2>1. \A n \in R : n < c
    <3> SUFFICES ASSUME NEW n \in R, ~(n < c) PROVE FALSE
      OBVIOUS
    <3>1. n \in Nat /\ c \in 1..n
      BY <1>3, <1>5
    <3> QED
      BY <1>6, <3>1
  <2>2. R \subseteq 1..(c - 1)
    <3> SUFFICES ASSUME NEW n \in R PROVE n \in 1..(c - 1)
      OBVIOUS
    <3>1. n \in Nat /\ n >= 1 /\ n < c
      BY <1>1, <2>1
    <3> HIDE DEF c
    <3> QED
      BY <1>3, <3>1
  <2>3. c - 1 \in Nat
    BY <1>3, <1>5
  <2>4. c <= c - 1
    BY <1>2, <2>2, <2>3, FS_Subset
  <2> QED
    BY <1>3, <2>4
<1>8. c + 1 \notin R
  <2> SUFFICES ASSUME c + 1 \in R PROVE FALSE
    OBVIOUS
  <2>1. 1..(c + 1) \subseteq R
    BY <1>6
  <2>2. c + 1 <= c
    BY <1>2, <1>3, <2>1, FS_Subset
  <2> QED
    BY <1>3, <2>2
<1>9. c \in 1..Len(q) /\ Agree(c)
  BY <1>7
<1>10. c = Len(q) \/ q[c + 1].type # q[1].type
  <2> SUFFICES ASSUME c # Len(q), q[c + 1].type = q[1].type PROVE FALSE
    OBVIOUS
  <2>1. c + 1 \in 1..Len(q)
    BY <1>1, <1>9
  <2>2. Agree(c + 1)
    BY <1>3, <1>9
  <2> QED
    BY <1>8, <2>1, <2>2
<1> QED
  BY <1>9, <1>10

(* What one round of processEvents() takes from the queue is one event or  *)
(* a run that EventChannel allows to be merged.                            *)
LEMMA MergedRun ==
    ASSUME NEW q \in Seq(Events), q # <<>>
    PROVE  /\ mergedFrom(q) \in 1..Len(q)
           /\ \/ mergedFrom(q) = 1
              \/ \A i \in 1..mergedFrom(q) :
                    Mergeable(q[i]) /\ q[i].type = q[1].type
<1>1. CASE ~Mergeable(Head(q))
  BY <1>1 DEF mergedFrom
<1>2. CASE Mergeable(Head(q))
  <2> DEFINE P(n) == /\ \A i \in 1..n : q[i].type = q[1].type
                     /\ n = Len(q) \/ q[n + 1].type # q[1].type
             m == CHOOSE n \in 1..Len(q) : P(n)
  <2>1. mergedFrom(q) = m
    BY <1>2 DEF mergedFrom
  <2>2. \E n \in 1..Len(q) : P(n)
    BY RunExists
  <2>3. m \in 1..Len(q) /\ P(m)
    BY <2>2
  <2>4. Head(q) = q[1]
    OBVIOUS
  <2>5. \A i \in 1..m : Mergeable(q[i]) /\ q[i].type = q[1].type
    BY <1>2, <2>3, <2>4 DEF Mergeable
  <2> QED
    BY <2>1, <2>3, <2>5
<1> QED
  BY <1>1, <1>2

(* Taking n events from the front of the queue takes them from the front   *)
(* of what is pending.                                                     *)
LEMMA TakenFromPending ==
    ASSUME NEW s \in Seq(Events), NEW t \in Seq(Events), NEW n \in 1..Len(s)
    PROVE  /\ SubSeq(s, n + 1, Len(s)) \in Seq(Events)
           /\ SubSeq(s, n + 1, Len(s)) \o t
                 = SubSeq(s \o t, n + 1, Len(s \o t))
           /\ n \in 1..Len(s \o t)
           /\ \A i \in 1..n : (s \o t)[i] = s[i]
<1> DEFINE u == SubSeq(s, n + 1, Len(s))
           p == s \o t
<1>1. n \in Nat /\ Len(s) \in Nat /\ Len(t) \in Nat /\ n <= Len(s)
  OBVIOUS
<1>2. u \in Seq(Events) /\ Len(u) = Len(s) - n
  BY <1>1
<1>3. p \in Seq(Events) /\ Len(p) = Len(s) + Len(t)
  OBVIOUS
<1>4. \A i \in 1..Len(u) : u[i] = s[i + n]
  BY <1>1
<1>5. \A i \in 1..Len(p) :
         p[i] = IF i <= Len(s) THEN s[i] ELSE t[i - Len(s)]
  OBVIOUS
<1> DEFINE v == SubSeq(p, n + 1, Len(p))
           w == u \o t
<1>6. v \in Seq(Events) /\ Len(v) = Len(p) - n
      /\ \A i \in 1..Len(v) : v[i] = p[i + n]
  <2> HIDE DEF p
  <2> QED
    BY <1>1, <1>3
<1>7. w \in Seq(Events) /\ Len(w) = Len(u) + Len(t)
      /\ \A i \in 1..Len(w) :
            w[i] = IF i <= Len(u) THEN u[i] ELSE t[i - Len(u)]
  <2> HIDE DEF u
  <2>1. u \in Seq(Events) /\ t \in Seq(Events)
    BY <1>2
  <2> QED
    BY <2>1
<1>8. Len(v) = Len(w)
  <2> HIDE DEF u, v, w, p
  <2> QED
    BY <1>1, <1>2, <1>3, <1>6, <1>7
<1>9. \A i \in 1..Len(w) : w[i] = v[i]
  <2> HIDE DEF u, v, w, p
  <2> SUFFICES ASSUME NEW i \in 1..Len(w) PROVE w[i] = v[i]
    OBVIOUS
  <2>1. i \in Nat /\ i + n \in 1..Len(p) /\ v[i] = p[i + n]
    BY <1>1, <1>2, <1>3, <1>6, <1>7, <1>8
  <2>2. CASE i <= Len(u)
    BY <1>1, <1>2, <1>4, <1>5, <1>7, <2>1, <2>2
  <2>3. CASE ~(i <= Len(u))
    <3>1. w[i] = t[i - Len(u)]
      BY <1>7, <2>3
    <3>2. ~(i + n <= Len(s)) /\ i + n - Len(s) = i - Len(u)
      BY <1>1, <1>2, <2>1, <2>3
    <3>3. p[i + n] = t[i + n - Len(s)]
      BY <1>5, <2>1, <3>2
    <3> QED
      BY <2>1, <3>1, <3>2, <3>3
  <2> QED
    BY <2>2, <2>3
<1>10. w = v
  <2> HIDE DEF u, v, w, p
  <2> QED
    BY <1>6, <1>7, <1>8, <1>9
<1>11. n \in 1..Len(p)
  <2> HIDE DEF p
  <2> QED
    BY <1>1, <1>3
<1>12. \A i \in 1..n : p[i] = s[i]
  BY <1>1, <1>3, <1>5
<1> QED
  BY <1>2, <1>10, <1>11, <1>12

-----------------------------------------------------------------------------
(* InputConnection implements EventChannel.                                *)

(* What the refinement needs: both queues hold events, and libinput knows  *)
(* only devices.                                                           *)
ChannelType ==
    /\ lib \in Seq(Events) /\ queue \in Seq(Events)
    /\ known \in SUBSET Devices /\ plugged \in SUBSET Devices

LEMMA ChannelInit == Init => ChannelType /\ Channel!Init
<1> SUFFICES ASSUME Init PROVE ChannelType /\ Channel!Init
  OBVIOUS
<1>1. plugged \in SUBSET Devices /\ known \in SUBSET Devices
      /\ queue = <<>> /\ thread = "new"
  BY DEF Init
<1>2. PICK order \in SetToSeqs(known) :
         lib = [i \in DOMAIN order |-> added(order[i])]
  BY DEF Init
<1>3. lib \in Seq(Events)
  BY <1>1, <1>2, ReportTypes
<1>4. queue \in Seq(Events)
  BY <1>1
<1>5. queue \o lib \in Seq(Events)
  BY <1>3, <1>4
<1>6. \A i \in DOMAIN (queue \o lib) : (queue \o lib)[i] \in Events
  BY <1>5
<1>7. Noticed = Len(queue \o lib)
  BY <1>1 DEF Noticed, ReadIsDue
<1> QED
  BY <1>1, <1>3, <1>4, <1>6, <1>7 DEF ChannelType, Channel!Init

(* A step that reports u at the end of libinput's queue, or nothing at all *)
(* where u is empty.  Without a read to come only silent events may wait,  *)
(* and a read that is due remains so until there is one.                   *)
LEMMA ReportStep ==
    ASSUME lib \in Seq(Events), queue \in Seq(Events),
           NEW u \in Seq(Events), lib' = lib \o u, queue' = queue,
           ReadIsDue => ReadIsDue',
           ~ReadIsDue' => \A i \in 1..Len(u) : Silent(u[i])
    PROVE  /\ lib' \in Seq(Events) /\ queue' \in Seq(Events)
           /\ [Channel!Next]_(Channel!vars)
<1>1. lib' \in Seq(Events) /\ queue' \in Seq(Events)
  OBVIOUS
<1> DEFINE p == queue \o lib
           q == queue' \o lib'
<1>2. p \in Seq(Events) /\ q \in Seq(Events) /\ q = p \o u
  BY ReportedIsLast
<1>3. Channel!IsPrefix(p, q)
  <2>1. IsPrefix(p, q)
    BY ReportedIsLast
  <2> QED
    BY <2>1 DEF IsPrefix, Channel!IsPrefix
<1>4. Len(p) = Len(queue) + Len(lib)
  OBVIOUS
<1>5. /\ Noticed = IF ReadIsDue THEN Len(p) ELSE Len(queue)
      /\ Noticed' = IF ReadIsDue' THEN Len(q) ELSE Len(queue)
  BY DEF Noticed
<1> SUFFICES [Channel!Next]_<<p, Noticed>>
  BY <1>1 DEF Channel!vars
<1>6. CASE u = <<>>
  <2>1. q = p
    BY <1>2, <1>6
  <2>2. CASE ~ReadIsDue /\ ReadIsDue' /\ lib # <<>>
    <3>1. Noticed < Len(p) /\ Noticed' = Len(p)
      <4>1. Len(lib) > 0
        BY <2>2
      <4> HIDE DEF p, q
      <4> QED
        BY <1>4, <1>5, <2>1, <2>2, <4>1
    <3>2. Channel!Notice
      BY <2>1, <3>1 DEF Channel!Notice
    <3> QED
      BY <3>2 DEF Channel!Next
  <2>3. CASE ReadIsDue \/ ~ReadIsDue' \/ lib = <<>>
    <3>1. Noticed' = Noticed
      <4>1. lib = <<>> => Len(p) = Len(queue)
        OBVIOUS
      <4> HIDE DEF p, q
      <4>2. CASE ReadIsDue
        BY <1>5, <2>1, <4>2
      <4>3. CASE ~ReadIsDue'
        BY <1>5, <4>3
      <4>4. CASE lib = <<>>
        BY <1>5, <2>1, <4>1, <4>4
      <4> QED
        BY <2>3, <4>2, <4>3, <4>4
    <3> QED
      BY <2>1, <3>1
  <2> QED
    BY <2>2, <2>3
<1>7. CASE u # <<>>
  <2>1. p # q
    <3>1. Len(u) > 0
      BY <1>7
    <3>2. Len(q) = Len(p) + Len(u) /\ Len(p) \in Nat
      <4> HIDE DEF p, q
      <4> QED
        BY <1>2
    <3> HIDE DEF p, q
    <3> QED
      BY <3>1, <3>2
  <2>2. \A i \in DOMAIN q : q[i] \in Events
    BY <1>2
  <2>3. \/ Noticed' = Len(q)
        \/ /\ \A i \in (Len(p) + 1)..Len(q) : Silent(q[i])
           /\ Noticed' = Noticed
    <3>1. CASE ReadIsDue'
      BY <1>5, <3>1
    <3>2. CASE ~ReadIsDue'
      <4>1. Noticed' = Noticed
        BY <1>5, <3>2
      <4>2. \A i \in (Len(p) + 1)..Len(q) :
               i - Len(p) \in 1..Len(u) /\ q[i] = u[i - Len(p)]
        <5> HIDE DEF p, q
        <5> QED
          BY <1>2
      <4> QED
        BY <3>2, <4>1, <4>2
    <3> QED
      BY <3>1, <3>2
  <2>4. Channel!Produce
    BY <1>3, <2>1, <2>2, <2>3 DEF Channel!Produce
  <2> QED
    BY <2>4 DEF Channel!Next
<1> QED
  BY <1>6, <1>7

(* A step that reports nothing.                                            *)
LEMMA NoReportStep ==
    ASSUME lib \in Seq(Events), queue \in Seq(Events),
           UNCHANGED <<lib, queue>>, ReadIsDue => ReadIsDue'
    PROVE  [Channel!Next]_(Channel!vars)
<1>1. <<>> \in Seq(Events) /\ lib' = lib \o <<>> /\ Len(<<>>) = 0
  OBVIOUS
<1>2. \A i \in 1..Len(<<>>) : Silent(<<>>[i])
  BY <1>1
<1> QED
  BY <1>1, <1>2, ReportStep

(* A step that appends one event, which will be read.                      *)
LEMMA AppendStep ==
    ASSUME lib \in Seq(Events), queue \in Seq(Events), ReadIsDue',
           NEW e \in Events, lib' = Append(lib, e), queue' = queue
    PROVE  /\ lib' \in Seq(Events) /\ queue' \in Seq(Events)
           /\ [Channel!Next]_(Channel!vars)
<1>1. lib' = lib \o <<e>> /\ <<e>> \in Seq(Events)
  BY AppendIsReport
<1> QED
  BY <1>1, ReportStep

(* handleEvent() moves events from one queue to the other: the read that   *)
(* was due.                                                                *)
LEMMA ReadStep ==
    ASSUME lib \in Seq(Events), queue \in Seq(Events), handleEvent, ReadIsDue
    PROVE  /\ lib' \in Seq(Events) /\ queue' \in Seq(Events)
           /\ [Channel!Next]_(Channel!vars)
<1>1. queue' = queue \o lib /\ lib' = <<>>
  BY DEF handleEvent
<1>2. lib' \in Seq(Events) /\ queue' \in Seq(Events)
  BY <1>1, Emptiness
<1>3. queue' \o lib' = queue \o lib
  BY <1>1, MovedIsPending
<1>4. Noticed = Len(queue \o lib) /\ Noticed' = Len(queue \o lib)
  BY <1>1, <1>3 DEF Noticed
<1> QED
  BY <1>2, <1>3, <1>4 DEF Channel!vars

(* One round of processEvents() delivers one signal.                       *)
LEMMA ProcessStep ==
    ASSUME lib \in Seq(Events), queue \in Seq(Events), ProcessEvent
    PROVE  /\ lib' \in Seq(Events) /\ queue' \in Seq(Events)
           /\ [Channel!Next]_(Channel!vars)
<1> DEFINE n == mergedFrom(queue)
           p == queue \o lib
           q == queue' \o lib'
<1>1. queue # <<>> /\ lib' = lib /\ thread' = thread /\ readable' = readable
      /\ queue' = SubSeq(queue, n + 1, Len(queue))
  BY DEF ProcessEvent, threadVars
<1>2. n \in 1..Len(queue)
      /\ (n = 1 \/ \A i \in 1..n : /\ Mergeable(queue[i])
                                   /\ queue[i].type = queue[1].type)
  BY <1>1, MergedRun
<1> HIDE DEF n
<1>3. /\ queue' \in Seq(Events)
      /\ queue' \o lib'
            = SubSeq(queue \o lib, n + 1, Len(queue \o lib))
      /\ n \in 1..Len(queue \o lib)
      /\ \A i \in 1..n : (queue \o lib)[i] = queue[i]
  BY <1>1, <1>2, TakenFromPending
<1>4. n = 1 \/ \A i \in 1..n :
                 /\ Mergeable((queue \o lib)[i])
                 /\ (queue \o lib)[i].type = (queue \o lib)[1].type
  <2>1. 1 \in 1..n
    BY <1>2
  <2> QED
    BY <1>2, <1>3, <2>1
<1>5. /\ Noticed = IF ReadIsDue THEN Len(p) ELSE Len(queue)
      /\ Noticed' = IF ReadIsDue THEN Len(q) ELSE Len(queue')
  BY <1>1 DEF Noticed, ReadIsDue
<1>6. /\ Len(p) = Len(queue) + Len(lib) /\ Len(q) = Len(queue') + Len(lib)
      /\ Len(queue) \in Nat /\ Len(lib) \in Nat
      /\ Len(queue') = Len(queue) - n
  <2>1. Len(queue') = Len(queue) - n
    BY <1>1, <1>2
  <2> QED
    BY <1>1, <1>3, <2>1
<1>7. n \in 1..Noticed /\ Noticed' = Noticed - n
  <2> HIDE DEF p, q
  <2> QED
    BY <1>2, <1>5, <1>6
<1>8. Channel!Deliver
  BY <1>3, <1>4, <1>7 DEF Channel!Deliver
<1> QED
  BY <1>1, <1>3, <1>8 DEF Channel!Next

(* Every step of the two threads and of the world is a step of the         *)
(* channel, or leaves what is pending as it is.                            *)
LEMMA ChannelStep ==
    ChannelType /\ [Next]_vars => ChannelType' /\ [Channel!Next]_(Channel!vars)
<1> SUFFICES ASSUME ChannelType, [Next]_vars
             PROVE  ChannelType' /\ [Channel!Next]_(Channel!vars)
  OBVIOUS
<1> DEFINE Goal == ChannelType' /\ [Channel!Next]_(Channel!vars)
<1> USE DEF ChannelType
<1>1. ASSUME handleEvent, UNCHANGED worldVars, ReadIsDue PROVE Goal
  BY <1>1, ReadStep DEF worldVars
<1>2. ASSUME UNCHANGED <<lib, queue, known, plugged>>, ReadIsDue => ReadIsDue'
      PROVE  Goal
  BY <1>2, NoReportStep
<1>3. CASE DoSetup
  <2>1. ReadIsDue
    BY <1>3 DEF DoSetup, ReadIsDue
  <2> QED
    BY <1>1, <1>3, <2>1 DEF DoSetup
<1>4. CASE Notified
  <2>1. ReadIsDue
    BY <1>4 DEF Notified, ReadIsDue
  <2> QED
    BY <1>1, <1>4, <2>1 DEF Notified
<1>5. CASE IgnoreChange \/ MarkResumed \/ Deactivate
  <2>1. ReadIsDue => ReadIsDue'
    BY <1>5 DEF IgnoreChange, MarkResumed, Deactivate, ReadIsDue
  <2> QED
    BY <1>2, <1>5, <2>1 DEF IgnoreChange, MarkResumed, Deactivate, worldVars
<1>6. CASE Resume
  <2>1. PICK opened \in SUBSET plugged : \E order \in SetToSeqs(opened) :
           /\ known' = opened
           /\ lib' = lib \o [i \in DOMAIN order |-> added(order[i])]
    BY <1>6 DEF Resume
  <2>2. PICK order \in SetToSeqs(opened) :
           lib' = lib \o [i \in DOMAIN order |-> added(order[i])]
    BY <2>1
  <2>3. queue' = queue /\ plugged' = plugged /\ known' \in SUBSET Devices
    BY <1>6, <2>1 DEF Resume
  <2> DEFINE u == [i \in DOMAIN order |-> added(order[i])]
  <2>4. u \in Seq(Events)
    BY ReportTypes
  <2>5. \A i \in 1..Len(u) : Silent(u[i])
    <3>1. DOMAIN u = 1..Len(u)
      <4> HIDE DEF u
      <4> QED
        BY <2>4
    <3>2. \A i \in DOMAIN u : u[i].type = "added"
      BY DEF added
    <3> QED
      BY <3>1, <3>2 DEF Silent
  <2>6. ReadIsDue => ReadIsDue'
    BY <1>6 DEF Resume, ReadIsDue
  <2> HIDE DEF u
  <2>7. lib' = lib \o u
    BY <2>2 DEF u
  <2> QED
    BY <2>3, <2>4, <2>5, <2>6, <2>7, ReportStep
<1>7. CASE Suspend
  <2>1. PICK order \in SetToSeqs(known) :
           lib' = lib \o [i \in DOMAIN order |-> removed(order[i])]
    BY <1>7 DEF Suspend
  <2>2. /\ queue' = queue /\ plugged' = plugged /\ known' = {}
        /\ ReadIsDue'
    BY <1>7 DEF Suspend, ReadIsDue
  <2>3. [i \in DOMAIN order |-> removed(order[i])] \in Seq(Events)
    BY ReportTypes
  <2> QED
    BY <2>1, <2>2, <2>3, ReportStep
<1>8. CASE ReadAfterSuspend
  <2>1. ReadIsDue
    BY <1>8 DEF ReadAfterSuspend, ReadIsDue
  <2> QED
    BY <1>1, <1>8, <2>1 DEF ReadAfterSuspend
<1>9. CASE SetupLibInput \/ ProcessEvents \/ ReportMissing \/ ClearSuspended
  <2>1. ReadIsDue => ReadIsDue'
    BY <1>9 DEF SetupLibInput, ProcessEvents, ReportMissing, ClearSuspended,
                threadVars, ReadIsDue
  <2> QED
    BY <1>2, <1>9, <2>1 DEF SetupLibInput, ProcessEvents, ReportMissing,
                            ClearSuspended, worldVars
<1>10. CASE ProcessEvent
  <2>1. UNCHANGED <<known, plugged>>
    BY <1>10 DEF ProcessEvent, worldVars
  <2> QED
    BY <1>10, <2>1, ProcessStep
<1>11. CASE SessionActiveChanged \/ VtInactive
  <2>1. ReadIsDue => ReadIsDue'
    BY <1>11 DEF SessionActiveChanged, VtInactive, ReadIsDue
  <2> QED
    BY <1>2, <1>11, <2>1 DEF SessionActiveChanged, VtInactive, worldVars
<1>12. ASSUME NEW d \in Devices, Plug(d) PROVE Goal
  <2>1. /\ queue' = queue /\ plugged' = plugged \cup {d} /\ thread' = thread
        /\ readable' = (readable \/ ~suspended)
        /\ \/ ~suspended /\ known' = known \cup {d} /\ lib' = Append(lib, added(d))
           \/ known' = known /\ lib' = lib
    BY <1>12 DEF Plug, threadVars
  <2>2. /\ plugged' \in SUBSET Devices /\ known' \in SUBSET Devices
        /\ ReadIsDue => ReadIsDue'
    BY <2>1 DEF ReadIsDue
  <2>3. CASE ~suspended /\ lib' = Append(lib, added(d))
    <3>1. ReadIsDue'
      BY <2>1, <2>3 DEF ReadIsDue
    <3> QED
      BY <2>1, <2>2, <2>3, <3>1, AppendStep, EventTypes
  <2>4. CASE lib' = lib
    BY <2>1, <2>2, <2>4, NoReportStep
  <2> QED
    BY <2>1, <2>3, <2>4
<1>13. ASSUME NEW d \in Devices, Unplug(d) PROVE Goal
  <2>1. /\ queue' = queue /\ plugged' = plugged \ {d} /\ known' = known \ {d}
        /\ thread' = thread /\ readable' = (readable \/ d \in known \/ ~suspended)
        /\ \/ d \in known /\ lib' = Append(lib, removed(d))
           \/ lib' = lib
    BY <1>13 DEF Unplug, threadVars
  <2>2. /\ plugged' \in SUBSET Devices /\ known' \in SUBSET Devices
        /\ ReadIsDue => ReadIsDue'
    BY <2>1 DEF ReadIsDue
  <2>3. CASE d \in known /\ lib' = Append(lib, removed(d))
    <3>1. ReadIsDue'
      BY <2>1, <2>3 DEF ReadIsDue
    <3> QED
      BY <2>1, <2>2, <2>3, <3>1, AppendStep, EventTypes
  <2>4. CASE lib' = lib
    BY <2>1, <2>2, <2>4, NoReportStep
  <2> QED
    BY <2>1, <2>3, <2>4
<1>14. CASE Input
  <2>1. PICK type \in Inputs :
           lib' = Append(lib, [type |-> type, dev |-> "any"])
    BY <1>14 DEF Input
  <2>2. /\ queue' = queue /\ UNCHANGED <<known, plugged>>
        /\ ReadIsDue'
    BY <1>14 DEF Input, worldVars, ReadIsDue
  <2> QED
    BY <2>1, <2>2, AppendStep, EventTypes
<1>15. CASE UNCHANGED vars
  <2>1. ReadIsDue' = ReadIsDue
    BY <1>15 DEF vars, threadVars, ReadIsDue
  <2> QED
    BY <1>2, <1>15, <2>1 DEF vars, worldVars
<1> QED
  BY <1>3, <1>4, <1>5, <1>6, <1>7, <1>8, <1>9, <1>10, <1>11, <1>12, <1>13,
     <1>14, <1>15 DEF Next, InputThread, MainThread, World

(* Every event of libinput reaches the main thread at most once and in the *)
(* order in which it was reported, only runs of motions and of axis events *)
(* are merged, and only devices that are added can be in libinput without  *)
(* a read to come: the safety of ChannelSpec, with the events in           *)
(* m_eventQueue before those in libinput as what is pending.               *)
THEOREM ChannelIsImplemented == Spec => Channel!Safety
<1>1. Init => ChannelType /\ Channel!Init
  BY ChannelInit
<1>2. ChannelType /\ [Next]_vars
         => ChannelType' /\ [Channel!Next]_(Channel!vars)
  BY ChannelStep
<1> QED
  BY <1>1, <1>2, PTL DEF Spec, Channel!Safety

-----------------------------------------------------------------------------
(* The wake-up.                                                            *)

(* NoLostWakeup with what it rests on: at most one wake-up is under way,   *)
(* and the input thread reads libinput only after eventsRead is connected. *)
WakeInv ==
    /\ lib \in Seq(Events) /\ queue \in Seq(Events) /\ reads \in {0, 1}
    /\ thread # "new" => connected
    /\ queue # <<>> => reads = 1 \/ mutex = "events"
    /\ reads > 0 => queue # <<>> /\ mutex = "free"

LEMMA WakeRead ==
    ASSUME WakeInv, handleEvent, connected = TRUE, UNCHANGED <<connected, mutex>>,
           lib' \in Seq(Events), queue' \in Seq(Events)
    PROVE  WakeInv'
<1>1. /\ mutex = "free" /\ mutex' = "free" /\ connected'
      /\ queue' = queue \o lib
      /\ reads' = IF queue = <<>> /\ lib # <<>> THEN reads + 1 ELSE reads
  BY DEF handleEvent
<1>2. queue' = <<>> <=> queue = <<>> /\ lib = <<>>
  BY <1>1, Emptiness DEF WakeInv
<1>3. CASE queue = <<>>
  <2>1. reads = 0
    BY <1>3 DEF WakeInv
  <2> QED
    BY <1>1, <1>2, <1>3, <2>1 DEF WakeInv
<1>4. CASE queue # <<>>
  <2>1. reads = 1 /\ reads' = 1
    BY <1>1, <1>4 DEF WakeInv
  <2> QED
    BY <1>1, <1>2, <1>4, <2>1 DEF WakeInv
<1> QED
  BY <1>3, <1>4

LEMMA WakeStep ==
    ASSUME SetupRaces = FALSE, WakeInv, [Next]_vars,
           lib' \in Seq(Events), queue' \in Seq(Events)
    PROVE  WakeInv'
<1>1. CASE DoSetup
  BY <1>1, WakeRead DEF DoSetup, mainVars
<1>2. CASE Notified
  BY <1>2, WakeRead DEF Notified, mainVars, WakeInv
<1>3. CASE ReadAfterSuspend
  BY <1>3, WakeRead DEF ReadAfterSuspend, mainVars, WakeInv
<1>4. CASE IgnoreChange \/ Resume \/ MarkResumed \/ Deactivate \/ Suspend
  BY <1>4 DEF IgnoreChange, Resume, MarkResumed, Deactivate, Suspend,
              mainVars, WakeInv
<1>5. CASE SetupLibInput
  BY <1>5 DEF SetupLibInput, threadVars, WakeInv
<1>6. CASE ProcessEvents
  BY <1>6 DEF ProcessEvents, mainVars, threadVars, WakeInv
<1>7. CASE ProcessEvent
  BY <1>7 DEF ProcessEvent, threadVars, WakeInv
<1>8. CASE ReportMissing
  BY <1>8 DEF ReportMissing, threadVars, WakeInv
<1>9. CASE ClearSuspended
  BY <1>9 DEF ClearSuspended, mainVars, threadVars, WakeInv
<1>10. CASE World
  <2>1. UNCHANGED <<queue, reads, mutex, connected, thread>>
    BY <1>10 DEF World, SessionActiveChanged, VtInactive, Plug, Unplug, Input,
                 mainVars, threadVars
  <2> QED
    BY <2>1 DEF WakeInv
<1>11. CASE UNCHANGED vars
  BY <1>11 DEF vars, mainVars, threadVars, WakeInv
<1> QED
  BY <1>1, <1>2, <1>3, <1>4, <1>5, <1>6, <1>7, <1>8, <1>9, <1>10, <1>11
     DEF Next, InputThread, MainThread

(* If eventsRead is connected before the input thread first reads (see     *)
(* input.cpp, where conn->setup() comes first), an event never waits in    *)
(* m_eventQueue without a delivery of eventsRead or a processEvents() that *)
(* will take it.                                                           *)
THEOREM WakeupIsNotLost ==
    ASSUME SetupRaces = FALSE
    PROVE  Spec => []NoLostWakeup
<1> DEFINE Inv == ChannelType /\ WakeInv
<1>1. Init => Inv
  <2> SUFFICES ASSUME Init PROVE Inv
    OBVIOUS
  <2>1. ChannelType
    BY ChannelInit
  <2>2. queue = <<>> /\ reads = 0 /\ thread = "new"
    BY DEF Init
  <2> QED
    BY <2>1, <2>2 DEF ChannelType, WakeInv
<1>2. Inv /\ [Next]_vars => Inv'
  <2> SUFFICES ASSUME Inv, [Next]_vars PROVE Inv'
    OBVIOUS
  <2>1. ChannelType'
    BY ChannelStep
  <2>2. WakeInv'
    BY <2>1, WakeStep DEF ChannelType
  <2> QED
    BY <2>1, <2>2
<1>3. Inv => NoLostWakeup
  BY DEF WakeInv, NoLostWakeup
<1> QED
  BY <1>1, <1>2, <1>3, PTL DEF Spec

-----------------------------------------------------------------------------
(* The devices that libinput knew when it reported an event.               *)

Moves(e) == e.type \in {"added", "removed"}

LEMMA EventFields ==
    \A d : /\ added(d).type = "added" /\ added(d).dev = d
           /\ removed(d).type = "removed" /\ removed(d).dev = d
BY DEF added, removed

(* What an event says of the devices before and after it.                  *)
Moved(e, S, T) ==
    /\ e.type = "added" => e.dev \notin S /\ T = S \cup {e.dev}
    /\ e.type = "removed" => e.dev \in S /\ T = S \ {e.dev}

(* K[i] are the devices there were behind the first i events of p.         *)
Story(p, K) ==
    /\ K \in [0..Len(p) -> SUBSET Devices]
    /\ \A i \in 1..Len(p) : Moved(p[i], K[i - 1], K[i])
    /\ \A i, j \in 0..Len(p) :
          i <= j /\ (\A k \in (i + 1)..j : ~Moves(p[k])) => K[i] = K[j]

(* Events that are reported go on with the story.                          *)
LEMMA StoryJoined ==
    ASSUME NEW p \in Seq(Events), NEW u \in Seq(Events), NEW K, NEW T,
           Story(p, K), Story(u, T), T[0] = K[Len(p)]
    PROVE  \E J : /\ Story(p \o u, J)
                  /\ \A i \in 0..Len(p) : i \in 0..Len(p \o u) /\ J[i] = K[i]
                  /\ J[Len(p \o u)] = T[Len(u)]
<1> DEFINE q == p \o u
           n == Len(p)
           m == Len(u)
           J == [i \in 0..(n + m) |-> IF i <= n THEN K[i] ELSE T[i - n]]
<1>1. /\ n \in Nat /\ m \in Nat /\ Len(q) = n + m
      /\ \A i \in 1..n : q[i] = p[i]
      /\ \A i \in 1..m : q[n + i] = u[i]
  OBVIOUS
<1>2. /\ K \in [0..n -> SUBSET Devices]
      /\ \A i \in 1..n : Moved(p[i], K[i - 1], K[i])
      /\ \A i, j \in 0..n :
            i <= j /\ (\A k \in (i + 1)..j : ~Moves(p[k])) => K[i] = K[j]
  BY DEF Story
<1>3. /\ T \in [0..m -> SUBSET Devices]
      /\ \A i \in 1..m : Moved(u[i], T[i - 1], T[i])
      /\ \A i, j \in 0..m :
            i <= j /\ (\A k \in (i + 1)..j : ~Moves(u[k])) => T[i] = T[j]
  BY DEF Story
<1>4. T[0] = K[n]
  OBVIOUS
<1> HIDE DEF q, n, m
<1>5. /\ \A i \in 0..n : i \in 0..(n + m) /\ J[i] = K[i]
      /\ \A i \in 0..m : n + i \in 0..(n + m) /\ J[n + i] = T[i]
  <2>1. \A i \in 0..n : i \in 0..(n + m) /\ J[i] = K[i]
    BY <1>1
  <2>2. \A i \in 0..m : n + i \in 0..(n + m) /\ J[n + i] = T[i]
    <3> SUFFICES ASSUME NEW i \in 0..m
                 PROVE  n + i \in 0..(n + m) /\ J[n + i] = T[i]
      OBVIOUS
    <3>1. CASE i = 0
      BY <1>1, <1>4, <3>1
    <3>2. CASE i # 0
      <4>1. n + i \in 0..(n + m) /\ ~(n + i <= n) /\ (n + i) - n = i
        BY <1>1, <3>2
      <4> QED
        BY <4>1
    <3> QED
      BY <3>1, <3>2
  <2> QED
    BY <2>1, <2>2
<1>6. J \in [0..(n + m) -> SUBSET Devices]
  <2> SUFFICES ASSUME NEW i \in 0..(n + m) PROVE J[i] \in SUBSET Devices
    OBVIOUS
  <2>1. CASE i <= n
    <3>1. i \in 0..n
      BY <1>1, <2>1
    <3> QED
      BY <1>2, <2>1, <3>1
  <2>2. CASE ~(i <= n)
    <3>1. i - n \in 0..m
      BY <1>1, <2>2
    <3> QED
      BY <1>3, <2>2, <3>1
  <2> QED
    BY <2>1, <2>2
<1> HIDE DEF J
<1>7. \A i \in 1..(n + m) : Moved(q[i], J[i - 1], J[i])
  <2> SUFFICES ASSUME NEW i \in 1..(n + m) PROVE Moved(q[i], J[i - 1], J[i])
    OBVIOUS
  <2>1. CASE i <= n
    <3>1. i \in 1..n /\ i \in 0..n /\ i - 1 \in 0..n
      BY <1>1, <2>1
    <3>2. q[i] = p[i] /\ J[i] = K[i] /\ J[i - 1] = K[i - 1]
      BY <1>1, <1>5, <3>1
    <3> QED
      BY <1>2, <3>1, <3>2
  <2>2. CASE ~(i <= n)
    <3> DEFINE k == i - n
    <3>1. k \in 1..m /\ k \in 0..m /\ k - 1 \in 0..m
          /\ n + k = i /\ n + (k - 1) = i - 1
      BY <1>1, <2>2
    <3> HIDE DEF k
    <3>2. q[n + k] = u[k] /\ J[n + k] = T[k] /\ J[n + (k - 1)] = T[k - 1]
      BY <1>1, <1>5, <3>1
    <3>3. q[i] = u[k] /\ J[i] = T[k] /\ J[i - 1] = T[k - 1]
      BY <3>1, <3>2
    <3> QED
      BY <1>3, <3>1, <3>3
  <2> QED
    BY <2>1, <2>2
<1>8. \A i, j \in 0..(n + m) :
         i <= j /\ (\A k \in (i + 1)..j : ~Moves(q[k])) => J[i] = J[j]
  <2> SUFFICES ASSUME NEW i \in 0..(n + m), NEW j \in 0..(n + m), i <= j,
                      \A k \in (i + 1)..j : ~Moves(q[k])
               PROVE  J[i] = J[j]
    OBVIOUS
  <2>1. ASSUME NEW a \in 0..n, NEW b \in 0..n, a <= b, i <= a, b <= j
        PROVE  J[a] = J[b]
    <3>1. \A k \in (a + 1)..b : k \in 1..n /\ k \in (i + 1)..j
      BY <1>1, <2>1
    <3>2. \A k \in (a + 1)..b : ~Moves(p[k])
      BY <1>1, <3>1
    <3>3. K[a] = K[b]
      BY <1>2, <2>1, <3>2
    <3> QED
      BY <1>5, <3>3
  <2>2. ASSUME NEW a \in 0..m, NEW b \in 0..m, a <= b, i <= n + a, n + b <= j
        PROVE  J[n + a] = J[n + b]
    <3>1. \A k \in (a + 1)..b : k \in 1..m /\ n + k \in (i + 1)..j
      BY <1>1, <2>2
    <3>2. \A k \in (a + 1)..b : ~Moves(u[k])
      BY <1>1, <3>1
    <3>3. T[a] = T[b]
      BY <1>3, <2>2, <3>2
    <3> QED
      BY <1>5, <3>3
  <2>3. CASE j <= n
    <3>1. i \in 0..n /\ j \in 0..n
      BY <1>1, <2>3
    <3> QED
      BY <2>1, <3>1
  <2>4. CASE i > n
    <3>1. i - n \in 0..m /\ j - n \in 0..m /\ i - n <= j - n
          /\ n + (i - n) = i /\ n + (j - n) = j
      BY <1>1, <2>4
    <3>2. i <= n + (i - n) /\ n + (j - n) <= j
      BY <1>1, <2>4
    <3>3. J[n + (i - n)] = J[n + (j - n)]
      BY <2>2, <3>1, <3>2
    <3> QED
      BY <3>1, <3>3
  <2>5. CASE i <= n /\ ~(j <= n)
    <3>1. i \in 0..n /\ n \in 0..n /\ n <= j /\ 0 \in 0..m /\ j - n \in 0..m
          /\ 0 <= j - n /\ i <= n + 0 /\ n + (j - n) = j /\ n + 0 = n
      BY <1>1, <2>5
    <3>2. J[i] = J[n]
      BY <2>1, <2>5, <3>1
    <3>3. n + (j - n) <= j
      BY <3>1
    <3>4. J[n + 0] = J[n + (j - n)]
      BY <2>2, <3>1, <3>3
    <3> QED
      BY <3>1, <3>2, <3>4
  <2> QED
    BY <1>1, <2>3, <2>4, <2>5
<1>9. Story(q, J)
  BY <1>1, <1>6, <1>7, <1>8 DEF Story
<1>10. J[Len(q)] = T[m]
  <2>1. m \in 0..m
    BY <1>1
  <2> QED
    BY <1>1, <1>5, <2>1
<1>11. \A i \in 0..n : i \in 0..Len(q) /\ J[i] = K[i]
  BY <1>1, <1>5
<1> QED
  BY <1>9, <1>10, <1>11 DEF q, n, m

LEMMA SubFacts ==
    ASSUME NEW p \in Seq(Events), NEW n \in 1..Len(p)
    PROVE  /\ Len(SubSeq(p, n + 1, Len(p))) = Len(p) - n
           /\ \A i \in 1..(Len(p) - n) : SubSeq(p, n + 1, Len(p))[i] = p[i + n]
<1> DEFINE u == SubSeq(p, n + 1, Len(p))
<1>1. n \in Nat /\ Len(p) \in Nat /\ n <= Len(p)
  OBVIOUS
<1>2. Len(u) = Len(p) - n
  BY <1>1
<1>3. \A i \in 1..(Len(p) - n) : u[i] = p[i + n]
  BY <1>1
<1> QED
  BY <1>2, <1>3

(* Events that are taken from the front are forgotten.                     *)
Drops(p, K, n, r, D) ==
    /\ Story(r, D) /\ D[0] = K[n] /\ D[Len(r)] = K[Len(p)]
    /\ \A i \in 0..Len(p) : i >= n => i - n \in 0..Len(r) /\ D[i - n] = K[i]

LEMMA StoryDropped ==
    ASSUME NEW p \in Seq(Events), NEW K, Story(p, K), NEW n \in 1..Len(p)
    PROVE  \E D : Drops(p, K, n, SubSeq(p, n + 1, Len(p)), D)
<1> DEFINE q == SubSeq(p, n + 1, Len(p))
           l == Len(p)
           m == l - n
           D == [i \in 0..m |-> K[i + n]]
<1>1. l \in Nat /\ n \in Nat /\ m \in Nat /\ n >= 1 /\ n <= l /\ m + n = l
  OBVIOUS
<1>2. Len(q) = m /\ \A i \in 1..m : q[i] = p[i + n]
  BY SubFacts
<1>3. /\ K \in [0..l -> SUBSET Devices]
      /\ \A i \in 1..l : Moved(p[i], K[i - 1], K[i])
      /\ \A i, j \in 0..l :
            i <= j /\ (\A k \in (i + 1)..j : ~Moves(p[k])) => K[i] = K[j]
  BY DEF Story
<1> HIDE DEF q, l, m
<1>4. \A i \in 0..m : i + n \in 0..l /\ D[i] = K[i + n]
  BY <1>1
<1>5. D \in [0..m -> SUBSET Devices]
  <2>1. \A i \in 0..m : K[i + n] \in SUBSET Devices
    BY <1>3, <1>4
  <2> QED
    BY <2>1
<1> HIDE DEF D
<1>6. \A i \in 1..m : Moved(q[i], D[i - 1], D[i])
  <2> SUFFICES ASSUME NEW i \in 1..m PROVE Moved(q[i], D[i - 1], D[i])
    OBVIOUS
  <2>1. i \in 0..m /\ i - 1 \in 0..m /\ i + n \in 1..l
        /\ (i - 1) + n = (i + n) - 1
    BY <1>1
  <2>2. D[i] = K[i + n] /\ D[i - 1] = K[(i - 1) + n] /\ q[i] = p[i + n]
    BY <1>2, <1>4, <2>1
  <2>3. D[i - 1] = K[(i + n) - 1]
    BY <2>1, <2>2
  <2> QED
    BY <1>3, <2>1, <2>2, <2>3
<1>7. \A i, j \in 0..m :
         i <= j /\ (\A k \in (i + 1)..j : ~Moves(q[k])) => D[i] = D[j]
  <2> SUFFICES ASSUME NEW i \in 0..m, NEW j \in 0..m, i <= j,
                      \A k \in (i + 1)..j : ~Moves(q[k])
               PROVE  D[i] = D[j]
    OBVIOUS
  <2>1. i + n \in 0..l /\ j + n \in 0..l /\ i + n <= j + n
    BY <1>1
  <2>2. \A k \in ((i + n) + 1)..(j + n) : ~Moves(p[k])
    <3> SUFFICES ASSUME NEW k \in ((i + n) + 1)..(j + n) PROVE ~Moves(p[k])
      OBVIOUS
    <3>1. k - n \in (i + 1)..j /\ k - n \in 1..m /\ (k - n) + n = k
      BY <1>1
    <3>2. q[k - n] = p[(k - n) + n]
      BY <1>2, <3>1
    <3> QED
      BY <3>1, <3>2
  <2>3. K[i + n] = K[j + n]
    BY <1>3, <2>1, <2>2
  <2> QED
    BY <1>4, <2>3
<1>8. Story(q, D)
  BY <1>2, <1>5, <1>6, <1>7 DEF Story
<1>9. D[0] = K[n]
  <2>1. 0 \in 0..m /\ 0 + n = n
    BY <1>1
  <2> QED
    BY <1>4, <2>1
<1>10. \A i \in 0..l : i >= n => i - n \in 0..Len(q) /\ D[i - n] = K[i]
  <2> SUFFICES ASSUME NEW i \in 0..l, i >= n
               PROVE  i - n \in 0..Len(q) /\ D[i - n] = K[i]
    OBVIOUS
  <2>1. i - n \in 0..m /\ (i - n) + n = i
    BY <1>1
  <2> QED
    BY <1>2, <1>4, <2>1
<1>11. D[Len(q)] = K[l]
  <2>1. m \in 0..m
    BY <1>1
  <2> QED
    BY <1>1, <1>2, <1>4, <2>1
<1> QED
  BY <1>8, <1>9, <1>10, <1>11 DEF Drops, q, l

(* The story of one event.                                                 *)
LEMMA EventStory ==
    ASSUME NEW e \in Events, NEW S \in SUBSET Devices,
           NEW R \in SUBSET Devices, Moved(e, S, R), Moves(e) \/ S = R
    PROVE  \E T : Story(<<e>>, T) /\ T[0] = S /\ T[Len(<<e>>)] = R
<1> DEFINE T == [i \in 0..1 |-> IF i = 0 THEN S ELSE R]
           u == <<e>>
<1>1. Len(u) = 1 /\ u[1] = e
  OBVIOUS
<1>2. T \in [0..1 -> SUBSET Devices] /\ T[0] = S /\ T[1] = R
  OBVIOUS
<1> HIDE DEF T, u
<1>3. \A i \in 1..1 : Moved(u[i], T[i - 1], T[i])
  <2> SUFFICES ASSUME NEW i \in 1..1 PROVE Moved(u[i], T[i - 1], T[i])
    OBVIOUS
  <2>1. i = 1 /\ i - 1 = 0
    OBVIOUS
  <2> QED
    BY <1>1, <1>2, <2>1
<1>4. \A i, j \in 0..1 :
         i <= j /\ (\A k \in (i + 1)..j : ~Moves(u[k])) => T[i] = T[j]
  <2> SUFFICES ASSUME NEW i \in 0..1, NEW j \in 0..1, i <= j,
                      \A k \in (i + 1)..j : ~Moves(u[k])
               PROVE  T[i] = T[j]
    OBVIOUS
  <2>1. CASE i = j
    BY <2>1
  <2>2. CASE i # j
    <3>1. i = 0 /\ j = 1 /\ 1 \in (i + 1)..j
      BY <2>2
    <3>2. ~Moves(e)
      BY <1>1, <3>1
    <3> QED
      BY <1>2, <3>1, <3>2
  <2> QED
    BY <2>1, <2>2
<1>5. Story(u, T)
  BY <1>1, <1>2, <1>3, <1>4 DEF Story
<1> QED
  BY <1>1, <1>2, <1>5 DEF u

(* A sequence of the members of a set has each of them once.               *)
LEMMA OrderFacts ==
    ASSUME NEW S \in SUBSET Devices, NEW order \in SetToSeqs(S)
    PROVE  /\ Cardinality(S) \in Nat /\ DOMAIN order = 1..Cardinality(S)
           /\ \A i \in 1..Cardinality(S) : order[i] \in S
           /\ \A i, j \in 1..Cardinality(S) : order[i] = order[j] => i = j
           /\ \A d \in S : \E i \in 1..Cardinality(S) : order[i] = d
<1> DEFINE c == Cardinality(S)
<1>1. IsFiniteSet(S)
  BY DevicesAssumption, FS_Subset
<1>2. c \in Nat
  BY <1>1, FS_CardinalityType
<1>3. /\ order \in [1..c -> S]
      /\ \A i, j \in 1..c : order[i] = order[j] => i = j
  BY DEF SetToSeqs
<1>4. IsFiniteSet(1..c) /\ Cardinality(1..c) = c
  BY <1>2, FS_Interval
<1>5. order \in Injection(1..c, S)
  BY <1>3 DEF Injection, IsInjective
<1>6. order \in Surjection(1..c, S)
  BY <1>1, <1>4, <1>5, FS_Injection
<1>7. \A d \in S : \E i \in 1..c : order[i] = d
  BY <1>6 DEF Surjection
<1> HIDE DEF c
<1>8. DOMAIN order = 1..c /\ \A i \in 1..c : order[i] \in S
  BY <1>3
<1> QED
  BY <1>2, <1>3, <1>7, <1>8 DEF c

(* The members of a sequence up to a position.                             *)
Upto(order, j) == {order[x] : x \in 1..j}

LEMMA UptoFacts ==
    ASSUME NEW S \in SUBSET Devices, NEW order \in SetToSeqs(S)
    PROVE  /\ Upto(order, 0) = {} /\ Upto(order, Cardinality(S)) = S
           /\ \A j \in 0..Cardinality(S) : Upto(order, j) \in SUBSET S
           /\ \A j \in 1..Cardinality(S) :
                 /\ order[j] \notin Upto(order, j - 1)
                 /\ Upto(order, j) = Upto(order, j - 1) \cup {order[j]}
<1> DEFINE c == Cardinality(S)
<1>1. /\ c \in Nat /\ \A i \in 1..c : order[i] \in S
      /\ \A i, j \in 1..c : order[i] = order[j] => i = j
      /\ \A d \in S : \E i \in 1..c : order[i] = d
  BY OrderFacts
<1> HIDE DEF c
<1>2. Upto(order, 0) = {}
  BY DEF Upto
<1>3. Upto(order, c) = S
  BY <1>1 DEF Upto
<1>4. \A j \in 0..c : Upto(order, j) \in SUBSET S
  <2> SUFFICES ASSUME NEW j \in 0..c, NEW x \in 1..j PROVE order[x] \in S
    BY DEF Upto
  <2>1. x \in 1..c
    BY <1>1
  <2> QED
    BY <1>1, <2>1
<1>5. ASSUME NEW j \in 1..c
      PROVE  /\ order[j] \notin Upto(order, j - 1)
             /\ Upto(order, j) = Upto(order, j - 1) \cup {order[j]}
  <2>1. \A x \in 1..(j - 1) : x \in 1..c /\ x # j /\ x \in 1..j
    BY <1>1
  <2>2. order[j] \notin Upto(order, j - 1)
    BY <1>1, <2>1 DEF Upto
  <2>3. \A x \in 1..j : x \in 1..(j - 1) \/ x = j
    BY <1>1
  <2>4. j \in 1..j
    BY <1>1
  <2>5. Upto(order, j) = Upto(order, j - 1) \cup {order[j]}
    BY <2>1, <2>3, <2>4 DEF Upto
  <2> QED
    BY <2>2, <2>5
<1> QED
  BY <1>2, <1>3, <1>4, <1>5 DEF c

(* Reports whose events all move a device.                                 *)
LEMMA ReportStory ==
    ASSUME NEW u \in Seq(Events), NEW T, T \in [0..Len(u) -> SUBSET Devices],
           \A i \in 1..Len(u) : Moves(u[i]) /\ Moved(u[i], T[i - 1], T[i])
    PROVE  Story(u, T)
<1> DEFINE n == Len(u)
<1>1. n \in Nat
  OBVIOUS
<1>2. T \in [0..n -> SUBSET Devices]
      /\ \A i \in 1..n : Moves(u[i]) /\ Moved(u[i], T[i - 1], T[i])
  OBVIOUS
<1> HIDE DEF n
<1>3. \A i, j \in 0..n :
         i <= j /\ (\A k \in (i + 1)..j : ~Moves(u[k])) => T[i] = T[j]
  <2> SUFFICES ASSUME NEW i \in 0..n, NEW j \in 0..n, i <= j, i # j,
                      \A k \in (i + 1)..j : ~Moves(u[k])
               PROVE  FALSE
    OBVIOUS
  <2>1. i + 1 \in (i + 1)..j /\ i + 1 \in 1..n
    BY <1>1
  <2> QED
    BY <1>2, <2>1
<1> QED
  BY <1>2, <1>3 DEF Story, n

(* The devices that are opened are reported one by one.                    *)
LEMMA OpenedStory ==
    ASSUME NEW S \in SUBSET Devices, NEW order \in SetToSeqs(S)
    PROVE  LET u == [i \in DOMAIN order |-> added(order[i])]
           IN  \E T : Story(u, T) /\ T[0] = {} /\ T[Len(u)] = S
<1> DEFINE u == [i \in DOMAIN order |-> added(order[i])]
           c == Cardinality(S)
           T == [j \in 0..c |-> Upto(order, j)]
<1>1. /\ c \in Nat /\ DOMAIN order = 1..c /\ \A i \in 1..c : order[i] \in S
  BY OrderFacts
<1>2. /\ Upto(order, 0) = {} /\ Upto(order, c) = S
      /\ \A j \in 0..c : Upto(order, j) \in SUBSET S
      /\ \A j \in 1..c :
            /\ order[j] \notin Upto(order, j - 1)
            /\ Upto(order, j) = Upto(order, j - 1) \cup {order[j]}
  BY UptoFacts
<1> HIDE DEF c
<1>3. u \in Seq(Events)
  BY ReportTypes
<1>4. \A i \in 1..c : u[i] = added(order[i])
  BY <1>1
<1>5. Len(u) = c
  <2>1. u \in [1..c -> Events]
    BY <1>1, EventTypes
  <2> HIDE DEF u
  <2> QED
    BY <1>1, <2>1
<1> HIDE DEF u
<1>6. T \in [0..c -> SUBSET Devices]
  BY <1>2
<1>7. \A i \in 1..c : /\ i \in 0..c /\ i - 1 \in 0..c
                      /\ T[i] = Upto(order, i) /\ T[i - 1] = Upto(order, i - 1)
  <2>1. \A i \in 1..c : i \in 0..c /\ i - 1 \in 0..c
    BY <1>1
  <2> QED
    BY <2>1
<1>8. T[0] = {} /\ T[c] = S
  <2>1. 0 \in 0..c /\ c \in 0..c
    BY <1>1
  <2> QED
    BY <1>2, <2>1
<1> HIDE DEF T
<1>9. \A i \in 1..c : Moves(u[i]) /\ Moved(u[i], T[i - 1], T[i])
  <2> SUFFICES ASSUME NEW i \in 1..c
               PROVE  Moves(u[i]) /\ Moved(u[i], T[i - 1], T[i])
    OBVIOUS
  <2>1. u[i].type = "added" /\ u[i].dev = order[i]
    BY <1>4, EventFields
  <2> QED
    BY <1>2, <1>7, <2>1 DEF Moves, Moved
<1>10. Story(u, T)
  BY <1>3, <1>5, <1>6, <1>9, ReportStory
<1> QED
  BY <1>5, <1>8, <1>10 DEF u

(* So are those that are closed.                                           *)
LEMMA ClosedStory ==
    ASSUME NEW S \in SUBSET Devices, NEW order \in SetToSeqs(S)
    PROVE  LET u == [i \in DOMAIN order |-> removed(order[i])]
           IN  \E T : Story(u, T) /\ T[0] = S /\ T[Len(u)] = {}
<1> DEFINE u == [i \in DOMAIN order |-> removed(order[i])]
           c == Cardinality(S)
           T == [j \in 0..c |-> S \ Upto(order, j)]
<1>1. /\ c \in Nat /\ DOMAIN order = 1..c /\ \A i \in 1..c : order[i] \in S
  BY OrderFacts
<1>2. /\ Upto(order, 0) = {} /\ Upto(order, c) = S
      /\ \A j \in 1..c :
            /\ order[j] \notin Upto(order, j - 1)
            /\ Upto(order, j) = Upto(order, j - 1) \cup {order[j]}
  BY UptoFacts
<1> HIDE DEF c
<1>3. u \in Seq(Events)
  BY ReportTypes
<1>4. \A i \in 1..c : u[i] = removed(order[i])
  BY <1>1
<1>5. Len(u) = c
  <2>1. u \in [1..c -> Events]
    BY <1>1, EventTypes
  <2> HIDE DEF u
  <2> QED
    BY <1>1, <2>1
<1> HIDE DEF u
<1>6. T \in [0..c -> SUBSET Devices]
  OBVIOUS
<1>7. \A i \in 1..c : /\ i \in 0..c /\ i - 1 \in 0..c
                      /\ T[i] = S \ Upto(order, i)
                      /\ T[i - 1] = S \ Upto(order, i - 1)
  <2>1. \A i \in 1..c : i \in 0..c /\ i - 1 \in 0..c
    BY <1>1
  <2> QED
    BY <2>1
<1>8. T[0] = S /\ T[c] = {}
  <2>1. 0 \in 0..c /\ c \in 0..c
    BY <1>1
  <2> QED
    BY <1>2, <2>1
<1> HIDE DEF T
<1>9. \A i \in 1..c : Moves(u[i]) /\ Moved(u[i], T[i - 1], T[i])
  <2> SUFFICES ASSUME NEW i \in 1..c
               PROVE  Moves(u[i]) /\ Moved(u[i], T[i - 1], T[i])
    OBVIOUS
  <2>1. u[i].type = "removed" /\ u[i].dev = order[i] /\ order[i] \in S
    BY <1>1, <1>4, EventFields
  <2>2. order[i] \in T[i - 1] /\ T[i] = T[i - 1] \ {order[i]}
    BY <1>2, <1>7, <2>1
  <2> QED
    BY <2>1, <2>2 DEF Moves, Moved
<1>10. Story(u, T)
  BY <1>3, <1>5, <1>6, <1>9, ReportStory
<1> QED
  BY <1>5, <1>8, <1>10 DEF u

-----------------------------------------------------------------------------
(* The seat.                                                               *)

(* The devices of S that have capability c.                                *)
With(S, c) == {d \in S : c \in Caps[d]}

LEMMA WithFacts ==
    ASSUME NEW S \in SUBSET Devices, NEW c
    PROVE  /\ IsFiniteSet(With(S, c)) /\ Cardinality(With(S, c)) \in Nat
           /\ Cardinality(With(S, c)) = 0 <=> With(S, c) = {}
<1>1. With(S, c) \in SUBSET Devices
  BY DEF With
<1>2. IsFiniteSet(With(S, c))
  BY <1>1, DevicesAssumption, FS_Subset
<1> QED
  BY <1>2, FS_CardinalityType, FS_EmptySet

LEMMA WithAdded ==
    ASSUME NEW S \in SUBSET Devices, NEW d \in Devices, d \notin S, NEW c
    PROVE  /\ c \in Caps[d] => Cardinality(With(S \cup {d}, c))
                                 = Cardinality(With(S, c)) + 1
           /\ c \notin Caps[d] => With(S \cup {d}, c) = With(S, c)
<1>1. IsFiniteSet(With(S, c))
  BY WithFacts
<1>2. ASSUME c \in Caps[d]
      PROVE  Cardinality(With(S \cup {d}, c)) = Cardinality(With(S, c)) + 1
  <2>1. With(S \cup {d}, c) = With(S, c) \cup {d} /\ d \notin With(S, c)
    BY <1>2 DEF With
  <2> QED
    BY <1>1, <2>1, FS_AddElement
<1>3. ASSUME c \notin Caps[d] PROVE With(S \cup {d}, c) = With(S, c)
  BY <1>3 DEF With
<1> QED
  BY <1>2, <1>3

LEMMA WithRemoved ==
    ASSUME NEW S \in SUBSET Devices, NEW d \in S, NEW c
    PROVE  /\ c \in Caps[d] => Cardinality(With(S \ {d}, c))
                                 = Cardinality(With(S, c)) - 1
           /\ c \notin Caps[d] => With(S \ {d}, c) = With(S, c)
           /\ With(S, c) = {} => With(S \ {d}, c) = {}
<1>1. IsFiniteSet(With(S, c))
  BY WithFacts
<1>2. ASSUME c \in Caps[d]
      PROVE  Cardinality(With(S \ {d}, c)) = Cardinality(With(S, c)) - 1
  <2>1. With(S \ {d}, c) = With(S, c) \ {d} /\ d \in With(S, c)
    BY <1>2 DEF With
  <2> QED
    BY <1>1, <2>1, FS_RemoveElement
<1>3. ASSUME c \notin Caps[d] PROVE With(S \ {d}, c) = With(S, c)
  BY <1>3 DEF With
<1>4. With(S, c) = {} => With(S \ {d}, c) = {}
  BY DEF With
<1> QED
  BY <1>2, <1>3, <1>4

(* The counters agree with the devices whose events were processed.  A     *)
(* capability of them is announced, unless they are on their way out: at   *)
(* some event that is pending no device has it.                            *)
Counted(S) == \A c \in Capabilities : count[c] = Cardinality(With(S, c))

Announced(p, K) ==
    \A c \in Capabilities : c \in seat \/ \E i \in 0..Len(p) : With(K[i], c) = {}

Tracked ==
    \E K : /\ Story(queue \o lib, K) /\ K[Len(queue \o lib)] = known
           /\ Counted(K[0]) /\ Announced(queue \o lib, K)

(* A suspended libinput knows no device, and the flags follow the thread.  *)
Quiet ==
    /\ suspended => known = {}
    /\ thread = "suspended" => suspended
    /\ thread \in {"new", "resumed", "deactivating"} => ~suspended
    /\ mutex = "clearing" => wasSuspended

There == {c \in Capabilities : count[c] > 0}

(* The seat announces what there is; while libinput is suspended, no more  *)
(* than deactivate() saw; then, until processEvents() has compared the two *)
(* and cleared wasSuspended, no more than both.                            *)
Dropped ==
    ~raced =>
        /\ thread = "deactivating" => queue = <<>>
        /\ suspended \/ thread \in {"new", "deactivating", "resumed"} =>
              ~wasSuspended
        /\ suspended \/ thread = "deactivating" => seat \subseteq before
        /\ wasSuspended \/ thread = "resumed" => seat \subseteq before \cup There
        /\ mutex = "clearing" => seat \subseteq There
        /\ thread \in {"new", "loop"} /\ ~suspended /\ ~wasSuspended =>
              seat \subseteq There

(* One delivery of eventsRead is under way at most.                        *)
Waking == reads > 0 => queue # <<>> /\ mutex = "free"

SeatInv == TypeOK /\ Waking /\ Quiet /\ Tracked /\ Dropped

-----------------------------------------------------------------------------
(* What is pending and what is announced.                                  *)

LEMMA TrackedReport ==
    ASSUME lib \in Seq(Events), queue \in Seq(Events), Tracked,
           NEW u \in Seq(Events), NEW T, Story(u, T), T[0] = known,
           lib' = lib \o u, known' = T[Len(u)],
           UNCHANGED <<queue, count, seat>>
    PROVE  Tracked'
<1> DEFINE p == queue \o lib
<1>1. PICK K : /\ Story(p, K) /\ K[Len(p)] = known
               /\ Counted(K[0]) /\ Announced(p, K)
  BY DEF Tracked
<1>2. p \in Seq(Events) /\ (queue \o lib)' = p \o u
  BY ReportedIsLast, Emptiness
<1> HIDE DEF p
<1>3. T[0] = K[Len(p)]
  BY <1>1
<1>4. PICK J : /\ Story(p \o u, J)
               /\ \A i \in 0..Len(p) : i \in 0..Len(p \o u) /\ J[i] = K[i]
               /\ J[Len(p \o u)] = T[Len(u)]
  BY <1>1, <1>2, <1>3, StoryJoined
<1>5. Counted(J[0])'
  <2>1. 0 \in 0..Len(p)
    BY <1>2
  <2>2. J[0] = K[0]
    BY <1>4, <2>1
  <2> QED
    BY <1>1, <2>2 DEF Counted
<1>6. \A c \in Capabilities :
         c \in seat' \/ \E i \in 0..Len(p \o u) : With(J[i], c) = {}
  BY <1>1, <1>4 DEF Announced
<1>7. \E L : /\ Story(p \o u, L) /\ L[Len(p \o u)] = known'
             /\ Counted(L[0])' /\ \A c \in Capabilities :
                   c \in seat' \/ \E i \in 0..Len(p \o u) : With(L[i], c) = {}
  BY <1>4, <1>5, <1>6
<1> QED
  BY <1>2, <1>7 DEF Tracked, Announced, Counted

LEMMA TrackedSame ==
    ASSUME Tracked, queue' \o lib' = queue \o lib,
           UNCHANGED <<known, count, seat>>
    PROVE  Tracked'
BY DEF Tracked, Announced, Counted

(* What nobody has is taken from the seat.                                 *)
LEMMA TrackedMissing ==
    ASSUME lib \in Seq(Events), queue \in Seq(Events), Tracked,
           NEW X, seat' = seat \ X, \A c \in X : count[c] = 0,
           UNCHANGED <<queue, lib, known, count>>
    PROVE  Tracked'
<1> DEFINE p == queue \o lib
<1>1. PICK K : /\ Story(p, K) /\ K[Len(p)] = known
               /\ Counted(K[0]) /\ Announced(p, K)
  BY DEF Tracked
<1>2. Len(p) \in Nat
  OBVIOUS
<1> HIDE DEF p
<1>3. 0 \in 0..Len(p) /\ K[0] \in SUBSET Devices
  BY <1>1, <1>2 DEF Story
<1>4. \A c \in Capabilities :
         c \in seat' \/ \E i \in 0..Len(p) : With(K[i], c) = {}
  <2> SUFFICES ASSUME NEW c \in Capabilities, c \notin seat'
               PROVE  \E i \in 0..Len(p) : With(K[i], c) = {}
    OBVIOUS
  <2>1. CASE c \in seat
    <3>1. count[c] = 0
      BY <2>1
    <3>2. With(K[0], c) = {}
      BY <1>1, <1>3, <3>1, WithFacts DEF Counted
    <3> QED
      BY <1>3, <3>2
  <2>2. CASE c \notin seat
    BY <1>1, <2>2 DEF Announced
  <2> QED
    BY <2>1, <2>2
<1>5. (queue \o lib)' = p
  BY DEF p
<1>6. Counted(K[0])'
  BY <1>1 DEF Counted
<1> QED
  BY <1>1, <1>4, <1>5, <1>6 DEF Tracked, Announced

(* Events that move no device are processed.                               *)
LEMMA TrackedInput ==
    ASSUME lib \in Seq(Events), queue \in Seq(Events), Tracked,
           NEW n \in 1..Len(queue), \A i \in 1..n : ~Moves(queue[i]),
           queue' = SubSeq(queue, n + 1, Len(queue)),
           UNCHANGED <<lib, known, count, seat>>
    PROVE  Tracked'
<1> DEFINE p == queue \o lib
           r == SubSeq(p, n + 1, Len(p))
<1>1. PICK K : /\ Story(p, K) /\ K[Len(p)] = known
               /\ Counted(K[0]) /\ Announced(p, K)
  BY DEF Tracked
<1>2. /\ p \in Seq(Events) /\ n \in 1..Len(p)
      /\ queue' \o lib' = r
      /\ \A i \in 1..n : p[i] = queue[i]
  BY TakenFromPending, Emptiness
<1> HIDE DEF p
<1>3. PICK D : Drops(p, K, n, r, D)
  BY <1>1, <1>2, StoryDropped
<1> HIDE DEF r
<1>4. /\ Story(r, D) /\ D[0] = K[n] /\ D[Len(r)] = K[Len(p)]
      /\ \A i \in 0..Len(p) : i >= n => i - n \in 0..Len(r) /\ D[i - n] = K[i]
  BY <1>3 DEF Drops
<1>5. n \in Nat /\ Len(p) \in Nat /\ n >= 1 /\ n <= Len(p) /\ n \in 0..Len(p)
      /\ 0 \in 0..Len(p)
  BY <1>2
<1>6. \A i \in 0..n : K[i] = K[n]
  <2> SUFFICES ASSUME NEW i \in 0..n PROVE K[i] = K[n]
    OBVIOUS
  <2>1. i \in 0..Len(p) /\ i <= n /\ \A k \in (i + 1)..n : k \in 1..n
    BY <1>5
  <2>2. \A k \in (i + 1)..n : ~Moves(p[k])
    BY <1>2, <2>1
  <2> QED
    BY <1>1, <1>5, <2>1, <2>2 DEF Story
<1>7. Counted(D[0])'
  <2>1. K[0] = K[n]
    BY <1>5, <1>6
  <2> QED
    BY <1>1, <1>4, <2>1 DEF Counted
<1>8. \A c \in Capabilities :
         c \in seat' \/ \E i \in 0..Len(r) : With(D[i], c) = {}
  <2> SUFFICES ASSUME NEW c \in Capabilities, c \notin seat'
               PROVE  \E i \in 0..Len(r) : With(D[i], c) = {}
    OBVIOUS
  <2>1. PICK i \in 0..Len(p) : With(K[i], c) = {}
    BY <1>1 DEF Announced
  <2>2. CASE i >= n
    BY <1>4, <2>1, <2>2
  <2>3. CASE ~(i >= n)
    <3>1. i \in 0..n /\ n - n = 0 /\ n >= n
      BY <1>5, <2>3
    <3>2. K[i] = D[0] /\ 0 \in 0..Len(r)
      BY <1>4, <1>5, <1>6, <3>1
    <3> QED
      BY <2>1, <3>2
  <2> QED
    BY <2>2, <2>3
<1>9. D[Len(r)] = known'
  BY <1>1, <1>4
<1> QED
  BY <1>2, <1>4, <1>7, <1>8, <1>9 DEF Tracked, Announced

(* What is pending before and after the first event is taken from it.      *)
FirstTaken(p, r, K, D) ==
    /\ Counted(K[0]) /\ Announced(p, K) /\ K[Len(p)] = known
    /\ K[0] \in SUBSET Devices /\ K[1] \in SUBSET Devices
    /\ Moved(Head(queue), K[0], K[1])
    /\ Len(p) \in Nat /\ Len(p) >= 1 /\ 0 \in 0..Len(r)
    /\ Story(r, D) /\ D[0] = K[1] /\ D[Len(r)] = K[Len(p)]
    /\ \A i \in 0..Len(p) : i >= 1 => i - 1 \in 0..Len(r) /\ D[i - 1] = K[i]

LEMMA FrontTaken ==
    ASSUME lib \in Seq(Events), queue \in Seq(Events), queue # <<>>, Tracked,
           queue' = SubSeq(queue, 1 + 1, Len(queue)), lib' = lib
    PROVE  \E K, D : FirstTaken(queue \o lib, queue' \o lib', K, D)
<1> DEFINE p == queue \o lib
           r == SubSeq(p, 1 + 1, Len(p))
<1>1. PICK K : /\ Story(p, K) /\ K[Len(p)] = known
               /\ Counted(K[0]) /\ Announced(p, K)
  BY DEF Tracked
<1>2. p \in Seq(Events)
  BY Emptiness
<1>3. 1 \in 1..Len(queue) /\ queue[1] = Head(queue)
  OBVIOUS
<1>4. /\ SubSeq(queue, 1 + 1, Len(queue)) \o lib = r
      /\ 1 \in 1..Len(p)
      /\ \A i \in 1..1 : p[i] = queue[i]
  BY <1>3, TakenFromPending
<1>5. queue' \o lib' = r
  BY <1>4
<1>6. p[1] = Head(queue)
  <2>1. 1 \in 1..1
    OBVIOUS
  <2> QED
    BY <1>3, <1>4, <2>1
<1> HIDE DEF p
<1>7. PICK D : Drops(p, K, 1, r, D)
  BY <1>1, <1>2, <1>4, StoryDropped
<1> HIDE DEF r
<1>8. /\ Story(r, D) /\ D[0] = K[1] /\ D[Len(r)] = K[Len(p)]
      /\ \A i \in 0..Len(p) : i >= 1 => i - 1 \in 0..Len(r) /\ D[i - 1] = K[i]
  BY <1>7 DEF Drops
<1>9. Len(p) \in Nat /\ Len(p) >= 1 /\ 0 \in 0..Len(p) /\ 1 \in 0..Len(p)
  BY <1>2, <1>4
<1>10. K[0] \in SUBSET Devices /\ K[1] \in SUBSET Devices
  BY <1>1, <1>9 DEF Story
<1>11. Moved(p[1], K[0], K[1])
  <2>1. Moved(p[1], K[1 - 1], K[1])
    BY <1>1, <1>4 DEF Story
  <2>2. 1 - 1 = 0
    OBVIOUS
  <2> QED
    BY <2>1, <2>2
<1>12. 0 \in 0..Len(r)
  <2>1. 1 - 1 \in 0..Len(r)
    BY <1>8, <1>9
  <2>2. 1 - 1 = 0
    OBVIOUS
  <2> QED
    BY <2>1, <2>2
<1>13. FirstTaken(p, r, K, D)
  BY <1>1, <1>6, <1>8, <1>9, <1>10, <1>11, <1>12 DEF FirstTaken
<1> QED
  BY <1>5, <1>13 DEF p

(* The arrival of a device is processed.                                   *)
LEMMA TrackedAdded ==
    ASSUME lib \in Seq(Events), queue \in Seq(Events), queue # <<>>, Tracked,
           suspended => known = {},
           Head(queue).type = "added", deviceAdded(Head(queue).dev),
           queue' = SubSeq(queue, 1 + 1, Len(queue)),
           UNCHANGED <<lib, known>>
    PROVE  /\ Tracked' /\ Head(queue).dev \in Devices
           /\ count' \in [Capabilities -> Nat]
<1> DEFINE p == queue \o lib
           r == queue' \o lib'
           d == Head(queue).dev
<1>1. PICK K, D : FirstTaken(p, r, K, D)
  BY FrontTaken
<1> HIDE DEF p, r
<1>2. Counted(K[0]) /\ Announced(p, K) /\ K[Len(p)] = known
  BY <1>1 DEF FirstTaken
<1>3. /\ Story(r, D) /\ D[0] = K[1] /\ D[Len(r)] = K[Len(p)]
      /\ \A i \in 0..Len(p) : i >= 1 => i - 1 \in 0..Len(r) /\ D[i - 1] = K[i]
  BY <1>1 DEF FirstTaken
<1>4. Len(p) \in Nat /\ Len(p) >= 1
  BY <1>1 DEF FirstTaken
<1>5. /\ K[0] \in SUBSET Devices /\ K[1] \in SUBSET Devices
      /\ 0 \in 0..Len(r)
  BY <1>1 DEF FirstTaken
<1>6. Moved(Head(queue), K[0], K[1])
  BY <1>1 DEF FirstTaken
<1>7. d \notin K[0] /\ K[1] = K[0] \cup {d} /\ d \in Devices
  BY <1>5, <1>6 DEF Moved
<1>8. d = Head(queue).dev
  OBVIOUS
<1> HIDE DEF d
<1>9. \A c \in Capabilities :
         /\ Cardinality(With(K[0], c)) \in Nat
         /\ Cardinality(With(K[0], c)) = 0 <=> With(K[0], c) = {}
  BY <1>5, WithFacts
<1>10. \A c \in Capabilities :
         /\ c \in Caps[d] =>
              Cardinality(With(K[1], c)) = Cardinality(With(K[0], c)) + 1
         /\ c \notin Caps[d] => With(K[1], c) = With(K[0], c)
  <2> SUFFICES ASSUME NEW c \in Capabilities
               PROVE  /\ c \in Caps[d] => Cardinality(With(K[0] \cup {d}, c))
                                            = Cardinality(With(K[0], c)) + 1
                      /\ c \notin Caps[d] =>
                            With(K[0] \cup {d}, c) = With(K[0], c)
    BY <1>7
  <2> QED
    BY <1>5, <1>7, WithAdded
<1>11. /\ count' = [c \in Capabilities |->
                      count[c] + IF c \in Caps[d] THEN 1 ELSE 0]
      /\ seat' = IF suspended THEN seat
                 ELSE seat \cup {c \in Caps[d] : count[c] = 0}
  BY <1>8 DEF deviceAdded
<1>12. \A c \in Capabilities : /\ count'[c] = Cardinality(With(K[1], c))
                              /\ count'[c] \in Nat
  <2> SUFFICES ASSUME NEW c \in Capabilities
               PROVE  /\ count'[c] = Cardinality(With(K[1], c))
                      /\ count'[c] \in Nat
    OBVIOUS
  <2>1. count[c] = Cardinality(With(K[0], c)) /\ count[c] \in Nat
    BY <1>2, <1>9 DEF Counted
  <2>2. CASE c \in Caps[d]
    <3>1. count'[c] = count[c] + 1
      BY <1>11, <2>2
    <3> QED
      BY <1>10, <2>1, <2>2, <3>1
  <2>3. CASE c \notin Caps[d]
    <3>1. count'[c] = count[c]
      BY <1>11, <2>1, <2>3
    <3> QED
      BY <1>10, <2>1, <2>3, <3>1
  <2> QED
    BY <2>2, <2>3
<1>13. count' \in [Capabilities -> Nat]
  <2>1. count' = [c \in Capabilities |-> count'[c]]
    BY <1>11
  <2> QED
    BY <1>12, <2>1
<1>14. \A c \in Capabilities :
         c \in seat' \/ \E i \in 0..Len(r) : With(D[i], c) = {}
  <2> SUFFICES ASSUME NEW c \in Capabilities, c \notin seat'
               PROVE  \E i \in 0..Len(r) : With(D[i], c) = {}
    OBVIOUS
  <2>1. CASE suspended
    <3>1. With(K[Len(p)], c) = {}
      BY <1>2, <2>1 DEF With
    <3>2. Len(p) \in 0..Len(p) /\ Len(p) >= 1
      BY <1>4
    <3> QED
      BY <1>3, <3>1, <3>2
  <2>2. CASE ~suspended
    <3>1. seat' = seat \cup {x \in Caps[d] : count[x] = 0}
      BY <1>11, <2>2
    <3>2. PICK i \in 0..Len(p) : With(K[i], c) = {}
      BY <1>2, <3>1 DEF Announced
    <3>3. CASE i >= 1
      BY <1>3, <3>2, <3>3
    <3>4. CASE ~(i >= 1)
      <4>1. i = 0
        BY <1>4, <3>4
      <4>2. count[c] = 0
        BY <1>2, <1>9, <3>2, <4>1 DEF Counted
      <4>3. c \notin Caps[d]
        BY <3>1, <4>2
      <4>4. With(D[0], c) = {}
        BY <1>3, <1>10, <3>2, <4>1, <4>3
      <4> QED
        BY <1>5, <4>4
    <3> QED
      BY <3>3, <3>4
  <2> QED
    BY <2>1, <2>2
<1>15. Counted(D[0])'
  BY <1>3, <1>12 DEF Counted
<1>16. D[Len(r)] = known'
  BY <1>2, <1>3
<1>17. Tracked'
  BY <1>3, <1>14, <1>15, <1>16 DEF Tracked, Announced, r
<1> QED
  BY <1>7, <1>17, <1>13 DEF d

(* The departure of a device is processed.                                 *)
LEMMA TrackedRemoved ==
    ASSUME lib \in Seq(Events), queue \in Seq(Events), queue # <<>>, Tracked,
           suspended => known = {},
           Head(queue).type = "removed", deviceRemoved(Head(queue).dev),
           queue' = SubSeq(queue, 1 + 1, Len(queue)),
           UNCHANGED <<lib, known>>
    PROVE  /\ Tracked' /\ Head(queue).dev \in Devices
           /\ count' \in [Capabilities -> Nat]
<1> DEFINE p == queue \o lib
           r == queue' \o lib'
           d == Head(queue).dev
<1>1. PICK K, D : FirstTaken(p, r, K, D)
  BY FrontTaken
<1> HIDE DEF p, r
<1>2. Counted(K[0]) /\ Announced(p, K) /\ K[Len(p)] = known
  BY <1>1 DEF FirstTaken
<1>3. /\ Story(r, D) /\ D[0] = K[1] /\ D[Len(r)] = K[Len(p)]
      /\ \A i \in 0..Len(p) : i >= 1 => i - 1 \in 0..Len(r) /\ D[i - 1] = K[i]
  BY <1>1 DEF FirstTaken
<1>4. Len(p) \in Nat /\ Len(p) >= 1
  BY <1>1 DEF FirstTaken
<1>5. /\ K[0] \in SUBSET Devices /\ K[1] \in SUBSET Devices
      /\ 0 \in 0..Len(r)
  BY <1>1 DEF FirstTaken
<1>6. Moved(Head(queue), K[0], K[1])
  BY <1>1 DEF FirstTaken
<1>7. d \in K[0] /\ K[1] = K[0] \ {d} /\ d \in Devices
  BY <1>5, <1>6 DEF Moved
<1>8. d = Head(queue).dev
  OBVIOUS
<1> HIDE DEF d
<1>9. \A c \in Capabilities :
         /\ Cardinality(With(K[0], c)) \in Nat
         /\ Cardinality(With(K[1], c)) \in Nat
         /\ Cardinality(With(K[1], c)) = 0 <=> With(K[1], c) = {}
  BY <1>5, WithFacts
<1>10. \A c \in Capabilities :
         /\ c \in Caps[d] =>
              Cardinality(With(K[1], c)) = Cardinality(With(K[0], c)) - 1
         /\ c \notin Caps[d] => With(K[1], c) = With(K[0], c)
         /\ With(K[0], c) = {} => With(K[1], c) = {}
  <2> SUFFICES ASSUME NEW c \in Capabilities
               PROVE  /\ c \in Caps[d] => Cardinality(With(K[0] \ {d}, c))
                                            = Cardinality(With(K[0], c)) - 1
                      /\ c \notin Caps[d] =>
                            With(K[0] \ {d}, c) = With(K[0], c)
                      /\ With(K[0], c) = {} => With(K[0] \ {d}, c) = {}
    BY <1>7
  <2> QED
    BY <1>5, <1>7, WithRemoved
<1>11. /\ count' = [c \in Capabilities |->
                      count[c] - IF c \in Caps[d] THEN 1 ELSE 0]
      /\ seat' = IF suspended THEN seat
                 ELSE seat \ {c \in Caps[d] : count[c] = 1}
  BY <1>8 DEF deviceRemoved
<1>12. \A c \in Capabilities : /\ count'[c] = Cardinality(With(K[1], c))
                              /\ count'[c] \in Nat
  <2> SUFFICES ASSUME NEW c \in Capabilities
               PROVE  /\ count'[c] = Cardinality(With(K[1], c))
                      /\ count'[c] \in Nat
    OBVIOUS
  <2>1. count[c] = Cardinality(With(K[0], c)) /\ count[c] \in Nat
    BY <1>2, <1>9 DEF Counted
  <2>2. CASE c \in Caps[d]
    <3>1. count'[c] = count[c] - 1
      BY <1>11, <2>2
    <3> QED
      BY <1>9, <1>10, <2>1, <2>2, <3>1
  <2>3. CASE c \notin Caps[d]
    <3>1. count'[c] = count[c]
      BY <1>11, <2>1, <2>3
    <3> QED
      BY <1>10, <2>1, <2>3, <3>1
  <2> QED
    BY <2>2, <2>3
<1>13. count' \in [Capabilities -> Nat]
  <2>1. count' = [c \in Capabilities |-> count'[c]]
    BY <1>11
  <2> QED
    BY <1>12, <2>1
<1>14. \A c \in Capabilities :
         c \in seat' \/ \E i \in 0..Len(r) : With(D[i], c) = {}
  <2> SUFFICES ASSUME NEW c \in Capabilities, c \notin seat'
               PROVE  \E i \in 0..Len(r) : With(D[i], c) = {}
    OBVIOUS
  <2>1. CASE suspended
    <3>1. With(K[Len(p)], c) = {}
      BY <1>2, <2>1 DEF With
    <3>2. Len(p) \in 0..Len(p) /\ Len(p) >= 1
      BY <1>4
    <3> QED
      BY <1>3, <3>1, <3>2
  <2>2. CASE ~suspended
    <3>1. seat' = seat \ {x \in Caps[d] : count[x] = 1}
      BY <1>11, <2>2
    <3>2. CASE c \in seat
      <4>1. c \in Caps[d] /\ count[c] = 1
        BY <3>1, <3>2
      <4>2. Cardinality(With(K[1], c)) = 0
        BY <1>2, <1>10, <4>1 DEF Counted
      <4>3. With(D[0], c) = {}
        BY <1>3, <1>9, <4>2
      <4> QED
        BY <1>5, <4>3
    <3>3. CASE c \notin seat
      <4>1. PICK i \in 0..Len(p) : With(K[i], c) = {}
        BY <1>2, <3>3 DEF Announced
      <4>2. CASE i >= 1
        BY <1>3, <4>1, <4>2
      <4>3. CASE ~(i >= 1)
        <5>1. i = 0
          BY <1>4, <4>3
        <5>2. With(D[0], c) = {}
          BY <1>3, <1>10, <4>1, <5>1
        <5> QED
          BY <1>5, <5>2
      <4> QED
        BY <4>2, <4>3
    <3> QED
      BY <3>2, <3>3
  <2> QED
    BY <2>1, <2>2
<1>15. Counted(D[0])'
  BY <1>3, <1>12 DEF Counted
<1>16. D[Len(r)] = known'
  BY <1>2, <1>3
<1>17. Tracked'
  BY <1>3, <1>14, <1>15, <1>16 DEF Tracked, Announced, r
<1> QED
  BY <1>7, <1>17, <1>13 DEF d

(* One round of processEvents(): a device comes, or goes, or nothing that  *)
(* the seat is told about.                                                 *)
LEMMA RoundCases ==
    ASSUME TypeOK, Tracked, Quiet, ProcessEvent
    PROVE  /\ Tracked' /\ count' \in [Capabilities -> Nat]
           /\ \/ \E d \in Devices : deviceAdded(d) \/ deviceRemoved(d)
              \/ UNCHANGED <<count, seat>>
<1> DEFINE e == Head(queue)
           n == mergedFrom(queue)
<1>1. /\ lib \in Seq(Events) /\ queue \in Seq(Events) /\ queue # <<>>
      /\ count \in [Capabilities -> Nat]
  BY DEF TypeOK, ProcessEvent
<1>2. UNCHANGED <<lib, known>> /\ (suspended => known = {})
  BY DEF ProcessEvent, worldVars, Quiet
<1>3. /\ queue' = SubSeq(queue, n + 1, Len(queue))
      /\ CASE e.type = "added"   -> deviceAdded(e.dev)
           [] e.type = "removed" -> deviceRemoved(e.dev)
           [] OTHER -> UNCHANGED <<count, seat>>
  BY DEF ProcessEvent
<1>4. Moves(e) => n = 1
  BY DEF Moves, Mergeable, mergedFrom
<1>5. n \in 1..Len(queue)
      /\ (n = 1 \/ \A i \in 1..n : Mergeable(queue[i]))
  BY <1>1, MergedRun
<1>6. e = queue[1]
  BY <1>1
<1> HIDE DEF n
<1>7. CASE e.type = "added"
  <2>1. n = 1 /\ deviceAdded(e.dev)
    BY <1>3, <1>4, <1>7 DEF Moves
  <2>2. queue' = SubSeq(queue, 1 + 1, Len(queue))
    BY <1>3, <2>1
  <2>3. Tracked' /\ e.dev \in Devices /\ count' \in [Capabilities -> Nat]
    BY <1>1, <1>2, <1>7, <2>1, <2>2, TrackedAdded
  <2> QED
    BY <2>1, <2>3
<1>8. CASE e.type = "removed"
  <2>1. n = 1 /\ deviceRemoved(e.dev)
    BY <1>3, <1>4, <1>8 DEF Moves
  <2>2. queue' = SubSeq(queue, 1 + 1, Len(queue))
    BY <1>3, <2>1
  <2>3. Tracked' /\ e.dev \in Devices /\ count' \in [Capabilities -> Nat]
    BY <1>1, <1>2, <1>8, <2>1, <2>2, TrackedRemoved
  <2> QED
    BY <2>1, <2>3
<1>9. CASE ~Moves(e)
  <2>1. UNCHANGED <<count, seat>>
    BY <1>3, <1>9 DEF Moves
  <2>2. \A i \in 1..n : ~Moves(queue[i])
    <3>1. CASE n = 1
      BY <1>6, <1>9, <3>1
    <3>2. CASE \A i \in 1..n : Mergeable(queue[i])
      BY <3>2 DEF Mergeable, Moves
    <3> QED
      BY <1>5, <3>1, <3>2
  <2>3. Tracked'
    BY <1>1, <1>2, <1>3, <1>5, <2>1, <2>2, TrackedInput
  <2> QED
    BY <1>1, <2>1, <2>3
<1> QED
  BY <1>7, <1>8, <1>9 DEF Moves

-----------------------------------------------------------------------------
(* Every step keeps the story of what is pending.                          *)

LEMMA TrackedReading ==
    ASSUME lib \in Seq(Events), queue \in Seq(Events), Tracked,
           handleEvent, UNCHANGED <<known, count, seat>>
    PROVE  Tracked'
<1>1. queue' \o lib' = queue \o lib
  BY MovedIsPending DEF handleEvent
<1> QED
  BY <1>1, TrackedSame

(* One event is reported.                                                  *)
LEMMA TrackedEvent ==
    ASSUME lib \in Seq(Events), queue \in Seq(Events), Tracked,
           known \in SUBSET Devices, known' \in SUBSET Devices,
           NEW e \in Events, lib' = Append(lib, e),
           Moved(e, known, known'), Moves(e) \/ known' = known,
           UNCHANGED <<queue, count, seat>>
    PROVE  Tracked'
<1>1. lib' = lib \o <<e>> /\ <<e>> \in Seq(Events)
  BY AppendIsReport
<1>2. PICK T : Story(<<e>>, T) /\ T[0] = known /\ T[Len(<<e>>)] = known'
  BY EventStory
<1> QED
  BY <1>1, <1>2, TrackedReport

LEMMA TrackedStep ==
    ASSUME TypeOK, Quiet, Tracked, [Next]_vars
    PROVE  Tracked'
<1>1. /\ lib \in Seq(Events) /\ queue \in Seq(Events)
      /\ known \in SUBSET Devices /\ plugged \in SUBSET Devices
  BY DEF TypeOK
<1>2. CASE DoSetup \/ Notified \/ ReadAfterSuspend
  <2>1. handleEvent /\ UNCHANGED <<known, count, seat>>
    BY <1>2 DEF DoSetup, Notified, ReadAfterSuspend, mainVars, worldVars
  <2> QED
    BY <1>1, <2>1, TrackedReading
<1>3. CASE \/ IgnoreChange \/ MarkResumed \/ Deactivate \/ SetupLibInput
           \/ ProcessEvents \/ ClearSuspended \/ SessionActiveChanged
           \/ VtInactive \/ UNCHANGED vars
  <2>1. UNCHANGED <<lib, queue, known, count, seat>>
    BY <1>3 DEF IgnoreChange, MarkResumed, Deactivate, SetupLibInput,
                ProcessEvents, ClearSuspended, SessionActiveChanged,
                VtInactive, vars, mainVars, worldVars
  <2> QED
    BY <2>1, TrackedSame
<1>4. CASE Resume
  <2>1. PICK opened \in SUBSET plugged : \E order \in SetToSeqs(opened) :
           /\ known' = opened
           /\ lib' = lib \o [i \in DOMAIN order |-> added(order[i])]
    BY <1>4 DEF Resume
  <2>2. PICK order \in SetToSeqs(opened) :
           lib' = lib \o [i \in DOMAIN order |-> added(order[i])]
    BY <2>1
  <2>3. opened \in SUBSET Devices
    BY <1>1
  <2> DEFINE u == [i \in DOMAIN order |-> added(order[i])]
  <2>4. \E T : Story(u, T) /\ T[0] = {} /\ T[Len(u)] = opened
    BY <2>3, OpenedStory
  <2>5. u \in Seq(Events) /\ lib' = lib \o u
    BY <2>2, <2>3, ReportTypes
  <2> HIDE DEF u
  <2>6. PICK T : Story(u, T) /\ T[0] = {} /\ T[Len(u)] = opened
    BY <2>4
  <2>7. known = {} /\ UNCHANGED <<queue, count, seat>>
    BY <1>4 DEF Resume, Quiet, mainVars
  <2>8. T[0] = known /\ known' = T[Len(u)]
    BY <2>1, <2>6, <2>7
  <2> QED
    BY <1>1, <2>5, <2>6, <2>7, <2>8, TrackedReport
<1>5. CASE Suspend
  <2>1. PICK order \in SetToSeqs(known) :
           lib' = lib \o [i \in DOMAIN order |-> removed(order[i])]
    BY <1>5 DEF Suspend
  <2>2. known \in SUBSET Devices
    BY <1>1
  <2> DEFINE u == [i \in DOMAIN order |-> removed(order[i])]
  <2>3. \E T : Story(u, T) /\ T[0] = known /\ T[Len(u)] = {}
    BY ONLY <2>2, order \in SetToSeqs(known), ClosedStory
  <2>4. u \in Seq(Events) /\ lib' = lib \o u
    BY <1>1, <2>1, ReportTypes
  <2> HIDE DEF u
  <2>5. PICK T : Story(u, T) /\ T[0] = known /\ T[Len(u)] = {}
    BY <2>3
  <2>6. known' = {} /\ UNCHANGED <<queue, count, seat>>
    BY <1>5 DEF Suspend, mainVars
  <2>7. known' = T[Len(u)]
    BY <2>5, <2>6
  <2> QED
    BY <1>1, <2>4, <2>5, <2>6, <2>7, TrackedReport
<1>6. CASE ProcessEvent
  BY <1>6, RoundCases
<1>7. CASE ReportMissing
  <2> DEFINE X == IF wasSuspended /\ ~suspended
                  THEN {c \in before : count[c] = 0} ELSE {}
  <2>1. seat' = seat \ X /\ UNCHANGED <<queue, lib, known, count>>
    BY <1>7 DEF ReportMissing, worldVars
  <2>2. \A c \in X : count[c] = 0
    OBVIOUS
  <2> HIDE DEF X
  <2> QED
    BY <1>1, <2>1, <2>2, TrackedMissing
<1>8. ASSUME NEW d \in Devices, Plug(d) PROVE Tracked'
  <2>1. /\ UNCHANGED <<queue, count, seat>> /\ d \notin plugged
        /\ \/ known' = known \cup {d} /\ lib' = Append(lib, added(d))
           \/ known' = known /\ lib' = lib
    BY <1>8 DEF Plug, mainVars
  <2>2. CASE known' = known \cup {d} /\ lib' = Append(lib, added(d))
    <3>1. d \notin known /\ known' \in SUBSET Devices
      BY <1>1, <2>1, <2>2 DEF TypeOK
    <3>2. added(d) \in Events
      BY EventTypes
    <3>3. Moves(added(d)) /\ Moved(added(d), known, known')
      BY <2>2, <3>1, EventFields DEF Moves, Moved
    <3> QED
      BY <1>1, <2>1, <2>2, <3>1, <3>2, <3>3, TrackedEvent
  <2>3. CASE known' = known /\ lib' = lib
    BY <2>1, <2>3, TrackedSame
  <2> QED
    BY <2>1, <2>2, <2>3
<1>9. ASSUME NEW d \in Devices, Unplug(d) PROVE Tracked'
  <2>1. /\ UNCHANGED <<queue, count, seat>> /\ known' = known \ {d}
        /\ lib' = IF d \in known THEN Append(lib, removed(d)) ELSE lib
    BY <1>9 DEF Unplug, mainVars
  <2>2. CASE d \in known
    <3>1. known' \in SUBSET Devices /\ lib' = Append(lib, removed(d))
      BY <1>1, <2>1, <2>2
    <3>2. removed(d) \in Events
      BY EventTypes
    <3>3. Moves(removed(d)) /\ Moved(removed(d), known, known')
      BY <2>1, <2>2, EventFields DEF Moves, Moved
    <3> QED
      BY <1>1, <2>1, <3>1, <3>2, <3>3, TrackedEvent
  <2>3. CASE d \notin known
    <3>1. known' = known /\ lib' = lib
      BY <2>1, <2>3
    <3> QED
      BY <2>1, <3>1, TrackedSame
  <2> QED
    BY <2>2, <2>3
<1>10. CASE Input
  <2>1. PICK type \in Inputs :
           lib' = Append(lib, [type |-> type, dev |-> "any"])
    BY <1>10 DEF Input
  <2> DEFINE e == [type |-> type, dev |-> "any"]
  <2>2. UNCHANGED <<queue, known, count, seat>>
    BY <1>10 DEF Input, mainVars, worldVars
  <2>3. e \in Events /\ ~Moves(e) /\ e.type \notin {"added", "removed"}
    BY EventTypes, InputsAssumption DEF Moves
  <2>4. lib' = Append(lib, e)
    BY <2>1
  <2> HIDE DEF e
  <2>5. Moved(e, known, known')
    BY <2>3 DEF Moved
  <2> QED
    BY <1>1, <2>2, <2>3, <2>4, <2>5, TrackedEvent
<1> QED
  BY <1>2, <1>3, <1>4, <1>5, <1>6, <1>7, <1>8, <1>9, <1>10
     DEF Next, InputThread, MainThread, World

-----------------------------------------------------------------------------
(* Every step keeps the types, the flags and what the seat may announce.   *)

LEMMA TypeFacts ==
    ASSUME TypeOK
    PROVE  /\ lib \in Seq(Events) /\ queue \in Seq(Events)
           /\ mutex \in {"free", "events", "clearing"} /\ reads \in {0, 1}
           /\ connected \in BOOLEAN /\ suspended \in BOOLEAN
           /\ wasSuspended \in BOOLEAN /\ session \in BOOLEAN
           /\ raced \in BOOLEAN /\ readable \in BOOLEAN
           /\ before \in SUBSET Capabilities /\ seat \in SUBSET Capabilities
           /\ count \in [Capabilities -> Nat]
           /\ thread \in {"new", "loop", "resumed", "deactivating", "suspended"}
           /\ posted \in Seq(BOOLEAN)
           /\ known \in SUBSET plugged /\ plugged \in SUBSET Devices
           /\ ChannelType
<1>1. reads \in {0, 1}
  BY DEF TypeOK
<1>2. known \in SUBSET Devices
  BY DEF TypeOK
<1> QED
  BY <1>1, <1>2 DEF TypeOK, ChannelType

(* What deviceAdded() and deviceRemoved() do to the seat.                  *)
LEMMA AddedSeat ==
    ASSUME TypeOK, NEW d \in Devices, deviceAdded(d)
    PROVE  /\ seat' \in SUBSET Capabilities
           /\ There \subseteq There'
           /\ suspended => seat' = seat
           /\ seat' \subseteq seat \cup There'
<1>1. Caps[d] \in SUBSET Capabilities
  BY DevicesAssumption
<1>2. seat \in SUBSET Capabilities /\ count \in [Capabilities -> Nat]
  BY DEF TypeOK
<1>3. /\ \A c \in Capabilities :
            count'[c] = count[c] + (IF c \in Caps[d] THEN 1 ELSE 0)
      /\ seat' = IF suspended THEN seat
                 ELSE seat \cup {c \in Caps[d] : count[c] = 0}
  BY DEF deviceAdded
<1>4. \A c \in Capabilities : /\ count[c] > 0 => count'[c] > 0
                              /\ c \in Caps[d] => count'[c] > 0
  BY <1>2, <1>3
<1> QED
  BY <1>1, <1>2, <1>3, <1>4 DEF There

LEMMA RemovedSeat ==
    ASSUME TypeOK, NEW d \in Devices, deviceRemoved(d)
    PROVE  /\ seat' \in SUBSET Capabilities /\ seat' \subseteq seat
           /\ suspended => seat' = seat
           /\ ~suspended => \A c \in seat' : c \in There => c \in There'
<1>1. seat \in SUBSET Capabilities /\ count \in [Capabilities -> Nat]
  BY DEF TypeOK
<1>2. /\ \A c \in Capabilities :
            count'[c] = count[c] - (IF c \in Caps[d] THEN 1 ELSE 0)
      /\ seat' = IF suspended THEN seat
                 ELSE seat \ {c \in Caps[d] : count[c] = 1}
  BY DEF deviceRemoved
<1>3. seat' \in SUBSET Capabilities /\ seat' \subseteq seat
      /\ (suspended => seat' = seat)
  BY <1>1, <1>2
<1>4. ASSUME ~suspended, NEW c \in seat', c \in There PROVE c \in There'
  <2>1. c \in Capabilities /\ count[c] \in Nat /\ count[c] > 0
    BY <1>1, <1>3, <1>4 DEF There
  <2>2. ~(c \in Caps[d] /\ count[c] = 1)
    BY <1>2, <1>4
  <2>3. count'[c] > 0
    BY <1>2, <2>1, <2>2
  <2> QED
    BY <2>1, <2>3 DEF There
<1> QED
  BY <1>3, <1>4

LEMMA TypeStep ==
    ASSUME TypeOK, Waking, Quiet, Tracked, [Next]_vars
    PROVE  TypeOK'
<1>1. /\ lib \in Seq(Events) /\ queue \in Seq(Events)
      /\ mutex \in {"free", "events", "clearing"} /\ reads \in {0, 1}
      /\ connected \in BOOLEAN /\ suspended \in BOOLEAN
      /\ wasSuspended \in BOOLEAN /\ session \in BOOLEAN
      /\ raced \in BOOLEAN /\ readable \in BOOLEAN
      /\ before \in SUBSET Capabilities /\ seat \in SUBSET Capabilities
      /\ count \in [Capabilities -> Nat]
      /\ thread \in {"new", "loop", "resumed", "deactivating", "suspended"}
      /\ posted \in Seq(BOOLEAN)
      /\ known \in SUBSET plugged /\ plugged \in SUBSET Devices
      /\ ChannelType
  BY TypeFacts
<1>2. lib' \in Seq(Events) /\ queue' \in Seq(Events)
      /\ plugged' \in SUBSET Devices
  BY <1>1, ChannelStep DEF ChannelType
<1>3. handleEvent => reads' \in {0, 1}
  BY <1>1 DEF handleEvent, Waking
<1>4. reads' \in {0, 1} /\ mutex' \in {"free", "events", "clearing"}
  <2>1. CASE handleEvent /\ mutex' = mutex
    BY <1>1, <1>3, <2>1
  <2>2. CASE \/ UNCHANGED <<reads, mutex>> \/ ProcessEvents
             \/ ReportMissing \/ ClearSuspended
    BY <1>1, <2>2 DEF ProcessEvents, ReportMissing, ClearSuspended
  <2> QED
    BY <2>1, <2>2 DEF Next, InputThread, MainThread, World, DoSetup, Notified,
       IgnoreChange, Resume, MarkResumed, Deactivate, Suspend,
       ReadAfterSuspend, SetupLibInput, ProcessEvent, SessionActiveChanged,
       VtInactive, Plug, Unplug, Input, vars
<1>5. /\ connected' \in BOOLEAN /\ suspended' \in BOOLEAN
      /\ wasSuspended' \in BOOLEAN /\ session' \in BOOLEAN
      /\ raced' \in BOOLEAN
      /\ thread' \in {"new", "loop", "resumed", "deactivating", "suspended"}
  BY <1>1 DEF Next, InputThread, MainThread, World, DoSetup, Notified,
     IgnoreChange, Resume, MarkResumed, Deactivate, Suspend, ReadAfterSuspend,
     SetupLibInput, ProcessEvents, ProcessEvent, ReportMissing,
     ClearSuspended, SessionActiveChanged, VtInactive, Plug, Unplug, Input,
     vars, mainVars, threadVars, worldVars
<1>6. posted' \in Seq(BOOLEAN)
  <2>1. CASE IgnoreChange \/ Resume \/ Deactivate
    <3>1. posted # <<>> /\ posted' = Tail(posted)
      BY <2>1 DEF IgnoreChange, Resume, Deactivate
    <3> QED
      BY <1>1, <3>1
  <2>2. CASE SessionActiveChanged
    <3>1. posted' = Append(posted, session')
      BY <2>2 DEF SessionActiveChanged
    <3> QED
      BY <1>1, <1>5, <3>1
  <2>3. CASE VtInactive
    <3>1. posted' = Append(posted, FALSE)
      BY <2>3 DEF VtInactive
    <3> QED
      BY <1>1, <3>1
  <2>4. CASE posted' = posted
    BY <1>1, <2>4
  <2> QED
    BY <2>1, <2>2, <2>3, <2>4 DEF Next, InputThread, MainThread, World,
       DoSetup, Notified, MarkResumed, Suspend, ReadAfterSuspend,
       SetupLibInput, ProcessEvents, ProcessEvent, ReportMissing,
       ClearSuspended, Plug, Unplug, Input, vars, threadVars
<1>7. known' \in SUBSET plugged'
  BY <1>1 DEF Next, InputThread, MainThread, World, DoSetup, Notified,
     IgnoreChange, Resume, MarkResumed, Deactivate, Suspend, ReadAfterSuspend,
     SetupLibInput, ProcessEvents, ProcessEvent, ReportMissing,
     ClearSuspended, SessionActiveChanged, VtInactive, Plug, Unplug, Input,
     vars, worldVars
<1>8. before' \in SUBSET Capabilities
  BY <1>1 DEF Next, InputThread, MainThread, World, DoSetup, Notified,
     IgnoreChange, Resume, MarkResumed, Deactivate, Suspend, ReadAfterSuspend,
     SetupLibInput, ProcessEvents, ProcessEvent, ReportMissing,
     ClearSuspended, SessionActiveChanged, VtInactive, Plug, Unplug, Input,
     vars, threadVars
<1>9. seat' \in SUBSET Capabilities /\ count' \in [Capabilities -> Nat]
  <2>1. CASE ProcessEvent
    <3>1. count' \in [Capabilities -> Nat]
          /\ (\/ \E d \in Devices : deviceAdded(d) \/ deviceRemoved(d)
              \/ UNCHANGED <<count, seat>>)
      BY <2>1, RoundCases
    <3> QED
      BY <1>1, <3>1, AddedSeat, RemovedSeat
  <2>2. CASE ReportMissing
    BY <1>1, <2>2 DEF ReportMissing
  <2>3. CASE UNCHANGED <<count, seat>>
    BY <1>1, <2>3
  <2> QED
    BY <2>1, <2>2, <2>3 DEF Next, InputThread, MainThread, World, DoSetup,
       Notified, IgnoreChange, Resume, MarkResumed, Deactivate, Suspend,
       ReadAfterSuspend, SetupLibInput, ProcessEvents, ClearSuspended,
       SessionActiveChanged, VtInactive, Plug, Unplug, Input, vars, mainVars
<1>10. reads' \in 0..1
  BY <1>4
<1>11. /\ {connected', suspended', wasSuspended'} \subseteq BOOLEAN
       /\ {readable', session', raced'} \subseteq BOOLEAN
  <2>1. readable' \in BOOLEAN
    BY <1>1 DEF Next, InputThread, MainThread, World, DoSetup, Notified,
       IgnoreChange, Resume, MarkResumed, Deactivate, Suspend,
       ReadAfterSuspend, SetupLibInput, ProcessEvents, ProcessEvent,
       ReportMissing, ClearSuspended, SessionActiveChanged, VtInactive, Plug,
       Unplug, Input, vars, handleEvent
  <2> QED
    BY <1>5, <2>1
<1> QED
  BY <1>2, <1>4, <1>5, <1>6, <1>7, <1>8, <1>9, <1>10, <1>11 DEF TypeOK

LEMMA WakingStep ==
    ASSUME TypeOK, Waking, [Next]_vars
    PROVE  Waking'
<1>1. lib \in Seq(Events) /\ queue \in Seq(Events) /\ reads \in {0, 1}
  BY TypeFacts
<1>2. CASE handleEvent /\ mutex' = mutex
  <2>1. /\ queue' = queue \o lib /\ mutex' = "free"
        /\ reads' = reads \/ lib # <<>>
    BY <1>2 DEF handleEvent
  <2>2. queue' # <<>> <=> queue # <<>> \/ lib # <<>>
    BY <1>1, <2>1, Emptiness
  <2> QED
    BY <2>1, <2>2 DEF Waking
<1>3. CASE ProcessEvents
  BY <1>1, <1>3 DEF ProcessEvents, Waking
<1>4. CASE ProcessEvent \/ ReportMissing \/ ClearSuspended
  BY <1>4 DEF ProcessEvent, ReportMissing, ClearSuspended, Waking
<1>5. CASE UNCHANGED <<reads, queue, mutex>>
  BY <1>5 DEF Waking
<1> QED
  BY <1>2, <1>3, <1>4, <1>5 DEF Next, InputThread, MainThread, World, DoSetup,
     Notified, IgnoreChange, Resume, MarkResumed, Deactivate, Suspend,
     ReadAfterSuspend, SetupLibInput, SessionActiveChanged, VtInactive, Plug,
     Unplug, Input, vars

LEMMA QuietStep ==
    ASSUME TypeOK, Quiet, [Next]_vars
    PROVE  Quiet'
<1>1. /\ suspended \in BOOLEAN /\ wasSuspended \in BOOLEAN
      /\ known \in SUBSET plugged
  BY TypeFacts
<1>2. ASSUME UNCHANGED <<suspended, known, thread, mutex, wasSuspended>>
      PROVE  Quiet'
  BY <1>2 DEF Quiet
<1>3. CASE DoSetup \/ ReadAfterSuspend
  <2>1. thread' = "loop" /\ UNCHANGED <<suspended, known, mutex, wasSuspended>>
    BY <1>3 DEF DoSetup, ReadAfterSuspend, worldVars
  <2> QED
    BY <2>1 DEF Quiet
<1>4. CASE Resume \/ MarkResumed
  <2>1. /\ suspended' = FALSE /\ mutex' = mutex
        /\ thread' \in {"loop", "resumed"}
        /\ wasSuspended' \/ wasSuspended' = wasSuspended
    BY <1>1, <1>4 DEF Resume, MarkResumed, Quiet
  <2> QED
    BY <2>1 DEF Quiet
<1>5. CASE Deactivate
  <2>1. /\ thread' = "deactivating" /\ ~suspended
        /\ UNCHANGED <<suspended, known, mutex, wasSuspended>>
    BY <1>5 DEF Deactivate, worldVars
  <2> QED
    BY <2>1 DEF Quiet
<1>6. CASE Suspend
  <2>1. /\ thread' = "suspended" /\ suspended' = TRUE /\ known' = {}
        /\ UNCHANGED <<mutex, wasSuspended>>
    BY <1>6 DEF Suspend
  <2> QED
    BY <2>1 DEF Quiet
<1>7. CASE ProcessEvents \/ ReportMissing \/ ClearSuspended
  <2>1. /\ mutex' = "clearing" => wasSuspended'
        /\ UNCHANGED <<suspended, known, thread>>
    BY <1>7 DEF ProcessEvents, ReportMissing, ClearSuspended, worldVars,
                threadVars
  <2> QED
    BY <2>1 DEF Quiet
<1>8. ASSUME NEW d \in Devices, Plug(d) \/ Unplug(d) PROVE Quiet'
  <2>1. /\ UNCHANGED <<suspended, thread, mutex, wasSuspended>>
        /\ suspended /\ known = {} => known' = {}
    BY <1>8 DEF Plug, Unplug, threadVars
  <2> QED
    BY <2>1 DEF Quiet
<1> QED
  BY <1>2, <1>3, <1>4, <1>5, <1>6, <1>7, <1>8 DEF Next, InputThread,
     MainThread, World, Notified, IgnoreChange, SetupLibInput, ProcessEvent,
     SessionActiveChanged, VtInactive, Input, vars, worldVars, threadVars

LEMMA DroppedStep ==
    ASSUME TypeOK, Quiet, Tracked, Dropped, [Next]_vars
    PROVE  Dropped'
<1>1. /\ suspended \in BOOLEAN /\ wasSuspended \in BOOLEAN
      /\ raced \in BOOLEAN /\ count \in [Capabilities -> Nat]
      /\ before \in SUBSET Capabilities /\ seat \in SUBSET Capabilities
      /\ mutex \in {"free", "events", "clearing"}
      /\ thread \in {"new", "loop", "resumed", "deactivating", "suspended"}
  BY TypeFacts
<1>2. raced => raced'
  BY <1>1 DEF Next, InputThread, MainThread, World, DoSetup, Notified,
     IgnoreChange, Resume, MarkResumed, Deactivate, Suspend, ReadAfterSuspend,
     SetupLibInput, ProcessEvents, ProcessEvent, ReportMissing,
     ClearSuspended, SessionActiveChanged, VtInactive, Plug, Unplug, Input,
     vars, threadVars
<1> SUFFICES ASSUME ~raced' PROVE Dropped'
  BY DEF Dropped
<1>3. ~raced
  BY <1>2
<1>4. count' = count => There' = There
  BY DEF There
<1>5. CASE InputThread
  <2>1. count' = count /\ seat' = seat
    BY <1>5 DEF InputThread, DoSetup, Notified, IgnoreChange, Resume,
       MarkResumed, Deactivate, Suspend, ReadAfterSuspend, mainVars
  <2>2. There' = There
    BY <1>4, <2>1
  <2>3. CASE DoSetup
    BY <1>3, <2>1, <2>2, <2>3 DEF DoSetup, Dropped, Quiet
  <2>4. CASE Notified \/ IgnoreChange
    BY <1>3, <2>1, <2>2, <2>4
       DEF Notified, IgnoreChange, Dropped, threadVars
  <2>5. CASE Resume
    BY <1>3, <2>1, <2>2, <2>5 DEF Resume, Dropped, Quiet
  <2>6. CASE MarkResumed
    BY <1>3, <2>1, <2>2, <2>6 DEF MarkResumed, Dropped, Quiet
  <2>7. CASE Deactivate
    <3>1. /\ ~wasSuspended /\ mutex = "free" /\ queue = <<>> /\ ~suspended
          /\ thread = "loop" /\ thread' = "deactivating"
          /\ UNCHANGED <<queue, mutex, wasSuspended, suspended>>
      BY <2>7 DEF Deactivate
    <3>2. before' = There
      BY <2>7 DEF Deactivate, There
    <3>3. seat \subseteq There
      BY <1>3, <3>1 DEF Dropped
    <3> QED
      BY <2>1, <2>2, <3>1, <3>2, <3>3 DEF Dropped
  <2>8. CASE Suspend
    BY <1>3, <2>1, <2>2, <2>8 DEF Suspend, Dropped, Quiet
  <2>9. CASE ReadAfterSuspend
    BY <1>3, <2>1, <2>2, <2>9 DEF ReadAfterSuspend, Dropped, Quiet
  <2> QED
    BY <1>5, <2>3, <2>4, <2>5, <2>6, <2>7, <2>8, <2>9 DEF InputThread
<1>6. CASE ProcessEvent
  <2>1. /\ queue # <<>> /\ mutex = "events"
        /\ UNCHANGED <<mutex, wasSuspended, suspended, before, thread>>
    BY <1>6 DEF ProcessEvent, threadVars
  <2>2. thread # "deactivating"
    BY <1>3, <2>1 DEF Dropped
  <2>3. CASE UNCHANGED <<count, seat>>
    BY <1>3, <1>4, <2>1, <2>2, <2>3 DEF Dropped
  <2>4. ASSUME NEW d \in Devices, deviceAdded(d) PROVE Dropped'
    <3>1. /\ There \subseteq There'
          /\ suspended => seat' = seat
          /\ seat' \subseteq seat \cup There'
      BY <2>4, AddedSeat
    <3> QED
      BY <1>3, <2>1, <2>2, <3>1 DEF Dropped
  <2>5. ASSUME NEW d \in Devices, deviceRemoved(d) PROVE Dropped'
    <3>1. /\ seat' \subseteq seat
          /\ suspended => seat' = seat
          /\ ~suspended => \A c \in seat' : c \in There => c \in There'
      BY <2>5, RemovedSeat
    <3>2. CASE suspended
      BY <1>3, <2>1, <2>2, <3>1, <3>2 DEF Dropped, Quiet
    <3>3. CASE ~suspended
      BY <1>3, <2>1, <2>2, <3>1, <3>3 DEF Dropped
    <3> QED
      BY <3>2, <3>3
  <2>6. \/ \E d \in Devices : deviceAdded(d) \/ deviceRemoved(d)
        \/ UNCHANGED <<count, seat>>
    BY <1>6, RoundCases
  <2> QED
    BY <2>3, <2>4, <2>5, <2>6
<1>7. CASE ReportMissing
  <2>1. /\ mutex' = IF wasSuspended THEN "clearing" ELSE "free"
        /\ seat' = IF wasSuspended /\ ~suspended
                   THEN seat \ {c \in before : count[c] = 0} ELSE seat
        /\ UNCHANGED <<queue, wasSuspended, suspended, before, thread, count>>
    BY <1>7 DEF ReportMissing, threadVars
  <2>2. There' = There /\ seat' \subseteq seat
    BY <1>4, <2>1
  <2>3. ASSUME wasSuspended PROVE seat' \subseteq There
    <3>1. ~suspended /\ seat \subseteq before \cup There
      BY <1>3, <2>3 DEF Dropped
    <3>2. \A c \in before : count[c] # 0 => c \in There
      BY <1>1 DEF There
    <3> QED
      BY <2>1, <2>3, <3>1, <3>2
  <2> QED
    BY <1>3, <2>1, <2>2, <2>3 DEF Dropped
<1>8. CASE ClearSuspended
  <2>1. /\ mutex = "clearing" /\ mutex' = "free" /\ wasSuspended' = FALSE
        /\ UNCHANGED <<queue, suspended, before, thread, count, seat>>
    BY <1>8 DEF ClearSuspended, threadVars, mainVars
  <2> QED
    BY <1>3, <1>4, <2>1 DEF Dropped, Quiet
<1>9. CASE SetupLibInput \/ ProcessEvents
  <2>1. /\ mutex' # "clearing" \/ mutex' = mutex
        /\ UNCHANGED <<queue, wasSuspended, suspended, before, thread, count,
                       seat>>
    BY <1>9 DEF SetupLibInput, ProcessEvents, threadVars, mainVars
  <2> QED
    BY <1>3, <1>4, <2>1 DEF Dropped
<1>10. CASE World \/ UNCHANGED vars
  <2>1. UNCHANGED <<queue, mutex, wasSuspended, suspended, before, thread,
                    count, seat>>
    BY <1>10 DEF World, SessionActiveChanged, VtInactive, Plug, Unplug, Input,
       vars, threadVars, mainVars
  <2> QED
    BY <1>3, <1>4, <2>1 DEF Dropped
<1> QED
  BY <1>5, <1>6, <1>7, <1>8, <1>9, <1>10 DEF Next, MainThread

-----------------------------------------------------------------------------
(* The seat follows libinput.                                              *)

LEMMA SeatInit == Init => SeatInv
<1> SUFFICES ASSUME Init PROVE SeatInv
  OBVIOUS
<1>1. plugged \in SUBSET Devices /\ known \in SUBSET plugged
      /\ known \in SUBSET Devices
  BY DEF Init
<1>2. PICK order \in SetToSeqs(known) :
         lib = [i \in DOMAIN order |-> added(order[i])]
  BY DEF Init
<1>3. lib \in Seq(Events) /\ queue = <<>>
  BY ChannelInit DEF ChannelType, Init
<1>4. \E T : Story(lib, T) /\ T[0] = {} /\ T[Len(lib)] = known
  <2>1. known \in SUBSET Devices
    BY <1>1
  <2> DEFINE u == [i \in DOMAIN order |-> added(order[i])]
  <2>2. \E T : Story(u, T) /\ T[0] = {} /\ T[Len(u)] = known
    BY ONLY <2>1, order \in SetToSeqs(known), OpenedStory
  <2> QED
    BY <1>2, <2>2
<1>5. PICK T : Story(lib, T) /\ T[0] = {} /\ T[Len(lib)] = known
  BY <1>4
<1>6. \A c : With({}, c) = {} /\ Cardinality({}) = 0
  BY FS_EmptySet DEF With
<1>7. Tracked
  <2>1. queue \o lib = lib
    BY <1>3
  <2>2. Counted(T[0])
    BY <1>5, <1>6 DEF Counted, Init
  <2>3. Announced(lib, T)
    <3>1. 0 \in 0..Len(lib)
      BY <1>3
    <3> QED
      BY <1>5, <1>6, <3>1 DEF Announced
  <2> QED
    BY <1>5, <2>1, <2>2, <2>3 DEF Tracked
<1>8. TypeOK
  <2>1. reads = 0 /\ queue = <<>> /\ posted = <<>>
        /\ count = [c \in Capabilities |-> 0]
    BY DEF Init
  <2>2. /\ connected \in BOOLEAN /\ suspended \in BOOLEAN
        /\ wasSuspended \in BOOLEAN /\ session \in BOOLEAN
        /\ raced \in BOOLEAN /\ readable \in BOOLEAN
    BY DEF Init
  <2>3. /\ {connected, suspended, wasSuspended} \subseteq BOOLEAN
        /\ {readable, session, raced} \subseteq BOOLEAN
    BY <2>2
  <2>4. /\ count \in [Capabilities -> Nat] /\ reads \in 0..1
        /\ queue \in Seq(Events) /\ posted \in Seq(BOOLEAN)
    BY <2>1
  <2>5. /\ before \in SUBSET Capabilities /\ seat \in SUBSET Capabilities
        /\ mutex \in {"free", "events", "clearing"}
        /\ thread \in {"new", "loop", "resumed", "deactivating", "suspended"}
    BY DEF Init
  <2> QED
    BY <1>1, <1>3, <2>3, <2>4, <2>5 DEF TypeOK
<1>9. Waking /\ Quiet /\ Dropped
  BY DEF Init, Waking, Quiet, Dropped
<1> QED
  BY <1>7, <1>8, <1>9 DEF SeatInv

(* The story of the pending events, from the devices that were counted to  *)
(* those that libinput knows, is kept by every step of the two threads and *)
(* of the world, whether or not the set-up races.                          *)
THEOREM SeatInvariant == Spec => []SeatInv
<1>1. Init => SeatInv
  BY SeatInit
<1>2. SeatInv /\ [Next]_vars => SeatInv'
  <2> SUFFICES ASSUME SeatInv, [Next]_vars PROVE SeatInv'
    OBVIOUS
  <2>1. TypeOK /\ Waking /\ Quiet /\ Tracked /\ Dropped
    BY DEF SeatInv
  <2>2. TypeOK' /\ Waking' /\ Quiet' /\ Tracked' /\ Dropped'
    BY <2>1, TypeStep, WakingStep, QuietStep, TrackedStep, DroppedStep
  <2> QED
    BY <2>2 DEF SeatInv
<1> QED
  BY <1>1, <1>2, PTL DEF Spec

(* Every member keeps its type; the counters of keyboards, pointers and    *)
(* touch devices are never decremented below zero by deviceRemoved.        *)
THEOREM TypeCorrect == Spec => []TypeOK
<1>1. SeatInv => TypeOK
  BY DEF SeatInv
<1> QED
  BY <1>1, SeatInvariant, PTL

(* What holds of the seat when nothing is pending.                         *)
LEMMA SettledSeat ==
    ASSUME SeatInv, lib = <<>>, queue = <<>>
    PROVE  \A c \in Capabilities :
              /\ count[c] = Cardinality(With(known, c))
              /\ count[c] > 0 <=> With(known, c) # {}
              /\ c \in seat \/ With(known, c) = {}
<1>1. known \in SUBSET Devices
  BY DEF SeatInv, TypeOK
<1>2. PICK K : /\ Story(queue \o lib, K) /\ K[Len(queue \o lib)] = known
               /\ Counted(K[0]) /\ Announced(queue \o lib, K)
  BY DEF SeatInv, Tracked
<1>3. queue \o lib = <<>> /\ Len(queue \o lib) = 0
  OBVIOUS
<1>4. K[0] = known
  BY <1>2, <1>3
<1> SUFFICES ASSUME NEW c \in Capabilities
             PROVE  /\ count[c] = Cardinality(With(known, c))
                    /\ count[c] > 0 <=> With(known, c) # {}
                    /\ c \in seat \/ With(known, c) = {}
  OBVIOUS
<1>5. count[c] = Cardinality(With(known, c))
  BY <1>2, <1>4 DEF Counted
<1>6. /\ Cardinality(With(known, c)) \in Nat
      /\ Cardinality(With(known, c)) = 0 <=> With(known, c) = {}
  BY <1>1, WithFacts
<1>7. count[c] > 0 <=> With(known, c) # {}
  BY <1>5, <1>6
<1>8. c \in seat \/ With(known, c) = {}
  <2>1. c \in seat \/ \E i \in 0..0 : With(K[i], c) = {}
    BY <1>2, <1>3 DEF Announced
  <2>2. \A i \in 0..0 : i = 0
    OBVIOUS
  <2> QED
    BY <1>4, <2>1, <2>2
<1> QED
  BY <1>5, <1>7, <1>8

LEMMA PresentFacts ==
    ASSUME known \in SUBSET Devices
    PROVE  /\ Present \subseteq Capabilities
           /\ \A c \in Capabilities : c \in Present <=> With(known, c) # {}
<1>1. \A d \in known : Caps[d] \subseteq Capabilities
  BY DevicesAssumption
<1> QED
  BY <1>1 DEF Present, With

(* However plugging, suspending and resuming were interleaved with the     *)
(* processing of their events, once nothing is under way the seat          *)
(* announces every device that libinput has, and m_keyboard, m_pointer and *)
(* m_touch are their numbers.                                              *)
THEOREM SeatIsComplete == Spec => []SeatHasWhatIsThere
<1>1. SeatInv => SeatHasWhatIsThere
  <2> SUFFICES ASSUME SeatInv, Settled
               PROVE  /\ Present \subseteq seat
                      /\ \A c \in Capabilities :
                            count[c] = Cardinality({d \in known : c \in Caps[d]})
    BY DEF SeatHasWhatIsThere
  <2>1. \A c \in Capabilities :
           /\ count[c] = Cardinality(With(known, c))
           /\ c \in seat \/ With(known, c) = {}
    BY SettledSeat DEF Settled
  <2>2. known \in SUBSET Devices
    BY DEF SeatInv, TypeOK
  <2>3. Present \subseteq seat
    BY <2>1, <2>2, PresentFacts
  <2>4. \A c \in Capabilities :
           count[c] = Cardinality({d \in known : c \in Caps[d]})
    BY <2>1 DEF With
  <2> QED
    BY <2>3, <2>4
<1> QED
  BY <1>1, SeatInvariant, PTL

(* And it announces nothing else once the comparison that follows a        *)
(* suspension is made, unless deactivate() ran in the midst of processing. *)
THEOREM SeatIsExact == Spec => []SeatDropsWhatIsGone
<1>1. SeatInv => SeatDropsWhatIsGone
  <2> SUFFICES ASSUME SeatInv, Settled, ~suspended, ~wasSuspended, ~raced
               PROVE  seat \subseteq Present
    BY DEF SeatDropsWhatIsGone
  <2>1. seat \subseteq There
    BY DEF SeatInv, Dropped, Settled
  <2>2. \A c \in Capabilities : count[c] > 0 <=> With(known, c) # {}
    BY SettledSeat DEF Settled
  <2>3. known \in SUBSET Devices
    BY DEF SeatInv, TypeOK
  <2> QED
    BY <2>1, <2>2, <2>3, PresentFacts DEF There
<1> QED
  BY <1>1, SeatInvariant, PTL
=============================================================================
