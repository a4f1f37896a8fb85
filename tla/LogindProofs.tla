---------------------------- MODULE LogindProofs ----------------------------
(***************************************************************************)
(* The safety properties of Logind for every number of restarts, refusals  *)
(* and switches of the session.                                            *)
(*                                                                         *)
(* What KWin knows at rest follows from what is under way before: every    *)
(* part of the inductive invariant says that a fact is known already or    *)
(* that a message which leads to it is in the inbox or in the calls, and   *)
(* that nothing behind it in the inbox undoes it.                          *)
(***************************************************************************)
EXTENDS Logind, FiniteSetTheorems, TLAPS

(* Some member of q is in S; one that no member in T follows; at most one. *)
Has(q, S) == \E i \in DOMAIN q : q[i] \in S

Last(q, S, T) ==
    \E i \in DOMAIN q : q[i] \in S /\ \A j \in DOMAIN q : j > i => q[j] \notin T

AtMostOne(q, S) ==
    \A i, j \in DOMAIN q : q[i] \in S /\ q[j] \in S => i = j

(* The messages for KWin.                                                  *)
Answers == [type: Calls, ok: BOOLEAN, value: BOOLEAN]
Messages == Answers \cup [type: Signals]

Lost == {m \in Messages : m.type = "Unregistered"}
Changed == {m \in Messages : m.type = "PropertiesChanged"}
Found == {m \in Answers : m.type = "GetSessionByPID" /\ m.ok}
Reports == {m \in Answers : m.type = "Active" /\ m.ok}
Report(v) == {m \in Answers : m.type = "Active" /\ m.ok /\ m.value = v}
Numbers == {m \in Answers : m.type = "VTNr" /\ m.ok}
Taken == {m \in Answers : m.type = "TakeControl"}
Granted == {m \in Answers : m.type = "TakeControl" /\ m.ok}
Leads ==
    {m \in Messages : \/ m.type = "Registered"
                      \/ m.type = "ListNames" /\ m.value
                      \/ m.type = "GetSessionByPID" /\ m.ok}

-----------------------------------------------------------------------------
(* The inductive invariant.                                                *)

(* s_recursionCheck is set exactly while a TakeControl is under way.       *)
Single(s) ==
    /\ AtMostOne(s.calls, {"TakeControl"})
    /\ AtMostOne(s.inbox, Taken)
    /\ ~(Has(s.calls, {"TakeControl"}) /\ Has(s.inbox, Taken))
    /\ s.calling <=> Has(s.calls, {"TakeControl"}) \/ Has(s.inbox, Taken)

(* A logind that went away has said so behind everything it had said.      *)
Gone(s) ==
    ~s.up => /\ ~Last(s.inbox, Found, Lost)
             /\ s.connected => Has(s.inbox, Lost)

(* Only a session that logind knows is found.                              *)
Known(s) == s.connected \/ Has(s.inbox, Found) => s.registered

(* A session is found, or looked for.                                      *)
Searched(s) ==
    s.up /\ s.registered =>
        \/ s.connected /\ ~Has(s.inbox, Lost)
        \/ Has(s.calls, {"ListNames", "GetSessionByPID"})
        \/ Last(s.inbox, Leads, Lost)

Linked(s) == s.up /\ s.connected /\ ~Has(s.inbox, Lost)

(* The session's state is known, asked for or to be asked for.             *)
Followed(s) ==
    /\ s.connected => s.watched
    /\ Linked(s) =>
        \/ Has(s.calls, {"Active"})
        \/ Has(s.inbox, Changed)
        \/ Last(s.inbox, Report(s.isActive), Reports)
        \/ ~Has(s.inbox, Reports) /\ s.active = s.isActive

(* So is the number of the terminal, which is set up once it is known.     *)
Numbered(s) ==
    /\ Linked(s) => s.vtnr \/ Has(s.calls, {"VTNr"}) \/ Has(s.inbox, Numbers)
    /\ s.vtnr /\ s.waits => s.tty

(* Until logind is restarted: the backend asks once, and opens the device  *)
(* when it is given control.                                               *)
Steady(s) ==
    s.restarts = 0 =>
        /\ ~Has(s.inbox, Lost)
        /\ s.connected \/ Has(s.inbox, Found) => s.up
        /\ ~s.retry
        /\ ~s.connected => s.openers = 0 /\ ~s.calling /\ ~s.control
        /\ ~s.init => /\ s.openers = 0 /\ ~s.announced
                      /\ ~s.calling /\ ~s.control
        /\ s.openers <= 1
        /\ s.control => ~s.calling /\ s.controlled
        /\ Has(s.inbox, Granted) => s.controlled
        /\ s.controlled => s.control \/ Has(s.inbox, Granted)
        /\ s.opened <= 1
        /\ ~s.control => s.opened = 0

Good(s) ==
    /\ s \in Type
    /\ Single(s) /\ Gone(s) /\ Known(s) /\ Searched(s)
    /\ Followed(s) /\ Numbered(s)

LInv == Good(l) /\ Steady(l)

-----------------------------------------------------------------------------
(* Queues.                                                                 *)

(* What is added to a queue is its last member.                            *)
LEMMA AppendHas ==
    ASSUME NEW X, NEW q \in Seq(X), NEW x \in X, NEW S
    PROVE  /\ Append(q, x) \in Seq(X)
           /\ Has(Append(q, x), S) <=> Has(q, S) \/ x \in S
  <1> DEFINE r == Append(q, x)
             n == Len(q)
  <1>1. /\ n \in Nat /\ DOMAIN q = 1..n /\ DOMAIN r = 1..(n + 1)
        /\ r[n + 1] = x /\ \A i \in 1..n : r[i] = q[i]
    OBVIOUS
  <1>2. r \in Seq(X)
    OBVIOUS
  <1> HIDE DEF r, n
  <1>3. Has(r, S) <=> Has(q, S) \/ x \in S
    <2>1. n + 1 \in DOMAIN r /\ \A i \in DOMAIN r : i \in 1..n \/ i = n + 1
      BY <1>1
    <2>2. \A i \in 1..n : i \in DOMAIN r
      BY <1>1
    <2> QED
      BY <1>1, <2>1, <2>2 DEF Has
  <1> QED
    BY <1>2, <1>3 DEF r

LEMMA AppendLast ==
    ASSUME NEW X, NEW q \in Seq(X), NEW x \in X, NEW S, NEW T
    PROVE  Last(Append(q, x), S, T) <=> x \in S \/ (Last(q, S, T) /\ x \notin T)
  <1> DEFINE r == Append(q, x)
             n == Len(q)
  <1>1. /\ n \in Nat /\ DOMAIN q = 1..n /\ DOMAIN r = 1..(n + 1)
        /\ r[n + 1] = x /\ \A i \in 1..n : r[i] = q[i]
    OBVIOUS
  <1> HIDE DEF r, n
  <1>2. ASSUME Last(r, S, T) PROVE x \in S \/ (Last(q, S, T) /\ x \notin T)
    <2>1. PICK i \in DOMAIN r : r[i] \in S /\ \A j \in DOMAIN r : j > i => r[j] \notin T
      BY <1>2 DEF Last
    <2>2. CASE i = n + 1
      BY <1>1, <2>1, <2>2
    <2>3. CASE i # n + 1
      <3>1. i \in 1..n /\ n + 1 > i /\ n + 1 \in DOMAIN r
        BY <1>1, <2>3
      <3>2. q[i] \in S /\ x \notin T
        BY <1>1, <2>1, <3>1
      <3>3. \A j \in DOMAIN q : j > i => q[j] \notin T
        BY <1>1, <2>1
      <3> QED
        BY <1>1, <3>1, <3>2, <3>3 DEF Last
    <2> QED
      BY <2>2, <2>3
  <1>3. ASSUME x \in S PROVE Last(r, S, T)
    <2>1. n + 1 \in DOMAIN r /\ \A j \in DOMAIN r : ~(j > n + 1)
      BY <1>1
    <2> QED
      BY <1>1, <1>3, <2>1 DEF Last
  <1>4. ASSUME Last(q, S, T), x \notin T PROVE Last(r, S, T)
    <2>1. PICK i \in DOMAIN q : q[i] \in S /\ \A j \in DOMAIN q : j > i => q[j] \notin T
      BY <1>4 DEF Last
    <2>2. i \in DOMAIN r /\ r[i] \in S
      BY <1>1, <2>1
    <2>3. \A j \in DOMAIN r : j > i => r[j] \notin T
      BY <1>1, <1>4, <2>1
    <2> QED
      BY <2>2, <2>3 DEF Last
  <1> QED
    BY <1>2, <1>3, <1>4 DEF r

LEMMA AppendOnce ==
    ASSUME NEW X, NEW q \in Seq(X), NEW x \in X, NEW S, AtMostOne(q, S),
           x \in S => ~Has(q, S)
    PROVE  AtMostOne(Append(q, x), S)
  BY DEF AtMostOne, Has

(* What is taken from it is its head.                                      *)
LEMMA TailFacts ==
    ASSUME NEW X, NEW q \in Seq(X), q # <<>>
    PROVE  /\ Tail(q) \in Seq(X) /\ Head(q) \in X
           /\ Len(q) \in Nat /\ Len(q) >= 1 /\ DOMAIN q = 1..Len(q)
           /\ DOMAIN Tail(q) = 1..(Len(q) - 1) /\ q[1] = Head(q)
           /\ \A i \in 1..(Len(q) - 1) : Tail(q)[i] = q[i + 1]
  OBVIOUS

LEMMA TailHas ==
    ASSUME NEW X, NEW q \in Seq(X), q # <<>>, NEW S
    PROVE  Has(q, S) <=> Head(q) \in S \/ Has(Tail(q), S)
  <1> DEFINE n == Len(q)
             r == Tail(q)
  <1>1. /\ n \in Nat /\ n >= 1 /\ DOMAIN q = 1..n /\ DOMAIN r = 1..(n - 1)
        /\ q[1] = Head(q) /\ \A i \in 1..(n - 1) : r[i] = q[i + 1]
    BY TailFacts
  <1> HIDE DEF n, r
  <1>2. ASSUME Has(q, S) PROVE Head(q) \in S \/ Has(r, S)
    <2>1. PICK i \in DOMAIN q : q[i] \in S
      BY <1>2 DEF Has
    <2>2. CASE i = 1
      BY <1>1, <2>1, <2>2
    <2>3. CASE i # 1
      <3>1. i - 1 \in DOMAIN r /\ r[i - 1] = q[i]
        BY <1>1, <2>1, <2>3
      <3> QED
        BY <2>1, <3>1 DEF Has
    <2> QED
      BY <2>2, <2>3
  <1>3. ASSUME Head(q) \in S PROVE Has(q, S)
    <2>1. 1 \in DOMAIN q
      BY <1>1
    <2> QED
      BY <1>1, <1>3, <2>1 DEF Has
  <1>4. ASSUME Has(r, S) PROVE Has(q, S)
    <2>1. PICK i \in DOMAIN r : r[i] \in S
      BY <1>4 DEF Has
    <2>2. i + 1 \in DOMAIN q /\ q[i + 1] \in S
      BY <1>1, <2>1
    <2> QED
      BY <2>2 DEF Has
  <1> QED
    BY <1>2, <1>3, <1>4 DEF r

LEMMA TailLast ==
    ASSUME NEW X, NEW q \in Seq(X), q # <<>>, NEW S, NEW T
    PROVE  Last(q, S, T) <=> \/ Last(Tail(q), S, T)
                             \/ Head(q) \in S /\ ~Has(Tail(q), T)
  <1> DEFINE n == Len(q)
             r == Tail(q)
  <1>1. /\ n \in Nat /\ n >= 1 /\ DOMAIN q = 1..n /\ DOMAIN r = 1..(n - 1)
        /\ q[1] = Head(q) /\ \A i \in 1..(n - 1) : r[i] = q[i + 1]
    BY TailFacts
  <1> HIDE DEF n, r
  <1>2. ASSUME Last(q, S, T)
        PROVE  Last(r, S, T) \/ (Head(q) \in S /\ ~Has(r, T))
    <2>1. PICK i \in DOMAIN q : q[i] \in S /\ \A j \in DOMAIN q : j > i => q[j] \notin T
      BY <1>2 DEF Last
    <2>2. CASE i = 1
      <3>1. \A j \in DOMAIN r : j + 1 \in DOMAIN q /\ j + 1 > 1 /\ r[j] = q[j + 1]
        BY <1>1
      <3>2. ~Has(r, T)
        BY <2>1, <2>2, <3>1 DEF Has
      <3> QED
        BY <1>1, <2>1, <2>2, <3>2
    <2>3. CASE i # 1
      <3>1. i - 1 \in DOMAIN r /\ r[i - 1] = q[i]
        BY <1>1, <2>1, <2>3
      <3>2. \A j \in DOMAIN r : j > i - 1 => j + 1 \in DOMAIN q /\ j + 1 > i /\ r[j] = q[j + 1]
        BY <1>1, <2>1
      <3>3. \A j \in DOMAIN r : j > i - 1 => r[j] \notin T
        BY <2>1, <3>2
      <3> QED
        BY <2>1, <3>1, <3>3 DEF Last
    <2> QED
      BY <2>2, <2>3
  <1>3. ASSUME Head(q) \in S, ~Has(r, T) PROVE Last(q, S, T)
    <2>1. 1 \in DOMAIN q /\ q[1] \in S
      BY <1>1, <1>3
    <2>2. \A j \in DOMAIN q : j > 1 => j - 1 \in DOMAIN r /\ q[j] = r[j - 1]
      BY <1>1
    <2>3. \A j \in DOMAIN q : j > 1 => q[j] \notin T
      BY <1>3, <2>2 DEF Has
    <2> QED
      BY <2>1, <2>3 DEF Last
  <1>4. ASSUME Last(r, S, T) PROVE Last(q, S, T)
    <2>1. PICK i \in DOMAIN r : r[i] \in S /\ \A j \in DOMAIN r : j > i => r[j] \notin T
      BY <1>4 DEF Last
    <2>2. i + 1 \in DOMAIN q /\ q[i + 1] \in S
      BY <1>1, <2>1
    <2>3. \A j \in DOMAIN q : j > i + 1 => j - 1 \in DOMAIN r /\ j - 1 > i /\ q[j] = r[j - 1]
      BY <1>1, <2>1
    <2>4. \A j \in DOMAIN q : j > i + 1 => q[j] \notin T
      BY <2>1, <2>3
    <2> QED
      BY <2>2, <2>4 DEF Last
  <1> QED
    BY <1>2, <1>3, <1>4 DEF r

LEMMA TailOnce ==
    ASSUME NEW X, NEW q \in Seq(X), q # <<>>, NEW S, AtMostOne(q, S)
    PROVE  /\ AtMostOne(Tail(q), S)
           /\ Head(q) \in S => ~Has(Tail(q), S)
  <1> DEFINE n == Len(q)
             r == Tail(q)
  <1>1. /\ n \in Nat /\ n >= 1 /\ DOMAIN q = 1..n /\ DOMAIN r = 1..(n - 1)
        /\ q[1] = Head(q) /\ \A i \in 1..(n - 1) : r[i] = q[i + 1]
    BY TailFacts
  <1> HIDE DEF n, r
  <1>2. \A i \in DOMAIN r : i + 1 \in DOMAIN q /\ i + 1 # 1 /\ r[i] = q[i + 1]
    BY <1>1
  <1>3. AtMostOne(r, S)
    <2> SUFFICES ASSUME NEW i \in DOMAIN r, NEW j \in DOMAIN r, r[i] \in S, r[j] \in S
                 PROVE  i = j
      BY DEF AtMostOne
    <2>1. i + 1 = j + 1
      BY <1>2 DEF AtMostOne
    <2> QED
      BY <1>1, <2>1
  <1>4. Head(q) \in S => ~Has(r, S)
    <2>1. 1 \in DOMAIN q
      BY <1>1
    <2> QED
      BY <1>1, <1>2, <2>1 DEF AtMostOne, Has
  <1> QED
    BY <1>3, <1>4 DEF r

-----------------------------------------------------------------------------
(* LogindIntegration and its users.                                        *)

(* The members that asking for control does not change.                    *)
Kept(s, t) ==
    /\ t.init = s.init /\ t.connected = s.connected /\ t.control = s.control
    /\ t.active = s.active /\ t.vtnr = s.vtnr /\ t.watched = s.watched
    /\ t.announced = s.announced /\ t.inbox = s.inbox /\ t.up = s.up
    /\ t.registered = s.registered /\ t.isActive = s.isActive
    /\ t.controlled = s.controlled /\ t.restarts = s.restarts

(* All a member function may do: ask for control, once, and set up the     *)
(* terminal when its number is known.                                      *)
Asks(s, t) ==
    /\ t \in Type /\ Kept(s, t)
    /\ \/ t.calls = s.calls /\ t.calling = s.calling
       \/ /\ ~s.calling /\ t.calling /\ s.connected /\ ~s.control
          /\ t.calls = Append(s.calls, "TakeControl")
    /\ (s.vtnr /\ s.waits => s.tty) => (t.vtnr /\ t.waits => t.tty)

LEMMA AsksAgain ==
    ASSUME NEW s, NEW t, NEW u, Asks(s, t), Asks(t, u)
    PROVE  Asks(s, u)
  <1>1. Kept(s, u)
    BY DEF Asks, Kept
  <1>2. \/ u.calls = s.calls /\ u.calling = s.calling
        \/ /\ ~s.calling /\ u.calling /\ s.connected /\ ~s.control
           /\ u.calls = Append(s.calls, "TakeControl")
    BY DEF Asks, Kept
  <1> QED
    BY <1>1, <1>2 DEF Asks

(* call() queues a message.                                                *)
LEMMA CallFields ==
    ASSUME NEW s \in Type, NEW c \in Calls
    PROVE  /\ call(s, c) \in Type /\ Kept(s, call(s, c))
           /\ call(s, c).calls = Append(s.calls, c)
           /\ call(s, c).calling = s.calling /\ call(s, c).retry = s.retry
           /\ call(s, c).openers = s.openers /\ call(s, c).opened = s.opened
           /\ call(s, c).tty = s.tty /\ call(s, c).waits = s.waits
  <1> DEFINE q == Append(s.calls, c)
             t == call(s, c)
  <1>1. q \in Seq(Calls)
    BY AppendHas DEF Type
  <1>2. t = [s EXCEPT !.calls = q]
    BY DEF call
  <1> HIDE DEF q
  <1>3. t \in Type /\ t.calls = q
    BY <1>1, <1>2 DEF Type
  <1>4. Kept(s, t)
    BY <1>2 DEF Type, Kept
  <1>5. /\ t.calling = s.calling /\ t.retry = s.retry /\ t.openers = s.openers
        /\ t.opened = s.opened /\ t.tty = s.tty /\ t.waits = s.waits
    BY <1>2 DEF Type
  <1> HIDE DEF t
  <1> QED
    BY <1>3, <1>4, <1>5 DEF t, q

LEMMA TakeControlAsks ==
    ASSUME NEW s \in Type
    PROVE  /\ Asks(s, takeControl(s))
           /\ takeControl(s).retry = s.retry
           /\ takeControl(s).openers = s.openers
           /\ takeControl(s).opened = s.opened
  <1>1. CASE ~s.connected \/ s.control \/ s.calling
    BY <1>1 DEF takeControl, Asks, Kept
  <1>2. CASE ~(~s.connected \/ s.control \/ s.calling)
    <2> DEFINE u == [s EXCEPT !.calling = TRUE]
               t == call(u, "TakeControl")
    <2>1. takeControl(s) = t
      BY <1>2 DEF takeControl
    <2>2. u \in Type /\ u.calls = s.calls /\ u.openers = s.openers
          /\ u.opened = s.opened
      BY DEF Type
    <2>3. u.calling /\ u.retry = s.retry /\ u.tty = s.tty /\ u.waits = s.waits
      BY DEF Type
    <2>4. Kept(s, u)
      BY DEF Type, Kept
    <2> HIDE DEF u
    <2>5. /\ t \in Type /\ Kept(u, t)
          /\ t.calls = Append(u.calls, "TakeControl")
          /\ t.calling = u.calling /\ t.retry = u.retry
          /\ t.openers = u.openers /\ t.opened = u.opened
          /\ t.tty = u.tty /\ t.waits = u.waits
      BY <2>2, CallFields DEF Calls
    <2> HIDE DEF t
    <2>6. Kept(s, t)
      BY <2>4, <2>5 DEF Kept
    <2>7. Asks(s, t)
      BY <1>2, <2>2, <2>3, <2>5, <2>6 DEF Asks, Kept
    <2> QED
      BY <2>1, <2>2, <2>3, <2>5, <2>7
  <1> QED
    BY <1>1, <1>2

(* VirtualTerminal::init().                                                *)
LEMMA VtInitAsks ==
    ASSUME NEW s \in Type
    PROVE  /\ Asks(s, vtInit(s))
           /\ s.connected => vtInit(s).retry = s.retry
           /\ vtInit(s).openers = s.openers
           /\ vtInit(s).opened = s.opened
  <1> DEFINE y == s.tty \/ s.vtnr
             up == [s EXCEPT !.tty = y, !.waits = TRUE]
  <1>1. vtInit(s) = IF s.connected THEN takeControl(up)
                    ELSE [up EXCEPT !.retry = TRUE]
    BY DEF vtInit
  <1>2. y \in BOOLEAN /\ (s.vtnr => y)
    BY DEF Type
  <1> HIDE DEF y
  <1>3. /\ up \in Type /\ up.calls = s.calls /\ up.openers = s.openers
        /\ up.opened = s.opened
    BY <1>2 DEF Type
  <1>4. up.calling = s.calling /\ up.retry = s.retry
    BY DEF Type
  <1>5. up.tty = y
    BY <1>2 DEF Type
  <1>6. Kept(s, up)
    BY DEF Type, Kept
  <1> HIDE DEF up
  <1>7. Asks(s, up)
    BY <1>2, <1>3, <1>4, <1>5, <1>6 DEF Asks, Kept
  <1>8. CASE s.connected
    <2>1. vtInit(s) = takeControl(up)
      BY <1>1, <1>8
    <2>2. /\ Asks(up, takeControl(up)) /\ takeControl(up).retry = up.retry
          /\ takeControl(up).openers = up.openers
          /\ takeControl(up).opened = up.opened
      BY <1>3, TakeControlAsks
    <2>3. Asks(s, takeControl(up))
      BY <1>7, <2>2, AsksAgain
    <2> QED
      BY <1>3, <1>4, <2>1, <2>2, <2>3
  <1>9. CASE ~s.connected
    <2> DEFINE t == [up EXCEPT !.retry = TRUE]
    <2>1. vtInit(s) = t
      BY <1>1, <1>9
    <2>2. /\ t \in Type /\ t.calls = up.calls /\ t.openers = up.openers
          /\ t.opened = up.opened
      BY <1>3 DEF Type
    <2>3. t.calling = up.calling /\ t.tty = up.tty /\ t.waits = up.waits
      BY <1>3 DEF Type
    <2>4. Kept(up, t)
      BY <1>3 DEF Type, Kept
    <2> HIDE DEF t
    <2>5. Asks(up, t)
      BY <2>2, <2>3, <2>4 DEF Asks, Kept
    <2>6. Asks(s, t)
      BY <1>7, <2>5, AsksAgain
    <2> QED
      BY <1>3, <1>9, <2>1, <2>2, <2>6
  <1> QED
    BY <1>8, <1>9

(* The device is opened, and nothing else changes.                         *)
LEMMA OpenedAsks ==
    ASSUME NEW s \in Type, NEW n \in Nat
    PROVE  LET t == [s EXCEPT !.opened = n]
           IN  /\ Asks(s, t) /\ t.retry = s.retry /\ t.openers = s.openers
               /\ t.opened = n
  <1> DEFINE t == [s EXCEPT !.opened = n]
  <1>1. t \in Type /\ t.calls = s.calls /\ t.opened = n /\ t.openers = s.openers
    BY DEF Type
  <1>2. t.calling = s.calling /\ t.tty = s.tty /\ t.waits = s.waits
        /\ t.retry = s.retry
    BY DEF Type
  <1>3. Kept(s, t)
    BY DEF Type, Kept
  <1> HIDE DEF t
  <1>4. Asks(s, t)
    BY <1>1, <1>2, <1>3 DEF Asks, Kept
  <1> QED
    BY <1>1, <1>2, <1>4 DEF t

(* openDrm() opens the device if KWin controls the session.                *)
LEMMA OpenDrmAsks ==
    ASSUME NEW s \in Type
    PROVE  /\ Asks(s, openDrm(s))
           /\ s.connected => openDrm(s).retry = s.retry
           /\ openDrm(s).openers = s.openers
           /\ openDrm(s).opened
                = IF s.up /\ s.controlled THEN s.opened + 1 ELSE s.opened
  <1> DEFINE u == vtInit(s)
             n == u.opened + 1
  <1>1. /\ Asks(s, u) /\ (s.connected => u.retry = s.retry)
        /\ u.openers = s.openers /\ u.opened = s.opened
    BY VtInitAsks
  <1>2. openDrm(s) = IF s.up /\ s.controlled THEN [u EXCEPT !.opened = n] ELSE u
    BY DEF openDrm
  <1> HIDE DEF u
  <1>3. u \in Type /\ n \in Nat
    BY <1>1 DEF Asks, Type
  <1> HIDE DEF n
  <1>4. LET t == [u EXCEPT !.opened = n]
        IN  /\ Asks(u, t) /\ t.retry = u.retry /\ t.openers = u.openers
            /\ t.opened = n
    BY <1>3, OpenedAsks
  <1>5. Asks(s, [u EXCEPT !.opened = n])
    BY <1>1, <1>4, AsksAgain
  <1> QED
    BY <1>1, <1>2, <1>4, <1>5 DEF n

(* hasSessionControlChanged.                                               *)
LEMMA ControlChangedAsks ==
    ASSUME NEW s \in Type
    PROVE  LET t == sessionControlChanged(s)
           IN  /\ Asks(s, t) /\ (s.connected => t.retry = s.retry)
               /\ t.openers = s.openers
               /\ t.opened = IF s.up /\ s.controlled THEN s.opened + s.openers
                             ELSE s.opened
  <1> DEFINE t == sessionControlChanged(s)
             opens == IF s.up /\ s.controlled THEN s.openers ELSE 0
             u == vtInit(s)
             n == u.opened + opens
  <1>0. s.openers \in Nat /\ s.opened \in Nat
    BY DEF Type
  <1>1. t = IF s.openers = 0 THEN s ELSE [u EXCEPT !.opened = n]
    BY DEF sessionControlChanged
  <1>2. /\ Asks(s, u) /\ (s.connected => u.retry = s.retry)
        /\ u.openers = s.openers /\ u.opened = s.opened
    BY VtInitAsks
  <1>3. CASE s.openers = 0
    <2>1. t = s
      BY <1>1, <1>3
    <2>2. Asks(s, s)
      BY DEF Asks, Kept
    <2>3. s.opened = IF s.up /\ s.controlled THEN s.opened + s.openers
                     ELSE s.opened
      BY <1>0, <1>3
    <2> HIDE DEF t
    <2> QED
      BY <2>1, <2>2, <2>3 DEF t
  <1>4. CASE s.openers # 0
    <2>1. t = [u EXCEPT !.opened = n]
      BY <1>1, <1>4
    <2>2. n \in Nat /\ n = IF s.up /\ s.controlled THEN s.opened + s.openers
                           ELSE s.opened
      BY <1>0, <1>2
    <2>3. u \in Type
      BY <1>2 DEF Asks
    <2> HIDE DEF t, u, n
    <2>4. /\ Asks(u, t) /\ t.retry = u.retry /\ t.openers = u.openers
          /\ t.opened = n
      BY <2>1, <2>2, <2>3, OpenedAsks
    <2>5. Asks(s, t)
      BY <1>2, <2>4, AsksAgain
    <2> QED
      BY <1>2, <2>2, <2>4, <2>5 DEF t
  <1> QED
    BY <1>3, <1>4

(* The lambda of DrmBackend::init().                                       *)
LEMMA BackendAsks ==
    ASSUME NEW s \in Type
    PROVE  LET t == backendTakeControl(s)
           IN  /\ Asks(s, t) /\ (s.connected => t.retry = s.retry)
               /\ ~s.control => /\ t.openers = s.openers + 1
                                /\ t.opened = s.opened
  <1> DEFINE t == backendTakeControl(s)
             u == takeControl(s)
             n == u.openers + 1
  <1>1. t = IF s.control THEN openDrm(s) ELSE [u EXCEPT !.openers = n]
    BY DEF backendTakeControl
  <1>2. CASE s.control
    <2>1. Asks(s, openDrm(s)) /\ (s.connected => openDrm(s).retry = s.retry)
      BY OpenDrmAsks
    <2>2. t = openDrm(s)
      BY <1>1, <1>2
    <2> HIDE DEF t
    <2> QED
      BY <1>2, <2>1, <2>2 DEF t
  <1>3. CASE ~s.control
    <2>1. /\ Asks(s, u) /\ u.retry = s.retry /\ u.openers = s.openers
          /\ u.opened = s.opened
      BY TakeControlAsks
    <2>2. t = [u EXCEPT !.openers = n]
      BY <1>1, <1>3
    <2> HIDE DEF u
    <2>3. u \in Type /\ n \in Nat
      BY <2>1 DEF Asks, Type
    <2>4. n = s.openers + 1
      BY <2>1
    <2> HIDE DEF t, n
    <2>5. /\ t \in Type /\ t.calls = u.calls /\ t.openers = n
          /\ t.opened = u.opened
      BY <2>2, <2>3 DEF Type
    <2>6. t.calling = u.calling /\ t.tty = u.tty /\ t.waits = u.waits
          /\ t.retry = u.retry
      BY <2>2, <2>3 DEF Type
    <2>7. Kept(u, t)
      BY <2>2, <2>3 DEF Type, Kept
    <2>8. Asks(u, t)
      BY <2>5, <2>6, <2>7 DEF Asks, Kept
    <2>9. Asks(s, t)
      BY <2>1, <2>8, AsksAgain
    <2> QED
      BY <2>1, <2>4, <2>5, <2>6, <2>9 DEF t
  <1> QED
    BY <1>2, <1>3

(* connectedChanged.                                                       *)
LEMMA ConnectedChangedAsks ==
    ASSUME NEW s \in Type
    PROVE  LET t == connectedChanged(s)
           IN  /\ Asks(s, t) /\ (s.connected => t.retry = s.retry)
               /\ ~s.announced /\ ~s.retry => t = s
               /\ ~s.control =>
                    /\ t.openers = IF s.announced THEN s.openers + 1
                                   ELSE s.openers
                    /\ t.opened = s.opened
  <1> DEFINE t == connectedChanged(s)
             drm == IF s.announced THEN backendTakeControl(s) ELSE s
  <1>1. t = IF s.retry THEN takeControl(drm) ELSE drm
    BY DEF connectedChanged
  <1>2. /\ Asks(s, drm) /\ (s.connected => drm.retry = s.retry)
        /\ ~s.announced => drm = s
        /\ ~s.control =>
             /\ drm.openers = IF s.announced THEN s.openers + 1 ELSE s.openers
             /\ drm.opened = s.opened
    <2>1. CASE s.announced
      BY <2>1, BackendAsks
    <2>2. CASE ~s.announced
      <3>1. drm = s
        BY <2>2
      <3>2. Asks(s, s)
        BY DEF Asks, Kept
      <3> HIDE DEF drm
      <3> QED
        BY <2>2, <3>1, <3>2
    <2> QED
      BY <2>1, <2>2
  <1> HIDE DEF t, drm
  <1>3. CASE s.retry
    <2>1. drm \in Type
      BY <1>2 DEF Asks
    <2>2. /\ Asks(drm, t) /\ t.retry = drm.retry /\ t.openers = drm.openers
          /\ t.opened = drm.opened
      BY <1>1, <1>3, <2>1, TakeControlAsks
    <2>3. Asks(s, t)
      BY <1>2, <2>2, AsksAgain
    <2> QED
      BY <1>2, <1>3, <2>2, <2>3 DEF t
  <1>4. CASE ~s.retry
    <2>1. t = drm
      BY <1>1, <1>4
    <2> QED
      BY <1>2, <2>1 DEF t
  <1> QED
    BY <1>3, <1>4

-----------------------------------------------------------------------------
(* Asking for control keeps the invariant.                                 *)

LEMMA AsksGood ==
    ASSUME NEW s, Good(s), NEW t, Asks(s, t)
    PROVE  Good(t)
  <1>1. s \in Type /\ t \in Type /\ Kept(s, t)
    BY DEF Good, Asks
  <1>2. s.calls \in Seq(Calls)
    BY <1>1 DEF Type
  <1>3. /\ AtMostOne(t.calls, {"TakeControl"})
        /\ t.calling <=> Has(t.calls, {"TakeControl"}) \/ Has(t.inbox, Taken)
        /\ ~(Has(t.calls, {"TakeControl"}) /\ Has(t.inbox, Taken))
    <2>1. CASE t.calls = s.calls /\ t.calling = s.calling
      BY <1>1, <2>1 DEF Good, Single, Kept
    <2>2. CASE /\ ~s.calling /\ t.calling
               /\ t.calls = Append(s.calls, "TakeControl")
      <3>1. ~Has(s.calls, {"TakeControl"}) /\ ~Has(s.inbox, Taken)
            /\ AtMostOne(s.calls, {"TakeControl"})
        BY <2>2 DEF Good, Single
      <3>2. Has(t.calls, {"TakeControl"})
        BY <1>2, <2>2, AppendHas DEF Calls
      <3>3. AtMostOne(t.calls, {"TakeControl"})
        BY <1>2, <2>2, <3>1, AppendOnce DEF Calls
      <3> QED
        BY <1>1, <2>2, <3>1, <3>2, <3>3 DEF Kept
    <2> QED
      BY <2>1, <2>2 DEF Asks
  <1>4. Single(t)
    BY <1>1, <1>3 DEF Good, Single, Kept
  <1>5. \A S : "TakeControl" \notin S => (Has(t.calls, S) <=> Has(s.calls, S))
    <2> SUFFICES ASSUME NEW S, "TakeControl" \notin S
                 PROVE  Has(t.calls, S) <=> Has(s.calls, S)
      OBVIOUS
    <2>1. CASE t.calls = s.calls
      BY <2>1
    <2>2. CASE t.calls = Append(s.calls, "TakeControl")
      BY <1>2, <2>2, AppendHas DEF Calls
    <2> QED
      BY <2>1, <2>2 DEF Asks
  <1>6. /\ Has(t.calls, {"ListNames", "GetSessionByPID"})
             <=> Has(s.calls, {"ListNames", "GetSessionByPID"})
        /\ Has(t.calls, {"Active"}) <=> Has(s.calls, {"Active"})
        /\ Has(t.calls, {"VTNr"}) <=> Has(s.calls, {"VTNr"})
    <2>1. /\ "TakeControl" \notin {"ListNames", "GetSessionByPID"}
          /\ "TakeControl" \notin {"Active"} /\ "TakeControl" \notin {"VTNr"}
      OBVIOUS
    <2> QED
      BY <1>5, <2>1
  <1>7. Gone(t) /\ Known(t)
    BY <1>1 DEF Good, Gone, Known, Kept
  <1>8. Searched(t)
    BY <1>1, <1>6 DEF Good, Searched, Kept
  <1>9. Followed(t)
    BY <1>1, <1>6 DEF Good, Followed, Linked, Kept
  <1>10. Numbered(t)
    BY <1>1, <1>6 DEF Good, Numbered, Linked, Kept, Asks
  <1> QED
    BY <1>1, <1>4, <1>7, <1>8, <1>9, <1>10 DEF Good

LEMMA AsksSteady ==
    ASSUME NEW s, Steady(s), NEW t, Asks(s, t),
           s.restarts = 0 =>
               /\ ~t.retry
               /\ t.openers <= 1 /\ t.opened <= 1
               /\ t.openers = 0 \/ (s.connected /\ s.init)
               /\ s.init \/ t.calling = s.calling
               /\ ~s.control => t.opened = 0
    PROVE  Steady(t)
  <1>1. Kept(s, t)
    BY DEF Asks
  <1>2. t.restarts = 0 =>
          /\ ~t.connected => ~t.calling
          /\ ~t.init => ~t.calling
          /\ t.control => ~t.calling
    BY <1>1 DEF Asks, Kept, Steady
  <1> QED
    BY <1>1, <1>2 DEF Kept, Steady

-----------------------------------------------------------------------------
(* Messages that are handled.                                              *)

(* A message's type and values say what it stands for.                     *)
LEMMA Kinds ==
    ASSUME NEW m \in Messages
    PROVE  /\ m \in Lost <=> m.type = "Unregistered"
           /\ m \in Changed <=> m.type = "PropertiesChanged"
           /\ m \in Found <=> m.type = "GetSessionByPID" /\ m.ok
           /\ m \in Reports <=> m.type = "Active" /\ m.ok
           /\ \A v : m \in Report(v) <=> m.type = "Active" /\ m.ok /\ m.value = v
           /\ m \in Numbers <=> m.type = "VTNr" /\ m.ok
           /\ m \in Taken <=> m.type = "TakeControl"
           /\ m \in Granted <=> m.type = "TakeControl" /\ m.ok
           /\ m \in Leads <=> \/ m.type = "Registered"
                              \/ m.type = "ListNames" /\ m.value
                              \/ m.type = "GetSessionByPID" /\ m.ok
           /\ m.type \in Calls \cup Signals
           /\ m.type \in Calls => m.ok \in BOOLEAN /\ m.value \in BOOLEAN
  <1>1. /\ m.type \in Calls => m \in Answers
        /\ m.type \in Calls \cup Signals
        /\ m \in Answers => m.ok \in BOOLEAN /\ m.value \in BOOLEAN
    BY DEF Messages, Answers, Calls, Signals
  <1>2. m.type = "GetSessionByPID" \/ m.type = "Active" \/ m.type = "VTNr"
          \/ m.type = "TakeControl" => m \in Answers
    BY <1>1 DEF Calls
  <1> QED
    BY <1>1, <1>2
       DEF Lost, Changed, Found, Reports, Report, Numbers, Taken, Granted, Leads

(* The inbox before and after its head is taken.                           *)
LEMMA InboxFacts ==
    ASSUME NEW s \in Type, s.inbox # <<>>
    PROVE  LET m == Head(s.inbox)
               r == Tail(s.inbox)
           IN  /\ m \in Messages /\ r \in Seq(Messages)
               /\ \A S : Has(s.inbox, S) <=> m \in S \/ Has(r, S)
               /\ \A S, T : Last(s.inbox, S, T) <=>
                               Last(r, S, T) \/ (m \in S /\ ~Has(r, T))
               /\ \A S : AtMostOne(s.inbox, S) =>
                            AtMostOne(r, S) /\ (m \in S => ~Has(r, S))
  <1>1. s.inbox \in Seq(Messages)
    BY DEF Type, Messages, Answers
  <1>2. Head(s.inbox) \in Messages /\ Tail(s.inbox) \in Seq(Messages)
    BY <1>1, TailFacts
  <1>3. \A S : Has(s.inbox, S) <=> Head(s.inbox) \in S \/ Has(Tail(s.inbox), S)
    BY <1>1, TailHas
  <1>4. \A S, T : Last(s.inbox, S, T) <=>
                    \/ Last(Tail(s.inbox), S, T)
                    \/ Head(s.inbox) \in S /\ ~Has(Tail(s.inbox), T)
    BY <1>1, TailLast
  <1>5. \A S : AtMostOne(s.inbox, S) =>
                 /\ AtMostOne(Tail(s.inbox), S)
                 /\ Head(s.inbox) \in S => ~Has(Tail(s.inbox), S)
    BY <1>1, TailOnce
  <1> QED
    BY <1>2, <1>3, <1>4, <1>5

(* What no message changes, and the groups of members that most do not.    *)
Env(s, t) ==
    /\ t.up = s.up /\ t.registered = s.registered /\ t.isActive = s.isActive
    /\ t.controlled = s.controlled /\ t.restarts = s.restarts
    /\ t.init = s.init /\ t.announced = s.announced
SameSetup(s, t) ==
    /\ t.control = s.control /\ t.calling = s.calling /\ t.retry = s.retry
    /\ t.openers = s.openers /\ t.opened = s.opened
SameLink(s, t) == t.connected = s.connected /\ t.watched = s.watched
SameNumber(s, t) == t.vtnr = s.vtnr /\ t.tty = s.tty /\ t.waits = s.waits

Pops(s, t) ==
    /\ t \in Type /\ s.inbox # <<>> /\ t.inbox = Tail(s.inbox) /\ Env(s, t)

(* A message that says nothing: an error, or a name that is not there.     *)
LEMMA NothingHandled ==
    ASSUME NEW s, Good(s), Steady(s), NEW t, Pops(s, t), SameSetup(s, t),
           SameLink(s, t), SameNumber(s, t), t.active = s.active,
           t.calls = s.calls,
           Head(s.inbox) \notin Lost, Head(s.inbox) \notin Reports,
           Head(s.inbox) \notin Numbers, Head(s.inbox) \notin Taken,
           Head(s.inbox) \notin Leads \/ s.connected,
           Head(s.inbox) \notin Found \/ s.connected,
           Head(s.inbox) \notin Changed \/ ~s.connected,
           Head(s.inbox) \notin Granted
    PROVE  Good(t) /\ Steady(t)
  <1> DEFINE m == Head(s.inbox)
             r == Tail(s.inbox)
  <1>1. s \in Type /\ s.inbox # <<>> /\ t \in Type /\ t.inbox = r /\ Env(s, t)
    BY DEF Good, Pops
  <1>2. /\ m \in Messages
        /\ \A S : Has(s.inbox, S) <=> m \in S \/ Has(r, S)
        /\ \A S, T : Last(s.inbox, S, T) <=>
                        Last(r, S, T) \/ (m \in S /\ ~Has(r, T))
        /\ \A S : AtMostOne(s.inbox, S) =>
                     AtMostOne(r, S) /\ (m \in S => ~Has(r, S))
    BY <1>1, InboxFacts
  <1>3. m \notin Report(s.isActive)
    BY <1>2, Kinds
  <1> HIDE DEF m, r
  <1>a. /\ m \notin Lost /\ m \notin Reports /\ m \notin Numbers
        /\ m \notin Taken /\ m \notin Granted
        /\ m \notin Leads \/ s.connected
        /\ m \notin Found \/ s.connected
        /\ m \notin Changed \/ ~s.connected
    BY DEF m
  <1>4. Single(t)
    BY <1>1, <1>2, <1>a DEF Good, Single, SameSetup
  <1>5. Gone(t) /\ Known(t)
    BY <1>1, <1>2, <1>a DEF Good, Gone, Known, Env, SameLink
  <1>6. Searched(t)
    BY <1>1, <1>2, <1>a DEF Good, Searched, Env, SameLink
  <1>7. Followed(t)
    BY <1>1, <1>2, <1>3, <1>a DEF Good, Followed, Linked, Env, SameLink
  <1>8. Numbered(t)
    BY <1>1, <1>2, <1>a DEF Good, Numbered, Linked, Env, SameLink, SameNumber
  <1>9. Steady(t)
    BY <1>1, <1>2, <1>a DEF Steady, Env, SameLink, SameSetup
  <1> QED
    BY <1>1, <1>4, <1>5, <1>6, <1>7, <1>8, <1>9 DEF Good

(* The two members that are asked for together.                            *)
LEMMA TwoCalls ==
    ASSUME NEW q \in Seq(Calls)
    PROVE  LET r == Append(Append(q, "Active"), "VTNr")
           IN  /\ r \in Seq(Calls) /\ Has(r, {"Active"}) /\ Has(r, {"VTNr"})
               /\ Has(r, {"TakeControl"}) <=> Has(q, {"TakeControl"})
               /\ AtMostOne(q, {"TakeControl"}) => AtMostOne(r, {"TakeControl"})
               /\ Has(r, {"ListNames", "GetSessionByPID"})
                    <=> Has(q, {"ListNames", "GetSessionByPID"})
  <1> DEFINE u == Append(q, "Active")
             r == Append(u, "VTNr")
  <1>1. "Active" \in Calls /\ "VTNr" \in Calls
    BY DEF Calls
  <1>2. u \in Seq(Calls) /\ \A S : Has(u, S) <=> Has(q, S) \/ "Active" \in S
    BY <1>1, AppendHas
  <1>3. AtMostOne(q, {"TakeControl"}) => AtMostOne(u, {"TakeControl"})
    BY <1>1, AppendOnce
  <1> HIDE DEF u
  <1>4. r \in Seq(Calls) /\ \A S : Has(r, S) <=> Has(u, S) \/ "VTNr" \in S
    BY <1>1, <1>2, AppendHas
  <1>5. AtMostOne(u, {"TakeControl"}) => AtMostOne(r, {"TakeControl"})
    BY <1>1, <1>2, AppendOnce
  <1> HIDE DEF r
  <1>6. Has(r, {"Active"}) /\ Has(r, {"VTNr"})
    BY <1>2, <1>4
  <1>7. Has(r, {"TakeControl"}) <=> Has(q, {"TakeControl"})
    BY <1>2, <1>4
  <1>8. Has(r, {"ListNames", "GetSessionByPID"})
          <=> Has(q, {"ListNames", "GetSessionByPID"})
    BY <1>2, <1>4
  <1> QED
    BY <1>3, <1>4, <1>5, <1>6, <1>7, <1>8 DEF r, u

(* PropertiesChanged, while the session is known.                          *)
LEMMA ChangeHandled ==
    ASSUME NEW s, Good(s), Steady(s), NEW t, Pops(s, t), SameSetup(s, t),
           SameLink(s, t), SameNumber(s, t), t.active = s.active,
           t.calls = Append(Append(s.calls, "Active"), "VTNr"),
           Head(s.inbox).type = "PropertiesChanged"
    PROVE  Good(t) /\ Steady(t)
  <1> DEFINE m == Head(s.inbox)
             r == Tail(s.inbox)
  <1>1. s \in Type /\ s.inbox # <<>> /\ t \in Type /\ t.inbox = r /\ Env(s, t)
    BY DEF Good, Pops
  <1>2. /\ m \in Messages
        /\ \A S : Has(s.inbox, S) <=> m \in S \/ Has(r, S)
        /\ \A S, T : Last(s.inbox, S, T) <=>
                        Last(r, S, T) \/ (m \in S /\ ~Has(r, T))
        /\ \A S : AtMostOne(s.inbox, S) =>
                     AtMostOne(r, S) /\ (m \in S => ~Has(r, S))
    BY <1>1, InboxFacts
  <1>3. /\ m \notin Lost /\ m \notin Taken /\ m \notin Granted
        /\ m \notin Leads /\ m \notin Found
    BY <1>2, Kinds
  <1> HIDE DEF m, r
  <1>4. s.calls \in Seq(Calls)
    BY <1>1 DEF Type
  <1>5. /\ Has(t.calls, {"Active"}) /\ Has(t.calls, {"VTNr"})
        /\ Has(t.calls, {"TakeControl"}) <=> Has(s.calls, {"TakeControl"})
        /\ AtMostOne(s.calls, {"TakeControl"}) =>
             AtMostOne(t.calls, {"TakeControl"})
        /\ Has(t.calls, {"ListNames", "GetSessionByPID"})
             <=> Has(s.calls, {"ListNames", "GetSessionByPID"})
    BY <1>4, TwoCalls
  <1>6. Single(t)
    BY <1>1, <1>2, <1>3, <1>5 DEF Good, Single, SameSetup
  <1>7. Gone(t) /\ Known(t)
    BY <1>1, <1>2, <1>3 DEF Good, Gone, Known, Env, SameLink
  <1>8. Searched(t)
    BY <1>1, <1>2, <1>3, <1>5 DEF Good, Searched, Env, SameLink
  <1>9. Followed(t)
    BY <1>5 DEF Good, Followed, SameLink
  <1>10. Numbered(t)
    BY <1>5 DEF Good, Numbered, SameNumber
  <1>11. Steady(t)
    BY <1>1, <1>2, <1>3 DEF Steady, Env, SameLink, SameSetup
  <1> QED
    BY <1>1, <1>6, <1>7, <1>8, <1>9, <1>10, <1>11 DEF Good

(* logind is there: KWin asks for its session.                             *)
LEMMA ServiceHandled ==
    ASSUME NEW s, Good(s), Steady(s), NEW t, Pops(s, t), SameSetup(s, t),
           SameLink(s, t), SameNumber(s, t), t.active = s.active,
           t.calls = Append(s.calls, "GetSessionByPID"),
           Head(s.inbox).type \in {"Registered", "ListNames"}
    PROVE  Good(t) /\ Steady(t)
  <1> DEFINE m == Head(s.inbox)
             r == Tail(s.inbox)
  <1>1. s \in Type /\ s.inbox # <<>> /\ t \in Type /\ t.inbox = r /\ Env(s, t)
    BY DEF Good, Pops
  <1>2. /\ m \in Messages
        /\ \A S : Has(s.inbox, S) <=> m \in S \/ Has(r, S)
        /\ \A S, T : Last(s.inbox, S, T) <=>
                        Last(r, S, T) \/ (m \in S /\ ~Has(r, T))
        /\ \A S : AtMostOne(s.inbox, S) =>
                     AtMostOne(r, S) /\ (m \in S => ~Has(r, S))
    BY <1>1, InboxFacts
  <1>3. /\ m \notin Lost /\ m \notin Taken /\ m \notin Granted
        /\ m \notin Found /\ m \notin Changed /\ m \notin Reports
        /\ m \notin Report(s.isActive) /\ m \notin Numbers
    BY <1>2, Kinds
  <1> HIDE DEF m, r
  <1>4. s.calls \in Seq(Calls) /\ "GetSessionByPID" \in Calls
    BY <1>1 DEF Type, Calls
  <1>5. \A S : Has(t.calls, S) <=> Has(s.calls, S) \/ "GetSessionByPID" \in S
    BY <1>4, AppendHas
  <1>6. AtMostOne(s.calls, {"TakeControl"}) => AtMostOne(t.calls, {"TakeControl"})
    BY <1>4, AppendOnce
  <1>7. /\ Has(t.calls, {"ListNames", "GetSessionByPID"})
        /\ Has(t.calls, {"TakeControl"}) <=> Has(s.calls, {"TakeControl"})
        /\ Has(t.calls, {"Active"}) <=> Has(s.calls, {"Active"})
        /\ Has(t.calls, {"VTNr"}) <=> Has(s.calls, {"VTNr"})
    <2>1. /\ "GetSessionByPID" \notin {"TakeControl"}
          /\ "GetSessionByPID" \notin {"Active"}
          /\ "GetSessionByPID" \notin {"VTNr"}
          /\ "GetSessionByPID" \in {"ListNames", "GetSessionByPID"}
      OBVIOUS
    <2> QED
      BY <1>5, <2>1
  <1>8. Single(t)
    BY <1>1, <1>2, <1>3, <1>6, <1>7 DEF Good, Single, SameSetup
  <1>9. Gone(t) /\ Known(t)
    BY <1>1, <1>2, <1>3 DEF Good, Gone, Known, Env, SameLink
  <1>10. Searched(t)
    BY <1>7 DEF Searched
  <1>11. Followed(t)
    BY <1>1, <1>2, <1>3, <1>7 DEF Good, Followed, Linked, Env, SameLink
  <1>12. Numbered(t)
    BY <1>1, <1>2, <1>3, <1>7 DEF Good, Numbered, Linked, Env, SameLink, SameNumber
  <1>13. Steady(t)
    BY <1>1, <1>2, <1>3 DEF Steady, Env, SameLink, SameSetup
  <1> QED
    BY <1>1, <1>8, <1>9, <1>10, <1>11, <1>12, <1>13 DEF Good

(* logind went away: a session that is found behind that is another one.   *)
LEMMA LossHandled ==
    ASSUME NEW s, Good(s), Steady(s), NEW t, Pops(s, t), SameSetup(s, t),
           ~t.connected, SameNumber(s, t), t.calls = s.calls,
           Head(s.inbox).type = "Unregistered"
    PROVE  Good(t) /\ Steady(t)
  <1> DEFINE m == Head(s.inbox)
             r == Tail(s.inbox)
  <1>1. s \in Type /\ s.inbox # <<>> /\ t \in Type /\ t.inbox = r /\ Env(s, t)
    BY DEF Good, Pops
  <1>2. /\ m \in Messages
        /\ \A S : Has(s.inbox, S) <=> m \in S \/ Has(r, S)
        /\ \A S, T : Last(s.inbox, S, T) <=>
                        Last(r, S, T) \/ (m \in S /\ ~Has(r, T))
        /\ \A S : AtMostOne(s.inbox, S) =>
                     AtMostOne(r, S) /\ (m \in S => ~Has(r, S))
    BY <1>1, InboxFacts
  <1>3. /\ m \in Lost /\ m \notin Taken /\ m \notin Found
        /\ m \notin Leads
    BY <1>2, Kinds
  <1> HIDE DEF m, r
  <1>4. Single(t)
    BY <1>1, <1>2, <1>3 DEF Good, Single, SameSetup
  <1>5. Gone(t) /\ Known(t)
    BY <1>1, <1>2, <1>3 DEF Good, Gone, Known, Env
  <1>6. Searched(t)
    BY <1>1, <1>2, <1>3 DEF Good, Searched, Env
  <1>7. Followed(t) /\ Numbered(t)
    BY DEF Good, Followed, Numbered, Linked, SameNumber
  <1>8. Steady(t)
    BY <1>1, <1>2, <1>3 DEF Steady, Env
  <1> QED
    BY <1>1, <1>4, <1>5, <1>6, <1>7, <1>8 DEF Good

(* The session is found.                                                   *)
LEMMA SessionHandled ==
    ASSUME NEW s, Good(s), Steady(s), NEW t, Pops(s, t), SameSetup(s, t),
           ~s.connected, t.connected, t.watched, SameNumber(s, t),
           t.calls = Append(Append(s.calls, "Active"), "VTNr"),
           Head(s.inbox).type = "GetSessionByPID", Head(s.inbox).ok
    PROVE  Good(t) /\ Steady(t)
  <1> DEFINE m == Head(s.inbox)
             r == Tail(s.inbox)
  <1>1. s \in Type /\ s.inbox # <<>> /\ t \in Type /\ t.inbox = r /\ Env(s, t)
    BY DEF Good, Pops
  <1>2. /\ m \in Messages
        /\ \A S : Has(s.inbox, S) <=> m \in S \/ Has(r, S)
        /\ \A S, T : Last(s.inbox, S, T) <=>
                        Last(r, S, T) \/ (m \in S /\ ~Has(r, T))
        /\ \A S : AtMostOne(s.inbox, S) =>
                     AtMostOne(r, S) /\ (m \in S => ~Has(r, S))
    BY <1>1, InboxFacts
  <1>3. /\ m \in Found /\ m \notin Lost /\ m \notin Taken
        /\ m \notin Granted
    BY <1>2, Kinds
  <1> HIDE DEF m, r
  <1>4. s.calls \in Seq(Calls)
    BY <1>1 DEF Type
  <1>5. /\ Has(t.calls, {"Active"}) /\ Has(t.calls, {"VTNr"})
        /\ Has(t.calls, {"TakeControl"}) <=> Has(s.calls, {"TakeControl"})
        /\ AtMostOne(s.calls, {"TakeControl"}) =>
             AtMostOne(t.calls, {"TakeControl"})
        /\ Has(t.calls, {"ListNames", "GetSessionByPID"})
             <=> Has(s.calls, {"ListNames", "GetSessionByPID"})
    BY <1>4, TwoCalls
  <1>6. Single(t)
    BY <1>1, <1>2, <1>3, <1>5 DEF Good, Single, SameSetup
  <1>7. Gone(t) /\ Known(t)
    BY <1>1, <1>2, <1>3 DEF Good, Gone, Known, Env
  <1>8. Searched(t)
    BY <1>1, <1>2, <1>3, <1>5 DEF Good, Searched, Env
  <1>9. Followed(t)
    BY <1>5 DEF Followed
  <1>10. Numbered(t)
    BY <1>5 DEF Good, Numbered, SameNumber
  <1>11. Steady(t)
    BY <1>1, <1>2, <1>3 DEF Steady, Env, SameSetup
  <1> QED
    BY <1>1, <1>6, <1>7, <1>8, <1>9, <1>10, <1>11 DEF Good

(* The session is reported to be active or not.                            *)
LEMMA StateHandled ==
    ASSUME NEW s, Good(s), Steady(s), NEW t, Pops(s, t), SameSetup(s, t),
           SameLink(s, t), SameNumber(s, t), t.active = Head(s.inbox).value,
           t.calls = s.calls,
           Head(s.inbox).type = "Active", Head(s.inbox).ok
    PROVE  Good(t) /\ Steady(t)
  <1> DEFINE m == Head(s.inbox)
             r == Tail(s.inbox)
  <1>1. s \in Type /\ s.inbox # <<>> /\ t \in Type /\ t.inbox = r /\ Env(s, t)
    BY DEF Good, Pops
  <1>2. /\ m \in Messages
        /\ \A S : Has(s.inbox, S) <=> m \in S \/ Has(r, S)
        /\ \A S, T : Last(s.inbox, S, T) <=>
                        Last(r, S, T) \/ (m \in S /\ ~Has(r, T))
        /\ \A S : AtMostOne(s.inbox, S) =>
                     AtMostOne(r, S) /\ (m \in S => ~Has(r, S))
    BY <1>1, InboxFacts
  <1>3. /\ m \in Reports /\ m \notin Lost /\ m \notin Taken
        /\ m \notin Granted /\ m \notin Found /\ m \notin Leads
        /\ m \notin Changed /\ m \notin Numbers
        /\ m \in Report(s.isActive) <=> m.value = s.isActive
    BY <1>2, Kinds
  <1> HIDE DEF m, r
  <1>a. t.active = m.value
    BY DEF m
  <1>4. Single(t)
    BY <1>1, <1>2, <1>3 DEF Good, Single, SameSetup
  <1>5. Gone(t) /\ Known(t)
    BY <1>1, <1>2, <1>3 DEF Good, Gone, Known, Env, SameLink
  <1>6. Searched(t)
    BY <1>1, <1>2, <1>3 DEF Good, Searched, Env, SameLink
  <1>7. Followed(t)
    BY <1>1, <1>2, <1>3, <1>a DEF Good, Followed, Linked, Env, SameLink
  <1>8. Numbered(t)
    BY <1>1, <1>2, <1>3 DEF Good, Numbered, Linked, Env, SameLink, SameNumber
  <1>9. Steady(t)
    BY <1>1, <1>2, <1>3 DEF Steady, Env, SameLink, SameSetup
  <1> QED
    BY <1>1, <1>4, <1>5, <1>6, <1>7, <1>8, <1>9 DEF Good

(* The number of the terminal is known.                                    *)
LEMMA NumberHandled ==
    ASSUME NEW s, Good(s), Steady(s), NEW t, Pops(s, t), SameSetup(s, t),
           SameLink(s, t), t.active = s.active, t.calls = s.calls,
           t.vtnr, t.waits => t.tty,
           Head(s.inbox).type = "VTNr", Head(s.inbox).ok
    PROVE  Good(t) /\ Steady(t)
  <1> DEFINE m == Head(s.inbox)
             r == Tail(s.inbox)
  <1>1. s \in Type /\ s.inbox # <<>> /\ t \in Type /\ t.inbox = r /\ Env(s, t)
    BY DEF Good, Pops
  <1>2. /\ m \in Messages
        /\ \A S : Has(s.inbox, S) <=> m \in S \/ Has(r, S)
        /\ \A S, T : Last(s.inbox, S, T) <=>
                        Last(r, S, T) \/ (m \in S /\ ~Has(r, T))
        /\ \A S : AtMostOne(s.inbox, S) =>
                     AtMostOne(r, S) /\ (m \in S => ~Has(r, S))
    BY <1>1, InboxFacts
  <1>3. /\ m \notin Reports /\ m \notin Lost /\ m \notin Taken
        /\ m \notin Granted /\ m \notin Found /\ m \notin Leads
        /\ m \notin Changed /\ m \notin Report(s.isActive)
    BY <1>2, Kinds
  <1> HIDE DEF m, r
  <1>4. Single(t)
    BY <1>1, <1>2, <1>3 DEF Good, Single, SameSetup
  <1>5. Gone(t) /\ Known(t)
    BY <1>1, <1>2, <1>3 DEF Good, Gone, Known, Env, SameLink
  <1>6. Searched(t)
    BY <1>1, <1>2, <1>3 DEF Good, Searched, Env, SameLink
  <1>7. Followed(t)
    BY <1>1, <1>2, <1>3 DEF Good, Followed, Linked, Env, SameLink
  <1>8. Numbered(t)
    BY DEF Numbered
  <1>9. Steady(t)
    BY <1>1, <1>2, <1>3 DEF Steady, Env, SameLink, SameSetup
  <1> QED
    BY <1>1, <1>4, <1>5, <1>6, <1>7, <1>8, <1>9 DEF Good

(* Control is given or refused.                                            *)
LEMMA ControlHandled ==
    ASSUME NEW s, Good(s), Steady(s), NEW t, Pops(s, t),
           ~t.calling, t.control <=> s.control \/ Head(s.inbox).ok,
           t.retry = s.retry, t.openers = s.openers, t.opened = s.opened,
           SameLink(s, t), SameNumber(s, t), t.active = s.active,
           t.calls = s.calls, Head(s.inbox).type = "TakeControl"
    PROVE  /\ Good(t) /\ Steady(t)
           /\ s.restarts = 0 => /\ s.init /\ s.connected /\ s.opened = 0
                                /\ ~t.control => ~t.controlled
  <1> DEFINE m == Head(s.inbox)
             r == Tail(s.inbox)
  <1>1. s \in Type /\ s.inbox # <<>> /\ t \in Type /\ t.inbox = r /\ Env(s, t)
    BY DEF Good, Pops
  <1>2. /\ m \in Messages
        /\ \A S : Has(s.inbox, S) <=> m \in S \/ Has(r, S)
        /\ \A S, T : Last(s.inbox, S, T) <=>
                        Last(r, S, T) \/ (m \in S /\ ~Has(r, T))
        /\ \A S : AtMostOne(s.inbox, S) =>
                     AtMostOne(r, S) /\ (m \in S => ~Has(r, S))
    BY <1>1, InboxFacts
  <1>3. /\ m \notin Reports /\ m \notin Lost /\ m \in Taken
        /\ m \notin Found /\ m \notin Leads /\ m \notin Changed
        /\ m \notin Report(s.isActive) /\ m \notin Numbers
        /\ m \in Granted <=> m.ok
    BY <1>2, Kinds
  <1> HIDE DEF m, r
  <1>a. t.control <=> s.control \/ m.ok
    BY DEF m
  <1>b. s.calling /\ ~Has(r, Taken) /\ ~Has(s.calls, {"TakeControl"})
    BY <1>2, <1>3 DEF Good, Single
  <1>c. ~Has(r, Granted)
    <2>1. \A i \in DOMAIN r : r[i] \in Granted => r[i] \in Taken
      BY DEF Granted, Taken
    <2> QED
      BY <1>b, <2>1 DEF Has
  <1>4. Single(t)
    BY <1>1, <1>2, <1>3, <1>b DEF Good, Single
  <1>5. Gone(t) /\ Known(t)
    BY <1>1, <1>2, <1>3 DEF Good, Gone, Known, Env, SameLink
  <1>6. Searched(t)
    BY <1>1, <1>2, <1>3 DEF Good, Searched, Env, SameLink
  <1>7. Followed(t)
    BY <1>1, <1>2, <1>3 DEF Good, Followed, Linked, Env, SameLink
  <1>8. Numbered(t)
    BY <1>1, <1>2, <1>3 DEF Good, Numbered, Linked, Env, SameLink, SameNumber
  <1>9. s.restarts = 0 => /\ s.init /\ s.connected /\ s.opened = 0
                          /\ ~t.control => ~t.controlled
    BY <1>1, <1>2, <1>3, <1>a, <1>b, <1>c DEF Steady, Env
  <1>10. Steady(t)
    BY <1>1, <1>2, <1>3, <1>a, <1>c, <1>9 DEF Steady, Env, SameLink
  <1> QED
    BY <1>1, <1>4, <1>5, <1>6, <1>7, <1>8, <1>9, <1>10 DEF Good

(* Every message that is handled.                                          *)
LEMMA HandleKeeps ==
    ASSUME LInv, Handle
    PROVE  LInv'
  <1> DEFINE m == Head(l.inbox)
             r == Tail(l.inbox)
             p == [l EXCEPT !.inbox = r]
  <1>1. l \in Type /\ l.inbox # <<>> /\ l' = handle(p, m)
    BY DEF LInv, Good, Handle
  <1>2. m \in Messages /\ r \in Seq(Messages)
    BY <1>1, InboxFacts
  <1>3. /\ m.type \in Calls \cup Signals
        /\ m.type \in Calls => m.ok \in BOOLEAN /\ m.value \in BOOLEAN
    BY <1>2, Kinds
  <1> HIDE DEF r, m
  <1>4. p \in Type /\ p.inbox = r
    BY <1>1, <1>2 DEF Type, Messages, Answers
  <1>5. /\ Env(l, p) /\ SameLink(l, p) /\ SameNumber(l, p)
        /\ p.active = l.active
    BY <1>1 DEF Type, Env, SameLink, SameNumber
  <1>6. SameSetup(l, p) /\ p.calls = l.calls
    BY <1>1 DEF Type, SameSetup
  <1> HIDE DEF p
  <1>7. Pops(l, p)
    BY <1>1, <1>4, <1>5 DEF Pops, r
  <1>8. SUFFICES Good(l') /\ Steady(l')
    BY DEF LInv
  <1>9. Good(l) /\ Steady(l)
    BY DEF LInv
  <1>10. p.calls \in Seq(Calls) /\ "Active" \in Calls /\ "VTNr" \in Calls
         /\ "GetSessionByPID" \in Calls
    BY <1>4 DEF Type, Calls
  <1>11. CASE m.type = "PropertiesChanged"
    <2>1. l' = propertiesChanged(p)
      BY <1>1, <1>11 DEF handle
    <2>2. CASE p.connected
      <3> DEFINE u == call(p, "Active")
                 t == call(u, "VTNr")
      <3>1. l' = t
        BY <2>1, <2>2 DEF propertiesChanged
      <3>2. /\ u \in Type /\ Kept(p, u) /\ u.calls = Append(p.calls, "Active")
            /\ u.calling = p.calling /\ u.retry = p.retry
            /\ u.openers = p.openers /\ u.opened = p.opened
            /\ u.tty = p.tty /\ u.waits = p.waits
        BY <1>4, <1>10, CallFields
      <3> HIDE DEF u
      <3>3. /\ t \in Type /\ Kept(u, t) /\ t.calls = Append(u.calls, "VTNr")
            /\ t.calling = u.calling /\ t.retry = u.retry
            /\ t.openers = u.openers /\ t.opened = u.opened
            /\ t.tty = u.tty /\ t.waits = u.waits
        BY <3>2, <1>10, CallFields
      <3> HIDE DEF t
      <3>4. /\ Pops(l, t) /\ SameSetup(l, t) /\ SameLink(l, t)
            /\ SameNumber(l, t) /\ t.active = l.active
        BY <1>5, <1>6, <1>7, <3>2, <3>3
           DEF Kept, Pops, Env, SameSetup, SameLink, SameNumber
      <3>5. t.calls = Append(Append(l.calls, "Active"), "VTNr")
        BY <1>6, <3>2, <3>3
      <3> QED
        BY <1>9, <1>11, <3>1, <3>4, <3>5, ChangeHandled DEF m
    <2>3. CASE ~p.connected
      <3>1. l' = p
        BY <2>1, <2>3 DEF propertiesChanged
      <3>2. /\ m \notin Lost /\ m \notin Reports /\ m \notin Numbers
            /\ m \notin Taken /\ m \notin Leads /\ m \notin Found
            /\ m \notin Granted
        BY <1>2, <1>11, Kinds
      <3>3. ~l.connected
        BY <1>5, <2>3 DEF SameLink
      <3> QED
        BY <1>5, <1>6, <1>7, <1>9, <3>1, <3>2, <3>3, NothingHandled DEF m
    <2> QED
      BY <2>2, <2>3
  <1>12. CASE m.type = "Registered" \/ (m.type = "ListNames" /\ m.value)
    <2> DEFINE t == call(p, "GetSessionByPID")
    <2>1. l' = t
      BY <1>1, <1>12 DEF handle
    <2>2. /\ t \in Type /\ Kept(p, t)
          /\ t.calls = Append(p.calls, "GetSessionByPID")
          /\ t.calling = p.calling /\ t.retry = p.retry
          /\ t.openers = p.openers /\ t.opened = p.opened
          /\ t.tty = p.tty /\ t.waits = p.waits
      BY <1>4, <1>10, CallFields
    <2> HIDE DEF t
    <2>3. /\ Pops(l, t) /\ SameSetup(l, t) /\ SameLink(l, t)
          /\ SameNumber(l, t) /\ t.active = l.active
      BY <1>5, <1>6, <1>7, <2>2
         DEF Kept, Pops, Env, SameSetup, SameLink, SameNumber
    <2>4. t.calls = Append(l.calls, "GetSessionByPID")
      BY <1>6, <2>2
    <2> QED
      BY <1>9, <1>12, <2>1, <2>3, <2>4, ServiceHandled DEF m
  <1>13. CASE m.type = "Unregistered"
    <2> DEFINE u == [p EXCEPT !.connected = FALSE]
    <2>1. l' = connectedChanged(u)
      BY <1>1, <1>13 DEF handle, serviceUnregistered
    <2>2. u \in Type /\ u.inbox = p.inbox /\ u.calls = p.calls
      BY <1>4 DEF Type
    <2>3. Env(p, u) /\ ~u.connected /\ SameNumber(p, u)
      BY <1>4 DEF Type, Env, SameNumber
    <2>4. SameSetup(p, u)
      BY <1>4 DEF Type, SameSetup
    <2> HIDE DEF u
    <2>5. /\ Pops(l, u) /\ SameSetup(l, u) /\ SameNumber(l, u)
          /\ u.calls = l.calls
      BY <1>5, <1>6, <1>7, <2>2, <2>3, <2>4
         DEF Pops, Env, SameSetup, SameNumber
    <2>6. Good(u) /\ Steady(u)
      BY <1>9, <1>13, <2>3, <2>5, LossHandled DEF m
    <2>7. Asks(u, l')
      BY <2>1, <2>2, ConnectedChangedAsks
    <2>8. Good(l')
      BY <2>6, <2>7, AsksGood
    <2>9. u.restarts # 0
      <3>1. m \in Lost
        BY <1>2, <1>13, Kinds
      <3>2. Has(l.inbox, Lost)
        BY <1>1, <3>1, InboxFacts DEF m
      <3> QED
        BY <1>9, <2>5, <3>2 DEF Steady, Pops, Env
    <2>10. Steady(l')
      BY <2>7, <2>9 DEF Asks, Kept, Steady
    <2> QED
      BY <2>8, <2>10
  <1>14. CASE \/ m.type = "ListNames" /\ ~m.value
              \/ m.type \in {"GetSessionByPID", "Active", "VTNr"} /\ ~m.ok
              \/ m.type = "GetSessionByPID" /\ p.connected
    <2>1. l' = p
      <3>1. CASE m.type = "ListNames" /\ ~m.value
        BY <1>1, <3>1 DEF handle
      <3>2. CASE m.type = "GetSessionByPID" /\ (~m.ok \/ p.connected)
        BY <1>1, <3>2 DEF handle, sessionFound
      <3>3. CASE m.type = "VTNr" /\ ~m.ok
        BY <1>1, <3>3 DEF handle, vtFound
      <3>4. CASE m.type = "Active" /\ ~m.ok
        <4>1. l' = [p EXCEPT !.active = IF m.ok THEN m.value ELSE p.active]
          BY <1>1, <3>4 DEF handle
        <4>2. l' = [p EXCEPT !.active = p.active]
          BY <3>4, <4>1
        <4> QED
          BY <1>4, <4>2 DEF Type
      <3> QED
        BY <1>14, <3>1, <3>2, <3>3, <3>4
    <2>2. /\ m \notin Lost /\ m \notin Reports /\ m \notin Numbers
          /\ m \notin Taken /\ (m \notin Leads \/ p.connected)
          /\ (m \notin Found \/ p.connected) /\ m \notin Changed
          /\ m \notin Granted
      BY <1>2, <1>14, Kinds
    <2>3. p.connected = l.connected
      BY <1>5 DEF SameLink
    <2> QED
      BY <1>5, <1>6, <1>7, <1>9, <2>1, <2>2, <2>3, NothingHandled DEF m
  <1>15. CASE m.type = "GetSessionByPID" /\ m.ok /\ ~p.connected
    <2> DEFINE c == [p EXCEPT !.connected = TRUE, !.watched = TRUE]
               u == call(c, "Active")
               t == call(u, "VTNr")
    <2>1. l' = connectedChanged(t)
      BY <1>1, <1>15 DEF handle, sessionFound
    <2>2. c \in Type /\ c.inbox = p.inbox /\ c.calls = p.calls
      BY <1>4 DEF Type
    <2>3. Env(p, c) /\ c.connected /\ c.watched /\ SameNumber(p, c)
      BY <1>4 DEF Type, Env, SameNumber
    <2>4. SameSetup(p, c)
      BY <1>4 DEF Type, SameSetup
    <2> HIDE DEF c
    <2>5. /\ u \in Type /\ Kept(c, u) /\ u.calls = Append(c.calls, "Active")
          /\ u.calling = c.calling /\ u.retry = c.retry
          /\ u.openers = c.openers /\ u.opened = c.opened
          /\ u.tty = c.tty /\ u.waits = c.waits
      BY <2>2, <1>10, CallFields
    <2> HIDE DEF u
    <2>6. /\ t \in Type /\ Kept(u, t) /\ t.calls = Append(u.calls, "VTNr")
          /\ t.calling = u.calling /\ t.retry = u.retry
          /\ t.openers = u.openers /\ t.opened = u.opened
          /\ t.tty = u.tty /\ t.waits = u.waits
      BY <2>5, <1>10, CallFields
    <2> HIDE DEF t
    <2>7. /\ Pops(l, t) /\ SameSetup(l, t) /\ SameNumber(l, t)
          /\ t.connected /\ t.watched
      BY <1>5, <1>6, <1>7, <2>2, <2>3, <2>4, <2>5, <2>6
         DEF Kept, Pops, Env, SameSetup, SameNumber
    <2>8. t.calls = Append(Append(l.calls, "Active"), "VTNr")
      BY <1>6, <2>2, <2>5, <2>6
    <2>9. ~l.connected
      BY <1>5, <1>15 DEF SameLink
    <2>10. Good(t) /\ Steady(t)
      BY <1>9, <1>15, <2>7, <2>8, <2>9, SessionHandled DEF m
    <2>11. /\ Asks(t, l') /\ (t.connected => l'.retry = t.retry)
           /\ ~t.announced /\ ~t.retry => l' = t
           /\ ~t.control =>
                /\ l'.openers = IF t.announced THEN t.openers + 1
                                ELSE t.openers
                /\ l'.opened = t.opened
      BY <2>1, <2>6, ConnectedChangedAsks
    <2>12. Good(l')
      BY <2>10, <2>11, AsksGood
    <2>13. t.restarts = 0 =>
              /\ ~t.retry /\ t.openers = 0 /\ ~t.control /\ t.opened = 0
              /\ t.announced => t.init
      BY <1>9, <2>7, <2>9, <2>10 DEF Steady, Pops, Env, SameSetup
    <2>14. t.restarts = 0 =>
              /\ ~l'.retry /\ l'.openers <= 1 /\ l'.opened <= 1
              /\ l'.openers = 0 \/ (t.connected /\ t.init)
              /\ t.init \/ l'.calling = t.calling
              /\ ~t.control => l'.opened = 0
      BY <2>7, <2>11, <2>13
    <2>15. Steady(l')
      BY <2>10, <2>11, <2>14, AsksSteady
    <2> QED
      BY <2>12, <2>15
  <1>16. CASE m.type = "Active" /\ m.ok
    <2> DEFINE t == [p EXCEPT !.active = m.value]
    <2>1. l' = t
      BY <1>1, <1>16 DEF handle
    <2>2. m.value \in BOOLEAN
      BY <1>3, <1>16 DEF Calls
    <2>3. t \in Type /\ t.inbox = p.inbox /\ t.calls = p.calls
      BY <1>4, <2>2 DEF Type
    <2>4. Env(p, t) /\ SameLink(p, t) /\ SameNumber(p, t) /\ t.active = m.value
      BY <1>4, <2>2 DEF Type, Env, SameLink, SameNumber
    <2>5. SameSetup(p, t)
      BY <1>4 DEF Type, SameSetup
    <2> HIDE DEF t
    <2>6. /\ Pops(l, t) /\ SameSetup(l, t) /\ SameLink(l, t)
          /\ SameNumber(l, t) /\ t.calls = l.calls
      BY <1>5, <1>6, <1>7, <2>3, <2>4, <2>5
         DEF Pops, Env, SameSetup, SameLink, SameNumber
    <2> QED
      BY <1>9, <1>16, <2>1, <2>4, <2>6, StateHandled DEF m
  <1>17. CASE m.type = "VTNr" /\ m.ok
    <2> DEFINE y == p.tty \/ p.waits
               t == [p EXCEPT !.vtnr = TRUE, !.tty = y]
    <2>1. l' = t
      BY <1>1, <1>17 DEF handle, vtFound
    <2>2. y \in BOOLEAN /\ (p.waits => y)
      BY <1>4 DEF Type
    <2> HIDE DEF y
    <2>3. t \in Type /\ t.inbox = p.inbox /\ t.calls = p.calls
      BY <1>4, <2>2 DEF Type
    <2>4. /\ Env(p, t) /\ SameLink(p, t) /\ t.active = p.active
          /\ t.vtnr /\ t.tty = y /\ t.waits = p.waits
      BY <1>4, <2>2 DEF Type, Env, SameLink
    <2>5. SameSetup(p, t)
      BY <1>4 DEF Type, SameSetup
    <2> HIDE DEF t
    <2>6. /\ Pops(l, t) /\ SameSetup(l, t) /\ SameLink(l, t)
          /\ t.active = l.active /\ t.calls = l.calls
      BY <1>5, <1>6, <1>7, <2>3, <2>4, <2>5
         DEF Pops, Env, SameSetup, SameLink
    <2> QED
      BY <1>9, <1>17, <2>1, <2>2, <2>4, <2>6, NumberHandled DEF m
  <1>18. CASE m.type = "TakeControl"
    <2> DEFINE k == p.control \/ m.ok
               u == [p EXCEPT !.calling = FALSE, !.control = k]
    <2>1. l' = sessionControlChanged(u)
      BY <1>1, <1>18 DEF handle, controlTaken
    <2>2. k \in BOOLEAN
      BY <1>3, <1>4, <1>18 DEF Type, Calls
    <2>a. k <=> p.control \/ m.ok
      OBVIOUS
    <2> HIDE DEF k
    <2>3. /\ u \in Type /\ u.inbox = p.inbox /\ u.calls = p.calls
          /\ u.openers = p.openers /\ u.opened = p.opened
      BY <1>4, <2>2 DEF Type
    <2>4. /\ Env(p, u) /\ SameLink(p, u) /\ SameNumber(p, u)
          /\ u.active = p.active /\ ~u.calling /\ u.retry = p.retry
      BY <1>4, <2>2 DEF Type, Env, SameLink, SameNumber
    <2>5. u.control = k
      BY <1>4, <2>2 DEF Type
    <2> HIDE DEF u
    <2>6. /\ Pops(l, u) /\ SameLink(l, u) /\ SameNumber(l, u)
          /\ u.active = l.active /\ u.calls = l.calls
      BY <1>5, <1>6, <1>7, <2>3, <2>4
         DEF Pops, Env, SameLink, SameNumber
    <2>7. /\ u.retry = l.retry /\ u.openers = l.openers /\ u.opened = l.opened
          /\ u.control <=> l.control \/ m.ok
      BY <1>6, <2>a, <2>3, <2>4, <2>5 DEF SameSetup
    <2>8. /\ Good(u) /\ Steady(u)
          /\ l.restarts = 0 => /\ l.init /\ l.connected /\ l.opened = 0
                               /\ ~u.control => ~u.controlled
      BY <1>9, <1>18, <2>4, <2>6, <2>7, ControlHandled DEF m
    <2>9. /\ Asks(u, l') /\ (u.connected => l'.retry = u.retry)
          /\ l'.openers = u.openers
          /\ l'.opened = IF u.up /\ u.controlled THEN u.opened + u.openers
                         ELSE u.opened
      BY <2>1, <2>3, ControlChangedAsks
    <2>10. Good(l')
      BY <2>8, <2>9, AsksGood
    <2>11. /\ u.restarts = l.restarts /\ u.connected = l.connected
           /\ u.init = l.init /\ u.openers \in Nat
      BY <2>3, <2>6 DEF Pops, Env, SameLink, Type
    <2>12. u.restarts = 0 =>
              /\ ~u.retry /\ u.openers <= 1 /\ u.opened = 0
              /\ u.connected /\ u.init
              /\ ~u.control => ~u.controlled
      BY <2>7, <2>8, <2>11 DEF Steady
    <2>13. u.restarts = 0 =>
              /\ ~l'.retry /\ l'.openers <= 1 /\ l'.opened <= 1
              /\ l'.openers = 0 \/ (u.connected /\ u.init)
              /\ u.init \/ l'.calling = u.calling
              /\ ~u.control => l'.opened = 0
      BY <2>9, <2>11, <2>12
    <2>14. Steady(l')
      BY <2>8, <2>9, <2>13, AsksSteady
    <2> QED
      BY <2>10, <2>14
  <1>19. \/ m.type = "PropertiesChanged" \/ m.type = "Registered"
         \/ m.type = "Unregistered" \/ m.type = "ListNames"
         \/ m.type = "GetSessionByPID" \/ m.type = "Active"
         \/ m.type = "VTNr" \/ m.type = "TakeControl"
    BY <1>3 DEF Calls, Signals
  <1> QED
    BY <1>11, <1>12, <1>13, <1>14, <1>15, <1>16, <1>17, <1>18, <1>19

-----------------------------------------------------------------------------
(* logind, the bus and the backend.                                        *)

(* The members that belong to KWin alone.                                  *)
SameKWin(s, t) ==
    /\ SameLink(s, t) /\ SameNumber(s, t) /\ SameSetup(s, t)
    /\ t.active = s.active /\ t.init = s.init /\ t.announced = s.announced

(* The inbox before and after a message is added.                          *)
LEMMA InboxAppended ==
    ASSUME NEW s \in Type, NEW x \in Messages
    PROVE  LET r == Append(s.inbox, x)
           IN  /\ r \in Seq(Messages)
               /\ \A S : Has(r, S) <=> Has(s.inbox, S) \/ x \in S
               /\ \A S, T : Last(r, S, T) <=>
                               x \in S \/ (Last(s.inbox, S, T) /\ x \notin T)
               /\ \A S : AtMostOne(s.inbox, S) /\ (x \in S => ~Has(s.inbox, S))
                            => AtMostOne(r, S)
  <1>1. s.inbox \in Seq(Messages)
    BY DEF Type, Messages, Answers
  <1> DEFINE r == Append(s.inbox, x)
  <1>2. r \in Seq(Messages)
    BY <1>1, AppendHas
  <1>3. \A S : Has(r, S) <=> Has(s.inbox, S) \/ x \in S
    BY <1>1, AppendHas
  <1>4. \A S, T : Last(r, S, T) <=>
                    x \in S \/ (Last(s.inbox, S, T) /\ x \notin T)
    BY <1>1, AppendLast
  <1>5. \A S : AtMostOne(s.inbox, S) /\ (x \in S => ~Has(s.inbox, S))
                 => AtMostOne(r, S)
    BY <1>1, AppendOnce
  <1> QED
    BY <1>2, <1>3, <1>4, <1>5

(* A call is answered, and the answer says what is so.                     *)
LEMMA Answered ==
    ASSUME NEW s, Good(s), Steady(s), s.calls # <<>>,
           NEW x \in Answers, x.type = Head(s.calls),
           x.type = "ListNames" => (x.value <=> s.up),
           x.type = "GetSessionByPID" => (x.ok <=> s.up /\ s.registered),
           x.type = "Active" => (x.ok <=> s.up) /\ x.value = s.isActive,
           x.type = "VTNr" => (x.ok <=> s.up),
           NEW t \in Type, t.calls = Tail(s.calls),
           t.inbox = Append(s.inbox, x), SameKWin(s, t),
           t.up = s.up, t.registered = s.registered,
           t.isActive = s.isActive, t.restarts = s.restarts,
           x.type # "TakeControl" => t.controlled = s.controlled,
           x.type = "TakeControl" =>
               IF x.ok THEN t.controlled ELSE t.controlled => s.controlled
    PROVE  Good(t) /\ Steady(t)
  <1>1. s \in Type /\ x \in Messages /\ s.calls \in Seq(Calls)
    BY DEF Good, Messages, Type
  <1>2. /\ \A S : Has(t.inbox, S) <=> Has(s.inbox, S) \/ x \in S
        /\ \A S, T : Last(t.inbox, S, T) <=>
                        x \in S \/ (Last(s.inbox, S, T) /\ x \notin T)
        /\ \A S : AtMostOne(s.inbox, S) /\ (x \in S => ~Has(s.inbox, S))
                     => AtMostOne(t.inbox, S)
    <2> DEFINE r == Append(s.inbox, x)
    <2>1. /\ \A S : Has(r, S) <=> Has(s.inbox, S) \/ x \in S
          /\ \A S, T : Last(r, S, T) <=>
                          x \in S \/ (Last(s.inbox, S, T) /\ x \notin T)
          /\ \A S : AtMostOne(s.inbox, S) /\ (x \in S => ~Has(s.inbox, S))
                       => AtMostOne(r, S)
      BY <1>1, InboxAppended
    <2>2. t.inbox = r
      OBVIOUS
    <2> HIDE DEF r
    <2> QED
      BY <2>1, <2>2
  <1>3. \A S : Has(s.calls, S) <=> x.type \in S \/ Has(t.calls, S)
    BY <1>1, TailHas
  <1>4. \A S : AtMostOne(s.calls, S) =>
                 AtMostOne(t.calls, S) /\ (x.type \in S => ~Has(t.calls, S))
    BY <1>1, TailOnce
  <1>5. /\ x \in Lost <=> x.type = "Unregistered"
        /\ x \in Changed <=> x.type = "PropertiesChanged"
        /\ x \in Found <=> x.type = "GetSessionByPID" /\ x.ok
        /\ x \in Reports <=> x.type = "Active" /\ x.ok
        /\ x \in Report(s.isActive) <=>
             x.type = "Active" /\ x.ok /\ x.value = s.isActive
        /\ x \in Numbers <=> x.type = "VTNr" /\ x.ok
        /\ x \in Taken <=> x.type = "TakeControl"
        /\ x \in Granted <=> x.type = "TakeControl" /\ x.ok
        /\ x \in Leads <=> \/ x.type = "Registered"
                           \/ x.type = "ListNames" /\ x.value
                           \/ x.type = "GetSessionByPID" /\ x.ok
    BY <1>1, Kinds
  <1>6. x \notin Lost
    BY <1>5 DEF Answers, Calls
  <1>7. Single(t)
    <2>1. x.type \in {"TakeControl"} <=> x \in Taken
      BY <1>5
    <2> QED
      BY <1>2, <1>3, <1>4, <2>1 DEF Good, Single, SameKWin, SameSetup
  <1>8. Gone(t) /\ Known(t)
    BY <1>2, <1>5, <1>6 DEF Good, Gone, Known, SameKWin, SameLink
  <1>9. Searched(t)
    <2>1. s.up /\ s.registered /\ x.type \in {"ListNames", "GetSessionByPID"}
            => x \in Leads
      BY <1>5
    <2> QED
      BY <1>2, <1>3, <1>6, <2>1 DEF Good, Searched, SameKWin, SameLink
  <1>10. Followed(t)
    <2>1. s.up /\ x.type \in {"Active"} => x \in Report(s.isActive)
      BY <1>5
    <2>2. s.up /\ x \in Reports => x \in Report(s.isActive)
      BY <1>5
    <2> QED
      BY <1>2, <1>3, <1>6, <2>1, <2>2
         DEF Good, Followed, Linked, SameKWin, SameLink
  <1>11. Numbered(t)
    <2>1. s.up /\ x.type \in {"VTNr"} => x \in Numbers
      BY <1>5
    <2> QED
      BY <1>2, <1>3, <1>6, <2>1
         DEF Good, Numbered, Linked, SameKWin, SameLink, SameNumber
  <1>12. Steady(t)
    <2>1. CASE x.type = "TakeControl"
      <3>1. x \in Taken /\ x \notin Found /\ (x \in Granted <=> x.ok)
        BY <1>5, <2>1
      <3>2. s.calling
        BY <1>3, <2>1 DEF Good, Single
      <3>3. ~Has(s.inbox, Taken)
        BY <1>3, <2>1 DEF Good, Single
      <3>4. ~Has(s.inbox, Granted)
        <4>1. \A m : m \in Granted => m \in Taken
          BY DEF Granted, Taken
        <4> QED
          BY <3>3, <4>1 DEF Has
      <3>5. s.restarts = 0 => ~s.control /\ ~s.controlled
        BY <3>2, <3>4 DEF Steady
      <3> QED
        BY <1>2, <1>6, <2>1, <3>1, <3>5
           DEF Steady, SameKWin, SameLink, SameSetup
    <2>2. CASE x.type # "TakeControl"
      <3>1. x \notin Granted /\ (x \in Found => s.up)
        BY <1>5, <2>2
      <3> QED
        BY <1>2, <1>6, <2>2, <3>1 DEF Steady, SameKWin, SameLink, SameSetup
    <2> QED
      BY <2>1, <2>2
  <1> QED
    BY <1>7, <1>8, <1>9, <1>10, <1>11, <1>12 DEF Good

(* What answer() does.                                                     *)
LEMMA AnswerFields ==
    ASSUME NEW s \in Type, s.calls # <<>>, NEW k \in BOOLEAN, NEW v \in BOOLEAN
    PROVE  LET t == answer(s, k, v)
               x == [type |-> Head(s.calls), ok |-> k, value |-> v]
           IN  /\ x \in Answers /\ t \in Type
               /\ t.calls = Tail(s.calls) /\ t.inbox = Append(s.inbox, x)
               /\ SameKWin(s, t) /\ t.up = s.up
               /\ t.registered = s.registered /\ t.isActive = s.isActive
               /\ t.restarts = s.restarts /\ t.controlled = s.controlled
               /\ t.refusals = s.refusals
  <1> DEFINE x == [type |-> Head(s.calls), ok |-> k, value |-> v]
             c == Tail(s.calls)
             r == Append(s.inbox, x)
             t == answer(s, k, v)
  <1>1. s.calls \in Seq(Calls)
    BY DEF Type
  <1>2. Head(s.calls) \in Calls /\ c \in Seq(Calls)
    BY <1>1, TailFacts
  <1>3. x \in Answers
    BY <1>2 DEF Answers
  <1>4. t = [s EXCEPT !.calls = c, !.inbox = r]
    BY DEF answer
  <1>5. r \in Seq(Messages)
    BY <1>3, InboxAppended DEF Messages
  <1> HIDE DEF c, x, r
  <1>6. t \in Type /\ t.calls = c /\ t.inbox = r
    BY <1>2, <1>4, <1>5 DEF Type, Messages, Answers
  <1>7. SameLink(s, t) /\ SameNumber(s, t) /\ t.active = s.active
    BY <1>4 DEF Type, SameLink, SameNumber
  <1>8. SameSetup(s, t) /\ t.init = s.init /\ t.announced = s.announced
    BY <1>4 DEF Type, SameSetup
  <1>9. /\ t.up = s.up /\ t.registered = s.registered
        /\ t.isActive = s.isActive /\ t.restarts = s.restarts
        /\ t.controlled = s.controlled /\ t.refusals = s.refusals
    BY <1>4 DEF Type
  <1> HIDE DEF t
  <1> QED
    BY <1>3, <1>6, <1>7, <1>8, <1>9 DEF SameKWin, t, x, c, r

LEMMA AnswerKeeps ==
    ASSUME LInv, Answer
    PROVE  LInv'
  <1>1. /\ l \in Type /\ l.calls # <<>> /\ Head(l.calls) # "TakeControl"
        /\ l.up \in BOOLEAN /\ l.registered \in BOOLEAN
        /\ l.isActive \in BOOLEAN
    BY DEF LInv, Good, Answer, Type
  <1>2. Head(l.calls) \in Calls
    <2>1. l.calls \in Seq(Calls)
      BY <1>1 DEF Type
    <2> QED
      BY <1>1, <2>1, TailFacts
  <1>3. \E k \in BOOLEAN, v \in BOOLEAN :
           /\ l' = answer(l, k, v)
           /\ Head(l.calls) = "ListNames" => (v <=> l.up)
           /\ Head(l.calls) = "GetSessionByPID" => (k <=> l.up /\ l.registered)
           /\ Head(l.calls) = "Active" => (k <=> l.up) /\ v = l.isActive
           /\ Head(l.calls) = "VTNr" => (k <=> l.up)
    <2>1. CASE Head(l.calls) = "ListNames"
      <3>1. l' = answer(l, TRUE, l.up)
        BY <2>1 DEF Answer
      <3> QED
        BY <1>1, <2>1, <3>1
    <2>2. CASE Head(l.calls) = "GetSessionByPID"
      <3> DEFINE k == l.up /\ l.registered
      <3>1. l' = answer(l, k, FALSE)
        BY <2>2 DEF Answer
      <3>2. k \in BOOLEAN /\ (k <=> l.up /\ l.registered)
        OBVIOUS
      <3> HIDE DEF k
      <3> QED
        BY <1>1, <2>2, <3>1, <3>2
    <2>3. CASE Head(l.calls) = "Active"
      <3>1. l' = answer(l, l.up, l.isActive)
        BY <2>3 DEF Answer
      <3> QED
        BY <1>1, <2>3, <3>1
    <2>4. CASE Head(l.calls) = "VTNr"
      <3>1. l' = answer(l, l.up, FALSE)
        BY <2>4 DEF Answer
      <3> QED
        BY <1>1, <2>4, <3>1
    <2> QED
      BY <1>1, <1>2, <2>1, <2>2, <2>3, <2>4 DEF Calls
  <1>4. PICK k \in BOOLEAN, v \in BOOLEAN :
           /\ l' = answer(l, k, v)
           /\ Head(l.calls) = "ListNames" => (v <=> l.up)
           /\ Head(l.calls) = "GetSessionByPID" => (k <=> l.up /\ l.registered)
           /\ Head(l.calls) = "Active" => (k <=> l.up) /\ v = l.isActive
           /\ Head(l.calls) = "VTNr" => (k <=> l.up)
    BY <1>3
  <1> DEFINE x == [type |-> Head(l.calls), ok |-> k, value |-> v]
  <1>5. x.type = Head(l.calls) /\ x.ok = k /\ x.value = v
    OBVIOUS
  <1>6. /\ x \in Answers /\ l' \in Type
        /\ l'.calls = Tail(l.calls) /\ l'.inbox = Append(l.inbox, x)
        /\ SameKWin(l, l') /\ l'.up = l.up
        /\ l'.registered = l.registered /\ l'.isActive = l.isActive
        /\ l'.restarts = l.restarts /\ l'.controlled = l.controlled
    BY <1>1, <1>4, AnswerFields
  <1> HIDE DEF x
  <1>7. Good(l') /\ Steady(l')
    BY <1>1, <1>4, <1>5, <1>6, Answered DEF LInv
  <1> QED
    BY <1>7 DEF LInv

LEMMA GiveControlKeeps ==
    ASSUME LInv, GiveControl
    PROVE  LInv'
  <1> DEFINE k == l.up
             x == [type |-> Head(l.calls), ok |-> k, value |-> FALSE]
             a == answer(l, k, FALSE)
  <1>1. /\ l \in Type /\ l.calls # <<>> /\ Head(l.calls) = "TakeControl"
        /\ k \in BOOLEAN
    BY DEF LInv, Good, GiveControl, Type
  <1>2. l' = [a EXCEPT !.controlled = k]
    BY DEF GiveControl
  <1>3. x.type = Head(l.calls) /\ x.ok = k
    OBVIOUS
  <1>4. /\ x \in Answers /\ a \in Type
        /\ a.calls = Tail(l.calls) /\ a.inbox = Append(l.inbox, x)
        /\ SameKWin(l, a) /\ a.up = l.up
        /\ a.registered = l.registered /\ a.isActive = l.isActive
        /\ a.restarts = l.restarts
    BY <1>1, AnswerFields
  <1> HIDE DEF k, x, a
  <1>5. /\ l' \in Type /\ l'.calls = a.calls /\ l'.inbox = a.inbox
        /\ l'.restarts = a.restarts
    BY <1>1, <1>2, <1>4 DEF Type
  <1>6. SameLink(a, l') /\ SameNumber(a, l') /\ l'.active = a.active
    BY <1>2, <1>4 DEF Type, SameLink, SameNumber
  <1>7. SameSetup(a, l') /\ l'.init = a.init /\ l'.announced = a.announced
    BY <1>2, <1>4 DEF Type, SameSetup
  <1>8. /\ l'.up = a.up /\ l'.registered = a.registered
        /\ l'.isActive = a.isActive /\ l'.controlled = k
    BY <1>1, <1>2, <1>4 DEF Type
  <1>9. SameKWin(l, l')
    BY <1>4, <1>6, <1>7 DEF SameKWin, SameLink, SameNumber, SameSetup
  <1>10. /\ l'.calls = Tail(l.calls) /\ l'.inbox = Append(l.inbox, x)
         /\ l'.up = l.up /\ l'.registered = l.registered
         /\ l'.isActive = l.isActive /\ l'.restarts = l.restarts
    BY <1>4, <1>5, <1>8
  <1>11. IF x.ok THEN l'.controlled ELSE l'.controlled => l.controlled
    BY <1>3, <1>8
  <1>12. Good(l') /\ Steady(l')
    <2>1. x.type = "TakeControl"
      BY <1>1, <1>3
    <2> QED
      BY <1>1, <1>3, <1>4, <1>5, <1>9, <1>10, <1>11, <2>1, Answered DEF LInv
  <1> QED
    BY <1>12 DEF LInv

LEMMA RefuseControlKeeps ==
    ASSUME LInv, RefuseControl
    PROVE  LInv'
  <1> DEFINE x == [type |-> Head(l.calls), ok |-> FALSE, value |-> FALSE]
             a == answer(l, FALSE, FALSE)
             n == a.refusals + 1
  <1>1. /\ l \in Type /\ l.calls # <<>> /\ Head(l.calls) = "TakeControl"
    BY DEF LInv, Good, RefuseControl
  <1>2. l' = [a EXCEPT !.refusals = n]
    BY DEF RefuseControl
  <1>3. x.type = Head(l.calls) /\ ~x.ok
    OBVIOUS
  <1>4. /\ x \in Answers /\ a \in Type
        /\ a.calls = Tail(l.calls) /\ a.inbox = Append(l.inbox, x)
        /\ SameKWin(l, a) /\ a.up = l.up
        /\ a.registered = l.registered /\ a.isActive = l.isActive
        /\ a.restarts = l.restarts /\ a.controlled = l.controlled
    BY <1>1, AnswerFields
  <1> HIDE DEF x, a
  <1>a. n \in Nat
    BY <1>4 DEF Type
  <1> HIDE DEF n
  <1>5. /\ l' \in Type /\ l'.calls = a.calls /\ l'.inbox = a.inbox
        /\ l'.restarts = a.restarts
    BY <1>a, <1>2, <1>4 DEF Type
  <1>6. SameLink(a, l') /\ SameNumber(a, l') /\ l'.active = a.active
    BY <1>2, <1>4 DEF Type, SameLink, SameNumber
  <1>7. SameSetup(a, l') /\ l'.init = a.init /\ l'.announced = a.announced
    BY <1>2, <1>4 DEF Type, SameSetup
  <1>8. /\ l'.up = a.up /\ l'.registered = a.registered
        /\ l'.isActive = a.isActive /\ l'.controlled = a.controlled
    BY <1>2, <1>4 DEF Type
  <1>9. SameKWin(l, l')
    BY <1>4, <1>6, <1>7 DEF SameKWin, SameLink, SameNumber, SameSetup
  <1>10. /\ l'.calls = Tail(l.calls) /\ l'.inbox = Append(l.inbox, x)
         /\ l'.up = l.up /\ l'.registered = l.registered
         /\ l'.isActive = l.isActive /\ l'.restarts = l.restarts
    BY <1>4, <1>5, <1>8
  <1>11. IF x.ok THEN l'.controlled ELSE l'.controlled => l.controlled
    BY <1>3, <1>4, <1>8
  <1>12. Good(l') /\ Steady(l')
    <2>1. x.type = "TakeControl"
      BY <1>1, <1>3
    <2> QED
      BY <1>1, <1>3, <1>4, <1>5, <1>9, <1>10, <1>11, <2>1, Answered DEF LInv
  <1> QED
    BY <1>12 DEF LInv

(* logind is there again: KWin is told, and has not been told of a session *)
(* since it went away.                                                     *)
LEMMA LogindStartsKeeps ==
    ASSUME LInv, LogindStarts
    PROVE  LInv'
  <1> DEFINE x == [type |-> "Registered"]
             r == Append(l.inbox, x)
  <1>1. Good(l) /\ Steady(l) /\ l \in Type /\ ~l.up
    BY DEF LInv, Good, LogindStarts
  <1>2. x \in Messages /\ x.type = "Registered"
    BY DEF Messages, Signals
  <1>3. l' = [l EXCEPT !.up = TRUE, !.inbox = r]
    BY DEF LogindStarts
  <1> HIDE DEF x
  <1>4. /\ r \in Seq(Messages)
        /\ \A S : Has(r, S) <=> Has(l.inbox, S) \/ x \in S
        /\ \A S, T : Last(r, S, T) <=>
                        x \in S \/ (Last(l.inbox, S, T) /\ x \notin T)
        /\ \A S : AtMostOne(l.inbox, S) /\ (x \in S => ~Has(l.inbox, S))
                     => AtMostOne(r, S)
    BY <1>1, <1>2, InboxAppended
  <1>5. /\ x \notin Taken /\ x \notin Lost /\ x \notin Found
        /\ x \notin Granted /\ x \in Leads
    BY <1>2, Kinds
  <1> HIDE DEF r
  <1>6. l' \in Type /\ l'.calls = l.calls /\ l'.inbox = r
    BY <1>1, <1>3, <1>4 DEF Type, Messages, Answers
  <1>7. SameLink(l, l') /\ SameNumber(l, l') /\ l'.active = l.active
    BY <1>1, <1>3 DEF Type, SameLink, SameNumber
  <1>8. SameSetup(l, l') /\ l'.init = l.init /\ l'.announced = l.announced
    BY <1>1, <1>3 DEF Type, SameSetup
  <1>9. /\ l'.up /\ l'.registered = l.registered
        /\ l'.restarts = l.restarts /\ l'.controlled = l.controlled
    BY <1>1, <1>3 DEF Type
  <1>10. Single(l')
    BY <1>1, <1>4, <1>5, <1>6, <1>8 DEF Good, Single, SameSetup
  <1>11. Gone(l') /\ Known(l') /\ Searched(l')
    BY <1>1, <1>4, <1>5, <1>6, <1>7, <1>9
       DEF Good, Gone, Known, Searched, SameLink
  <1>12. Followed(l') /\ Numbered(l')
    <2>1. ~Linked(l')
      BY <1>1, <1>4, <1>6, <1>7 DEF Linked, Good, Gone, SameLink
    <2> QED
      BY <1>1, <1>7, <2>1
         DEF Good, Followed, Numbered, SameLink, SameNumber
  <1>13. Steady(l')
    BY <1>1, <1>4, <1>5, <1>6, <1>7, <1>8, <1>9
       DEF Steady, SameLink, SameSetup
  <1> QED
    BY <1>6, <1>10, <1>11, <1>12, <1>13 DEF LInv, Good

(* The session is switched: KWin is told, or does not know of it.          *)
LEMMA SwitchSessionKeeps ==
    ASSUME LInv, SwitchSession
    PROVE  LInv'
  <1> DEFINE x == [type |-> "PropertiesChanged"]
             a == Append(l.inbox, x)
             r == IF l.watched THEN a ELSE l.inbox
             v == ~l.isActive
  <1>1. Good(l) /\ Steady(l) /\ l \in Type /\ l.up
    BY DEF LInv, Good, SwitchSession
  <1>2. x \in Messages /\ x.type = "PropertiesChanged"
    BY DEF Messages, Signals
  <1>3. l' = [l EXCEPT !.isActive = v, !.inbox = r] /\ v \in BOOLEAN
    BY DEF SwitchSession
  <1> HIDE DEF x, v
  <1>4. /\ a \in Seq(Messages)
        /\ \A S : Has(a, S) <=> Has(l.inbox, S) \/ x \in S
        /\ \A S, T : Last(a, S, T) <=>
                        x \in S \/ (Last(l.inbox, S, T) /\ x \notin T)
        /\ \A S : AtMostOne(l.inbox, S) /\ (x \in S => ~Has(l.inbox, S))
                     => AtMostOne(a, S)
    BY <1>1, <1>2, InboxAppended
  <1>5. /\ x \notin Taken /\ x \notin Lost /\ x \notin Found
        /\ x \notin Granted /\ x \notin Leads /\ x \in Changed
    BY <1>2, Kinds
  <1> HIDE DEF a
  <1>a. l.inbox \in Seq(Messages)
    BY <1>1 DEF Type, Messages, Answers
  <1>b. /\ r \in Seq(Messages)
        /\ Has(r, Taken) <=> Has(l.inbox, Taken)
        /\ Has(r, Lost) <=> Has(l.inbox, Lost)
        /\ Has(r, Found) <=> Has(l.inbox, Found)
        /\ Has(r, Granted) <=> Has(l.inbox, Granted)
        /\ Has(l.inbox, Numbers) => Has(r, Numbers)
        /\ Last(r, Leads, Lost) <=> Last(l.inbox, Leads, Lost)
        /\ l.watched => Has(r, Changed)
        /\ AtMostOne(l.inbox, Taken) => AtMostOne(r, Taken)
    BY <1>a, <1>4, <1>5
  <1> HIDE DEF r
  <1>6. l' \in Type /\ l'.calls = l.calls /\ l'.inbox = r
    BY <1>1, <1>3, <1>b DEF Type, Messages, Answers
  <1>7. SameLink(l, l') /\ SameNumber(l, l') /\ l'.active = l.active
    BY <1>1, <1>3 DEF Type, SameLink, SameNumber
  <1>8. SameSetup(l, l') /\ l'.init = l.init /\ l'.announced = l.announced
    BY <1>1, <1>3 DEF Type, SameSetup
  <1>9. /\ l'.up = l.up /\ l'.registered = l.registered
        /\ l'.restarts = l.restarts /\ l'.controlled = l.controlled
    BY <1>1, <1>3 DEF Type
  <1>10. Single(l')
    BY <1>1, <1>b, <1>6, <1>8 DEF Good, Single, SameSetup
  <1>11. Gone(l') /\ Known(l') /\ Searched(l')
    BY <1>1, <1>b, <1>6, <1>7, <1>9
       DEF Good, Gone, Known, Searched, SameLink
  <1>12. Followed(l')
    BY <1>1, <1>b, <1>6, <1>7 DEF Good, Followed, Linked, SameLink
  <1>13. Numbered(l')
    BY <1>1, <1>b, <1>6, <1>7, <1>9
       DEF Good, Numbered, Linked, SameLink, SameNumber
  <1>14. Steady(l')
    BY <1>1, <1>b, <1>6, <1>7, <1>8, <1>9
       DEF Steady, SameLink, SameSetup
  <1> QED
    BY <1>6, <1>10, <1>11, <1>12, <1>13, <1>14 DEF LInv, Good

(* The backend asks for control, or waits for the session.                 *)
LEMMA BackendInitKeeps ==
    ASSUME LInv, BackendInit
    PROVE  LInv'
  <1>1. Good(l) /\ Steady(l) /\ l \in Type /\ ~l.init
    BY DEF LInv, Good, BackendInit
  <1> DEFINE Starts(t) ==
          /\ t \in Type /\ t.init /\ t.inbox = l.inbox /\ t.calls = l.calls
          /\ SameLink(l, t) /\ SameNumber(l, t) /\ SameSetup(l, t)
          /\ t.active = l.active /\ t.up = l.up
          /\ t.registered = l.registered /\ t.isActive = l.isActive
          /\ t.controlled = l.controlled /\ t.restarts = l.restarts
  <1>2. ASSUME NEW t, Starts(t) PROVE Good(t) /\ Steady(t)
    <2>1. Single(t) /\ Gone(t) /\ Known(t) /\ Searched(t)
      BY <1>1, <1>2 DEF Good, Single, Gone, Known, Searched, SameLink, SameSetup
    <2>2. Followed(t) /\ Numbered(t)
      BY <1>1, <1>2
         DEF Good, Followed, Numbered, Linked, SameLink, SameNumber
    <2>3. Steady(t)
      BY <1>1, <1>2 DEF Steady, SameLink, SameSetup
    <2> QED
      BY <1>2, <2>1, <2>2, <2>3 DEF Good
  <1>3. CASE ~l.connected
    <2>1. l' = [l EXCEPT !.init = TRUE, !.announced = TRUE]
      BY <1>3 DEF BackendInit
    <2>2. l' \in Type /\ l'.inbox = l.inbox /\ l'.calls = l.calls
          /\ l'.restarts = l.restarts
      BY <1>1, <2>1 DEF Type
    <2>3. l'.init /\ SameLink(l, l') /\ SameNumber(l, l')
          /\ l'.active = l.active
      BY <1>1, <2>1 DEF Type, SameLink, SameNumber
    <2>4. SameSetup(l, l')
      BY <1>1, <2>1 DEF Type, SameSetup
    <2>5. /\ l'.up = l.up /\ l'.registered = l.registered
          /\ l'.isActive = l.isActive /\ l'.controlled = l.controlled
      BY <1>1, <2>1 DEF Type
    <2>6. Good(l') /\ Steady(l')
      BY <1>2, <2>2, <2>3, <2>4, <2>5
    <2> QED
      BY <2>6 DEF LInv
  <1>4. CASE l.connected
    <2> DEFINE t == [l EXCEPT !.init = TRUE]
    <2>1. l' = backendTakeControl(t)
      BY <1>4 DEF BackendInit
    <2>2. t \in Type /\ t.inbox = l.inbox /\ t.calls = l.calls
          /\ t.restarts = l.restarts
      BY <1>1 DEF Type
    <2>3. t.init /\ SameLink(l, t) /\ SameNumber(l, t) /\ t.active = l.active
      BY <1>1 DEF Type, SameLink, SameNumber
    <2>4. SameSetup(l, t)
      BY <1>1 DEF Type, SameSetup
    <2>5. /\ t.up = l.up /\ t.registered = l.registered
          /\ t.isActive = l.isActive /\ t.controlled = l.controlled
      BY <1>1 DEF Type
    <2> HIDE DEF t
    <2>6. Good(t) /\ Steady(t)
      BY <1>2, <2>2, <2>3, <2>4, <2>5
    <2>7. /\ Asks(t, l') /\ (t.connected => l'.retry = t.retry)
          /\ ~t.control => /\ l'.openers = t.openers + 1
                           /\ l'.opened = t.opened
      BY <2>1, <2>2, BackendAsks
    <2>8. Good(l')
      BY <2>6, <2>7, AsksGood
    <2>9. t.restarts = 0 =>
             /\ ~t.retry /\ t.openers = 0 /\ ~t.control /\ t.opened = 0
      BY <1>1, <2>2, <2>4, <2>6 DEF Steady, SameSetup
    <2>10. t.connected
      BY <1>4, <2>3 DEF SameLink
    <2>11. t.restarts = 0 =>
              /\ ~l'.retry /\ l'.openers <= 1 /\ l'.opened <= 1
              /\ l'.openers = 0 \/ (t.connected /\ t.init)
              /\ t.init \/ l'.calling = t.calling
              /\ ~t.control => l'.opened = 0
      BY <2>3, <2>7, <2>9, <2>10
    <2>12. Steady(l')
      BY <2>6, <2>7, <2>11, AsksSteady
    <2> QED
      BY <2>8, <2>12 DEF LInv
  <1> QED
    BY <1>3, <1>4

LEMMA MemberFacts ==
    ASSUME NEW X, NEW q \in Seq(X)
    PROVE  DOMAIN q = 1..Len(q) /\ \A i \in DOMAIN q : q[i] \in X
  OBVIOUS

(* The bus answers each of the calls with an error.                        *)
Error(x) == [type |-> x, ok |-> FALSE, value |-> FALSE]
Errors(c) == [i \in DOMAIN c |-> Error(c[i])]
Closed(q, u, c) == Append(q, u) \o Errors(c)

(* What the bus queues when logind goes away: that it did, and an error    *)
(* for each of the calls.                                                  *)
LEMMA StopsQueue ==
    ASSUME NEW q \in Seq(Messages), NEW c \in Seq(Calls), NEW u \in Messages
    PROVE  /\ Closed(q, u, c) \in Seq(Messages)
           /\ DOMAIN Closed(q, u, c) = 1..(Len(q) + 1 + Len(c))
           /\ \A i \in DOMAIN Closed(q, u, c) : Closed(q, u, c)[i] \in Messages
           /\ \A i \in 1..Len(q) : Closed(q, u, c)[i] = q[i]
           /\ Closed(q, u, c)[Len(q) + 1] = u
           /\ \A j \in 1..Len(c) :
                 Closed(q, u, c)[Len(q) + 1 + j] = Error(c[j])
  <1> DEFINE a == Append(q, u)
             e == Errors(c)
             z == Closed(q, u, c)
             n == Len(q)
             k == Len(c)
  <1>1. /\ n \in Nat /\ k \in Nat /\ DOMAIN c = 1..k /\ DOMAIN q = 1..n
        /\ a \in Seq(Messages) /\ Len(a) = n + 1 /\ a[n + 1] = u
        /\ \A i \in 1..n : a[i] = q[i]
    OBVIOUS
  <1>2. \A j \in 1..k : /\ e[j] = Error(c[j])
                        /\ e[j] \in Messages
    <2>1. \A j \in 1..k : c[j] \in Calls
      OBVIOUS
    <2> QED
      BY <1>1, <2>1 DEF Messages, Answers, Error, Errors
  <1>3. e \in Seq(Messages) /\ Len(e) = k
    <2>1. e \in [1..k -> Messages]
      BY <1>1, <1>2 DEF Errors
    <2> HIDE DEF e, k
    <2> QED
      BY <1>1, <2>1
  <1>4. z = a \o e
    BY DEF Closed
  <1> HIDE DEF a, e, z, n, k
  <1>5. /\ z \in Seq(Messages) /\ Len(z) = Len(a) + Len(e)
        /\ \A i \in 1..Len(a) : z[i] = a[i]
        /\ \A j \in 1..Len(e) : z[Len(a) + j] = e[j]
    <2>1. a \in Seq(Messages) /\ e \in Seq(Messages)
      BY <1>1, <1>3
    <2> QED
      BY ONLY <1>4, <2>1
  <1>6. /\ Len(z) = n + 1 + k
        /\ \A i \in 1..(n + 1) : z[i] = a[i]
        /\ \A j \in 1..k : z[n + 1 + j] = e[j]
    BY ONLY <1>1, <1>3, <1>5
  <1>7. DOMAIN z = 1..(n + 1 + k) /\ \A i \in DOMAIN z : z[i] \in Messages
    BY ONLY <1>5, <1>6, MemberFacts
  <1>8. z[n + 1] = u /\ \A i \in 1..n : z[i] = q[i]
    BY ONLY <1>1, <1>6
  <1>9. \A j \in 1..k :
           z[n + 1 + j] = Error(c[j])
    BY ONLY <1>2, <1>6
  <1> QED
    BY <1>5, <1>7, <1>8, <1>9 DEF z, n, k

(* The bus answers for a logind that is gone, and behind the message that  *)
(* it is: no session is found any more, and a TakeControl comes back.      *)
LEMMA LogindStopsKeeps ==
    ASSUME LInv, LogindStops
    PROVE  LInv'
  <1> DEFINE u == [type |-> "Unregistered"]
             c == l.calls
             q == l.inbox
             z == Closed(q, u, c)
             x == l.restarts + 1
             n == Len(q)
             k == Len(c)
  <1>1. Good(l) /\ l \in Type
    BY DEF LInv, Good
  <1>2. l' = [l EXCEPT !.up = FALSE, !.controlled = FALSE, !.calls = <<>>,
                       !.restarts = x, !.inbox = z]
    BY DEF LogindStops, Error, Errors, Closed
  <1>3. /\ c \in Seq(Calls) /\ q \in Seq(Messages) /\ x \in Nat /\ x # 0
    BY <1>1 DEF Type, Messages, Answers
  <1>4. u \in Messages /\ u.type = "Unregistered"
    BY DEF Messages, Signals
  <1>5. n \in Nat /\ k \in Nat /\ DOMAIN q = 1..n /\ DOMAIN c = 1..k
    BY <1>3
  <1> HIDE DEF u, c, q
  <1>6. /\ z \in Seq(Messages) /\ DOMAIN z = 1..(n + 1 + k)
        /\ \A i \in DOMAIN z : z[i] \in Messages
        /\ \A i \in 1..n : z[i] = q[i]
        /\ z[n + 1] = u
        /\ \A j \in 1..k :
              z[n + 1 + j] = Error(c[j])
    BY <1>3, <1>4, StopsQueue
  <1> HIDE DEF z, x, n, k
  <1>7. /\ l' \in Type /\ l'.calls = <<>> /\ l'.inbox = z /\ l'.restarts = x
    <2> DEFINE o == <<>>
    <2>1. o \in Seq(Calls)
      OBVIOUS
    <2>2. l' = [l EXCEPT !.up = FALSE, !.controlled = FALSE, !.calls = o,
                         !.restarts = x, !.inbox = z]
      BY <1>2
    <2> HIDE DEF o
    <2>3. /\ l' \in Type /\ l'.calls = o /\ l'.inbox = z /\ l'.restarts = x
      BY <1>1, <1>3, <1>6, <2>1, <2>2 DEF Type, Messages, Answers
    <2> QED
      BY <2>3 DEF o
  <1>8. SameLink(l, l') /\ SameNumber(l, l') /\ ~l'.up
    BY <1>1, <1>2 DEF Type, SameLink, SameNumber
  <1>9. SameSetup(l, l') /\ l'.registered = l.registered
    BY <1>1, <1>2 DEF Type, SameSetup
  <1>10. /\ u \in Lost /\ u \notin Found /\ u \notin Taken
    BY <1>4, Kinds
  <1>11. \A j \in 1..k : /\ z[n + 1 + j] \notin Found
                         /\ z[n + 1 + j] \in Taken <=> c[j] = "TakeControl"
    <2> SUFFICES ASSUME NEW j \in 1..k
                 PROVE  /\ z[n + 1 + j] \notin Found
                        /\ z[n + 1 + j] \in Taken <=> c[j] = "TakeControl"
      OBVIOUS
    <2> DEFINE m == z[n + 1 + j]
    <2>a. m = Error(c[j])
      BY <1>6
    <2> HIDE DEF m
    <2>1. m.type = c[j] /\ ~m.ok
      BY <2>a DEF Error
    <2>2. m \in Messages
      <3>1. n + 1 + j \in DOMAIN z
        BY <1>5, <1>6
      <3> QED
        BY <1>6, <3>1 DEF m
    <2>3. m \notin Found /\ (m \in Taken <=> c[j] = "TakeControl")
      BY <2>1, <2>2, Kinds
    <2> QED
      BY <2>3 DEF m
  <1>12. \A i \in DOMAIN z : \/ i \in 1..n
                             \/ i = n + 1
                             \/ i - (n + 1) \in 1..k /\ i = n + 1 + (i - (n + 1))
    BY <1>5, <1>6
  <1>13. \A i \in 1..n : i \in DOMAIN z /\ i < n + 1 /\ i \in DOMAIN q
    BY <1>5, <1>6
  <1>14. n + 1 \in DOMAIN z /\ \A j \in 1..k : n + 1 + j \in DOMAIN z
    BY <1>5, <1>6
  <1>15. Has(z, Lost)
    BY <1>6, <1>10, <1>14 DEF Has
  <1>16. \A i \in DOMAIN z : z[i] \in Found => i \in 1..n
    BY <1>6, <1>10, <1>11, <1>12
  <1>17. ~Last(z, Found, Lost)
    <2> SUFFICES ASSUME NEW i \in DOMAIN z, z[i] \in Found
                 PROVE  \E j \in DOMAIN z : j > i /\ z[j] \in Lost
      BY DEF Last
    <2>1. i \in 1..n
      BY <1>16
    <2>2. n + 1 > i
      BY <1>5, <2>1
    <2> QED
      BY <1>6, <1>10, <1>14, <2>2
  <1>18. Has(z, Found) => Has(q, Found)
    BY <1>6, <1>13, <1>16 DEF Has
  <1>19. \A i \in DOMAIN z : z[i] \in Taken =>
            \/ i \in 1..n /\ q[i] \in Taken
            \/ i - (n + 1) \in 1..k /\ c[i - (n + 1)] = "TakeControl"
    BY <1>6, <1>10, <1>11, <1>12
  <1>20. Single(l)
    BY <1>1 DEF Good
  <1>21. Has(z, Taken) <=> Has(c, {"TakeControl"}) \/ Has(q, Taken)
    <2>1. ASSUME Has(z, Taken) PROVE Has(c, {"TakeControl"}) \/ Has(q, Taken)
      BY <1>5, <1>19, <2>1 DEF Has
    <2>2. ASSUME Has(q, Taken) PROVE Has(z, Taken)
      BY <1>5, <1>6, <1>13, <2>2 DEF Has
    <2>3. ASSUME Has(c, {"TakeControl"}) PROVE Has(z, Taken)
      BY <1>5, <1>11, <1>14, <2>3 DEF Has
    <2> QED
      BY <2>1, <2>2, <2>3
  <1>22. AtMostOne(z, Taken)
    <2> SUFFICES ASSUME NEW i \in DOMAIN z, NEW j \in DOMAIN z,
                        z[i] \in Taken, z[j] \in Taken
                 PROVE  i = j
      BY DEF AtMostOne
    <2>1. CASE i \in 1..n /\ q[i] \in Taken
      <3>1. ~Has(c, {"TakeControl"}) /\ AtMostOne(q, Taken)
        BY <1>13, <1>20, <2>1 DEF Single, Has, c, q
      <3>2. j \in 1..n /\ q[j] \in Taken
        BY <1>5, <1>19, <3>1 DEF Has
      <3> QED
        BY <1>13, <2>1, <3>1, <3>2 DEF AtMostOne
    <2>2. CASE i - (n + 1) \in 1..k /\ c[i - (n + 1)] = "TakeControl"
      <3>1. Has(c, {"TakeControl"})
        BY <1>5, <2>2 DEF Has
      <3>2. ~Has(q, Taken) /\ AtMostOne(c, {"TakeControl"})
        BY <1>20, <3>1 DEF Single, c, q
      <3>3. j - (n + 1) \in 1..k /\ c[j - (n + 1)] = "TakeControl"
        BY <1>13, <1>19, <3>2 DEF Has
      <3>4. i - (n + 1) = j - (n + 1)
        BY <1>5, <2>2, <3>2, <3>3 DEF AtMostOne
      <3> QED
        BY <1>5, <1>6, <3>4
    <2> QED
      BY <1>19, <2>1, <2>2
  <1>23. Single(l')
    <2>1. ~Has(<<>>, {"TakeControl"}) /\ AtMostOne(<<>>, {"TakeControl"})
      BY DEF Has, AtMostOne
    <2> QED
      BY <1>7, <1>9, <1>20, <1>21, <1>22, <2>1 DEF Single, SameSetup, c, q
  <1>24. Gone(l') /\ Known(l') /\ Searched(l')
    BY <1>1, <1>7, <1>8, <1>9, <1>15, <1>17, <1>18
       DEF Good, Gone, Known, Searched, SameLink, q
  <1>25. Followed(l') /\ Numbered(l')
    BY <1>1, <1>8 DEF Good, Followed, Numbered, Linked, SameLink, SameNumber
  <1>26. Steady(l')
    BY <1>3, <1>7 DEF Steady
  <1> QED
    BY <1>7, <1>23, <1>24, <1>25, <1>26 DEF LInv, Good

LEMMA InitHolds ==
    ASSUME Init
    PROVE  LInv
  <1>1. PICK up \in BOOLEAN, registered \in BOOLEAN, isActive \in BOOLEAN :
        l = [init |-> FALSE, connected |-> FALSE, control |-> FALSE,
             active |-> FALSE, vtnr |-> FALSE, watched |-> FALSE,
             calling |-> FALSE, retry |-> FALSE, announced |-> FALSE,
             openers |-> 0, tty |-> FALSE, waits |-> FALSE, opened |-> 0,
             calls |-> <<"ListNames">>, inbox |-> <<>>, up |-> up,
             registered |-> registered, isActive |-> isActive,
             controlled |-> FALSE, restarts |-> 0, refusals |-> 0]
    BY DEF Init
  <1>2. l \in Type
    <2> DEFINE c == <<"ListNames">>
               q == <<>>
    <2>1. c \in Seq(Calls) /\ q \in Seq(Messages)
      BY DEF Calls
    <2> HIDE DEF c, q
    <2>2. l = [init |-> FALSE, connected |-> FALSE, control |-> FALSE,
               active |-> FALSE, vtnr |-> FALSE, watched |-> FALSE,
               calling |-> FALSE, retry |-> FALSE, announced |-> FALSE,
               openers |-> 0, tty |-> FALSE, waits |-> FALSE, opened |-> 0,
               calls |-> c, inbox |-> q, up |-> up,
               registered |-> registered, isActive |-> isActive,
               controlled |-> FALSE, restarts |-> 0, refusals |-> 0]
      BY <1>1 DEF c, q
    <2> QED
      BY <2>1, <2>2 DEF Type, Messages, Answers
  <1>3. l.calls = <<"ListNames">> /\ l.inbox = <<>>
    BY <1>1
  <1>4. ~l.connected /\ ~l.vtnr /\ ~l.calling /\ ~l.control /\ ~l.controlled
        /\ ~l.retry /\ ~l.announced
    BY <1>1
  <1>5. l.openers = 0 /\ l.opened = 0
    BY <1>1
  <1>6. \A S : ~Has(l.inbox, S) /\ AtMostOne(l.inbox, S)
    BY <1>3 DEF Has, AtMostOne
  <1>7. \A S, T : ~Last(l.inbox, S, T)
    BY <1>3 DEF Last
  <1>8. /\ Has(l.calls, {"ListNames", "GetSessionByPID"})
        /\ ~Has(l.calls, {"TakeControl"})
        /\ AtMostOne(l.calls, {"TakeControl"})
    <2> DEFINE c == <<"ListNames">>
    <2>1. DOMAIN c = {1} /\ c[1] = "ListNames"
      OBVIOUS
    <2> HIDE DEF c
    <2>2. l.calls = c
      BY <1>3 DEF c
    <2> QED
      BY <2>1, <2>2 DEF Has, AtMostOne
  <1>9. Good(l)
    BY <1>2, <1>4, <1>6, <1>7, <1>8
       DEF Good, Single, Gone, Known, Searched, Followed, Numbered, Linked
  <1>10. Steady(l)
    BY <1>4, <1>5, <1>6 DEF Steady
  <1> QED
    BY <1>9, <1>10 DEF LInv

-----------------------------------------------------------------------------
(* The theorems.                                                           *)

(* In every reachable state, whatever order the messages of logind, of the *)
(* bus and of KWin arrive in and however often logind is restarted: what   *)
(* KWin does not know yet is under way to it, or will be asked for, and    *)
(* s_recursionCheck stands for a TakeControl that has not been answered.   *)
THEOREM LogindInvariant == Spec => []LInv
  <1>1. Init => LInv
    BY InitHolds
  <1>2. LInv /\ [Next]_l => LInv'
    <2> SUFFICES ASSUME LInv, [Next]_l PROVE LInv'
      OBVIOUS
    <2>1. CASE BackendInit
      BY <2>1, BackendInitKeeps
    <2>2. CASE Handle
      BY <2>2, HandleKeeps
    <2>3. CASE Answer
      BY <2>3, AnswerKeeps
    <2>4. CASE GiveControl
      BY <2>4, GiveControlKeeps
    <2>5. CASE RefuseControl
      BY <2>5, RefuseControlKeeps
    <2>6. CASE LogindStops
      BY <2>6, LogindStopsKeeps
    <2>7. CASE LogindStarts
      BY <2>7, LogindStartsKeeps
    <2>8. CASE SwitchSession
      BY <2>8, SwitchSessionKeeps
    <2>9. CASE UNCHANGED l
      BY <2>9 DEF LInv
    <2> QED
      BY <2>1, <2>2, <2>3, <2>4, <2>5, <2>6, <2>7, <2>8, <2>9 DEF Next
  <1> QED
    BY <1>1, <1>2, PTL DEF Spec

(* Every member keeps its type.                                            *)
THEOREM TypeCorrect == Spec => []TypeOK
  <1>1. LInv => TypeOK
    BY DEF LInv, Good, TypeOK
  <1> QED
    BY <1>1, LogindInvariant, PTL

(* takeControl(): for any number of parties that ask and of restarts,      *)
(* there is one TakeControl under way exactly while s_recursionCheck is    *)
(* set, so that an answer never meets a flag that belongs to another call. *)
THEOREM OneTakeControlUnderWay == Spec => []OneTakeControl
  <1>1. ASSUME NEW q, NEW S, AtMostOne(q, S)
        PROVE  Cardinality({i \in DOMAIN q : q[i] \in S})
                  = IF Has(q, S) THEN 1 ELSE 0
    <2> DEFINE I == {i \in DOMAIN q : q[i] \in S}
    <2>1. CASE Has(q, S)
      <3>1. PICK i \in DOMAIN q : q[i] \in S
        BY <2>1 DEF Has
      <3>2. I = {i}
        BY <1>1, <3>1 DEF AtMostOne
      <3> QED
        BY <2>1, <3>2, FS_Singleton
    <2>2. CASE ~Has(q, S)
      <3>1. I = {}
        BY <2>2 DEF Has
      <3> QED
        BY <2>2, <3>1, FS_EmptySet
    <2> QED
      BY <2>1, <2>2
  <1>2. LInv => OneTakeControl
    <2> SUFFICES ASSUME LInv PROVE OneTakeControl
      OBVIOUS
    <2> DEFINE C == {i \in DOMAIN l.calls : l.calls[i] = "TakeControl"}
               M == {i \in DOMAIN l.inbox : l.inbox[i].type = "TakeControl"}
    <2>1. l \in Type /\ Single(l)
      BY DEF LInv, Good
    <2>2. C = {i \in DOMAIN l.calls : l.calls[i] \in {"TakeControl"}}
      OBVIOUS
    <2>3. M = {i \in DOMAIN l.inbox : l.inbox[i] \in Taken}
      <3>1. l.inbox \in Seq(Messages)
        BY <2>1 DEF Type, Messages, Answers
      <3>2. \A i \in DOMAIN l.inbox : l.inbox[i] \in Messages
        BY <3>1
      <3>3. \A i \in DOMAIN l.inbox :
               l.inbox[i] \in Taken <=> l.inbox[i].type = "TakeControl"
        BY <3>2, Kinds
      <3> QED
        BY <3>3
    <2>4. Cardinality(C) = IF Has(l.calls, {"TakeControl"}) THEN 1 ELSE 0
      BY <1>1, <2>1, <2>2 DEF Single
    <2>5. Cardinality(M) = IF Has(l.inbox, Taken) THEN 1 ELSE 0
      BY <1>1, <2>1, <2>3 DEF Single
    <2>6. OneTakeControl <=> Cardinality(C) + Cardinality(M)
                                = IF l.calling THEN 1 ELSE 0
      BY DEF OneTakeControl
    <2> HIDE DEF C, M
    <2> QED
      BY <2>1, <2>4, <2>5, <2>6 DEF Single
  <1> QED
    BY <1>2, LogindInvariant, PTL

(* m_sessionControl and openDrm(): until logind is restarted KWin believes *)
(* to control its session only if it does, and opens the device once,      *)
(* however often control was refused and however late the backend asked.   *)
THEOREM DeviceOpenedOnce == Spec => []ControlledOnce
  <1>1. LInv => ControlledOnce
    BY DEF LInv, Steady, ControlledOnce
  <1> QED
    BY <1>1, LogindInvariant, PTL

(* connected, m_sessionActive and the terminal: when no message is under   *)
(* way they are what logind says, for every order of answers, signals,     *)
(* restarts and switches before.                                           *)
THEOREM SessionInStep == Spec => []InStepAtRest
  <1>1. LInv => InStepAtRest
    <2> SUFFICES ASSUME LInv, l.calls = <<>>, l.inbox = <<>>, l.up
                 PROVE  /\ l.connected = l.registered
                        /\ l.connected => /\ l.active = l.isActive
                                          /\ l.vtnr /\ (l.waits => l.tty)
      BY DEF InStepAtRest
    <2>1. \A S : ~Has(l.inbox, S) /\ ~Has(l.calls, S)
      BY DEF Has
    <2>2. \A S, T : ~Last(l.inbox, S, T)
      BY DEF Last
    <2>3. l \in Type /\ l.connected \in BOOLEAN /\ l.registered \in BOOLEAN
      BY DEF LInv, Good, Type
    <2>4. l.connected <=> l.registered
      BY <2>1, <2>2 DEF LInv, Good, Known, Searched
    <2>5. l.connected => l.active = l.isActive
      BY <2>1, <2>2 DEF LInv, Good, Followed, Linked
    <2>6. l.connected => l.vtnr /\ (l.waits => l.tty)
      BY <2>1 DEF LInv, Good, Numbered, Linked
    <2> QED
      BY <2>3, <2>4, <2>5, <2>6
  <1> QED
    BY <1>1, LogindInvariant, PTL
=============================================================================
