------------------------ MODULE SmallComponentsProofs ------------------------
(***************************************************************************)
(* Proofs about the three smaller components of compositing, in this       *)
(* order:                                                                  *)
(*                                                                         *)
(* EffectLoader: its types, that exactly one dequeue() is under way while  *)
(* effects are queued, and that an effect is loaded once, for any effects, *)
(* loaders, configuration and number of searches.                          *)
(*                                                                         *)
(* CrashRecovery: its types, that a driver which crashes in createScene()  *)
(* does so once, and that a broken driver alone never costs the user the   *)
(* window manager, for any number of sessions, crashes and choices.        *)
(*                                                                         *)
(* SyncRequest: its types, that KWin waits for a client without a timer in *)
(* two cases only, and that a client never has more requests to answer     *)
(* than it has advertised counters, for any number of requests, resizes    *)
(* and counters.                                                           *)
(***************************************************************************)
EXTENDS EffectLoader, CrashRecovery, SyncRequest, FiniteSetTheorems, TLAPS

-----------------------------------------------------------------------------
(* EffectLoader.                                                           *)

-----------------------------------------------------------------------------
(* Sequences.                                                              *)

LEMMA ListType ==
    ASSUME NEW S \in SUBSET Effects, NEW list \in SetToSeqs(S)
    PROVE  list \in Seq(Effects)
<1>1. IsFiniteSet(S)
  BY EffectsAssumption, FS_Subset
<1>2. Cardinality(S) \in Nat
  BY <1>1, FS_CardinalityType
<1>3. list \in [1..Cardinality(S) -> S]
  BY DEF SetToSeqs
<1> QED
  BY <1>2, <1>3

LEMMA EntriesType ==
    ASSUME NEW list \in Seq(Effects)
    PROVE  entriesFor(list) \in Seq(Entries)
<1>1. list \in [1..Len(list) -> Effects] /\ Len(list) \in Nat
  OBVIOUS
<1>2. entriesFor(list) \in [1..Len(list) -> Entries]
  BY <1>1 DEF entriesFor, Entries
<1> QED
  BY <1>1, <1>2

LEMMA WantedType ==
    ASSUME NEW n \in Loaders
    PROVE  Wanted(n) \in SUBSET Effects
BY DEF Wanted

(* What a concatenation and a tail are empty for.                          *)
LEMMA ConcatFacts ==
    ASSUME NEW S, NEW s \in Seq(S), NEW t \in Seq(S)
    PROVE  s \o t \in Seq(S) /\ (s \o t = <<>> <=> s = <<>> /\ t = <<>>)
<1>1. s \o t \in Seq(S) /\ Len(s \o t) = Len(s) + Len(t)
  OBVIOUS
<1>2. \A u \in Seq(S) : u = <<>> <=> Len(u) = 0
  OBVIOUS
<1> QED
  BY <1>1, <1>2

LEMMA HeadTail ==
    ASSUME NEW S, NEW s \in Seq(S), s # <<>>
    PROVE  Head(s) \in S /\ Tail(s) \in Seq(S)
OBVIOUS

-----------------------------------------------------------------------------
(* The queue.                                                              *)

QueueType ==
    /\ queue \in [Loaders -> Seq(Entries)]
    /\ scheduled \in [Loaders -> BOOLEAN] /\ posted \in [Loaders -> Nat]

LEMMA EnqueueKeeps ==
    ASSUME QueueType, OneDequeueUnderWay, NEW n \in Loaders,
           NEW entries \in Seq(Entries), enqueue(n, entries)
    PROVE  QueueType' /\ OneDequeueUnderWay'
<1>1. /\ queue' = [queue EXCEPT ![n] = @ \o entries]
      /\ queue[n] \o entries \in Seq(Entries)
      /\ queue[n] \o entries = <<>> <=> queue[n] = <<>> /\ entries = <<>>
  BY ConcatFacts DEF QueueType, enqueue
<1>2. /\ queue' \in [Loaders -> Seq(Entries)]
      /\ queue'[n] = <<>> <=> queue[n] = <<>> /\ entries = <<>>
      /\ \A m \in Loaders : m # n => queue'[m] = queue[m]
  BY <1>1 DEF QueueType
<1>3. CASE entries = <<>> \/ scheduled[n]
  <2>1. UNCHANGED <<scheduled, posted>>
    BY <1>3 DEF enqueue
  <2> QED
    BY <1>2, <1>3, <2>1 DEF QueueType, OneDequeueUnderWay
<1>4. CASE ~(entries = <<>> \/ scheduled[n])
  <2>1. /\ scheduled' = [scheduled EXCEPT ![n] = TRUE]
        /\ posted' = [posted EXCEPT ![n] = @ + 1]
    BY <1>4 DEF enqueue
  <2> QED
    BY <1>2, <1>4, <2>1 DEF QueueType, OneDequeueUnderWay
<1> QED
  BY <1>3, <1>4

LEMMA DequeueKeeps ==
    ASSUME QueueType, OneDequeueUnderWay, NEW n \in Loaders,
           posted[n] > 0, dequeue(n)
    PROVE  QueueType' /\ OneDequeueUnderWay' /\ queue[n] # <<>>
<1>1. queue[n] # <<>> /\ scheduled[n] /\ posted[n] = 1
  BY DEF QueueType, OneDequeueUnderWay
<1>2. Tail(queue[n]) \in Seq(Entries)
  BY <1>1, HeadTail DEF QueueType
<1>3. /\ queue' = [queue EXCEPT ![n] = Tail(@)]
      /\ scheduled' = [scheduled EXCEPT ![n] = Tail(queue[n]) # <<>>]
      /\ posted' = [posted EXCEPT ![n] =
                        IF Tail(queue[n]) # <<>> THEN @ ELSE @ - 1]
  BY <1>1 DEF dequeue
<1>4. queue' \in [Loaders -> Seq(Entries)] /\ queue'[n] = Tail(queue[n])
  BY <1>2, <1>3 DEF QueueType
<1>5. \A m \in Loaders : m # n => /\ queue'[m] = queue[m]
                                 /\ scheduled'[m] = scheduled[m]
                                 /\ posted'[m] = posted[m]
  BY <1>3 DEF QueueType
<1>6. CASE Tail(queue[n]) # <<>>
  <2>1. /\ scheduled' = [scheduled EXCEPT ![n] = TRUE]
        /\ posted' = [posted EXCEPT ![n] = @]
    BY <1>3, <1>6
  <2>2. scheduled'[n] /\ posted'[n] = 1
    BY <1>1, <2>1 DEF QueueType
  <2>3. QueueType'
    BY <1>4, <2>1 DEF QueueType
  <2> QED
    BY <1>1, <1>4, <1>5, <1>6, <2>2, <2>3 DEF OneDequeueUnderWay
<1>7. CASE Tail(queue[n]) = <<>>
  <2>1. /\ scheduled' = [scheduled EXCEPT ![n] = FALSE]
        /\ posted' = [posted EXCEPT ![n] = @ - 1]
    BY <1>3, <1>7
  <2>2. ~scheduled'[n] /\ posted'[n] = 0
    BY <1>1, <2>1 DEF QueueType
  <2>3. QueueType'
    BY <1>1, <1>4, <2>1 DEF QueueType
  <2> QED
    BY <1>1, <1>4, <1>5, <1>7, <2>2, <2>3 DEF OneDequeueUnderWay
<1> QED
  BY <1>6, <1>7

LEMMA QueueKept ==
    ASSUME QueueType, OneDequeueUnderWay, UNCHANGED queueVars
    PROVE  QueueType' /\ OneDequeueUnderWay'
BY DEF QueueType, OneDequeueUnderWay, queueVars

-----------------------------------------------------------------------------
(* What is loaded.                                                         *)

LoadType == loaded \in SUBSET Effects /\ order \in [Effects -> Nat]

LEMMA LoadKeeps ==
    ASSUME LoadType, LoadedOnce, NEW e \in Effects, NEW check, load(e, check)
    PROVE  LoadType' /\ LoadedOnce'
<1>1. CASE loads(e, check, loaded)
  <2>1. e \notin loaded
    BY <1>1 DEF loads
  <2> QED
    BY <1>1, <2>1 DEF load, LoadType, LoadedOnce
<1>2. CASE ~loads(e, check, loaded)
  BY <1>2 DEF load, LoadType, LoadedOnce
<1> QED
  BY <1>1, <1>2

LEMMA UnloadKeeps ==
    ASSUME LoadType, LoadedOnce, NEW e \in Effects, order[e] > 0,
           order' = unloaded(e), loaded' = loaded \ {e}
    PROVE  LoadType' /\ LoadedOnce'
BY DEF LoadType, LoadedOnce, unloaded

LEMMA LoadKept ==
    ASSUME LoadType, LoadedOnce, UNCHANGED <<loaded, order>>
    PROVE  LoadType' /\ LoadedOnce'
BY DEF LoadType, LoadedOnce

-----------------------------------------------------------------------------
(* The steps.                                                              *)

RestType ==
    /\ alive \in BOOLEAN /\ config \in [Effects -> {"on", "off", "unset"}]
    /\ running \in [Loaders -> Nat] /\ found \in [Loaders -> Nat]

LoaderInv ==
    /\ RestType /\ QueueType /\ LoadType
    /\ OneDequeueUnderWay /\ LoadedOnce

LEMMA InitInv == LoaderInit => LoaderInv
<1> SUFFICES ASSUME LoaderInit PROVE LoaderInv
  OBVIOUS
<1>1. RestType
  <2>1. alive \in BOOLEAN
    BY DEF LoaderInit
  <2> QED
    BY <2>1 DEF LoaderInit, RestType, None
<1>2. QueueType /\ OneDequeueUnderWay
  BY DEF LoaderInit, QueueType, OneDequeueUnderWay, None
<1>3. LoadType /\ LoadedOnce
  BY DEF LoaderInit, LoadType, LoadedOnce
<1> QED
  BY <1>1, <1>2, <1>3 DEF LoaderInv

LEMMA QueryKeeps ==
    ASSUME LoaderInv, queryAndLoadAll
    PROVE  /\ running' \in [Loaders -> Nat]
           /\ QueueType' /\ OneDequeueUnderWay'
<1>1. running' \in [Loaders -> Nat]
  BY DEF queryAndLoadAll, LoaderInv, RestType
<1>2. PICK list \in SetToSeqs(Wanted("builtin") \ loaded) :
         enqueue("builtin", entriesFor(list))
  BY DEF queryAndLoadAll
<1>3. "builtin" \in Loaders /\ Wanted("builtin") \ loaded \in SUBSET Effects
  BY WantedType DEF Loaders
<1>4. entriesFor(list) \in Seq(Entries)
  BY <1>3, ListType, EntriesType
<1> QED
  BY <1>1, <1>2, <1>3, <1>4, EnqueueKeeps DEF LoaderInv

LEMMA StepInv == LoaderInv /\ [LoaderNext]_loaderVars => LoaderInv'
<1> SUFFICES ASSUME LoaderInv, [LoaderNext]_loaderVars PROVE LoaderInv'
  OBVIOUS
<1>i. RestType /\ QueueType /\ LoadType /\ OneDequeueUnderWay /\ LoadedOnce
  BY DEF LoaderInv
<1>1. CASE Start
  <2>1. alive' \in BOOLEAN
    BY <1>1 DEF Start
  <2>2. QueueType' /\ OneDequeueUnderWay' /\ running' \in [Loaders -> Nat]
    BY <1>1, QueryKeeps DEF Start
  <2>3. LoadType' /\ LoadedOnce'
    BY <1>1, <1>i, LoadKept DEF Start
  <2> QED
    BY <1>1, <1>i, <2>1, <2>2, <2>3 DEF Start, LoaderInv, RestType
<1>2. CASE Reconfigure
  <2>2. QueueType' /\ OneDequeueUnderWay' /\ running' \in [Loaders -> Nat]
    BY <1>2, QueryKeeps DEF Reconfigure
  <2>3. LoadType' /\ LoadedOnce'
    BY <1>2, <1>i, LoadKept DEF Reconfigure
  <2> QED
    BY <1>2, <1>i, <2>2, <2>3 DEF Reconfigure, LoaderInv, RestType
<1>3. CASE Stop
  <2>1. RestType'
    <3>1. alive' \in BOOLEAN
      BY <1>3 DEF Stop
    <3> QED
      BY <1>3, <1>i, <3>1 DEF Stop, RestType, None
  <2>2. QueueType' /\ OneDequeueUnderWay'
    BY <1>3 DEF Stop, QueueType, OneDequeueUnderWay, None
  <2>3. LoadType' /\ LoadedOnce'
    BY <1>3 DEF Stop, LoadType, LoadedOnce
  <2> QED
    BY <2>1, <2>2, <2>3 DEF LoaderInv
<1>4. ASSUME NEW n \in Loaders, SearchEnds(n) PROVE LoaderInv'
  <2>1. RestType'
    BY <1>4, <1>i DEF SearchEnds, RestType
  <2> QED
    BY <1>4, <1>i, <2>1, QueueKept, LoadKept DEF SearchEnds, LoaderInv
<1>5. ASSUME NEW n \in Loaders, Found(n) PROVE LoaderInv'
  <2>1. RestType'
    BY <1>5, <1>i DEF Found, RestType
  <2>2. PICK list \in SetToSeqs(Wanted(n)) : enqueue(n, entriesFor(list))
    BY <1>5 DEF Found
  <2>3. entriesFor(list) \in Seq(Entries)
    BY <1>5, WantedType, ListType, EntriesType
  <2>4. QueueType' /\ OneDequeueUnderWay'
    BY <1>5, <1>i, <2>2, <2>3, EnqueueKeeps
  <2> QED
    BY <1>5, <1>i, <2>1, <2>4, LoadKept DEF Found, LoaderInv
<1>6. ASSUME NEW n \in Loaders, Dequeue(n) PROVE LoaderInv'
  <2>1. RestType'
    BY <1>6, <1>i DEF Dequeue, RestType
  <2>2. QueueType' /\ OneDequeueUnderWay' /\ queue[n] # <<>>
    BY <1>6, <1>i, DequeueKeeps DEF Dequeue
  <2>3. Head(queue[n]) \in Entries
    BY <1>6, <1>i, <2>2, HeadTail DEF QueueType
  <2>4. Head(queue[n]).effect \in Effects
    BY <2>3 DEF Entries
  <2>5. load(Head(queue[n]).effect, Head(queue[n]).check)
    BY <1>6, <2>2 DEF Dequeue
  <2>6. LoadType' /\ LoadedOnce'
    BY <1>i, <2>4, <2>5, LoadKeeps
  <2> QED
    BY <2>1, <2>2, <2>6 DEF LoaderInv
<1>7. ASSUME NEW e \in Effects, LoadEffect(e) PROVE LoaderInv'
  <2>1. RestType'
    BY <1>7, <1>i DEF LoadEffect, RestType
  <2>2. LoadType' /\ LoadedOnce'
    BY <1>7, <1>i, LoadKeeps DEF LoadEffect
  <2> QED
    BY <1>7, <1>i, <2>1, <2>2, QueueKept DEF LoadEffect, LoaderInv
<1>8. ASSUME NEW e \in Effects, UnloadEffect(e) PROVE LoaderInv'
  <2>1. RestType'
    BY <1>8, <1>i DEF UnloadEffect, RestType
  <2>2. LoadType' /\ LoadedOnce'
    BY <1>8, <1>i, UnloadKeeps DEF UnloadEffect
  <2> QED
    BY <1>8, <1>i, <2>1, <2>2, QueueKept DEF UnloadEffect, LoaderInv
<1>9. ASSUME NEW e \in Effects, ReloadEffect(e) PROVE LoaderInv'
  <2>1. RestType'
    BY <1>9, <1>i DEF ReloadEffect, RestType
  <2>2. LoadType' /\ LoadedOnce'
    BY <1>9, <1>i, UnloadKeeps, LoadKept DEF ReloadEffect
  <2> QED
    BY <1>9, <1>i, <2>1, <2>2, QueueKept DEF ReloadEffect, LoaderInv
<1>10. ASSUME NEW e \in Effects, SetConfig(e) PROVE LoaderInv'
  <2>1. RestType'
    BY <1>10, <1>i DEF SetConfig, RestType
  <2> QED
    BY <1>10, <1>i, <2>1, QueueKept, LoadKept DEF SetConfig, LoaderInv
<1>11. CASE UNCHANGED loaderVars
  <2>1. RestType'
    BY <1>11, <1>i DEF loaderVars, RestType
  <2> QED
    BY <1>11, <1>i, <2>1, QueueKept, LoadKept DEF loaderVars, LoaderInv
<1> QED
  BY <1>1, <1>2, <1>3, <1>4, <1>5, <1>6, <1>7, <1>8, <1>9, <1>10, <1>11
  DEF LoaderNext

(* The invariant LoaderInv of every state the program reaches.             *)
LEMMA Invariant == LoaderSpec => []LoaderInv
<1>1. LoaderInit => LoaderInv
  BY InitInv
<1>2. LoaderInv /\ [LoaderNext]_loaderVars => LoaderInv'
  BY StepInv
<1> QED
  BY <1>1, <1>2, PTL DEF LoaderSpec

(* Every member of the queues, the loaders and the handler keeps its type. *)
THEOREM LoaderTypeCorrect == LoaderSpec => []LoaderTypeOK
<1>1. LoaderInv => LoaderTypeOK
  BY DEF LoaderInv, RestType, QueueType, LoadType, LoaderTypeOK
<1> QED
  BY <1>1, Invariant, PTL

(* EffectLoadQueue (effectloader.h): m_dequeueScheduled says whether there *)
(* are queued effects, and exactly then one dequeue() is under way.        *)
THEOREM QueueIsServed == LoaderSpec => []OneDequeueUnderWay
<1>1. LoaderInv => OneDequeueUnderWay
  BY DEF LoaderInv
<1> QED
  BY <1>1, Invariant, PTL

(* An effect that is loaded is loaded once, and effect_order agrees with   *)
(* the loaders on what is loaded (loadEffect(), effectloader.cpp).         *)
THEOREM NeverLoadedTwice == LoaderSpec => []LoadedOnce
<1>1. LoaderInv => LoadedOnce
  BY DEF LoaderInv
<1> QED
  BY <1>1, Invariant, PTL

-----------------------------------------------------------------------------
(* CrashRecovery.                                                          *)

-----------------------------------------------------------------------------
(* Types.                                                                  *)

LEMMA CountedType ==
    ASSUME count \in [Events -> Nat], NEW e \in Events, Counted(e)
    PROVE  /\ count' \in [Events -> Nat]
           /\ count'[e] = count[e] + 1
           /\ \A f \in Events : f # e => count'[f] = count[f]
BY DEF Counted

LEMMA RecoveryTypeInit == RecoveryInit => RecoveryTypeOK
<1> SUFFICES ASSUME RecoveryInit PROVE RecoveryTypeOK
  OBVIOUS
<1>1. pc \in Phases /\ crashes \in Nat /\ initCrashes \in Nat
      /\ count \in [Events -> Nat]
  BY DEF RecoveryInit, Phases
<1>2. timer \in BOOLEAN /\ suspended \in BOOLEAN /\ scene \in BOOLEAN
      /\ crashed \in BOOLEAN /\ dirty \in BOOLEAN
  BY DEF RecoveryInit
<1>3. other \in {"none", "redirect", "selection"} /\ driver \in Drivers
      /\ mem \in Kwinrc /\ disk \in Kwinrc
  BY Zenon DEF RecoveryInit
<1> QED
  BY <1>1, <1>2, <1>3 DEF RecoveryTypeOK

LEMMA CrashType ==
    ASSUME RecoveryTypeOK, crash
    PROVE  /\ pc' \in Phases /\ crashes' \in Nat /\ timer' \in BOOLEAN
           /\ other' \in {"none", "redirect", "selection"}
           /\ mem' \in Kwinrc /\ disk' \in Kwinrc /\ dirty' \in BOOLEAN
           /\ suspended' \in BOOLEAN /\ scene' \in BOOLEAN
           /\ driver' \in Drivers /\ crashed' \in BOOLEAN
<1>1. /\ pc' \in Phases /\ crashes' \in Nat
      /\ other' \in {"none", "redirect", "selection"}
  BY DEF RecoveryTypeOK, crash, crashHandler, restart, Phases
<1>2. /\ timer' \in BOOLEAN /\ suspended' \in BOOLEAN /\ scene' \in BOOLEAN
      /\ crashed' \in BOOLEAN /\ dirty' \in BOOLEAN
  BY DEF crash, restart
<1>3. mem' \in Kwinrc /\ disk' \in Kwinrc /\ driver' \in Drivers
  BY Zenon DEF RecoveryTypeOK, crash, restart
<1> QED
  BY <1>1, <1>2, <1>3

LEMMA FreshType ==
    ASSUME RecoveryTypeOK, fresh
    PROVE  /\ pc' \in Phases /\ crashes' \in Nat /\ timer' \in BOOLEAN
           /\ other' \in {"none", "redirect", "selection"}
           /\ suspended' \in BOOLEAN /\ scene' \in BOOLEAN
           /\ driver' \in Drivers /\ crashed' \in BOOLEAN
           /\ dirty' \in BOOLEAN
BY DEF RecoveryTypeOK, fresh, restart, Phases

LEMMA SyncedType ==
    ASSUME RecoveryTypeOK
    PROVE  /\ synced \in Kwinrc
           /\ synced.unsafe = disk.unsafe
           /\ synced.enabled = (disk.enabled /\ ~dirty)
BY DEF RecoveryTypeOK, synced, Kwinrc

LEMMA RecoveryTypeStep == RecoveryTypeOK
/\ [RecoveryNext]_recoveryVars => RecoveryTypeOK'
<1> SUFFICES ASSUME RecoveryTypeOK,
     [RecoveryNext]_recoveryVars PROVE RecoveryTypeOK'
  OBVIOUS
<1> USE DEF process, settings, compositor
<1>1. CASE Check
  <2>1. dirty' \in BOOLEAN
    BY <1>1 DEF RecoveryTypeOK, Check, crashChecking
  <2> QED
    BY <1>1, <2>1 DEF RecoveryTypeOK, Check, crashChecking, Phases, Kwinrc
<1>2. CASE Claim
  BY <1>2 DEF RecoveryTypeOK, Claim, Phases, Kwinrc
<1>3. CASE Setup
  BY <1>3, SyncedType DEF RecoveryTypeOK, Setup, markUnsafe, writeUnsafe,
      Phases, Kwinrc
<1>4. CASE Created
  BY <1>4, SyncedType DEF RecoveryTypeOK, Created, writeUnsafe, Phases, Kwinrc
<1>5. CASE Stable
  BY <1>5 DEF RecoveryTypeOK, Stable
<1>6. CASE CrashInit
  BY <1>6, CrashType DEF RecoveryTypeOK, CrashInit
<1>7. CASE CrashPaint
  <2>1. count' \in [Events -> Nat]
    BY <1>7, CountedType DEF RecoveryTypeOK, CrashPaint, Events
  <2> QED
    BY <1>7, <2>1, CrashType DEF RecoveryTypeOK, CrashPaint
<1>8. CASE CrashOther
  BY <1>8, CrashType, CountedType DEF RecoveryTypeOK, CrashOther, Events
<1>9. CASE Sync
  BY <1>9, SyncedType DEF RecoveryTypeOK, Sync
<1>10. CASE Toggle
  <2>1. count' \in [Events -> Nat]
    BY <1>10, CountedType DEF RecoveryTypeOK, Toggle, Events
  <2> QED
    BY <1>10, <2>1 DEF RecoveryTypeOK, Toggle, Phases
<1>11. CASE Reinitialize
  BY <1>11, SyncedType, CountedType DEF RecoveryTypeOK, Reinitialize, Events,
      Phases
<1>12. CASE Save
  BY <1>12, CountedType DEF RecoveryTypeOK, Save, Events, Kwinrc
<1>13. CASE ReenableOpenGLDetection
  BY <1>13, CountedType DEF RecoveryTypeOK, ReenableOpenGLDetection, Events,
      Kwinrc
<1>14. CASE Choose
  <2>1. CASE Counted("sessions") /\ fresh /\ mem' = disk
             /\ UNCHANGED <<disk, initCrashes>>
    BY <2>1, FreshType, CountedType DEF RecoveryTypeOK, Events
  <2>2. CASE pc' = "gone" /\ UNCHANGED <<crashes, timer, other, settings,
                 compositor, driver, crashed, initCrashes, count>>
    BY <2>2 DEF RecoveryTypeOK, Phases
  <2> QED
    BY <1>14, <2>1, <2>2 DEF Choose
<1>15. CASE Login
  BY <1>15, FreshType, CountedType, SyncedType DEF RecoveryTypeOK, Login,
      Events
<1>16. CASE PowerLoss
  BY <1>16, FreshType, CountedType DEF RecoveryTypeOK, PowerLoss, Events
<1>17. CASE UNCHANGED recoveryVars
  BY <1>17 DEF RecoveryTypeOK, recoveryVars
<1> QED
  BY <1>1, <1>2, <1>3, <1>4, <1>5, <1>6, <1>7, <1>8, <1>9, <1>10, <1>11,
     <1>12, <1>13, <1>14, <1>15, <1>16, <1>17 DEF RecoveryNext

(* Every member keeps its type, whatever crashes and whatever the user     *)
(* does (main.cpp, main_x11.cpp, composite.cpp).                           *)
THEOREM RecoveryTypeCorrect == RecoverySpec => []RecoveryTypeOK
<1>1. RecoveryInit => RecoveryTypeOK
  BY RecoveryTypeInit
<1>2. RecoveryTypeOK /\ [RecoveryNext]_recoveryVars => RecoveryTypeOK'
  BY RecoveryTypeStep
<1> QED
  BY <1>1, <1>2, PTL DEF RecoverySpec

-----------------------------------------------------------------------------
(* A driver that crashes in createScene().                                 *)

(* The file has the mark only when this process knows of it: otherwise     *)
(* createScene() could be called although an earlier one crashed.          *)
Known == disk.unsafe => mem.unsafe

(* Every crash in createScene() is paid for by the mark in the file or by  *)
(* a reset of it, and a call that is under way is covered already.         *)
Mark == IF disk.unsafe THEN 1 ELSE 0
PaidFor ==
    /\ initCrashes <= count["resets"] + Mark
    /\ pc = "creating" => initCrashes + 1 <= count["resets"] + Mark

GlInv == RecoveryTypeOK /\ Known /\ PaidFor

LEMMA SettingsKept ==
    ASSUME GlInv, UNCHANGED <<mem, disk, initCrashes>>,
           count'["resets"] = count["resets"],
           pc' = "creating" => pc = "creating"
    PROVE  Known' /\ PaidFor'
BY DEF GlInv, Known, PaidFor, Mark

LEMMA GlStep == GlInv /\ [RecoveryNext]_recoveryVars => GlInv'
<1> SUFFICES ASSUME GlInv, [RecoveryNext]_recoveryVars PROVE GlInv'
  OBVIOUS
<1>t. RecoveryTypeOK /\ RecoveryTypeOK' /\ initCrashes \in Nat
     /\ count["resets"] \in Nat
  BY RecoveryTypeStep DEF GlInv, RecoveryTypeOK, Events
<1> SUFFICES Known' /\ PaidFor'
  BY <1>t DEF GlInv
<1> USE DEF process, settings, compositor
<1>1. CASE Check
  BY <1>1, <1>t DEF GlInv, Known, PaidFor, Mark, Check, crashChecking,
      RecoveryTypeOK,
                    Kwinrc
<1>2. CASE Claim
  BY <1>2, SettingsKept DEF Claim
<1>3. CASE Setup
  <2>1. CASE suspended \/ mem.unsafe
    BY <1>3, <2>1, SettingsKept DEF Setup
  <2>2. CASE ~(suspended \/ mem.unsafe)
    <3>1. mem'.unsafe /\ disk'.unsafe /\ ~disk.unsafe
      BY <1>3, <2>2, <1>t, SyncedType
      DEF Setup, markUnsafe, writeUnsafe, GlInv, Known, RecoveryTypeOK, Kwinrc
    <3> QED
      BY <1>3, <3>1, <1>t DEF Setup, GlInv, Known, PaidFor, Mark
  <2> QED
    BY <2>1, <2>2
<1>4. CASE Created
  <2>1. ~disk'.unsafe
    BY <1>4, <1>t, SyncedType DEF Created, writeUnsafe, RecoveryTypeOK, Kwinrc
  <2> QED
    BY <1>4, <2>1, <1>t DEF Created, GlInv, Known, PaidFor, Mark
<1>5. CASE Stable
  BY <1>5, SettingsKept DEF Stable
<1>6. CASE CrashInit
  <2>1. pc = "creating" /\ pc' = "start" /\ mem' = disk /\ disk' = disk
        /\ initCrashes' = initCrashes + 1 /\ count' = count
    BY <1>6 DEF CrashInit, crash, restart
  <2> QED
    BY <2>1, <1>t DEF GlInv, Known, PaidFor, Mark
<1>7. ASSUME crash, initCrashes' = initCrashes,
             count'["resets"] = count["resets"]
      PROVE  Known' /\ PaidFor'
  <2>1. pc' = "start" /\ mem' = disk /\ disk' = disk
    BY <1>7 DEF crash, restart
  <2> QED
    BY <1>7, <2>1, <1>t DEF GlInv, Known, PaidFor, Mark
<1>8. CASE CrashPaint
  <2>1. count'["resets"] = count["resets"]
    BY <1>8, <1>t, CountedType DEF CrashPaint, RecoveryTypeOK, Events
  <2> QED
    BY <1>8, <2>1, <1>7 DEF CrashPaint
<1>9. CASE CrashOther
  <2>1. count'["resets"] = count["resets"]
    BY <1>9, <1>t, CountedType DEF CrashOther, RecoveryTypeOK, Events
  <2> QED
    BY <1>9, <2>1, <1>7 DEF CrashOther
<1>10. CASE Sync
  <2>1. disk'.unsafe = disk.unsafe
    BY <1>10, <1>t, SyncedType DEF Sync
  <2> QED
    BY <1>10, <2>1, <1>t DEF Sync, GlInv, Known, PaidFor, Mark
<1>11. CASE Toggle
  <2>1. count'["resets"] = count["resets"]
    BY <1>11, <1>t, CountedType DEF Toggle, RecoveryTypeOK, Events
  <2>2. UNCHANGED <<mem, disk, initCrashes>>
    BY <1>11 DEF Toggle
  <2>3. pc' # "creating"
    BY <1>11 DEF Toggle
  <2> QED
    BY <2>1, <2>2, <2>3, SettingsKept
<1>12. CASE Reinitialize
  <2>1. disk'.unsafe = disk.unsafe /\ mem' = disk'
    BY <1>12, <1>t, SyncedType DEF Reinitialize
  <2>2. count'["resets"] = count["resets"]
    BY <1>12, <1>t, CountedType DEF Reinitialize, RecoveryTypeOK, Events
  <2> QED
    BY <1>12, <2>1, <2>2, <1>t DEF Reinitialize, GlInv, Known, PaidFor, Mark
<1>13. CASE Save
  <2>1. disk'.unsafe = disk.unsafe /\ mem' = mem
    BY <1>13, <1>t DEF Save, RecoveryTypeOK, Kwinrc
  <2>2. count'["resets"] = count["resets"]
    BY <1>13, <1>t, CountedType DEF Save, RecoveryTypeOK, Events
  <2> QED
    BY <1>13, <2>1, <2>2, <1>t DEF Save, GlInv, Known, PaidFor, Mark
<1>14. CASE ReenableOpenGLDetection
  <2>1. disk.unsafe /\ ~disk'.unsafe
    BY <1>14, <1>t DEF ReenableOpenGLDetection, RecoveryTypeOK, Kwinrc
  <2>2. count'["resets"] = count["resets"] + 1
    BY <1>14, <1>t, CountedType DEF ReenableOpenGLDetection, RecoveryTypeOK,
        Events
  <2> QED
    BY <1>14, <2>1, <2>2, <1>t
    DEF ReenableOpenGLDetection, GlInv, Known, PaidFor, Mark
<1>15. ASSUME fresh, mem' = disk', disk'.unsafe = disk.unsafe,
              Counted("sessions"), initCrashes' = initCrashes
       PROVE  Known' /\ PaidFor'
  <2>1. pc' = "start"
    BY <1>15 DEF fresh, restart
  <2>2. count'["resets"] = count["resets"]
    BY <1>15, <1>t, CountedType DEF RecoveryTypeOK, Events
  <2> QED
    BY <1>15, <2>1, <2>2, <1>t DEF GlInv, Known, PaidFor, Mark
<1>16. CASE Choose
  <2>1. CASE Counted("sessions") /\ fresh /\ mem' = disk
             /\ UNCHANGED <<disk, initCrashes>>
    BY <2>1, <1>15
  <2>2. CASE pc' = "gone" /\ UNCHANGED <<crashes, timer, other, settings,
                 compositor, driver, crashed, initCrashes, count>>
    BY <2>2, SettingsKept
  <2> QED
    BY <1>16, <2>1, <2>2 DEF Choose
<1>17. CASE Login
  <2>1. disk'.unsafe = disk.unsafe
    BY <1>17, <1>t, SyncedType DEF Login
  <2> QED
    BY <1>17, <2>1, <1>15 DEF Login
<1>18. CASE PowerLoss
  BY <1>18, <1>15 DEF PowerLoss
<1>19. CASE UNCHANGED recoveryVars
  BY <1>19, SettingsKept DEF recoveryVars
<1> QED
  BY <1>1, <1>2, <1>3, <1>4, <1>5, <1>6, <1>8, <1>9, <1>10, <1>11, <1>12,
     <1>13, <1>14, <1>16, <1>17, <1>18, <1>19 DEF RecoveryNext

(* "Some broken drivers crash on glXQuery() so to prevent constant KWin    *)
(* crashes" (composite.cpp): at most one crash in createScene() for each   *)
(* time the user resets OpenGLIsUnsafe, over all sessions.                 *)
THEOREM CrashesOnce == RecoverySpec => []GlCrashNotRepeated
<1>1. RecoveryInit => GlInv
  BY RecoveryTypeInit DEF RecoveryInit, GlInv, Known, PaidFor, Mark, Events,
      Kwinrc
<1>2. GlInv /\ [RecoveryNext]_recoveryVars => GlInv'
  BY GlStep
<1>3. GlInv => GlCrashNotRepeated
  BY DEF GlInv, PaidFor, Mark, GlCrashNotRepeated, RecoveryTypeOK, Events
<1> QED
  BY <1>1, <1>2, <1>3, PTL DEF RecoverySpec

-----------------------------------------------------------------------------
(* A driver alone.                                                         *)

(* Nothing but the driver has gone wrong so far.                           *)
Undisturbed == count["other"] = 0 /\ count["asks"] = 0

Starting == {"start", "claim", "setup", "creating"}
Checked == {"claim", "setup", "creating", "up"}

(* The second crash in a row makes compositing impossible, through what    *)
(* crashChecking() wrote, in each phase of the process; and a process that *)
(* was started by a crash still knows that when it claims the selection.   *)
GivenUp ==
    Undisturbed =>
        /\ crashes <= 2
        /\ pc \in Starting => ~scene
        /\ crashes = 2 /\ pc \in Checked => ~mem.enabled
        /\ crashes = 2 /\ pc = "setup" => suspended
        /\ pc = "creating" => crashes < 2
        /\ crashes = 2 => ~scene
        /\ pc # "dialog"
        /\ crashed /\ pc \in {"start", "claim"} => crashes > 0
        /\ pc = "gone" => ~crashed

DriverInv == RecoveryTypeOK /\ GivenUp

LEMMA StillUndisturbed ==
    ASSUME RecoveryTypeOK, [RecoveryNext]_recoveryVars, Undisturbed'
    PROVE  /\ Undisturbed
           /\ ~CrashOther /\ ~Reinitialize /\ ~Save
           /\ Toggle => ~suspended
<1> USE DEF process, settings, compositor
<1>1. /\ count["other"] \in Nat /\ count["asks"] \in Nat
      /\ count'["other"] = 0 /\ count'["asks"] = 0
  BY DEF RecoveryTypeOK, Events, Undisturbed
<1>2. ASSUME NEW e \in Events, Counted(e)
      PROVE  Undisturbed /\ e # "other" /\ e # "asks"
  BY <1>1, <1>2, CountedType DEF RecoveryTypeOK, Undisturbed, Events
<1>3. ASSUME UNCHANGED count PROVE Undisturbed
  BY <1>1, <1>3 DEF Undisturbed
<1>4. ~CrashOther /\ ~Reinitialize /\ ~Save
  BY <1>2 DEF CrashOther, Reinitialize, Save, Events
<1>5. Toggle => ~suspended
  BY <1>2 DEF Toggle, Events
<1>6. UNCHANGED count \/ \E e \in Events : Counted(e)
  BY DEF RecoveryNext, recoveryVars, Check, Claim, Setup, Created, Stable,
      CrashInit,
         CrashPaint, CrashOther, Sync, Toggle, Reinitialize, Save,
         ReenableOpenGLDetection, Choose, Login, PowerLoss, Events
<1> QED
  BY <1>2, <1>3, <1>4, <1>5, <1>6

LEMMA DriverStep == DriverInv /\ [RecoveryNext]_recoveryVars => DriverInv'
<1> SUFFICES ASSUME DriverInv, [RecoveryNext]_recoveryVars PROVE DriverInv'
  OBVIOUS
<1>t. RecoveryTypeOK /\ RecoveryTypeOK' /\ crashes \in Nat
  BY RecoveryTypeStep DEF DriverInv, RecoveryTypeOK
<1> SUFFICES ASSUME Undisturbed' PROVE GivenUp'
  BY <1>t DEF DriverInv, GivenUp
<1>u. /\ ~CrashOther /\ ~Reinitialize /\ ~Save
      /\ Toggle => ~suspended
  BY <1>t, StillUndisturbed
<1>g. /\ crashes <= 2
      /\ pc \in Starting => ~scene
      /\ crashes = 2 /\ pc \in Checked => ~mem.enabled
      /\ crashes = 2 /\ pc = "setup" => suspended
      /\ pc = "creating" => crashes < 2
      /\ crashes = 2 => ~scene
      /\ pc # "dialog"
      /\ crashed /\ pc \in {"start", "claim"} => crashes > 0
      /\ pc = "gone" => ~crashed
  BY <1>t, StillUndisturbed DEF DriverInv, GivenUp
<1> USE DEF process, settings, compositor
<1>1. CASE Check
  <2>1. crashes < 4 /\ pc' = "claim" /\ pc = "start" /\ crashes' = crashes
        /\ scene' = scene /\ crashed' = crashed
    BY <1>1, <1>g, <1>t DEF Check, crashChecking
  <2>2. crashes = 2 => ~mem'.enabled
    BY <1>1, <2>1, <1>t DEF Check, crashChecking, RecoveryTypeOK, Kwinrc
  <2> QED
    BY <2>1, <2>2, <1>g DEF GivenUp, Starting, Checked
<1>2. CASE Claim
  BY <1>2, <1>g, <1>t DEF Claim, wasCrash, GivenUp, Starting, Checked
<1>3. CASE Setup
  <2>1. CASE suspended \/ mem.unsafe
    BY <1>3, <2>1, <1>g DEF Setup, GivenUp, Starting, Checked
  <2>2. CASE ~(suspended \/ mem.unsafe)
    <3>1. mem'.enabled = mem.enabled /\ crashes # 2
      BY <1>3, <2>2, <1>g, <1>t
      DEF Setup, markUnsafe, writeUnsafe, RecoveryTypeOK, Kwinrc
    <3> QED
      BY <1>3, <2>2, <3>1, <1>g, <1>t DEF Setup, GivenUp, Starting, Checked
  <2> QED
    BY <2>1, <2>2
<1>4. CASE Created
  BY <1>4, <1>g, <1>t DEF Created, GivenUp, Starting, Checked
<1>5. CASE Stable
  BY <1>5, <1>g, <1>t DEF Stable, GivenUp, Starting, Checked
<1>6. ASSUME crash, crashes < 2 PROVE GivenUp'
  <2>1. /\ pc' = "start" /\ ~scene' /\ crashes' = crashes + 1
        /\ crashes' <= 2 /\ crashes' > 0
    BY <1>6, <1>t DEF crash, crashHandler, restart
  <2> QED
    BY <2>1, <1>t DEF GivenUp, Starting, Checked
<1>7. CASE CrashInit
  BY <1>7, <1>6, <1>g DEF CrashInit
<1>8. CASE CrashPaint
  <2>1. crashes < 2
    BY <1>8, <1>g, <1>t DEF CrashPaint
  <2> QED
    BY <1>8, <2>1, <1>6 DEF CrashPaint
<1>9. CASE Sync
  BY <1>9, <1>g DEF Sync, GivenUp, Starting, Checked
<1>10. CASE Toggle
  BY <1>10, <1>u, <1>g DEF Toggle, GivenUp, Starting, Checked
<1>11. CASE ReenableOpenGLDetection
  BY <1>11, <1>g DEF ReenableOpenGLDetection, GivenUp, Starting, Checked
<1>12. ASSUME fresh PROVE GivenUp'
  BY <1>12 DEF fresh, restart, GivenUp, Starting, Checked
<1>13. CASE Choose
  BY <1>13, <1>g DEF Choose
<1>14. CASE Login
  BY <1>14, <1>12 DEF Login
<1>15. CASE PowerLoss
  BY <1>15, <1>12 DEF PowerLoss
<1>16. CASE UNCHANGED recoveryVars
  BY <1>16, <1>g DEF recoveryVars, GivenUp, Starting, Checked
<1> QED
  BY <1>1, <1>2, <1>3, <1>4, <1>5, <1>7, <1>8, <1>9, <1>10, <1>11, <1>13,
     <1>14, <1>15, <1>16, <1>u DEF RecoveryNext

(* A broken driver alone never makes KWin ask for another window manager,  *)
(* nor give way to the process that crashed (crashChecking(), main.cpp,    *)
(* and performStartup(), main_x11.cpp).                                    *)
THEOREM DriverNeverFatal == RecoverySpec => []DriverIsSurvived
<1>1. RecoveryInit => DriverInv
  BY RecoveryTypeInit DEF RecoveryInit, DriverInv, GivenUp, Starting, Checked
<1>2. DriverInv /\ [RecoveryNext]_recoveryVars => DriverInv'
  BY DriverStep
<1>3. DriverInv => DriverIsSurvived
  BY DEF DriverInv, GivenUp, Undisturbed, DriverIsSurvived
<1> QED
  BY <1>1, <1>2, <1>3, PTL DEF RecoverySpec

-----------------------------------------------------------------------------
(* SyncRequest.                                                            *)

-----------------------------------------------------------------------------
(* Types.                                                                  *)

LEMMA SyncTypeInit == SyncInit => SyncTypeOK
<1> SUFFICES ASSUME SyncInit PROVE SyncTypeOK
  OBVIOUS
<1>1. /\ counter \in Nat /\ alarm \in Nat /\ value \in Nat /\ reads \in Nat
      /\ timeout \in Timers /\ failsafe \in Timers
      /\ phase \in {"new", "shown", "resize"}
      /\ server \in [counter: Nat, next: Nat, alarm: Nat]
      /\ requests \in Seq(Nat) /\ events \in Seq(SyncEvents)
  BY DEF SyncInit, Timers
<1>2. /\ isPending \in BOOLEAN /\ ready \in BOOLEAN /\ behind \in BOOLEAN
      /\ unresolved \in BOOLEAN
  BY DEF SyncInit
<1> QED
  BY <1>1, <1>2 DEF SyncTypeOK

LEMMA SendType ==
    ASSUME SyncTypeOK, NEW c \in Nat, NEW number \in Nat,
           sendSyncRequest(c, number)
    PROVE  /\ value' \in Nat /\ requests' \in Seq(Nat)
           /\ isPending' \in BOOLEAN /\ failsafe' \in Timers
<1>1. CASE c = 0 \/ isPending
  BY <1>1 DEF SyncTypeOK, sendSyncRequest
<1>2. CASE ~(c = 0 \/ isPending)
  <2>3. /\ value' = number + 1 /\ requests' = Append(requests, number + 1)
        /\ failsafe' = "running"
    BY <1>2 DEF sendSyncRequest
  <2>1. value' \in Nat /\ requests' \in Seq(Nat) /\ failsafe' \in Timers
    <3> HIDE DEF sendSyncRequest
    <3>1. requests \in Seq(Nat) /\ number + 1 \in Nat
      BY DEF SyncTypeOK
    <3> QED
      BY <2>3, <3>1 DEF Timers
  <2>2. isPending' \in BOOLEAN
    BY <1>2 DEF sendSyncRequest
  <2> QED
    BY <2>1, <2>2
<1> QED
  BY <1>1, <1>2

LEMMA HeadTailFacts ==
    ASSUME NEW S, NEW s \in Seq(S), s # <<>>
    PROVE  /\ Head(s) \in S /\ Head(s) = s[1] /\ Tail(s) \in Seq(S)
           /\ 1 \in DOMAIN s
           /\ Len(s) >= 1 /\ Len(Tail(s)) = Len(s) - 1
           /\ \A i \in DOMAIN Tail(s) : i + 1 \in DOMAIN s /\ Tail(s)[i] = s[i + 1]
OBVIOUS

LEMMA SyncTypeStep == SyncTypeOK /\ [SyncNext]_syncVars => SyncTypeOK'
<1> SUFFICES ASSUME SyncTypeOK, [SyncNext]_syncVars PROVE SyncTypeOK'
  OBVIOUS
<1> USE DEF kwin, window, client
<1>1. CASE Manage
  <2>1. /\ reads' \in Nat /\ counter' \in Nat /\ alarm' \in Nat
        /\ server' \in [counter: Nat, next: Nat, alarm: Nat]
        /\ phase' \in {"new", "shown", "resize"}
    <3>1. reads' \in Nat /\ counter' \in Nat /\ alarm' \in Nat
      BY <1>1 DEF Manage
    <3> QED
      BY <1>1, <3>1 DEF SyncTypeOK, Manage
  <2>2. /\ value' \in Nat /\ requests' \in Seq(Nat)
        /\ isPending' \in BOOLEAN /\ failsafe' \in Timers
        /\ ready' \in BOOLEAN
    BY <1>1, <2>1, SendType DEF SyncTypeOK, Manage
  <2> QED
    BY <1>1, <2>1, <2>2 DEF SyncTypeOK, Manage
<1>2. CASE Damage
  BY <1>2 DEF SyncTypeOK, Damage
<1>3. CASE Motion
  <2>1. /\ value' \in Nat /\ requests' \in Seq(Nat)
        /\ isPending' \in BOOLEAN /\ failsafe' \in Timers
    BY <1>3, SendType DEF SyncTypeOK, Motion
  <2> QED
    BY <1>3, <2>1 DEF SyncTypeOK, Motion, Timers
<1>4. CASE Timeout
  BY <1>4 DEF SyncTypeOK, Timeout, Timers
<1>5. CASE Finish
  BY <1>5 DEF SyncTypeOK, Finish, Timers
<1>6. CASE Failsafe
  <2>1. CASE ready
    <3>1. /\ counter' = 0 /\ alarm' = 0 /\ timeout' = "none"
          /\ failsafe' = "none"
          /\ unresolved' = FALSE
          /\ UNCHANGED <<ready, value, window, client, events>>
      BY <1>6, <2>1 DEF Failsafe, failsafeTimeout
    <3>2. isPending' \in BOOLEAN
      BY <1>6, <2>1 DEF Failsafe, failsafeTimeout
    <3> QED
      BY <3>1, <3>2 DEF SyncTypeOK, Timers
  <2>2. CASE ~ready
    BY <1>6, <2>2 DEF SyncTypeOK, Failsafe, failsafeTimeout, Timers
  <2> QED
    BY <2>1, <2>2
<1>7. CASE AlarmNotify
  <2>1. events' \in Seq(SyncEvents)
    BY <1>7, HeadTailFacts DEF SyncTypeOK, AlarmNotify
  <2> QED
    BY <1>7, <2>1 DEF SyncTypeOK, AlarmNotify, syncEvent, Timers
<1>8. CASE PropertyNotify
  <2>1. /\ events' \in Seq(SyncEvents)
        /\ Head(events) \in SyncEvents /\ Head(events).type = "property"
    BY <1>8, HeadTailFacts DEF SyncTypeOK, PropertyNotify
  <2>4. Head(events).counter \in Nat
    BY <2>1 DEF SyncEvents
  <2>2. /\ counter' \in Nat /\ alarm' \in Nat
        /\ server' \in [counter: Nat, next: Nat, alarm: Nat]
    <3> DEFINE read == Head(events).counter
               Servers == [counter: Nat, next: Nat, alarm: Nat]
    <3>1. /\ alarm \in Nat /\ server \in Servers
          /\ read \in Nat /\ counter' = read
      BY <1>8, <2>4 DEF SyncTypeOK, PropertyNotify, getSyncCounter
    <3>2. CASE alarm # 0
      <4> DEFINE a == IF Head(events).same THEN 0 ELSE server.counter
      <4>1. alarm' = alarm /\ server' = [server EXCEPT !.counter = a]
        BY <1>8, <3>2 DEF PropertyNotify, getSyncCounter
      <4>2. a \in Nat
        BY <3>1
      <4> HIDE DEF a
      <4> QED
        BY <3>1, <4>1, <4>2
    <3>3. CASE alarm = 0
      <4>1. /\ alarm' \in {alarm, read}
            /\ \/ server' = [counter |-> 0, next |-> 1, alarm |-> read]
               \/ server' = [counter |-> 0, next |-> 1, alarm |-> 0]
        BY <1>8, <3>3 DEF PropertyNotify, getSyncCounter
      <4> HIDE DEF read
      <4> QED
        BY <3>1, <4>1
    <3> QED
      BY <3>2, <3>3
  <2>3. unresolved' \in BOOLEAN
    BY <1>8 DEF PropertyNotify
  <2> QED
    BY <1>8, <2>1, <2>2, <2>3 DEF SyncTypeOK, PropertyNotify
<1>9. CASE Answer
  <2>1. Head(requests) \in Nat /\ requests' \in Seq(Nat)
    BY <1>9, HeadTailFacts DEF SyncTypeOK, Answer
  <2>2. server' \in [counter: Nat, next: Nat, alarm: Nat]
    <3>1. server \in [counter: Nat, next: Nat, alarm: Nat]
      BY DEF SyncTypeOK
    <3> DEFINE v == Head(requests)
               n == IF /\ server.alarm # 0
                       /\ server.counter < server.next /\ server.next <= v
                    THEN v + 1 ELSE server.next
    <3>2. \/ server' = [server EXCEPT !.counter = v, !.next = n]
          \/ server' = server
      BY <1>9 DEF Answer
    <3>3. n \in Nat /\ v \in Nat
      BY <2>1, <3>1
    <3> HIDE DEF n, v
    <3> QED
      BY <3>1, <3>2, <3>3
  <2>3. events' \in Seq(SyncEvents)
    <3> DEFINE e == [type |-> "alarm", value |-> Head(requests),
                     alarm |-> server.alarm]
    <3>1. e \in SyncEvents /\ events \in Seq(SyncEvents)
      BY <2>1 DEF SyncTypeOK, SyncEvents
    <3>2. events' = events \/ events' = Append(events, e)
      BY <1>9 DEF Answer
    <3> HIDE DEF e
    <3> QED
      BY <3>1, <3>2
  <2> QED
    BY <1>9, <2>1, <2>2, <2>3 DEF SyncTypeOK, Answer
<1>10. CASE Advertise
  <2>1. events' \in Seq(SyncEvents)
    BY <1>10 DEF SyncTypeOK, Advertise, SyncEvents
  <2> QED
    BY <1>10, <2>1 DEF SyncTypeOK, Advertise
<1>11. CASE UNCHANGED syncVars
  BY <1>11 DEF SyncTypeOK, syncVars
<1> QED
  BY <1>1, <1>2, <1>3, <1>4, <1>5, <1>6, <1>7, <1>8, <1>9, <1>10, <1>11
  DEF SyncNext

(* Every member of syncRequest and every message keeps its type.           *)
THEOREM SyncTypeCorrect == SyncSpec => []SyncTypeOK
<1>1. SyncInit => SyncTypeOK
  BY SyncTypeInit
<1>2. SyncTypeOK /\ [SyncNext]_syncVars => SyncTypeOK'
  BY SyncTypeStep
<1> QED
  BY <1>1, <1>2, PTL DEF SyncSpec

-----------------------------------------------------------------------------
(* Waiting.                                                                *)

(* A window that is not managed yet has asked for nothing.                 *)
NotYet == phase = "new" => /\ ~isPending /\ counter = 0 /\ alarm = 0
                           /\ reads = 0 /\ requests = <<>> /\ events = <<>>
                           /\ server.alarm = 0

WaitInv == SyncTypeOK /\ NotYet /\ WaitIsTimed

LEMMA NotYetStep == SyncTypeOK /\ NotYet /\ [SyncNext]_syncVars => NotYet'
<1> SUFFICES ASSUME SyncTypeOK, NotYet, [SyncNext]_syncVars PROVE NotYet'
  OBVIOUS
<1>1. CASE UNCHANGED syncVars
  BY <1>1 DEF NotYet, syncVars, kwin, window, client
<1>2. CASE Manage \/ Motion \/ Finish
  <2>1. phase' # "new"
    BY <1>2 DEF Manage, Motion, Finish
  <2> QED
    BY <2>1 DEF NotYet
<1>3. CASE Damage \/ Advertise
  <2>1. phase' # "new"
    BY <1>3 DEF Damage, Advertise, window
  <2> QED
    BY <2>1 DEF NotYet
<1>4. CASE Timeout
  BY <1>4 DEF NotYet, Timeout, client
<1>5. CASE Failsafe
  BY <1>5 DEF NotYet, Failsafe, failsafeTimeout, window, client
<1>6. CASE AlarmNotify
  <2>1. phase # "new" /\ phase' = phase
    BY <1>6 DEF NotYet, AlarmNotify
  <2> QED
    BY <2>1 DEF NotYet
<1>7. CASE PropertyNotify
  <2>1. phase # "new" /\ phase' = phase
    BY <1>7 DEF NotYet, PropertyNotify, window
  <2> QED
    BY <2>1 DEF NotYet
<1>8. CASE Answer
  <2>1. phase # "new" /\ phase' = phase
    BY <1>8 DEF NotYet, Answer, window
  <2> QED
    BY <2>1 DEF NotYet
<1> QED
  BY <1>1, <1>2, <1>3, <1>4, <1>5, <1>6, <1>7, <1>8 DEF SyncNext

LEMMA WaitStep == WaitInv /\ [SyncNext]_syncVars => WaitIsTimed'
<1> SUFFICES ASSUME WaitInv, [SyncNext]_syncVars PROVE WaitIsTimed'
  OBVIOUS
<1> USE DEF WaitInv
<1>1. CASE Manage
  <2>1. ~isPending
    BY <1>1 DEF Manage, NotYet
  <2> QED
    BY <1>1, <2>1 DEF Manage, sendSyncRequest, WaitIsTimed
<1>2. CASE Damage
  BY <1>2 DEF Damage, WaitIsTimed
<1>3. CASE Motion
  <2>1. CASE counter # 0
    BY <1>3, <2>1 DEF Motion, sendSyncRequest, WaitIsTimed
  <2>2. CASE counter = 0
    BY <1>3, <2>2 DEF Motion, WaitIsTimed
  <2> QED
    BY <2>1, <2>2
<1>4. CASE Timeout
  BY <1>4 DEF Timeout, WaitIsTimed
<1>5. CASE Finish
  BY <1>5 DEF Finish, WaitIsTimed
<1>6. CASE Failsafe
  <2>1. CASE ready
    <3>1. ~isPending'
      BY <1>6, <2>1 DEF Failsafe, failsafeTimeout
    <3> QED
      BY <3>1 DEF WaitIsTimed
  <2>2. CASE ~ready
    <3>1. unresolved' = isPending /\ isPending' = isPending
      BY <1>6, <2>2 DEF Failsafe, failsafeTimeout
    <3> QED
      BY <3>1 DEF WaitIsTimed
  <2> QED
    BY <2>1, <2>2
<1>7. CASE AlarmNotify
  BY <1>7 DEF AlarmNotify, syncEvent, WaitIsTimed
<1>8. CASE PropertyNotify
  BY <1>8 DEF PropertyNotify, WaitIsTimed
<1>9. CASE Answer
  BY <1>9 DEF Answer, kwin, WaitIsTimed
<1>10. CASE Advertise
  BY <1>10 DEF Advertise, kwin, WaitIsTimed
<1>11. CASE UNCHANGED syncVars
  BY <1>11 DEF syncVars, kwin, WaitIsTimed
<1> QED
  BY <1>1, <1>2, <1>3, <1>4, <1>5, <1>6, <1>7, <1>8, <1>9, <1>10, <1>11
  DEF SyncNext

(* Whenever KWin waits for a client a timer runs that ends the wait        *)
(* (sendSyncRequest(), doResizeSync(), leaveMoveResize() and the failsafe  *)
(* timer), except after a first request that the failsafe timer gave up    *)
(* and a counter that was read during the 33 ms of a client without one.   *)
THEOREM AlwaysTimed == SyncSpec => []WaitIsTimed
<1>1. SyncInit => WaitInv
  BY SyncTypeInit DEF SyncInit, WaitInv, NotYet, WaitIsTimed
<1>2. WaitInv /\ [SyncNext]_syncVars => WaitInv'
  BY SyncTypeStep, NotYetStep, WaitStep DEF WaitInv
<1>3. WaitInv => WaitIsTimed
  BY DEF WaitInv
<1> QED
  BY <1>1, <1>2, <1>3, PTL DEF SyncSpec

-----------------------------------------------------------------------------
(* One request at a time.                                                  *)

(* A request may be sent: KWin has a counter and waits for nothing.        *)
Free == IF counter # 0 /\ ~isPending THEN 1 ELSE 0

(* An advertisement pays for one request.  It is an event first, then the  *)
(* freedom to send a request, then that request, and then the event of the *)
(* alarm, which may give the freedom back.                                 *)
OneInv ==
    SyncTypeOK /\ NotYet /\ Len(requests) + Len(events) + Free <= reads

LEMMA LengthFacts ==
    ASSUME NEW S, NEW s \in Seq(S)
    PROVE  /\ Len(s) \in Nat
           /\ \A x \in S : Len(Append(s, x)) = Len(s) + 1
           /\ s # <<>> => Len(Tail(s)) = Len(s) - 1
OBVIOUS

LEMMA OneStep == OneInv /\ [SyncNext]_syncVars => OneInv'
<1> SUFFICES ASSUME OneInv, [SyncNext]_syncVars PROVE OneInv'
  OBVIOUS
<1>t. /\ SyncTypeOK /\ SyncTypeOK' /\ NotYet' /\ reads \in Nat /\ value \in Nat
      /\ requests \in Seq(Nat) /\ events \in Seq(SyncEvents)
  BY SyncTypeStep, NotYetStep DEF OneInv, SyncTypeOK
<1>l. /\ Len(requests) \in Nat /\ Len(events) \in Nat
      /\ Free \in {0, 1} /\ Free' \in {0, 1}
      /\ Len(requests) + Len(events) + Free <= reads
      /\ Len(requests') \in Nat /\ Len(events') \in Nat
  BY <1>t, LengthFacts DEF OneInv, Free, SyncTypeOK
<1> SUFFICES Len(requests') + Len(events') + Free' <= reads'
  BY <1>t DEF OneInv
<1> USE DEF kwin, window, client
(* What sendSyncRequest() sends, it is no longer free to send.             *)
<1>s. ASSUME NEW c \in Nat, NEW number \in Nat, sendSyncRequest(c, number),
             counter' = c, c # counter => ~isPending
      PROVE  \/ UNCHANGED <<requests, isPending>>
             \/ c # 0 /\ ~isPending /\ Len(requests') = Len(requests) + 1 /\ Free' = 0
  <2>1. CASE c = 0 \/ isPending
    BY <1>s, <2>1 DEF sendSyncRequest
  <2>2. CASE ~(c = 0 \/ isPending)
    <3>1. requests' = Append(requests, number + 1) /\ isPending'
      BY <1>s, <2>2 DEF sendSyncRequest
    <3>2. number + 1 \in Nat
      OBVIOUS
    <3> QED
      BY <1>t, <2>2, <3>1, <3>2, LengthFacts DEF Free
  <2> QED
    BY <2>1, <2>2
<1>1. CASE Manage
  <2>1. /\ ~isPending /\ requests = <<>> /\ events = <<>> /\ events' = <<>>
        /\ counter' = reads' /\ reads' \in {0, 1}
    BY <1>1 DEF OneInv, NotYet, Manage
  <2>2. Len(requests) = 0 /\ Len(events') = 0
    BY <2>1
  <2>3. CASE UNCHANGED <<requests, isPending>>
    <3>1. /\ reads' = 1 \/ Free' = 0
          /\ Free' \in {0, 1} /\ reads' \in {0, 1}
      BY <2>1, <1>l DEF Free
    <3>2. Len(requests') = 0
      BY <2>2, <2>3
    <3>3. CASE Free' = 0
      <4>1. reads' = 0 \/ reads' = 1
        BY <3>1
      <4> QED
        BY <2>2, <3>2, <3>3, <4>1
    <3>4. CASE reads' = 1 /\ Free' = 1
      BY <2>2, <3>2, <3>4
    <3> QED
      BY <3>1, <3>3, <3>4
  <2>4. CASE sendSyncRequest(reads', 0)
    <3>1. \/ UNCHANGED <<requests, isPending>>
          \/ reads' # 0 /\ Len(requests') = Len(requests) + 1 /\ Free' = 0
      BY <1>s, <2>1, <2>4
    <3>2. CASE reads' # 0 /\ Len(requests') = Len(requests) + 1 /\ Free' = 0
      <4>1. reads' = 1
        BY <2>1, <3>2
      <4> QED
        BY <2>2, <3>2, <4>1
    <3> QED
      BY <2>3, <3>1, <3>2
  <2> QED
    BY <1>1, <2>3, <2>4 DEF Manage
<1>2. CASE Advertise
  <2>1. PICK same \in BOOLEAN :
           events' = Append(events, [type |-> "property",
                                     counter |-> reads + 1, same |-> same])
    BY <1>2 DEF Advertise
  <2>2. [type |-> "property", counter |-> reads + 1, same |-> same] \in SyncEvents
    BY <1>t DEF SyncEvents
  <2>3. Len(events') = Len(events) + 1
    BY <1>t, <2>1, <2>2, LengthFacts
  <2>4. reads' = reads + 1 /\ requests' = requests /\ Free' = Free
    BY <1>2 DEF Advertise, Free
  <2> QED
    BY <1>t, <1>l, <2>3, <2>4
<1>3. CASE PropertyNotify
  <2>1. Len(events') = Len(events) - 1
    BY <1>3, <1>t, LengthFacts DEF PropertyNotify
  <2>2. requests' = requests /\ reads' = reads
    BY <1>3 DEF PropertyNotify
  <2> QED
    BY <1>t, <1>l, <2>1, <2>2
<1>4. CASE Answer
  <2>1. Len(requests') = Len(requests) - 1
    BY <1>4, <1>t, LengthFacts DEF Answer
  <2>2. Len(events') \in {Len(events), Len(events) + 1}
    <3> DEFINE e == [type |-> "alarm", value |-> Head(requests),
                     alarm |-> server.alarm]
    <3>1. events' = events \/ events' = Append(events, e)
      BY <1>4 DEF Answer
    <3>2. e \in SyncEvents
      <4>1. Head(requests) \in Nat /\ server.alarm \in Nat
        BY <1>4, <1>t, HeadTailFacts DEF Answer, SyncTypeOK
      <4> QED
        BY <4>1 DEF SyncEvents
    <3> HIDE DEF e
    <3> QED
      BY <1>t, <3>1, <3>2, LengthFacts
  <2>3. reads' = reads /\ Free' = Free
    BY <1>4 DEF Answer, Free
  <2> QED
    BY <1>t, <1>l, <2>1, <2>2, <2>3
<1>5. CASE AlarmNotify
  <2>1. Len(events') = Len(events) - 1
    BY <1>5, <1>t, LengthFacts DEF AlarmNotify
  <2>2. requests' = requests /\ reads' = reads
    BY <1>5 DEF AlarmNotify
  <2> QED
    BY <1>t, <1>l, <2>1, <2>2
<1>6. CASE Motion
  <2>1. events' = events /\ reads' = reads /\ counter' = counter
    BY <1>6 DEF Motion
  <2>2. CASE counter = 0
    <3>1. requests' = requests /\ Free' = 0
      BY <1>6, <2>1, <2>2 DEF Motion, Free
    <3> QED
      BY <1>t, <1>l, <2>1, <3>1
  <2>3. CASE counter # 0
    <3>1. counter \in Nat /\ sendSyncRequest(counter, value)
      BY <1>6, <1>t, <2>3 DEF Motion, SyncTypeOK
    <3>2. \/ UNCHANGED <<requests, isPending>>
          \/ ~isPending /\ Len(requests') = Len(requests) + 1 /\ Free' = 0
      <4>1. counter \in Nat /\ value \in Nat /\ counter' = counter
        BY <1>t, <2>1, <3>1
      <4> QED
        BY <1>s, <3>1, <4>1
    <3>3. CASE UNCHANGED <<requests, isPending>>
      <4>1. Free' = Free
        BY <2>1, <3>3 DEF Free
      <4> QED
        BY <1>l, <2>1, <3>3, <4>1
    <3>4. CASE ~isPending /\ Len(requests') = Len(requests) + 1 /\ Free' = 0
      <4>1. Free = 1
        BY <2>3, <3>4 DEF Free
      <4> QED
        BY <1>t, <1>l, <2>1, <3>4, <4>1
    <3> QED
      BY <3>2, <3>3, <3>4
  <2> QED
    BY <2>2, <2>3
<1>7. CASE Damage \/ UNCHANGED syncVars
  <2>1. UNCHANGED <<counter, isPending, requests, events, reads>>
    BY <1>7 DEF Damage, syncVars
  <2> QED
    BY <1>l, <2>1 DEF Free
<1>8. CASE Timeout \/ Finish
  <2>1. /\ UNCHANGED <<counter, requests, events, reads>>
        /\ counter # 0 /\ isPending => isPending'
    BY <1>8 DEF Timeout, Finish
  <2>2. Free' <= Free
    BY <2>1 DEF Free
  <2> QED
    BY <1>t, <1>l, <2>1, <2>2
<1>9. CASE Failsafe
  <2>1. /\ UNCHANGED <<requests, events, reads>>
        /\ counter' = 0 \/ UNCHANGED <<counter, isPending>>
    BY <1>9 DEF Failsafe, failsafeTimeout
  <2>2. Free' <= Free
    BY <2>1 DEF Free
  <2> QED
    BY <1>t, <1>l, <2>1, <2>2
<1> QED
  BY <1>1, <1>2, <1>3, <1>4, <1>5, <1>6, <1>7, <1>8, <1>9 DEF SyncNext

(* "do NOT, NEVER send a sync request when there's one on the stack"       *)
(* (client.cpp): a client never has more requests to answer than it has    *)
(* advertised counters, one if it does so once.                            *)
THEOREM NeverTwoRequests == SyncSpec => []OneRequest
<1>1. SyncInit => OneInv
  BY SyncTypeInit DEF SyncInit, OneInv, NotYet, Free
<1>2. OneInv /\ [SyncNext]_syncVars => OneInv'
  BY OneStep
<1>3. OneInv => OneRequest
  <2> SUFFICES ASSUME OneInv PROVE Len(requests) <= reads
    BY DEF OneRequest
  <2>1. /\ Len(requests) \in Nat /\ Len(events) \in Nat /\ Free \in {0, 1}
        /\ reads \in Nat
    BY LengthFacts DEF OneInv, Free, SyncTypeOK
  <2> QED
    BY <2>1 DEF OneInv
<1> QED
  BY <1>1, <1>2, <1>3, PTL DEF SyncSpec
=============================================================================
