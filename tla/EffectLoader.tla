---------------------------- MODULE EffectLoader ----------------------------
(***************************************************************************)
(* Loading of effects (effectloader.cpp, EffectLoadQueue in effectloader.h *)
(* and the part of EffectsHandlerImpl that keeps the loaded effects).      *)
(* Three loaders look for effects, two of them in a thread, and queue what *)
(* the configuration enables; a queue loads one effect per round of the    *)
(* event loop.  Meanwhile effects are loaded and unloaded by name, the     *)
(* configuration changes and the compositor may go away with the handler.  *)
(*                                                                         *)
(* One step is one callback of the main thread or the end of a search.     *)
(***************************************************************************)
EXTENDS Naturals, Sequences, FiniteSets, SequencesExt

CONSTANTS
    Effects,        \* the effects there are
    LoaderOf,       \* the loader that finds each of them
    Supported,      \* effects that are supported and can be created
    DefaultOn,      \* effects with the value true for enabled by default
    ChecksOk,       \* effects whose enabled-by-default function says yes
    MaxSearches,    \* bound: searches of one loader under way
    MaxQueue        \* bound: queued effects when a loader is asked

Loaders == {"builtin", "scripted", "plugin"}
Threaded == {"scripted", "plugin"}

ASSUME EffectsAssumption ==
    /\ IsFiniteSet(Effects) /\ LoaderOf \in [Effects -> Loaders]
    /\ {Supported, DefaultOn, ChecksOk} \subseteq SUBSET Effects
ASSUME SearchBoundsAssumption == {MaxSearches, MaxQueue} \subseteq Nat

VARIABLES
    alive,          \* there is an EffectsHandlerImpl
    config,         \* the key "<effect>Enabled", or "unset"
    running,        \* per loader: searches in their thread
    found,          \* per loader: finished searches, signal queued
    queue,          \* per loader: m_queue
    scheduled,      \* per loader: m_dequeueScheduled
    posted,         \* per loader: queued invocations of dequeue()
    loaded,         \* m_loadedEffects of all loaders
    order           \* how many instances of an effect effect_order has

queueVars == <<queue, scheduled, posted>>
loaderVars == <<alive, config, running, found, queueVars, loaded, order>>

Entries == [effect: Effects, check: BOOLEAN]
None == [n \in Loaders |-> 0]

-----------------------------------------------------------------------------
(* The queue.                                                              *)

(* Mutant of enqueue: nobody is told.                                      *)
enqueueOnly(n, entries) ==
    /\ queue' = [queue EXCEPT ![n] = @ \o entries]
    /\ UNCHANGED <<scheduled, posted>>

(* enqueue() for some entries, each with its scheduleDequeue().            *)
enqueue(n, entries) ==
    /\ queue' = [queue EXCEPT ![n] = @ \o entries]
    /\ IF entries = <<>> \/ scheduled[n] THEN UNCHANGED <<scheduled, posted>>
       ELSE /\ scheduled' = [scheduled EXCEPT ![n] = TRUE]
            /\ posted' = [posted EXCEPT ![n] = @ + 1]

(* Mutant of dequeue: m_dequeueScheduled stays set.                        *)
dequeueStuck(n) ==
    IF queue[n] = <<>>
    THEN /\ posted' = [posted EXCEPT ![n] = @ - 1]
         /\ UNCHANGED <<queue, scheduled>>
    ELSE /\ queue' = [queue EXCEPT ![n] = Tail(@)]
         /\ posted' = [posted EXCEPT ![n] = @ - 1]
         /\ UNCHANGED scheduled

(* dequeue(): the next effect; the rest waits for the next round.          *)
dequeue(n) ==
    IF queue[n] = <<>>
    THEN /\ posted' = [posted EXCEPT ![n] = @ - 1]
         /\ UNCHANGED <<queue, scheduled>>
    ELSE /\ queue' = [queue EXCEPT ![n] = Tail(@)]
         /\ scheduled' = [scheduled EXCEPT ![n] = Tail(queue[n]) # <<>>]
         /\ posted' = [posted EXCEPT ![n] =
                           IF Tail(queue[n]) # <<>> THEN @ ELSE @ - 1]

-----------------------------------------------------------------------------
(* The loaders and the handler.                                            *)

(* readConfig(): the effects of a loader that are to be loaded.            *)
Wanted(n) ==
    {e \in Effects : /\ LoaderOf[e] = n
                     /\ config[e] = "on" \/ (config[e] = "unset" /\ e \in DefaultOn)}

entriesFor(list) ==
    [i \in DOMAIN list |-> [effect |-> list[i],
                            check  |-> config[list[i]] = "unset"]]

(* Mutant of loads: an effect that is there is loaded once more.           *)
loadsAgain(e, check, there) ==
    e \in Supported /\ (check /\ LoaderOf[e] # "scripted" => e \in ChecksOk)

(* loadEffect() of a loader succeeds; a script has no function that says   *)
(* whether it is enabled by default.                                       *)
loads(e, check, there) ==
    /\ e \notin there
    /\ e \in Supported
    /\ check /\ LoaderOf[e] # "scripted" => e \in ChecksOk

(* effectLoaded: EffectsHandlerImpl puts the effect into effect_order.     *)
load(e, check) ==
    IF loads(e, check, loaded)
    THEN /\ loaded' = loaded \cup {e}
         /\ order' = [order EXCEPT ![e] = @ + 1]
    ELSE UNCHANGED <<loaded, order>>

(* queryAndLoadAll() of the three loaders.                                 *)
queryAndLoadAll ==
    /\ running' = [n \in Loaders |->
                      IF n \in Threaded THEN running[n] + 1 ELSE running[n]]
    /\ \E list \in SetToSeqs(Wanted("builtin") \ loaded) :
          enqueue("builtin", entriesFor(list))

-----------------------------------------------------------------------------
(* The steps.                                                              *)

LoaderInit ==
    /\ alive = FALSE
    /\ config \in [Effects -> {"on", "off", "unset"}]
    /\ running = None /\ found = None
    /\ queue = [n \in Loaders |-> <<>>]
    /\ scheduled = [n \in Loaders |-> FALSE] /\ posted = None
    /\ loaded = {} /\ order = [e \in Effects |-> 0]

Room ==
    \A n \in Loaders : /\ running[n] + found[n] < MaxSearches
                       /\ Len(queue[n]) < MaxQueue

(* The constructor of EffectsHandlerImpl ends with reconfigure().          *)
Start ==
    /\ ~alive /\ Room
    /\ alive' = TRUE
    /\ queryAndLoadAll
    /\ UNCHANGED <<config, found, loaded, order>>

Reconfigure ==
    /\ alive /\ Room
    /\ queryAndLoadAll
    /\ UNCHANGED <<alive, config, found, loaded, order>>

(* findAllEffects() returns in its thread.                                 *)
SearchEnds(n) ==
    /\ running[n] > 0
    /\ running' = [running EXCEPT ![n] = @ - 1]
    /\ found' = [found EXCEPT ![n] = @ + 1]
    /\ UNCHANGED <<alive, config, queueVars, loaded, order>>

(* QFutureWatcher::finished: the configuration is read now.                *)
Found(n) ==
    /\ found[n] > 0 /\ Len(queue[n]) < MaxQueue
    /\ found' = [found EXCEPT ![n] = @ - 1]
    /\ \E list \in SetToSeqs(Wanted(n)) : enqueue(n, entriesFor(list))
    /\ UNCHANGED <<alive, config, running, loaded, order>>

Dequeue(n) ==
    /\ posted[n] > 0
    /\ dequeue(n)
    /\ IF queue[n] = <<>> THEN UNCHANGED <<loaded, order>>
       ELSE load(Head(queue[n]).effect, Head(queue[n]).check)
    /\ UNCHANGED <<alive, config, running, found>>

(* EffectsHandlerImpl::loadEffect(), over D-Bus.                           *)
LoadEffect(e) ==
    /\ alive /\ load(e, FALSE)
    /\ UNCHANGED <<alive, config, running, found, queueVars>>

(* effect_order without an effect; deleting that tells its loader.         *)
unloaded(e) == [order EXCEPT ![e] = @ - 1]

UnloadEffect(e) ==
    /\ alive /\ order[e] > 0
    /\ order' = unloaded(e)
    /\ loaded' = loaded \ {e}
    /\ UNCHANGED <<alive, config, running, found, queueVars>>

(* reloadEffect(): it may not come up again.                               *)
ReloadEffect(e) ==
    /\ alive /\ order[e] > 0
    /\ IF loads(e, FALSE, loaded \ {e}) THEN UNCHANGED <<loaded, order>>
       ELSE order' = unloaded(e) /\ loaded' = loaded \ {e}
    /\ UNCHANGED <<alive, config, running, found, queueVars>>

SetConfig(e) ==
    /\ \E v \in {"on", "off"} : v # config[e] /\ config' = [config EXCEPT ![e] = v]
    /\ UNCHANGED <<alive, running, found, queueVars, loaded, order>>

(* The compositor deletes the handler: unloadAllEffects(), clear(), and    *)
(* with the loaders go their watchers, queues and queued invocations.  (A  *)
(* search that is running goes on in its thread, with nobody to tell.)     *)
Stop ==
    /\ alive
    /\ alive' = FALSE
    /\ running' = None /\ found' = None /\ queue' = [n \in Loaders |-> <<>>]
    /\ scheduled' = [n \in Loaders |-> FALSE] /\ posted' = None
    /\ loaded' = {} /\ order' = [e \in Effects |-> 0]
    /\ UNCHANGED config

LoaderNext ==
    \/ Start \/ Reconfigure \/ Stop
    \/ \E n \in Loaders : SearchEnds(n) \/ Found(n) \/ Dequeue(n)
    \/ \E e \in Effects :
          LoadEffect(e) \/ UnloadEffect(e) \/ ReloadEffect(e) \/ SetConfig(e)

LoaderSpec == LoaderInit /\ [][LoaderNext]_loaderVars

(* The event loop delivers queued calls, and a search ends.                *)
FairLoaderSpec ==
    /\ LoaderSpec
    /\ \A n \in Loaders :
          /\ WF_loaderVars(SearchEnds(n)) /\ WF_loaderVars(Found(n))
          /\ WF_loaderVars(Dequeue(n))

-----------------------------------------------------------------------------
(* Properties.                                                             *)

(* Every member keeps its type.                                            *)
LoaderTypeOK ==
    /\ alive \in BOOLEAN /\ config \in [Effects -> {"on", "off", "unset"}]
    /\ running \in [Loaders -> Nat] /\ found \in [Loaders -> Nat]
    /\ queue \in [Loaders -> Seq(Entries)]
    /\ scheduled \in [Loaders -> BOOLEAN] /\ posted \in [Loaders -> Nat]
    /\ loaded \in SUBSET Effects /\ order \in [Effects -> Nat]

(* A queued effect is never forgotten: m_dequeueScheduled says whether the *)
(* queue has entries, and exactly then one dequeue() is under way, so that *)
(* one effect is loaded per round of the event loop, "all events should    *)
(* get processed first" (effectloader.h) before the next one.              *)
OneDequeueUnderWay ==
    \A n \in Loaders :
        /\ scheduled[n] <=> queue[n] # <<>>
        /\ posted[n] = IF scheduled[n] THEN 1 ELSE 0

(* "If the Effect is already loaded, the Effect should not get loaded      *)
(* again" (effectloader.h): the loaders and effect_order agree on what is  *)
(* loaded, and there is one instance of it, although searches that overlap *)
(* queue an effect several times and it may be loaded by name meanwhile.   *)
LoadedOnce == \A e \in Effects : order[e] = IF e \in loaded THEN 1 ELSE 0

(* What the configuration enables is loaded once it is queued or searched, *)
(* unless the configuration changes or the compositor goes away.           *)
EnabledGetsLoaded ==
    \A e \in Supported :
        (/\ alive /\ config[e] = "on"
         /\ \/ running[LoaderOf[e]] > 0
            \/ Contains(queue[LoaderOf[e]], [effect |-> e, check |-> FALSE]))
            ~> (e \in loaded \/ config[e] # "on" \/ ~alive)
=============================================================================
