---------------------------- MODULE EventChannel ----------------------------
(***************************************************************************)
(* What libinput/connection.h promises to InputRedirection: every event    *)
(* that libinput produces reaches the main thread once and in order, where *)
(* consecutive relative motions (and consecutive axis events) may arrive   *)
(* as one signal that carries all of them.  How threads, queues, the mutex *)
(* and eventsRead achieve it is left to InputConnection.                   *)
(*                                                                         *)
(* An event is delivered once somebody has noticed that there is one to    *)
(* read.  Nobody need notice a silent one before the next event that is    *)
(* not silent.                                                             *)
(***************************************************************************)
EXTENDS Naturals, Sequences, SequencesExt

CONSTANTS
    Events,         \* what libinput can report
    Mergeable(_),   \* events that may be merged with their successors
    Silent(_)       \* events that libinput may report without a notice

VARIABLES
    pending,        \* events produced and not delivered yet
    noticed         \* how many of them, from the front, have been noticed

vars == <<pending, noticed>>

Init ==
    /\ \A i \in DOMAIN pending : pending[i] \in Events
    /\ noticed = Len(pending)

(* One event, or the burst that suspending or resuming libinput produces.  *)
Produce ==
    /\ IsPrefix(pending, pending') /\ pending # pending'
    /\ \A i \in DOMAIN pending' : pending'[i] \in Events
    /\ \/ noticed' = Len(pending')
       \/ /\ \A i \in (Len(pending) + 1)..Len(pending') : Silent(pending'[i])
          /\ noticed' = noticed

(* Somebody is going to read what there is.                                *)
Notice ==
    /\ noticed < Len(pending) /\ noticed' = Len(pending)
    /\ pending' = pending

(* One signal: an event, or a run of events of one kind that is merged.    *)
Deliver ==
    \E n \in 1..noticed :
        /\ n = 1 \/ \A i \in 1..n : /\ Mergeable(pending[i])
                                    /\ pending[i].type = pending[1].type
        /\ pending' = SubSeq(pending, n + 1, Len(pending))
        /\ noticed' = noticed - n

Next == Produce \/ Notice \/ Deliver

Safety == Init /\ [][Next]_vars

Spec == Safety /\ WF_vars(Deliver)
=============================================================================
