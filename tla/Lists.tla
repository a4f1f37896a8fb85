-------------------------------- MODULE Lists --------------------------------
(***************************************************************************)
(* Walks along the lists (QList) of KWin, as recursive functions, which    *)
(* can be proved about.                                                    *)
(***************************************************************************)
EXTENDS Naturals, Sequences, SequencesExt, FiniteSetsExt

(* QList::removeAll(): SequencesExt's Remove.                              *)
removeAll(list, c) ==
    LET kept[i \in 0..Len(list)] ==
            IF i = 0 THEN <<>>
            ELSE IF list[i] = c THEN kept[i - 1] ELSE Append(kept[i - 1], list[i])
    IN  kept[Len(list)]

(* A loop over a list: a step for each of its windows, from the state g.   *)
(* SequencesExt's FoldLeft.                                                *)
Through(Step(_, _), g, list) ==
    LET after[i \in 0..Len(list)] ==
            IF i = 0 THEN g ELSE Step(after[i - 1], list[i])
    IN  after[Len(list)]
=============================================================================
