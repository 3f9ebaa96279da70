------------------------------ MODULE PageList ------------------------------
(***************************************************************************)
(* What the calls of pdfrum-edit's pages.rs and import promise of a        *)
(* document: its list of pages, each with the turn it is shown in.  Every  *)
(* call works on the numbering of the file that was opened.                *)
(***************************************************************************)
EXTENDS Integers, Sequences, SequencesExt

VARIABLES
    original,   \* the pages of the file, each [page, turn]
    list,       \* the pages of the document as it is edited
    call        \* the call made last, with its arguments

vars == <<original, list, call>>

Init ==
    /\ list = original
    /\ call = [op |-> "none"]

\* New pages stand together somewhere.
Add ==
    /\ call'.op = "add"
    /\ LET was == list  new == list' IN
       \E i \in 0..Len(was) : new = SubSeq(was, 1, i) \o call'.pages \o SubSeq(was, i + 1, Len(was))

\* What was deleted is gone, if it was there, and nothing else.
Delete ==
    /\ call'.op = "delete"
    /\ list' = FlattenSeq([i \in DOMAIN list |->
                   IF list[i].page \in call'.pages THEN <<>> ELSE <<list[i]>>])

\* The pages of the file in a new order, each as the file shows it: the other
\* calls are forgotten.
Reorder ==
    /\ call'.op = "reorder"
    /\ list' = [i \in DOMAIN original |-> original[call'.order[i]]]

Turn ==
    /\ call'.op = "turn"
    /\ list' = [i \in DOMAIN list |->
                   IF list[i].page = call'.page THEN [list[i] EXCEPT !.turn = call'.turn]
                   ELSE list[i]]

Next ==
    /\ Add \/ Delete \/ Reorder \/ Turn
    /\ UNCHANGED original

Spec == Init /\ [][Next]_vars
=============================================================================
