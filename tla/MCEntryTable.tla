--------------------------- MODULE MCEntryTable ---------------------------
(***************************************************************************)
(* A small table: three numbers, one offset besides zero, two generations. *)
(***************************************************************************)
EXTENDS EntryTable

\* An entry of each kind at each number, and two tables of two entries.
MCTops ==
    {[k \in {n} |-> e] : n \in Numbers,
        e \in {Free(0), At(1, 0, FALSE), At(1, 1, TRUE), Packed(0, 0)}}
    \union {[k \in {0, 2} |-> At(1, 0, FALSE)],
            [k \in {1, 2} |-> IF k = 1 THEN Packed(2, 0) ELSE At(1, 0, TRUE)]}
============================================================================
