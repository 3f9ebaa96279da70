------------------------------ MODULE XrefMap ------------------------------
(***************************************************************************)
(* What Xref promises (pdfrum-parser, xref/mod.rs): a map from object      *)
(* numbers to entries, changed by one operation at a time.                 *)
(***************************************************************************)
EXTENDS XrefRules

CONSTANT Tops   \* the tables that merge_up is given

VARIABLE map

Init == map = NoEntries

\* Numbers an operation may be called with: one past the largest included.
Called == 0..(MaxNumber + 1)

Next ==
    \/ \E n \in Called, g \in Generations, is \in BOOLEAN, p \in Offsets :
          map' = AddNormal(map, n, g, is, p)
    \/ \E n, a \in Called, i \in Indexes : map' = AddCompressed(map, n, a, i)
    \/ \E n \in Numbers, g \in Generations : map' = SetFree(map, n, g)
    \/ \E size \in 0..(MaxNumber + 1) : map' = SetSize(map, size)
    \/ \E top \in Tops : map' = MergeUp(map, top)

Spec == Init /\ [][Next]_map
============================================================================
