----------------------------- MODULE MCRendered -----------------------------
(***************************************************************************)
(* Two images for the cache of rendered images.                            *)
(***************************************************************************)
EXTENDS RenderedImages

CONSTANTS i1, i2

MCImages == {i1, i2}
MCWide   == [i \in MCImages |-> IF i = i1 THEN 6 ELSE 10]
============================================================================
