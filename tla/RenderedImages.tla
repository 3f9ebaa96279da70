-------------------------- MODULE RenderedImages --------------------------
(***************************************************************************)
(* The images of one page, converted and reduced for drawing               *)
(* (pdfrum-render, imagecache.rs), and the two draws that ask for them     *)
(* (walk.rs): upright, reduced to the pixels it covers, and sheared,       *)
(* mapped from the whole image.  One axis stands for the two; the ink and  *)
(* the transfer function of the key are left out.                          *)
(***************************************************************************)
EXTENDS Integers, FiniteSets, FiniteSetsExt, Functions

CONSTANTS
    Images,    \* references of image XObjects
    Wide,      \* the width of each, in samples; a pixmap has as many bytes
    Covered,   \* pixels an image may cover on the device
    Shears,    \* lengths a sheared image may have on the device
    Budget     \* RENDERED_CACHE_BUDGET

VARIABLES
    entries,   \* RenderedImageCache::entries: the width of the pixmap, by image and width asked for
    bytes,     \* RenderedImageCache::bytes
    drawn      \* the last upright draw: the width its placement was made for, and the pixmap's

vars == <<entries, bytes, drawn>>

Widths == {Wide[i] : i \in Images} \union Covered \union Shears

TypeOK ==
    /\ DOMAIN entries \subseteq Images \X Widths
    /\ \A k \in DOMAIN entries : entries[k] \in Widths
    /\ bytes \in Nat
    /\ drawn \in [placed : Widths \union {0}, pixels : Widths \union {0}]

Init == entries = <<>> /\ bytes = 0 /\ drawn = [placed |-> 0, pixels |-> 0]

\* Mistake: what is there already is counted again.
KeptTwice(k, made) == bytes + made <= Budget \/ DOMAIN entries = {}

\* get_or_render: a pixmap that would pass the budget is drawn and not kept,
\* unless nothing is kept.
Kept(k, made) ==
    k \notin DOMAIN entries /\ (bytes + made <= Budget \/ DOMAIN entries = {})

Request(k, made) ==
    IF Kept(k, made)
    THEN /\ entries' = [x \in DOMAIN entries \union {k} |-> IF x = k THEN made ELSE entries[x]]
         /\ bytes' = bytes + made
    ELSE UNCHANGED <<entries, bytes>>

Answered(k, made) == IF k \in DOMAIN entries THEN entries[k] ELSE made

\* Reduction::size: to the pixels covered, or not at all.
Reduced(i, c) == Min({Wide[i], c})

\* draw_snapped_image: the placement is made for the width of the key.
DrawUpright(i, c) ==
    LET k == <<i, Reduced(i, c)>>
    IN  /\ Request(k, Reduced(i, c))
        /\ drawn' = [placed |-> Reduced(i, c), pixels |-> Answered(k, Reduced(i, c))]

\* draw_sheared_image: the key has the length on the device, the pixmap is
\* the whole image, and what it is answered is stretched whatever its width.
DrawSheared(i, h) ==
    /\ Request(<<i, h>>, Wide[i])
    /\ UNCHANGED drawn

Next == \E i \in Images :
            \/ \E c \in Covered : DrawUpright(i, c)
            \/ \E h \in Shears : DrawSheared(i, h)

Spec == Init /\ [][Next]_vars

----------------------------------------------------------------------------

\* The account of bytes is that of the entries, and passes the budget only
\* for an entry that is alone (get_or_render).
BudgetHeld ==
    /\ bytes = SumFunction(entries)
    /\ bytes > Budget => Cardinality(DOMAIN entries) = 1

\* The pixmap drawn has the width its placement was made for: "the one
\* number both the key and the pixels must agree on" (stretch.rs,
\* Reduction::size).
PixelsFitPlacement == drawn.placed = drawn.pixels
============================================================================
