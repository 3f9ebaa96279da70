---------------------------- MODULE ImageCache ----------------------------
(***************************************************************************)
(* The decoded images of one session (pdfrum-page, image/cache.rs), asked  *)
(* for while a page is built (build.rs, add_image): an image is decoded    *)
(* whole, or at a width its decoder chooses for the device the page is     *)
(* drawn on, and kept by its reference and the size that was asked for.    *)
(* One axis stands for the two.                                            *)
(***************************************************************************)
EXTENDS Integers, FiniteSets, FiniteSetsExt, Functions

CONSTANTS
    Images,      \* references of image XObjects
    Wide,        \* the width of each, in samples; a decoded image has as many bytes
    Devices,     \* the device widths pages are drawn on; none is zero
    MaxEntries,  \* MAX_ENTRIES
    MaxBytes,    \* MAX_BYTES
    MaxTick      \* bound: lookups and insertions

Full  == 0       \* RequestedSize::Full
Sizes == Devices \union {Full}

\* What a decoder may answer a request with: the whole image, or for a
\* reduced one any width that still covers the device.
Decodes(i, s) ==
    IF s = Full THEN {Wide[i]} ELSE {w \in 1..Wide[i] : w = Wide[i] \/ w >= s}

VARIABLES
    entries,   \* ImageCache::entries: the width decoded and the last use, by image and size
    tick,      \* ImageCache::tick
    bytes,     \* ImageCache::bytes
    drawn      \* the last image drawn, for which size, and the width it had

vars == <<entries, tick, bytes, drawn>>

Keys == Images \X Sizes

TypeOK ==
    /\ DOMAIN entries \subseteq Keys
    /\ \A k \in DOMAIN entries : entries[k].width \in 1..Wide[k[1]] /\ entries[k].used \in 1..tick
    /\ tick \in Nat /\ bytes \in Nat
    /\ drawn \in [image : Images, size : Sizes, width : Nat]

Init ==
    /\ entries = <<>> /\ tick = 0 /\ bytes = 0
    /\ \E i \in Images : drawn = [image |-> i, size |-> Full, width |-> Wide[i]]

----------------------------------------------------------------------------

\* Mistake: whole is a size that any width covers.
SatisfiesAnything(stored, width, size) == stored = Full \/ width >= size

\* satisfies: a whole image serves any request, a reduced one serves a
\* reduced request it covers.
Satisfies(stored, width, size) == stored = Full \/ (size # Full /\ width >= size)

\* The entries get() may answer with: the exact key, or the whole image, or
\* any that is large enough, in the order a hash map has them.
Serving(i, s) ==
    IF <<i, s>> \in DOMAIN entries THEN {<<i, s>>}
    ELSE IF <<i, Full>> \in DOMAIN entries THEN {<<i, Full>>}
    ELSE {k \in DOMAIN entries : k[1] = i /\ Satisfies(k[2], entries[k].width, s)}

Hit(i, s) ==
    /\ tick < MaxTick
    /\ \E k \in Serving(i, s) :
        /\ entries' = [entries EXCEPT ![k].used = tick + 1]
        /\ drawn' = [image |-> i, size |-> s, width |-> entries[k].width]
    /\ tick' = tick + 1
    /\ UNCHANGED bytes

\* The n that were used longest ago.
Oldest(es, n) ==
    {k \in DOMAIN es : Cardinality({l \in DOMAIN es : es[l].used < es[k].used}) < n}

BytesOf(es, K) == SumFunctionOnSet([k \in DOMAIN es |-> es[k].width], K)

\* evict: the entry cap first, then the byte budget, oldest first; the
\* budget spares the last one.
Evicted(es, held) ==
    LET over == IF Cardinality(DOMAIN es) > MaxEntries THEN Cardinality(DOMAIN es) - MaxEntries ELSE 0
        left(n) == held - BytesOf(es, Oldest(es, n))
        enough == {n \in over..Cardinality(DOMAIN es) :
                      left(n) <= MaxBytes \/ n >= Cardinality(DOMAIN es) - 1}
    IN  Oldest(es, Min(enough))

Inserted(k, w) ==
    [l \in DOMAIN entries \union {k} |->
        IF l = k THEN [width |-> w, used |-> tick + 2] ELSE entries[l]]

Keep(es, held) ==
    LET gone == Evicted(es, held)
    IN  /\ entries' = [k \in DOMAIN es \ gone |-> es[k]]
        /\ bytes' = held - BytesOf(es, gone)

\* A miss decodes, inserts and evicts.
Miss(i, s) ==
    /\ tick + 1 < MaxTick
    /\ Serving(i, s) = {}
    /\ \E w \in Decodes(i, s) :
        /\ Keep(Inserted(<<i, s>>, w), bytes + w)
        /\ drawn' = [image |-> i, size |-> s, width |-> w]
    /\ tick' = tick + 2

\* A codec that refuses the image: nothing is painted, nothing is kept.
Refused(i, s) ==
    /\ tick < MaxTick
    /\ Serving(i, s) = {}
    /\ tick' = tick + 1
    /\ UNCHANGED <<entries, bytes, drawn>>

Clear ==
    /\ entries' = <<>> /\ bytes' = 0
    /\ UNCHANGED <<tick, drawn>>

Next == \/ \E i \in Images, s \in Sizes : Hit(i, s) \/ Miss(i, s) \/ Refused(i, s)
        \/ Clear

Spec == Init /\ [][Next]_vars

----------------------------------------------------------------------------

\* What is drawn was decoded at least as finely as it was asked for: whole
\* when the whole was asked for, and covering the device otherwise, unless
\* the image itself is narrower, whichever entry served it (get, satisfies).
NeverCoarser == drawn.width \in Decodes(drawn.image, drawn.size)

\* The account of bytes is that of the entries after every insertion and
\* eviction, there are never more entries than the cap, and the budget is
\* passed only by an entry that is alone (insert, evict).
BudgetKept ==
    /\ bytes = BytesOf(entries, DOMAIN entries)
    /\ Cardinality(DOMAIN entries) <= MaxEntries
    /\ bytes > MaxBytes => Cardinality(DOMAIN entries) = 1
============================================================================
