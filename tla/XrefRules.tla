----------------------------- MODULE XrefRules -----------------------------
(***************************************************************************)
(* Which entry wins (pdfrum-parser, xref/mod.rs).  A cross-reference table *)
(* says where each object is; sections are applied to it one entry at a    *)
(* time, and each kind of entry has its own rule for what it may replace.  *)
(* Here a table is a function from the numbers it describes to entries.    *)
(***************************************************************************)
EXTENDS Naturals

CONSTANTS
    MaxNumber,   \* Limits::max_object_number; max_xref_size is one more
    Offsets,     \* the byte offsets considered
    Indexes,     \* the positions inside an object stream considered
    Generations  \* the generations considered

ASSUME RulesAssumption ==
    /\ MaxNumber \in Nat
    /\ Offsets \subseteq Nat
    /\ Indexes \subseteq Nat
    /\ Generations \subseteq Nat
    /\ 0 \in Offsets \intersect Indexes \intersect Generations

Numbers == 0..MaxNumber

\* Where an object is; pos is the offset, or the index in the object stream.
Entry == [at      : {"free", "offset", "packed"},
          pos     : Offsets \union Indexes,
          archive : Numbers,
          gen     : Generations,
          flag    : BOOLEAN]

Tables == UNION {[D -> Entry] : D \in SUBSET Numbers}

Free(g) == [at |-> "free", pos |-> 0, archive |-> 0, gen |-> g, flag |-> FALSE]
At(p, g, f) == [at |-> "offset", pos |-> p, archive |-> 0, gen |-> g, flag |-> f]
Packed(a, i) == [at |-> "packed", pos |-> i, archive |-> a, gen |-> 0, flag |-> FALSE]

----------------------------------------------------------------------------
(* One entry over another. *)

\* What add_normal leaves where old was: old when its generation is newer;
\* the flag of an object stream stays.
NormalOver(old, g, is, p) ==
    IF old.gen > g THEN old ELSE At(p, g, old.flag \/ is)

\* add_compressed declines where old is: it cannot be a member of anything.
Declines(old) == old.gen > 0 \/ old.flag

\* What merge_up leaves where old was: the entry on top, whatever its
\* generation; a known object stream at an offset keeps its flag.
TopOver(old, e) ==
    IF e.at = "offset" /\ old.at = "offset" /\ old.flag
    THEN [e EXCEPT !.flag = TRUE] ELSE e

----------------------------------------------------------------------------
(* The operations on a table. *)

Knows(m, n) == n \in DOMAIN m

\* The table m with e for n.
Put(m, n, e) == [k \in DOMAIN m \union {n} |-> IF k = n THEN e ELSE m[k]]

\* or_default: n is described, as free when nothing else says so.
OrDefault(m, n) == IF Knows(m, n) THEN m ELSE Put(m, n, Free(0))

AddNormal(m, n, g, is, p) ==
    IF n \notin Numbers THEN m
    ELSE Put(m, n, IF Knows(m, n) THEN NormalOver(m[n], g, is, p)
                                  ELSE At(p, g, is))

\* Declining leaves the archive alone as well.
AddCompressed(m, n, a, i) ==
    IF n \notin Numbers \/ a \notin Numbers THEN m
    ELSE IF Knows(m, n) /\ Declines(m[n]) THEN m
    ELSE LET packed == OrDefault(Put(m, n, Packed(a, i)), a) IN
         [packed EXCEPT ![a].flag = TRUE]

SetFree(m, n, g) == Put(m, n, Free(g))

NoEntries == [k \in {} |-> Free(0)]

\* The numbers from size on are erased, and the last one below is described.
SetSize(m, size) ==
    IF size = 0 THEN NoEntries
    ELSE OrDefault([k \in {n \in DOMAIN m : n < size} |-> m[k]], size - 1)

\* merge_up: its loop's turns are for different numbers.
MergeUp(m, top) ==
    [n \in DOMAIN m \union DOMAIN top |->
        IF ~Knows(top, n) THEN m[n]
        ELSE IF Knows(m, n) THEN TopOver(m[n], top[n]) ELSE top[n]]

\* last_object_number: zero too when nothing is described.
LastNumber(m) ==
    IF DOMAIN m = {} THEN 0 ELSE CHOOSE n \in DOMAIN m : \A k \in DOMAIN m : k <= n
============================================================================
