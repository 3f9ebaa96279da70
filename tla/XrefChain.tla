----------------------------- MODULE XrefChain -----------------------------
(***************************************************************************)
(* Opening a document (pdfrum-parser, doc.rs load; xref/chain.rs and       *)
(* rebuild.rs): the cross-reference sections are followed from the newest  *)
(* to the oldest and applied from the oldest to the newest; when that      *)
(* fails, or gives no catalog, the whole file is scanned instead.          *)
(*                                                                         *)
(* A file is the sequence of the things a reader can find in it, and an    *)
(* offset is a position in that sequence; zero is no position.  The header *)
(* and the encryption are left out, as is everything read of an object but *)
(* its number, its members and whether it is a catalog.                    *)
(***************************************************************************)
EXTENDS XrefRules, Sequences, FiniteSets, SequencesExt

CONSTANTS
    Files,   \* the files considered: sequences of items
    Sound    \* those of them that an incremental writer leaves

(***************************************************************************)
(*   what     an object, a classic table with its trailer, a               *)
(*            cross-reference stream, a startxref with its %%EOF, or bytes *)
(*            that are none of these                                       *)
(*   num, gen of an object or a cross-reference stream                     *)
(*   members  the objects packed in an object stream                       *)
(*   role     "hollow" is a catalog that describes no pages                *)
(*   entries  what a section says                                          *)
(*   bad      the section's entries cannot be read                         *)
(*   dict     the trailer's keys of a section                              *)
(*   names    the position a startxref names                               *)
(***************************************************************************)
Keys == {"Root", "Size", "Prev", "XRefStm"}

IsItem(i) ==
    /\ i.what \in {"object", "table", "stream", "startxref", "junk"}
    /\ i.role \in {"plain", "catalog", "hollow"}
    /\ i.bad \in BOOLEAN /\ i.names \in Nat
    /\ i.num \in Numbers /\ i.gen \in Generations
    /\ Len(i.members) \in Nat /\ DOMAIN i.members = 1..Len(i.members)
    /\ \A j \in DOMAIN i.members : i.members[j] \in Numbers /\ j - 1 \in Indexes
    /\ DOMAIN i.entries \subseteq Numbers
    /\ \A n \in DOMAIN i.entries : i.entries[n] \in Entry
    /\ DOMAIN i.dict \subseteq Keys
    /\ \A k \in DOMAIN i.dict : i.dict[k] \in Nat

ASSUME FilesAssumption ==
    /\ Sound \subseteq Files
    /\ \A f \in Files :
         /\ Len(f) \in Nat /\ DOMAIN f = 1..Len(f)
         /\ \A p \in DOMAIN f : p \in Offsets /\ IsItem(f[p])

VARIABLES
    file,      \* the bytes
    pc,        \* what the load is doing, or how it ended
    xref,      \* the table so far
    trailer,   \* the keys so far, and the object they came from
    sections,  \* the chain, oldest first
    seen,      \* the positions the walk has visited
    next,      \* the position the walk visits next
    cursor,    \* the section, or the item, that is next to be read
    scanned,   \* what a scan has found: a table, a trailer, whether it has one
    rebuilt,   \* XrefShape::rebuilt
    recorded   \* Xref::sections

vars == <<file, pc, xref, trailer, sections, seen, next, cursor, scanned,
          rebuilt, recorded>>

Ended == {"open", "broken", "late"}

NoTrailer == [dict |-> [k \in {} |-> 0], number |-> 0]
Nothing   == [xref |-> NoEntries, trailer |-> NoTrailer, has |-> FALSE]

IsXref(m) == DOMAIN m \subseteq Numbers /\ \A n \in DOMAIN m : m[n] \in Entry

TypeOK ==
    /\ DOMAIN file \subseteq Offsets
    /\ pc \in Ended \union {"start", "walk", "oldest", "newer", "scan",
                            "catalog", "rescan", "again"}
    /\ IsXref(xref) /\ IsXref(scanned.xref)
    /\ DOMAIN trailer.dict \subseteq Keys /\ trailer.number \in Numbers
    /\ \A i \in DOMAIN sections : sections[i] \in [table : Nat, stream : Nat]
    /\ seen \subseteq Nat
    /\ next \in Nat /\ cursor \in Nat
    /\ scanned.has \in BOOLEAN
    /\ rebuilt \in BOOLEAN
    /\ \A i \in DOMAIN recorded : recorded[i].offset \in Nat

Init ==
    /\ file \in Files
    /\ pc = "start"
    /\ xref = NoEntries
    /\ trailer = NoTrailer
    /\ sections = <<>>
    /\ seen = {}
    /\ next = 0
    /\ cursor = 0
    /\ scanned = Nothing
    /\ rebuilt = FALSE
    /\ recorded = <<>>

----------------------------------------------------------------------------
(* Trailers. *)

Key(d, k) == IF k \in DOMAIN d THEN d[k] ELSE 0
Pointers  == {"Prev", "XRefStm"}

\* merge_trailers: the winner's keys, but the pointers of base.
MergeTrailers(base, winner) ==
    IF base = NoTrailer THEN winner
    ELSE [dict |-> [k \in DOMAIN base.dict \union (DOMAIN winner.dict \ Pointers) |->
                      IF k \in DOMAIN winner.dict \ Pointers THEN winner.dict[k]
                                                             ELSE base.dict[k]],
          number |-> base.number]

\* MergeIntoWalk, were the older section to win.
MergeIntoWalkOlder(acc, section) == MergeTrailers(acc, section)

\* merge_into_walk: what the walk has accumulated is newer than the section.
MergeIntoWalk(acc, section) ==
    LET merged == MergeTrailers(section, acc) IN
    IF acc = NoTrailer THEN merged ELSE [merged EXCEPT !.number = acc.number]

----------------------------------------------------------------------------
(* Reading one section. *)

Junk == [what |-> "junk", num |-> 0, gen |-> 0, members |-> <<>>, role |-> "plain",
         entries |-> NoEntries, bad |-> FALSE, dict |-> [k \in {} |-> 0], names |-> 0]

ItemAt(p)   == IF p \in DOMAIN file THEN file[p] ELSE Junk
IsTable(p)  == ItemAt(p).what = "table"
IsStream(p) == ItemAt(p).what = "stream" /\ ~ItemAt(p).bad

TableTrailer(p)  == [dict |-> file[p].dict, number |-> 0]
StreamTrailer(p) == [dict |-> file[p].dict, number |-> file[p].num]

\* Op(t); TLC evaluates t once, however often Op uses it.
Apply(Op(_), t) == CHOOSE r \in {Op(v) : v \in {t}} : TRUE

\* A table to which Op has been applied with each number of S, the lowest first.
InOrder(Op(_, _), m, S) ==
    MapThenFoldSet(LAMBDA n, t : Apply(LAMBDA v : Op(v, n), t), m, LAMBDA n : n, Max, S)

\* read_subsection: the entries in use; a free entry says nothing.
WithTable(m, es) ==
    InOrder(LAMBDA t, n : AddNormal(t, n, es[n].gen, FALSE, es[n].pos),
            m, {n \in DOMAIN es : es[n].at # "free"})

\* parse_table gives up at some entry; those before it have been applied.
Cut(es, k) == [n \in {j \in DOMAIN es : j < k} |-> es[n]]

\* read_entries, each in an /Index range of its own: the table grows to reach
\* it, and a member of an object stream past the table's end is dropped.
WithStreamEntry(m, n, e) ==
    LET grown == IF n > LastNumber(m) THEN SetSize(m, n + 1) ELSE m IN
    CASE e.at = "free"   -> SetFree(grown, n, e.gen)
      [] e.at = "offset" -> AddNormal(grown, n, e.gen, FALSE, e.pos)
      [] e.at = "packed" -> IF e.archive <= LastNumber(grown)
                            THEN AddCompressed(grown, n, e.archive, e.pos)
                            ELSE grown

WithStream(m, es) ==
    InOrder(LAMBDA t, n : WithStreamEntry(t, n, es[n]), m, DOMAIN es)

\* Sized, were the ceiling not looked at.
SizedUnbounded(m, size) == IF size >= 1 THEN SetSize(m, size) ELSE m

\* apply_size
Sized(m, size) ==
    IF size >= 1 /\ size <= MaxNumber + 1 THEN SetSize(m, size) ELSE m

----------------------------------------------------------------------------
(* chain::load and read_chain *)

\* The last startxref of the file, or zero when what it names is past the end.
StartXref ==
    LET S == {p \in DOMAIN file : file[p].what = "startxref"}
        last == CHOOSE p \in S : \A q \in S : q <= p IN
    IF S = {} \/ file[last].names \notin DOMAIN file THEN 0 ELSE file[last].names

Abandon == pc' = "scan" /\ cursor' = 1 /\ scanned' = Nothing

\* The newest section, read for its trailer and, if a stream, its entries;
\* the declared size is honored before any entry is read.
Start ==
    /\ pc = "start"
    /\ LET p == StartXref IN
         \/ /\ p # 0 /\ IsTable(p)
            /\ trailer' = TableTrailer(p)
            /\ xref' = Sized(xref, Key(file[p].dict, "Size"))
            /\ sections' = <<[table |-> p, stream |-> Key(file[p].dict, "XRefStm")]>>
            /\ seen' = {p}
            /\ next' = Key(file[p].dict, "Prev")
            /\ pc' = "walk"
            /\ UNCHANGED <<cursor, scanned>>
         \/ /\ p # 0 /\ IsStream(p)
            /\ trailer' = StreamTrailer(p)
            /\ xref' = MergeUp(xref, WithStream(Sized(NoEntries, Key(file[p].dict, "Size")),
                                                file[p].entries))
            /\ sections' = <<[table |-> 0, stream |-> p]>>
            /\ seen' = {p}
            /\ next' = Key(file[p].dict, "Prev")
            /\ pc' = "walk"
            /\ UNCHANGED <<cursor, scanned>>
         \/ /\ p = 0 \/ ~(IsTable(p) \/ IsStream(p))
            /\ Abandon
            /\ UNCHANGED <<xref, trailer, sections, seen, next>>
    /\ UNCHANGED <<file, rebuilt, recorded>>

\* Visit, were the walk not to remember where it has been.
VisitAgain ==
    /\ pc = "walk" /\ next # 0
    /\ \/ /\ IsStream(next)
          /\ xref' = WithStream(xref, file[next].entries)
          /\ trailer' = MergeIntoWalk(trailer, StreamTrailer(next))
          /\ sections' = sections
          /\ next' = Key(file[next].dict, "Prev")
          /\ UNCHANGED <<pc, cursor, scanned>>
       \/ /\ IsTable(next)
          /\ trailer' = MergeIntoWalk(trailer, TableTrailer(next))
          /\ sections' = sections
          /\ next' = Key(file[next].dict, "Prev")
          /\ UNCHANGED <<pc, xref, cursor, scanned>>
       \/ /\ ~(IsTable(next) \/ IsStream(next))
          /\ Abandon
          /\ UNCHANGED <<xref, trailer, sections, next>>
    /\ UNCHANGED <<file, seen, rebuilt, recorded>>

\* An older section: a stream's entries go straight onto what newer sections
\* have left, a table is only noted.  A chain that comes back is given up.
Visit ==
    /\ pc = "walk" /\ next # 0
    /\ \/ /\ next \in seen
          /\ Abandon
          /\ UNCHANGED <<xref, trailer, sections, seen, next>>
       \/ /\ next \notin seen /\ IsStream(next)
          /\ xref' = WithStream(xref, file[next].entries)
          /\ trailer' = MergeIntoWalk(trailer, StreamTrailer(next))
          /\ sections' = <<[table |-> 0, stream |-> next]>> \o sections
          /\ seen' = seen \union {next}
          /\ next' = Key(file[next].dict, "Prev")
          /\ UNCHANGED <<pc, cursor, scanned>>
       \/ /\ next \notin seen /\ IsTable(next)
          /\ trailer' = MergeIntoWalk(trailer, TableTrailer(next))
          /\ sections' = <<[table  |-> next,
                            stream |-> Key(file[next].dict, "XRefStm")]>> \o sections
          /\ seen' = seen \union {next}
          /\ next' = Key(file[next].dict, "Prev")
          /\ UNCHANGED <<pc, xref, cursor, scanned>>
       \/ /\ next \notin seen /\ ~(IsTable(next) \/ IsStream(next))
          /\ Abandon
          /\ seen' = seen \union {next}
          /\ UNCHANGED <<xref, trailer, sections, next>>
    /\ UNCHANGED <<file, rebuilt, recorded>>

\* The chain is known; a section with a stream is recorded at its stream.
WalkEnds ==
    /\ pc = "walk" /\ next = 0
    /\ recorded' = [i \in DOMAIN sections |->
                      [offset |-> IF sections[i].stream > 0 THEN sections[i].stream
                                                            ELSE sections[i].table,
                       is_stream |-> sections[i].stream > 0]]
    /\ pc' = "oldest"
    /\ UNCHANGED <<file, xref, trailer, sections, seen, next, cursor, scanned, rebuilt>>

\* verify_table: the first entry at an offset finds its own number there.
Verified(m) ==
    LET S == {n \in DOMAIN m : m[n].at = "offset" /\ m[n].pos > 0}
        first == CHOOSE n \in S : \A k \in S : n <= k IN
    S # {} => /\ ItemAt(m[first].pos).what \in {"object", "stream"}
              /\ file[m[first].pos].num = first

\* The oldest section's table is applied and verified.  Its hybrid stream is
\* ignored, and a stream has been applied, last of all, by the walk.
ReadOldest ==
    /\ pc = "oldest"
    /\ LET p == sections[1].table IN
         \/ /\ p = 0
            /\ pc' = "newer" /\ cursor' = 2
            /\ UNCHANGED <<xref, scanned>>
         \/ /\ p # 0 /\ ~file[p].bad
            /\ xref' = WithTable(xref, file[p].entries)
            /\ IF Verified(xref') THEN pc' = "newer" /\ cursor' = 2 /\ UNCHANGED scanned
                                  ELSE Abandon
         \/ /\ p # 0 /\ file[p].bad
            /\ \E k \in Numbers :
                  xref' = WithTable(xref, Cut(file[p].entries, k))
            /\ Abandon
    /\ UNCHANGED <<file, trailer, sections, seen, next, rebuilt, recorded>>

\* ReadNewer, were a stream that the walk has read not read again.
ReadNewerOnce ==
    /\ pc = "newer" /\ cursor <= Len(sections)
    /\ LET s == sections[cursor] IN
         xref' = IF s.table = 0 \/ file[s.table].bad THEN xref
                 ELSE WithTable(IF IsStream(s.stream)
                                THEN WithStream(xref, file[s.stream].entries)
                                ELSE xref, file[s.table].entries)
    /\ cursor' = cursor + 1
    /\ UNCHANGED <<file, pc, trailer, sections, seen, next, scanned, rebuilt, recorded>>

\* ReadNewer, were a section that will not load stepped over.
ReadNewerLeniently ==
    /\ pc = "newer" /\ cursor <= Len(sections)
    /\ LET s == sections[cursor]
           under == IF IsStream(s.stream) THEN WithStream(xref, file[s.stream].entries)
                                          ELSE xref IN
         /\ xref' = IF s.table = 0 \/ file[s.table].bad THEN under
                    ELSE WithTable(under, file[s.table].entries)
         /\ cursor' = cursor + 1
    /\ UNCHANGED <<file, pc, trailer, sections, seen, next, scanned, rebuilt, recorded>>

\* A newer section goes on top, its stream under its table; one that will not
\* load abandons the chain, with what has been applied left in the table.
ReadNewer ==
    /\ pc = "newer" /\ cursor <= Len(sections)
    /\ LET s == sections[cursor]
           under == IF IsStream(s.stream) THEN WithStream(xref, file[s.stream].entries)
                                          ELSE xref IN
         \/ /\ s.stream # 0 /\ ~IsStream(s.stream)
            /\ Abandon
            /\ UNCHANGED xref
         \/ /\ s.stream # 0 => IsStream(s.stream)
            /\ s.table # 0 => ~file[s.table].bad
            /\ xref' = IF s.table = 0 THEN under ELSE WithTable(under, file[s.table].entries)
            /\ cursor' = cursor + 1
            /\ UNCHANGED <<pc, scanned>>
         \/ /\ s.stream # 0 => IsStream(s.stream)
            /\ s.table # 0 /\ file[s.table].bad
            /\ \E k \in Numbers :
                  xref' = WithTable(under, Cut(file[s.table].entries, k))
            /\ Abandon
    /\ UNCHANGED <<file, trailer, sections, seen, next, rebuilt, recorded>>

\* The chain has been read; it is used if it said anything.
ChainEnds ==
    /\ pc = "newer" /\ cursor > Len(sections)
    /\ IF DOMAIN xref # {} \/ DOMAIN trailer.dict # {}
       THEN pc' = "catalog" /\ UNCHANGED <<cursor, scanned>>
       ELSE Abandon
    /\ UNCHANGED <<file, xref, trailer, sections, seen, next, rebuilt, recorded>>

----------------------------------------------------------------------------
(* rebuild::rebuild *)

Scanning == pc \in {"scan", "rescan"} /\ cursor <= Len(file)

\* An object is recorded at its header, its members over what came before.
WithObject(m, p) ==
    LET o == file[p] IN
    InOrder(LAMBDA t, i : AddCompressed(t, o.members[i], o.num, i - 1),
            AddNormal(m, o.num, o.gen, FALSE, p), DOMAIN o.members)

\* The scan believes what it finds, the later over the earlier.
ScanItem ==
    /\ Scanning
    /\ LET o == file[cursor] IN
         scanned' =
           CASE o.what = "object" -> [scanned EXCEPT !.xref = WithObject(@, cursor)]
             [] o.what = "stream" ->
                  [xref    |-> WithObject(scanned.xref, cursor),
                   trailer |-> MergeTrailers(scanned.trailer, StreamTrailer(cursor)),
                   has     |-> TRUE]
             [] o.what = "table" ->
                  [scanned EXCEPT !.trailer = MergeTrailers(@, TableTrailer(cursor)),
                                  !.has = TRUE]
             [] OTHER -> scanned
    /\ cursor' = cursor + 1
    /\ UNCHANGED <<file, pc, xref, trailer, sections, seen, next, rebuilt, recorded>>

\* The deadline is looked at between two chunks of the file, and at the start.
TimeOut ==
    /\ Scanning \/ pc = "start"
    /\ pc' = "late"
    /\ UNCHANGED <<file, xref, trailer, sections, seen, next, cursor, scanned,
                   rebuilt, recorded>>

\* ScanEnds, were the table that failed to win over what the scan found.
ScanEndsUnder ==
    /\ pc \in {"scan", "rescan"} /\ cursor > Len(file)
    /\ \/ /\ scanned.has /\ DOMAIN scanned.xref # {}
          /\ xref' = MergeUp(scanned.xref, xref)
          /\ trailer' = MergeTrailers(trailer, scanned.trailer)
          /\ rebuilt' = TRUE
          /\ pc' = IF pc = "scan" THEN "catalog" ELSE "again"
       \/ /\ ~(scanned.has /\ DOMAIN scanned.xref # {})
          /\ pc' = "broken"
          /\ UNCHANGED <<xref, trailer, rebuilt>>
    /\ UNCHANGED <<file, sections, seen, next, cursor, scanned, recorded>>

\* What was found goes over what a failed chain, or the first attempt, left.
ScanEnds ==
    /\ pc \in {"scan", "rescan"} /\ cursor > Len(file)
    /\ \/ /\ scanned.has /\ DOMAIN scanned.xref # {}
          /\ xref' = MergeUp(xref, scanned.xref)
          /\ trailer' = MergeTrailers(trailer, scanned.trailer)
          /\ rebuilt' = TRUE
          /\ pc' = IF pc = "scan" THEN "catalog" ELSE "again"
       \/ /\ ~(scanned.has /\ DOMAIN scanned.xref # {})
          /\ pc' = "broken"
          /\ UNCHANGED <<xref, trailer, rebuilt>>
    /\ UNCHANGED <<file, sections, seen, next, cursor, scanned, recorded>>

----------------------------------------------------------------------------
(* doc.rs load: the catalog *)

IsObject(p, n) == ItemAt(p).what \in {"object", "stream"} /\ file[p].num = n

\* Where the store finds n by a table: the position of the object, or of the
\* object stream it is a member of; zero when the answer is null.
Found(m, n) ==
    LET a == m[n].archive
        c == m[a].pos IN
    IF n = 0 \/ ~Knows(m, n) THEN 0
    ELSE
    CASE m[n].at = "free"   -> 0
      [] m[n].at = "offset" -> IF IsObject(m[n].pos, n) THEN m[n].pos ELSE 0
      [] m[n].at = "packed" ->
           IF /\ Knows(m, a) /\ m[a].flag /\ m[a].at = "offset" /\ IsObject(c, a)
              /\ m[n].pos + 1 \in DOMAIN file[c].members
              /\ file[c].members[m[n].pos + 1] = n
           THEN c ELSE 0

Catalog == ItemAt(Found(xref, Key(trailer.dict, "Root"))).role

\* The first attempt wants a catalog with pages, and a table that does not
\* lead to one is the suspect: scan, once.  The second wants only a catalog.
CatalogCheck ==
    /\ \/ /\ pc = "catalog" /\ Catalog = "catalog"
          /\ pc' = "open"
          /\ UNCHANGED <<cursor, scanned>>
       \/ /\ pc = "catalog" /\ Catalog # "catalog" /\ rebuilt
          /\ pc' = "broken"
          /\ UNCHANGED <<cursor, scanned>>
       \/ /\ pc = "catalog" /\ Catalog # "catalog" /\ ~rebuilt
          /\ pc' = "rescan" /\ cursor' = 1 /\ scanned' = Nothing
       \/ /\ pc = "again"
          /\ pc' = IF Catalog = "plain" THEN "broken" ELSE "open"
          /\ UNCHANGED <<cursor, scanned>>
    /\ UNCHANGED <<file, xref, trailer, sections, seen, next, rebuilt, recorded>>

Next == \/ Start \/ Visit \/ WalkEnds \/ ReadOldest \/ ReadNewer \/ ChainEnds
        \/ ScanItem \/ ScanEnds \/ CatalogCheck \/ TimeOut

Spec == Init /\ [][Next]_vars

\* An open is one call on one thread: it runs until it returns.
FairSpec == Spec /\ WF_vars(Next)

----------------------------------------------------------------------------
(* What the file says, read off the file alone. *)

\* The chain, newest first, for as many steps as the file has positions.
Chain ==
    LET at[k \in 1..Len(file) + 1] ==
          IF k = 1 THEN StartXref ELSE Key(ItemAt(at[k - 1]).dict, "Prev") IN
    at

ChainLength ==
    LET S == {k \in DOMAIN Chain : Chain[k] = 0} IN
    IF S = {} THEN 0 ELSE (CHOOSE k \in S : \A j \in S : k <= j) - 1

HybridOf(k) == Key(file[Chain[k]].dict, "XRefStm")

\* The entry the k-th newest section has for n, a table's before its hybrid
\* stream's; the base of the chain has no hybrid stream, and a table's free
\* entries say nothing.
Word(k, n) ==
    LET es == file[Chain[k]].entries
        stream == ItemAt(HybridOf(k)).entries IN
    IF n \in DOMAIN es /\ (IsTable(Chain[k]) => es[n].at # "free") THEN {es[n]}
    ELSE IF IsTable(Chain[k]) /\ k < ChainLength /\ n \in DOMAIN stream
    THEN {stream[n]} ELSE {}

Newest(n) ==
    LET S == {k \in 1..ChainLength : Word(k, n) # {}} IN
    IF S = {} THEN {} ELSE Word(CHOOSE k \in S : \A j \in S : k <= j, n)

\* Where that entry puts n.
Place(n) ==
    IF \E e \in Newest(n) : e.at = "offset"
    THEN (CHOOSE e \in Newest(n) : TRUE).pos
    ELSE IF \E e \in Newest(n) : e.at = "packed"
    THEN (CHOOSE c \in Newest((CHOOSE e \in Newest(n) : TRUE).archive) : TRUE).pos
    ELSE 0

\* The last copy of n in the file, alone or in an object stream.
LastCopy(n) ==
    LET S == {p \in DOMAIN file :
                \/ IsObject(p, n)
                \/ n \in {file[p].members[i] : i \in DOMAIN file[p].members}} IN
    IF S = {} THEN 0 ELSE CHOOSE p \in S : \A q \in S : q <= p

\* What theorems ask of a file, where they need to: its bodies and its sections.
Bodies(f)   == {p \in DOMAIN f : f[p].what \in {"object", "stream"}}
Sections(f) == {p \in DOMAIN f : f[p].what \in {"table", "stream"}}

\* A trailer names the catalog: the format requires it, and where one does not
\* an older trailer's name stays.
RootsNamed == \A f \in Files : \A p \in DOMAIN f :
                  f[p].what \in {"table", "stream"} => "Root" \in DOMAIN f[p].dict

\* A file in which no copy of an object stands in the way of a later one: no
\* later copy has an older generation, what is packed has had none but zero,
\* and the number of an object stream is its own.
CopiesInOrder(f) ==
    LET Packs(p, n) == \E i \in DOMAIN f[p].members : f[p].members[i] = n IN
    /\ \A p \in DOMAIN f \ Bodies(f) : DOMAIN f[p].members = {}
    /\ \A p, q \in Bodies(f) :
         /\ p < q /\ f[p].num = f[q].num => f[p].gen <= f[q].gen
         /\ Packs(q, f[p].num) => /\ DOMAIN f[p].members = {}
                                  /\ p < q => f[p].gen = 0
         /\ DOMAIN f[p].members # {} /\ f[p].num = f[q].num => p = q

\* The numbers a section says something about, and the generation it gives one.
Says(f, p) == {n \in DOMAIN f[p].entries :
                 f[p].what = "table" => f[p].entries[n].at # "free"}
GenerationAt(f, p, n) ==
    IF f[p].entries[n].at = "packed" THEN 0 ELSE f[p].entries[n].gen

\* A file that an incremental writer leaves.  A section points back, counts
\* every number so far, and gives none an older generation than it had.  What
\* it says is true and stays true: the object is where it is put, or in the
\* object stream it is put in, whose number is never used for anything else
\* and which the same section places.
Incremental(f) ==
    \A p \in Sections(f) :
        LET prev   == Key(f[p].dict, "Prev")
            hybrid == Key(f[p].dict, "XRefStm")
            size   == Key(f[p].dict, "Size") IN
        /\ prev < p
        /\ f[p].what = "table" /\ hybrid # 0 => prev < hybrid /\ hybrid < p
        /\ size \in 1..MaxNumber + 1
        /\ \A q \in Sections(f) : q <= p =>
             /\ \A n \in DOMAIN f[q].entries : n < size
             /\ \A n \in Says(f, q) \intersect Says(f, p) :
                  GenerationAt(f, q, n) <= GenerationAt(f, p, n)
        /\ \A n \in Says(f, p) :
             LET e == f[p].entries[n] IN
             /\ e.at = "offset" => e.pos \in Bodies(f) /\ f[e.pos].num = n
             /\ e.at = "packed" =>
                  /\ f[p].what = "stream" /\ e.archive \in Says(f, p)
                  /\ \A q \in Sections(f) : e.archive \in Says(f, q) =>
                       f[q].entries[e.archive].at = "offset"
                  /\ \A c \in Bodies(f) : f[c].num = e.archive =>
                       /\ e.pos + 1 \in DOMAIN f[c].members
                       /\ f[c].members[e.pos + 1] = n

\* The trailer that should count: the newest of the chain, or of the file.
LastTrailer ==
    LET S == {p \in DOMAIN file : file[p].what \in {"table", "stream"}} IN
    CHOOSE p \in S : \A q \in S : q <= p

----------------------------------------------------------------------------
(* Properties. *)

\* A file whose incremental updates were written properly, and whose chain the
\* load accepted: every object number resolves to the copy that the newest
\* section to mention it names, and to nothing when that section frees it,
\* although the walk applies stream sections the other way round.
NewestWins ==
    (pc = "open" /\ ~rebuilt /\ file \in Sound) =>
        \A n \in Numbers \ {0} : Found(xref, n) = Place(n)

\* A scan finds every object's last copy, whatever the chain that failed
\* before it had left in the table.
RebuildFindsLastCopies ==
    (pc = "open" /\ rebuilt) =>
        \A n \in Numbers \ {0} : LastCopy(n) # 0 => Found(xref, n) = LastCopy(n)

\* A chain is used whole or not at all: one that comes back to itself, leads
\* nowhere, or has a section whose entries cannot be read is never what a
\* document was opened from; its sections are listed oldest first.
AcceptedChainIsWhole ==
    (pc = "open" /\ ~rebuilt) =>
        /\ ChainLength > 0 /\ Len(recorded) = ChainLength
        /\ \A k \in 1..ChainLength :
             /\ \/ IsTable(Chain[k]) /\ ~file[Chain[k]].bad
                \/ IsStream(Chain[k])
             /\ (k < ChainLength /\ IsTable(Chain[k]) /\ HybridOf(k) # 0)
                  => IsStream(HybridOf(k))
             /\ recorded[ChainLength + 1 - k].offset \in {Chain[k], HybridOf(k)}

\* The trailer of an open document names the catalog of the newest revision.
TrailerIsNewest ==
    (pc = "open" /\ (rebuilt \/ file \in Sound)) =>
        Key(trailer.dict, "Root") =
            Key(file[IF rebuilt THEN LastTrailer ELSE Chain[1]].dict, "Root")

\* An open ends, whatever the chain of sections points at.
LoadEnds == <>(pc \in Ended)
============================================================================
