---------------------------- MODULE MCXrefChain ----------------------------
(***************************************************************************)
(* Files for XrefChain: up to three revisions of a document that has two   *)
(* objects, 1 and 2, either of which may be its catalog.  A revision's     *)
(* object stream is numbered after it, its cross-reference stream is 6.    *)
(***************************************************************************)
EXTENDS XrefChain, TLC

MCNumber  == 6
MCOffsets == 0..20
MCIndexes == 0..1
MCGens    == 0..1

CONSTANT MaxRevisions

\* What a revision does with one object.
Fates == {"same", "direct", "packed", "freed"}
Revisions == [form : {"table", "stream", "hybrid"}, fate : [{1, 2} -> Fates]]

\* An object stream needs a stream to be found by.  The catalog stays.
Writable(r) ==
    /\ r.fate[1] # "freed"
    /\ r.form = "table" => "packed" \notin {r.fate[1], r.fate[2]}
    /\ r.form = "hybrid" => "packed" \in {r.fate[1], r.fate[2]}

WritableFirst(r) == /\ r.form # "hybrid"
                    /\ r.fate[1] # "same"
                    /\ r.fate[2] # "freed"

\* The file so far, the generation of object 2, whether it lives, and where
\* the last section is.
Empty == [f |-> <<>>, gen |-> 0, lives |-> FALSE, prev |-> 0, count |-> 0]

Ascending(S) == SelectSeq([i \in 1..MaxNumber + 1 |-> i - 1], LAMBDA n : n \in S)

Plain(what) == [Junk EXCEPT !.what = what]

\* A member has generation zero, and only what lives can be freed or kept.
Follows(r, s) == /\ r.fate[2] = "packed" => s.gen = 0
                 /\ r.fate[2] = "freed" => (s.lives /\ s.gen = 0)

Append1(s, r) ==
    LET k == s.count + 1
        base == Len(s.f)
        direct == Ascending({n \in {1, 2} : r.fate[n] = "direct"})
        packed == Ascending({n \in {1, 2} : r.fate[n] = "packed"})
        bodies == [i \in DOMAIN direct |->
                     [Plain("object") EXCEPT !.num = direct[i], !.role = "catalog",
                                             !.gen = IF direct[i] = 2 THEN s.gen ELSE 0]]
                  \o (IF packed = <<>> THEN <<>>
                      ELSE <<[Plain("object") EXCEPT !.num = 2 + k, !.members = packed,
                                                     !.role = "catalog"]>>)
        freed == IF r.fate[2] = "freed" THEN {2} ELSE {}
        container == IF packed = <<>> THEN {} ELSE {2 + k}
        sectionAt == base + Len(bodies) + (IF r.form = "hybrid" THEN 2 ELSE 1)
        streamAt == base + Len(bodies) + 1
        lives == IF r.fate[2] = "same" THEN s.lives ELSE r.fate[2] # "freed"
        inUse == [n \in Range(direct) |->
                    At(base + (CHOOSE i \in DOMAIN direct : direct[i] = n),
                       IF n = 2 THEN s.gen ELSE 0, FALSE)]
        held == [n \in Range(packed) \union container |->
                    IF n \in container THEN At(base + Len(bodies), 0, FALSE)
                    ELSE Packed(2 + k, (CHOOSE i \in DOMAIN packed : packed[i] = n) - 1)]
        gone == [n \in freed |-> Free(s.gen + 1)]
        hidden == [n \in {0} \union Range(packed) |-> Free(0)]
        dict == [Root |-> IF lives THEN 2 ELSE 1, Size |-> MCNumber + 1]
                @@ (IF s.prev = 0 THEN <<>> ELSE [Prev |-> s.prev])
        stream == [Plain("stream") EXCEPT !.num = 6, !.dict = dict,
                     !.entries = held @@ gone @@ (6 :> At(streamAt, 0, FALSE))
                                 @@ (IF r.form = "stream" THEN inUse ELSE <<>>)]
        table == [Plain("table") EXCEPT
                     !.dict = IF r.form = "hybrid" THEN dict @@ [XRefStm |-> streamAt]
                                                   ELSE dict,
                     !.entries = inUse @@ gone @@ hidden]
        section == CASE r.form = "table"  -> <<table>>
                     [] r.form = "stream" -> <<stream>>
                     [] r.form = "hybrid" -> <<stream, table>> IN
    [f     |-> s.f \o bodies \o section \o
               <<[Plain("startxref") EXCEPT !.names = sectionAt]>>,
     gen   |-> IF r.fate[2] = "freed" THEN s.gen + 1 ELSE s.gen,
     lives |-> lives, prev |-> sectionAt, count |-> k]

First  == {Append1(Empty, r) : r \in {q \in Revisions : Writable(q) /\ WritableFirst(q)}}
More(S) == UNION {{Append1(s, r) : r \in {q \in Revisions : Writable(q) /\ Follows(q, s)}}
                    : s \in S}
Second == More(First)
Third  == More(Second)

FilesOf(S) == {s.f : s \in S}

Whole == FilesOf(First) \union FilesOf(Second)
         \union (IF MaxRevisions > 2 THEN FilesOf(Third) ELSE {})

----------------------------------------------------------------------------
(* Damage, to a file of two revisions. *)

NewestOf(f) == f[Len(f)].names
OldestOf(f) == CHOOSE p \in Sections(f) : \A q \in Sections(f) : p <= q

With(d, k, v) == [j \in DOMAIN d \union {k} |-> IF j = k THEN v ELSE d[j]]

Damaged(f) ==
    LET new == NewestOf(f)
        old == OldestOf(f) IN
    { [f EXCEPT ![Len(f)].names = 99],                            \* it names nothing
      SubSeq(f, 1, Len(f) - 1),                                   \* cut short
      [f EXCEPT ![Len(f)].names = 1],                             \* it names an object
      [f EXCEPT ![old].dict = With(@, "Prev", new)],              \* a loop
      [f EXCEPT ![new].dict = With(@, "Prev", 1)],                \* to an object
      [f EXCEPT ![new].bad = TRUE],
      [f EXCEPT ![old].bad = TRUE],
      [p \in DOMAIN f |-> [f[p] EXCEPT !.bad = p \in Sections(f)]],
      [f EXCEPT ![old].entries = [n \in DOMAIN @ |->              \* shifted by one
                                    IF @[n].at = "offset" THEN [@[n] EXCEPT !.pos = @ + 1]
                                                          ELSE @[n]]],
      [f EXCEPT ![new].entries = [n \in DOMAIN @ |-> At(Len(f), 0, FALSE)]],
      [p \in DOMAIN f |-> [f[p] EXCEPT !.dict =                   \* too large a size
                             IF p \in Sections(f) THEN With(@, "Size", MCNumber + 2) ELSE @]],
      [p \in DOMAIN f |-> [f[p] EXCEPT !.role =                   \* no pages
                             IF @ = "catalog" THEN "hollow" ELSE @]],
      [p \in DOMAIN f |-> [f[p] EXCEPT !.dict =                   \* no catalog
                             IF p \in Sections(f) THEN With(@, "Root", 5) ELSE @]],
      [p \in DOMAIN f |-> IF p \in Sections(f) THEN Junk ELSE f[p]] }  \* no section

Hurt == UNION {Damaged(f) : f \in FilesOf(Second)}

MCSound == Whole
MCFiles == Whole \union Hurt

\* What the theorems about particular files ask of them.
ASSUME TrailersNameCatalogs == RootsNamed
ASSUME CopiesAreInOrder == \A f \in MCFiles : CopiesInOrder(f)
ASSUME SoundIsIncremental == \A f \in MCSound : Incremental(f)
============================================================================
