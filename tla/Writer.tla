------------------------------- MODULE Writer -------------------------------
(***************************************************************************)
(* Saving an edited document and opening what was saved (pdfrum-edit,      *)
(* write/mod.rs save; reach.rs; id.rs).  A full save writes what the       *)
(* trailer still reaches; an incremental one appends what was edited, and  *)
(* falls back to a full one where appending would give a file nothing      *)
(* could open.                                                             *)
(*                                                                         *)
(* Opening what was saved follows XrefChain: of an intact file the newest  *)
(* section to mention a number wins, of one without sections the last copy.*)
(* Font subsetting and keep_original = false are left out.                 *)
(***************************************************************************)
EXTENDS EditDoc

CONSTANTS
    MaxSaves,       \* bounds the saves of a behaviour
    MaxInlineDepth  \* reach.rs, MAX_INLINE_DEPTH

ASSUME WriterAssumption == MaxSaves \in Nat /\ MaxInlineDepth \in Nat

VARIABLES
    saved,   \* the document the last save wrote, as it opens; or NoFile
    saves    \* how many there were: bounds the model

vars == <<base, overlay, removed, next, info, edits, saved, saves>>

NoFile == <<>>

TypeOK ==
    /\ SessionTypeOK
    /\ saves \in 0..MaxSaves
    /\ saved # NoFile =>
         /\ DOMAIN saved = DOMAIN base
         /\ DOMAIN saved.table \subseteq 1..saved.last /\ saved.last \in 0..MaxNumber
         /\ saved.encNum \in 0..MaxNumber /\ saved.number \in 0..MaxNumber
         /\ saved.key \in Keys

----------------------------------------------------------------------------
(* reach.rs *)

TrailerRefs == {Root, InfoNow, IF base.encrypt = "indirect" THEN base.encNum ELSE None} \ {None}

RefsOf(n) == IF Fetch(n) \in Bodies THEN Fetch(n).refs ELSE {}

\* What is reached from the trailer in at most hops references.
Within(hops) ==
    LET there(S) == {n \in S : Fetch(n) # Null}
        near[k \in 0..hops] ==
          IF k = 0 THEN there(TrailerRefs)
          ELSE LET nearer == near[k - 1] IN
               nearer \union there(UNION {RefsOf(m) : m \in nearer}) IN
    near[hops]

\* walk: a reference is two levels below the one that led to its object, and
\* the levels are counted from the trailer; the trailer's object is reached.
Reached == Within(MaxInlineDepth \div 2) \union ({base.number} \ {None})

----------------------------------------------------------------------------
(* The stages of save.  A stage takes and gives the file and the offsets.  *)

\* write_indirect at the end of the file.
Written(out, n, obj, key) ==
    [file    |-> Append(out.file, [num |-> n, gen |-> 0, obj |-> obj, key |-> key]),
     offsets |-> [k \in DOMAIN out.offsets \union {n} |->
                    IF k = n THEN Len(out.file) + 1 ELSE out.offsets[k]]]

\* WriteOne, were the offset of an object that is not written to stay.
WriteOneKept(out, n, key) ==
    IF Fetch(n) # Null THEN Written(out, n, Fetch(n), key)
    ELSE [out EXCEPT !.offsets = Written(out, n, Null, key).offsets]

\* The offset of an object that turns out to be null or unreadable is erased.
WriteOne(out, n, key) ==
    IF Fetch(n) # Null THEN Written(out, n, Fetch(n), key) ELSE out

\* The objects of S, the lowest number first.
WriteAll(out, S, key) ==
    LET upto[n \in 0..MaxNumber] ==
          IF n = 0 THEN out
          ELSE LET before == upto[n - 1] IN
               IF n \in S THEN WriteOne(before, n, key) ELSE before IN
    upto[MaxNumber]

Declared == base.encrypt # "none"

\* id::build: an /ID that is minted for a key that depends on it.
Rekeyed == Declared /\ base.usesId /\ base.id = "none"

\* Appends, were the security left out of it.
AppendsUnder(mode, security) == mode = "incremental" /\ base.form # "rebuilt"

\* Nothing can be appended to a table that was rebuilt, or under another key.
Appends(mode, security) ==
    /\ mode = "incremental"
    /\ base.form # "rebuilt"
    /\ ~Rekeyed
    /\ ~(Declared /\ security = "remove")
    /\ security # "fresh"

\* choose_slot: the number /Encrypt is written as.
Slot(security) ==
    IF security = "fresh" \/ (Declared /\ security = "keep" /\ base.encrypt = "inline")
    THEN LastInPlay + 1
    ELSE IF Declared /\ security = "keep" THEN base.encNum ELSE None

\* New, were it what lies past the table.
NewAbove == DOMAIN overlay \ 1..base.last

\* partition, for a full save: old numbers are in the table, new are not.
Old == {n \in 1..base.last : n \notin removed /\ n \in DOMAIN base.table}
New == DOMAIN overlay \ DOMAIN base.table

\* What a reader derives from the trailer of the file written.
Derived(slot, security, id) ==
    IF slot = None THEN Plain
    ELSE IF security = "fresh" THEN [dict |-> "fresh", id |-> "any"]
    ELSE [dict |-> base.key.dict, id |-> IF base.usesId THEN id ELSE "any"]

\* The table of a file with a section of offsets appended, every one of them
\* at generation 0: an entry already at a newer generation stays.
Updated(offsets) ==
    [n \in DOMAIN base.table \union DOMAIN offsets |->
        IF n \in DOMAIN offsets /\ ~(n \in DOMAIN base.table /\ Generation(base, n) > 0)
        THEN offsets[n] ELSE base.table[n]]

Saved(mode, security) ==
    LET appends == Appends(mode, security)
        slot    == Slot(security)
        key     == CASE security = "fresh" -> [dict |-> "fresh", id |-> "any"]
                     [] Declared /\ security = "keep" -> base.key
                     [] OTHER -> Plain
        front   == [file |-> IF appends THEN base.file ELSE <<>>, offsets |-> <<>>]
        old     == IF appends THEN {} ELSE Old \intersect Reached
        new     == IF appends THEN DOMAIN overlay ELSE New
        body    == WriteAll(WriteAll(front, old \ {slot}, key), new \ {slot}, key)
        out     == IF slot = None THEN body ELSE Written(body, slot, EncryptDict, Plain)
        stream  == appends /\ base.form = "stream"
        number  == LastInPlay + 1
        size    == Max(DOMAIN out.offsets \union {0}) + (IF stream THEN 2 ELSE 1)
        table   == IF appends THEN Updated(out.offsets) ELSE out.offsets
        id      == IF base.id = "none" THEN "fresh" ELSE base.id IN
    [file     |-> IF stream THEN Written(out, number, XrefStream, Plain).file ELSE out.file,
     table    |-> table,
     last     |-> Max(DOMAIN table \union {size - 1}),
     form     |-> IF stream THEN "stream" ELSE "table",
     number   |-> IF stream THEN number ELSE None,
     info     |-> InfoNow,
     encrypt  |-> IF slot = None THEN "none" ELSE "indirect",
     encNum   |-> slot,
     id       |-> id,
     key      |-> Derived(slot, security, id),
     usesId   |-> security = "keep" /\ base.usesId,
     appended |-> appends]

----------------------------------------------------------------------------

Init ==
    /\ \E d \in Documents : Fresh(d)
    /\ saved = NoFile
    /\ saves = 0

\* An edit makes what was saved old.
Change == Edits /\ saved' = NoFile /\ UNCHANGED saves

\* Encrypting what is encrypted is refused.
Save(mode, security) ==
    /\ saved = NoFile /\ saves < MaxSaves /\ LastInPlay + 2 <= MaxNumber
    /\ ~(Declared /\ security = "fresh")
    /\ saved' = Saved(mode, security)
    /\ saves' = saves + 1
    /\ UNCHANGED session

\* A file without its catalog does not open.
Reopen ==
    /\ saved # NoFile /\ Content(saved, Root) \in Bodies
    /\ Begin(saved)
    /\ saved' = NoFile
    /\ UNCHANGED saves

\* The table a scan of the objects makes: the last copy of the newest
\* generation.
LastCopies(file) ==
    LET copies(n) == {p \in DOMAIN file : file[p].num = n} IN
    [n \in {file[p].num : p \in DOMAIN file} |->
        Max({p \in copies(n) : \A q \in copies(n) : file[q].gen <= file[p].gen})]

Next == \/ Change
        \/ \E mode \in {"full", "incremental"}, security \in {"keep", "remove", "fresh"} :
              Save(mode, security)
        \/ Reopen

Spec == Init /\ [][Next]_vars

----------------------------------------------------------------------------
(* Documents that say the same by their tables and by a scan.              *)

\* The key of a document is that of its password, and of its /ID where it
\* depends on one.  A document that needs an /ID and has none is not meant.
Keyed(d) ==
    d.encrypt # "none" =>
        /\ d.usesId => d.id # "none"
        /\ d.key.id = IF d.usesId THEN d.id ELSE "any"

\* No number was ever freed and taken again.
FirstGeneration(d) == \A p \in DOMAIN d.file : d.file[p].gen = 0

\* A number that the table finds is found at its last copy, but for that of
\* the /Encrypt, which a cross-reference stream written after it may take.
NamesLast(d) ==
    \A n \in DOMAIN d.table \ {d.encNum} :
        d.table[n] \in DOMAIN d.file /\ d.file[d.table[n]].num = n =>
            \A p \in DOMAIN d.file : d.file[p].num = n => p <= d.table[n]

Firm(d) == Keyed(d) /\ FirstGeneration(d) /\ NamesLast(d)

\* Such documents, none of them deep enough for the writer's walk to end early.
RoomyDocuments ==
    /\ MaxInlineDepth \div 2 > MaxNumber
    /\ \A d \in Documents : Firm(d)

----------------------------------------------------------------------------
(* Properties. *)

\* What the session holds that the trailer reaches, however far away.
Live == Within(MaxNumber)

\* What the session's live objects name, there or not.
Mentioned == Live \union (UNION {RefsOf(n) : n \in Live}) \union TrailerRefs

\* A saved document, opened again, answers what the session answered: for
\* every object the trailer leads to, for every reference that led nowhere,
\* and for every object the session added.  Only an incremental save takes
\* nothing away, and the /Encrypt takes a number for itself.
ReopenSeesSession ==
    saved # NoFile =>
        \A n \in (Mentioned \union New) \ {saved.encNum} :
            (saved.appended /\ Fetch(n) = Null => n \notin DOMAIN base.table)
               => Content(saved, n) = Fetch(n)

\* write/xref.rs, ObjectOffsets: "An entry here is a promise that `N 0 obj`
\* really sits at that byte" - for every entry that the save itself wrote.
EntriesKeepTheirPromise ==
    saved # NoFile =>
        \A n \in DOMAIN saved.table :
            ~(saved.appended /\ n \in DOMAIN base.table /\ saved.table[n] = base.table[n]) =>
                /\ saved.table[n] \in DOMAIN saved.file
                /\ saved.file[saved.table[n]].num = n

\* A file that was saved and then lost its table still gives, by a scan for
\* the last copies, every object the session held, however often its numbers
\* were used again by sessions and saves before.
ScanSeesSession ==
    saved # NoFile =>
        LET found == [saved EXCEPT !.table = LastCopies(saved.file)] IN
        \A n \in Live \ {saved.encNum} : Content(found, n) = Fetch(n)
============================================================================
