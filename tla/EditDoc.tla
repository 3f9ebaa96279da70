------------------------------ MODULE EditDoc ------------------------------
(***************************************************************************)
(* A document open for editing (pdfrum-edit, doc.rs): an overlay of added  *)
(* and replaced objects and a set of removed ones, over a document that is *)
(* never written to.                                                       *)
(*                                                                         *)
(* A file is the sequence of the objects in it and an offset is a position *)
(* in that sequence.  Of an object there is left its generation, which     *)
(* objects it refers to and the key it is enciphered under.                *)
(***************************************************************************)
EXTENDS Naturals, Sequences, FiniteSets, Functions, FiniteSetsExt

CONSTANTS
    MaxNumber,   \* object numbers above it are not considered
    Bodies,      \* the contents considered: records with refs, a set of numbers
    Drafts,      \* what edits write: some of these, and Null
    Documents,   \* the documents an editing session may start from
    MaxEdits,    \* bounds the edits of a behaviour
    Null, Garbled, EncryptDict, XrefStream   \* contents that are not in Bodies

Numbers == 1..MaxNumber
Root    == 1
None    == 0   \* no number

Objects == Bodies \union {Null, Garbled, EncryptDict, XrefStream}

Plain == [dict |-> "none", id |-> "none"]
Keys  == [dict : {"none", "own", "fresh"}, id : {"none", "own", "fresh", "any"}]

Item == [num : Numbers, gen : Nat, obj : Objects, key : Keys]

(***************************************************************************)
(*   file      the objects in it, in the order of their offsets            *)
(*   table     the offset of each number in use                            *)
(*   last      last_object_number: numbers up to it are described          *)
(*   form      of the newest section; "rebuilt" when there was none        *)
(*   number    the object number the trailer came from                     *)
(*   info      what the trailer's /Info names                              *)
(*   encrypt   how the trailer has /Encrypt, encNum what it then names     *)
(*   id        the trailer's first /ID element                             *)
(*   key       what the password, /Encrypt and /ID derive                  *)
(*   usesId    that key depends on the /ID                                 *)
(*   appended  the file was saved incrementally                            *)
(***************************************************************************)
Fields == {"file", "table", "last", "form", "number", "info", "encrypt", "encNum",
           "id", "key", "usesId", "appended"}

IsDocument(d) ==
    /\ DOMAIN d = Fields
    /\ d.file \in Seq(Item)
    /\ d.last \in 0..MaxNumber
    /\ DOMAIN d.table \subseteq 1..d.last /\ \A n \in DOMAIN d.table : d.table[n] \in Nat
    /\ d.form \in {"table", "stream", "rebuilt"}
    /\ d.number \in 0..MaxNumber /\ d.info \in 0..MaxNumber
    /\ d.encrypt \in {"none", "inline", "indirect"} /\ d.encNum \in 0..d.last
    /\ d.id \in {"none", "own", "fresh"} /\ d.key \in Keys
    /\ d.usesId \in BOOLEAN /\ d.appended \in BOOLEAN
    /\ IF d.encrypt = "none" THEN d.key = Plain ELSE d.key.dict # "none"
    /\ d.encrypt = "indirect" <=> d.encNum # None

ASSUME DocumentsAssumption ==
    /\ MaxNumber \in Nat /\ MaxEdits \in Nat
    /\ Drafts \subseteq Bodies \union {Null}
    /\ \A b \in Bodies : b.refs \subseteq Numbers
    /\ \A d \in Documents : IsDocument(d)

\* What a document answers for a number: nothing where its table names no
\* object of that number, noise where the object is under another key.
Content(d, n) ==
    IF ~(n \in DOMAIN d.table /\ d.table[n] \in DOMAIN d.file) THEN Null
    ELSE LET item == d.file[d.table[n]] IN
         IF item.num # n THEN Null
         ELSE IF item.obj \in Bodies /\ item.key # d.key THEN Garbled
         ELSE item.obj

\* The generation the table claims: that of the object it names.
Generation(d, n) == IF d.table[n] \in DOMAIN d.file THEN d.file[d.table[n]].gen ELSE 0

VARIABLES
    base,      \* the document underneath
    overlay,   \* what was added or replaced
    removed,   \* what was removed
    next,      \* next_num: the number the next object added gets
    info,      \* EditDoc::info: the /Info the session made
    edits      \* how many edits there were: bounds the model

session == <<base, overlay, removed, next, info, edits>>

SessionTypeOK ==
    /\ DOMAIN overlay \subseteq Numbers /\ \A n \in DOMAIN overlay : overlay[n] \in Drafts
    /\ removed \subseteq Numbers \ DOMAIN overlay
    /\ next \in 1..MaxNumber + 1
    /\ info \in 0..MaxNumber
    /\ edits \in 0..MaxEdits

Edit == edits < MaxEdits /\ edits' = edits + 1

\* The session a document is opened into.
Fresh(d) ==
    /\ base = d
    /\ overlay = <<>>
    /\ removed = {}
    /\ next = d.last + 1
    /\ info = None
    /\ edits = 0

Begin(d) ==
    /\ base' = d
    /\ overlay' = <<>>
    /\ removed' = {}
    /\ next' = d.last + 1
    /\ info' = None
    /\ UNCHANGED edits

With(n, b) == [k \in DOMAIN overlay \union {n} |-> IF k = n THEN b ELSE overlay[k]]

Add(b) ==
    /\ Edit /\ next <= MaxNumber
    /\ overlay' = With(next, b)
    /\ removed' = removed \ {next}
    /\ next' = next + 1
    /\ UNCHANGED <<base, info>>

\* Replace, were the next number to stay behind it.
ReplaceBehind(n, b) ==
    /\ Edit
    /\ overlay' = With(n, b)
    /\ removed' = removed \ {n}
    /\ UNCHANGED <<base, info, next>>

\* Replace, were what was removed to stay so.
ReplaceRemoved(n, b) ==
    /\ Edit
    /\ overlay' = With(n, b)
    /\ next' = IF next > n THEN next ELSE n + 1
    /\ UNCHANGED <<base, info, removed>>

Replace(n, b) ==
    /\ Edit
    /\ overlay' = With(n, b)
    /\ removed' = removed \ {n}
    /\ next' = IF next > n THEN next ELSE n + 1
    /\ UNCHANGED <<base, info>>

RemoveObject(n) ==
    /\ Edit
    /\ overlay' = Restrict(overlay, DOMAIN overlay \ {n})
    /\ removed' = removed \union {n}
    /\ UNCHANGED <<base, info, next>>

\* store_info, for a document without an /Info: a dictionary is added and named.
AddInfo(b) ==
    /\ b # Null
    /\ base.info = None /\ info = None
    /\ Edit /\ next <= MaxNumber
    /\ overlay' = With(next, b)
    /\ removed' = removed \ {next}
    /\ next' = next + 1
    /\ info' = next
    /\ UNCHANGED base

Edits == \/ \E b \in Drafts : Add(b) \/ AddInfo(b) \/ \E n \in Numbers : Replace(n, b)
         \/ \E n \in Numbers : RemoveObject(n)

\* What the session answers for a number.
Fetch(n) == IF n \in removed THEN Null
            ELSE IF n \in DOMAIN overlay THEN overlay[n]
            ELSE Content(base, n)

\* EditDoc::last_object_number
LastInPlay == Max(DOMAIN overlay \union {base.last})

InfoNow == IF info # None THEN info ELSE base.info

----------------------------------------------------------------------------

\* next_num is one past every number used, "so a fresh object can never
\* collide with one the xref already names" (doc.rs): nothing in the document
\* or the overlay answers to it or to a number after it.
FreshNumbers == \A n \in next..MaxNumber : Fetch(n) = Null /\ n \notin DOMAIN overlay
============================================================================
