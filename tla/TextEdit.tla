------------------------------ MODULE TextEdit ------------------------------
(***************************************************************************)
(* The edit control of a text field (pdfrum-form, edit/ops.rs and          *)
(* edit/undo.rs): its text, the caret and the selection as places in the   *)
(* layout, and the undo stack, which replays places recorded against       *)
(* earlier layouts.                                                        *)
(*                                                                         *)
(* A text is letters and breaks, and its layout the lengths of its         *)
(* sections: how sections wrap into lines moves no index and is left out,  *)
(* as are widths and scrolling.  A field of one line holds no break.       *)
(***************************************************************************)
EXTENDS Integers, FiniteSets, SequencesExt

CONSTANTS
    Letters,    \* letters
    Break,      \* a paragraph break
    Pastes,     \* texts the host puts in
    FileTexts,  \* texts the file may hold
    MaxLen,     \* the field's /MaxLen
    MaxItems,   \* the undo stack's capacity
    MaxEdits    \* bound: edits of a behaviour

VARIABLES
    edit,       \* TextEdit: text, caret, selection, undo items and cursor
    trail,      \* history: what the field held before each edit
    now,        \* history: which of them it holds now
    edits       \* bound

vars == <<edit, trail, now, edits>>

----------------------------------------------------------------------------
(* Places.                                                                 *)

\* The first n of a sequence, or none.
Take(s, n) == SubSeq(s, 1, IF n < Len(s) THEN n ELSE Len(s))

\* The lengths of the sections; no more is laid out than the field may hold.
Layout(text) ==
    LET Set(lens, c) == IF c = Break THEN Append(lens, 0)
                        ELSE [lens EXCEPT ![Len(lens)] = @ + 1]
    IN FoldLeft(Set, <<0>>, Take(text, MaxLen))

Place(section, word) == [section |-> section, word |-> word]

\* What comes before section k, the breaks too.
Before(lens, k) == FoldLeft(+, k - 1, SubSeq(lens, 1, k - 1))

PlaceOf(lens, index) ==
    LET reach == {k \in DOMAIN lens : index <= Before(lens, k) + lens[k]}
        k     == CHOOSE k \in reach : \A j \in reach : k <= j
    IN IF reach = {} THEN Place(Len(lens), lens[Len(lens)])
       ELSE Place(k, index - Before(lens, k))

IndexOf(lens, place) ==
    IF place.section \notin DOMAIN lens THEN Before(lens, Len(lens) + 1) - 1
    ELSE Before(lens, place.section)
         + IF place.word > lens[place.section] THEN lens[place.section] ELSE place.word

Earlier(p, q) ==
    IF p.section < q.section \/ (p.section = q.section /\ p.word <= q.word) THEN p ELSE q

Caret(e) == IndexOf(Layout(e.text), e.caret)

HasSelection(e) == e.anchor # e.active

\* The selection, or the caret, as two indices in order.
From(e) == IF HasSelection(e) THEN IndexOf(Layout(e.text), Earlier(e.anchor, e.active))
           ELSE Caret(e)
To(e)   == IF ~HasSelection(e) THEN Caret(e)
           ELSE IndexOf(Layout(e.text), IF Earlier(e.anchor, e.active) = e.anchor
                                        THEN e.active ELSE e.anchor)

At(e, index) ==
    LET p == PlaceOf(Layout(e.text), index) IN
    [e EXCEPT !.caret = p, !.anchor = p, !.active = p]

----------------------------------------------------------------------------
(* The undo stack.                                                         *)

Boundary == [kind |-> "boundary"]

\* How many items at the head go together.
Group(its) ==
    LET ends == {i \in 2..Len(its) : its[i] = Boundary} IN
    IF its[1] # Boundary THEN 1
    ELSE IF ends = {} THEN Len(its)
    ELSE CHOOSE i \in ends : \A j \in ends : i <= j

\* The stack holds at most MaxItems, so one group makes room for one item.
Room(its) ==
    IF Len(its) < MaxItems THEN its ELSE SubSeq(its, Group(its) + 1, Len(its))

Push(e, item) ==
    LET kept == Room(SubSeq(e.items, 1, e.pos)) IN
    [e EXCEPT !.items = Append(kept, item), !.pos = Len(kept) + 1]

----------------------------------------------------------------------------
(* replace_range().                                                        *)

Replaced(e, from, to, insert) ==
    LET removed == SubSeq(e.text, from + 1, to)
        t == [e EXCEPT !.text = SubSeq(@, 1, from) \o insert \o SubSeq(@, to + 1, Len(@))]
    IN IF removed = <<>> /\ insert = <<>> THEN e ELSE At(t, from + Len(insert))

\* max_len cuts the insertion, never the field.
Fitting(e, from, to, insert) ==
    Take(insert, MaxLen - (Len(e.text) - (to - from)))

\* push_edit(): the items of a replacement stand between two boundaries.
Recorded(e, from, to, insert) ==
    LET removed  == SubSeq(e.text, from + 1, to)
        inserted == Fitting(e, from, to, insert)
        old      == PlaceOf(Layout(e.text), from)
        t        == Replaced(e, from, to, inserted)
        item(kind, p, chars) == [kind |-> kind, place |-> p, chars |-> chars,
                                 anchor |-> e.anchor, active |-> e.active]
    IN IF inserted = <<>> /\ removed = <<>> THEN e
       ELSE IF removed = <<>> THEN Push(t, item("insert", old, inserted))
       ELSE IF inserted = <<>>
            THEN Push(t, item("clear", Earlier(old, t.caret), removed))
       ELSE Push(Push(Push(Push(t, Boundary), item("clear", old, removed)),
                      item("insert", old, inserted)), Boundary)

Taken(e, item, kind) ==
    LET from == IndexOf(Layout(e.text), item.place) IN
    IF item = Boundary THEN e
    ELSE IF item.kind = kind THEN Replaced(e, from, from + Len(item.chars), <<>>)
    ELSE Replaced(e, from, from, item.chars)

Invert(e, item) == Taken(e, item, "insert")
Apply(e, item)  == Taken(e, item, "clear")

\* Where the group begins that an undo takes, and where the one of a redo ends.
UndoFrom(e) ==
    LET starts == {i \in 1..e.pos - 1 : e.items[i] = Boundary} IN
    IF e.items[e.pos] # Boundary THEN e.pos
    ELSE IF starts = {} THEN 1 ELSE CHOOSE i \in starts : \A j \in starts : j <= i

RedoTo(e) == e.pos + Group(SubSeq(e.items, e.pos + 1, Len(e.items)))

\* Mistake: a group is undone in the order it was made.
UndoneForwards(e) ==
    LET taken  == SubSeq(e.items, UndoFrom(e), e.pos)
        t      == FoldLeft(Invert, e, taken)
        oldest == taken[SelectInSeq(taken, LAMBDA item : item # Boundary)]
    IN [t EXCEPT !.anchor = oldest.anchor, !.active = oldest.active,
                 !.caret = oldest.active, !.pos = UndoFrom(e) - 1]

Undone(e) ==
    LET taken  == SubSeq(e.items, UndoFrom(e), e.pos)
        t      == FoldLeft(Invert, e, Reverse(taken))
        oldest == taken[SelectInSeq(taken, LAMBDA item : item # Boundary)]
    IN [t EXCEPT !.anchor = oldest.anchor, !.active = oldest.active,
                 !.caret = oldest.active, !.pos = UndoFrom(e) - 1]

Redone(e) ==
    LET t == FoldLeft(Apply, e, SubSeq(e.items, e.pos + 1, RedoTo(e))) IN
    [t EXCEPT !.anchor = t.caret, !.active = t.caret, !.pos = RedoTo(e)]

----------------------------------------------------------------------------

Held(e) == [text |-> e.text, anchor |-> e.anchor, active |-> e.active]

Init ==
    /\ edit \in {At([text |-> s, items |-> <<>>, pos |-> 0, caret |-> 0,
                     anchor |-> 0, active |-> 0], 0) : s \in FileTexts}
    /\ trail = <<Held(edit)>> /\ now = 1 /\ edits = 0

\* What was selected is known when the edit is made.
Edited(e) ==
    /\ edits < MaxEdits /\ e # edit
    /\ edit' = e
    /\ trail' = SubSeq(trail, 1, now - 1) \o <<Held(edit), Held(e)>>
    /\ now' = now + 1 /\ edits' = edits + 1

Moved(e) == edit' = e /\ UNCHANGED <<trail, now, edits>>

Indices == 0..Caret([edit EXCEPT !.caret = Place(Len(edit.text) + 2, 0)])

\* An arrow, Home, End or a press of the pointer.
SetCaret == \E i \in Indices : Moved(At(edit, i))

\* With shift the caret goes and the selection stays.
ShiftMove == \E i \in Indices : Moved([edit EXCEPT !.caret = PlaceOf(Layout(edit.text), i)])

DragTo ==
    \E i \in Indices : LET p == PlaceOf(Layout(edit.text), i) IN
        Moved([edit EXCEPT !.caret = p, !.active = p])

SetSelection ==
    \E i, j \in Indices : i <= j /\ Moved([At(edit, j) EXCEPT !.anchor = PlaceOf(Layout(edit.text), i)])

SelectNone == Moved([edit EXCEPT !.anchor = edit.caret, !.active = edit.caret])

InsertChar == \E c \in Letters \union {Break} : Edited(Recorded(edit, From(edit), To(edit), <<c>>))

Backspace ==
    IF HasSelection(edit) THEN Edited(Recorded(edit, From(edit), To(edit), <<>>))
    ELSE Caret(edit) > 0 /\ Edited(Recorded(edit, Caret(edit) - 1, Caret(edit), <<>>))

Delete ==
    IF HasSelection(edit) THEN Edited(Recorded(edit, From(edit), To(edit), <<>>))
    ELSE /\ Caret(edit) < Len(edit.text)
         /\ Edited(Recorded(edit, Caret(edit), Caret(edit) + 1, <<>>))

\* A field that is full and may not scroll takes nothing but the selection.
ReplaceSelection ==
    \E insert \in Pastes \union {<<>>} : Edited(Recorded(edit, From(edit), To(edit), insert))

Undo ==
    /\ edit.pos > 0
    /\ edit' = Undone(edit) /\ now' = now - 1
    /\ UNCHANGED <<trail, edits>>

Redo ==
    /\ edit.pos < Len(edit.items)
    /\ edit' = Redone(edit) /\ now' = now + 1
    /\ UNCHANGED <<trail, edits>>

\* The focus goes elsewhere.
Leave ==
    /\ edit' = [edit EXCEPT !.items = <<>>, !.pos = 0]
    /\ trail' = <<Held(edit)>> /\ now' = 1
    /\ UNCHANGED edits

Next ==
    \/ SetCaret \/ ShiftMove \/ DragTo \/ SetSelection \/ SelectNone
    \/ InsertChar \/ Backspace \/ Delete \/ ReplaceSelection
    \/ Undo \/ Redo \/ Leave

Spec == Init /\ [][Next]_vars

----------------------------------------------------------------------------

PlaceType == [section : 1..MaxLen + 1, word : 0..MaxLen]

Characters == Letters \union {Break}

ItemType ==
    {Boundary} \union
    [kind : {"insert", "clear"}, place : PlaceType, chars : Seq(Characters),
     anchor : PlaceType, active : PlaceType]

\* The control keeps its shape; the stack holds no more than it may, and its
\* cursor stands in it with no group open.
TypeOK ==
    /\ edit.text \in Seq(Characters)
    /\ {edit.caret, edit.anchor, edit.active} \subseteq PlaceType
    /\ edit.items \in Seq(ItemType) /\ Len(edit.items) <= MaxItems
    /\ edit.pos \in 0..Len(edit.items)
    /\ Cardinality({i \in 1..edit.pos : edit.items[i] = Boundary}) % 2 = 0
    /\ now \in DOMAIN trail /\ edits \in 0..MaxEdits

\* An undo gives back the text and the selection an edit was made over, and a
\* redo the text it left, after any edits, and however many fell off the head of
\* the stack: undo() and redo() replay places that were recorded against
\* earlier layouts.
UndoRetraces ==
    [][trail' = trail =>
          /\ now' < now => trail[now'] = Held(edit')
          /\ now' > now => trail[now'].text = edit'.text]_vars
=============================================================================
