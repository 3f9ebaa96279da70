---------------------------- MODULE FormSession ----------------------------
(***************************************************************************)
(* A form being filled in (pdfrum-form, route.rs and commit.rs, behind the *)
(* facade's FormSession): what has the keyboard, what each field holds,    *)
(* and what the document's scripts may do about it.                        *)
(*                                                                         *)
(* A script is whatever it answers: a gate refuses or lets the value pass, *)
(* a calculation writes one field, a format script is remembered by the    *)
(* value it was shown, and any script may call Field.setFocus.  Carets,    *)
(* selections, hover, scrolling, list boxes, borders and read-only fields  *)
(* are left out; typing leaves a field with some other text.               *)
(***************************************************************************)
EXTENDS Integers, Sequences, FiniteSets

CONSTANTS
    Forms,      \* forms: to each page, its fields in order
    Values,     \* texts
    Empty,      \* the empty text
    MaxMoves,   \* MAX_SCRIPTED_FOCUS_MOVES
    None,       \* no field, no index, no write
    Refuse      \* a gate's answer

VARIABLES
    form,       \* the document's form
    fields,     \* FormSession::fields: FieldId to state
    focus,      \* FormSession::focus
    dirty,      \* FormSession::dirty
    formatted,  \* FormSession::formatted: FieldId to the value it shows
    request,    \* the field setFocus() named last, by its place in the document
    page,       \* the page of the event being routed, None between events
    moves,      \* requests spent in this event
    passed      \* history: what the gates let through or a calculation wrote

vars == <<form, fields, focus, dirty, formatted, request, page, moves, passed>>

Pages     == DOMAIN form
Ids(p)    == DOMAIN form[p]
AllIds    == UNION {Ids(p) : p \in Pages}
Indices   == UNION {{form[p][i].index : i \in Ids(p)} : p \in Pages}
Stored(p, i) == form[p][i].stored

\* The session, as the routing operators pass it on.
Session == [fields |-> fields, focus |-> focus, dirty |-> dirty,
            formatted |-> formatted, passed |-> passed]

Becomes(s) ==
    /\ fields' = s.fields /\ focus' = s.focus /\ dirty' = s.dirty
    /\ formatted' = s.formatted /\ passed' = s.passed
    /\ UNCHANGED form

Kinds  == {"text", "combo", "gated", "toggle"}
State  == [kind : Kinds, text : Values, undo : BOOLEAN, open : BOOLEAN]

TypeOK ==
    /\ form \in Forms
    /\ DOMAIN fields \subseteq AllIds
    /\ \A i \in DOMAIN fields : fields[i] \in State
    /\ focus # None => focus.page \in Pages /\ focus.field \in Ids(focus.page)
    /\ dirty \subseteq AllIds \union Indices
    /\ DOMAIN formatted \subseteq AllIds \union Indices
    /\ request \in Indices \union {None}
    /\ page \in Pages \union {None}
    /\ moves \in 0..MaxMoves
    /\ page = None => moves = 0

Init ==
    /\ form \in Forms
    /\ fields = <<>> /\ focus = None /\ dirty = {} /\ formatted = <<>>
    /\ request = None /\ page = None /\ moves = 0 /\ passed = <<>>

----------------------------------------------------------------------------
(* One field.                                                              *)

Without(f, i) == [j \in DOMAIN f \ {i} |-> f[j]]
With(f, i, x) == [j \in DOMAIN f \union {i} |-> IF j = i THEN x ELSE f[j]]

HasText(s, i) == i \in DOMAIN s.fields /\ s.fields[i].kind \in {"text", "combo"}
IsList(s, i)  == i \in DOMAIN s.fields /\ s.fields[i].kind \in {"combo", "gated"}

\* build_state: an editable combo begins with no text, whatever the file says.
NewState(w) ==
    [kind |-> w.kind, text |-> IF w.kind = "combo" THEN Empty ELSE w.stored,
     undo |-> FALSE, open |-> FALSE]

EnsureState(s, p, i) ==
    IF i \in DOMAIN s.fields THEN s
    ELSE [s EXCEPT !.fields = With(@, i, NewState(form[p][i]))]

SetFieldText(s, i, v) ==
    IF HasText(s, i) THEN [s EXCEPT !.fields[i].text = v, !.fields[i].undo = FALSE]
    ELSE s

\* The format script's answer for v, or the raw value again.
RecordDisplay(s, p, i, v) ==
    [s EXCEPT !.formatted = IF i \in Ids(p) /\ form[p][i].format
                            THEN With(@, i, v) ELSE Without(@, i)]

FieldOfIndex(p, index) ==
    LET S == {i \in Ids(p) : form[p][i].index = index} IN
    IF S = {} THEN None ELSE CHOOSE i \in S : TRUE

----------------------------------------------------------------------------
(* The commit of a field that is left.  answer is what its scripts say:    *)
(* Refuse, or the write their calculation asks for, or None.               *)

Changed(s, p, i) == i \in Ids(p) /\ HasText(s, i) /\ s.fields[i].text # Stored(p, i)

GatesRun(p) == focus # None /\ Changed(Session, p, focus.field)

Answers(p) ==
    {None} \union
    IF GatesRun(p) THEN {Refuse} \union [index : Indices, value : Values] ELSE {}

Reverted(s, p, i) ==
    [SetFieldText(s, i, Stored(p, i)) EXCEPT !.formatted = Without(@, i)]

Calculated(s, p, write) ==
    LET own == FieldOfIndex(p, write.index)
        i   == IF own = None THEN write.index ELSE own
        t   == SetFieldText(s, i, write.value)
    IN RecordDisplay([t EXCEPT !.dirty = @ \union {i}, !.passed = With(@, i, write.value)],
                     p, i, write.value)

Saved(s, p, i, write) ==
    LET v == s.fields[i].text
        t == [s EXCEPT !.passed = With(@, i, v)]
    IN RecordDisplay(IF write = None THEN t ELSE Calculated(t, p, write), p, i, v)

Refused(s, p, answer) ==
    s.focus # None /\ Changed(s, p, s.focus.field) /\ answer = Refuse

CommitField(s, p, answer) ==
    IF s.focus = None \/ ~Changed(s, p, s.focus.field) THEN s
    ELSE IF answer = Refuse THEN Reverted(s, p, s.focus.field)
    ELSE Saved(s, p, s.focus.field, answer)

----------------------------------------------------------------------------
(* Focus.                                                                  *)

ClearUndo(s) ==
    IF s.focus # None /\ s.focus.field \in DOMAIN s.fields
    THEN [s EXCEPT !.fields[s.focus.field].undo = FALSE] ELSE s

\* The outgoing field commits first: a refusal keeps it.
TakeFocus(s, p, i, answer) ==
    LET target == [page |-> p, field |-> i]
        c      == CommitField(s, p, answer)
        left   == IF c.focus # None /\ c.focus.field # i THEN ClearUndo(c) ELSE c
    IN IF s.focus = target THEN s
       ELSE IF Refused(s, p, answer) THEN c
       ELSE [left EXCEPT !.focus = target]

CloseAllPopups(s) ==
    [s EXCEPT !.fields = [i \in DOMAIN @ |-> [@[i] EXCEPT !.open = FALSE]]]

\* Mistake: the keyboard goes without asking the field.
DropFocusUncommitted(s, p, answer) ==
    [ClearUndo(CloseAllPopups(s)) EXCEPT !.focus = None]

DropFocus(s, p, answer) ==
    LET c == CommitField(CloseAllPopups(s), p, answer) IN
    IF Refused(s, p, answer) THEN c
    ELSE [ClearUndo(c) EXCEPT !.focus = None]

\* setFocus(), once the event it was called in has been routed.
FocusField(s, p, index, answer) ==
    LET i == FieldOfIndex(p, index) IN
    IF i = None \/ s.focus = [page |-> p, field |-> i] THEN s
    ELSE EnsureState(TakeFocus(s, p, i, answer), p, i)

----------------------------------------------------------------------------
(* Fields with rows, and toggles.                                          *)

\* The first of the page's fields that has its list open.
OpenOn(s, p) ==
    LET S == {i \in Ids(p) : IsList(s, i) /\ s.fields[i].open} IN
    IF S = {} THEN None ELSE CHOOSE i \in S : \A j \in S : i <= j

TogglePopup(s, i) == [s EXCEPT !.fields[i].open = ~@]

ReleaseInPopup(s, i, row) ==
    [s EXCEPT !.fields[i].open = FALSE, !.fields[i].text = row,
              !.dirty = @ \union {i}]

Closed(s, i) == [s EXCEPT !.fields[i].open = FALSE]

Activated(s, i, v) == [s EXCEPT !.fields[i].text = v, !.dirty = @ \union {i}]

\* Typing: other text, and perhaps an edit to undo.
Typed(s, i, v, undo) ==
    [s EXCEPT !.fields[i].text = v, !.fields[i].undo = undo, !.dirty = @ \union {i}]

----------------------------------------------------------------------------
(* Events: each is routed, and then what the scripts asked for is spent.   *)

Route(p, s) ==
    /\ page = None
    /\ Becomes(s)
    /\ page' = p /\ moves' = 0

\* A script that ran may have called setFocus: the last call counts.
MayAsk == request' \in {request} \union Indices

\* No script but the gates of the field that is left.
GatesMayAsk(p) == IF GatesRun(p) THEN MayAsk ELSE UNCHANGED request

Click(p, i, answer, button) ==
    LET s == EnsureState(TakeFocus(Session, p, i, answer), p, i) IN
    /\ Route(p, IF button /\ IsList(s, i) THEN TogglePopup(s, i) ELSE s)
    /\ MayAsk

ClickAway(p, answer) == Route(p, DropFocus(Session, p, answer)) /\ GatesMayAsk(p)

\* Over a widget, and it may be over a row of an open list as well.
Release(p, i, answer, v) ==
    LET s == TakeFocus(Session, p, i, answer) IN
    /\ Route(p, IF i \in DOMAIN s.fields /\ s.fields[i].kind = "toggle"
                THEN Activated(s, i, v) ELSE s)
    /\ MayAsk

ReleaseOnRow(p, over, answer, row) ==
    LET s == IF over = None THEN Session ELSE TakeFocus(Session, p, over, answer) IN
    /\ OpenOn(s, p) # None
    /\ Route(p, ReleaseInPopup(s, OpenOn(s, p), row))
    /\ IF over = None THEN UNCHANGED request ELSE MayAsk

FocusAt(p, i, answer) ==
    /\ Route(p, EnsureState(TakeFocus(Session, p, i, answer), p, i))
    /\ MayAsk

\* Tab: the neighbour in the page's ring, or one of its ends.
Tab(p, i, answer) ==
    /\ IF focus = None THEN i \in {1, Len(form[p])}
       ELSE /\ p = focus.page
            /\ \/ i = (focus.field % Len(form[p])) + 1
               \/ focus.field = (i % Len(form[p])) + 1
    /\ Route(p, EnsureState(TakeFocus(Session, p, i, answer), p, i))
    /\ GatesMayAsk(p)

\* The wheel builds the state of what it is over, focused or not.
Wheel(p, i) == Route(p, EnsureState(Session, p, i)) /\ UNCHANGED request

\* A key that edits: the keystroke hook may rewrite it, undo takes it back.
Type(v, undone) ==
    /\ focus # None /\ HasText(Session, focus.field)
    /\ Route(focus.page, Typed(Session, focus.field, v,
                               fields[focus.field].kind = "text" /\ ~undone))
    /\ MayAsk

\* A key that opens or shuts the list.
OpenKey ==
    /\ focus # None /\ IsList(Session, focus.field)
    /\ Route(focus.page, TogglePopup(Session, focus.field))
    /\ UNCHANGED request

\* A key that picks a row or sets a toggle.
PickKey(v) ==
    /\ focus # None /\ focus.field \in DOMAIN fields
    /\ fields[focus.field].kind \in {"gated", "toggle"}
    /\ Route(focus.page, Activated(Session, focus.field, v))
    /\ UNCHANGED request

\* Enter and Escape in a text field, and the host's blur().
Blur(p, answer) ==
    /\ focus # None /\ p = focus.page
    /\ Route(p, DropFocus(Session, p, answer))
    /\ GatesMayAsk(p)

\* The pointer's scripts, of a move or a double click.
Script(p) == Route(p, Session) /\ request' \in Indices

\* The field is on the page and does not have the keyboard yet: scripts run.
Followed(p) ==
    LET i == FieldOfIndex(p, request) IN i # None /\ focus # [page |-> p, field |-> i]

\* Mistake: scripts are followed for as long as they ask.
SpendEndlessly ==
    /\ page # None /\ request # None
    /\ \E answer \in Answers(page) : Becomes(FocusField(Session, page, request, answer))
    /\ request' \in {None} \union IF Followed(page) THEN Indices ELSE {}
    /\ UNCHANGED <<page, moves>>

\* apply() ends: one more setFocus() is followed, or none is left, or the
\* event has had its share and what is left is dropped.
Spend ==
    /\ page # None /\ request # None /\ moves < MaxMoves
    /\ \E answer \in Answers(page) : Becomes(FocusField(Session, page, request, answer))
    /\ request' \in {None} \union IF Followed(page) THEN Indices ELSE {}
    /\ moves' = moves + 1
    /\ UNCHANGED page

Answered ==
    /\ page # None /\ (request = None \/ moves = MaxMoves)
    /\ page' = None /\ moves' = 0 /\ request' = None
    /\ UNCHANGED <<form, fields, focus, dirty, formatted, passed>>

----------------------------------------------------------------------------
(* What the host calls outside of events.                                  *)

\* choose(): a row by its number, whichever field has the keyboard.
Choose(p, i, row) ==
    /\ page = None /\ i \in Ids(p) /\ IsList(Session, i)
    /\ Becomes(ReleaseInPopup(Session, i, row))
    /\ UNCHANGED <<request, page, moves>>

ClosePopup(p, i) ==
    /\ page = None /\ i \in Ids(p) /\ IsList(Session, i) /\ fields[i].open
    /\ Becomes(Closed(Session, i))
    /\ UNCHANGED <<request, page, moves>>

\* A timer, or a script of the document or of a page.
OutsideScript ==
    /\ page = None /\ request' \in Indices
    /\ UNCHANGED <<form, fields, focus, dirty, formatted, page, moves, passed>>

\* The facade's honour_focus_requests(), one turn of its loop.
Honour ==
    /\ page = None /\ request # None
    /\ \E p \in Pages : \E answer \in Answers(p) :
          /\ FieldOfIndex(p, request) # None
          /\ Becomes(FocusField(Session, p, request, answer))
          /\ request' \in {None} \union IF Followed(p) THEN Indices ELSE {}
    /\ UNCHANGED <<page, moves>>

Event ==
    \/ \E p \in Pages : \E answer \in Answers(p) :
          \/ ClickAway(p, answer) \/ Blur(p, answer)
          \/ \E i \in Ids(p) :
                \/ \E button \in BOOLEAN : Click(p, i, answer, button)
                \/ FocusAt(p, i, answer) \/ Tab(p, i, answer)
                \/ \E v \in Values : Release(p, i, answer, v)
          \/ \E over \in Ids(p) \union {None}, row \in Values :
                ReleaseOnRow(p, over, answer, row)
    \/ \E p \in Pages : Script(p) \/ \E i \in Ids(p) : Wheel(p, i)
    \/ \E v \in Values : PickKey(v) \/ \E undone \in BOOLEAN : Type(v, undone)
    \/ OpenKey

Host ==
    \/ \E p \in Pages, i \in AllIds :
          ClosePopup(p, i) \/ \E row \in Values : Choose(p, i, row)
    \/ OutsideScript \/ Honour

Next == Event \/ Spend \/ Answered \/ Host

Spec == Init /\ [][Next]_vars

\* apply() is a call: it goes on until it answers.
Fairness == WF_vars(Spend) /\ WF_vars(Answered)

FairSpec == Spec /\ Fairness

----------------------------------------------------------------------------
(* Properties.                                                             *)

\* commit.rs: "a refused commit reverts the edit and keeps the field";
\* session.rs: dirty is the "fields whose interaction state has outrun the
\* document's value"; focus.rs: undo history "is dropped by a move that
\* leaves it".  So a text field that was left holds what the file does, or a
\* text that its gates let through or a calculation wrote, is marked if it
\* differs, and has nothing to undo - whatever refused, asked for the
\* keyboard or wrote to it on the way.
LeftFieldIsSettled ==
    \A p \in Pages : \A i \in Ids(p) \intersect DOMAIN fields :
        (form[p][i].kind = "text" /\ (focus = None \/ focus.field # i)) =>
            /\ ~fields[i].undo
            /\ fields[i].text # Stored(p, i) =>
                 i \in dirty /\ i \in DOMAIN passed /\ passed[i] = fields[i].text

\* route.rs: "two fields whose focus scripts each name the other would
\* otherwise never stop": every event is answered, whatever scripts ask for.
EventsAnswered == (page # None) ~> (page = None)

\* page.rs calls the page's own number of a field "the right key for
\* interaction state": a field's state is of that field's kind, and nothing
\* but the file's value is in it before anyone has edited the field.
StateIsOwn ==
    \A p \in Pages : \A i \in Ids(p) \intersect DOMAIN fields :
        /\ fields[i].kind = form[p][i].kind
        /\ (form[p][i].kind = "text" /\ i \notin dirty) => fields[i].text = Stored(p, i)
============================================================================
