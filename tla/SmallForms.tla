----------------------------- MODULE SmallForms -----------------------------
(***************************************************************************)
(* Small forms, of one page and of two.                                    *)
(***************************************************************************)

CONSTANTS a, Empty

Field(kind, stored, format, index) ==
    [kind |-> kind, stored |-> stored, format |-> format, index |-> index]

\* Two text fields, the second formatted, listed the other way in the form.
Texts == <<<<Field("text", a, FALSE, 2), Field("text", Empty, TRUE, 1)>>>>

\* A text field and a list that can be typed into.
Lists == <<<<Field("text", Empty, TRUE, 1), Field("combo", a, FALSE, 2)>>>>

\* A list that cannot, and a toggle.
Picks == <<<<Field("gated", Empty, FALSE, 1), Field("toggle", Empty, FALSE, 2)>>>>

OnePage == {Texts, Lists, Picks}

\* The first field of either page: one FieldId.
TwoPages == {<<<<Field("text", Empty, FALSE, 1)>>, <<Field("text", a, FALSE, 2)>>>>}
============================================================================
