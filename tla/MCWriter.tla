------------------------------ MODULE MCWriter ------------------------------
(***************************************************************************)
(* Documents of up to three objects for the writer: a catalog, what it     *)
(* refers to, and one that may be unreachable, damaged or superseded.      *)
(***************************************************************************)
EXTENDS Writer

Body(r) == [refs |-> r, by |-> "file"]
Draft(r) == [refs |-> r, by |-> "session"]
MCBodies == {Body(r) : r \in {{}, {2}, {2, 3}, {3}, {4}}} \union {Draft({}), Draft({4})}
MCDrafts == {Draft({}), Draft({4}), Null}

Obj(n, r, key) == [num |-> n, gen |-> 0, obj |-> Body(r), key |-> key]
Own(id) == [dict |-> "own", id |-> id]

Doc(file, table, last) ==
    [file |-> file, table |-> table, last |-> last, form |-> "table", number |-> None,
     info |-> None, encrypt |-> "none", encNum |-> None, id |-> "none", key |-> Plain,
     usesId |-> FALSE, appended |-> FALSE]

\* Two revisions of object 2, an entry for 3 that names the wrong object, and
\* a number past them that only the size describes.
Damaged == Doc(<<Obj(1, {2, 3}, Plain), Obj(2, {}, Plain), Obj(2, {3}, Plain)>>, <<1, 3, 2>>, 4)

\* A cross-reference stream, which is object 3.
Streamed == [Doc(<<Obj(1, {2}, Plain), Obj(2, {}, Plain),
                   [num |-> 3, gen |-> 0, obj |-> XrefStream, key |-> Plain]>>, <<1, 2, 3>>, 3)
             EXCEPT !.form = "stream", !.number = 3]

Scanned == [Doc(<<Obj(1, {2}, Plain), Obj(2, {4}, Plain), Obj(3, {}, Plain)>>, <<1, 2, 3>>, 3)
            EXCEPT !.form = "rebuilt"]

Locked(form) ==
    [Doc(<<Obj(1, {2}, Own("own")), Obj(2, {}, Own("own"))>>, <<1, 2>>, 2)
     EXCEPT !.form = form, !.encrypt = "inline", !.id = "own", !.key = Own("own"), !.usesId = TRUE]

LockedBy3 ==
    [Doc(<<Obj(1, {2}, Own("any")), [num |-> 3, gen |-> 0, obj |-> EncryptDict, key |-> Plain],
           Obj(2, {4}, Own("any"))>>, <<1, 3, 2>>, 3)
     EXCEPT !.encrypt = "indirect", !.encNum = 3, !.key = Own("any")]

MCDocuments == {Damaged, Streamed, Scanned, Locked("table"), Locked("stream"), LockedBy3}

\* A list: each object names the next.
Listed == Doc([n \in 1..4 |-> Obj(n, IF n < 4 THEN {n + 1} ELSE {}, Plain)], [n \in 1..4 |-> n], 4)
ListedOnly == {Listed}
============================================================================
