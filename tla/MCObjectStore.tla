--------------------------- MODULE MCObjectStore ---------------------------
(***************************************************************************)
(* Small files for the object store.                                       *)
(***************************************************************************)
EXTENDS ObjectStore, TLC

Blank == [where |-> "offset", shape |-> "dict", length |-> NoObject,
          filter |-> NoObject, archive |-> NoObject, listed |-> FALSE,
          flagged |-> FALSE, objstm |-> FALSE]

Missing      == [Blank EXCEPT !.where = "absent"]
Shifted(len) == [Blank EXCEPT !.where = "shifted", !.shape = "stream", !.length = len]
Number       == [Blank EXCEPT !.shape = "number"]
FilterName   == [Blank EXCEPT !.shape = "name"]
Stream(len)  == [Blank EXCEPT !.shape = "stream", !.length = len]
ObjStm(len, filter) ==
    [Stream(len) EXCEPT !.filter = filter, !.flagged = TRUE, !.objstm = TRUE]
Packed(shape, a) ==
    [Blank EXCEPT !.where = "packed", !.shape = shape, !.archive = a,
                  !.listed = TRUE]

Symmetry  == Permutations(Threads)
MCObjects == 1..4
MCStray   == 9

\* An object stream with an indirect length, and two of its members.
Compressed == <<Number, ObjStm(1, NoObject), Packed("dict", 2), Packed("number", 2)>>

\* An object stream with an indirect filter, a member, a number past the end.
Filtered == <<FilterName, ObjStm(NoObject, 1), Packed("dict", 2), Stream(9)>>

\* A length under another object's header, and a header that is not the stream's.
Misplaced == <<Shifted(NoObject), Stream(1), Shifted(4), Number>>

\* A length that is the stream itself, and two that are each other.
Circular == <<Stream(1), Stream(3), Stream(2), Missing>>

\* An object stream whose length is one of its own members.
SelfPacked == <<Number, ObjStm(3, NoObject), Packed("number", 2), Packed("dict", 2)>>

\* A stream whose length is a member of an object stream with a length.
Layered == <<Number, ObjStm(1, NoObject), Packed("number", 2), Stream(3)>>

\* Streams whose lengths are streams.
Chain == <<Stream(2), Stream(3), Stream(4), Number>>

MCFiles == {Compressed, Filtered, Circular, SelfPacked, Layered, Chain, Misplaced}

CompressedOnly == {Compressed}
LiveFiles == {Circular, SelfPacked}

\* Every file of three objects over these slots, for one thread.
Small == 1..3
SmallSlots ==
    {Missing, Number, FilterName, Blank, Shifted(1)}
       \union {Stream(r) : r \in Small \union {9}}
       \union {ObjStm(r, f) : r \in Small \union {NoObject}, f \in {NoObject, 1}}
       \union {Packed(s, a) : s \in {"number", "name"}, a \in Small}
SmallFiles ==
    {f \in [Small -> SmallSlots] :
        \A n \in Small : f[n].where = "packed" =>
           f[f[n].archive].flagged \/ f[f[n].archive] = Blank}
============================================================================
