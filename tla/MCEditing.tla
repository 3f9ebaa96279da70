----------------------------- MODULE MCEditing -----------------------------
(***************************************************************************)
(* An editing session, which changes objects and saves, or one that moves  *)
(* the pages of a document about; the other stays as it began.             *)
(***************************************************************************)
EXTENDS MCWriter

CONSTANTS Turns, Free, MaxCalls

\* The documents are such as WriterProofs' theorems on saving are about.
ASSUME DocumentsAreRoomy == RoomyDocuments

VARIABLES part, pageBase, tree, nextNum, call, calls

PageNumbers == 1..9
PageRoot    == 1

\* None, the writer's too, is zero: no object's number, and not a turn.
Pages(parent, kids, count, rotate) ==
    [type |-> "Pages", parent |-> parent, kids |-> kids, count |-> count, rotate |-> rotate]
PageOf(parent, rotate) ==
    [type |-> "Page", parent |-> parent, kids |-> <<>>, count |-> 0, rotate |-> rotate]

\* The root turns what nothing else does.
Flat == <<Pages(None, <<3, 2, 4>>, 3, 90), PageOf(1, None), PageOf(1, 180), PageOf(1, None)>>

\* Two branches of which one lies under the other, and both turn.
Deep == <<Pages(None, <<2, 6>>, 3, None), Pages(1, <<3, 5>>, 2, 90), Pages(2, <<4>>, 1, 180),
          PageOf(3, None), PageOf(2, None), PageOf(1, None)>>

PageBases == {[n \in PageNumbers |-> IF n \in DOMAIN t THEN t[n] ELSE Free] : t \in {Flat, Deep}}

Moving == INSTANCE PageEdits WITH
              base <- pageBase, Numbers <- PageNumbers, Root <- PageRoot, Bases <- PageBases

ASSUME FilesHavePageTrees == Moving!PageTreeFiles

pageVars == <<pageBase, tree, nextNum, call, calls>>
allVars  == <<part, vars, pageVars>>

MCInit ==
    /\ part \in {"objects", "pages"}
    /\ Init /\ Moving!Init
    /\ part = "objects" \/ base = Streamed
    /\ part = "pages" \/ pageBase[2].type = "Page"

MCNext ==
    \/ part = "objects" /\ Next /\ UNCHANGED <<part, pageVars>>
    \/ part = "pages" /\ Moving!Next /\ UNCHANGED <<part, vars>>

MCSpec == MCInit /\ [][MCNext]_allVars

\* The session's state and the page tree keep their shape.
EditingTypeOK == TypeOK /\ Moving!TypeOK

\* Each call does to the list of pages what it says.
ImplementsPageList == Moving!ImplementsPageList
============================================================================
