----------------------------- MODULE PageEdits -----------------------------
(***************************************************************************)
(* Adding, importing, deleting, turning and reordering pages               *)
(* (pdfrum-edit, pages.rs and import/mod.rs): rewrites of the nodes of the *)
(* page tree in the overlay, while the pages a call names are looked up in *)
(* the file.                                                               *)
(*                                                                         *)
(* Of the attributes a page may inherit there is one, /Rotate.  What else  *)
(* is on a page, what an import copies, and the repair of a catalog        *)
(* without a page tree are left out.                                       *)
(***************************************************************************)
EXTENDS Integers, FiniteSets, SequencesExt

CONSTANTS
    Bases,      \* page trees of files: functions from Numbers to nodes
    Numbers,    \* object numbers, those of the file first
    Root,       \* the number of the root's /Pages
    Turns,      \* values of /Rotate
    None,       \* no /Rotate, or no /Parent
    Free,       \* a number without an object
    MaxCalls    \* bound: calls

VARIABLES
    base,       \* the file's tree
    tree,       \* the tree as the overlay leaves it
    nextNum,    \* EditDoc::next_num
    call,       \* history: the last call
    calls       \* bound

vars == <<base, tree, nextNum, call, calls>>

Node == [type : {"Pages", "Page"}, parent : Numbers \union {None}, kids : Seq(Numbers),
         count : Nat, rotate : Turns \union {None}]

InUse(t) == {n \in Numbers : t[n] # Free}

\* A file's page tree, its numbers the first: every node but the root is listed
\* by the node it names as its parent and by no other, and none is below itself.
PageTreeOf(b) ==
    /\ b \in [Numbers -> Node \union {Free}]
    /\ \A n \in Numbers : b[n] # Free <=> n < 1 + Cardinality(InUse(b))
    /\ b[Root] # Free /\ b[Root].type = "Pages" /\ b[Root].parent = None
    /\ \A n \in Numbers : b[n] # Free =>
          /\ b[n].type = "Page" => b[n].kids = <<>>
          /\ \A k \in ToSet(b[n].kids) : b[k] # Free /\ b[k].parent = n
          /\ n # Root => /\ b[n].parent \in Numbers /\ b[b[n].parent] # Free
                         /\ n \in ToSet(b[b[n].parent].kids)
    /\ \A S \in SUBSET Numbers : S # {} =>
          \E n \in S : b[n] = Free \/ ToSet(b[n].kids) \intersect S = {}

\* What the files hold, for the theorems.
PageTreeFiles ==
    /\ IsFiniteSet(Numbers) /\ Numbers \subseteq Nat /\ Root \in Numbers
    /\ None \notin Numbers \union Turns /\ Free \notin Node
    /\ \A b \in Bases : PageTreeOf(b)

----------------------------------------------------------------------------
(* Reading a tree.                                                         *)

Leaves(t) ==
    LET under[n \in Numbers] ==
          IF t[n] = Free THEN <<>>
          ELSE IF t[n].type = "Page" THEN <<n>>
          ELSE FlattenSeq([i \in DOMAIN t[n].kids |-> under[t[n].kids[i]]])
    IN under[Root]

\* A node and what is above it.
Lineage(t, n) ==
    LET up[k \in InUse(t)] ==
          {k} \union IF t[k].parent = None THEN {} ELSE up[t[k].parent]
    IN up[n]

\* inherited_of(): the nearest value, up the parents.
Inherited(t, n) ==
    LET nearest[k \in InUse(t)] ==
          IF t[k].rotate # None \/ t[k].parent = None THEN t[k].rotate
          ELSE nearest[t[k].parent]
    IN nearest[n]

Listing(t) ==
    LET pages == Leaves(t) IN
    [i \in DOMAIN pages |-> [page |-> pages[i], turn |-> Inherited(t, pages[i])]]

----------------------------------------------------------------------------
(* Rewriting it.                                                           *)

\* insert_into_tree(): among the root's own kids, and their number its count.
Inserted(t, pages, i) ==
    LET kids == t[Root].kids
        k    == IF i < Len(kids) THEN i ELSE Len(kids)
    IN [t EXCEPT ![Root].kids  = SubSeq(kids, 1, k) \o pages \o SubSeq(kids, k + 1, Len(kids)),
                 ![Root].count = Len(kids) + Len(pages)]

DecrementCounts(t, node) ==
    LET above == Lineage(t, node) IN
    [n \in Numbers |->
        IF n \in above THEN [t[n] EXCEPT !.count = IF @ > 0 THEN @ - 1 ELSE 0] ELSE t[n]]

Without(s, gone) == FlattenSeq([i \in DOMAIN s |-> IF s[i] \in gone THEN <<>> ELSE <<s[i]>>])

Unlink(page, t) ==
    LET parent == t[page].parent IN
    DecrementCounts([t EXCEPT ![parent].kids = Without(@, {page})], parent)

\* Mistake: the pages stay under the nodes they were under.
ReorderedInPlace(order) ==
    LET leaves == Leaves(base)
        pages  == [i \in DOMAIN order |-> leaves[order[i]]]
    IN
    [n \in Numbers |->
        IF n \in ToSet(pages) THEN [base[n] EXCEPT !.rotate = Inherited([tree EXCEPT ![n] = base[n]], n)]
        ELSE IF n = Root THEN [tree[n] EXCEPT !.kids = pages, !.count = Len(pages), !.parent = None]
        ELSE tree[n]]

\* Each page as the file has it, with what it inherits, under the root.
Reordered(order) ==
    LET leaves == Leaves(base)
        pages  == [i \in DOMAIN order |-> leaves[order[i]]]
    IN
    [n \in Numbers |->
        IF n \in ToSet(pages)
        THEN [base[n] EXCEPT !.rotate = Inherited([tree EXCEPT ![n] = base[n]], n), !.parent = Root]
        ELSE IF n = Root THEN [tree[n] EXCEPT !.kids = pages, !.count = Len(pages), !.parent = None]
        ELSE tree[n]]

----------------------------------------------------------------------------

Init ==
    /\ base \in Bases /\ tree = base
    /\ nextNum = 1 + Cardinality(InUse(base))
    /\ call = [op |-> "none"] /\ calls = 0

Called(c) ==
    /\ calls < MaxCalls
    /\ call' = c /\ calls' = calls + 1
    /\ UNCHANGED base

\* New pages turned as rotate says, under the root.
AddPages(count, rotate, i) ==
    LET new  == [k \in 1..count |-> nextNum + k - 1]
        page == [type |-> "Page", parent |-> Root, kids |-> <<>>, count |-> 0, rotate |-> rotate]
        t    == [n \in Numbers |-> IF n \in ToSet(new) THEN page ELSE tree[n]]
    IN /\ ToSet(new) \subseteq Numbers
       /\ tree' = Inserted(t, new, i)
       /\ nextNum' = nextNum + count
       /\ Called([op |-> "add",
                  pages |-> [k \in 1..count |-> [page |-> new[k], turn |-> Inherited(t, new[k])]]])

Places == 0..Len(tree[Root].kids)

AddBlankPage == \E i \in Places : AddPages(1, None, i)

\* import_pages() of two pages, with what they inherited.
ImportPages == \E i \in Places, r \in Turns \union {None} : AddPages(2, r, i)

DeletePages ==
    \E S \in SUBSET ToSet(Leaves(base)) :
        /\ S # {}
        /\ tree' = FoldSet(Unlink, tree, S)
        /\ Called([op |-> "delete", pages |-> S])
        /\ UNCHANGED nextNum

SetPageRotation ==
    \E p \in ToSet(Leaves(base)), r \in Turns :
        /\ tree' = [tree EXCEPT ![p].rotate = r]
        /\ Called([op |-> "turn", page |-> p, turn |-> r])
        /\ UNCHANGED nextNum

ReorderPages ==
    \E order \in LET all == DOMAIN Leaves(base) IN {f \in [all -> all] : IsInjective(f)} :
        /\ tree' = Reordered(order)
        /\ Called([op |-> "reorder", order |-> order])
        /\ UNCHANGED nextNum

Next == AddBlankPage \/ ImportPages \/ DeletePages \/ SetPageRotation \/ ReorderPages

Spec == Init /\ [][Next]_vars

----------------------------------------------------------------------------

\* The overlay's nodes keep their shape, and what a node lists is under it.
TypeOK ==
    /\ \A n \in Numbers : tree[n] = Free \/ tree[n] \in Node
    /\ \A n \in Numbers : n < nextNum <=> tree[n] # Free
    /\ \A p \in ToSet(Leaves(tree)) : p \in ToSet(tree[tree[p].parent].kids)
    /\ calls \in 0..MaxCalls

List == INSTANCE PageList WITH original <- Listing(base), list <- Listing(tree)

\* However the pages were added, deleted, turned and reordered before, a call
\* does to the list of pages what it says, though unlink() finds a page by its
\* parent as an earlier call left it, and reorder_pages() starts from the file.
ImplementsPageList == List!Spec
=============================================================================
