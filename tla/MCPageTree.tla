---------------------------- MODULE MCPageTree ----------------------------
(***************************************************************************)
(* Trees of four nodes: a root, a branch that may hold any of them, a      *)
(* branch or page, and a page; any but the root may be lost.               *)
(***************************************************************************)
EXTENDS PageTree

MCNodes == 1..4

Seqs(S, max) == UNION {[1..k -> S] : k \in 0..max}

Branch(ks, c) == [type |-> "Pages", hasKids |-> TRUE, kids |-> ks, count |-> c, lost |-> FALSE]
Page == [type |-> "Page", hasKids |-> FALSE, kids |-> <<>>, count |-> 0, lost |-> FALSE]

Lose(t, L) == [n \in Nodes |-> [t[n] EXCEPT !.lost = n \in L]]

Shapes(count, rootKids, twoKids) ==
    {<<Branch(r, count), two, three, Page>> :
        r \in rootKids,
        two \in {Branch(ks, 0) : ks \in twoKids} \union {[Page EXCEPT !.type = "absent"]},
        three \in {Branch(ks, 0) : ks \in {<<>>, <<4>>, <<1>>, <<2>>}}
                  \union {Page, [Page EXCEPT !.type = "Pages"]}}

\* The root's /Count is what some of the trees have, or absent.
MCTrees ==
    {Lose(t, L) : L \in {{}, {2}, {3}, {4}, {3, 4}},
                  t \in UNION {Shapes(c, Seqs({2, 3, 4}, 2), Seqs({2, 3, 4}, 2)) : c \in {0, 2, 3}}}

\* Every kid of the root is a page or a branch with one page.
FlatTrees == {<<Branch(r, 3), Branch(<<4>>, 1), Page, Page>> : r \in [1..3 -> {2, 3}]}

MCAllTrees == MCTrees \union FlatTrees

ASSUME SharedTreesAreFlat == OnePageBranches
============================================================================
