----------------------------- MODULE PageTree -----------------------------
(***************************************************************************)
(* Finding a page by its index (pdfrum-parser, doc.rs): the page tree is   *)
(* counted when the document is opened, and walked, under a lock, when a   *)
(* page that is not in the cache is asked for.                             *)
(*                                                                         *)
(* A kid is fetched through the document's object store, and a store that  *)
(* is shared refuses an object that another thread is parsing: in a tree   *)
(* of Shared, a kid nobody has loaded yet may fail once and load later.    *)
(***************************************************************************)
EXTENDS Naturals, Sequences, FiniteSets, SequencesExt

CONSTANTS
    Trees,      \* the trees considered: functions from Nodes to Node
    Nodes,      \* Root is one of them
    Root,       \* the catalog's /Pages
    MaxPages,   \* Limits::max_page_count
    MaxDepth,   \* Limits::max_page_tree_depth
    Shared,     \* those of them that other threads read meanwhile
    None        \* a slot that no page has been found for

\* type as /Type says it; hasKids whether there is a /Kids; count is zero
\* for a /Count that is absent or not positive; lost will not load as a
\* dictionary.
Node == [type    : {"Pages", "Page", "absent"},
         hasKids : BOOLEAN,
         kids    : Seq(Nodes),
         count   : Nat,
         lost    : BOOLEAN]

ASSUME TreesAssumption ==
    /\ Shared \subseteq Trees
    /\ IsFiniteSet(Nodes) /\ Root \in Nodes /\ None \notin Nodes
    /\ MaxPages \in Nat \ {0} /\ MaxDepth \in Nat \ {0}
    /\ \A t \in Trees :
          /\ t \in [Nodes -> Node] /\ ~t[Root].lost
          /\ \A n \in Nodes : ~t[n].hasKids => t[n].kids = <<>>

VARIABLES
    tree,      \* the file's page tree
    slots,     \* PageCache::slots: the page at each index
    poisoned,  \* PageCache::poisoned
    path,      \* the walk's descent: each node and its next kid
    next,      \* the slot the walk fills next
    asked,     \* the index page() was called for, or nothing
    loaded     \* the nodes the store has

vars == <<tree, slots, poisoned, path, next, asked, loaded>>

Nothing == MaxPages   \* no index is as large

TypeOK ==
    /\ Len(slots) <= MaxPages
    /\ \A i \in DOMAIN slots : slots[i] \in Nodes \union {None}
    /\ poisoned \in BOOLEAN
    /\ \A d \in DOMAIN path : path[d].node \in Nodes /\ path[d].kid \in Nat
    /\ Len(path) <= MaxDepth
    /\ next \in Nat
    /\ asked \in 0..MaxPages
    /\ loaded \subseteq Nodes

----------------------------------------------------------------------------
(* Counting, when the document is opened. *)

\* node_kind believes /Type before it looks at /Kids.
IsBranch(t, n) == \/ t[n].type = "Pages"
                  \/ t[n].type = "absent" /\ t[n].hasKids

\* A /Count that is believed.
Claimed(t, n) == t[n].count > 0 /\ t[n].count < MaxPages

\* A kid that loads and is not an ancestor.
Followed(t, k, above) == ~t[k].lost /\ k \notin above

\* A sum that goes no further than MaxPages.
Total(counts) ==
    LET upto[i \in 0..Len(counts)] ==
          IF i = 0 THEN 0
          ELSE LET sum == upto[i - 1] + counts[i] IN
               IF sum >= MaxPages THEN MaxPages ELSE sum IN
    upto[Len(counts)]

\* count_subtree, of a node and those above it; MaxPages stands for "more than
\* a document may have".
CountUnder(t) ==
    LET under[p \in Nodes \X SUBSET Nodes] ==
          IF Claimed(t, p[1]) THEN t[p[1]].count
          ELSE Total([i \in DOMAIN t[p[1]].kids |->
                        LET k == t[p[1]].kids[i] IN
                        IF ~Followed(t, k, p[2]) THEN 0
                        ELSE IF IsBranch(t, k) THEN under[<<k, p[2] \union {k}>>] ELSE 1]) IN
    under[<<Root, {Root}>>]

PageCount(t) ==
    IF ~t[Root].hasKids THEN 1
    ELSE IF CountUnder(t) = MaxPages THEN 0 ELSE CountUnder(t)

\* The nodes that counting has loaded.
Counted(t) ==
    LET seen[p \in Nodes \X SUBSET Nodes] ==
          IF Claimed(t, p[1]) THEN {}
          ELSE UNION {{k} \union IF IsBranch(t, k) THEN seen[<<k, p[2] \union {k}>>] ELSE {}
                        : k \in {m \in Range(t[p[1]].kids) : Followed(t, m, p[2])}} IN
    {Root} \union seen[<<Root, {Root}>>]

Init ==
    /\ tree \in Trees
    /\ slots = [i \in 1..PageCount(tree) |-> None]
    /\ poisoned = FALSE
    /\ path = <<>>
    /\ next = 0
    /\ asked = Nothing
    /\ loaded = Counted(tree)

----------------------------------------------------------------------------
(* page() and the walk *)

Ancestors == {path[d].node : d \in DOMAIN path}

\* Ask, were the walk to go on from the first page not found yet.
AskResuming ==
    /\ asked = Nothing
    /\ \E i \in 0..Len(slots) - 1 :
         /\ slots[i + 1] = None /\ ~poisoned
         /\ asked' = i
         /\ next' = CHOOSE j \in 0..i : /\ slots[j + 1] = None
                                        /\ \A h \in 0..j - 1 : slots[h + 1] # None
    /\ path' = <<[node |-> Root, kid |-> 1]>>
    /\ UNCHANGED <<tree, slots, poisoned, loaded>>

\* A page that is not cached: the walk begins at the root.  What is cached, is
\* past the count, or cannot be found any more is answered with no change.
Ask ==
    /\ asked = Nothing
    /\ \E i \in 0..Len(slots) - 1 :
         /\ slots[i + 1] = None /\ ~poisoned
         /\ asked' = i
         /\ \/ /\ tree[Root].hasKids
               /\ path' = <<[node |-> Root, kid |-> 1]>> /\ next' = 0
               /\ UNCHANGED slots
            \/ /\ ~tree[Root].hasKids
               /\ slots' = IF IsBranch(tree, Root) THEN slots
                           ELSE [slots EXCEPT ![1] = Root]
               /\ UNCHANGED <<path, next>>
    /\ UNCHANGED <<tree, poisoned, loaded>>

Top   == path[Len(path)]
Kid   == tree[Top.node].kids[Top.kid]
Going == path # <<>> /\ Top.kid <= Len(tree[Top.node].kids) /\ next < Len(slots)
OnToNext == [path EXCEPT ![Len(path)].kid = @ + 1]

\* KidFails, were a kid that does not load not to cost a slot.
KidFailsFreely ==
    /\ Going
    /\ tree[Kid].lost \/ (tree \in Shared /\ Kid \notin loaded)
    /\ path' = OnToNext
    /\ UNCHANGED <<tree, slots, poisoned, next, asked, loaded>>

\* A kid that does not load costs a slot.
KidFails ==
    /\ Going
    /\ tree[Kid].lost \/ (tree \in Shared /\ Kid \notin loaded)
    /\ next' = next + 1
    /\ path' = OnToNext
    /\ UNCHANGED <<tree, slots, poisoned, asked, loaded>>

\* KidLoads, were every subtree followed however deep it is.
KidLoadsDeep ==
    /\ Going /\ ~tree[Kid].lost
    /\ loaded' = loaded \union {Kid}
    /\ \/ /\ Kid \in Ancestors \/ (~tree[Kid].hasKids /\ IsBranch(tree, Kid))
          /\ path' = OnToNext
          /\ UNCHANGED <<slots, next>>
       \/ /\ Kid \notin Ancestors /\ ~tree[Kid].hasKids /\ ~IsBranch(tree, Kid)
          /\ slots' = [slots EXCEPT ![next + 1] = Kid] /\ next' = next + 1
          /\ path' = OnToNext
       \/ /\ Kid \notin Ancestors /\ tree[Kid].hasKids
          /\ path' = Append(OnToNext, [node |-> Kid, kid |-> 1])
          /\ UNCHANGED <<slots, next>>
    /\ UNCHANGED <<tree, asked, poisoned>>

\* KidLoads, were nothing known of the nodes above.
KidLoadsUnguarded ==
    /\ Going /\ ~tree[Kid].lost
    /\ loaded' = loaded \union {Kid}
    /\ IF ~tree[Kid].hasKids
       THEN /\ slots' = IF IsBranch(tree, Kid) THEN slots ELSE [slots EXCEPT ![next + 1] = Kid]
            /\ next' = IF IsBranch(tree, Kid) THEN next ELSE next + 1
            /\ path' = OnToNext
            /\ UNCHANGED poisoned
       ELSE /\ path' = IF Len(path) >= MaxDepth THEN OnToNext
                       ELSE Append(OnToNext, [node |-> Kid, kid |-> 1])
            /\ poisoned' = (poisoned \/ Len(path) >= MaxDepth)
            /\ UNCHANGED <<slots, next>>
    /\ UNCHANGED <<tree, asked>>

\* A kid that loads is a loop, a page, a subtree that is not there, a subtree
\* too deep to follow, or the next to descend into.
KidLoads ==
    /\ Going /\ ~tree[Kid].lost
    /\ loaded' = loaded \union {Kid}
    /\ \/ /\ Kid \in Ancestors
          /\ path' = OnToNext
          /\ UNCHANGED <<slots, next, poisoned>>
       \/ /\ Kid \notin Ancestors /\ ~tree[Kid].hasKids
          /\ IF IsBranch(tree, Kid) THEN UNCHANGED <<slots, next>>
             ELSE slots' = [slots EXCEPT ![next + 1] = Kid] /\ next' = next + 1
          /\ path' = OnToNext
          /\ UNCHANGED poisoned
       \/ /\ Kid \notin Ancestors /\ tree[Kid].hasKids /\ Len(path) >= MaxDepth
          /\ poisoned' = TRUE
          /\ path' = OnToNext
          /\ UNCHANGED <<slots, next>>
       \/ /\ Kid \notin Ancestors /\ tree[Kid].hasKids /\ Len(path) < MaxDepth
          /\ path' = Append(OnToNext, [node |-> Kid, kid |-> 1])
          /\ UNCHANGED <<slots, next, poisoned>>
    /\ UNCHANGED <<tree, asked>>

\* A node is done when its kids are, or when every slot has been passed.
Ascend ==
    /\ path # <<>> /\ ~Going
    /\ path' = Front(path)
    /\ UNCHANGED <<tree, slots, poisoned, next, asked, loaded>>

\* The lock is let go of, and the slot asked for is the answer.
Answer ==
    /\ asked # Nothing /\ path = <<>>
    /\ asked' = Nothing
    /\ next' = 0
    /\ UNCHANGED <<tree, slots, poisoned, path, loaded>>

\* Another thread has fetched a node.
OtherLoads ==
    /\ tree \in Shared
    /\ \E n \in Nodes \ loaded : ~tree[n].lost /\ loaded' = loaded \union {n}
    /\ UNCHANGED <<tree, slots, poisoned, path, next, asked>>

Next == Ask \/ KidFails \/ KidLoads \/ Ascend \/ Answer \/ OtherLoads

Spec == Init /\ [][Next]_vars

----------------------------------------------------------------------------
(* What the tree says, read off the tree alone. *)

\* The pages under a node, given those above it, in order; a kid that does not
\* load is one, called None.
PagesUnder(t) ==
    LET under[p \in Nodes \X SUBSET Nodes] ==
          LET n == p[1] IN
          IF t[n].lost THEN <<None>>
          ELSE IF n \in p[2] THEN <<>>
          ELSE IF ~t[n].hasKids
          THEN IF t[n].type = "Pages" THEN <<>> ELSE <<n>>
          ELSE FlattenSeq([i \in DOMAIN t[n].kids |-> under[<<t[n].kids[i], p[2] \union {n}>>]]) IN
    under

Pages == PagesUnder(tree)[<<Root, {}>>]

\* Nodes with kids that are one under another, more of them than are followed.
TooDeep ==
    \E chain \in [1..MaxDepth + 1 -> Nodes] :
        /\ chain[1] = Root
        /\ \A d \in 1..MaxDepth + 1 :
              /\ ~tree[chain[d]].lost /\ tree[chain[d]].hasKids
              /\ \A e \in 1..d - 1 : chain[e] # chain[d]
        /\ \A d \in 1..MaxDepth : \E i \in DOMAIN tree[chain[d]].kids :
              chain[d + 1] = tree[chain[d]].kids[i]

\* In the trees that other threads read meanwhile, a kid of the root is one page
\* or a branch with one page: a branch that is refused for a moment leaves one
\* hole, whatever it has.
OnePageBranches ==
    LET IsPage(t, n) == t[n].lost \/ (~t[n].hasKids /\ t[n].type # "Pages") IN
    \A t \in Shared :
        /\ MaxDepth > 1
        /\ \A i \in DOMAIN t[Root].kids : LET k == t[Root].kids[i] IN
              \/ IsPage(t, k)
              \/ t[k].hasKids /\ Len(t[k].kids) = 1 /\ IsPage(t, t[k].kids[1])

----------------------------------------------------------------------------
(* Properties. *)

\* Document::page: "A kid that will not load as a dictionary still consumes
\* its slot: a missing page leaves a hole rather than shifting every page
\* after it" - so no slot ever holds a page that belongs at another index.
RightPageOrHole ==
    ~TooDeep =>
        \A i \in DOMAIN slots :
            slots[i] # None => i <= Len(Pages) /\ slots[i] = Pages[i]

\* A page that has been given out for an index stays the page at that index,
\* although every later walk fills the slots again.
PageStays ==
    [][\A i \in DOMAIN slots : slots[i] # None => slots'[i] = slots[i]]_vars

\* In a document whose /Count tells the truth, an index that is asked for
\* gives its page, whichever were asked for before.
TrueCountFindsAll ==
    [][(/\ asked # Nothing /\ asked' = Nothing
        /\ tree \notin Shared
        /\ ~TooDeep /\ Len(slots) = Len(Pages)) =>
         slots'[asked + 1] = Pages[asked + 1]]_vars

\* A tree that only loops is not taken for one that is too deep, which would
\* end every later lookup.
OnlyDepthPoisons == poisoned => TooDeep
============================================================================
