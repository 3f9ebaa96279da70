SPECIFICATION Spec
CONSTANTS
    Nodes <- MCNodes
    Root = 1
    MaxPages = 6
    MaxDepth = 2
    None = None
    Trees <- MCAllTrees
    Shared <- FlatTrees
INVARIANTS
    TypeOK
    RightPageOrHole
    OnlyDepthPoisons
PROPERTIES
    PageStays
    TrueCountFindsAll
CHECK_DEADLOCK FALSE
