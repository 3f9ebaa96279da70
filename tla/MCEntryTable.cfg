SPECIFICATION Spec
CONSTANTS
    MaxNumber = 2
    Offsets = {0, 1}
    Indexes = {0}
    Generations = {0, 1}
    None = None
    Tops <- MCTops
INVARIANTS
    TypeOK
    CachesExact
PROPERTIES
    ImplementsMap
