SPECIFICATION FairSpec
CONSTANTS
    MaxNumber <- MCNumber
    Offsets <- MCOffsets
    Indexes <- MCIndexes
    Generations <- MCGens
    Files <- MCFiles
    Sound <- MCSound
    MaxRevisions = 3
INVARIANTS
    TypeOK
    
    RebuildFindsLastCopies
    
    TrailerIsNewest
PROPERTY LoadEnds
CHECK_DEADLOCK FALSE
