SPECIFICATION Spec
CONSTANTS
    Threads = {t1, t2}
    NoObject = NoObject
    Objects <- MCObjects
    Stray <- MCStray
    Files <- MCFiles
    MaxNesting = 3
SYMMETRY Symmetry
INVARIANTS
    TypeOK
    GuardsExact
    ParsedOnce
    AnswersTheSlot
    StackBounded
    LengthBacked
    ContainerBacked
