SPECIFICATION Spec
CONSTANTS
    Threads = {t1}
    NoObject = NoObject
    Objects <- Small
    Stray <- MCStray
    Files <- SmallFiles
    MaxNesting = 5
INVARIANTS
    SoundFileReadsWhole

    
