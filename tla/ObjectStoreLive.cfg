SPECIFICATION FairSpec
CONSTANTS
    Threads = {t1, t2}
    NoObject = NoObject
    Objects <- MCObjects
    Stray <- MCStray
    Files <- LiveFiles
    MaxNesting = 3
PROPERTIES
    FetchesEnd
