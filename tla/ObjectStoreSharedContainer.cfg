SPECIFICATION Spec
CONSTANTS
    Threads = {t1, t2}
    NoObject = NoObject
    Objects <- MCObjects
    Stray <- MCStray
    Files <- CompressedOnly
    MaxNesting = 6
INVARIANTS
    NoneMeansUndecodable
