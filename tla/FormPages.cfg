SPECIFICATION Spec
CONSTANTS
    Forms <- TwoPages
    Values <- MCValues
    Empty = Empty
    a = a
    MaxMoves = 1
    None = None
    Refuse = Refuse
INVARIANT StateIsOwn
CHECK_DEADLOCK FALSE
