SPECIFICATION Spec
CONSTANTS
    i1 = i1
    i2 = i2
    Images <- MCImages
    Wide <- MCWide
    Covered = {2, 4, 8}
    Shears = {4}
    Budget = 20
INVARIANT PixelsFitPlacement
CHECK_DEADLOCK FALSE
