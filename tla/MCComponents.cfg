SPECIFICATION MCSpec
CONSTANTS
    Count = 4
    Zooms = {1, 2}
    Screens = {s1}
    Broken = {2}
    KeepFrames = 3
    AheadLimit = 2
    MaxQueue = 1
    MaxPictures = 2
    NoPicture = NoPicture
    Threads = {t1, t2, t3}
    Refs = {r1, r2}
    Unloadable = {r2}
    MaxFonts = 3
    NoFont = NoFont
    Images = {i1, i2, i3}
    Wide <- MCWide
    Devices = {2, 3}
    MaxEntries = 3
    MaxBytes = 9
    MaxTick = 8
    Covered = {2, 4}
    Shears = {2, 6}
    Budget = 12
    Intervals = {0, 1, 2}
    Steps = {1, 3}
    MaxTimers = 3
    MaxTime = 6
    Forms <- OnePage
    Values <- MCValues
    Empty = Empty
    filled = filled
    MaxMoves = 2
    None = None
    Refuse = Refuse
    letter = letter
    Break = Break
    Letters = {letter}
    Pastes <- MCPastes
    FileTexts <- MCFileTexts
    MaxLen = 2
    MaxItems = 4
    MaxEdits = 2
INVARIANTS
    PartsTypeOK
    ScreenShowsPage
    OneInstance
    NeverCoarser
    BudgetsKept
    FiresOnceWhenDue
    LeftFieldIsSettled
PROPERTIES
    ViewerMovesOn
    EventsAnswered
    
CHECK_DEADLOCK FALSE
