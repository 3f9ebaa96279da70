SPECIFICATION MCSpec
CONSTANTS
    MaxNumber = 7
    Bodies <- MCBodies
    Drafts <- MCDrafts
    Documents <- MCDocuments
    MaxEdits = 2
    MaxSaves = 2
    MaxInlineDepth = 16
    Null = Null
    Garbled = Garbled
    EncryptDict = EncryptDict
    XrefStream = XrefStream
    Turns = {90, 180}
    Free = Free
    MaxCalls = 3
INVARIANTS
    EditingTypeOK
    FreshNumbers
    ReopenSeesSession
    EntriesKeepTheirPromise
    ScanSeesSession

    
CHECK_DEADLOCK FALSE
