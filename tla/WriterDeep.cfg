SPECIFICATION Spec
CONSTANTS
    MaxNumber = 7
    Bodies <- MCBodies
    Drafts <- MCDrafts
    Documents <- ListedOnly
    MaxEdits = 2
    MaxSaves = 2
    MaxInlineDepth = 4
    Null = Null
    Garbled = Garbled
    EncryptDict = EncryptDict
    XrefStream = XrefStream
INVARIANT ReopenSeesSession
CHECK_DEADLOCK FALSE
