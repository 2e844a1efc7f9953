SPECIFICATION Spec
CONSTANTS
    a = a
    b = b
    Chats = {a, b}
    NoChat = NoChat
    View = 4
    ReadLimit = 3
    MaxHistory = 4
    MaxReplies = 1
    SureClicks = FALSE
    SureEyes = TRUE
    MaxMessages = 2
    MaxRounds = 4
    MaxLives = 2
SYMMETRY Symm
INVARIANTS
    TypeOK
    AnsweredOnce
    HistoryIsWhole
    StopQuiets
CHECK_DEADLOCK FALSE
