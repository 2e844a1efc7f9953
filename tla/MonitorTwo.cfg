SPECIFICATION FairSpec
CONSTANTS
    a = a
    b = b
    Chats = {a, b}
    NoChat = NoChat
    View = 9
    ReadLimit = 9
    MaxHistory = 2
    MaxReplies = 1
    SureClicks = FALSE
    SureEyes = FALSE
    MaxMessages = 1
    MaxRounds = 2
    MaxLives = 2
INVARIANTS
    RepliesAreSends
PROPERTY
    RoundsEnd
CHECK_DEADLOCK FALSE
