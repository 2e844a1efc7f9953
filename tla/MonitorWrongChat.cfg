SPECIFICATION Spec
CONSTANTS
    a = a
    b = b
    Chats = {a, b}
    NoChat = NoChat
    View = 9
    ReadLimit = 9
    MaxHistory = 9
    MaxReplies = 9
    SureClicks = TRUE
    SureEyes = TRUE
    MaxMessages = 2
    MaxRounds = 1
    MaxLives = 1
INVARIANT
    RepliesReachTheirChat
CHECK_DEADLOCK FALSE
