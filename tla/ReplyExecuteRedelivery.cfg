SPECIFICATION Spec
CONSTANTS
    t1 = t1
    t2 = t2
    Tasks = {t1, t2}
    Malformed = {}
    Others = {}
    NoTask = NoTask
    c1 = c1
    c2 = c2
    Chats = {c1, c2}
    ChatOf <- MCChatOf
    MaxReplies = 2
    MaxDeliveries = 3
    MaxStarts = 1
PROPERTIES
    CompletedNeverEntered
CHECK_DEADLOCK FALSE
