SPECIFICATION FairSpec
CONSTANTS
    t1 = t1
    bad = bad
    Tasks = {t1, bad}
    Malformed = {bad}
    other = other
    Others = {other}
    NoTask = NoTask
    c1 = c1
    c2 = c2
    Chats = {c1, c2}
    ChatOf <- MCChatOf
    MaxReplies = 2
    MaxDeliveries = 3
    MaxStarts = 1
PROPERTY
    CommandsConsumed
CHECK_DEADLOCK FALSE
