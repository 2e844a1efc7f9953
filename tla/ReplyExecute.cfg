SPECIFICATION Spec
CONSTANTS
    t1 = t1
    t2 = t2
    bad = bad
    Tasks = {t1, t2, bad}
    Malformed = {bad}
    other = other
    Others = {other}
    NoTask = NoTask
    c1 = c1
    c2 = c2
    Chats = {c1, c2}
    ChatOf <- MCChatOf
    MaxReplies = 2
    MaxDeliveries = 3
    MaxStarts = 2
SYMMETRY Symm
INVARIANTS
    TypeOK
    HistoryMatchesChat
    RecordsAreEarned
    CompletionSeenWhole
PROPERTIES
    RecordedNeverEntered
    ImplementsContract
CHECK_DEADLOCK FALSE
