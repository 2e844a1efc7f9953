SPECIFICATION Spec
CONSTANTS
    hello = hello
    bye = bye
    other = other
    Texts = {hello, bye}
    Foreign = other
    NoText = NoText
    Signals <- MCSignals
    Diffs <- MCDiffs
    MaxCandidates = 2
    MaxCalls = 2
    MaxLate = 0
    MaxBox = 4
    MaxIncoming = 1
    MaxCopies = 1
SYMMETRY Symm
INVARIANTS
    TypeOK
    VerdictsRestOnPixels
PROPERTIES
    KeepsSendContract
    EnterSendsContent
    LandedIsVerified
CHECK_DEADLOCK FALSE
