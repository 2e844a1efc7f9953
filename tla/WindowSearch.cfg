SPECIFICATION Spec

CONSTANTS
    N = 4
    Identifiers = 2
    MaxCount = 2
    Starts <- MCStarts
    MaxDepth = 2
    MaxChanges = 1

INVARIANTS
    FindsNodes
    CalmPick
PROPERTY
    SearchEnds
CHECK_DEADLOCK FALSE
