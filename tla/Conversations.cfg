SPECIFICATION Spec
CONSTANTS
    ann = ann
    bob = bob
    Chats = {ann, bob}
    NoChat = NoChat
    Frame = Frame
    RowHeight = 60
    Top = 60
    Origins = {0, 60}
    Lines <- MCLines
    Features <- MCFeatures
    MaxCalls = 3
    MaxEvents = 1
INVARIANTS
    TypeOK
    VisionNeedsChange
    CalmFocusLands
PROPERTIES
    KeepsFocusContract
CHECK_DEADLOCK FALSE
