SPECIFICATION FairSpec
CONSTANTS
    a = a
    b = b
    k1 = k1
    Contacts = {a, b}
    Clients = {k1}
    Nobody = Nobody
    MaxChanges <- MCChanges
    MaxPending <- MCPending
INVARIANTS
    TypeOK
    StoreCatchesUp
PROPERTIES
    StoreNeverGoesBack
    ChangesAreSaved
CHECK_DEADLOCK FALSE
