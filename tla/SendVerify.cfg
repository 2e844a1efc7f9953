SPECIFICATION FairSpec
CONSTANTS
    w1 = w1
    w2 = w2
    t1 = t1
    t2 = t2
    k1 = k1
    k2 = k2
    Workers = {w1, w2}
    Tasks = {t1, t2}
    DedupeKeys = {k1, k2}
INVARIANTS
    TypeOK
    KeySentOnce
    StatusIsTrue
PROPERTIES
    StatusNeverGoesBack
    RecordsSettle
