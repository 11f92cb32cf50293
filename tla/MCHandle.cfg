SPECIFICATION FairSpec
CONSTANTS
    Thread = {t1, t2}
    Object = {o1, o2, o3}
    Token = {k1, k2, k3}
    MaxRefs = 2
    NoThread = NoThread
    NoObject = NoObject
    NoToken = NoToken
    Nesting = TRUE
INVARIANTS CountExact HeldStaysLive ReturnsOwn HandleNamesOneObject
PROPERTY LastReferenceDeletes
\* With deleters that use handles the table can lock up.
CHECK_DEADLOCK FALSE
