SPECIFICATION Spec
CONSTANTS
    k1 = k1
    k2 = k2
    k3 = k3
    Threads = {t1, t2}
    Keys = {k1, k2, k3}
    Hash <- Hashes
    Values = {v1, v2, v3, v4}
    NoValue = NoValue
    NoCall = NoCall
    StartSize = 1
    Rebuilds = {16}
    SizeT = 64
SYMMETRY Symm
INVARIANTS Findable Owned
PROPERTY Implements
\* A table that was deleted, or whose assertion failed, is used no more.
CHECK_DEADLOCK FALSE
