SPECIFICATION HookSpec
CONSTANTS
    Nodes = {n1, n2, n3, n4}
    Null = Null
    Callers = {c1}
    Ids = {a, b, c}
    Priorities = {1, 2, 3}
    Float32 <- Rounding
    None = None
SYMMETRY Symm
INVARIANT AllAreCalled
\* The process ends after a fatal error or a failed assertion.
CHECK_DEADLOCK FALSE
