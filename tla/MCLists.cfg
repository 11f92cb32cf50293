SPECIFICATION MCSpec
CONSTANTS
    Nodes = {n1, n2, n3, n4}
    Null = Null
    Values = {v1, v2}
    TypeNames = {request, response}
    NoValue = NoValue
    Callers = {c1, c2}
    Ids = {a, b, c}
    Priorities = {1, 2, 3}
    Float32 <- Rounding
    None = None
SYMMETRY Symm
INVARIANTS WellLinked ContinuesSafely VisitsAll DeletesAll StackReads OnePerId CallsAreSafe
PROPERTY InPriorityOrder
\* A deleted list, or stack, is used no more; the process ends after a fatal error,
\* a failed assertion or undefined behaviour.
CHECK_DEADLOCK FALSE
