SPECIFICATION Spec
CONSTANTS
    Socket = {s1, s2, s3}
    Worker = {w1, w2, w3}
    Listener = listener
    NoSocket = NoSocket
    Nobody = Nobody
INVARIANTS OneOwner NoneDropped ConditionsOutliveWorkers
\* SIGINT ends the process, and so does the end of the last coroutine.
CHECK_DEADLOCK FALSE
