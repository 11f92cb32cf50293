SPECIFICATION FairSpec
CONSTANTS
    Socket = {s1, s2}
    Worker = {w1, w2}
    Listener = listener
    NoSocket = NoSocket
    Nobody = Nobody
PROPERTIES EveryConnectionEnds ShutdownCompletes
\* SIGINT ends the process, and so does the end of the last coroutine.
CHECK_DEADLOCK FALSE
