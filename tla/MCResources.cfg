SPECIFICATION MCSpec
CONSTANTS
    Thread = {w1, w2, w3}
    Pseudo = Pseudo
    NoHandle = NoHandle
    NoThread = NoThread
    MaxDepth = 2
    Mutexes = {m1, m2, m3, m4, m5}
    Lockers = {u1, u2}
    StartLen = 2
    MaxLen = 4
    host = host
    Host = Host
    date = date
    etag = etag
    Threads = {t1}
    Names = {host, Host, date, etag}
    Normal <- Normals
    NoName = NoName
    MaxLines = 3
    MaxReloadId = 5
    Domains = {d1, d2}
    NoDomain = NoDomain
    Paths = {p1, p2}
    Callbacks = {f, g}
    NoCallback = NoCallback
    StartHosts = 1
    MaxHosts = 8
    Coros = {c1, c2}
    Objs = {o1, o2, o3}
    NoObj = NoObj
    Fds = {0, 1, 2, 3}
    MaxAddrs = 2
INVARIANTS
    DepthsExact ReadersKeepWritersOut
    TableTypeOK DistinctLocks FreeIsExact
    OneHeaderPerName HeldStaysValid HostsKept DescriptorsOwned
