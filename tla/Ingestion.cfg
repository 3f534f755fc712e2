\* One start() task, restarted any number of times, while connections come
\* and go; one market with two versions, where a reader and a force_sync()
\* caller race the loop, start() and stop(); a stream of four entries with two
\* captures or a worker. All captures may have ended: the system may stop.
SPECIFICATION IngestionSpec
CONSTANTS
    Starters = {loop}
    Conns = {k1, k2, k3}
    NoConn = NoConn
    MaxFrames = 2
    initial_delay = 1
    max_delay = 3
    Markets = {m1}
    Values = {v1, v2}
    Forcers = {admin}
    Readers = {detector}
    NoEntry = NoEntry
    sync_interval = 1
    cache_ttl = 2
    MaxEntries = 4
    max_len = 2
    Unreadable = {1}
    count = 2
    Captures = {c1, c2}
    worker = w
INVARIANTS
    QuiescentIsClean
    OneConnection
    CapturedOnce
PROPERTIES
    StopEndsStart
    ReconnectsWhenLost
    CacheConverges
    LoopKeepsSyncing
    StopEndsLoop
    PendingIsRecovered
CHECK_DEADLOCK FALSE
