\* Three pipelines on one Redis, one of them with dry_run; two calls of the
\* poller's start() over eight trades; a sender, a reader of feedback and a
\* rollup over two alerts; three wallets in one market; two threads of one
\* CLOB client; three trades of a day; a fetch of eight pages; traces of four
\* addresses and three transfers; a capture of six trades. All may stop.
SPECIFICATION DetectionSpec
CONSTANTS
    Workers = {p1, p2, p3}
    Wallets = {w1}
    Markets = {m1}
    Nonces <- McNonces
    Ages <- McAges
    Notionals <- McNotionals
    Categories <- McCategories
    alert_threshold <- LowThreshold
    DryRun = {p3}
    MaxTrades = 3
    tx_of <- Fills
    NoHash = "none"
    Malformed = {"c"}
    limit = 2
    dedupe_window = 5
    max_lag = 1
    max_spread = 1
    Starts = {s1, s2}
    HistoryWallets = {w1}
    HistoryMarkets = {m1}
    SignalLists = {{}, {"fresh_wallet"}}
    Senders = {sender1}
    Users = {user1}
    Rollups = {rollup1}
    dedup_window = 1
    retention = 3
    HoursPerDay = 2
    MaxAlerts = 2
    MaxHour = 4
    Snipers = {n1, n2, n3}
    SniperMarkets = {q1}
    Deltas <- EntryDeltas
    entry_threshold_seconds = 300
    min_cluster_size = 2
    min_entries_per_wallet = 1
    ClusterIds = {i1, i2, i3}
    NoCluster = NoCluster
    MaxSniperEntries = 2
    MaxGroups = 2
    Threads = {x1, x2}
    pages <- Pages
    Closed = {"c"}
    clob_retries = 1
    min_interval = 2
    Traders = {"a", "b"}
    NoTrader = NoTrader
    Questions = {"q1", "q2"}
    Observations <- McObservations
    MarketMetas <- McMarketMetas
    first_trades <- FirstTrades
    NoTime = NoTime
    NoPrice = NoPrice
    MaxObserved = 3
    min_price = 5
    max_price = 95
    min_hours_to_close = 24
    min_life_hours = 24
    max_age = 2
    min_trade_notional = 6
    variant_a_multiple = 5
    variant_b_min_trades = 2
    variant_b_window = 2
    variant_b_dominance = 80
    variant_b_notional_multiple = 1
    p90_min_trades = 2
    threshold = 70
    min_trades = 2
    window_seconds = 2
    min_wallets = 2
    min_total_notional = 2
    min_multiple = 3
    min_days_active = 1
    min_volume_24h = 5
    Day = 1
    top_n = 5
    top_contributors = 2
    Failing = {"01-B"}
    hash_of <- Hashes
    time_of <- Times
    Unhashed = "none"
    OpenMarket = {2, 3, 4, 5, 7}
    made_at_start = 8
    cutoff = 3
    PAGE_SIZE = 2
    MAX_HISTORICAL_OFFSET = 8
    Addresses = {"x", "a", "b", "c"}
    kind_of <- Kinds
    Tokens <- TokenOrder
    funder_of <- FirstFunders
    Nobody = Nobody
    max_hops = 3
    funding_window = 1
    min_shared_wallets = 2
    lookback = 1
    Funders = {"x", "a"}
    MaxTime = 2
    MaxStored = 3
    Capture <- CaptureFile
    nonce_of <- NonceOf
    snapshot_of <- SnapshotOf
    NoSnapshot = NoSnapshot
INVARIANTS
    DetectionTypeOK
    OneAlertPerWindow
    SilenceHasACause
    EmittedOnce
    LiveAlertsAreFound
    RollupsDoNotOvercount
    SnipersWereSignaled
    MarketsAreComplete
    BurstsAreReported
    WatchedWalletsTraded
    FundingIsBacked
    WindowIsFetched
    JudgedAlike
CHECK_DEADLOCK FALSE
