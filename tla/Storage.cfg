\* Two pipelines, whose wallets funded each other, so that sessions wait for
\* one another, meet duplicates of their own and run into deadlocks; one
\* address in two web requests and a drain; two addresses of an edition.
SPECIFICATION StorageSpec
CONSTANTS
    Workers = {k1, k2}
    Wallets = {w1, w2}
    Transfers = {t1, t2}
    chain_of <- FundedEachOther
    Profiles = {p1, p2}
    NoProfile = NoProfile
    w1 = w1
    w2 = w2
    t1 = t1
    t2 = t2
    t3 = t3
    Emails = {e1}
    NoRow = NoRow
    Requests = {r1, r2}
    Drains = {d1}
    ALLOWED_CADENCES = {daily}
    DEFAULT_BOUNCE_THRESHOLD = 2
    MaxRows = 2
    MaxRecords = 2
    MaxBounces = 2
    MaxSessions = 2
    Addresses = {a1, a2}
    MaxMails = 2
INVARIANTS
    RecipientsOptedIn
    ChargedBouncesAreOnRecord
    LedgerIsOfMailsSent
PROPERTIES
    ImplementsAtomicStore
    SessionsEnd
    OutForGood
