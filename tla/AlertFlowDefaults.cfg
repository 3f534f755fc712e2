\* The pipeline with its own constants; the README's promise is refuted.
SPECIFICATION Spec
CONSTANTS
    Workers = {p1}
    Wallets = {w1, w2}
    Markets = {m1}
    Nonces <- McNonces
    Ages <- McAges
    Notionals <- McNotionals
    Categories <- McCategories
    alert_threshold <- DefaultThreshold
    DryRun = {}
    MaxTrades = 2
INVARIANT
    MostSuspiciousIsAlerted
CHECK_DEADLOCK FALSE
