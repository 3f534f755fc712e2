\* One process that is sent up to three signals; two streams, silent after a
\* tick, under two health loops that a start() during a stop() makes; an
\* analysis and another call of the chain client. A process ends: the system
\* may stop.
SPECIFICATION ServicesSpec
CONSTANTS
    MaxSignals = 3
    Streams = {trades, orders}
    Loops = {l1, l2}
    NoLoop = NoLoop
    Callers = {admin}
    stale_threshold = 0
    Analyses = {y1}
    OtherCalls = {o1}
    client_ttl = 2
    profile_ttl = 1
    recovery_interval = 1
    max_retries = 2
    max_tokens = 1
INVARIANTS
    ServicesHaveConnections
    StoppedIsClean
    HealthyIsNotSilent
    ProfileIsRecent
PROPERTIES
    SignalEndsProcess
    ChangeIsNotified
    RecoveredPrimaryIsUsed
CHECK_DEADLOCK FALSE
