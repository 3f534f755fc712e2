\* The pipeline: one dispatch at a time, two channels.
SPECIFICATION FairSpec
CONSTANTS
    Channels = {discord, telegram}
    Callers = {pipeline}
    failure_threshold = 2
    recovery_timeout = 2
    half_open_max_attempts = 2
PROPERTIES
    ImplementsCircuitBreaker
    RecoversWithinBudget
