\* The pipeline's use; the docstring of recovery_timeout_seconds is refuted.
SPECIFICATION RunningSpec
CONSTANTS
    Channels = {discord}
    Callers = {pipeline}
    failure_threshold = 2
    recovery_timeout = 2
    half_open_max_attempts = 2
INVARIANT
    HalfOpensAfterTimeout
