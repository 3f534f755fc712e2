\* Three callers of dispatch() race on one channel.
SPECIFICATION Spec
CONSTANTS
    Channels = {discord}
    Callers = {d1, d2, d3}
    failure_threshold = 2
    recovery_timeout = 2
    half_open_max_attempts = 2
INVARIANTS
    BreakerConsistent
    ProbesBounded
PROPERTIES
    ReportedSentWasAccepted
