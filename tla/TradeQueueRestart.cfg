\* Two runs of capture-trades.py, one after the other; "group-exists is fine"
\* is refuted.
SPECIFICATION QueueSpec
CONSTANTS
    MaxEntries = 4
    max_len = 2
    Unreadable = {1}
    count = 3
    Captures = {c1, c2}
    worker = w
PROPERTY
    ExistingGroupIsFine
CHECK_DEADLOCK FALSE
