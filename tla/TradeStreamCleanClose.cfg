\* A clean close by the feed; the docstring of start() is refuted.
SPECIFICATION StreamFairSpec
CONSTANTS
    Starters = {loop}
    Conns = {c1, c2, c3}
    NoConn = NoConn
    MaxFrames = 2
    initial_delay = 1
    max_delay = 3
PROPERTY
    ReconnectsWhenClosed
