\* Two wallets with one source; the docstring of insert_many is refuted.
SPECIFICATION Spec
CONSTANTS
    Workers = {k1}
    Wallets = {w1, w2}
    Transfers = {t1, t2, t3}
    chain_of <- SharedSource
    Profiles = {p1, p2}
    NoProfile = NoProfile
    w1 = w1
    w2 = w2
    t1 = t1
    t2 = t2
    t3 = t3
INVARIANT
    SkipsDuplicates
