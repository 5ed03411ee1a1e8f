SPECIFICATION Spec
CONSTANTS
    c1 = c1
    c2 = c2
    l1 = l1
    l2 = l2
    k1 = k1
    Caller = {c1, c2}
    Lister = {c2}
    Closer = {x1}
    Loop = {l1, l2}
    Homes <- MCHomes
    Key = {k1, k2}
    KeysOf <- MCKeysOf
    Session = {s1, s2, s3}
    MaxMishaps = 1
    None = None
INVARIANT NeverForeign
INVARIANT AtMostOnce
PROPERTY DiscardSparesLive
PROPERTY SweepSparesCalls
PROPERTY NeverParked
CHECK_DEADLOCK FALSE
