SPECIFICATION Spec
CONSTANTS
    c1 = c1
    c2 = c2
    l1 = l1
    l2 = l2
    k1 = k1
    Caller = {c1, c2, c3}
    Lister = {}
    Closer = {x1}
    Loop = {l1}
    Homes <- MCHomes
    Key = {k1, k2, k3}
    KeysOf <- AnyKey
    Session = {s1, s2, s3, s4}
    MaxMishaps = 1
    None = None
SYMMETRY KeySymmetry
PROPERTY ClosesAll
CHECK_DEADLOCK FALSE
