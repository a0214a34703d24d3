SPECIFICATION Spec
CONSTANTS
    a1 = a1
    a2 = a2
    u1 = u1
    u2 = u2
    u3 = u3
    n1 = n1
    n2 = n2
    n3 = n3
    x1 = x1
    x2 = x2
    Wallets = {a1, a2}
    Users = {u1, u2}
    Nonces = {n1, n2, n3}
    Unlinks = {x1, x2}
    MaxStops = 1
    MaxGoogle = 1
SYMMETRY Symmetry
INVARIANTS
    TypeOK
    NoneIsStranded
PROPERTIES
    KeepsAWayIn
CHECK_DEADLOCK FALSE
