SPECIFICATION Spec
CONSTANTS
    k1 = k1
    k2 = k2
    p1 = p1
    p2 = p2
    Keys <- MCKeys
    Garbage = Garbage
    Passwords <- MCPasswords
    Workers = {w1, w2}
    Requests <- MCRequests
    MaxImports = 1
    MaxHarmed = 1
SYMMETRY Symmetry
INVARIANTS
    KnownOpens
    NeverAnotherKey
