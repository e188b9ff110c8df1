\* Four requests of any kind, two pre-keys and one failure.
SPECIFICATION Spec
CONSTANTS
    r1 = r1
    r2 = r2
    r3 = r3
    r4 = r4
    NoKey = NoKey
    Requests = {r1, r2, r3, r4}
    KeyIds = {1, 2}
    MaxFaults = 1
SYMMETRY MCSymmetry
INVARIANTS
    TypeOK
    RevokedForGood
    LatestServed
    NeverKeyless
    LaterClaimsDiffer
    NobodyStuck
CHECK_DEADLOCK FALSE
