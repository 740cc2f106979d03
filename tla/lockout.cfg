SPECIFICATION Spec
CONSTANTS
    None = None
    r1 = r1
    r2 = r2
    r3 = r3
    r4 = r4
    Thread = {r1, r2, r3, r4}
    MaxFailures = 3
    Window = 3
    Lockout = 2
INVARIANTS
    TypeOK
    LateFailuresBounded
    LockInv
    BurstInv
PROPERTIES
    VerdictPrecedesLock
    BurstLocks
    LockoutEnds
