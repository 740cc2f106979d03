SPECIFICATION Spec
CONSTANTS
    r1 = r1
    r2 = r2
    r3 = r3
    NoThread = NoThread
    Thread = {r1, r2}
    Retries = 2
    MaxRequests = 4
INVARIANTS
    TerminalTypeOK
    OneNativeCall
    SomeoneCanMove
    ConnectedHasSession
    TerminalInv
PROPERTIES
    NoHalfOpenSession
    EveryRequestAnswered
    HealthyTerminalConnects
