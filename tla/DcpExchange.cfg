SPECIFICATION FairSpec
CONSTANTS
    a = a
    b = b
    Ops = {a, b}
    HasBody = {a}
    Unreachable = {b}
    RetryCount <- OneRetries
    MaxConns = 1
    Needed = 1
    Reqs <- MCReqs
INVARIANTS
    NoLostWakeup
    
    BodyCarriedOutOnce
    JoinIsRight
PROPERTIES
    
    
    EveryRequestAnswered
CHECK_DEADLOCK FALSE
