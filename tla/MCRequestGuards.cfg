SPECIFICATION GuardSpec
CONSTANTS
    Visitors = {v1, v2}
    Keys = {k1, k2}
    Calls = {p1, p2}
    Second = 2
    Limit = 1
    Burst = 2
    Ttl = 4
    MaxVisitors = 1
    MaxRecords = 1
    None = None
CHECK_DEADLOCK FALSE
INVARIANTS
    
    RetryAfterIsEnough
    ExecutionsOverlap
