SPECIFICATION Spec
CONSTANTS
    Clients = {c1}
    Capacity = 2
    RefillRate = 1
    RefillPeriod = 2
    Second = 2
    MaxAhead = 2
    MaxBehind = 2
    Horizon = 16
    None = None
INVARIANTS TypeOK RateBound RetryAfterSuffices
PROPERTY ImplementsBucket
