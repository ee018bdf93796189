SPECIFICATION Spec
CONSTANTS
    Clients = {c1, c2}
    Capacity = 2
    RefillRate = 2
    RefillPeriod = 3
    Times <- MCTimes
    None = None
INVARIANTS TypeOK RateBound
CHECK_DEADLOCK FALSE
