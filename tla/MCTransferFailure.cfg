SPECIFICATION Spec
CONSTANTS
    Users = {u1}
    Devices = {d1}
    KeyIDs = {k1}
    TxIDs = {i1}
    Characters = {"A", "B", "C", ":"}
    Orders <- MCOrders
    Submissions = {t1}
    Deliveries = {x1, x2}
    TicksPerSecond = 1
    TokenTTL = 1
    ClientTimeout = 1
    Horizon = 2
    None = None
INVARIANT FailureMeansNotExecuted
