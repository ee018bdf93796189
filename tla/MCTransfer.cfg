SPECIFICATION Spec
CONSTANTS
    Users = {u1, u2}
    Devices = {d1}
    KeyIDs = {k1}
    TxIDs = {i1}
    Characters = {"A", "B", "C", ":"}
    Orders <- MCOrders
    Submissions = {t1, t2}
    Deliveries = {x1, x2}
    TicksPerSecond = 1
    TokenTTL = 0
    ClientTimeout = 0
    Horizon = 0
    None = None
SYMMETRY Symmetry
INVARIANTS TypeOK LedgerAuthorised SuccessMeansExecuted
