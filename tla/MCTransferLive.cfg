SPECIFICATION FairSpec
CONSTANTS
    Users = {u1}
    Devices = {d1}
    KeyIDs = {k1}
    TxIDs = {i1}
    Characters = {"A", "B", "C", ":"}
    Orders <- MCOrdersApart
    Submissions = {t1}
    Deliveries = {x1, x2}
    TicksPerSecond = 2
    TokenTTL = 0
    ClientTimeout = 1
    Horizon = 3
    None = None
INVARIANTS LedgerAsSigned TokenWindow
PROPERTY EdgeAnswers
