SPECIFICATION FairSpec
CONSTANTS
    Calls = {c1, c2, c3, c4}
    MaxRequests = 3
    MinRequests = 5
    Interval = 1
    Timeout = 1
    ClientTimeout = 2
    Load = 6
INVARIANTS TypeOK CountsAddUp ProbesBounded ProbesDecide
PROPERTY Recovers
