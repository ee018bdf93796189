SPECIFICATION Spec
CONSTANTS
    Browsers = {b1, b2}
    Flows = {f1, f2}
    Codes = {c1}
    Requests = {r1, r2}
    SessionTTL = 0
    CookieTTL = 1
    Horizon = 1
    None = None
INVARIANTS TypeOK LoginBinding VerifierServesItsLogin PendingLoginKept
PROPERTY DeadSessionRefused
