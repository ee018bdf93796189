SPECIFICATION Spec
CONSTANTS
    Browsers = {b1}
    Flows = {f1}
    Codes = {c1}
    Requests = {r1, r2}
    SessionTTL = 1
    CookieTTL = 3
    Horizon = 3
    None = None
INVARIANT VerifierSentOnce
