SPECIFICATION Spec
CONSTANTS
    Browsers = {b1, b2}
    Sessions = {s1, s2}
    Tokens = {t1, t2, t3}
    Requests = {r1, r2, r3, r4}
    None = None
SYMMETRY Symmetry
INVARIANTS TypeOK SessionKept CookieBinding LogoutSticks
CHECK_DEADLOCK FALSE
