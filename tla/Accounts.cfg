SPECIFICATION Spec
CONSTANTS
    None = None
    Sentinel = Sentinel
    Emails = {e1, e2}
    AdminEmail = e1
    Passwords = {p1, p2}
    Codes = {k1}
    Requests = {r1, r2}
    Providers = TRUE
    Faults = {"record"}
    MaxFailed = 2
    Window = 1
    Duration = 2
    TokenLife = 1
    PartialLife = 1
    MaxRequests = 4
SYMMETRY Symmetry
INVARIANTS OvershootIsBounded RevokedTokensStayOut UsedCodesAreGone
CHECK_DEADLOCK FALSE
