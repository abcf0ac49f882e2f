\* One request at a time.
SPECIFICATION Spec
CONSTANTS
    r1 = r1
    r2 = r2
    u1 = u1
    u2 = u2
    Requests = {r1}
    LocalSuperadmin = TRUE
    EnvKey = ""
    CliFound = FALSE
    MaxOps = 3
    Pollers = {u1}
    Odd = Odd
    Tags = {1}
    Begins = {}
PROPERTY KeySurvives
CHECK_DEADLOCK FALSE
