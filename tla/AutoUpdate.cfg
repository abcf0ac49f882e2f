\* Two requests at a time and two polls at a time.
SPECIFICATION Spec
CONSTANTS
    r1 = r1
    r2 = r2
    u1 = u1
    u2 = u2
    Requests = {r1, r2}
    LocalSuperadmin = TRUE
    EnvKey = "e"
    CliFound = FALSE
    MaxOps = 3
    Pollers = {u1, u2}
    Odd = Odd
    Tags = {1, 2, 3, Odd}
    Begins <- MCBegins
SYMMETRY UpdateSymmetry
INVARIANTS AnswersReflectSettings BumpsAreRebuilt
PROPERTIES PasswordSurvives OnlyRacesLowerThePin
CHECK_DEADLOCK FALSE
