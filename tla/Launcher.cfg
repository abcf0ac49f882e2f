\* Three launchers, on POSIX and on Windows, with a pull, a fault, or both; crashes leave the window at any time.
SPECIFICATION FairSpec
CONSTANTS
    p1 = p1
    Ports = {p1}
    DefaultPort = p1
    Starts <- MCStarts
    MaxLaunches = 3
    MaxRapidCrashes = 2
    MaxVersion = 1
INVARIANTS HashNeverAhead ServersAreSupervised
PROPERTIES FightsEndServed
CHECK_DEADLOCK FALSE
