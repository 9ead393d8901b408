SPECIFICATION FairSpec
CONSTANTS
    s1 = s1
    s2 = s2
    trip = trip
    Entities = {trip}
    Sockets = {s1, s2}
    SeenLimit = 1
    Skew = 0
    MaxRuns = 2
    MaxRow = 2
    Unlisted = {1}
    MaxLoads = 1
INVARIANTS
    OneLinkPerRun
    IgnoredIsLoaded
PROPERTIES
    QuietAfterUnmount
    ScreenCatchesUp
    StaysConnected
CHECK_DEADLOCK FALSE
